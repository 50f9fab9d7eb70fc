-------------------------- MODULE RuztaCacheProofs --------------------------
(***************************************************************************)
(* Proofs about RuztaCache, for any number of threads, scripts, references *)
(* and objects and any files: the loader implements the registry, and what *)
(* raise_status and the tables of scripts keep.                            *)
(***************************************************************************)
EXTENDS RuztaCache, RuztaParserRegistryProofs, SequenceTheorems

(***************************************************************************)
(* The inductive invariant.                                                *)
(***************************************************************************)
Trees == Content \cup {EmptySource}

StageRecord == [status : EMPTY..FULLY_SOLVED, ok : BOOLEAN,
                tree : Content \cup {EmptySource, Nil}, base : RefIds \cup {Nil}]

ScriptRecord == [path : Scripts \cup {Nil}, source : Content \cup {Nil},
                 valid : BOOLEAN, reloading : BOOLEAN, initialized : BOOLEAN]

FrameRecord == [op : {"raise", "reload", "finish", "full", "query"},
                pc : {"start", "stage", "lost", "flag", "look", "announce", "has",
                      "get", "compare", "remove", "release", "parse", "analyzed",
                      "compiled", "depends", "compiling", "reloaded"},
                path : Scripts \cup {Nil}, ref : RefIds \cup {Nil},
                obj : Objs \cup {Nil}, target : EMPTY..FULLY_SOLVED,
                todo : SUBSET Scripts, cur : Scripts \cup {Nil},
                err : BOOLEAN, fromDisk : BOOLEAN]

(* What is parsed has a tree.  A base class is among what the parser       *)
(* depends on, and no set of parsers has all its base classes within.      *)
Rooted(st) == \A S \in SUBSET RefIds : S # {} => \E r \in S : st[r].base \notin S

StagesSound(g, st) ==
  /\ st \in [RefIds -> StageRecord]
  /\ \A r \in RefIds : st[r].status # EMPTY => st[r].tree \in Trees
  /\ \A r \in RefIds : st[r].base # Nil =>
       r \in Live(g) /\ st[r].base \in g.ref[r].deps
  /\ Rooted(st)

(* A script is new or has a path and a text; one that is cached is there.  *)
ScriptsSound(sc, keep, sh, fu) ==
  /\ sc \in [Objs -> ScriptRecord] /\ keep \subseteq Objs
  /\ sh \in [Scripts -> Objs \cup {Nil}]
  /\ fu \in [Scripts -> Objs \cup {Nil, Null}]
  /\ \A o \in Objs : sc[o] # NoScript => sc[o].path # Nil /\ sc[o].source # Nil
  /\ \A p \in Scripts, o \in Objs : o \in {sh[p], fu[p]} => sc[o].path # Nil

(* A frame's parser and script are there.  While a stage runs its parser   *)
(* is of that stage at least, and depends on the one that is visited.      *)
RaiseSound(f, g, st) ==
  /\ f.ref # Nil /\ f.pc \in {"start", "stage", "lost"}
  /\ f.cur # Nil => /\ f.pc = "stage"
                    /\ \E d \in g.ref[f.ref].deps : g.ref[d].path = f.cur
  /\ f.pc = "stage" => st[f.ref].status >= INHERITANCE_SOLVED

(* A reload holds no parser until it gets one, and knows its path by then. *)
Unparsed == {"start", "flag", "look", "announce", "has", "get", "parse"}
Checking == {"look", "announce", "has", "get", "compare", "remove", "release"}

ReloadSound(f) ==
  /\ f.obj # Nil
  /\ f.pc \in Unparsed => f.ref = Nil
  /\ f.pc \in Checking => f.path # Nil

FrameSound(f, g, st, sc) ==
  /\ f.ref # Nil => f.ref \in Live(g)
  /\ f.obj # Nil => sc[f.obj].path # Nil
  /\ f.op = "raise" => RaiseSound(f, g, st)
  /\ f.op = "reload" => ReloadSound(f)
  /\ f.op \in {"finish", "full"} => f.path # Nil
  /\ f.op = "full" /\ f.pc = "reloaded" => f.obj # Nil

(* Above an activation of raise_status there are only such: the stages it  *)
(* runs ask for inheritance, and not again of a parser at work.            *)
Nested(s) ==
  \A i, j \in 1..Len(s) : i < j /\ s[j].op = "raise" =>
    /\ s[i].op = "raise" /\ s[i].target = INHERITANCE_SOLVED
    /\ s[j].pc \in {"stage", "lost"}
    /\ s[i].ref = s[j].ref /\ s[j].pc = "stage" => s[i].pc = "start"

StackSound(s, g, st, sc) ==
  /\ s \in Seq(FrameRecord) /\ Nested(s)
  /\ \A i \in 1..Len(s) : FrameSound(s[i], g, st, sc)

StacksSound(k, g, st, sc) ==
  /\ k \in [Threads -> Seq(FrameRecord)]
  /\ \A t \in Threads : StackSound(k[t], g, st, sc)

Refs(s) == {s[i].ref : i \in 1..Len(s)}
Pinned(k) == {r \in RefIds : \E t \in Threads : r \in Refs(k[t])}

CoreSound(g, pn, st, sc, keep, sh, fu, k) ==
  /\ Sound(g) /\ pn = Pinned(k)
  /\ StagesSound(g, st) /\ ScriptsSound(sc, keep, sh, fu)
  /\ StacksSound(k, g, st, sc)

Core == CoreSound(reg, pins, stage, scr, kept, shallow_ruzta_cache,
                  full_ruzta_cache, stack)

TablesTyped(dk, dep, rt) ==
  /\ dk \in [Scripts -> Content \cup {Nil}]
  /\ dep \in [Scripts -> SUBSET Scripts]
  /\ rt \in [Threads -> BOOLEAN]

CacheIInv ==
  Core /\ TablesTyped(disk, dependencies, ret) /\ events \in 0..MaxEvents

-----------------------------------------------------------------------------
(***************************************************************************)
(* Sequences of frames: one is put on top, one is taken off.               *)
(***************************************************************************)
LEMMA PutOnTop ==
  ASSUME NEW S, NEW s \in Seq(S), NEW e \in S
  PROVE  /\ <<e>> \o s \in Seq(S)
         /\ Len(<<e>> \o s) = Len(s) + 1
         /\ (<<e>> \o s)[1] = e
         /\ \A j \in 1..Len(s) + 1 :
              j # 1 => j - 1 \in 1..Len(s) /\ (<<e>> \o s)[j] = s[j - 1]
<1>1. <<e>> \in Seq(S) /\ Len(<<e>>) = 1 /\ <<e>>[1] = e
  OBVIOUS
<1>2. /\ <<e>> \o s \in Seq(S)
      /\ Len(<<e>> \o s) = 1 + Len(s)
      /\ \A i \in 1..1 + Len(s) :
           (<<e>> \o s)[i] = IF i <= 1 THEN <<e>>[i] ELSE s[i - 1]
  BY <1>1, ConcatProperties
<1>3. Len(s) \in Nat
  OBVIOUS
<1> QED
  BY <1>1, <1>2, <1>3

LEMMA TakenOff ==
  ASSUME NEW S, NEW s \in Seq(S), s # <<>>
  PROVE  /\ Len(s) \in Nat \ {0} /\ s[1] \in S
         /\ Tail(s) \in Seq(S) /\ Len(Tail(s)) = Len(s) - 1
         /\ \A i \in 1..Len(s) - 1 : i + 1 \in 1..Len(s) /\ Tail(s)[i] = s[i + 1]
<1>1. Len(s) \in Nat \ {0}
  BY EmptySeq
<1>2. s[1] \in S
  BY <1>1
<1>3. /\ Tail(s) \in Seq(S) /\ Len(Tail(s)) = Len(s) - 1
      /\ \A i \in 1..Len(Tail(s)) : Tail(s)[i] = s[i + 1]
  BY HeadTailProperties
<1> QED
  BY <1>1, <1>2, <1>3

(* The frame on top is replaced, and possibly one is put above it.         *)
LEMMA TopReplaced ==
  ASSUME NEW S, NEW s \in Seq(S), s # <<>>, NEW f \in S
  PROVE  /\ Len(s) \in Nat \ {0} /\ s[1] \in S
         /\ <<f>> \o Tail(s) \in Seq(S)
         /\ Len(<<f>> \o Tail(s)) = Len(s)
         /\ (<<f>> \o Tail(s))[1] = f
         /\ \A i \in 2..Len(s) : (<<f>> \o Tail(s))[i] = s[i]
<1>1. /\ Len(s) \in Nat \ {0} /\ s[1] \in S
      /\ Tail(s) \in Seq(S) /\ Len(Tail(s)) = Len(s) - 1
      /\ \A i \in 1..Len(s) - 1 : i + 1 \in 1..Len(s) /\ Tail(s)[i] = s[i + 1]
  BY TakenOff
<1>2. /\ <<f>> \o Tail(s) \in Seq(S)
      /\ Len(<<f>> \o Tail(s)) = Len(s) - 1 + 1
      /\ (<<f>> \o Tail(s))[1] = f
      /\ \A j \in 1..Len(s) - 1 + 1 : j # 1 =>
           j - 1 \in 1..Len(s) - 1 /\ (<<f>> \o Tail(s))[j] = Tail(s)[j - 1]
  BY <1>1, PutOnTop
<1>3. \A i \in 2..Len(s) : i \in 1..Len(s) - 1 + 1 /\ i # 1 /\ (i - 1) + 1 = i
  BY <1>1
<1> QED
  BY <1>1, <1>2, <1>3

LEMMA TwoOnTop ==
  ASSUME NEW S, NEW s \in Seq(S), NEW a \in S, NEW b \in S
  PROVE  <<a, b>> \o s = <<a>> \o (<<b>> \o s)
<1>1. <<a>> \in Seq(S) /\ <<b>> \in Seq(S) /\ <<a, b>> \in Seq(S)
  OBVIOUS
<1> DEFINE n == <<a, b>> \o s
           m == <<a>> \o (<<b>> \o s)
<1>2. /\ n \in Seq(S) /\ Len(n) = 2 + Len(s)
      /\ \A i \in 1..2 + Len(s) : n[i] = IF i <= 2 THEN <<a, b>>[i] ELSE s[i - 2]
  BY <1>1, ConcatProperties
<1>3. /\ <<b>> \o s \in Seq(S)
      /\ Len(<<b>> \o s) = Len(s) + 1
      /\ (<<b>> \o s)[1] = b
      /\ \A j \in 1..Len(s) + 1 :
           j # 1 => j - 1 \in 1..Len(s) /\ (<<b>> \o s)[j] = s[j - 1]
  BY PutOnTop
<1>4. /\ m \in Seq(S)
      /\ Len(m) = Len(s) + 1 + 1
      /\ m[1] = a
      /\ \A j \in 1..Len(s) + 1 + 1 :
           j # 1 => j - 1 \in 1..Len(s) + 1 /\ m[j] = (<<b>> \o s)[j - 1]
  BY <1>3, PutOnTop
<1> HIDE DEF n, m
<1>5. Len(s) \in Nat
  OBVIOUS
<1>6. \A i \in 1..2 + Len(s) : n[i] = m[i]
  <2> TAKE i \in 1..2 + Len(s)
  <2>1. CASE i = 1
    BY <1>2, <1>4, <1>5, <2>1
  <2>2. CASE i = 2
    BY <1>2, <1>3, <1>4, <1>5, <2>2
  <2>3. CASE i # 1 /\ i # 2
    <3>1. i \in 1..Len(s) + 1 + 1 /\ i - 1 \in 1..Len(s) + 1 /\ i - 1 # 1
          /\ (i - 1) - 1 = i - 2 /\ ~ (i <= 2)
      BY <1>5, <2>3
    <3> QED
      BY <1>2, <1>3, <1>4, <2>3, <3>1
  <2> QED
    BY <2>1, <2>2, <2>3
<1>7. n = m
  <2>1. Len(n) = Len(m)
    BY <1>2, <1>4, <1>5
  <2> QED
    BY <1>2, <1>4, <1>6, <2>1, SeqEqual
<1> QED
  BY <1>7 DEF n, m

-----------------------------------------------------------------------------
(***************************************************************************)
(* A thread goes on within its activation on top, calls, or returns.       *)
(***************************************************************************)

(* What a new version f of the activation e on top must have kept.         *)
GoesOn(e, f) == f.op = e.op /\ f.ref = e.ref /\ f.target = e.target

LEMMA BecomeSound ==
  ASSUME NEW g, NEW st, NEW sc, NEW s, StackSound(s, g, st, sc), s # <<>>,
         NEW f \in FrameRecord, FrameSound(f, g, st, sc),
         f.op = "raise" =>
           /\ GoesOn(s[1], f)
           /\ \/ f.pc \in {"start", s[1].pc}
              \/ \A j \in 2..Len(s) :
                   ~ (s[j].op = "raise" /\ s[j].pc = "stage" /\ s[j].ref = f.ref),
         s[1].op = "raise" => f.op = "raise"
  PROVE  StackSound(<<f>> \o Tail(s), g, st, sc)
<1> DEFINE n == <<f>> \o Tail(s)
<1>1. s \in Seq(FrameRecord) /\ Nested(s)
      /\ \A i \in 1..Len(s) : FrameSound(s[i], g, st, sc)
  BY DEF StackSound
<1>2. /\ Len(s) \in Nat \ {0} /\ n \in Seq(FrameRecord) /\ Len(n) = Len(s)
      /\ n[1] = f /\ \A i \in 2..Len(s) : n[i] = s[i]
  BY <1>1, TopReplaced
<1> HIDE DEF n
<1>3. \A i \in 1..Len(n) : FrameSound(n[i], g, st, sc)
  <2> TAKE i \in 1..Len(n)
  <2>1. CASE i = 1
    BY <1>2, <2>1
  <2>2. CASE i # 1
    <3>1. i \in 2..Len(s) /\ i \in 1..Len(s)
      BY <1>2, <2>2
    <3> QED
      BY <1>1, <1>2, <3>1
  <2> QED
    BY <2>1, <2>2
<1>4. Nested(n)
  <2> SUFFICES ASSUME NEW i \in 1..Len(n), NEW j \in 1..Len(n), i < j, n[j].op = "raise"
               PROVE  /\ n[i].op = "raise" /\ n[i].target = INHERITANCE_SOLVED
                      /\ n[j].pc \in {"stage", "lost"}
                      /\ n[i].ref = n[j].ref /\ n[j].pc = "stage" => n[i].pc = "start"
    BY DEF Nested
  <2>1. j \in 2..Len(s) /\ i \in 1..Len(s) /\ j \in 1..Len(s) /\ 1 \in 1..Len(s)
    BY <1>2
  <2>2. n[j] = s[j]
    BY <1>2, <2>1
  <2>3. /\ s[i].op = "raise" /\ s[i].target = INHERITANCE_SOLVED
        /\ s[j].pc \in {"stage", "lost"}
        /\ s[i].ref = s[j].ref /\ s[j].pc = "stage" => s[i].pc = "start"
    BY <1>1, <2>1, <2>2 DEF Nested
  <2>4. CASE i = 1
    BY <1>2, <2>1, <2>2, <2>3, <2>4 DEF GoesOn
  <2>5. CASE i # 1
    <3>1. n[i] = s[i]
      BY <1>2, <2>1, <2>5
    <3> QED
      BY <2>2, <2>3, <3>1
  <2> QED
    BY <2>4, <2>5
<1> QED
  BY <1>2, <1>3, <1>4 DEF StackSound, n

(* Something new is put on top of what is not a raise, or of a stage.      *)
LEMMA PushSound ==
  ASSUME NEW g, NEW st, NEW sc, NEW s, StackSound(s, g, st, sc),
         NEW f \in FrameRecord, FrameSound(f, g, st, sc),
         s # <<>> /\ s[1].op = "raise" =>
           /\ f.op = "raise" /\ f.target = INHERITANCE_SOLVED /\ f.pc = "start"
           /\ s[1].pc = "stage"
  PROVE  StackSound(<<f>> \o s, g, st, sc)
<1> DEFINE n == <<f>> \o s
<1>1. s \in Seq(FrameRecord) /\ Nested(s)
      /\ \A i \in 1..Len(s) : FrameSound(s[i], g, st, sc)
  BY DEF StackSound
<1>2. /\ n \in Seq(FrameRecord) /\ Len(n) = Len(s) + 1 /\ n[1] = f
      /\ \A j \in 1..Len(s) + 1 :
           j # 1 => j - 1 \in 1..Len(s) /\ n[j] = s[j - 1]
  BY <1>1, PutOnTop
<1>3. Len(s) \in Nat
  BY <1>1
<1> HIDE DEF n
<1>4. \A i \in 1..Len(n) : FrameSound(n[i], g, st, sc)
  BY <1>1, <1>2
<1>5. Nested(n)
  <2> SUFFICES ASSUME NEW i \in 1..Len(n), NEW j \in 1..Len(n), i < j, n[j].op = "raise"
               PROVE  /\ n[i].op = "raise" /\ n[i].target = INHERITANCE_SOLVED
                      /\ n[j].pc \in {"stage", "lost"}
                      /\ n[i].ref = n[j].ref /\ n[j].pc = "stage" => n[i].pc = "start"
    BY DEF Nested
  <2>1. j # 1 /\ j - 1 \in 1..Len(s) /\ n[j] = s[j - 1] /\ 1 \in 1..Len(s)
    BY <1>2, <1>3
  <2>2. CASE i # 1
    <3>1. i - 1 \in 1..Len(s) /\ n[i] = s[i - 1] /\ i - 1 < j - 1
      BY <1>2, <1>3, <2>2
    <3> QED
      BY <1>1, <2>1, <3>1 DEF Nested
  <2>3. CASE i = 1
    <3>1. j - 1 # 1 => s[1].op = "raise"
      BY <1>1, <1>3, <2>1 DEF Nested
    <3>2. s[1].op = "raise"
      <4>1. CASE j - 1 = 1
        BY <2>1, <4>1
      <4> QED
        BY <3>1, <4>1
    <3>3. s # <<>>
      BY <2>1
    <3>4. f.op = "raise" /\ f.target = INHERITANCE_SOLVED /\ f.pc = "start"
          /\ s[1].pc = "stage"
      BY <3>2, <3>3
    <3>5. s[j - 1].pc \in {"stage", "lost"}
      <4>1. CASE j - 1 = 1
        BY <3>4, <4>1
      <4>2. CASE j - 1 # 1
        <5>1. 1 < j - 1 /\ s[j - 1].op = "raise"
          BY <1>3, <2>1, <4>2
        <5> QED
          BY <1>1, <2>1, <5>1 DEF Nested
      <4> QED
        BY <4>1, <4>2
    <3> QED
      BY <1>2, <2>1, <2>3, <3>4, <3>5
  <2> QED
    BY <2>2, <2>3
<1> QED
  BY <1>2, <1>4, <1>5 DEF StackSound, n

(* Returning leaves what was below.                                        *)
LEMMA ReturnSound ==
  ASSUME NEW g, NEW st, NEW sc, NEW s, StackSound(s, g, st, sc), s # <<>>
  PROVE  StackSound(Tail(s), g, st, sc)
<1> DEFINE n == Tail(s)
<1>1. s \in Seq(FrameRecord) /\ Nested(s)
      /\ \A i \in 1..Len(s) : FrameSound(s[i], g, st, sc)
  BY DEF StackSound
<1>2. /\ Len(s) \in Nat \ {0} /\ n \in Seq(FrameRecord) /\ Len(n) = Len(s) - 1
      /\ \A i \in 1..Len(s) - 1 : i + 1 \in 1..Len(s) /\ n[i] = s[i + 1]
  BY <1>1, TakenOff
<1> HIDE DEF n
<1>3. \A i \in 1..Len(n) : FrameSound(n[i], g, st, sc)
  BY <1>1, <1>2
<1>4. Nested(n)
  <2> SUFFICES ASSUME NEW i \in 1..Len(n), NEW j \in 1..Len(n), i < j, n[j].op = "raise"
               PROVE  /\ n[i].op = "raise" /\ n[i].target = INHERITANCE_SOLVED
                      /\ n[j].pc \in {"stage", "lost"}
                      /\ n[i].ref = n[j].ref /\ n[j].pc = "stage" => n[i].pc = "start"
    BY DEF Nested
  <2>1. /\ i + 1 \in 1..Len(s) /\ j + 1 \in 1..Len(s) /\ i + 1 < j + 1
        /\ n[i] = s[i + 1] /\ n[j] = s[j + 1]
    BY <1>2
  <2> QED
    BY <1>1, <2>1 DEF Nested
<1> QED
  BY <1>2, <1>3, <1>4 DEF StackSound, n

(* One thread's stack changes.                                             *)
LEMMA ThreadSound ==
  ASSUME NEW g, NEW st, NEW sc, NEW k, StacksSound(k, g, st, sc),
         NEW t \in Threads, NEW n, StackSound(n, g, st, sc)
  PROVE  StacksSound([k EXCEPT ![t] = n], g, st, sc)
BY DEF StacksSound, StackSound

(* What the stacks hold afterwards.                                        *)
HoldsAlso(n, s, R) == \A r \in RefIds : r \in Refs(n) <=> r \in Refs(s) \/ r \in R

LEMMA PinnedMore ==
  ASSUME NEW k, k \in [Threads -> Seq(FrameRecord)], NEW t \in Threads, NEW n, NEW R,
         HoldsAlso(n, k[t], R)
  PROVE  Pinned([k EXCEPT ![t] = n]) = Pinned(k) \cup (R \cap RefIds)
<1> DEFINE m == [k EXCEPT ![t] = n]
<1>1. m[t] = n /\ \A u \in Threads \ {t} : m[u] = k[u]
  OBVIOUS
<1> HIDE DEF m
<1>2. \A r \in RefIds : (\E u \in Threads : r \in Refs(m[u]))
                         <=> (\E u \in Threads : r \in Refs(k[u])) \/ r \in R
  BY <1>1 DEF HoldsAlso
<1> QED
  BY <1>2 DEF Pinned, m

LEMMA PinnedLess ==
  ASSUME NEW k, k \in [Threads -> Seq(FrameRecord)], NEW t \in Threads, NEW n,
         Refs(n) \subseteq Refs(k[t])
  PROVE  Pinned([k EXCEPT ![t] = n]) \subseteq Pinned(k)
<1> DEFINE m == [k EXCEPT ![t] = n]
<1>1. m[t] = n /\ \A u \in Threads \ {t} : m[u] = k[u]
  OBVIOUS
<1> HIDE DEF m
<1> QED
  BY <1>1 DEF Pinned, m

(* The references of a stack whose top is replaced, covered or taken off.  *)
LEMMA RefsReplaced ==
  ASSUME NEW s \in Seq(FrameRecord), s # <<>>, NEW f \in FrameRecord
  PROVE  Refs(<<f>> \o Tail(s)) \cup {s[1].ref} = Refs(s) \cup {f.ref}
<1> DEFINE n == <<f>> \o Tail(s)
<1>1. /\ Len(s) \in Nat \ {0} /\ n \in Seq(FrameRecord) /\ Len(n) = Len(s)
      /\ n[1] = f /\ \A i \in 2..Len(s) : n[i] = s[i]
  BY TopReplaced
<1> HIDE DEF n
<1>2. 1 \in 1..Len(s) /\ \A i \in 1..Len(s) : i = 1 \/ i \in 2..Len(s)
  BY <1>1
<1>3. Refs(n) \subseteq Refs(s) \cup {f.ref}
  BY <1>1, <1>2 DEF Refs
<1>4. Refs(s) \subseteq Refs(n) \cup {s[1].ref}
  BY <1>1, <1>2 DEF Refs
<1>5. f.ref \in Refs(n) /\ s[1].ref \in Refs(s)
  BY <1>1, <1>2 DEF Refs
<1> QED
  BY <1>3, <1>4, <1>5 DEF n

LEMMA RefsPushed ==
  ASSUME NEW s \in Seq(FrameRecord), NEW f \in FrameRecord
  PROVE  Refs(<<f>> \o s) = Refs(s) \cup {f.ref}
<1> DEFINE n == <<f>> \o s
<1>1. /\ n \in Seq(FrameRecord) /\ Len(n) = Len(s) + 1 /\ n[1] = f
      /\ \A j \in 1..Len(s) + 1 :
           j # 1 => j - 1 \in 1..Len(s) /\ n[j] = s[j - 1]
  BY PutOnTop
<1>2. Len(s) \in Nat
  OBVIOUS
<1> HIDE DEF n
<1>3. Refs(n) \subseteq Refs(s) \cup {f.ref}
  BY <1>1, <1>2 DEF Refs
<1>4. \A i \in 1..Len(s) : i + 1 \in 1..Len(n) /\ n[i + 1] = s[i]
  <2> TAKE i \in 1..Len(s)
  <2>1. i + 1 \in 1..Len(s) + 1 /\ i + 1 # 1 /\ (i + 1) - 1 = i
    BY <1>2
  <2> QED
    BY <1>1, <2>1
<1>5. Refs(s) \subseteq Refs(n) /\ f.ref \in Refs(n)
  BY <1>1, <1>2, <1>4 DEF Refs
<1> QED
  BY <1>3, <1>5 DEF n

LEMMA RefsReturned ==
  ASSUME NEW s \in Seq(FrameRecord), s # <<>>
  PROVE  Refs(Tail(s)) \subseteq Refs(s)
BY TakenOff DEF Refs

-----------------------------------------------------------------------------
(***************************************************************************)
(* What a step may do to parsers and scripts while frames hold them.       *)
(***************************************************************************)
Keeps(g, h) ==
  \A r \in Live(g) : /\ r \in Live(h) /\ h.ref[r].path = g.ref[r].path
                     /\ g.ref[r].deps \subseteq h.ref[r].deps

Rises(g, st, new) == \A r \in Live(g) : st[r].status <= new[r].status

PathsStay(sc, new) == \A o \in Objs : sc[o].path # Nil => new[o].path # Nil

LEMMA KeepsAll ==
  ASSUME NEW g, NEW st, st \in [RefIds -> StageRecord], NEW sc
  PROVE  Keeps(g, g) /\ Rises(g, st, st) /\ PathsStay(sc, sc)
BY DEF Keeps, Rises, PathsStay, Live, StageRecord, EMPTY, FULLY_SOLVED

(* What was there still is there for a frame.                              *)
LEMMA FrameKept ==
  ASSUME NEW g, Sound(g), NEW st, NEW sc, NEW h, NEW new, NEW scs,
         st \in [RefIds -> StageRecord], new \in [RefIds -> StageRecord],
         NEW f \in FrameRecord, FrameSound(f, g, st, sc),
         Keeps(g, h), Rises(g, st, new), PathsStay(sc, scs)
  PROVE  FrameSound(f, h, new, scs)
<1>1. f.ref # Nil => f.ref \in Live(g) /\ f.ref \in Live(h) /\ f.ref \in RefIds
  BY DEF FrameSound, Keeps, Live
<1>2. f.obj # Nil => f.obj \in Objs /\ scs[f.obj].path # Nil
  BY DEF FrameSound, PathsStay, FrameRecord
<1>3. f.op = "raise" => RaiseSound(f, h, new)
  <2> SUFFICES ASSUME f.op = "raise" PROVE RaiseSound(f, h, new)
    OBVIOUS
  <2>1. RaiseSound(f, g, st)
    BY DEF FrameSound
  <2>2. f.ref \in Live(g) /\ f.ref \in RefIds
    BY <1>1, <2>1 DEF RaiseSound
  <2>3. ASSUME f.cur # Nil
        PROVE  f.pc = "stage" /\ \E d \in h.ref[f.ref].deps : h.ref[d].path = f.cur
    <3>1. PICK d \in g.ref[f.ref].deps : g.ref[d].path = f.cur
      BY <2>1, <2>3 DEF RaiseSound
    <3>2. d \in Live(g)
      BY <2>2, <3>1 DEF Sound, DepsAreRefs, Live, Registry, RefRecord
    <3> QED
      BY <2>1, <2>2, <2>3, <3>1, <3>2 DEF RaiseSound, Keeps
  <2>4. f.pc = "stage" => new[f.ref].status >= INHERITANCE_SOLVED
    <3>1. st[f.ref].status \in Nat /\ new[f.ref].status \in Nat
      BY <2>2 DEF StageRecord, EMPTY, FULLY_SOLVED
    <3> QED
      BY <2>1, <2>2, <3>1 DEF RaiseSound, Rises, INHERITANCE_SOLVED
  <2> QED
    BY <2>1, <2>3, <2>4 DEF RaiseSound
<1> QED
  BY <1>1, <1>2, <1>3 DEF FrameSound

LEMMA StacksKept ==
  ASSUME NEW g, Sound(g), NEW st, NEW sc, NEW h, NEW new, NEW scs,
         st \in [RefIds -> StageRecord], new \in [RefIds -> StageRecord],
         NEW k, StacksSound(k, g, st, sc),
         Keeps(g, h), Rises(g, st, new), PathsStay(sc, scs)
  PROVE  StacksSound(k, h, new, scs)
<1> SUFFICES ASSUME NEW t \in Threads, NEW i \in 1..Len(k[t])
             PROVE  FrameSound(k[t][i], h, new, scs)
  BY DEF StacksSound, StackSound
<1>1. k[t][i] \in FrameRecord /\ FrameSound(k[t][i], g, st, sc)
  BY ElementOfSeq DEF StacksSound, StackSound
<1> QED
  BY <1>1, FrameKept

-----------------------------------------------------------------------------
(***************************************************************************)
(* Every step ends with the destructors.                                   *)
(***************************************************************************)
HeldRefs(k) == {f.ref : f \in Activations(k)} \ {Nil}
HeldObjs(k) == {f.obj : f \in Activations(k)}

LEMMA HeldByFrames ==
  ASSUME NEW k, k \in [Threads -> Seq(FrameRecord)]
  PROVE  /\ HeldRefs(k) = Pinned(k)
         /\ \A t \in Threads : \A i \in 1..Len(k[t]) :
              k[t][i] \in FrameRecord /\ k[t][i].obj \in HeldObjs(k)
<1>1. \A t \in Threads : \A i \in 1..Len(k[t]) : k[t][i] \in FrameRecord
  BY ElementOfSeq
<1>2. \A f : f \in Activations(k) <=> \E t \in Threads : \E i \in 1..Len(k[t]) : f = k[t][i]
  BY DEF Activations
<1>3. \A r : r \in HeldRefs(k) <=> r \in Pinned(k)
  <2> TAKE r
  <2>1. ASSUME r \in HeldRefs(k) PROVE r \in Pinned(k)
    <3>1. PICK f \in Activations(k) : f.ref = r
      BY <2>1 DEF HeldRefs
    <3>2. PICK t \in Threads : \E i \in 1..Len(k[t]) : f = k[t][i]
      BY <1>2
    <3>3. r \in RefIds
      BY <1>1, <2>1, <3>1, <3>2 DEF HeldRefs, FrameRecord
    <3> QED
      BY <3>1, <3>2, <3>3 DEF Pinned, Refs
  <2>2. ASSUME r \in Pinned(k) PROVE r \in HeldRefs(k)
    <3>1. PICK t \in Threads : r \in Refs(k[t])
      BY <2>2 DEF Pinned
    <3>2. PICK i \in 1..Len(k[t]) : r = k[t][i].ref
      BY <3>1 DEF Refs
    <3>3. k[t][i] \in Activations(k) /\ r # Nil
      BY <1>2, <2>2, RegistryAssumption DEF Pinned
    <3> QED
      BY <3>2, <3>3 DEF HeldRefs
  <2> QED
    BY <2>1, <2>2
<1>4. \A t \in Threads : \A i \in 1..Len(k[t]) : k[t][i].obj \in HeldObjs(k)
  BY <1>2 DEF HeldObjs
<1>5. HeldRefs(k) = Pinned(k)
  <2> DEFINE A == HeldRefs(k)
             B == Pinned(k)
  <2>1. \A r : r \in A <=> r \in B
    BY <1>3
  <2> HIDE DEF A, B
  <2>2. A = B
    BY <2>1
  <2> QED
    BY <2>2 DEF A, B
<1> QED
  BY <1>1, <1>4, <1>5

(* What is held survives, as it is.                                        *)
LEMMA HeldSurvive ==
  ASSUME NEW g, Sound(g), NEW held, held \subseteq Live(g)
  PROVE  /\ held \subseteq Survivors(g, held)
         /\ Survivors(g, held) \subseteq Live(g)
         /\ \A r \in Survivors(g, held) : g.ref[r].deps \subseteq Survivors(g, held)
         /\ \A r \in RefIds : Collected(g, held).ref[r]
              = IF r \in Survivors(g, held) THEN g.ref[r] ELSE Dead
<1>1. \A r \in held : {r} \in SUBSET Live(g) /\ r \in Survivors(g, held)
  BY DEF Survivors
<1>2. /\ Survivors(g, held) \subseteq Live(g)
      /\ \A r \in Survivors(g, held) : g.ref[r].deps \subseteq Survivors(g, held)
  BY SurvivorsClosed DEF Sound
<1>3. \A r \in RefIds : Collected(g, held).ref[r]
              = IF r \in Survivors(g, held) THEN g.ref[r] ELSE Dead
  BY DEF Collected
<1> QED
  BY <1>1, <1>2, <1>3

(* Taking base classes away makes no loop.                                 *)
LEMMA FewerBases ==
  ASSUME NEW st, Rooted(st), NEW new,
         \A r \in RefIds : new[r].base \in {st[r].base, Nil}
  PROVE  Rooted(new)
<1> SUFFICES ASSUME NEW S \in SUBSET RefIds, S # {}
             PROVE  \E r \in S : new[r].base \notin S
  BY DEF Rooted
<1>1. PICK r \in S : st[r].base \notin S
  BY DEF Rooted
<1>2. Nil \notin S
  BY RegistryAssumption
<1> QED
  BY <1>1, <1>2

LEMMA CommittedStages ==
  ASSUME NEW g, Sound(g), NEW st, StagesSound(g, st), NEW held, held \subseteq Live(g)
  PROVE  StagesSound(Collected(g, held),
                     [r \in RefIds |-> IF r \in Survivors(g, held) THEN st[r] ELSE NoTree])
<1> DEFINE S == Survivors(g, held)
           h == Collected(g, held)
           new == [r \in RefIds |-> IF r \in S THEN st[r] ELSE NoTree]
<1>1. /\ S \subseteq Live(g)
      /\ \A r \in RefIds : h.ref[r] = IF r \in S THEN g.ref[r] ELSE Dead
  BY HeldSurvive
<1> HIDE DEF S, h
<1>2. new \in [RefIds -> StageRecord]
  BY DEF StagesSound, NoTree, StageRecord, EMPTY, FULLY_SOLVED
<1>3. \A r \in RefIds : new[r].status # EMPTY => new[r].tree \in Trees
  BY DEF StagesSound, NoTree
<1>4. \A r \in RefIds : new[r].base # Nil => r \in Live(h) /\ new[r].base \in h.ref[r].deps
  <2> SUFFICES ASSUME NEW r \in RefIds, new[r].base # Nil
               PROVE  r \in Live(h) /\ new[r].base \in h.ref[r].deps
    OBVIOUS
  <2>1. r \in S
    BY DEF NoTree
  <2> QED
    BY <1>1, <2>1 DEF StagesSound, Live
<1>5. Rooted(new)
  <2>1. \A r \in RefIds : new[r].base \in {st[r].base, Nil}
    BY DEF NoTree
  <2> HIDE DEF new
  <2> QED
    BY <2>1, FewerBases DEF StagesSound
<1> QED
  BY <1>2, <1>3, <1>4, <1>5 DEF StagesSound, S, h

LEMMA CommittedScripts ==
  ASSUME NEW sc, NEW keep, NEW sh, NEW fu, ScriptsSound(sc, keep, sh, fu),
         NEW held, \A p \in Scripts : sh[p] \in held /\ fu[p] \in held
  PROVE  ScriptsSound([o \in Objs |-> IF o \in held THEN sc[o] ELSE NoScript], keep, sh, fu)
<1> DEFINE m == [o \in Objs |-> IF o \in held THEN sc[o] ELSE NoScript]
<1>1. m \in [Objs -> ScriptRecord]
  BY DEF ScriptsSound, NoScript, ScriptRecord
<1>2. \A o \in Objs : m[o] # NoScript => m[o].path # Nil /\ m[o].source # Nil
  BY DEF ScriptsSound
<1>3. \A p \in Scripts, o \in Objs : o \in {sh[p], fu[p]} => m[o].path # Nil
  BY DEF ScriptsSound
<1> HIDE DEF m
<1> QED
  BY <1>1, <1>2, <1>3 DEF ScriptsSound, m

LEMMA CommittedFrames ==
  ASSUME NEW g, Sound(g), NEW st, NEW sc, NEW k, StacksSound(k, g, st, sc),
         HeldRefs(k) \subseteq Live(g),
         NEW held, HeldObjs(k) \subseteq held
  PROVE  StacksSound(k, Collected(g, HeldRefs(k)),
           [r \in RefIds |-> IF r \in Survivors(g, HeldRefs(k)) THEN st[r] ELSE NoTree],
           [o \in Objs |-> IF o \in held THEN sc[o] ELSE NoScript])
<1> DEFINE S == Survivors(g, HeldRefs(k))
           h == Collected(g, HeldRefs(k))
           new == [r \in RefIds |-> IF r \in S THEN st[r] ELSE NoTree]
           m == [o \in Objs |-> IF o \in held THEN sc[o] ELSE NoScript]
<1>1. /\ HeldRefs(k) \subseteq S
      /\ S \subseteq Live(g)
      /\ \A r \in S : g.ref[r].deps \subseteq S
      /\ \A r \in RefIds : h.ref[r] = IF r \in S THEN g.ref[r] ELSE Dead
  BY HeldSurvive
<1>2. k \in [Threads -> Seq(FrameRecord)]
  BY DEF StacksSound
<1>3. \A t \in Threads : \A i \in 1..Len(k[t]) :
        k[t][i] \in FrameRecord /\ k[t][i].obj \in held
  BY <1>2, HeldByFrames
<1>4. \A t \in Threads : \A i \in 1..Len(k[t]) :
        k[t][i].ref # Nil => k[t][i].ref \in S /\ k[t][i].ref \in RefIds
  <2>1. HeldRefs(k) = Pinned(k)
    BY <1>2, HeldByFrames
  <2> QED
    BY <1>1, <1>3, <2>1 DEF Pinned, Refs, FrameRecord
<1> HIDE DEF S, h
<1> SUFFICES ASSUME NEW t \in Threads, NEW i \in 1..Len(k[t])
             PROVE  FrameSound(k[t][i], h, new, m)
  BY DEF StacksSound, StackSound, S, h
<1> DEFINE f == k[t][i]
<1>5. FrameSound(f, g, st, sc) /\ f \in FrameRecord
  BY <1>3 DEF StacksSound, StackSound
<1>6. f.ref # Nil => f.ref \in S /\ f.ref \in RefIds /\ f.ref \in Live(h)
  BY <1>1, <1>4 DEF Live
<1>7. f.obj # Nil => m[f.obj].path # Nil
  <2>1. f.obj \in Objs \cup {Nil} /\ f.obj \in held
    BY <1>3 DEF FrameRecord
  <2> QED
    BY <1>5, <2>1 DEF FrameSound
<1>8. f.op = "raise" => RaiseSound(f, h, new)
  <2> SUFFICES ASSUME f.op = "raise" PROVE RaiseSound(f, h, new)
    OBVIOUS
  <2>1. RaiseSound(f, g, st)
    BY <1>5 DEF FrameSound
  <2>2. f.ref \in S /\ f.ref \in RefIds /\ h.ref[f.ref] = g.ref[f.ref] /\ new[f.ref] = st[f.ref]
    BY <1>1, <1>6, <2>1 DEF RaiseSound
  <2>3. \A d \in g.ref[f.ref].deps : h.ref[d] = g.ref[d]
    BY <1>1, <2>2 DEF Live
  <2> QED
    BY <2>1, <2>2, <2>3 DEF RaiseSound
<1> QED
  BY <1>5, <1>6, <1>7, <1>8 DEF FrameSound

StepSound ==
  /\ CoreSound(reg', pins', stage', scr', kept', shallow_ruzta_cache',
               full_ruzta_cache', stack')
  /\ TablesTyped(disk', dependencies', ret')
  /\ [Next]_vars

(***************************************************************************)
(* If the tables and frames of a step are sound before its destructors     *)
(* run, they are sound afterwards.                                         *)
(***************************************************************************)
LEMMA Committed ==
  ASSUME NEW g, Sound(g), NEW st, StagesSound(g, st),
         NEW sc, NEW keep, NEW sh, NEW fu, ScriptsSound(sc, keep, sh, fu),
         StacksSound(stack', g, st, sc),
         CommitParsers(g, st), CommitKeeping(keep, sc, sh, fu)
  PROVE  /\ CoreSound(reg', pins', stage', scr', kept', shallow_ruzta_cache',
                      full_ruzta_cache', stack')
         /\ Settle(g, Pinned(stack'))
<1> DEFINE k == stack'
           held == {sh[p] : p \in Scripts} \cup {fu[p] : p \in Scripts}
                     \cup HeldObjs(k) \cup keep
<1>1. k \in [Threads -> Seq(FrameRecord)] /\ HeldRefs(k) = Pinned(k)
  BY HeldByFrames DEF StacksSound
<1>2. /\ Settle(g, HeldRefs(k))
      /\ stage' = [r \in RefIds |-> IF r \in Survivors(g, HeldRefs(k)) THEN st[r] ELSE NoTree]
  <2>1. \E alive \in {Survivors(g, HeldRefs(k))} :
          /\ Settle(g, HeldRefs(k))
          /\ stage' = [r \in RefIds |-> IF r \in alive THEN st[r] ELSE NoTree]
    BY DEF CommitParsers, HeldRefs
  <2> QED
    BY <2>1
<1>3. HeldRefs(k) \subseteq Live(g) /\ pins' = HeldRefs(k) /\ reg' = Collected(g, HeldRefs(k))
  BY <1>2 DEF Settle
<1>4. /\ kept' = keep /\ shallow_ruzta_cache' = sh /\ full_ruzta_cache' = fu
      /\ scr' = [o \in Objs |-> IF o \in held THEN sc[o] ELSE NoScript]
  BY DEF CommitKeeping, HeldObjs
<1>5. HeldObjs(k) \subseteq held /\ \A p \in Scripts : sh[p] \in held /\ fu[p] \in held
  OBVIOUS
<1> HIDE DEF held
<1>6. Sound(reg')
  BY <1>3, SoundCollected
<1>7. StagesSound(reg', stage')
  BY <1>2, <1>3, CommittedStages
<1>8. ScriptsSound(scr', kept', shallow_ruzta_cache', full_ruzta_cache')
  BY <1>4, <1>5, CommittedScripts
<1>9. StacksSound(stack', reg', stage', scr')
  BY <1>2, <1>3, <1>4, <1>5, CommittedFrames
<1> QED
  BY <1>1, <1>2, <1>3, <1>6, <1>7, <1>8, <1>9 DEF CoreSound

-----------------------------------------------------------------------------
(***************************************************************************)
(* The stacks after a step, before its destructors: frames that stay are   *)
(* sound for what the step makes of parsers (g, st) and scripts (sc).      *)
(***************************************************************************)
Allowed(g, st, sc) ==
  /\ Keeps(reg, g) /\ st \in [RefIds -> StageRecord] /\ Rises(reg, stage, st)
  /\ PathsStay(scr, sc)

LEMMA CoreFacts ==
  ASSUME Core
  PROVE  /\ Sound(reg) /\ StagesSound(reg, stage) /\ pins = Pinned(stack)
         /\ ScriptsSound(scr, kept, shallow_ruzta_cache, full_ruzta_cache)
         /\ StacksSound(stack, reg, stage, scr)
         /\ stack \in [Threads -> Seq(FrameRecord)]
         /\ Allowed(reg, stage, scr)
         /\ pins \subseteq RefIds
<1>1. /\ Sound(reg) /\ StagesSound(reg, stage) /\ pins = Pinned(stack)
      /\ ScriptsSound(scr, kept, shallow_ruzta_cache, full_ruzta_cache)
      /\ StacksSound(stack, reg, stage, scr)
  BY DEF Core, CoreSound
<1>2. stage \in [RefIds -> StageRecord]
  BY <1>1 DEF StagesSound
<1>3. Keeps(reg, reg) /\ Rises(reg, stage, stage) /\ PathsStay(scr, scr)
  BY <1>2, KeepsAll
<1>4. pins \subseteq RefIds
  BY <1>1 DEF Pinned
<1> QED
  BY <1>1, <1>2, <1>3, <1>4 DEF Allowed, StacksSound

(* Every stack as it is.                                                   *)
LEMMA AllowedStacks ==
  ASSUME Core, NEW g, NEW st, NEW sc, Allowed(g, st, sc)
  PROVE  StacksSound(stack, g, st, sc)
BY CoreFacts, StacksKept DEF Allowed

(* What is known of the activation on top.                                 *)
LEMMA TopSound ==
  ASSUME Core, NEW t \in Threads, ~ Idle(t)
  PROVE  /\ stack[t] \in Seq(FrameRecord) /\ stack[t] # <<>> /\ Top(t) = stack[t][1]
         /\ Top(t) \in FrameRecord /\ FrameSound(Top(t), reg, stage, scr)
         /\ Top(t).ref # Nil => Top(t).ref \in pins
<1>1. stack[t] \in Seq(FrameRecord) /\ stack[t] # <<>> /\ Top(t) = stack[t][1]
  BY CoreFacts DEF Idle, Top
<1>2. Len(stack[t]) \in Nat \ {0} /\ Top(t) \in FrameRecord
  BY <1>1, TakenOff
<1>3. 1 \in 1..Len(stack[t])
  BY <1>2
<1>4. FrameSound(Top(t), reg, stage, scr)
  BY <1>1, <1>3, CoreFacts DEF StacksSound, StackSound
<1>5. Top(t).ref # Nil => Top(t).ref \in pins
  BY <1>1, <1>2, <1>3, CoreFacts DEF Pinned, Refs, FrameRecord
<1> QED
  BY <1>1, <1>2, <1>4, <1>5

(* A version f of the frame e on top that may take its place.              *)
MayBecome(t, f) ==
  /\ f.op = "raise" =>
       /\ GoesOn(Top(t), f)
       /\ \/ f.pc \in {"start", Top(t).pc}
          \/ \A j \in 2..Len(stack[t]) :
               ~ (stack[t][j].op = "raise" /\ stack[t][j].pc = "stage"
                    /\ stack[t][j].ref = f.ref)
  /\ Top(t).op = "raise" => f.op = "raise"
  /\ Top(t).ref \in {Nil, f.ref}

LEMMA Becomes ==
  ASSUME Core, NEW t \in Threads, ~ Idle(t), NEW g, NEW st, NEW sc, Allowed(g, st, sc),
         NEW f \in FrameRecord, FrameSound(f, g, st, sc), MayBecome(t, f), Become(t, f)
  PROVE  /\ StacksSound(stack', g, st, sc)
         /\ Pinned(stack') = Pinned(stack) \cup ({f.ref} \cap RefIds)
<1> DEFINE n == <<f>> \o Tail(stack[t])
<1>1. stack' = [stack EXCEPT ![t] = n]
  BY CoreFacts DEF Become
<1>2. StacksSound(stack, g, st, sc)
  BY AllowedStacks
<1>3. /\ stack[t] \in Seq(FrameRecord) /\ stack[t] # <<>> /\ Top(t) = stack[t][1]
      /\ Top(t) \in FrameRecord
  BY TopSound
<1>4. StackSound(n, g, st, sc)
  BY <1>2, <1>3, BecomeSound DEF StacksSound, MayBecome
<1>5. Refs(n) \cup {Top(t).ref} = Refs(stack[t]) \cup {f.ref}
  BY <1>3, RefsReplaced
<1>6. Top(t).ref \in Refs(stack[t]) /\ f.ref \in Refs(n)
  <2>1. /\ Len(stack[t]) \in Nat \ {0}
        /\ Len(n) = Len(stack[t]) /\ n[1] = f
    BY <1>3, TopReplaced
  <2>2. 1 \in 1..Len(stack[t])
    BY <2>1
  <2> HIDE DEF n
  <2> QED
    BY <1>3, <2>1, <2>2 DEF Refs
<1> HIDE DEF n
<1>7. StacksSound(stack', g, st, sc)
  BY <1>1, <1>2, <1>4, ThreadSound
<1> DEFINE R == {f.ref}
<1>8. HoldsAlso(n, stack[t], R)
  BY <1>5, <1>6, RegistryAssumption DEF MayBecome, HoldsAlso
<1> HIDE DEF R
<1>9. Pinned(stack') = Pinned(stack) \cup (R \cap RefIds)
  <2>1. stack \in [Threads -> Seq(FrameRecord)]
    BY CoreFacts
  <2>2. Pinned([stack EXCEPT ![t] = n]) = Pinned(stack) \cup (R \cap RefIds)
    BY <1>8, <2>1, PinnedMore
  <2> QED
    BY <1>1, <2>2
<1> QED
  BY <1>7, <1>9 DEF R

(* What may be called from the activation f.                               *)
MayCall(f, e) ==
  f.op = "raise" => /\ e.op = "raise" /\ e.target = INHERITANCE_SOLVED
                    /\ e.pc = "start" /\ f.pc = "stage"

LEMMA Calls ==
  ASSUME Core, NEW t \in Threads, ~ Idle(t), NEW g, NEW st, NEW sc, Allowed(g, st, sc),
         NEW f \in FrameRecord, FrameSound(f, g, st, sc), MayBecome(t, f),
         NEW e \in FrameRecord, FrameSound(e, g, st, sc), MayCall(f, e),
         Call(t, f, e)
  PROVE  /\ StacksSound(stack', g, st, sc)
         /\ Pinned(stack') = Pinned(stack) \cup ({f.ref, e.ref} \cap RefIds)
<1> DEFINE m == <<f>> \o Tail(stack[t])
           n == <<e>> \o m
<1>1. /\ stack[t] \in Seq(FrameRecord) /\ stack[t] # <<>> /\ Top(t) = stack[t][1]
      /\ Top(t) \in FrameRecord
  BY TopSound
<1>2. Tail(stack[t]) \in Seq(FrameRecord)
  BY <1>1, TakenOff
<1>3. <<e, f>> \o Tail(stack[t]) = n
  BY <1>2, TwoOnTop
<1>4. stack' = [stack EXCEPT ![t] = n]
  BY <1>3, CoreFacts DEF Call
<1>5. StacksSound(stack, g, st, sc)
  BY AllowedStacks
<1>6. StackSound(m, g, st, sc)
  BY <1>1, <1>5, BecomeSound DEF StacksSound, MayBecome
<1>7. /\ Len(stack[t]) \in Nat \ {0} /\ m \in Seq(FrameRecord)
      /\ Len(m) = Len(stack[t]) /\ m[1] = f
  BY <1>1, TopReplaced
<1>8. Refs(m) \cup {Top(t).ref} = Refs(stack[t]) \cup {f.ref}
  BY <1>1, RefsReplaced
<1>9. Top(t).ref \in Refs(stack[t]) /\ f.ref \in Refs(m)
  <2>1. 1 \in 1..Len(stack[t])
    BY <1>7
  <2> HIDE DEF m
  <2> QED
    BY <1>1, <1>7, <2>1 DEF Refs
<1> HIDE DEF m
<1>10. StackSound(n, g, st, sc)
  BY <1>6, <1>7, PushSound DEF MayCall
<1>11. Refs(n) = Refs(m) \cup {e.ref}
  BY <1>7, RefsPushed
<1> HIDE DEF n
<1>12. StacksSound(stack', g, st, sc)
  BY <1>4, <1>5, <1>10, ThreadSound
<1> DEFINE R == {f.ref, e.ref}
<1>13. HoldsAlso(n, stack[t], R)
  BY <1>8, <1>9, <1>11, RegistryAssumption DEF MayBecome, HoldsAlso
<1> HIDE DEF R
<1>14. Pinned(stack') = Pinned(stack) \cup (R \cap RefIds)
  <2>1. stack \in [Threads -> Seq(FrameRecord)]
    BY CoreFacts
  <2>2. Pinned([stack EXCEPT ![t] = n]) = Pinned(stack) \cup (R \cap RefIds)
    BY <1>13, <2>1, PinnedMore
  <2> QED
    BY <1>4, <2>2
<1> QED
  BY <1>12, <1>14 DEF R

LEMMA Returns ==
  ASSUME Core, NEW t \in Threads, ~ Idle(t), NEW g, NEW st, NEW sc, Allowed(g, st, sc),
         NEW ok, Return(t, ok)
  PROVE  /\ StacksSound(stack', g, st, sc)
         /\ Pinned(stack') \subseteq Pinned(stack)
<1> DEFINE n == Tail(stack[t])
<1>1. stack' = [stack EXCEPT ![t] = n]
  BY CoreFacts DEF Return
<1>2. StacksSound(stack, g, st, sc)
  BY AllowedStacks
<1>3. stack[t] \in Seq(FrameRecord) /\ stack[t] # <<>>
  BY TopSound
<1>4. StackSound(n, g, st, sc)
  BY <1>2, <1>3, ReturnSound DEF StacksSound
<1>5. Refs(n) \subseteq Refs(stack[t])
  BY <1>3, RefsReturned
<1> HIDE DEF n
<1> QED
  BY <1>1, <1>2, <1>4, <1>5, CoreFacts, ThreadSound, PinnedLess

(* A request begins on an idle thread, with one activation or two.         *)
LEMMA EmptyStack ==
  ASSUME NEW g, NEW st, NEW sc
  PROVE  StackSound(<<>>, g, st, sc) /\ Refs(<<>>) = {}
<1>1. <<>> \in Seq(FrameRecord) /\ Len(<<>>) = 0 /\ 1..0 = {}
  OBVIOUS
<1> QED
  BY <1>1 DEF StackSound, Nested, Refs

LEMMA Starts ==
  ASSUME Core, NEW t \in Threads, Idle(t), NEW g, NEW st, NEW sc, Allowed(g, st, sc),
         NEW f \in FrameRecord, FrameSound(f, g, st, sc), Start(t, f)
  PROVE  /\ StacksSound(stack', g, st, sc)
         /\ Pinned(stack') = Pinned(stack) \cup ({f.ref} \cap RefIds)
<1> DEFINE n == <<f>> \o <<>>
           R == {f.ref}
<1>1. <<>> \in Seq(FrameRecord) /\ <<f>> \in Seq(FrameRecord)
  OBVIOUS
<1>2. n = <<f>>
  BY <1>1, ConcatEmptySeq
<1>3. stack' = [stack EXCEPT ![t] = n] /\ stack[t] = <<>>
  BY <1>2, CoreFacts DEF Start, Idle
<1>4. StackSound(n, g, st, sc)
  BY EmptyStack, PushSound
<1>5. Refs(n) = Refs(<<>>) \cup {f.ref}
  BY <1>1, RefsPushed
<1> HIDE DEF n
<1>6. HoldsAlso(n, stack[t], R)
  BY <1>3, <1>5 DEF HoldsAlso
<1> HIDE DEF R
<1>7. StacksSound(stack', g, st, sc)
  BY <1>3, <1>4, AllowedStacks, ThreadSound
<1>8. Pinned(stack') = Pinned(stack) \cup (R \cap RefIds)
  <2>1. stack \in [Threads -> Seq(FrameRecord)]
    BY CoreFacts
  <2>2. Pinned([stack EXCEPT ![t] = n]) = Pinned(stack) \cup (R \cap RefIds)
    BY <1>6, <2>1, PinnedMore
  <2> QED
    BY <1>3, <2>2
<1> QED
  BY <1>7, <1>8 DEF R

LEMMA StartsTwo ==
  ASSUME Core, NEW t \in Threads, Idle(t), NEW g, NEW st, NEW sc, Allowed(g, st, sc),
         NEW f \in FrameRecord, FrameSound(f, g, st, sc), f.op # "raise",
         NEW e \in FrameRecord, FrameSound(e, g, st, sc),
         stack' = [stack EXCEPT ![t] = <<e, f>>]
  PROVE  /\ StacksSound(stack', g, st, sc)
         /\ Pinned(stack') = Pinned(stack) \cup ({f.ref, e.ref} \cap RefIds)
<1> DEFINE m == <<f>> \o <<>>
           n == <<e>> \o m
           R == {f.ref, e.ref}
<1>1. <<>> \in Seq(FrameRecord) /\ <<e, f>> \in Seq(FrameRecord)
  OBVIOUS
<1>2. n = <<e, f>>
  BY <1>1, ConcatEmptySeq, TwoOnTop
<1>3. stack' = [stack EXCEPT ![t] = n] /\ stack[t] = <<>>
  BY <1>2 DEF Idle
<1>4. StackSound(m, g, st, sc) /\ m \in Seq(FrameRecord) /\ m # <<>> /\ m[1] = f
  <2>1. StackSound(m, g, st, sc)
    BY EmptyStack, PushSound
  <2>2. m \in Seq(FrameRecord) /\ Len(m) = Len(<<>>) + 1 /\ m[1] = f
    BY <1>1, PutOnTop
  <2>3. Len(<<>>) = 0
    OBVIOUS
  <2> HIDE DEF m
  <2>4. Len(m) = 1
    BY <2>2, <2>3
  <2>5. m # <<>>
    BY <2>3, <2>4
  <2> QED
    BY <2>1, <2>2, <2>5
<1>5. Refs(m) = Refs(<<>>) \cup {f.ref}
  BY <1>1, RefsPushed
<1> HIDE DEF m
<1>6. StackSound(n, g, st, sc)
  BY <1>4, PushSound
<1>7. Refs(n) = Refs(m) \cup {e.ref}
  BY <1>4, RefsPushed
<1> HIDE DEF n
<1>8. HoldsAlso(n, stack[t], R)
  BY <1>3, <1>5, <1>7 DEF HoldsAlso
<1> HIDE DEF R
<1>9. StacksSound(stack', g, st, sc)
  <2>1. StacksSound(stack, g, st, sc)
    BY AllowedStacks
  <2>2. StacksSound([stack EXCEPT ![t] = n], g, st, sc)
    BY <1>6, <2>1, ThreadSound
  <2> QED
    BY <1>3, <2>2
<1>10. Pinned(stack') = Pinned(stack) \cup (R \cap RefIds)
  <2>1. stack \in [Threads -> Seq(FrameRecord)]
    BY CoreFacts
  <2>2. Pinned([stack EXCEPT ![t] = n]) = Pinned(stack) \cup (R \cap RefIds)
    BY <1>8, <2>1, PinnedMore
  <2> QED
    BY <1>3, <2>2
<1> QED
  BY <1>9, <1>10 DEF R

-----------------------------------------------------------------------------
(***************************************************************************)
(* The operations of the registry, with the stages.                        *)
(***************************************************************************)
LEMMA NotedKeeps ==
  ASSUME NEW g, Sound(g), NEW p \in Scripts, NEW owner \in Scripts \cup {Nil}
  PROVE  Noted(g, p, owner).ref = g.ref /\ Keeps(g, Noted(g, p, owner))
<1>1. Noted(g, p, owner).ref = g.ref
  BY DEF Noted, Sound, Registry
<1> QED
  BY <1>1 DEF Keeps, Live

LEMMA GetParserKeeps ==
  ASSUME NEW g, Sound(g), NEW p \in Scripts, NEW owner \in Scripts \cup {Nil},
         NEW r, g.parser_map[p] = Nil => r \in RefIds /\ g.ref[r].kind = "dead"
  PROVE  LET h == GetParser(g, p, owner, r)
             a == Answer(g, p, r)
         IN /\ \A s \in Live(g) : h.ref[s] = g.ref[s]
            /\ Keeps(g, h) /\ Sound(h)
            /\ a \in RefIds /\ h.ref[a].kind = "cached" /\ h.ref[a].path = p
            /\ ~ h.ref[a].abandoned /\ a \in Live(h)
            /\ \A s \in Live(h) : s \in Live(g) \/ s = a
            /\ owner # Nil => owner \in h.parser_inverse_dependencies[p]
            /\ \E x \in RefIds : h = GetParser(g, p, owner, x) /\ a = Answer(g, p, x)
                                   /\ (g.parser_map[p] = Nil => g.ref[x].kind = "dead")
<1> DEFINE h == GetParser(g, p, owner, r)
           a == Answer(g, p, r)
           m == Noted(g, p, owner)
<1>1. m.ref = g.ref /\ m.parser_map = g.parser_map /\ Sound(m)
      /\ (owner # Nil => owner \in m.parser_inverse_dependencies[p])
  BY SoundNoted DEF Noted, Sound, Registry
<1>2. CASE g.parser_map[p] # Nil
  <2>1. a \in RefIds /\ g.parser_map[p] = a /\ h = m
    BY <1>2 DEF GetParser, Answer, Sound, Registry
  <2>2. IsRegistered(g, a) /\ g.ref[a].path = p
    BY <2>1 DEF Sound, Keyed
  <2>3. GetParser(g, p, owner, a) = h /\ Answer(g, p, a) = a
    BY <1>2, <2>1 DEF GetParser, Answer
  <2> HIDE DEF h, a, m
  <2> QED
    BY <1>1, <1>2, <2>1, <2>2, <2>3 DEF Keeps, Live, IsRegistered, h, a
<1>3. CASE g.parser_map[p] = Nil
  <2>1. a = r /\ h = Instantiated(m, p, r) /\ r \in RefIds /\ g.ref[r].kind = "dead"
    BY <1>3 DEF GetParser, Answer
  <2>2. /\ h.ref[r] = [kind |-> "cached", path |-> p, deps |-> {}, abandoned |-> FALSE]
        /\ \A s \in RefIds \ {r} : h.ref[s] = g.ref[s]
        /\ h.parser_inverse_dependencies = m.parser_inverse_dependencies
    BY <1>1, <2>1 DEF Instantiated, Sound, Registry
  <2>3. Sound(h)
    BY <1>1, <1>3, <2>1, SoundInstantiated
  <2>4. /\ h.ref[r].kind = "cached" /\ h.ref[r].path = p /\ ~ h.ref[r].abandoned
    BY <2>2
  <2> HIDE DEF h, a, m
  <2>5. \A s \in Live(g) : s \in RefIds \ {r}
    BY <2>1 DEF Live
  <2>6. \A s \in Live(g) : h.ref[s] = g.ref[s] /\ s \in Live(h)
    BY <2>2, <2>5 DEF Live
  <2>7. \A s \in Live(h) : s \in Live(g) \/ s = r
    BY <2>2 DEF Live
  <2>8. Keeps(g, h)
    BY <2>6 DEF Keeps
  <2>9. r \in Live(h)
    BY <2>1, <2>4 DEF Live
  <2> QED
    BY <1>1, <2>1, <2>2, <2>3, <2>4, <2>6, <2>7, <2>8, <2>9 DEF h, a
<1> QED
  BY <1>2, <1>3

LEMMA DependencyKeeps ==
  ASSUME NEW g, Sound(g), NEW h \in RefIds, NEW d \in RefIds
  PROVE  /\ Keeps(g, WithDependency(g, h, d))
         /\ Live(WithDependency(g, h, d)) = Live(g)
         /\ WithDependency(g, h, d).ref[h].deps = g.ref[h].deps \cup {d}
         /\ \A s \in RefIds : WithDependency(g, h, d).ref[s].path = g.ref[s].path
<1> DEFINE n == WithDependency(g, h, d)
           e == [g.ref[h] EXCEPT !.deps = g.ref[h].deps \cup {d}]
           f == [g.ref EXCEPT ![h] = e]
<1>1. g.ref \in [RefIds -> RefRecord]
  BY DEF Sound, Registry
<1>2. /\ e.kind = g.ref[h].kind /\ e.path = g.ref[h].path
      /\ e.deps = g.ref[h].deps \cup {d}
  BY <1>1 DEF RefRecord
<1> HIDE DEF e
<1>3. f[h] = e /\ \A s \in RefIds \ {h} : f[s] = g.ref[s]
  BY <1>1, <1>2
<1>4. n = [g EXCEPT !.ref = f]
  BY DEF WithDependency, e
<1> HIDE DEF f
<1>5. n.ref = f
  BY <1>4 DEF Sound, Registry
<1> HIDE DEF n
<1>6. \A s \in RefIds : /\ n.ref[s].kind = g.ref[s].kind
                        /\ n.ref[s].path = g.ref[s].path
                        /\ g.ref[s].deps \subseteq n.ref[s].deps
  BY <1>2, <1>3, <1>5
<1>7. n.ref[h].deps = g.ref[h].deps \cup {d}
  BY <1>2, <1>3, <1>5
<1> QED
  BY <1>6, <1>7 DEF Keeps, Live, n

LEMMA RemoveKeeps ==
  ASSUME NEW g, Sound(g), NEW p
  PROVE  /\ Keeps(g, RemoveParser(g, p)) /\ Live(RemoveParser(g, p)) = Live(g)
         /\ \A r \in RefIds : RemoveParser(g, p).ref[r].deps = g.ref[r].deps
<1> DEFINE n == RemoveParser(g, p)
<1>1. \A r \in RefIds : /\ n.ref[r].kind = g.ref[r].kind
                        /\ n.ref[r].path = g.ref[r].path
                        /\ n.ref[r].deps = g.ref[r].deps
  BY DEF RemoveParser, Sound, Registry, RefRecord
<1> HIDE DEF n
<1> QED
  BY <1>1 DEF Keeps, Live, n

LEMMA StagesUnder ==
  ASSUME NEW g, NEW h, NEW st, StagesSound(g, st), Keeps(g, h)
  PROVE  StagesSound(h, st)
BY DEF StagesSound, Keeps, Live

(* One entry of a table changes. *)
Updated(st, r, e) == [st EXCEPT ![r] = e]

LEMMA StageChanged ==
  ASSUME NEW g, NEW st, StagesSound(g, st), NEW r \in RefIds, NEW e \in StageRecord,
         e.base \in {st[r].base, Nil},
         e.status # EMPTY => e.tree \in Trees
  PROVE  /\ StagesSound(g, Updated(st, r, e))
         /\ Updated(st, r, e) \in [RefIds -> StageRecord]
         /\ st[r].status <= e.status => Rises(g, st, Updated(st, r, e))
         /\ Updated(st, r, e)[r] = e
<1> DEFINE new == Updated(st, r, e)
<1>1. st \in [RefIds -> StageRecord]
  BY DEF StagesSound
<1>2. /\ new \in [RefIds -> StageRecord] /\ new[r] = e
      /\ \A s \in RefIds \ {r} : new[s] = st[s]
  BY <1>1 DEF Updated
<1> HIDE DEF new
<1>3. \A s \in RefIds : new[s].base \in {st[s].base, Nil}
  BY <1>2
<1>4. Rooted(new)
  BY <1>3, FewerBases DEF StagesSound
<1>5. \A s \in RefIds : new[s].status # EMPTY => new[s].tree \in Trees
  BY <1>2 DEF StagesSound
<1>6. \A s \in RefIds : new[s].base # Nil => s \in Live(g) /\ new[s].base \in g.ref[s].deps
  BY <1>3 DEF StagesSound
<1>7. st[r].status <= e.status => Rises(g, st, new)
  <2>1. \A s \in RefIds : st[s].status <= st[s].status
    BY <1>1 DEF StageRecord, EMPTY, FULLY_SOLVED
  <2> QED
    BY <1>2, <2>1 DEF Rises, Live
<1> QED
  BY <1>2, <1>4, <1>5, <1>6, <1>7 DEF StagesSound, new

(***************************************************************************)
(* A base class whose own chain does not lead back makes no loop.          *)
(***************************************************************************)
LEMMA BaseFound ==
  ASSUME NEW g, NEW st, StagesSound(g, st), NEW r \in Live(g), NEW d \in g.ref[r].deps,
         d \in RefIds, r \notin BaseChain(st, d),
         NEW e \in StageRecord, e.base = d, e.tree = st[r].tree, e.status = st[r].status
  PROVE  StagesSound(g, Updated(st, r, e)) /\ Rises(g, st, Updated(st, r, e))
<1> DEFINE new == Updated(st, r, e)
           C == BaseChain(st, d)
<1>1. st \in [RefIds -> StageRecord] /\ r \in RefIds
  BY DEF StagesSound, Live
<1>2. /\ new \in [RefIds -> StageRecord] /\ new[r] = e
      /\ \A s \in RefIds \ {r} : new[s] = st[s]
  BY <1>1 DEF Updated
<1> HIDE DEF new
<1>3. d \in C /\ C \subseteq RefIds /\ r \notin C
  BY DEF BaseChain
<1>4. \A x \in C : st[x].base \in C \cup {Nil}
  <2> SUFFICES ASSUME NEW x \in C, st[x].base # Nil PROVE st[x].base \in C
    OBVIOUS
  <2>1. x \in RefIds /\ st[x].base \in RefIds
    BY <1>1, <1>3 DEF StageRecord
  <2>2. ASSUME NEW S \in SUBSET RefIds, d \in S,
               \A y \in S : st[y].base \in S \cup {Nil}
        PROVE  st[x].base \in S
    <3>1. x \in S
      BY <2>2 DEF BaseChain
    <3> QED
      BY <2>2, <3>1
  <2> QED
    BY <2>1, <2>2 DEF BaseChain
<1> HIDE DEF C
<1>5. Rooted(new)
  <2> SUFFICES ASSUME NEW S \in SUBSET RefIds, S # {}, \A x \in S : new[x].base \in S
               PROVE  FALSE
    BY DEF Rooted
  <2>1. Rooted(st)
    BY DEF StagesSound
  <2>2. CASE r \notin S
    BY <1>2, <2>1, <2>2 DEF Rooted
  <2>3. CASE r \in S
    <3>1. d \in S
      BY <1>2, <2>3
    <3>2. S \cap C # {} /\ S \cap C \in SUBSET RefIds
      BY <1>3, <3>1
    <3>3. PICK x \in S \cap C : st[x].base \notin S \cap C
      BY <2>1, <3>2 DEF Rooted
    <3>4. x # r /\ new[x] = st[x]
      BY <1>2, <1>3, <3>3
    <3>5. st[x].base \in S /\ st[x].base # Nil
      BY <3>3, <3>4, RegistryAssumption
    <3> QED
      BY <1>4, <3>3, <3>5
  <2> QED
    BY <2>2, <2>3
<1>6. \A s \in RefIds : new[s].status # EMPTY => new[s].tree \in Trees
  BY <1>2 DEF StagesSound
<1>7. \A s \in RefIds : new[s].base # Nil => s \in Live(g) /\ new[s].base \in g.ref[s].deps
  BY <1>2 DEF StagesSound
<1>8. Rises(g, st, new)
  <2>1. \A s \in RefIds : st[s].status <= st[s].status
    BY <1>1 DEF StageRecord, EMPTY, FULLY_SOLVED
  <2> QED
    BY <1>2, <2>1 DEF Rises, Live
<1> QED
  BY <1>2, <1>5, <1>6, <1>7, <1>8 DEF StagesSound, new

(* A script changes, but not whether it has a path.                        *)
LEMMA ScriptChanged ==
  ASSUME NEW sc, NEW keep, NEW sh, NEW fu, ScriptsSound(sc, keep, sh, fu),
         NEW o \in Objs, NEW e \in ScriptRecord, e.path # Nil, e.source # Nil
  PROVE  /\ ScriptsSound(Updated(sc, o, e), keep, sh, fu)
         /\ PathsStay(sc, Updated(sc, o, e))
         /\ Updated(sc, o, e)[o] = e
<1> DEFINE m == Updated(sc, o, e)
<1>1. /\ m \in [Objs -> ScriptRecord] /\ m[o] = e
      /\ \A x \in Objs \ {o} : m[x] = sc[x]
  BY DEF ScriptsSound, Updated
<1> HIDE DEF m
<1> QED
  BY <1>1 DEF ScriptsSound, PathsStay, m

-----------------------------------------------------------------------------
(***************************************************************************)
(* Steps that leave the scripts or the parsers alone.                      *)
(***************************************************************************)
LEMMA Held ==
  ASSUME NEW P, Settle(reg, P), P \subseteq pins, pins \subseteq RefIds
  PROVE  [Next]_vars
<1>1. Release(P)
  BY DEF Release
<1> QED
  BY <1>1 DEF Next

LEMMA Stepped ==
  ASSUME NEW g, Sound(g), NEW st, StagesSound(g, st),
         NEW sc, NEW keep, NEW sh, NEW fu, ScriptsSound(sc, keep, sh, fu),
         StacksSound(stack', g, st, sc),
         CommitParsers(g, st), CommitKeeping(keep, sc, sh, fu),
         TablesTyped(disk', dependencies', ret'),
         Settle(g, Pinned(stack')) => [Next]_vars
  PROVE  StepSound
BY Committed DEF StepSound

(* A thread within a call does something that only its stack shows.        *)
LEMMA Unseen ==
  ASSUME Core, TablesTyped(disk', dependencies', ret'),
         StacksSound(stack', reg, stage, scr), Pinned(stack') \subseteq Pinned(stack),
         KeepParsers, CommitScripts(scr, shallow_ruzta_cache, full_ruzta_cache)
  PROVE  StepSound
<1>1. Settle(reg, Pinned(stack')) => [Next]_vars
  BY CoreFacts, Held
<1> QED
  BY <1>1, CoreFacts, Stepped DEF KeepParsers, CommitScripts

-----------------------------------------------------------------------------
(***************************************************************************)
(* raise_status and the stages.                                            *)
(***************************************************************************)
LEMMA SourceTyped ==
  ASSUME TablesTyped(disk, dependencies, ret), NEW p \in Scripts
  PROVE  SourceOf(p) \in Trees
BY DEF TablesTyped, SourceOf, Trees

LEMMA TreesTyped ==
  ASSUME NEW tree \in Trees
  PROVE  tree.ext \in Scripts \cup {Nil} /\ tree.uses \subseteq Scripts
BY ContentAssumption DEF Trees, EmptySource

LEMMA ParsedTyped ==
  ASSUME TablesTyped(disk, dependencies, ret), NEW p \in Scripts
  PROVE  /\ Parsed(p) \in StageRecord /\ Parsed(p).base = Nil
         /\ Parsed(p).status = PARSED /\ Parsed(p).tree \in Trees
<1> DEFINE ok == SourceOf(p).health # "parse_error"
<1>1. SourceOf(p) \in Trees
  BY SourceTyped
<1>2. ok \in BOOLEAN
  OBVIOUS
<1>3. Parsed(p) = [status |-> PARSED, ok |-> ok, tree |-> SourceOf(p), base |-> Nil]
  BY DEF Parsed
<1> HIDE DEF ok
<1> QED
  BY <1>1, <1>2, <1>3 DEF StageRecord, Trees, PARSED, EMPTY, FULLY_SOLVED

(* The activation of raise_status on top.                                  *)
LEMMA RaiseFacts ==
  ASSUME Core, NEW t \in Threads, ~ Idle(t), Top(t).op = "raise"
  PROVE  /\ Top(t) \in FrameRecord /\ RaiseSound(Top(t), reg, stage)
         /\ Top(t).ref \in Live(reg) /\ Top(t).ref \in RefIds /\ Top(t).ref \in pins
         /\ reg.ref[Top(t).ref].path \in Scripts
         /\ stage[Top(t).ref] \in StageRecord
         /\ FrameSound(Top(t), reg, stage, scr)
<1>1. /\ Top(t) \in FrameRecord /\ FrameSound(Top(t), reg, stage, scr)
      /\ Top(t).ref # Nil => Top(t).ref \in pins
  BY TopSound
<1>2. RaiseSound(Top(t), reg, stage) /\ Top(t).ref # Nil
  BY <1>1 DEF FrameSound, RaiseSound
<1>3. Top(t).ref \in Live(reg) /\ Top(t).ref \in RefIds
  BY <1>1, <1>2 DEF FrameSound, Live
<1>4. reg.ref[Top(t).ref].path \in Scripts
  BY <1>3, CoreFacts DEF Sound, Placed, Live
<1>5. stage[Top(t).ref] \in StageRecord
  BY <1>3, CoreFacts DEF StagesSound
<1> QED
  BY <1>1, <1>2, <1>3, <1>4, <1>5

(* The activation on top goes on, with new stages of the same parsers.     *)
LEMMA Raised ==
  ASSUME Core, TablesTyped(disk, dependencies, ret), NEW t \in Threads, ~ Idle(t),
         Top(t).op = "raise", NEW st, StagesSound(reg, st), Rises(reg, stage, st),
         NEW f \in FrameRecord, FrameSound(f, reg, st, scr), MayBecome(t, f),
         f.op = "raise", Become(t, f), CommitParsers(reg, st),
         KeepScripts, UNCHANGED <<ret, files>>
  PROVE  StepSound
<1>1. Allowed(reg, st, scr)
  BY CoreFacts DEF Allowed, StagesSound
<1>2. /\ StacksSound(stack', reg, st, scr)
      /\ Pinned(stack') = Pinned(stack) \cup ({f.ref} \cap RefIds)
  BY <1>1, Becomes
<1>3. f.ref \in pins
  BY RaiseFacts DEF MayBecome, GoesOn
<1>4. Settle(reg, Pinned(stack')) => [Next]_vars
  BY <1>2, <1>3, CoreFacts, Held
<1>5. TablesTyped(disk', dependencies', ret')
  BY DEF files, KeepScripts
<1> QED
  BY <1>2, <1>4, <1>5, CoreFacts, Stepped DEF KeepScripts, CommitScripts

(* A stage that is due is not at work further down: what is there is of    *)
(* that stage already.                                                     *)
LEMMA DueNotBelow ==
  ASSUME Core, NEW t \in Threads, ~ Idle(t), Top(t).op = "raise",
         StageDue(Top(t), stage[Top(t).ref]), NEW j \in 2..Len(stack[t])
  PROVE  ~ (stack[t][j].op = "raise" /\ stack[t][j].pc = "stage"
              /\ stack[t][j].ref = Top(t).ref)
<1> SUFFICES ASSUME stack[t][j].op = "raise", stack[t][j].pc = "stage",
                    stack[t][j].ref = Top(t).ref
             PROVE  FALSE
  OBVIOUS
<1>1. /\ stack[t] \in Seq(FrameRecord) /\ Top(t) = stack[t][1]
      /\ StackSound(stack[t], reg, stage, scr)
  BY TopSound, CoreFacts DEF StacksSound
<1>2. 1 \in 1..Len(stack[t]) /\ j \in 1..Len(stack[t]) /\ 1 < j
  BY <1>1
<1>3. Top(t).target = INHERITANCE_SOLVED
  BY <1>1, <1>2 DEF StackSound, Nested
<1>4. stage[Top(t).ref].status >= INHERITANCE_SOLVED
  BY <1>1, <1>2 DEF StackSound, FrameSound, RaiseSound
<1>5. stage[Top(t).ref].status \in Nat
  BY RaiseFacts DEF StageRecord, EMPTY, FULLY_SOLVED
<1> QED
  BY <1>3, <1>4, <1>5 DEF StageDue, INHERITANCE_SOLVED

LEMMA WantedTyped ==
  ASSUME NEW tree \in Trees, NEW now, NEW own
  PROVE  Wanted(tree, now, own) \in SUBSET Scripts
BY TreesTyped DEF Wanted

LEMMA RaiseStageSound ==
  ASSUME Core, TablesTyped(disk, dependencies, ret), NEW t \in Threads, RaiseStage(t)
  PROVE  StepSound
<1> DEFINE f == Top(t)
           s == stage[f.ref]
           own == reg.ref[f.ref].path
<1>1. /\ ~ Idle(t) /\ f.op = "raise" /\ f.pc = "start" /\ StageDue(f, s)
      /\ KeepScripts /\ UNCHANGED <<ret, files>>
  BY DEF RaiseStage, Running
<1>2. /\ f \in FrameRecord /\ RaiseSound(f, reg, stage) /\ f.ref \in RefIds
      /\ f.ref \in Live(reg) /\ own \in Scripts /\ s \in StageRecord
      /\ FrameSound(f, reg, stage, scr)
  BY <1>1, RaiseFacts
<1>3. /\ Sound(reg) /\ StagesSound(reg, stage) /\ stage \in [RefIds -> StageRecord]
      /\ PathsStay(scr, scr) /\ Keeps(reg, reg)
  BY CoreFacts DEF Allowed, StagesSound
<1>4. CASE s.status = EMPTY
  <2> DEFINE e == Parsed(own)
             new == [stage EXCEPT ![f.ref] = e]
  <2>1. Become(t, f) /\ CommitParsers(reg, new)
    BY <1>4 DEF RaiseStage
  <2>2. e \in StageRecord /\ e.base = Nil /\ e.status = PARSED /\ e.tree \in Trees
    BY <1>2, ParsedTyped
  <2>3. s.status <= e.status
    BY <1>4, <2>2 DEF EMPTY, PARSED
  <2> HIDE DEF e
  <2>4. new = Updated(stage, f.ref, e)
    BY DEF Updated
  <2> HIDE DEF new
  <2>5. StagesSound(reg, new) /\ Rises(reg, stage, new) /\ new \in [RefIds -> StageRecord]
    BY <1>2, <1>3, <2>2, <2>3, <2>4, StageChanged
  <2>6. FrameSound(f, reg, new, scr)
    BY <1>2, <1>3, <2>5, FrameKept
  <2>7. MayBecome(t, f)
    BY <1>1 DEF MayBecome, GoesOn
  <2> QED
    BY <1>1, <1>2, <2>1, <2>5, <2>6, <2>7, Raised
<1>5. CASE s.status # EMPTY
  <2> DEFINE now == s.status + 1
             bad == now = FULLY_SOLVED /\ s.tree.health = "body_error"
             wanted == Wanted(s.tree, now, own)
             h == [f EXCEPT !.pc = "stage", !.err = bad, !.todo = wanted]
             new == StageEntered(f.ref, now)
  <2>1. Become(t, h) /\ CommitParsers(reg, new)
    BY <1>5 DEF RaiseStage
  <2>2. s.tree \in Trees /\ wanted \in SUBSET Scripts
    BY <1>2, <1>3, <1>5, WantedTyped DEF StagesSound
  <2>3. bad \in BOOLEAN
    OBVIOUS
  <2>4. /\ now \in EMPTY..FULLY_SOLVED /\ now >= INHERITANCE_SOLVED
        /\ s.status <= now /\ now # EMPTY
    BY <1>1, <1>2, <1>5
       DEF StageDue, StageRecord, FrameRecord, EMPTY, INHERITANCE_SOLVED, FULLY_SOLVED
  <2> HIDE DEF wanted, bad, now
  <2> DEFINE e == [s EXCEPT !.status = now]
  <2>5. /\ e \in StageRecord /\ e.base = s.base /\ e.status = now /\ e.tree = s.tree
    BY <1>2, <2>4 DEF StageRecord
  <2>6. new = Updated(stage, f.ref, e)
    BY <1>2, <1>3 DEF StageEntered, Updated
  <2> HIDE DEF e
  <2>7. /\ StagesSound(reg, new) /\ Rises(reg, stage, new)
        /\ new \in [RefIds -> StageRecord] /\ new[f.ref] = e
    BY <1>2, <1>3, <2>2, <2>4, <2>5, <2>6, StageChanged
  <2> HIDE DEF new
  <2>8. /\ h \in FrameRecord /\ h.op = "raise" /\ h.ref = f.ref /\ h.obj = f.obj
        /\ h.target = f.target /\ h.cur = f.cur /\ h.pc = "stage"
    BY <1>1, <1>2, <2>2, <2>3 DEF FrameRecord
  <2> HIDE DEF h
  <2>9. RaiseSound(h, reg, new)
    BY <1>1, <1>2, <2>4, <2>5, <2>7, <2>8 DEF RaiseSound
  <2>10. FrameSound(h, reg, new, scr)
    BY <1>2, <2>8, <2>9 DEF FrameSound
  <2>11. MayBecome(t, h)
    BY <1>1, <2>8, DueNotBelow DEF MayBecome, GoesOn
  <2> QED
    BY <1>1, <2>1, <2>7, <2>8, <2>10, <2>11, Raised
<1> QED
  BY <1>4, <1>5

(* An activation returns; scripts may have changed.                        *)
LEMMA Returned ==
  ASSUME Core, TablesTyped(disk, dependencies, ret), NEW t \in Threads, ~ Idle(t),
         NEW ok \in BOOLEAN, Return(t, ok), UNCHANGED files,
         NEW sc, NEW sh, NEW fu, ScriptsSound(sc, kept, sh, fu), PathsStay(scr, sc),
         dependencies' \in [Scripts -> SUBSET Scripts],
         KeepParsers, CommitScripts(sc, sh, fu)
  PROVE  StepSound
<1>1. Allowed(reg, stage, sc)
  BY CoreFacts DEF Allowed
<1>2. StacksSound(stack', reg, stage, sc) /\ Pinned(stack') \subseteq Pinned(stack)
  BY <1>1, Returns
<1>3. Settle(reg, Pinned(stack')) => [Next]_vars
  BY <1>2, CoreFacts, Held
<1>4. TablesTyped(disk', dependencies', ret')
  BY DEF TablesTyped, Return, files
<1> QED
  BY <1>2, <1>3, <1>4, CoreFacts, Stepped DEF KeepParsers, CommitScripts

(* It returns and nothing else happens.                                    *)
LEMMA JustReturned ==
  ASSUME Core, TablesTyped(disk, dependencies, ret), NEW t \in Threads, ~ Idle(t),
         NEW ok \in BOOLEAN, Return(t, ok), UNCHANGED files, KeepParsers, KeepScripts
  PROVE  StepSound
<1>1. dependencies' \in [Scripts -> SUBSET Scripts]
  BY DEF KeepScripts, TablesTyped
<1>2. ScriptsSound(scr, kept, shallow_ruzta_cache, full_ruzta_cache) /\ PathsStay(scr, scr)
  BY CoreFacts DEF Allowed
<1> QED
  BY <1>1, <1>2, Returned DEF KeepScripts

LEMMA AllowedFrame ==
  ASSUME Core, NEW g, NEW st, NEW sc, Allowed(g, st, sc),
         NEW f \in FrameRecord, FrameSound(f, reg, stage, scr)
  PROVE  FrameSound(f, g, st, sc)
BY CoreFacts, FrameKept DEF Allowed

LEMMA AllowedChange ==
  ASSUME Core, NEW g, NEW st, NEW sc, Allowed(g, st, sc), StagesSound(g, st),
         NEW r \in RefIds, NEW e \in StageRecord, e.base \in {st[r].base, Nil},
         e.status # EMPTY => e.tree \in Trees, st[r].status <= e.status
  PROVE  Allowed(g, Updated(st, r, e), sc) /\ StagesSound(g, Updated(st, r, e))
<1> DEFINE new == Updated(st, r, e)
<1>1. /\ StagesSound(g, new) /\ new \in [RefIds -> StageRecord]
      /\ Rises(g, st, new)
  BY StageChanged
<1> HIDE DEF new
<1>2. Rises(reg, stage, new)
  <2> SUFFICES ASSUME NEW s \in Live(reg) PROVE stage[s].status <= new[s].status
    BY DEF Rises
  <2>1. s \in Live(g) /\ s \in RefIds
    BY DEF Allowed, Keeps, Live
  <2>2. stage[s].status <= st[s].status /\ st[s].status <= new[s].status
    BY <1>1, <2>1 DEF Allowed, Rises
  <2>3. stage[s].status \in Int /\ st[s].status \in Int /\ new[s].status \in Int
    <3>1. stage \in [RefIds -> StageRecord] /\ st \in [RefIds -> StageRecord]
      BY CoreFacts DEF Allowed, StagesSound
    <3>2. \A x \in StageRecord : x.status \in Int
      BY DEF StageRecord, EMPTY, FULLY_SOLVED
    <3> QED
      BY <1>1, <2>1, <3>1, <3>2
  <2> QED
    BY <2>2, <2>3
<1> QED
  BY <1>1, <1>2 DEF Allowed, new

LEMMA RaiseEndStageSound ==
  ASSUME Core, TablesTyped(disk, dependencies, ret), NEW t \in Threads, RaiseEndStage(t)
  PROVE  StepSound
<1> DEFINE f == Top(t)
           ok == ~ f.err
           h == [f EXCEPT !.pc = "start", !.err = FALSE]
           e == [stage[f.ref] EXCEPT !.ok = ok]
           new == Updated(stage, f.ref, e)
<1>1. /\ ~ Idle(t) /\ f.op = "raise" /\ f.pc = "stage" /\ f.cur = Nil
      /\ Become(t, h) /\ CommitParsers(reg, [stage EXCEPT ![f.ref].ok = ok])
      /\ KeepScripts /\ UNCHANGED <<ret, files>>
  BY DEF RaiseEndStage, Running
<1>2. /\ f \in FrameRecord /\ RaiseSound(f, reg, stage) /\ f.ref \in RefIds
      /\ FrameSound(f, reg, stage, scr) /\ stage[f.ref] \in StageRecord
  BY <1>1, RaiseFacts
<1>3. /\ StagesSound(reg, stage) /\ Allowed(reg, stage, scr)
      /\ stage[f.ref].status # EMPTY => stage[f.ref].tree \in Trees
  BY <1>2, CoreFacts DEF StagesSound
<1>4. ok \in BOOLEAN
  OBVIOUS
<1>5. new = [stage EXCEPT ![f.ref].ok = ok]
  BY <1>2, <1>3 DEF Updated, StagesSound
<1> HIDE DEF ok
<1>6. /\ e \in StageRecord /\ e.base = stage[f.ref].base
      /\ e.tree = stage[f.ref].tree /\ e.status = stage[f.ref].status
  BY <1>2, <1>4 DEF StageRecord
<1>7. CommitParsers(reg, new)
  BY <1>1, <1>5
<1> HIDE DEF e
<1>8. stage[f.ref].status <= e.status
  BY <1>2, <1>6 DEF StageRecord, EMPTY, FULLY_SOLVED
<1>9. Allowed(reg, new, scr) /\ StagesSound(reg, new)
  BY <1>2, <1>3, <1>6, <1>8, AllowedChange
<1> HIDE DEF new
<1>10. /\ h \in FrameRecord /\ h.op = "raise" /\ h.ref = f.ref /\ h.obj = f.obj
       /\ h.target = f.target /\ h.cur = Nil /\ h.pc = "start"
  BY <1>1, <1>2 DEF FrameRecord
<1>11. FrameSound(f, reg, new, scr)
  BY <1>2, <1>9, AllowedFrame
<1> HIDE DEF h
<1>12. FrameSound(h, reg, new, scr)
  BY <1>1, <1>10, <1>11 DEF FrameSound, RaiseSound
<1>13. MayBecome(t, h)
  BY <1>1, <1>10 DEF MayBecome, GoesOn
<1> QED
  BY <1>1, <1>7, <1>9, <1>10, <1>12, <1>13, Raised DEF Allowed

LEMMA RaiseReturnSound ==
  ASSUME Core, TablesTyped(disk, dependencies, ret), NEW t \in Threads, RaiseReturn(t)
  PROVE  StepSound
<1> DEFINE ok == Top(t).pc # "lost" /\ stage[Top(t).ref].ok
<1>1. ~ Idle(t) /\ Top(t).op = "raise" /\ Return(t, ok)
      /\ UNCHANGED files /\ KeepParsers /\ KeepScripts
  BY DEF RaiseReturn
<1>2. ok \in BOOLEAN
  BY <1>1, RaiseFacts DEF StageRecord
<1> HIDE DEF ok
<1> QED
  BY <1>1, <1>2, JustReturned

(***************************************************************************)
(* get_shallow_script, from any activation.                                *)
(***************************************************************************)
LEMMA ShallowSound ==
  ASSUME Core, TablesTyped(disk, dependencies, ret), NEW p \in Scripts,
         ShallowNeedsFresh(p) => SpareRef /\ SpareObj
  PROVE  LET s == GetShallowScript(p, reg, stage)
         IN /\ Sound(s.g) /\ StagesSound(s.g, s.st) /\ Allowed(s.g, s.st, s.scr)
            /\ ScriptsSound(s.scr, kept, s.shallow, full_ruzta_cache)
            /\ s.obj \in Objs => s.scr[s.obj].path # Nil
            /\ s.obj \in Objs \cup {Nil, Null}
            /\ full_ruzta_cache[p] = Nil => s.obj # Null
            /\ \A o \in Objs : scr[o].path # Nil => s.scr[o] = scr[o]
            /\ Settle(s.g, pins) => [Next]_vars
            /\ s.obj \notin Objs => /\ s.g = reg /\ s.st = stage
                                    /\ s.scr = scr /\ s.shallow = shallow_ruzta_cache
<1> DEFINE s == GetShallowScript(p, reg, stage)
<1>1. /\ Sound(reg) /\ StagesSound(reg, stage) /\ pins = Pinned(stack)
      /\ ScriptsSound(scr, kept, shallow_ruzta_cache, full_ruzta_cache)
      /\ Allowed(reg, stage, scr) /\ pins \subseteq RefIds
  BY CoreFacts
<1>2. CASE ~ ShallowNeedsFresh(p)
  <2>1. s = [g |-> reg, st |-> stage, scr |-> scr, shallow |-> shallow_ruzta_cache,
             obj |-> CachedScript(p)]
    BY <1>2 DEF GetShallowScript
  <2>2. /\ CachedScript(p) \in Objs \cup {Nil, Null}
        /\ CachedScript(p) \in Objs => scr[CachedScript(p)].path # Nil
        /\ full_ruzta_cache[p] = Nil => CachedScript(p) \in Objs \cup {Nil}
    BY <1>1 DEF CachedScript, ScriptsSound
  <2>3. Settle(reg, pins) => [Next]_vars
    BY <1>1, Held
  <2>4. full_ruzta_cache[p] = Nil => CachedScript(p) # Null
    BY <2>2, ContentAssumption
  <2> HIDE DEF s
  <2> QED
    BY <1>1, <2>1, <2>2, <2>3, <2>4 DEF s
<1>3. CASE ShallowNeedsFresh(p)
  <2> DEFINE r == Answer(reg, p, FreshRef)
             o == FreshObj
             g == GetParser(reg, p, Nil, FreshRef)
             e == Parsed(p)
             st == IF stage[r].status = EMPTY THEN Updated(stage, r, e) ELSE stage
             x == [NoScript EXCEPT !.path = p, !.source = disk[p]]
             sc == Updated(scr, o, x)
             sh == Updated(shallow_ruzta_cache, p, o)
  <2>1. s = [g |-> g, st |-> st, scr |-> sc, shallow |-> sh, obj |-> o]
    BY <1>3 DEF GetShallowScript, Updated
  <2>2. /\ FreshRef \in RefIds /\ reg.ref[FreshRef].kind = "dead"
        /\ o \in Objs /\ scr[o] = NoScript
    BY <1>3 DEF SpareRef, SpareObj, FreshRef, FreshObj
  <2>3. /\ Keeps(reg, g) /\ Sound(g) /\ r \in RefIds
    BY <1>1, <2>2, GetParserKeeps
  <2>4. e \in StageRecord /\ e.base = Nil /\ e.status = PARSED /\ e.tree \in Trees
    BY ParsedTyped
  <2> HIDE DEF g, r, e
  <2>5. StagesSound(g, stage)
    BY <1>1, <2>3, StagesUnder
  <2>6. StagesSound(g, st) /\ st \in [RefIds -> StageRecord] /\ Rises(reg, stage, st)
    <3>1. CASE stage[r].status = EMPTY
      <4>1. stage[r].status <= e.status
        BY <2>4, <3>1 DEF EMPTY, PARSED
      <4>2. st = Updated(stage, r, e)
        BY <3>1
      <4>3. StagesSound(g, Updated(stage, r, e))
        BY <2>3, <2>4, <2>5, StageChanged
      <4>4. /\ Updated(stage, r, e) \in [RefIds -> StageRecord]
            /\ Rises(reg, stage, Updated(stage, r, e))
        BY <1>1, <2>3, <2>4, <4>1, StageChanged
      <4> QED
        BY <4>2, <4>3, <4>4
    <3>2. CASE stage[r].status # EMPTY
      BY <1>1, <2>5, <3>2 DEF Allowed
    <3> QED
      BY <3>1, <3>2
  <2> HIDE DEF st
  <2>7. disk[p] \in Content /\ disk[p] # Nil
    BY <1>3 DEF ShallowNeedsFresh, TablesTyped
  <2>8. /\ x \in ScriptRecord /\ x.path = p /\ x.path # Nil /\ x.source = disk[p]
    BY <2>7, RegistryAssumption DEF NoScript, ScriptRecord
  <2> HIDE DEF o, x
  <2>9. ScriptsSound(sc, kept, shallow_ruzta_cache, full_ruzta_cache) /\ PathsStay(scr, sc)
        /\ sc[o] = x
    BY <1>1, <2>2, <2>7, <2>8, ScriptChanged
  <2>10. \A y \in Objs : scr[y].path # Nil => sc[y] = scr[y]
    BY <1>1, <2>2 DEF Updated, ScriptsSound, NoScript
  <2> HIDE DEF sc
  <2>11. ScriptsSound(sc, kept, sh, full_ruzta_cache)
    <3>1. sh \in [Scripts -> Objs \cup {Nil}] /\ sh[p] = o
          /\ \A q \in Scripts \ {p} : sh[q] = shallow_ruzta_cache[q]
      BY <2>2, <2>9 DEF ScriptsSound, Updated
    <3> HIDE DEF sh
    <3> QED
      BY <2>8, <2>9, <3>1 DEF ScriptsSound
  <2> HIDE DEF sh
  <2>12. Allowed(g, st, sc)
    BY <2>3, <2>6, <2>9 DEF Allowed
  <2>13. Settle(g, pins) => [Next]_vars
    <3> SUFFICES ASSUME Settle(g, pins) PROVE [Next]_vars
      OBVIOUS
    <3>1. Get(p, Nil, FreshRef)
      BY <2>2 DEF Get, Spare, g
    <3> QED
      BY <2>2, <3>1 DEF Next
  <2>14. o # Null /\ o # Nil
    BY <2>2, ContentAssumption
  <2> HIDE DEF s
  <2> QED
    BY <2>1, <2>2, <2>3, <2>6, <2>8, <2>9, <2>10, <2>11, <2>12, <2>13, <2>14 DEF s
<1> QED
  BY <1>2, <1>3

(* What a stage asks for has been found.                                   *)
LEMMA Found ==
  ASSUME Core, NEW t \in Threads, ~ Idle(t), Top(t).op = "raise", Top(t).cur # Nil
  PROVE  LET r == Top(t).ref
             d == CHOOSE d \in reg.ref[r].deps : reg.ref[d].path = Top(t).cur
         IN d \in reg.ref[r].deps /\ d \in RefIds /\ reg.ref[d].path = Top(t).cur
<1>1. RaiseSound(Top(t), reg, stage) /\ Top(t).ref \in RefIds
  BY RaiseFacts
<1>2. \E d \in reg.ref[Top(t).ref].deps : reg.ref[d].path = Top(t).cur
  BY <1>1 DEF RaiseSound
<1>3. reg.ref[Top(t).ref].deps \subseteq RefIds
  BY <1>1, CoreFacts DEF Sound, Registry, RefRecord
<1> QED
  BY <1>2, <1>3

(* The stage goes on after what it asked for, with what was wrong noted.   *)
LEMMA StageGoesOn ==
  ASSUME Core, NEW t \in Threads, ~ Idle(t), Top(t).op = "raise", Top(t).pc = "stage",
         NEW bad \in BOOLEAN
  PROVE  LET f == [Top(t) EXCEPT !.cur = Nil, !.err = bad]
         IN /\ f \in FrameRecord /\ f.op = "raise" /\ f.ref = Top(t).ref
            /\ FrameSound(f, reg, stage, scr) /\ MayBecome(t, f)
<1> DEFINE f == [Top(t) EXCEPT !.cur = Nil, !.err = bad]
<1>1. /\ Top(t) \in FrameRecord /\ RaiseSound(Top(t), reg, stage)
      /\ FrameSound(Top(t), reg, stage, scr)
  BY RaiseFacts
<1>2. /\ f \in FrameRecord /\ f.op = "raise" /\ f.ref = Top(t).ref
      /\ f.obj = Top(t).obj /\ f.target = Top(t).target /\ f.cur = Nil /\ f.pc = "stage"
  BY <1>1 DEF FrameRecord
<1> HIDE DEF f
<1>3. FrameSound(f, reg, stage, scr)
  BY <1>1, <1>2 DEF FrameSound, RaiseSound
<1>4. MayBecome(t, f)
  BY <1>2 DEF MayBecome, GoesOn
<1> QED
  BY <1>2, <1>3, <1>4 DEF f

LEMMA RaiseResumeSound ==
  ASSUME Core, TablesTyped(disk, dependencies, ret), NEW t \in Threads, RaiseResume(t)
  PROVE  StepSound
<1> DEFINE f == Top(t)
           r == f.ref
           q == f.cur
           own == reg.ref[r].path
           d == CHOOSE d \in reg.ref[r].deps : reg.ref[d].path = q
           inherits == stage[r].status = INHERITANCE_SOLVED
           cyclic == \E b \in BaseChain(stage, d) : reg.ref[b].path = own
           found == ret[t] /\ ~ cyclic
<1>1. ~ Idle(t) /\ f.op = "raise" /\ f.pc = "stage" /\ q # Nil
  BY DEF RaiseResume, Running
<1>2. /\ f \in FrameRecord /\ r \in RefIds /\ r \in Live(reg)
      /\ r \in pins /\ own \in Scripts /\ stage[r] \in StageRecord /\ q \in Scripts
  BY <1>1, RaiseFacts DEF FrameRecord
<1>3. d \in reg.ref[r].deps /\ d \in RefIds
  BY <1>1, Found
<1>4. StagesSound(reg, stage) /\ Allowed(reg, stage, scr) /\ pins = Pinned(stack)
  BY CoreFacts
<1>5. CASE inherits \/ ~ ret[t]
  <2> DEFINE e == [stage[r] EXCEPT !.base = d]
             st == IF found THEN Updated(stage, r, e) ELSE stage
             bad == f.err \/ ~ found
             back == [f EXCEPT !.cur = Nil, !.err = bad]
  <2>1. /\ Become(t, back) /\ CommitParsers(reg, st)
        /\ UNCHANGED <<ret, files>> /\ KeepScripts
    <3>1. st = IF found THEN [stage EXCEPT ![r].base = d] ELSE stage
      BY <1>2, <1>4 DEF Updated, StagesSound
    <3> HIDE DEF st, e
    <3> QED
      BY <1>5, <3>1 DEF RaiseResume, d
  <2>2. bad \in BOOLEAN
    BY <1>2 DEF FrameRecord
  <2> HIDE DEF bad
  <2>3. /\ back \in FrameRecord /\ back.op = "raise" /\ back.ref = r
        /\ FrameSound(back, reg, stage, scr) /\ MayBecome(t, back)
    BY <1>1, <2>2, StageGoesOn
  <2> HIDE DEF back
  <2>4. StagesSound(reg, st) /\ Rises(reg, stage, st)
    <3>1. CASE found
      <4> HIDE DEF d
      <4>1. r \notin BaseChain(stage, d)
        BY <3>1
      <4>2. /\ e \in StageRecord /\ e.base = d /\ e.tree = stage[r].tree
            /\ e.status = stage[r].status
        BY <1>2, <1>3 DEF StageRecord
      <4> HIDE DEF e
      <4>3. /\ StagesSound(reg, Updated(stage, r, e))
            /\ Rises(reg, stage, Updated(stage, r, e))
        BY <1>2, <1>3, <1>4, <4>1, <4>2, BaseFound
      <4> QED
        BY <3>1, <4>3
    <3>2. CASE ~ found
      BY <1>4, <3>2 DEF Allowed
    <3> QED
      BY <3>1, <3>2
  <2> HIDE DEF st
  <2>5. Allowed(reg, st, scr)
    BY <1>4, <2>4 DEF Allowed, StagesSound
  <2>6. FrameSound(back, reg, st, scr)
    BY <2>3, <2>5, AllowedFrame
  <2> QED
    BY <1>1, <2>1, <2>3, <2>4, <2>6, Raised
<1>6. CASE ~ (inherits \/ ~ ret[t])
  <2> DEFINE s == GetShallowScript(q, reg, stage)
             bad == f.err \/ s.obj \notin Objs
             back == [f EXCEPT !.cur = Nil, !.err = bad]
  <2>1. /\ ShallowNeedsFresh(q) => SpareRef /\ SpareObj
        /\ Become(t, back) /\ CommitParsers(s.g, s.st)
        /\ CommitScripts(s.scr, s.shallow, full_ruzta_cache)
        /\ dependencies' = [dependencies EXCEPT ![own] = @ \cup {q}]
        /\ UNCHANGED <<ret, files>>
    BY <1>6 DEF RaiseResume
  <2>2. bad \in BOOLEAN
    BY <1>2 DEF FrameRecord
  <2> HIDE DEF bad
  <2>3. /\ back \in FrameRecord /\ back.op = "raise" /\ back.ref = r
        /\ FrameSound(back, reg, stage, scr) /\ MayBecome(t, back)
    BY <1>1, <2>2, StageGoesOn
  <2> HIDE DEF back
  <2>4. /\ Sound(s.g) /\ StagesSound(s.g, s.st) /\ Allowed(s.g, s.st, s.scr)
        /\ ScriptsSound(s.scr, kept, s.shallow, full_ruzta_cache)
        /\ Settle(s.g, pins) => [Next]_vars
    BY <1>2, <2>1, ShallowSound
  <2> HIDE DEF s
  <2>5. FrameSound(back, s.g, s.st, s.scr)
    BY <2>3, <2>4, AllowedFrame
  <2> DEFINE g == s.g
             st == s.st
             sc == s.scr
             sh == s.shallow
  <2>6. /\ Sound(g) /\ StagesSound(g, st) /\ Allowed(g, st, sc)
        /\ ScriptsSound(sc, kept, sh, full_ruzta_cache)
        /\ FrameSound(back, g, st, sc)
        /\ Settle(g, pins) => [Next]_vars
        /\ CommitParsers(g, st) /\ CommitKeeping(kept, sc, sh, full_ruzta_cache)
    BY <2>1, <2>4, <2>5 DEF CommitScripts
  <2> HIDE DEF g, st, sc, sh
  <2>7. /\ StacksSound(stack', g, st, sc)
        /\ Pinned(stack') = Pinned(stack) \cup ({back.ref} \cap RefIds)
    BY <1>1, <2>1, <2>3, <2>6, Becomes
  <2>8. Pinned(stack') = pins
    BY <1>2, <1>4, <2>3, <2>7
  <2>9. TablesTyped(disk', dependencies', ret')
    BY <1>2, <2>1 DEF TablesTyped, files
  <2> QED
    BY <2>6, <2>7, <2>8, <2>9, Stepped
<1> QED
  BY <1>5, <1>6

LEMMA RaiseFrameSound ==
  ASSUME NEW g, NEW st, NEW sc, NEW d \in Live(g), NEW target \in EMPTY..FULLY_SOLVED
  PROVE  /\ RaiseFrame(d, target) \in FrameRecord
         /\ RaiseFrame(d, target).op = "raise" /\ RaiseFrame(d, target).pc = "start"
         /\ RaiseFrame(d, target).ref = d /\ RaiseFrame(d, target).target = target
         /\ FrameSound(RaiseFrame(d, target), g, st, sc)
<1> DEFINE f == RaiseFrame(d, target)
<1>1. d \in RefIds /\ d # Nil
  BY RegistryAssumption DEF Live
<1>2. /\ f.op = "raise" /\ f.pc = "start" /\ f.ref = d /\ f.obj = Nil
      /\ f.target = target /\ f.cur = Nil
  BY DEF RaiseFrame, Frame
<1>3. f \in FrameRecord
  <2>1. Frame("raise") \in FrameRecord
    BY DEF Frame, FrameRecord, EMPTY, FULLY_SOLVED
  <2> QED
    BY <1>1, <2>1 DEF RaiseFrame, FrameRecord
<1> HIDE DEF f
<1>4. FrameSound(f, g, st, sc)
  BY <1>1, <1>2 DEF FrameSound, RaiseSound
<1> QED
  BY <1>2, <1>3, <1>4 DEF f

(* get_depended_parser_for, when the parser is new to the one that asks.   *)
LEMMA AcquiredSound ==
  ASSUME Core, NEW r \in Live(reg), NEW q \in Scripts,
         reg.parser_map[q] # Nil \/ SpareRef,
         \A d \in reg.ref[r].deps : reg.ref[d].path # q
  PROVE  LET g == Acquired(r, q)
             d == Answer(reg, q, FreshRef)
         IN /\ Sound(g) /\ Keeps(reg, g) /\ d \in Live(g)
            /\ d \in g.ref[r].deps /\ g.ref[d].path = q
            /\ Settle(g, pins \cup {d}) => [Next]_vars
<1> DEFINE own == reg.ref[r].path
           h == GetParser(reg, q, own, FreshRef)
           d == Answer(reg, q, FreshRef)
           g == WithDependency(h, r, d)
<1>1. Sound(reg) /\ r \in RefIds /\ own \in Scripts /\ own # Nil
  BY CoreFacts, RegistryAssumption DEF Live, Sound, Placed
<1>2. reg.parser_map[q] = Nil => FreshRef \in RefIds /\ reg.ref[FreshRef].kind = "dead"
  BY DEF SpareRef, FreshRef
<1> HIDE DEF own
<1>3. /\ \A s \in Live(reg) : h.ref[s] = reg.ref[s]
      /\ Keeps(reg, h) /\ Sound(h)
      /\ d \in RefIds /\ h.ref[d].kind = "cached" /\ h.ref[d].path = q
      /\ ~ h.ref[d].abandoned /\ d \in Live(h)
      /\ own \in h.parser_inverse_dependencies[q]
      /\ \E x \in RefIds : h = GetParser(reg, q, own, x) /\ d = Answer(reg, q, x)
                             /\ (reg.parser_map[q] = Nil => reg.ref[x].kind = "dead")
  BY <1>1, <1>2, GetParserKeeps
<1>4. PICK x \in RefIds : h = GetParser(reg, q, own, x) /\ d = Answer(reg, q, x)
                             /\ (reg.parser_map[q] = Nil => reg.ref[x].kind = "dead")
  BY <1>3
<1> HIDE DEF h, d
<1>5. Sound(g)
  <2>1. h.ref[r].path = own /\ IsRegistered(h, d)
    BY <1>3 DEF IsRegistered, own
  <2> QED
    BY <1>1, <1>3, <2>1, SoundWithDependency
<1>6. /\ Keeps(h, g) /\ Live(g) = Live(h) /\ d \in g.ref[r].deps /\ g.ref[d].path = q
  BY <1>1, <1>3, DependencyKeeps
<1>7. Settle(g, pins \cup {d}) => [Next]_vars
  <2> SUFFICES ASSUME Settle(g, pins \cup {d}) PROVE [Next]_vars
    OBVIOUS
  <2>1. Depend(r, q, x)
    BY <1>4 DEF Depend, Spare, own
  <2> QED
    BY <1>1, <2>1 DEF Next
<1> HIDE DEF g
<1>8. Keeps(reg, g)
  BY <1>3, <1>6 DEF Keeps
<1>9. g = Acquired(r, q)
  BY DEF Acquired, g, h, d, own
<1> QED
  BY <1>3, <1>5, <1>6, <1>7, <1>8, <1>9 DEF d

(* The stage goes to another script: the frames afterwards.                *)
LEMMA Visits ==
  ASSUME Core, TablesTyped(disk, dependencies, ret), NEW t \in Threads, ~ Idle(t),
         Top(t).op = "raise", Top(t).pc = "stage", Top(t).cur = Nil,
         NEW q \in Top(t).todo, NEW g, Sound(g), Keeps(reg, g),
         NEW d \in Live(g), d \in g.ref[Top(t).ref].deps, g.ref[d].path = q,
         Call(t, [Top(t) EXCEPT !.cur = q, !.todo = Top(t).todo \ {q}],
              RaiseFrame(d, INHERITANCE_SOLVED)),
         Settle(g, pins \cup {d}) => [Next]_vars,
         CommitParsers(g, stage),
         CommitScripts(scr, shallow_ruzta_cache, full_ruzta_cache),
         TablesTyped(disk', dependencies', ret')
  PROVE  StepSound
<1> DEFINE f == Top(t)
           h == [f EXCEPT !.cur = q, !.todo = f.todo \ {q}]
           e == RaiseFrame(d, INHERITANCE_SOLVED)
<1>1. /\ f \in FrameRecord /\ RaiseSound(f, reg, stage) /\ f.ref \in RefIds
      /\ f.ref \in pins /\ FrameSound(f, reg, stage, scr)
  BY RaiseFacts
<1>2. /\ StagesSound(reg, stage) /\ pins = Pinned(stack)
      /\ ScriptsSound(scr, kept, shallow_ruzta_cache, full_ruzta_cache)
      /\ Allowed(reg, stage, scr)
  BY CoreFacts
<1>3. StagesSound(g, stage) /\ Allowed(g, stage, scr)
  BY <1>2, StagesUnder DEF Allowed
<1>4. q \in Scripts /\ d \in RefIds
  BY <1>1 DEF FrameRecord, Live
<1>5. /\ h \in FrameRecord /\ h.op = "raise" /\ h.ref = f.ref /\ h.obj = f.obj
      /\ h.target = f.target /\ h.cur = q /\ h.pc = "stage"
  BY <1>1, <1>4 DEF FrameRecord
<1>6. Call(t, h, e)
  OBVIOUS
<1> HIDE DEF h
<1>7. FrameSound(f, g, stage, scr)
  BY <1>1, <1>3, AllowedFrame
<1>8. FrameSound(h, g, stage, scr)
  BY <1>5, <1>7 DEF FrameSound, RaiseSound
<1>9. /\ e \in FrameRecord /\ e.op = "raise" /\ e.pc = "start" /\ e.ref = d
      /\ e.target = INHERITANCE_SOLVED /\ FrameSound(e, g, stage, scr)
  <2>1. INHERITANCE_SOLVED \in EMPTY..FULLY_SOLVED
    BY DEF INHERITANCE_SOLVED, EMPTY, FULLY_SOLVED
  <2> QED
    BY <2>1, RaiseFrameSound
<1> HIDE DEF e
<1>10. MayBecome(t, h) /\ MayCall(h, e)
  BY <1>5, <1>9 DEF MayBecome, GoesOn, MayCall
<1>11. /\ StacksSound(stack', g, stage, scr)
       /\ Pinned(stack') = Pinned(stack) \cup ({h.ref, e.ref} \cap RefIds)
  BY <1>3, <1>5, <1>6, <1>8, <1>9, <1>10, Calls
<1>12. Settle(g, Pinned(stack')) => [Next]_vars
  <2>1. Pinned(stack') = pins \cup {d}
    BY <1>1, <1>2, <1>4, <1>5, <1>9, <1>11
  <2> QED
    BY <2>1
<1> QED
  BY <1>2, <1>3, <1>11, <1>12, Stepped DEF CommitScripts

LEMMA RaiseVisitSound ==
  ASSUME Core, TablesTyped(disk, dependencies, ret), NEW t \in Threads, RaiseVisit(t)
  PROVE  StepSound
<1> DEFINE f == Top(t)
           r == f.ref
           own == reg.ref[r].path
           known(q) == {d \in reg.ref[r].deps : reg.ref[d].path = q}
           missing(q) == known(q) = {} /\ reg.parser_map[q] = Nil /\ disk[q] = Nil
           found(q) == IF known(q) # {} THEN CHOOSE d \in known(q) : TRUE
                       ELSE Answer(reg, q, FreshRef)
           visiting(q) == [f EXCEPT !.cur = q, !.todo = f.todo \ {q}]
<1>1. /\ ~ Idle(t) /\ f.op = "raise" /\ f.pc = "stage" /\ f.cur = Nil
      /\ CommitScripts(scr, shallow_ruzta_cache, full_ruzta_cache)
      /\ UNCHANGED <<ret, files>>
  BY DEF RaiseVisit, Running
<1>2. /\ f \in FrameRecord /\ RaiseSound(f, reg, stage) /\ r \in RefIds /\ r \in Live(reg)
      /\ r \in pins /\ own \in Scripts /\ stage[r] \in StageRecord
      /\ FrameSound(f, reg, stage, scr)
  BY <1>1, RaiseFacts
<1>3. /\ Sound(reg) /\ StagesSound(reg, stage) /\ Allowed(reg, stage, scr)
      /\ ScriptsSound(scr, kept, shallow_ruzta_cache, full_ruzta_cache)
      /\ pins = Pinned(stack) /\ (stage[r].status # EMPTY => stage[r].tree \in Trees)
  BY <1>2, CoreFacts DEF StagesSound
<1>4. PICK q \in f.todo :
        /\ known(q) # {} \/ reg.parser_map[q] # Nil \/ missing(q) \/ SpareRef
        /\ dependencies' = IF known(q) # {} THEN dependencies
                           ELSE [dependencies EXCEPT ![own] = @ \cup {q}]
        /\ IF missing(q)
           THEN /\ Become(t, [visiting(q) EXCEPT !.cur = Nil, !.err = TRUE])
                /\ CommitParsers(Noted(reg, q, own), stage)
           ELSE /\ Call(t, visiting(q), RaiseFrame(found(q), INHERITANCE_SOLVED))
                /\ CommitParsers(IF known(q) # {} THEN reg ELSE Acquired(r, q), stage)
  BY DEF RaiseVisit
<1>5. q \in Scripts
  BY <1>2 DEF FrameRecord
<1>6. TablesTyped(disk', dependencies', ret')
  BY <1>1, <1>2, <1>4, <1>5 DEF TablesTyped, files
<1>7. CASE known(q) # {}
  <2> DEFINE d == CHOOSE d \in known(q) : TRUE
  <2>1. d \in known(q)
    BY <1>7
  <2>2. Call(t, visiting(q), RaiseFrame(d, INHERITANCE_SOLVED)) /\ CommitParsers(reg, stage)
    BY <1>4, <1>7
  <2> HIDE DEF d
  <2>3. d \in reg.ref[r].deps /\ reg.ref[d].path = q /\ d \in Live(reg)
    <3>1. d \in reg.ref[r].deps /\ reg.ref[d].path = q
      BY <2>1
    <3> QED
      BY <1>2, <1>3, <3>1 DEF Sound, DepsAreRefs, Live, Registry, RefRecord
  <2>4. Keeps(reg, reg)
    BY <1>3 DEF Allowed
  <2>5. Settle(reg, pins \cup {d}) => [Next]_vars
    <3> SUFFICES ASSUME Settle(reg, pins \cup {d}) PROVE [Next]_vars
      OBVIOUS
    <3>1. Hold(d) /\ d \in RefIds
      BY <2>3 DEF Hold, Live
    <3> QED
      BY <3>1 DEF Next
  <2> QED
    BY <1>1, <1>3, <1>4, <1>6, <2>2, <2>3, <2>4, <2>5, Visits
<1>8. CASE known(q) = {} /\ missing(q)
  <2> DEFINE g == Noted(reg, q, own)
             h == [visiting(q) EXCEPT !.cur = Nil, !.err = TRUE]
  <2>1. Become(t, h) /\ CommitParsers(g, stage)
    BY <1>4, <1>8
  <2>2. Sound(g) /\ Keeps(reg, g)
    BY <1>2, <1>3, <1>5, SoundNoted, NotedKeeps
  <2>3. Settle(g, pins) => [Next]_vars
    <3> SUFFICES ASSUME Settle(g, pins) PROVE [Next]_vars
      OBVIOUS
    <3>1. GetMissing(q, own)
      BY <1>8 DEF GetMissing
    <3> QED
      BY <1>2, <1>5, <3>1 DEF Next
  <2> HIDE DEF g
  <2>4. StagesSound(g, stage) /\ Allowed(g, stage, scr)
    BY <1>3, <2>2, StagesUnder DEF Allowed
  <2>5. /\ h \in FrameRecord /\ h.op = "raise" /\ h.ref = r /\ h.obj = f.obj
        /\ h.target = f.target /\ h.cur = Nil /\ h.pc = "stage"
    BY <1>1, <1>2 DEF FrameRecord
  <2> HIDE DEF h
  <2>6. FrameSound(f, g, stage, scr)
    BY <1>2, <2>4, AllowedFrame
  <2>7. FrameSound(h, g, stage, scr)
    BY <1>1, <2>5, <2>6 DEF FrameSound, RaiseSound
  <2>8. MayBecome(t, h)
    BY <1>1, <2>5 DEF MayBecome, GoesOn
  <2>9. /\ StacksSound(stack', g, stage, scr)
        /\ Pinned(stack') = Pinned(stack) \cup ({h.ref} \cap RefIds)
    BY <1>1, <2>1, <2>4, <2>5, <2>7, <2>8, Becomes
  <2>10. Pinned(stack') = pins
    BY <1>2, <1>3, <2>5, <2>9
  <2> QED
    BY <1>1, <1>3, <1>6, <2>1, <2>2, <2>3, <2>4, <2>9, <2>10, Stepped DEF CommitScripts
<1>9. CASE known(q) = {} /\ ~ missing(q)
  <2> DEFINE g == Acquired(r, q)
             d == Answer(reg, q, FreshRef)
  <2>1. Call(t, visiting(q), RaiseFrame(d, INHERITANCE_SOLVED)) /\ CommitParsers(g, stage)
    BY <1>4, <1>9
  <2>2. reg.parser_map[q] # Nil \/ SpareRef
    BY <1>4, <1>9
  <2>3. \A x \in reg.ref[r].deps : reg.ref[x].path # q
    BY <1>9
  <2>4. /\ Sound(g) /\ Keeps(reg, g) /\ d \in Live(g)
        /\ d \in g.ref[r].deps /\ g.ref[d].path = q
        /\ Settle(g, pins \cup {d}) => [Next]_vars
    BY <1>2, <1>5, <2>2, <2>3, AcquiredSound
  <2> HIDE DEF g, d
  <2> QED
    BY <1>1, <1>4, <1>6, <2>1, <2>4, Visits
<1> QED
  BY <1>7, <1>8, <1>9

-----------------------------------------------------------------------------
(***************************************************************************)
(* Activations other than raise_status: one goes on, or calls.             *)
(***************************************************************************)
LEMMA WentOn ==
  ASSUME Core, TablesTyped(disk', dependencies', ret'), NEW t \in Threads, ~ Idle(t),
         NEW g, Sound(g), NEW st, StagesSound(g, st), NEW sc, Allowed(g, st, sc),
         NEW sh, NEW fu, ScriptsSound(sc, kept, sh, fu),
         Top(t).op # "raise",
         NEW f \in FrameRecord, f.op = Top(t).op, f.ref = Top(t).ref,
         FrameSound(f, g, st, sc), Become(t, f),
         CommitParsers(g, st), CommitScripts(sc, sh, fu),
         Settle(g, pins) => [Next]_vars
  PROVE  StepSound
<1>1. MayBecome(t, f)
  BY DEF MayBecome
<1>2. /\ StacksSound(stack', g, st, sc)
      /\ Pinned(stack') = Pinned(stack) \cup ({f.ref} \cap RefIds)
  BY <1>1, Becomes
<1>3. Pinned(stack') = pins
  BY <1>2, CoreFacts, TopSound, RegistryAssumption
<1> QED
  BY <1>2, <1>3, Stepped DEF CommitScripts

LEMMA WentInto ==
  ASSUME Core, TablesTyped(disk', dependencies', ret'), NEW t \in Threads, ~ Idle(t),
         NEW g, Sound(g), NEW st, StagesSound(g, st), NEW sc, Allowed(g, st, sc),
         NEW sh, NEW fu, ScriptsSound(sc, kept, sh, fu),
         Top(t).op # "raise",
         NEW f \in FrameRecord, f.op = Top(t).op, Top(t).ref \in {Nil, f.ref},
         FrameSound(f, g, st, sc), NEW e \in FrameRecord, FrameSound(e, g, st, sc),
         Call(t, f, e),
         CommitParsers(g, st), CommitScripts(sc, sh, fu),
         Settle(g, pins \cup ({f.ref, e.ref} \cap RefIds)) => [Next]_vars
  PROVE  StepSound
<1>1. MayBecome(t, f) /\ MayCall(f, e)
  BY DEF MayBecome, MayCall
<1>2. /\ StacksSound(stack', g, st, sc)
      /\ Pinned(stack') = Pinned(stack) \cup ({f.ref, e.ref} \cap RefIds)
  BY <1>1, Calls
<1>3. Pinned(stack') = pins \cup ({f.ref, e.ref} \cap RefIds)
  BY <1>2, CoreFacts
<1> QED
  BY <1>2, <1>3, Stepped DEF CommitScripts

(* The script of the activation on top.                                    *)
LEMMA ScriptFacts ==
  ASSUME Core, NEW o \in Objs, scr[o].path # Nil
  PROVE  /\ scr[o] \in ScriptRecord /\ scr[o].path \in Scripts
         /\ scr[o].source \in Content /\ scr[o].source \in Trees
<1>1. scr[o] \in ScriptRecord /\ scr[o] # NoScript
  BY CoreFacts DEF ScriptsSound, NoScript
<1>2. scr[o].source # Nil
  BY <1>1, CoreFacts DEF ScriptsSound
<1> QED
  BY <1>1, <1>2 DEF ScriptRecord, Trees

LEMMA ReloadFacts ==
  ASSUME Core, NEW t \in Threads, ~ Idle(t), Top(t).op = "reload"
  PROVE  /\ Top(t) \in FrameRecord /\ FrameSound(Top(t), reg, stage, scr)
         /\ Top(t).obj \in Objs /\ scr[Top(t).obj].path # Nil
         /\ Top(t).pc \in Unparsed => Top(t).ref = Nil
         /\ Top(t).pc \in Checking => Top(t).path \in Scripts
         /\ Top(t).ref # Nil => Top(t).ref \in pins
<1>1. /\ Top(t) \in FrameRecord /\ FrameSound(Top(t), reg, stage, scr)
      /\ Top(t).ref # Nil => Top(t).ref \in pins
  BY TopSound
<1>2. ReloadSound(Top(t)) /\ Top(t).obj # Nil /\ scr[Top(t).obj].path # Nil
  BY <1>1 DEF FrameSound, ReloadSound
<1>3. Top(t).obj \in Objs /\ (Top(t).pc \in Checking => Top(t).path \in Scripts)
  BY <1>1, <1>2 DEF FrameRecord, ReloadSound
<1>4. Top(t).pc \in Unparsed => Top(t).ref = Nil
  BY <1>2 DEF ReloadSound
<1> QED
  BY <1>1, <1>2, <1>3, <1>4

LEMMA ReloadBusySound ==
  ASSUME Core, TablesTyped(disk, dependencies, ret), NEW t \in Threads, ReloadBusy(t)
  PROVE  StepSound
<1>1. /\ ~ Idle(t) /\ Return(t, TRUE) /\ UNCHANGED files
      /\ KeepParsers /\ KeepScripts
  BY DEF ReloadBusy, Running
<1> QED
  BY <1>1, JustReturned

LEMMA AnnouncedSound ==
  ASSUME NEW sc, ScriptsSound(sc, kept, shallow_ruzta_cache, full_ruzta_cache),
         NEW p \in Scripts, NEW o \in Objs, sc[o].path # Nil
  PROVE  ScriptsSound(sc, kept, Announced(p, o), full_ruzta_cache)
<1> DEFINE sh == [shallow_ruzta_cache EXCEPT ![p] = o]
<1>1. /\ sh \in [Scripts -> Objs \cup {Nil}] /\ sh[p] = o
      /\ \A q \in Scripts \ {p} : sh[q] = shallow_ruzta_cache[q]
  BY DEF ScriptsSound
<1> HIDE DEF sh
<1>2. ScriptsSound(sc, kept, sh, full_ruzta_cache)
  BY <1>1 DEF ScriptsSound
<1> QED
  BY <1>2 DEF Announced, sh

(* A reload goes on, and nothing else happens.                             *)
LEMMA WentQuietly ==
  ASSUME Core, TablesTyped(disk, dependencies, ret), NEW t \in Threads, ~ Idle(t),
         Top(t).op = "reload", NEW pc, GoOn(t, pc),
         pc \in Unparsed \cup Checking,
         pc \in Unparsed => Top(t).ref = Nil,
         pc \in Checking => Top(t).path # Nil
  PROVE  StepSound
<1> DEFINE f == Top(t)
           h == [f EXCEPT !.pc = pc]
<1>1. /\ Become(t, h) /\ UNCHANGED <<files, ret, dependencies>>
      /\ CommitParsers(reg, stage)
      /\ CommitScripts(scr, shallow_ruzta_cache, full_ruzta_cache)
  BY DEF GoOn, KeepParsers, KeepScripts
<1>2. f \in FrameRecord /\ FrameSound(f, reg, stage, scr) /\ f.obj \in Objs
  BY ReloadFacts
<1>3. /\ Sound(reg) /\ StagesSound(reg, stage) /\ Allowed(reg, stage, scr)
      /\ ScriptsSound(scr, kept, shallow_ruzta_cache, full_ruzta_cache)
      /\ Settle(reg, pins) => [Next]_vars
  BY CoreFacts, Held
<1>4. /\ h \in FrameRecord /\ h.op = "reload" /\ h.ref = f.ref /\ h.obj = f.obj
      /\ h.pc = pc /\ h.path = f.path
  BY <1>2 DEF FrameRecord, Unparsed, Checking
<1> HIDE DEF h
<1>5. FrameSound(h, reg, stage, scr)
  BY <1>2, <1>4 DEF FrameSound, ReloadSound
<1>6. TablesTyped(disk', dependencies', ret')
  BY <1>1 DEF files
<1> QED
  BY <1>1, <1>3, <1>4, <1>5, <1>6, WentOn

LEMMA ReloadGoesOnSound ==
  ASSUME Core, TablesTyped(disk, dependencies, ret), NEW t \in Threads,
         ReloadFree(t) \/ ReloadLook(t) \/ ReloadHas(t) \/ ReloadCompare(t)
  PROVE  StepSound
<1>1. ~ Idle(t) /\ Top(t).op = "reload"
  BY DEF ReloadFree, ReloadLook, ReloadHas, ReloadCompare, Running
<1>2. /\ Top(t).pc \in Unparsed => Top(t).ref = Nil
      /\ Top(t).pc \in Checking => Top(t).path # Nil
  BY <1>1, ReloadFacts, RegistryAssumption
<1>3. CASE ReloadFree(t)
  BY <1>1, <1>2, <1>3, WentQuietly DEF ReloadFree, Running, Unparsed, Checking
<1>4. CASE ReloadLook(t)
  <2>1. GoOn(t, "has") \/ GoOn(t, "announce")
    BY <1>4 DEF ReloadLook
  <2> QED
    BY <1>1, <1>2, <1>4, <2>1, WentQuietly DEF ReloadLook, Running, Unparsed, Checking
<1>5. CASE ReloadHas(t)
  <2>1. GoOn(t, "parse") \/ GoOn(t, "get")
    BY <1>5 DEF ReloadHas
  <2> QED
    BY <1>1, <1>2, <1>5, <2>1, WentQuietly DEF ReloadHas, Running, Unparsed, Checking
<1>6. CASE ReloadCompare(t)
  <2>1. GoOn(t, "release") \/ GoOn(t, "remove")
    BY <1>6 DEF ReloadCompare
  <2> QED
    BY <1>1, <1>2, <1>6, <2>1, WentQuietly DEF ReloadCompare, Running, Unparsed, Checking
<1> QED
  BY <1>3, <1>4, <1>5, <1>6

LEMMA ReloadFlagSound ==
  ASSUME Core, TablesTyped(disk, dependencies, ret), NEW t \in Threads, ReloadFlag(t)
  PROVE  StepSound
<1> DEFINE f == Top(t)
           o == f.obj
           p == scr[o].path
           h == [f EXCEPT !.pc = "look", !.path = p]
           x == [scr[o] EXCEPT !.reloading = TRUE]
           sc == Updated(scr, o, x)
<1>1. /\ ~ Idle(t) /\ f.op = "reload" /\ f.pc = "flag" /\ Become(t, h)
      /\ CommitParsers(reg, stage)
      /\ CommitScripts([scr EXCEPT ![o].reloading = TRUE],
                       shallow_ruzta_cache, full_ruzta_cache)
      /\ UNCHANGED <<files, ret, dependencies>>
  BY DEF ReloadFlag, Running, KeepParsers
<1>2. /\ f \in FrameRecord /\ FrameSound(f, reg, stage, scr)
      /\ o \in Objs /\ scr[o].path # Nil /\ f.ref = Nil
  BY <1>1, ReloadFacts DEF Unparsed
<1>3. scr[o] \in ScriptRecord /\ p \in Scripts /\ scr[o].source \in Content
  BY <1>2, ScriptFacts
<1>4. /\ Sound(reg) /\ StagesSound(reg, stage) /\ Allowed(reg, stage, scr)
      /\ ScriptsSound(scr, kept, shallow_ruzta_cache, full_ruzta_cache)
      /\ Settle(reg, pins) => [Next]_vars
  BY CoreFacts, Held
<1>5. x \in ScriptRecord /\ x.path = p /\ x.source = scr[o].source
  BY <1>3 DEF ScriptRecord
<1>6. sc = [scr EXCEPT ![o].reloading = TRUE]
  BY <1>2, <1>4 DEF Updated, ScriptsSound
<1> HIDE DEF x
<1>7. /\ ScriptsSound(sc, kept, shallow_ruzta_cache, full_ruzta_cache)
      /\ PathsStay(scr, sc) /\ sc[o].path # Nil
  <2>1. x.path # Nil /\ x.source # Nil
    BY <1>2, <1>3, <1>5, ContentAssumption
  <2> QED
    BY <1>2, <1>4, <1>5, <2>1, ScriptChanged
<1>8. CommitScripts(sc, shallow_ruzta_cache, full_ruzta_cache)
  BY <1>1, <1>6
<1> HIDE DEF sc
<1>9. Allowed(reg, stage, sc)
  BY <1>4, <1>7 DEF Allowed
<1>10. /\ h \in FrameRecord /\ h.op = "reload" /\ h.ref = Nil /\ h.obj = o
       /\ h.pc = "look" /\ h.path = p
  BY <1>1, <1>2, <1>3 DEF FrameRecord
<1> HIDE DEF h
<1>11. FrameSound(h, reg, stage, sc)
  BY <1>2, <1>3, <1>7, <1>10, ContentAssumption, RegistryAssumption
     DEF FrameSound, ReloadSound
<1>12. TablesTyped(disk', dependencies', ret')
  BY <1>1 DEF files
<1> QED
  BY <1>1, <1>2, <1>4, <1>7, <1>8, <1>9, <1>10, <1>11, <1>12, WentOn

LEMMA ReloadAnnounceSound ==
  ASSUME Core, TablesTyped(disk, dependencies, ret), NEW t \in Threads, ReloadAnnounce(t)
  PROVE  StepSound
<1> DEFINE f == Top(t)
           h == [f EXCEPT !.pc = "has"]
           sh == Announced(f.path, f.obj)
<1>1. /\ ~ Idle(t) /\ f.op = "reload" /\ f.pc = "announce" /\ Become(t, h)
      /\ CommitParsers(reg, stage) /\ CommitScripts(scr, sh, full_ruzta_cache)
      /\ UNCHANGED <<files, ret, dependencies>>
  BY DEF ReloadAnnounce, Running, KeepParsers
<1>2. /\ f \in FrameRecord /\ FrameSound(f, reg, stage, scr)
      /\ f.obj \in Objs /\ scr[f.obj].path # Nil /\ f.ref = Nil /\ f.path \in Scripts
  BY <1>1, ReloadFacts DEF Unparsed, Checking
<1>3. /\ Sound(reg) /\ StagesSound(reg, stage) /\ Allowed(reg, stage, scr)
      /\ ScriptsSound(scr, kept, shallow_ruzta_cache, full_ruzta_cache)
      /\ Settle(reg, pins) => [Next]_vars
  BY CoreFacts, Held
<1>4. ScriptsSound(scr, kept, sh, full_ruzta_cache)
  BY <1>2, <1>3, AnnouncedSound
<1> HIDE DEF sh
<1>5. /\ h \in FrameRecord /\ h.op = "reload" /\ h.ref = Nil /\ h.obj = f.obj
      /\ h.pc = "has" /\ h.path = f.path
  BY <1>1, <1>2 DEF FrameRecord
<1> HIDE DEF h
<1>6. FrameSound(h, reg, stage, scr)
  BY <1>2, <1>5, ContentAssumption, RegistryAssumption DEF FrameSound, ReloadSound
<1>7. TablesTyped(disk', dependencies', ret')
  BY <1>1 DEF files
<1> QED
  BY <1>1, <1>2, <1>3, <1>4, <1>5, <1>6, <1>7, WentOn

LEMMA ReloadRemoveSound ==
  ASSUME Core, TablesTyped(disk, dependencies, ret), NEW t \in Threads, ReloadRemove(t)
  PROVE  StepSound
<1> DEFINE f == Top(t)
           h == [f EXCEPT !.pc = "release"]
           g == RemoveParser(reg, f.path)
<1>1. /\ ~ Idle(t) /\ f.op = "reload" /\ f.pc = "remove" /\ Become(t, h)
      /\ CommitParsers(g, stage)
      /\ CommitScripts(scr, shallow_ruzta_cache, full_ruzta_cache)
      /\ UNCHANGED <<files, ret, dependencies>>
  BY DEF ReloadRemove, Running, KeepScripts
<1>2. /\ f \in FrameRecord /\ FrameSound(f, reg, stage, scr)
      /\ f.obj \in Objs /\ f.path \in Scripts
  BY <1>1, ReloadFacts DEF Checking
<1>3. /\ Sound(reg) /\ StagesSound(reg, stage) /\ Allowed(reg, stage, scr)
      /\ ScriptsSound(scr, kept, shallow_ruzta_cache, full_ruzta_cache)
  BY CoreFacts
<1>4. Settle(g, pins) => [Next]_vars
  BY <1>2 DEF Next, Remove
<1>5. Sound(g) /\ Keeps(reg, g)
  BY <1>2, <1>3, SoundRemoveParser, RemoveKeeps
<1> HIDE DEF g
<1>6. StagesSound(g, stage) /\ Allowed(g, stage, scr)
  BY <1>3, <1>5, StagesUnder DEF Allowed
<1>7. /\ h \in FrameRecord /\ h.op = "reload" /\ h.ref = f.ref /\ h.obj = f.obj
      /\ h.pc = "release" /\ h.path = f.path
  BY <1>1, <1>2 DEF FrameRecord
<1> HIDE DEF h
<1>8. FrameSound(f, g, stage, scr)
  BY <1>2, <1>6, AllowedFrame
<1>9. FrameSound(h, g, stage, scr)
  BY <1>1, <1>7, <1>8 DEF FrameSound, ReloadSound, Checking, Unparsed
<1>10. TablesTyped(disk', dependencies', ret')
  BY <1>1 DEF files
<1> QED
  BY <1>1, <1>3, <1>4, <1>5, <1>6, <1>7, <1>9, <1>10, WentOn

(* get_parser, for no other script.                                        *)
LEMMA GotParser ==
  ASSUME Core, NEW p \in Scripts, reg.parser_map[p] # Nil \/ SpareRef
  PROVE  LET d == Answer(reg, p, FreshRef)
             g == GetParser(reg, p, Nil, FreshRef)
         IN /\ Keeps(reg, g) /\ Sound(g) /\ d \in RefIds /\ d \in Live(g)
            /\ Settle(g, pins \cup {d}) => [Next]_vars
<1> DEFINE n == FreshRef
           d == Answer(reg, p, n)
           g == GetParser(reg, p, Nil, n)
<1>1. Sound(reg) /\ Nil \in Scripts \cup {Nil}
  BY CoreFacts
<1>2. reg.parser_map[p] = Nil => n \in RefIds /\ reg.ref[n].kind = "dead"
  BY DEF SpareRef, FreshRef
<1> HIDE DEF n
<1>3. Keeps(reg, g) /\ Sound(g) /\ d \in RefIds /\ d \in Live(g)
  BY <1>1, <1>2, GetParserKeeps
<1>4. PICK x \in RefIds : g = GetParser(reg, p, Nil, x) /\ d = Answer(reg, p, x)
                            /\ (reg.parser_map[p] = Nil => reg.ref[x].kind = "dead")
  <2>1. CASE reg.parser_map[p] = Nil
    BY <1>2, <2>1
  <2>2. CASE reg.parser_map[p] # Nil
    <3>1. d = Answer(reg, p, d) /\ g = GetParser(reg, p, Nil, d)
      BY <2>2 DEF Answer, GetParser
    <3> QED
      BY <1>3, <2>2, <3>1
  <2> QED
    BY <2>1, <2>2
<1> HIDE DEF d, g
<1>5. Settle(g, pins \cup {d}) => [Next]_vars
  <2> SUFFICES ASSUME Settle(g, pins \cup {d}) PROVE [Next]_vars
    OBVIOUS
  <2>1. Get(p, Nil, x)
    BY <1>4 DEF Get, Spare
  <2> QED
    BY <2>1 DEF Next
<1> QED
  BY <1>3, <1>5 DEF d, g, n

LEMMA ReloadGetSound ==
  ASSUME Core, TablesTyped(disk, dependencies, ret), NEW t \in Threads, ReloadGet(t)
  PROVE  StepSound
<1> DEFINE f == Top(t)
           p == f.path
           missing == reg.parser_map[p] = Nil /\ disk[p] = Nil
<1>1. ~ Idle(t) /\ f.op = "reload" /\ f.pc = "get"
  BY DEF ReloadGet, Running
<1>2. /\ f \in FrameRecord /\ FrameSound(f, reg, stage, scr)
      /\ f.obj \in Objs /\ p \in Scripts /\ f.ref = Nil
  BY <1>1, ReloadFacts DEF Checking, Unparsed
<1>3. CASE missing
  <2>1. GoOn(t, "parse")
    BY <1>3 DEF ReloadGet, GoOn
  <2> QED
    BY <1>1, <1>2, <2>1, WentQuietly DEF Unparsed, Checking
<1>4. CASE ~ missing
  <2> DEFINE d == Answer(reg, p, FreshRef)
             g == GetParser(reg, p, Nil, FreshRef)
             h == [f EXCEPT !.pc = "compare", !.ref = d]
  <2>1. /\ reg.parser_map[p] # Nil \/ SpareRef
        /\ Become(t, h) /\ CommitParsers(g, stage)
        /\ CommitScripts(scr, shallow_ruzta_cache, full_ruzta_cache)
        /\ UNCHANGED <<files, ret, dependencies>>
    BY <1>4 DEF ReloadGet, KeepScripts
  <2>2. /\ Sound(reg) /\ StagesSound(reg, stage) /\ Allowed(reg, stage, scr)
        /\ ScriptsSound(scr, kept, shallow_ruzta_cache, full_ruzta_cache)
        /\ pins = Pinned(stack)
    BY CoreFacts
  <2>4. /\ Keeps(reg, g) /\ Sound(g) /\ d \in RefIds /\ d \in Live(g)
        /\ Settle(g, pins \cup {d}) => [Next]_vars
    BY <1>2, <2>1, GotParser
  <2> HIDE DEF d, g
  <2>7. StagesSound(g, stage) /\ Allowed(g, stage, scr)
    BY <2>2, <2>4, StagesUnder DEF Allowed
  <2>8. /\ h \in FrameRecord /\ h.op = "reload" /\ h.ref = d /\ h.obj = f.obj
        /\ h.pc = "compare" /\ h.path = p
    BY <1>1, <1>2, <2>4 DEF FrameRecord
  <2> HIDE DEF h
  <2>9. FrameSound(h, g, stage, scr)
    BY <1>2, <2>2, <2>4, <2>8, ContentAssumption, RegistryAssumption
       DEF FrameSound, ReloadSound, Unparsed
  <2>10. MayBecome(t, h)
    BY <1>1, <1>2, <2>8 DEF MayBecome
  <2>11. /\ StacksSound(stack', g, stage, scr)
         /\ Pinned(stack') = Pinned(stack) \cup ({h.ref} \cap RefIds)
    BY <1>1, <2>1, <2>7, <2>8, <2>9, <2>10, Becomes
  <2>12. Pinned(stack') = pins \cup {d}
    BY <2>2, <2>4, <2>8, <2>11
  <2>13. TablesTyped(disk', dependencies', ret')
    BY <2>1 DEF files
  <2> QED
    BY <2>1, <2>2, <2>4, <2>7, <2>11, <2>12, <2>13, Stepped DEF CommitScripts
<1> QED
  BY <1>3, <1>4

(* The parser that was compared is let go.                                 *)
LEMMA ReloadReleaseSound ==
  ASSUME Core, TablesTyped(disk, dependencies, ret), NEW t \in Threads, ReloadRelease(t)
  PROVE  StepSound
<1> DEFINE f == Top(t)
           h == [f EXCEPT !.pc = "parse", !.ref = Nil]
           n == <<h>> \o Tail(stack[t])
<1>1. /\ ~ Idle(t) /\ f.op = "reload" /\ f.pc = "release" /\ Become(t, h)
      /\ UNCHANGED <<files, ret, dependencies>> /\ KeepParsers
      /\ CommitScripts(scr, shallow_ruzta_cache, full_ruzta_cache)
  BY DEF ReloadRelease, Running, KeepScripts
<1>2. f \in FrameRecord /\ FrameSound(f, reg, stage, scr) /\ f.obj \in Objs
  BY <1>1, ReloadFacts
<1>3. /\ StacksSound(stack, reg, stage, scr) /\ stack \in [Threads -> Seq(FrameRecord)]
      /\ pins = Pinned(stack)
  BY CoreFacts
<1>4. /\ h \in FrameRecord /\ h.op = "reload" /\ h.ref = Nil /\ h.obj = f.obj
      /\ h.pc = "parse" /\ h.path = f.path
  BY <1>1, <1>2 DEF FrameRecord
<1> HIDE DEF h
<1>5. FrameSound(h, reg, stage, scr)
  BY <1>1, <1>2, <1>4 DEF FrameSound, ReloadSound, Checking
<1>6. stack[t] \in Seq(FrameRecord) /\ stack[t] # <<>> /\ f = stack[t][1]
  BY <1>1, TopSound
<1>7. StackSound(n, reg, stage, scr)
  BY <1>1, <1>3, <1>4, <1>5, <1>6, BecomeSound DEF StacksSound
<1>8. Refs(n) \cup {f.ref} = Refs(stack[t]) \cup {Nil}
  BY <1>4, <1>6, RefsReplaced
<1>9. stack' = [stack EXCEPT ![t] = n]
  BY <1>1, <1>3 DEF Become
<1>10. Nil \in Refs(n) /\ f.ref \in Refs(stack[t])
  <2>1. Len(stack[t]) \in Nat \ {0} /\ Len(n) = Len(stack[t]) /\ n[1] = h
    BY <1>4, <1>6, TopReplaced
  <2>2. 1 \in 1..Len(stack[t])
    BY <2>1
  <2> HIDE DEF n
  <2> QED
    BY <1>4, <1>6, <2>1, <2>2 DEF Refs
<1> HIDE DEF n
<1>11. StacksSound(stack', reg, stage, scr)
  BY <1>3, <1>7, <1>9, ThreadSound
<1>12. Pinned(stack') \subseteq Pinned(stack)
  <2>1. \A r \in RefIds : r \in Refs(n) => r \in Refs(stack[t])
    BY <1>8, RegistryAssumption
  <2>2. stack'[t] = n /\ \A u \in Threads \ {t} : stack'[u] = stack[u]
    BY <1>3, <1>9
  <2> QED
    BY <2>1, <2>2 DEF Pinned
<1>13. TablesTyped(disk', dependencies', ret')
  BY <1>1 DEF files
<1> QED
  BY <1>1, <1>11, <1>12, <1>13, Unseen

(* A parser of its own for the text of a script.                           *)
LEMMA NewLocalSound ==
  ASSUME Core, NEW p \in Scripts, SpareRef
  PROVE  LET g == [reg EXCEPT !.ref[FreshRef] =
                     [kind |-> "local", path |-> p, deps |-> {}, abandoned |-> FALSE]]
         IN /\ Sound(g) /\ Keeps(reg, g) /\ FreshRef \in Live(g)
            /\ FreshRef \notin Live(reg)
            /\ Settle(g, pins \cup {FreshRef}) => [Next]_vars
<1> DEFINE n == FreshRef
           e == [kind |-> "local", path |-> p, deps |-> {}, abandoned |-> FALSE]
           f == [reg.ref EXCEPT ![n] = e]
           g == [reg EXCEPT !.ref[n] = e]
<1>1. n \in RefIds /\ reg.ref[n].kind = "dead"
  BY DEF SpareRef, FreshRef
<1>2. Sound(reg)
  BY CoreFacts
<1> HIDE DEF n
<1>3. Sound(g)
  BY <1>1, <1>2, SoundNewLocal
<1>4. Settle(g, pins \cup {n}) => [Next]_vars
  <2> SUFFICES ASSUME Settle(g, pins \cup {n}) PROVE [Next]_vars
    OBVIOUS
  <2>1. NewLocal(p, n)
    BY <1>1 DEF NewLocal
  <2> QED
    BY <1>1, <2>1 DEF Next
<1>5. e.kind = "local"
  OBVIOUS
<1> HIDE DEF e
<1>6. f[n] = e /\ \A s \in RefIds \ {n} : f[s] = reg.ref[s]
  BY <1>1, <1>2 DEF Sound, Registry
<1>7. g = [reg EXCEPT !.ref = f]
  OBVIOUS
<1> HIDE DEF f
<1>8. g.ref = f
  BY <1>2, <1>7 DEF Sound, Registry
<1> HIDE DEF g
<1>9. n \in Live(g) /\ n \notin Live(reg)
  BY <1>1, <1>5, <1>6, <1>8 DEF Live
<1>10. \A s \in Live(reg) : g.ref[s] = reg.ref[s]
  BY <1>6, <1>8, <1>9 DEF Live
<1>11. Keeps(reg, g)
  BY <1>10 DEF Keeps, Live
<1> QED
  BY <1>3, <1>4, <1>9, <1>11 DEF n, e, g

LEMMA ReloadParseSound ==
  ASSUME Core, TablesTyped(disk, dependencies, ret), NEW t \in Threads, ReloadParse(t)
  PROVE  StepSound
<1> DEFINE f == Top(t)
           o == f.obj
           p == scr[o].path
           parses == scr[o].source.health # "parse_error"
           h == [f EXCEPT !.pc = "analyzed", !.ref = FreshRef]
           e == RaiseFrame(FreshRef, FULLY_SOLVED)
           x == [scr[o] EXCEPT !.valid = FALSE, !.initialized = FALSE, !.reloading = parses]
           sc == Updated(scr, o, x)
           g == [reg EXCEPT !.ref[FreshRef] =
                   [kind |-> "local", path |-> p, deps |-> {}, abandoned |-> FALSE]]
           y == [NoTree EXCEPT !.status = PARSED, !.tree = scr[o].source]
           st == Updated(stage, FreshRef, y)
<1>1. /\ ~ Idle(t) /\ f.op = "reload" /\ f.pc = "parse" /\ SpareRef
      /\ IF parses
         THEN /\ Call(t, h, e)
              /\ UNCHANGED ret
              /\ CommitParsers(g, [stage EXCEPT ![FreshRef] = y])
         ELSE /\ Return(t, FALSE)
              /\ KeepParsers
      /\ CommitScripts([scr EXCEPT ![o].valid = FALSE, ![o].initialized = FALSE,
                                   ![o].reloading = parses],
                       shallow_ruzta_cache, full_ruzta_cache)
      /\ UNCHANGED <<files, dependencies>>
  BY DEF ReloadParse, Running
<1>2. /\ f \in FrameRecord /\ FrameSound(f, reg, stage, scr)
      /\ o \in Objs /\ o # Nil /\ scr[o].path # Nil /\ f.ref = Nil
  BY <1>1, ReloadFacts, ContentAssumption DEF Unparsed
<1>3. /\ scr[o] \in ScriptRecord /\ p \in Scripts /\ scr[o].source \in Content
      /\ scr[o].source \in Trees
  BY <1>2, ScriptFacts
<1>4. /\ Sound(reg) /\ StagesSound(reg, stage) /\ Allowed(reg, stage, scr)
      /\ ScriptsSound(scr, kept, shallow_ruzta_cache, full_ruzta_cache)
      /\ pins = Pinned(stack) /\ pins \subseteq RefIds
  BY CoreFacts
<1>5. parses \in BOOLEAN
  OBVIOUS
<1> HIDE DEF parses
<1>6. /\ x \in ScriptRecord /\ x.path = scr[o].path /\ x.source = scr[o].source
  BY <1>3, <1>5 DEF ScriptRecord
<1>7. sc = [scr EXCEPT ![o].valid = FALSE, ![o].initialized = FALSE,
                       ![o].reloading = parses]
  BY <1>2, <1>4 DEF Updated, ScriptsSound
<1> HIDE DEF x
<1>8. /\ ScriptsSound(sc, kept, shallow_ruzta_cache, full_ruzta_cache) /\ PathsStay(scr, sc)
      /\ sc[o].path # Nil
  <2>1. x.path # Nil /\ x.source # Nil
    BY <1>2, <1>3, <1>6, ContentAssumption
  <2> QED
    BY <1>2, <1>4, <1>6, <2>1, ScriptChanged
<1>9. CommitScripts(sc, shallow_ruzta_cache, full_ruzta_cache)
  BY <1>1, <1>7
<1> HIDE DEF sc
<1>10. CASE ~ parses
  <2>1. Return(t, FALSE) /\ KeepParsers /\ UNCHANGED files
        /\ dependencies' \in [Scripts -> SUBSET Scripts]
    BY <1>1, <1>10 DEF TablesTyped
  <2> QED
    BY <1>1, <1>8, <1>9, <2>1, Returned
<1>11. CASE parses
  <2>1. Call(t, h, e) /\ CommitParsers(g, st) /\ TablesTyped(disk', dependencies', ret')
    BY <1>1, <1>11 DEF Updated, files
  <2> DEFINE n == FreshRef
  <2>2. /\ Sound(g) /\ Keeps(reg, g) /\ n \in Live(g) /\ n \notin Live(reg)
        /\ Settle(g, pins \cup {n}) => [Next]_vars
    BY <1>1, <1>3, NewLocalSound
  <2>3. y \in StageRecord /\ y.base = Nil /\ y.status = PARSED /\ y.tree \in Trees
    <3>1. NoTree \in StageRecord /\ NoTree.base = Nil
      BY DEF NoTree, StageRecord, EMPTY, FULLY_SOLVED
    <3>2. PARSED \in EMPTY..FULLY_SOLVED /\ scr[o].source \in Content \cup {EmptySource, Nil}
      BY <1>3 DEF PARSED, EMPTY, FULLY_SOLVED
    <3> QED
      BY <1>3, <3>1, <3>2 DEF StageRecord
  <2>4. e \in FrameRecord /\ e.ref = n /\ FrameSound(e, g, st, sc)
    <3>1. FULLY_SOLVED \in EMPTY..FULLY_SOLVED
      BY DEF EMPTY, FULLY_SOLVED
    <3> QED
      BY <2>2, <3>1, RaiseFrameSound
  <2> HIDE DEF g, y, e
  <2>5. n \in RefIds /\ n # Nil
    BY <2>2, RegistryAssumption DEF Live
  <2>6. StagesSound(g, stage)
    BY <1>4, <2>2, StagesUnder
  <2>7. StagesSound(g, st) /\ st \in [RefIds -> StageRecord]
    BY <2>3, <2>5, <2>6, StageChanged
  <2>8. Rises(reg, stage, st)
    <3>1. \A s \in Live(reg) : st[s] = stage[s] /\ stage[s].status <= stage[s].status
      BY <1>4, <2>2, <2>5
         DEF Updated, StagesSound, StageRecord, Live, EMPTY, FULLY_SOLVED
    <3> QED
      BY <3>1 DEF Rises
  <2> HIDE DEF st
  <2>9. Allowed(g, st, sc)
    BY <1>8, <2>2, <2>7, <2>8 DEF Allowed
  <2>10. /\ h \in FrameRecord /\ h.op = "reload" /\ h.ref = n /\ h.obj = o
         /\ h.pc = "analyzed"
    BY <1>1, <1>2, <2>5 DEF FrameRecord
  <2> HIDE DEF h, n
  <2>11. FrameSound(h, g, st, sc)
    BY <1>2, <1>8, <2>2, <2>10 DEF FrameSound, ReloadSound, Unparsed, Checking
  <2>12. Settle(g, pins \cup ({h.ref, e.ref} \cap RefIds)) => [Next]_vars
    <3>1. pins \cup ({h.ref, e.ref} \cap RefIds) = pins \cup {n}
      BY <2>4, <2>5, <2>10
    <3> QED
      BY <2>2, <3>1
  <2> QED
    BY <1>1, <1>2, <1>8, <1>9, <2>1, <2>2, <2>4, <2>7, <2>9, <2>10, <2>11, <2>12, WentInto
<1> QED
  BY <1>10, <1>11

(* The activations that begin.                                             *)
FinishFrame(p) == [Frame("finish") EXCEPT !.path = p]

LEMMA FrameTyped ==
  ASSUME NEW op \in {"raise", "reload", "finish", "full", "query"}
  PROVE  /\ Frame(op) \in FrameRecord /\ Frame(op).op = op /\ Frame(op).pc = "start"
         /\ Frame(op).ref = Nil /\ Frame(op).obj = Nil /\ Frame(op).cur = Nil
BY DEF Frame, FrameRecord, EMPTY, FULLY_SOLVED

LEMMA FinishFrameSound ==
  ASSUME NEW g, NEW st, NEW sc, NEW p \in Scripts
  PROVE  /\ FinishFrame(p) \in FrameRecord /\ FinishFrame(p).ref = Nil
         /\ FrameSound(FinishFrame(p), g, st, sc)
<1> DEFINE f == FinishFrame(p)
<1>1. /\ f \in FrameRecord /\ f.op = "finish" /\ f.path = p /\ f.ref = Nil /\ f.obj = Nil
  BY FrameTyped DEF FinishFrame, FrameRecord
<1> HIDE DEF f
<1>2. FrameSound(f, g, st, sc)
  BY <1>1, RegistryAssumption DEF FrameSound
<1> QED
  BY <1>1, <1>2 DEF f

LEMMA FullFrameSound ==
  ASSUME NEW g, NEW st, NEW sc, NEW p \in Scripts, NEW fromDisk \in BOOLEAN
  PROVE  /\ FullFrame(p, fromDisk) \in FrameRecord /\ FullFrame(p, fromDisk).ref = Nil
         /\ FrameSound(FullFrame(p, fromDisk), g, st, sc)
<1> DEFINE f == FullFrame(p, fromDisk)
<1>1. /\ f \in FrameRecord /\ f.op = "full" /\ f.pc = "start" /\ f.path = p
      /\ f.ref = Nil /\ f.obj = Nil
  BY FrameTyped, ZenonT(60) DEF FullFrame, FrameRecord
<1> HIDE DEF f
<1>2. FrameSound(f, g, st, sc)
  BY <1>1, RegistryAssumption DEF FrameSound
<1> QED
  BY <1>1, <1>2 DEF f

LEMMA ReloadFrameSound ==
  ASSUME NEW g, NEW st, NEW sc, NEW o \in Objs, sc[o].path # Nil
  PROVE  /\ ReloadFrame(o) \in FrameRecord /\ ReloadFrame(o).ref = Nil
         /\ FrameSound(ReloadFrame(o), g, st, sc)
<1> DEFINE f == ReloadFrame(o)
<1>1. /\ f \in FrameRecord /\ f.op = "reload" /\ f.ref = Nil /\ f.obj = o
      /\ f.pc = "start"
  BY FrameTyped DEF ReloadFrame, FrameRecord, Frame
<1> HIDE DEF f
<1>2. FrameSound(f, g, st, sc)
  BY <1>1, ContentAssumption DEF FrameSound, ReloadSound, Checking
<1> QED
  BY <1>1, <1>2 DEF f

LEMMA ReloadCompileSound ==
  ASSUME Core, TablesTyped(disk, dependencies, ret), NEW t \in Threads, ReloadCompile(t)
  PROVE  StepSound
<1> DEFINE f == Top(t)
           o == f.obj
           p == scr[o].path
           base == scr[o].source.ext
           asks == ret[t] /\ base # Nil
           s == IF asks THEN GetShallowScript(base, reg, stage)
                ELSE [g |-> reg, st |-> stage, scr |-> scr,
                      shallow |-> shallow_ruzta_cache, obj |-> o]
           compiles == ret[t] /\ s.obj \in Objs
           h == [f EXCEPT !.pc = "compiled"]
           e == FinishFrame(p)
           x == [s.scr[o] EXCEPT !.valid = compiles, !.reloading = compiles]
           sc == Updated(s.scr, o, x)
<1>1. /\ ~ Idle(t) /\ f.op = "reload" /\ f.pc = "analyzed"
      /\ (asks /\ ShallowNeedsFresh(base)) => SpareRef /\ SpareObj
      /\ IF compiles THEN Call(t, h, e) /\ UNCHANGED ret ELSE Return(t, FALSE)
      /\ CommitParsers(s.g, s.st)
      /\ CommitScripts([s.scr EXCEPT ![o].valid = compiles, ![o].reloading = compiles],
                       s.shallow, full_ruzta_cache)
      /\ dependencies' = IF asks THEN [dependencies EXCEPT ![p] = @ \cup {base}]
                         ELSE dependencies
      /\ UNCHANGED files
  BY DEF ReloadCompile, Running, FinishFrame
<1>2. /\ f \in FrameRecord /\ FrameSound(f, reg, stage, scr)
      /\ o \in Objs /\ o # Nil /\ scr[o].path # Nil
  BY <1>1, ReloadFacts, ContentAssumption
<1>3. /\ scr[o] \in ScriptRecord /\ p \in Scripts /\ scr[o].source \in Content
      /\ scr[o].source \in Trees
  BY <1>2, ScriptFacts
<1>4. /\ Sound(reg) /\ StagesSound(reg, stage) /\ Allowed(reg, stage, scr)
      /\ ScriptsSound(scr, kept, shallow_ruzta_cache, full_ruzta_cache)
      /\ pins = Pinned(stack) /\ pins \subseteq RefIds
  BY CoreFacts
<1>5. asks => base \in Scripts
  BY <1>3, TreesTyped
<1>6. /\ Sound(s.g) /\ StagesSound(s.g, s.st) /\ Allowed(s.g, s.st, s.scr)
      /\ ScriptsSound(s.scr, kept, s.shallow, full_ruzta_cache)
      /\ s.scr[o] = scr[o]
      /\ Settle(s.g, pins) => [Next]_vars
      /\ s.obj \notin Objs => /\ s.g = reg /\ s.st = stage
                              /\ s.scr = scr /\ s.shallow = shallow_ruzta_cache
  <2>1. CASE asks
    <3>1. s = GetShallowScript(base, reg, stage)
      BY <2>1
    <3> HIDE DEF s
    <3>2. ShallowNeedsFresh(base) => SpareRef /\ SpareObj
      BY <1>1, <2>1
    <3> QED
      BY <1>2, <1>5, <2>1, <3>1, <3>2, ShallowSound
  <2>2. CASE ~ asks
    <3>1. /\ s.g = reg /\ s.st = stage /\ s.scr = scr /\ s.shallow = shallow_ruzta_cache
      BY <2>2
    <3> HIDE DEF s
    <3>2. Settle(reg, pins) => [Next]_vars
      BY <1>4, Held
    <3> QED
      BY <1>4, <3>1, <3>2
  <2> QED
    BY <2>1, <2>2
<1>7. ~ compiles => s.g = reg /\ s.st = stage
  <2>1. ~ ret[t] => s.g = reg /\ s.st = stage
    OBVIOUS
  <2> QED
    BY <1>6, <2>1
<1>8. dependencies' \in [Scripts -> SUBSET Scripts]
  BY <1>1, <1>3, <1>5 DEF TablesTyped
<1>9. compiles \in BOOLEAN
  BY DEF TablesTyped
<1> HIDE DEF s, compiles, asks, h, e
<1>0. /\ ~ Idle(t) /\ f.op = "reload"
      /\ compiles => Call(t, h, e) /\ ret' = ret
      /\ ~ compiles => Return(t, FALSE)
  BY <1>1
<1> DEFINE g == s.g
           sts == s.st
           scs == s.scr
           sh == s.shallow
<1>10. /\ x \in ScriptRecord /\ x.path = scr[o].path /\ x.source = scr[o].source
  BY <1>3, <1>6, <1>9 DEF ScriptRecord
<1>11. sc = [s.scr EXCEPT ![o].valid = compiles, ![o].reloading = compiles]
  BY <1>2, <1>6 DEF Updated, ScriptsSound
<1> HIDE DEF x
<1>12. ScriptsSound(sc, kept, sh, full_ruzta_cache) /\ PathsStay(scs, sc)
       /\ sc[o].path # Nil
  <2>1. x.path # Nil /\ x.source # Nil
    BY <1>2, <1>3, <1>10, ContentAssumption
  <2>2. ScriptsSound(scs, kept, sh, full_ruzta_cache)
    BY <1>6
  <2> HIDE DEF scs, sh
  <2>3. sc = Updated(scs, o, x)
    BY DEF scs
  <2> HIDE DEF sc
  <2> QED
    BY <1>2, <1>10, <2>1, <2>2, <2>3, ScriptChanged
<1>13. CommitScripts(sc, sh, full_ruzta_cache)
  BY <1>1, <1>11
<1>14. /\ Sound(g) /\ StagesSound(g, sts) /\ Allowed(g, sts, scs)
       /\ CommitParsers(g, sts)
       /\ Settle(g, pins) => [Next]_vars
  BY <1>1, <1>6
<1>15. ~ compiles => g = reg /\ sts = stage
  BY <1>7
<1> HIDE DEF sc, g, sts, scs, sh
<1>16. Allowed(g, sts, sc)
  BY <1>12, <1>14 DEF Allowed, PathsStay
<1>17. CASE compiles
  <2>1. /\ Call(t, h, e) /\ TablesTyped(disk', dependencies', ret')
        /\ f.ref # Nil => f.ref \in pins
    BY <1>0, <1>1, <1>8, <1>17, ReloadFacts DEF files, TablesTyped
  <2>2. /\ h \in FrameRecord /\ h.op = "reload" /\ h.ref = f.ref /\ h.obj = o
        /\ h.pc = "compiled"
    BY <1>1, <1>2 DEF FrameRecord, h
  <2>3. e \in FrameRecord /\ e.ref = Nil /\ FrameSound(e, g, sts, sc)
    BY <1>3, FinishFrameSound DEF e
  <2>4. FrameSound(f, g, sts, sc)
    BY <1>2, <1>16, AllowedFrame
  <2>5. FrameSound(h, g, sts, sc)
    BY <1>2, <1>12, <2>2, <2>4 DEF FrameSound, ReloadSound, Unparsed, Checking
  <2>6. Settle(g, pins \cup ({h.ref, e.ref} \cap RefIds)) => [Next]_vars
    <3>1. pins \cup ({h.ref, e.ref} \cap RefIds) = pins
      BY <2>1, <2>2, <2>3, RegistryAssumption
    <3> QED
      BY <1>14, <3>1
  <2>7. /\ Top(t).op # "raise" /\ Top(t).op = h.op /\ ~ Idle(t)
        /\ Top(t).ref \in {Nil, h.ref}
    BY <1>0, <2>2
  <2> QED
    BY <1>12, <1>13, <1>14, <1>16, <2>1, <2>2, <2>3, <2>5, <2>6, <2>7, WentInto
<1>18. CASE ~ compiles
  <2>1. Return(t, FALSE) /\ KeepParsers
    BY <1>0, <1>14, <1>15, <1>18 DEF KeepParsers
  <2>2. PathsStay(scr, sc)
    BY <1>16 DEF Allowed
  <2> QED
    BY <1>0, <1>1, <1>8, <1>12, <1>13, <2>1, <2>2, Returned
<1> QED
  BY <1>17, <1>18

LEMMA ReloadReturnSound ==
  ASSUME Core, TablesTyped(disk, dependencies, ret), NEW t \in Threads, ReloadReturn(t)
  PROVE  StepSound
<1> DEFINE o == Top(t).obj
           ok == ret[t]
           x == [scr[o] EXCEPT !.reloading = FALSE, !.initialized = ok]
           sc == Updated(scr, o, x)
<1>1. /\ ~ Idle(t) /\ Top(t).op = "reload" /\ Return(t, ok)
      /\ CommitScripts([scr EXCEPT ![o].reloading = FALSE, ![o].initialized = ok],
                       shallow_ruzta_cache, full_ruzta_cache)
      /\ UNCHANGED <<files, dependencies>> /\ KeepParsers
  BY DEF ReloadReturn, Running
<1>2. o \in Objs /\ scr[o].path # Nil
  BY <1>1, ReloadFacts
<1>3. scr[o] \in ScriptRecord /\ scr[o].source \in Content
  BY <1>2, ScriptFacts
<1>4. ok \in BOOLEAN /\ dependencies' \in [Scripts -> SUBSET Scripts]
  BY <1>1 DEF TablesTyped
<1> HIDE DEF ok
<1>5. /\ x \in ScriptRecord /\ x.path = scr[o].path /\ x.source = scr[o].source
  BY <1>3, <1>4 DEF ScriptRecord
<1>6. ScriptsSound(scr, kept, shallow_ruzta_cache, full_ruzta_cache)
  BY CoreFacts
<1>7. sc = [scr EXCEPT ![o].reloading = FALSE, ![o].initialized = ok]
  BY <1>2, <1>6 DEF Updated, ScriptsSound
<1> HIDE DEF x
<1>8. ScriptsSound(sc, kept, shallow_ruzta_cache, full_ruzta_cache) /\ PathsStay(scr, sc)
  <2>1. x.path # Nil /\ x.source # Nil
    BY <1>2, <1>3, <1>5, ContentAssumption
  <2> QED
    BY <1>2, <1>5, <1>6, <2>1, ScriptChanged
<1>9. CommitScripts(sc, shallow_ruzta_cache, full_ruzta_cache)
  BY <1>1, <1>7
<1> HIDE DEF sc
<1> QED
  BY <1>1, <1>4, <1>8, <1>9, Returned

(* finish_compiling and get_full_script.                                   *)
LEMMA PathFacts ==
  ASSUME Core, NEW t \in Threads, ~ Idle(t), Top(t).op \in {"finish", "full"}
  PROVE  /\ Top(t) \in FrameRecord /\ FrameSound(Top(t), reg, stage, scr)
         /\ Top(t).path \in Scripts
BY TopSound DEF FrameSound, FrameRecord

LEMMA PromotedSound ==
  ASSUME Core, NEW p \in Scripts, NEW o \in Objs \cup {Null},
         o # Null => scr[o].path # Nil
  PROVE  ScriptsSound(scr, kept, [shallow_ruzta_cache EXCEPT ![p] = Nil],
                      [full_ruzta_cache EXCEPT ![p] = o])
<1> DEFINE sh == [shallow_ruzta_cache EXCEPT ![p] = Nil]
           fu == [full_ruzta_cache EXCEPT ![p] = o]
<1>1. ScriptsSound(scr, kept, shallow_ruzta_cache, full_ruzta_cache)
  BY CoreFacts
<1>2. /\ sh \in [Scripts -> Objs \cup {Nil}] /\ sh[p] = Nil
      /\ \A q \in Scripts \ {p} : sh[q] = shallow_ruzta_cache[q]
  BY <1>1 DEF ScriptsSound
<1>3. /\ fu \in [Scripts -> Objs \cup {Nil, Null}] /\ fu[p] = o
      /\ \A q \in Scripts \ {p} : fu[q] = full_ruzta_cache[q]
  BY <1>1 DEF ScriptsSound
<1> HIDE DEF sh, fu
<1>4. \A q \in Scripts, x \in Objs : x \in {sh[q], fu[q]} => scr[x].path # Nil
  BY <1>1, <1>2, <1>3, ContentAssumption DEF ScriptsSound
<1>5. ScriptsSound(scr, kept, sh, fu)
  BY <1>1, <1>2, <1>3, <1>4 DEF ScriptsSound
<1> QED
  BY <1>5 DEF sh, fu

LEMMA FinishMarkSound ==
  ASSUME Core, TablesTyped(disk, dependencies, ret), NEW t \in Threads, FinishMark(t)
  PROVE  StepSound
<1> DEFINE f == Top(t)
           p == f.path
           o == IF CachedScript(p) = Nil THEN Null ELSE CachedScript(p)
           h == [f EXCEPT !.pc = "depends", !.todo = dependencies[p]]
           sh == [shallow_ruzta_cache EXCEPT ![p] = Nil]
           fu == [full_ruzta_cache EXCEPT ![p] = o]
<1>1. /\ ~ Idle(t) /\ f.op = "finish" /\ Become(t, h) /\ CommitParsers(reg, stage)
      /\ CommitScripts(scr, sh, fu) /\ UNCHANGED <<files, ret, dependencies>>
  BY DEF FinishMark, Running, Promoted, KeepParsers
<1>2. f \in FrameRecord /\ FrameSound(f, reg, stage, scr) /\ p \in Scripts
  BY <1>1, PathFacts
<1>3. /\ Sound(reg) /\ StagesSound(reg, stage) /\ Allowed(reg, stage, scr)
      /\ ScriptsSound(scr, kept, shallow_ruzta_cache, full_ruzta_cache)
      /\ pins = Pinned(stack) /\ pins \subseteq RefIds
  BY CoreFacts
<1>4. o \in Objs \cup {Null} /\ (o # Null => scr[o].path # Nil)
  BY <1>2, <1>3 DEF CachedScript, ScriptsSound
<1> HIDE DEF o
<1>5. ScriptsSound(scr, kept, sh, fu)
  BY <1>2, <1>4, PromotedSound
<1>6. TablesTyped(disk', dependencies', ret') /\ dependencies[p] \in SUBSET Scripts
  BY <1>1, <1>2 DEF files, TablesTyped
<1>7. /\ h \in FrameRecord /\ h.op = "finish" /\ h.ref = f.ref /\ h.obj = f.obj
      /\ h.path = p
  BY <1>1, <1>2, <1>6 DEF FrameRecord
<1> HIDE DEF h, sh, fu
<1>8. FrameSound(h, reg, stage, scr)
  BY <1>2, <1>7, RegistryAssumption DEF FrameSound
<1>9. Settle(reg, pins) => [Next]_vars
  BY <1>3, Held
<1> QED
  BY <1>1, <1>3, <1>5, <1>6, <1>7, <1>8, <1>9, WentOn

LEMMA FinishNextSound ==
  ASSUME Core, TablesTyped(disk, dependencies, ret), NEW t \in Threads, FinishNext(t)
  PROVE  StepSound
<1> DEFINE f == Top(t)
<1>1. PICK q \in f.todo : Call(t, [f EXCEPT !.pc = "compiling", !.todo = f.todo \ {q}],
                                  FullFrame(q, FALSE))
  BY DEF FinishNext
<1> DEFINE h == [f EXCEPT !.pc = "compiling", !.todo = f.todo \ {q}]
           e == FullFrame(q, FALSE)
<1>2. /\ ~ Idle(t) /\ f.op = "finish" /\ CommitParsers(reg, stage)
      /\ CommitScripts(scr, shallow_ruzta_cache, full_ruzta_cache)
      /\ UNCHANGED <<files, ret, dependencies>>
  BY DEF FinishNext, Running, KeepParsers, KeepScripts
<1>3. /\ f \in FrameRecord /\ FrameSound(f, reg, stage, scr) /\ f.path \in Scripts
      /\ f.ref # Nil => f.ref \in pins
  BY <1>2, PathFacts, TopSound
<1>4. /\ Sound(reg) /\ StagesSound(reg, stage) /\ Allowed(reg, stage, scr)
      /\ ScriptsSound(scr, kept, shallow_ruzta_cache, full_ruzta_cache)
      /\ pins = Pinned(stack) /\ pins \subseteq RefIds
  BY CoreFacts
<1>5. TablesTyped(disk', dependencies', ret')
  BY <1>2 DEF files, TablesTyped
<1>6. q \in Scripts
  BY <1>3 DEF FrameRecord
<1>7. /\ h \in FrameRecord /\ h.op = "finish" /\ h.ref = f.ref /\ h.obj = f.obj
      /\ h.path = f.path
  BY <1>2, <1>3 DEF FrameRecord
<1>8. e \in FrameRecord /\ e.ref = Nil /\ FrameSound(e, reg, stage, scr)
  BY <1>6, FullFrameSound
<1>9. Call(t, h, e)
  BY <1>1
<1> HIDE DEF h, e
<1>10. FrameSound(h, reg, stage, scr)
  BY <1>3, <1>7, RegistryAssumption DEF FrameSound
<1>11. Settle(reg, pins \cup ({h.ref, e.ref} \cap RefIds)) => [Next]_vars
  <2>1. pins \cup ({h.ref, e.ref} \cap RefIds) = pins
    BY <1>3, <1>7, <1>8, RegistryAssumption
  <2> QED
    BY <1>4, <2>1, Held
<1> QED
  BY <1>2, <1>4, <1>5, <1>7, <1>8, <1>9, <1>10, <1>11, WentInto

LEMMA FinishCompiledSound ==
  ASSUME Core, TablesTyped(disk, dependencies, ret), NEW t \in Threads, FinishCompiled(t)
  PROVE  StepSound
<1> DEFINE f == Top(t)
           err == f.err \/ ~ ret[t]
           h == [f EXCEPT !.pc = "depends", !.err = err]
<1>1. /\ ~ Idle(t) /\ f.op = "finish" /\ Become(t, h) /\ CommitParsers(reg, stage)
      /\ CommitScripts(scr, shallow_ruzta_cache, full_ruzta_cache)
      /\ UNCHANGED <<files, ret, dependencies>>
  BY DEF FinishCompiled, Running, KeepParsers, KeepScripts
<1>2. f \in FrameRecord /\ FrameSound(f, reg, stage, scr) /\ f.path \in Scripts
  BY <1>1, PathFacts
<1>3. /\ Sound(reg) /\ StagesSound(reg, stage) /\ Allowed(reg, stage, scr)
      /\ ScriptsSound(scr, kept, shallow_ruzta_cache, full_ruzta_cache)
      /\ pins = Pinned(stack) /\ pins \subseteq RefIds
  BY CoreFacts
<1>4. TablesTyped(disk', dependencies', ret')
  BY <1>1 DEF files, TablesTyped
<1>5. err \in BOOLEAN
  OBVIOUS
<1> HIDE DEF err
<1>6. /\ h \in FrameRecord /\ h.op = "finish" /\ h.ref = f.ref /\ h.obj = f.obj
      /\ h.path = f.path
  BY <1>1, <1>2, <1>5 DEF FrameRecord
<1> HIDE DEF h
<1>7. FrameSound(h, reg, stage, scr)
  BY <1>2, <1>6, RegistryAssumption DEF FrameSound
<1>8. Settle(reg, pins) => [Next]_vars
  BY <1>3, Held
<1> QED
  BY <1>1, <1>3, <1>4, <1>6, <1>7, <1>8, WentOn

LEMMA FinishReturnSound ==
  ASSUME Core, TablesTyped(disk, dependencies, ret), NEW t \in Threads, FinishReturn(t)
  PROVE  StepSound
<1> DEFINE ok == ~ Top(t).err
<1>1. /\ ~ Idle(t) /\ Top(t).op = "finish" /\ Return(t, ok) /\ UNCHANGED files
      /\ dependencies' = [dependencies EXCEPT ![Top(t).path] = {}]
      /\ KeepParsers /\ CommitScripts(scr, shallow_ruzta_cache, full_ruzta_cache)
  BY DEF FinishReturn, Running
<1>2. dependencies' \in [Scripts -> SUBSET Scripts] /\ ok \in BOOLEAN
  BY <1>1 DEF TablesTyped
<1>3. ScriptsSound(scr, kept, shallow_ruzta_cache, full_ruzta_cache) /\ PathsStay(scr, scr)
  BY CoreFacts DEF Allowed
<1> HIDE DEF ok
<1> QED
  BY <1>1, <1>2, <1>3, Returned

LEMMA FullCachedSound ==
  ASSUME Core, TablesTyped(disk, dependencies, ret), NEW t \in Threads, FullCached(t)
  PROVE  StepSound
<1>1. /\ ~ Idle(t) /\ Return(t, TRUE) /\ UNCHANGED files
      /\ KeepParsers /\ KeepScripts
  BY DEF FullCached, Running
<1> QED
  BY <1>1, JustReturned

LEMMA QueryReturnSound ==
  ASSUME Core, TablesTyped(disk, dependencies, ret), NEW t \in Threads, QueryReturn(t)
  PROVE  StepSound
<1> DEFINE ok == ret[t]
<1>1. /\ ~ Idle(t) /\ Return(t, ok) /\ UNCHANGED files
      /\ KeepParsers /\ KeepScripts
  BY DEF QueryReturn, Running
<1>2. ok \in BOOLEAN
  BY DEF TablesTyped
<1> HIDE DEF ok
<1> QED
  BY <1>1, <1>2, JustReturned

LEMMA FullReturnSound ==
  ASSUME Core, TablesTyped(disk, dependencies, ret), NEW t \in Threads, FullReturn(t)
  PROVE  StepSound
<1> DEFINE ok == ret[t]
           p == Top(t).path
           o == Top(t).obj
           sh == IF ok THEN [shallow_ruzta_cache EXCEPT ![p] = Nil] ELSE shallow_ruzta_cache
           fu == IF ok THEN [full_ruzta_cache EXCEPT ![p] = o] ELSE full_ruzta_cache
<1>1. /\ ~ Idle(t) /\ Top(t).op = "full" /\ Top(t).pc = "reloaded"
      /\ Return(t, ok) /\ UNCHANGED <<files, dependencies>> /\ KeepParsers
      /\ IF ok THEN Promoted(p, o)
         ELSE CommitScripts(scr, shallow_ruzta_cache, full_ruzta_cache)
  BY DEF FullReturn, Running
<1>2. p \in Scripts /\ o \in Objs /\ scr[o].path # Nil
  BY <1>1, PathFacts DEF FrameSound, FrameRecord
<1>3. /\ ScriptsSound(scr, kept, shallow_ruzta_cache, full_ruzta_cache)
      /\ PathsStay(scr, scr)
  BY CoreFacts DEF Allowed
<1>4. ok \in BOOLEAN /\ dependencies' \in [Scripts -> SUBSET Scripts]
  BY <1>1 DEF TablesTyped
<1>5. CommitScripts(scr, sh, fu)
  BY <1>1 DEF Promoted
<1>6. ScriptsSound(scr, kept, sh, fu)
  <2>1. CASE ok
    BY <1>2, <2>1, PromotedSound
  <2>2. CASE ~ ok
    BY <1>3, <2>2
  <2> QED
    BY <2>1, <2>2
<1> HIDE DEF ok, sh, fu
<1> QED
  BY <1>1, <1>3, <1>4, <1>5, <1>6, Returned

LEMMA FullReloadSound ==
  ASSUME Core, TablesTyped(disk, dependencies, ret), NEW t \in Threads, FullReload(t)
  PROVE  StepSound
<1> DEFINE f == Top(t)
           p == f.path
           s == GetShallowScript(p, reg, stage)
           full == full_ruzta_cache[p]
           o == IF full = Nil THEN s.obj ELSE full
           unreadable == f.fromDisk /\ disk[p] = Nil
           updated == IF f.fromDisk THEN [s.scr EXCEPT ![o].source = disk[p]]
                      ELSE s.scr
           h == [f EXCEPT !.pc = "reloaded", !.obj = o]
           e == ReloadFrame(o)
<1>1. /\ ~ Idle(t) /\ f.op = "full" /\ f.pc = "start"
      /\ full = Nil \/ (f.fromDisk /\ full # Null)
      /\ ShallowNeedsFresh(p) => SpareRef /\ SpareObj
      /\ IF o \notin Objs \/ unreadable
         THEN /\ Return(t, FALSE) /\ KeepParsers
              /\ CommitScripts(scr, shallow_ruzta_cache, full_ruzta_cache)
         ELSE /\ Call(t, h, e) /\ UNCHANGED ret
              /\ CommitParsers(s.g, s.st)
              /\ CommitScripts(updated, s.shallow, full_ruzta_cache)
      /\ UNCHANGED <<files, dependencies>>
  BY DEF FullReload, Running
<1>2. /\ f \in FrameRecord /\ FrameSound(f, reg, stage, scr) /\ p \in Scripts
      /\ f.ref # Nil => f.ref \in pins
  BY <1>1, PathFacts, TopSound
<1>3. /\ Sound(reg) /\ StagesSound(reg, stage) /\ Allowed(reg, stage, scr)
      /\ ScriptsSound(scr, kept, shallow_ruzta_cache, full_ruzta_cache)
      /\ pins = Pinned(stack) /\ pins \subseteq RefIds /\ PathsStay(scr, scr)
  BY CoreFacts DEF Allowed
<1>4. dependencies' \in [Scripts -> SUBSET Scripts]
  BY <1>1 DEF TablesTyped
<1>5. CASE o \notin Objs \/ unreadable
  <2>1. /\ Return(t, FALSE) /\ KeepParsers
        /\ CommitScripts(scr, shallow_ruzta_cache, full_ruzta_cache)
        /\ UNCHANGED files
    BY <1>1, <1>5
  <2> QED
    BY <1>1, <1>3, <1>4, <2>1, Returned
<1>6. CASE ~ (o \notin Objs \/ unreadable)
  <2>1. /\ Call(t, h, e) /\ UNCHANGED ret /\ UNCHANGED files
        /\ CommitParsers(s.g, s.st)
        /\ CommitScripts(updated, s.shallow, full_ruzta_cache)
    BY <1>1, <1>6
  <2>2. /\ Sound(s.g) /\ StagesSound(s.g, s.st) /\ Allowed(s.g, s.st, s.scr)
        /\ ScriptsSound(s.scr, kept, s.shallow, full_ruzta_cache)
        /\ s.obj \in Objs => s.scr[s.obj].path # Nil
        /\ Settle(s.g, pins) => [Next]_vars
    BY <1>1, <1>2, ShallowSound
  <2>3. o \in Objs /\ o # Nil
    BY <1>6, ContentAssumption
  <2> HIDE DEF s
  <2>4. s.scr[o].path # Nil
    <3>1. CASE full = Nil
      BY <2>2, <2>3, <3>1
    <3>2. CASE full # Nil
      BY <1>2, <2>2, <2>3, <3>2 DEF ScriptsSound
    <3> QED
      BY <3>1, <3>2
  <2>5. f.fromDisk => disk[p] \in Content
    BY <1>2, <1>6 DEF TablesTyped
  <2> HIDE DEF o
  <2> DEFINE x == [s.scr[o] EXCEPT !.source = disk[p]]
  <2>6. s.scr[o] \in ScriptRecord /\ s.scr \in [Objs -> ScriptRecord]
    BY <2>2, <2>3 DEF ScriptsSound
  <2>7. ScriptsSound(updated, kept, s.shallow, full_ruzta_cache)
        /\ PathsStay(s.scr, updated)
    <3>1. CASE f.fromDisk
      <4>1. x \in ScriptRecord /\ x.path = s.scr[o].path /\ x.source = disk[p]
        BY <2>5, <2>6, <3>1 DEF ScriptRecord
      <4>2. updated = Updated(s.scr, o, x)
        BY <2>3, <2>6, <3>1 DEF Updated
      <4>3. x.path # Nil /\ x.source # Nil
        BY <2>4, <2>5, <3>1, <4>1, ContentAssumption
      <4> HIDE DEF x, updated
      <4> QED
        BY <2>2, <2>3, <4>1, <4>2, <4>3, ScriptChanged
    <3>2. CASE ~ f.fromDisk
      BY <2>2, <3>2 DEF PathsStay
    <3> QED
      BY <3>1, <3>2
  <2> HIDE DEF updated, x
  <2> DEFINE g == s.g
             sts == s.st
             sh == s.shallow
             sc == updated
  <2>8. /\ Sound(g) /\ StagesSound(g, sts) /\ Allowed(g, sts, sc)
        /\ ScriptsSound(sc, kept, sh, full_ruzta_cache) /\ sc[o].path # Nil
        /\ CommitParsers(g, sts) /\ CommitScripts(sc, sh, full_ruzta_cache)
        /\ Settle(g, pins) => [Next]_vars
    BY <2>1, <2>2, <2>3, <2>4, <2>7 DEF Allowed, PathsStay
  <2> HIDE DEF g, sts, sh, sc
  <2>9. /\ h \in FrameRecord /\ h.op = "full" /\ h.ref = f.ref /\ h.obj = o
        /\ h.path = p
    BY <1>1, <1>2, <2>3 DEF FrameRecord
  <2>10. e \in FrameRecord /\ e.ref = Nil /\ FrameSound(e, g, sts, sc)
    BY <2>3, <2>8, ReloadFrameSound
  <2>11. Call(t, h, e) /\ TablesTyped(disk', dependencies', ret')
    BY <1>4, <2>1 DEF files, TablesTyped
  <2> HIDE DEF h, e
  <2>12. FrameSound(f, g, sts, sc)
    BY <1>2, <2>8, AllowedFrame
  <2>13. FrameSound(h, g, sts, sc)
    BY <1>2, <2>3, <2>8, <2>9, <2>12, RegistryAssumption DEF FrameSound
  <2>14. Settle(g, pins \cup ({h.ref, e.ref} \cap RefIds)) => [Next]_vars
    <3>1. pins \cup ({h.ref, e.ref} \cap RefIds) = pins
      BY <1>2, <2>9, <2>10, RegistryAssumption
    <3> QED
      BY <2>8, <3>1
  <2>15. Top(t).op # "raise" /\ h.op = Top(t).op /\ Top(t).ref \in {Nil, h.ref}
    BY <1>1, <2>9
  <2>16. ~ Idle(t)
    BY <1>1
  <2> QED
    BY <2>8, <2>9, <2>10, <2>11, <2>13, <2>14, <2>15, <2>16, WentInto
<1> QED
  BY <1>5, <1>6

-----------------------------------------------------------------------------
(***************************************************************************)
(* Requests from outside.                                                  *)
(***************************************************************************)
LEMMA LoadSound ==
  ASSUME Core, TablesTyped(disk, dependencies, ret), NEW t \in Threads,
         NEW p \in Scripts, NEW fromDisk \in BOOLEAN, Load(t, p, fromDisk)
  PROVE  StepSound
<1> DEFINE f == FullFrame(p, fromDisk)
<1>1. /\ Idle(t) /\ Start(t, f) /\ UNCHANGED <<disk, ret, dependencies>>
      /\ KeepParsers /\ CommitScripts(scr, shallow_ruzta_cache, full_ruzta_cache)
  BY DEF Load, KeepScripts
<1>2. f \in FrameRecord /\ f.ref = Nil /\ FrameSound(f, reg, stage, scr)
  BY FullFrameSound
<1> HIDE DEF f
<1>3. /\ StacksSound(stack', reg, stage, scr)
      /\ Pinned(stack') = Pinned(stack) \cup ({f.ref} \cap RefIds)
  BY <1>1, <1>2, CoreFacts, Starts
<1>4. Pinned(stack') \subseteq Pinned(stack)
  BY <1>2, <1>3, RegistryAssumption
<1> QED
  BY <1>1, <1>3, <1>4, Unseen

LEMMA HotReloadSound ==
  ASSUME Core, TablesTyped(disk, dependencies, ret), NEW t \in Threads,
         NEW o \in Objs, HotReload(t, o)
  PROVE  StepSound
<1> DEFINE p == scr[o].path
           f == ReloadFrame(o)
           x == [scr[o] EXCEPT !.source = disk[p]]
           sc == IF disk[p] = Nil THEN scr ELSE Updated(scr, o, x)
<1>1. /\ Idle(t) /\ scr[o].path # Nil /\ Start(t, f)
      /\ CommitScripts(IF disk[p] = Nil THEN scr ELSE [scr EXCEPT ![o].source = disk[p]],
                       shallow_ruzta_cache, full_ruzta_cache)
      /\ UNCHANGED <<disk, ret, dependencies>> /\ KeepParsers
  BY DEF HotReload
<1>2. /\ Sound(reg) /\ StagesSound(reg, stage) /\ Allowed(reg, stage, scr)
      /\ ScriptsSound(scr, kept, shallow_ruzta_cache, full_ruzta_cache)
      /\ pins = Pinned(stack) /\ pins \subseteq RefIds /\ PathsStay(scr, scr)
  BY CoreFacts DEF Allowed
<1>3. scr[o] \in ScriptRecord /\ p \in Scripts
  BY <1>1, ScriptFacts
<1>4. CommitScripts(sc, shallow_ruzta_cache, full_ruzta_cache)
  <2>1. sc = IF disk[p] = Nil THEN scr ELSE [scr EXCEPT ![o].source = disk[p]]
    BY <1>2 DEF Updated, ScriptsSound
  <2> HIDE DEF sc
  <2> QED
    BY <1>1, <2>1
<1>5. /\ ScriptsSound(sc, kept, shallow_ruzta_cache, full_ruzta_cache)
      /\ PathsStay(scr, sc)
  <2>1. CASE disk[p] = Nil
    BY <1>2, <2>1
  <2>2. CASE disk[p] # Nil
    <3>1. disk[p] \in Content
      BY <1>3, <2>2 DEF TablesTyped
    <3>2. x \in ScriptRecord /\ x.path = p /\ x.source = disk[p]
      BY <1>3, <3>1 DEF ScriptRecord
    <3>3. sc = Updated(scr, o, x)
      BY <2>2
    <3> HIDE DEF x, sc
    <3> QED
      BY <1>1, <1>2, <2>2, <3>2, <3>3, ScriptChanged
  <2> QED
    BY <2>1, <2>2
<1> HIDE DEF sc
<1>6. Allowed(reg, stage, sc) /\ sc[o].path # Nil
  BY <1>1, <1>2, <1>5 DEF Allowed, PathsStay
<1>7. f \in FrameRecord /\ f.ref = Nil /\ FrameSound(f, reg, stage, sc)
  BY <1>6, ReloadFrameSound
<1> HIDE DEF f
<1>8. /\ StacksSound(stack', reg, stage, sc)
      /\ Pinned(stack') = Pinned(stack) \cup ({f.ref} \cap RefIds)
  BY <1>1, <1>6, <1>7, Starts
<1>9. Settle(reg, Pinned(stack')) => [Next]_vars
  <2>1. Pinned(stack') \subseteq pins
    BY <1>2, <1>7, <1>8, RegistryAssumption
  <2> QED
    BY <1>2, <2>1, Held
<1>10. TablesTyped(disk', dependencies', ret')
  BY <1>1
<1> QED
  BY <1>1, <1>2, <1>4, <1>5, <1>8, <1>9, <1>10, Stepped DEF KeepParsers, CommitScripts

LEMMA QueryParserSound ==
  ASSUME Core, TablesTyped(disk, dependencies, ret), NEW t \in Threads, NEW p \in Scripts,
         NEW target \in {INTERFACE_SOLVED, FULLY_SOLVED}, QueryParser(t, p, target)
  PROVE  StepSound
<1> DEFINE d == Answer(reg, p, FreshRef)
           g == GetParser(reg, p, Nil, FreshRef)
           f == [Frame("query") EXCEPT !.ref = d]
           e == RaiseFrame(d, target)
<1>1. /\ Idle(t) /\ (reg.parser_map[p] # Nil \/ SpareRef)
      /\ stack' = [stack EXCEPT ![t] = <<e, f>>] /\ CommitParsers(g, stage)
      /\ UNCHANGED <<disk, ret, dependencies>>
      /\ CommitScripts(scr, shallow_ruzta_cache, full_ruzta_cache)
  BY DEF QueryParser, KeepScripts
<1>2. /\ Sound(reg) /\ StagesSound(reg, stage) /\ Allowed(reg, stage, scr)
      /\ ScriptsSound(scr, kept, shallow_ruzta_cache, full_ruzta_cache)
      /\ pins = Pinned(stack)
  BY CoreFacts
<1>4. /\ Keeps(reg, g) /\ Sound(g) /\ d \in RefIds /\ d \in Live(g)
      /\ Settle(g, pins \cup {d}) => [Next]_vars
  BY <1>1, GotParser
<1>6. target \in EMPTY..FULLY_SOLVED
  BY DEF INTERFACE_SOLVED, EMPTY, FULLY_SOLVED
<1> HIDE DEF d, g
<1>8. StagesSound(g, stage) /\ Allowed(g, stage, scr)
  BY <1>2, <1>4, StagesUnder DEF Allowed
<1>9. e \in FrameRecord /\ e.ref = d /\ FrameSound(e, g, stage, scr)
  BY <1>4, <1>6, RaiseFrameSound
<1>10. f \in FrameRecord /\ f.ref = d /\ f.op = "query" /\ f.obj = Nil
  BY <1>4, FrameTyped DEF FrameRecord
<1> HIDE DEF e, f
<1>11. FrameSound(f, g, stage, scr)
  BY <1>4, <1>10 DEF FrameSound
<1>12. /\ StacksSound(stack', g, stage, scr)
       /\ Pinned(stack') = Pinned(stack) \cup ({f.ref, e.ref} \cap RefIds)
  <2>1. /\ Idle(t) /\ stack' = [stack EXCEPT ![t] = <<e, f>>]
        /\ Allowed(g, stage, scr) /\ f \in FrameRecord /\ e \in FrameRecord
        /\ f.op # "raise" /\ FrameSound(e, g, stage, scr) /\ FrameSound(f, g, stage, scr)
    BY <1>1, <1>8, <1>9, <1>10, <1>11
  <2>2. Core /\ t \in Threads
    OBVIOUS
  <2> QED
    BY ONLY <2>1, <2>2, StartsTwo, ZenonT(60)
<1>13. Settle(g, Pinned(stack')) => [Next]_vars
  <2>1. Pinned(stack') = pins \cup {d}
    BY <1>2, <1>4, <1>9, <1>10, <1>12
  <2> QED
    BY <1>4, <2>1
<1>14. TablesTyped(disk', dependencies', ret')
  BY <1>1
<1> QED
  BY <1>1, <1>2, <1>4, <1>8, <1>12, <1>13, <1>14, Stepped DEF CommitScripts

(***************************************************************************)
(* remove_script clears parsers, whatever frames hold them.                *)
(***************************************************************************)
LEMMA RemoveScriptSound ==
  ASSUME NEW g, Sound(g), NEW p \in Scripts
  PROVE  LET h == RemoveScriptParsers(g, p)
             R == ClearedBy(g, p)
         IN /\ Sound(h) /\ Live(h) = Live(g)
            /\ \A r \in RefIds : h.ref[r].path = g.ref[r].path
            /\ \A r \in RefIds : r \notin R => h.ref[r].deps = g.ref[r].deps
<1> DEFINE R == ClearedBy(g, p)
           c == Cleared(g, R)
           e == [c EXCEPT !.abandoned_parser_map[p] = {}]
           h == RemoveParser(e, p)
<1>1. Sound(c)
  BY SoundCleared
<1>2. \A r \in RefIds : /\ c.ref[r].kind = g.ref[r].kind
                        /\ c.ref[r].path = g.ref[r].path
                        /\ r \notin R => c.ref[r].deps = g.ref[r].deps
  <2> HIDE DEF R
  <2> QED
    BY DEF Cleared, Sound, Registry, RefRecord
<1> HIDE DEF c, R
<1>3. /\ e \in Registry /\ e.ref = c.ref /\ e.parser_map = c.parser_map
      /\ e.parser_inverse_dependencies = c.parser_inverse_dependencies
  BY <1>1 DEF Sound, Registry
<1> HIDE DEF e
<1>4. Sound(e)
  BY <1>1, <1>3 DEF Sound, Placed, Keyed, DepsAreRefs, DepsFresh, DepsRecorded, IsRegistered
<1>5. Sound(h)
  BY <1>4, SoundRemoveParser
<1>6. Keeps(e, h) /\ Live(h) = Live(e) /\ \A r \in RefIds : h.ref[r].deps = e.ref[r].deps
  BY <1>4, RemoveKeeps
<1>7. \A r \in RefIds : h.ref[r].path = e.ref[r].path
  BY <1>4 DEF RemoveParser, Sound, Registry, RefRecord
<1>8. h = RemoveScriptParsers(g, p)
  BY DEF RemoveScriptParsers, h, e, c, R
<1> HIDE DEF h
<1>9. Live(h) = Live(g)
  BY <1>2, <1>3, <1>6 DEF Live
<1> QED
  BY <1>2, <1>3, <1>5, <1>6, <1>7, <1>8, <1>9 DEF R

LEMMA DeprivedFrame ==
  ASSUME NEW f \in FrameRecord, NEW R
  PROVE  LET h == Deprived(f, R)
         IN /\ h \in FrameRecord /\ h.op = f.op /\ h.ref = f.ref /\ h.obj = f.obj
            /\ h.target = f.target /\ h.path = f.path
            /\ \/ h = f /\ ~ (f.op = "raise" /\ f.pc = "stage" /\ f.ref \in R)
               \/ /\ f.op = "raise" /\ f.pc = "stage" /\ f.ref \in R
                  /\ h.pc = "lost" /\ h.cur = Nil
<1> DEFINE l == [f EXCEPT !.pc = "lost", !.todo = {}, !.cur = Nil]
<1>1. /\ l \in FrameRecord /\ l.op = f.op /\ l.ref = f.ref /\ l.obj = f.obj
      /\ l.target = f.target /\ l.path = f.path /\ l.pc = "lost" /\ l.cur = Nil
  BY DEF FrameRecord
<1> HIDE DEF l
<1>2. CASE f.op = "raise" /\ f.pc = "stage" /\ f.ref \in R
  <2>1. Deprived(f, R) = l
    BY <1>2 DEF Deprived, l
  <2> QED
    BY <1>1, <1>2, <2>1
<1>3. CASE ~ (f.op = "raise" /\ f.pc = "stage" /\ f.ref \in R)
  <2>1. Deprived(f, R) = f
    BY <1>3 DEF Deprived
  <2> QED
    BY <1>3, <2>1
<1> QED
  BY <1>2, <1>3

(* The frames of one thread, with those lost of which the parser goes.     *)
(* What clearing the references R leaves of the stages and of a stack.      *)
StagesLeft(st, R) == [r \in RefIds |-> IF r \in R THEN NoTree ELSE st[r]]
StackLeft(s, R) == [i \in 1..Len(s) |-> Deprived(s[i], R)]

DepsKeptBut(R, g, h) ==
  /\ Live(h) = Live(g)
  /\ \A r \in RefIds : h.ref[r].path = g.ref[r].path
  /\ \A r \in RefIds : r \notin R => h.ref[r].deps = g.ref[r].deps

LEMMA DeprivedStack ==
  ASSUME NEW g, Sound(g), NEW st, NEW sc, NEW s, StackSound(s, g, st, sc),
         NEW R, NEW h, DepsKeptBut(R, g, h)
  PROVE  /\ StackSound(StackLeft(s, R), h, StagesLeft(st, R), sc)
         /\ Refs(StackLeft(s, R)) = Refs(s)
<1> DEFINE n == StackLeft(s, R)
           new == StagesLeft(st, R)
<1>0. /\ Live(h) = Live(g) /\ \A r \in RefIds : h.ref[r].path = g.ref[r].path
      /\ \A r \in RefIds : r \notin R => h.ref[r].deps = g.ref[r].deps /\ new[r] = st[r]
      /\ n = [i \in 1..Len(s) |-> Deprived(s[i], R)]
  BY DEF DepsKeptBut, StagesLeft, StackLeft
<1> HIDE DEF n, new
<1>1. s \in Seq(FrameRecord) /\ Nested(s) /\ Len(s) \in Nat
      /\ \A i \in 1..Len(s) : s[i] \in FrameRecord /\ FrameSound(s[i], g, st, sc)
  BY ElementOfSeq DEF StackSound
<1>2. \A i \in 1..Len(s) :
        /\ n[i] \in FrameRecord /\ n[i].op = s[i].op /\ n[i].ref = s[i].ref
        /\ n[i].obj = s[i].obj /\ n[i].target = s[i].target /\ n[i].path = s[i].path
        /\ \/ n[i] = s[i] /\ ~ (s[i].op = "raise" /\ s[i].pc = "stage" /\ s[i].ref \in R)
           \/ /\ s[i].op = "raise" /\ s[i].pc = "stage" /\ s[i].ref \in R
              /\ n[i].pc = "lost" /\ n[i].cur = Nil
  <2> TAKE i \in 1..Len(s)
  <2>1. n[i] = Deprived(s[i], R) /\ s[i] \in FrameRecord
    BY <1>0, <1>1
  <2> QED
    BY <2>1, DeprivedFrame
<1>3. n \in Seq(FrameRecord) /\ Len(n) = Len(s)
  <2>1. DOMAIN n = 1..Len(s) /\ \A i \in 1..Len(s) : n[i] \in FrameRecord
    BY <1>0, <1>2
  <2>2. n \in [1..Len(s) -> FrameRecord]
    BY <1>0, <1>2
  <2>3. n \in Seq(FrameRecord)
    BY <1>1, <2>2
  <2> QED
    BY <1>1, <2>1, <2>3
<1>4. \A i \in 1..Len(n) : FrameSound(n[i], h, new, sc)
  <2> SUFFICES ASSUME NEW i \in 1..Len(s) PROVE FrameSound(n[i], h, new, sc)
    BY <1>3
  <2>1. /\ s[i] \in FrameRecord /\ FrameSound(s[i], g, st, sc)
        /\ n[i].op = s[i].op /\ n[i].ref = s[i].ref /\ n[i].obj = s[i].obj
        /\ n[i].path = s[i].path /\ n[i].target = s[i].target
    BY <1>1, <1>2
  <2>2. CASE s[i].op # "raise"
    BY <1>0, <1>2, <2>1, <2>2 DEF FrameSound
  <2>3. CASE s[i].op = "raise"
    <3>1. s[i].ref \in RefIds /\ RaiseSound(s[i], g, st)
      BY <2>1, <2>3 DEF FrameSound, RaiseSound, FrameRecord
    <3>2. RaiseSound(n[i], h, new)
      <4>1. CASE n[i] = s[i] /\ ~ (s[i].pc = "stage" /\ s[i].ref \in R)
        <5>1. s[i].cur # Nil => \E d \in h.ref[s[i].ref].deps : h.ref[d].path = s[i].cur
          <6>1. g.ref[s[i].ref].deps \subseteq RefIds
            BY <3>1 DEF Sound, Registry, RefRecord
          <6> QED
            BY <1>0, <3>1, <4>1, <6>1 DEF RaiseSound
        <5> QED
          BY <1>0, <3>1, <4>1, <5>1 DEF RaiseSound
      <4>2. CASE n[i].pc = "lost" /\ n[i].cur = Nil
        BY <2>1, <3>1, <4>2 DEF RaiseSound
      <4> QED
        BY <1>2, <2>3, <4>1, <4>2
    <3> QED
      BY <1>0, <2>1, <2>3, <3>2 DEF FrameSound
  <2> QED
    BY <2>2, <2>3
<1>5. Nested(n)
  <2> SUFFICES ASSUME NEW i \in 1..Len(s), NEW j \in 1..Len(s), i < j, n[j].op = "raise"
               PROVE  /\ n[i].op = "raise" /\ n[i].target = INHERITANCE_SOLVED
                      /\ n[j].pc \in {"stage", "lost"}
                      /\ n[i].ref = n[j].ref /\ n[j].pc = "stage" => n[i].pc = "start"
    BY <1>3 DEF Nested
  <2>1. s[j].op = "raise"
    BY <1>2
  <2>2. /\ s[i].op = "raise" /\ s[i].target = INHERITANCE_SOLVED
        /\ s[j].pc \in {"stage", "lost"}
        /\ s[i].ref = s[j].ref /\ s[j].pc = "stage" => s[i].pc = "start"
    BY <1>1, <2>1 DEF Nested
  <2>3. n[j].pc \in {"stage", "lost"}
    BY <1>2, <2>2
  <2>4. ASSUME n[i].ref = n[j].ref, n[j].pc = "stage" PROVE n[i].pc = "start"
    <3>1. s[j].pc = "stage" /\ s[j].ref \notin R /\ s[i].ref = s[j].ref
      BY <1>2, <2>1, <2>4
    <3>2. n[i] = s[i]
      BY <1>2, <3>1
    <3> QED
      BY <2>2, <3>1, <3>2
  <2> QED
    BY <1>2, <2>2, <2>3, <2>4
<1>6. Refs(n) = Refs(s)
  <2>1. \A i \in 1..Len(s) : n[i].ref = s[i].ref
    BY <1>2
  <2> QED
    BY <1>3, <2>1 DEF Refs
<1> QED
  BY <1>3, <1>4, <1>5, <1>6 DEF StackSound, n, new

LEMMA ClearedStages ==
  ASSUME NEW g, NEW st, StagesSound(g, st), NEW R, NEW h, DepsKeptBut(R, g, h)
  PROVE  StagesSound(h, StagesLeft(st, R))
<1> DEFINE new == StagesLeft(st, R)
<1>0. /\ Live(h) = Live(g)
      /\ \A r \in RefIds : r \notin R => h.ref[r].deps = g.ref[r].deps
      /\ new = [r \in RefIds |-> IF r \in R THEN NoTree ELSE st[r]]
  BY DEF DepsKeptBut, StagesLeft
<1> HIDE DEF new
<1>1. new \in [RefIds -> StageRecord]
  BY <1>0 DEF StagesSound, NoTree, StageRecord, EMPTY, FULLY_SOLVED
<1>2. \A r \in RefIds : new[r].status # EMPTY => new[r].tree \in Trees
  BY <1>0 DEF StagesSound, NoTree
<1>3. \A r \in RefIds : new[r].base \in {st[r].base, Nil}
                         /\ (new[r].base # Nil => r \notin R)
  BY <1>0 DEF NoTree
<1>4. Rooted(new)
  BY <1>3, FewerBases DEF StagesSound
<1>5. \A r \in RefIds : new[r].base # Nil => r \in Live(h) /\ new[r].base \in h.ref[r].deps
  BY <1>0, <1>3 DEF StagesSound
<1> QED
  BY <1>1, <1>2, <1>4, <1>5 DEF StagesSound, new

LEMMA RemoveCachedSound ==
  ASSUME Core, TablesTyped(disk, dependencies, ret), NEW t \in Threads, NEW p \in Scripts,
         RemoveCached(t, p)
  PROVE  StepSound
<1> DEFINE R == ClearedBy(reg, p)
           g == RemoveScriptParsers(reg, p)
           st == StagesLeft(stage, R)
           sh == [shallow_ruzta_cache EXCEPT ![p] = Nil]
           fu == [full_ruzta_cache EXCEPT ![p] = Nil]
<1>1. /\ stack' = [u \in Threads |-> StackLeft(stack[u], R)]
      /\ CommitParsers(g, st) /\ dependencies' = [dependencies EXCEPT ![p] = {}]
      /\ UNCHANGED <<disk, ret>>
      /\ \E k \in SUBSET ({CachedScript(p)} \cap Objs) : CommitKeeping(kept \cup k, scr, sh, fu)
  BY DEF RemoveCached, StagesLeft, StackLeft
<1>2. PICK k \in SUBSET ({CachedScript(p)} \cap Objs) : CommitKeeping(kept \cup k, scr, sh, fu)
  BY <1>1
<1>3. /\ Sound(reg) /\ StagesSound(reg, stage)
      /\ ScriptsSound(scr, kept, shallow_ruzta_cache, full_ruzta_cache)
      /\ StacksSound(stack, reg, stage, scr) /\ pins = Pinned(stack)
  BY CoreFacts
<1>4. Sound(g) /\ DepsKeptBut(R, reg, g)
  BY <1>3, RemoveScriptSound DEF DepsKeptBut
<1>5. Settle(g, pins) => [Next]_vars
  BY DEF RemoveScript, Next
<1> HIDE DEF R, g
<1>6. StagesSound(g, st)
  BY <1>3, <1>4, ClearedStages
<1>7. \A u \in Threads : StackSound(stack[u], reg, stage, scr)
  BY <1>3 DEF StacksSound
<1> HIDE DEF st
<1>8. \A u \in Threads : /\ StackSound(stack'[u], g, st, scr)
                         /\ Refs(stack'[u]) = Refs(stack[u])
  <2> TAKE u \in Threads
  <2>1. stack'[u] = StackLeft(stack[u], R)
    BY <1>1
  <2>2. /\ StackSound(StackLeft(stack[u], R), g, st, scr)
        /\ Refs(StackLeft(stack[u], R)) = Refs(stack[u])
    BY <1>3, <1>4, <1>7, DeprivedStack DEF st
  <2> QED
    BY <2>1, <2>2
<1>9. StacksSound(stack', g, st, scr)
  <2>1. stack' \in [Threads -> Seq(FrameRecord)]
    <3>1. \A u \in Threads : stack'[u] \in Seq(FrameRecord)
      BY <1>8 DEF StackSound
    <3>2. stack' = [u \in Threads |-> stack'[u]]
      BY <1>1
    <3> QED
      BY <3>1, <3>2
  <2> QED
    BY <1>8, <2>1 DEF StacksSound
<1>10. Settle(g, Pinned(stack')) => [Next]_vars
  <2>1. Pinned(stack') = pins
    BY <1>3, <1>8 DEF Pinned
  <2> QED
    BY <1>5, <2>1
<1>11. TablesTyped(disk', dependencies', ret')
  BY <1>1 DEF TablesTyped
<1>12. ScriptsSound(scr, kept \cup k, sh, fu)
  <2>1. /\ sh \in [Scripts -> Objs \cup {Nil}]
        /\ \A q \in Scripts : sh[q] \in {shallow_ruzta_cache[q], Nil}
    BY <1>3 DEF ScriptsSound
  <2>2. /\ fu \in [Scripts -> Objs \cup {Nil, Null}]
        /\ \A q \in Scripts : fu[q] \in {full_ruzta_cache[q], Nil}
    BY <1>3 DEF ScriptsSound
  <2> HIDE DEF sh, fu
  <2>3. \A q \in Scripts, o \in Objs : o \in {sh[q], fu[q]} => scr[o].path # Nil
    BY <1>3, <2>1, <2>2, ContentAssumption DEF ScriptsSound
  <2> QED
    BY <1>3, <2>1, <2>2, <2>3 DEF ScriptsSound
<1> DEFINE keep == kept \cup k
<1>13. ScriptsSound(scr, keep, sh, fu) /\ CommitKeeping(keep, scr, sh, fu)
       /\ CommitParsers(g, st)
  BY <1>1, <1>2, <1>12
<1> HIDE DEF keep, sh, fu
<1> QED
  BY <1>4, <1>6, <1>9, <1>10, <1>11, <1>13, Stepped

(* Ruzta::set_path.                                                        *)
LEMMA MoveCachedSound ==
  ASSUME Core, TablesTyped(disk, dependencies, ret), NEW t \in Threads,
         NEW from \in Scripts, NEW to \in Scripts, MoveCached(t, from, to)
  PROVE  StepSound
<1> DEFINE o == CachedScript(from)
           g == RemoveParser(reg, from)
           moved(m) == [m EXCEPT ![to] = IF m[from] # Nil THEN m[from] ELSE m[to],
                                 ![from] = Nil]
           x == [scr[o] EXCEPT !.path = to]
           sc == Updated(scr, o, x)
           sh == moved(shallow_ruzta_cache)
           fu == moved(full_ruzta_cache)
           replaced == {m[to] : m \in {y \in {shallow_ruzta_cache, full_ruzta_cache} :
                                         y[from] # Nil}}
<1>0. /\ o \in Objs /\ UNCHANGED <<disk, ret, stack, dependencies>>
      /\ CommitParsers(g, stage)
      /\ \E k \in SUBSET (replaced \cap Objs) :
           CommitKeeping(kept \cup k, [scr EXCEPT ![o].path = to], sh, fu)
  BY DEF MoveCached
<1>1. PICK keep \in SUBSET Objs :
        /\ o \in Objs /\ UNCHANGED <<disk, ret, stack, dependencies>>
        /\ CommitParsers(g, stage)
        /\ CommitKeeping(keep, [scr EXCEPT ![o].path = to], sh, fu)
  <2>1. PICK k \in SUBSET (replaced \cap Objs) :
           CommitKeeping(kept \cup k, [scr EXCEPT ![o].path = to], sh, fu)
    BY <1>0
  <2>2. kept \cup k \in SUBSET Objs
    BY CoreFacts DEF ScriptsSound
  <2> QED
    BY <1>0, <2>1, <2>2
<1>2. /\ Sound(reg) /\ StagesSound(reg, stage) /\ Allowed(reg, stage, scr)
      /\ ScriptsSound(scr, kept, shallow_ruzta_cache, full_ruzta_cache)
      /\ pins = Pinned(stack)
  BY CoreFacts
<1>3. scr[o].path # Nil
  BY <1>1, <1>2 DEF CachedScript, ScriptsSound
<1>4. scr[o] \in ScriptRecord /\ scr[o].source \in Content
  BY <1>1, <1>3, ScriptFacts
<1> HIDE DEF o
<1>5. x \in ScriptRecord /\ x.path = to /\ x.source = scr[o].source
  BY <1>4 DEF ScriptRecord
<1>6. sc = [scr EXCEPT ![o].path = to]
  BY <1>1, <1>2 DEF Updated, ScriptsSound
<1> HIDE DEF x
<1>7. /\ ScriptsSound(sc, kept, shallow_ruzta_cache, full_ruzta_cache)
      /\ PathsStay(scr, sc)
  <2>1. x.path # Nil /\ x.source # Nil
    BY <1>4, <1>5, RegistryAssumption, ContentAssumption
  <2> QED
    BY <1>1, <1>2, <1>5, <2>1, ScriptChanged
<1>8. CommitKeeping(keep, sc, sh, fu)
  BY <1>1, <1>6
<1> HIDE DEF sc
<1>9. ScriptsSound(sc, keep, sh, fu)
  <2>1. /\ sh \in [Scripts -> Objs \cup {Nil}]
        /\ \A q \in Scripts : sh[q] \in {shallow_ruzta_cache[q], shallow_ruzta_cache[from], Nil}
    BY <1>2 DEF ScriptsSound
  <2>2. /\ fu \in [Scripts -> Objs \cup {Nil, Null}]
        /\ \A q \in Scripts : fu[q] \in {full_ruzta_cache[q], full_ruzta_cache[from], Nil}
    BY <1>2 DEF ScriptsSound
  <2> HIDE DEF sh, fu
  <2>3. \A q \in Scripts, y \in Objs : y \in {sh[q], fu[q]} => sc[y].path # Nil
    BY <1>7, <2>1, <2>2, ContentAssumption DEF ScriptsSound
  <2> QED
    BY <1>1, <1>7, <2>1, <2>2, <2>3 DEF ScriptsSound
<1> HIDE DEF sh, fu
<1>10. Sound(g) /\ Keeps(reg, g)
  BY <1>2, SoundRemoveParser, RemoveKeeps
<1>11. Settle(g, pins) => [Next]_vars
  BY DEF Remove, Next
<1> HIDE DEF g
<1>12. StagesSound(g, stage) /\ Allowed(g, stage, sc)
  BY <1>2, <1>7, <1>10, StagesUnder DEF Allowed
<1>13. StacksSound(stack', g, stage, sc) /\ Pinned(stack') = pins
  <2>1. StacksSound(stack, g, stage, sc)
    BY <1>12, AllowedStacks
  <2>2. stack' = stack
    BY <1>1
  <2> QED
    BY <1>2, <2>1, <2>2
<1>14. TablesTyped(disk', dependencies', ret')
  BY <1>1
<1>15. Settle(g, Pinned(stack')) => [Next]_vars
  BY <1>11, <1>13
<1> QED
  BY <1>1, <1>8, <1>9, <1>10, <1>12, <1>13, <1>14, <1>15, Stepped

(* A file changes: only the disk does.                                     *)
LEMMA EditFileSound ==
  ASSUME Core, TablesTyped(disk, dependencies, ret), NEW p \in Scripts,
         NEW c \in Content \cup {Nil}, EditFile(p, c)
  PROVE  StepSound
<1>1. /\ disk' = [disk EXCEPT ![p] = c]
      /\ UNCHANGED <<reg, pins, stage, scr, kept, shallow_ruzta_cache,
                     full_ruzta_cache, dependencies, stack, ret>>
  BY DEF EditFile, scripts
<1>2. TablesTyped(disk', dependencies', ret')
  BY <1>1 DEF TablesTyped
<1>3. [Next]_vars
  BY <1>1 DEF vars
<1>4. CoreSound(reg', pins', stage', scr', kept', shallow_ruzta_cache',
                full_ruzta_cache', stack')
  BY <1>1 DEF Core
<1> QED
  BY <1>2, <1>3, <1>4 DEF StepSound

-----------------------------------------------------------------------------
(***************************************************************************)
(* The invariant of the loader.                                            *)
(***************************************************************************)
LEMMA StepOfThread ==
  ASSUME Core, TablesTyped(disk, dependencies, ret), NEW t \in Threads, Step(t)
  PROVE  StepSound /\ UNCHANGED events
<1>1. StepSound
  <2>1. CASE RaiseStage(t) \/ RaiseVisit(t) \/ RaiseResume(t)
             \/ RaiseEndStage(t) \/ RaiseReturn(t)
    BY <2>1, RaiseStageSound, RaiseVisitSound, RaiseResumeSound,
       RaiseEndStageSound, RaiseReturnSound
  <2>2. CASE ReloadBusy(t) \/ ReloadParse(t) \/ ReloadCompile(t) \/ ReloadReturn(t)
    BY <2>2, ReloadBusySound, ReloadParseSound, ReloadCompileSound, ReloadReturnSound
  <2>5. CASE \/ ReloadFree(t) \/ ReloadFlag(t) \/ ReloadLook(t) \/ ReloadAnnounce(t)
             \/ ReloadHas(t) \/ ReloadGet(t) \/ ReloadCompare(t) \/ ReloadRemove(t)
             \/ ReloadRelease(t)
    BY <2>5, ReloadFlagSound, ReloadAnnounceSound, ReloadGetSound, ReloadRemoveSound,
       ReloadReleaseSound, ReloadGoesOnSound
  <2>3. CASE FinishMark(t) \/ FinishNext(t) \/ FinishCompiled(t) \/ FinishReturn(t)
    BY <2>3, FinishMarkSound, FinishNextSound, FinishCompiledSound, FinishReturnSound
  <2>4. CASE FullCached(t) \/ FullReload(t) \/ FullReturn(t) \/ QueryReturn(t)
    BY <2>4, FullCachedSound, FullReloadSound, FullReturnSound, QueryReturnSound
  <2> QED
    BY <2>1, <2>2, <2>3, <2>4, <2>5 DEF Step
<1>2. UNCHANGED files
  <2>1. CASE RaiseStage(t) \/ RaiseVisit(t) \/ RaiseEndStage(t) \/ RaiseReturn(t)
    BY <2>1 DEF RaiseStage, RaiseVisit, RaiseEndStage, RaiseReturn
  <2>2. CASE RaiseResume(t)
    BY <2>2 DEF RaiseResume
  <2>3. CASE ReloadBusy(t) \/ ReloadParse(t) \/ ReloadCompile(t) \/ ReloadReturn(t)
    BY <2>3 DEF ReloadBusy, ReloadParse, ReloadCompile, ReloadReturn
  <2>6. CASE ReloadFree(t) \/ ReloadFlag(t) \/ ReloadLook(t) \/ ReloadAnnounce(t)
    BY <2>6 DEF ReloadFree, ReloadFlag, ReloadLook, ReloadAnnounce, GoOn
  <2>7. CASE \/ ReloadHas(t) \/ ReloadGet(t) \/ ReloadCompare(t)
             \/ ReloadRemove(t) \/ ReloadRelease(t)
    BY <2>7 DEF ReloadHas, ReloadGet, ReloadCompare, ReloadRemove, ReloadRelease, GoOn
  <2>4. CASE FinishMark(t) \/ FinishNext(t) \/ FinishCompiled(t) \/ FinishReturn(t)
    BY <2>4 DEF FinishMark, FinishNext, FinishCompiled, FinishReturn
  <2>5. CASE FullCached(t) \/ FullReload(t) \/ FullReturn(t) \/ QueryReturn(t)
    BY <2>5 DEF FullCached, FullReload, FullReturn, QueryReturn
  <2> QED
    BY <2>1, <2>2, <2>3, <2>4, <2>5, <2>6, <2>7 DEF Step
<1> QED
  BY <1>1, <1>2 DEF files

LEMMA StepFromOutside ==
  ASSUME Core, TablesTyped(disk, dependencies, ret), NEW t \in Threads, Outside(t)
  PROVE  StepSound
<1>1. CASE \E p \in Scripts, fromDisk \in BOOLEAN : Load(t, p, fromDisk)
  BY <1>1, LoadSound
<1>2. CASE \E o \in Objs : HotReload(t, o)
  BY <1>2, HotReloadSound
<1>3. CASE \E p \in Scripts, target \in {INTERFACE_SOLVED, FULLY_SOLVED} :
             QueryParser(t, p, target)
  BY <1>3, QueryParserSound
<1>4. CASE \E p \in Scripts : RemoveCached(t, p)
  BY <1>4, RemoveCachedSound
<1>5. CASE \E from, to \in Scripts : MoveCached(t, from, to)
  BY <1>5, MoveCachedSound
<1> QED
  BY <1>1, <1>2, <1>3, <1>4, <1>5 DEF Outside

LEMMA InitCacheIInv == CacheInit => CacheIInv
<1> SUFFICES ASSUME CacheInit PROVE CacheIInv
  OBVIOUS
<1>1. Sound(reg) /\ pins = {}
  BY SoundEmpty DEF CacheInit, Init
<1>2. StagesSound(reg, stage)
  <2>1. \A r \in RefIds : stage[r] = NoTree
    BY DEF CacheInit
  <2>2. NoTree \in StageRecord /\ NoTree.status = EMPTY /\ NoTree.base = Nil
    BY DEF NoTree, StageRecord, EMPTY, FULLY_SOLVED
  <2>3. stage \in [RefIds -> StageRecord]
    BY <2>1, <2>2 DEF CacheInit
  <2>4. Rooted(stage)
    BY <2>1, <2>2, RegistryAssumption DEF Rooted
  <2> QED
    BY <2>1, <2>2, <2>3, <2>4 DEF StagesSound
<1>3. ScriptsSound(scr, kept, shallow_ruzta_cache, full_ruzta_cache)
  <2>1. NoScript \in ScriptRecord
    BY DEF NoScript, ScriptRecord
  <2> QED
    BY <2>1, ContentAssumption DEF CacheInit, ScriptsSound
<1>4. /\ stack \in [Threads -> Seq(FrameRecord)] /\ \A t \in Threads : stack[t] = <<>>
  <2>1. <<>> \in Seq(FrameRecord)
    OBVIOUS
  <2> QED
    BY <2>1 DEF CacheInit
<1>5. StacksSound(stack, reg, stage, scr)
  BY <1>4, EmptyStack DEF StacksSound
<1>6. Pinned(stack) = {}
  BY <1>4, EmptyStack DEF Pinned
<1>7. TablesTyped(disk, dependencies, ret) /\ events \in 0..MaxEvents
  BY ContentAssumption DEF CacheInit, TablesTyped
<1> QED
  BY <1>1, <1>2, <1>3, <1>5, <1>6, <1>7 DEF CacheIInv, Core, CoreSound

LEMMA NextCacheIInv == CacheIInv /\ [CacheNext]_cvars => CacheIInv' /\ [Next]_vars
<1> SUFFICES ASSUME Core, TablesTyped(disk, dependencies, ret), events \in 0..MaxEvents,
                    [CacheNext]_cvars
             PROVE  CacheIInv' /\ [Next]_vars
  BY DEF CacheIInv
<1>1. StepSound /\ events' \in 0..MaxEvents
  <2>1. CASE \E t \in Threads : Step(t)
    BY <2>1, StepOfThread
  <2>2. CASE UNCHANGED cvars
    <3>1. UNCHANGED <<reg, pins, stage, scr, kept, shallow_ruzta_cache,
                      full_ruzta_cache, dependencies, disk, events, stack, ret>>
      BY <2>2 DEF cvars, scripts, files
    <3> QED
      BY <3>1 DEF StepSound, Core, vars
  <2>3. CASE /\ events < MaxEvents /\ events' = events + 1
             /\ \/ \E t \in Threads : Outside(t)
                \/ \E p \in Scripts, c \in Content \cup {Nil} : EditFile(p, c)
    <3>1. events' \in 0..MaxEvents
      BY <2>3, ContentAssumption
    <3>2. StepSound
      BY <2>3, StepFromOutside, EditFileSound
    <3> QED
      BY <3>1, <3>2
  <2> QED
    BY <2>1, <2>2, <2>3 DEF CacheNext, Finished
<1>2. CacheIInv'
  BY <1>1 DEF StepSound, CacheIInv, Core
<1> QED
  BY <1>1, <1>2 DEF StepSound

-----------------------------------------------------------------------------
(***************************************************************************)
(* The results.                                                            *)
(***************************************************************************)

(* The inductive invariant of the loader: the registry, the stages of its  *)
(* parsers, the tables of scripts and every thread's chain of calls fit    *)
(* together, whatever the threads and the files do.                        *)
THEOREM SpecCacheIInv == CacheSafety => []CacheIInv
<1> QED
  BY InitCacheIInv, NextCacheIInv, PTL DEF CacheSafety

(* The tables, statuses and flags hold what the code can put there.        *)
THEOREM CacheTypeCorrect == CacheSafety => []CacheTypeOK
<1>1. CacheIInv => CacheTypeOK
  <2> SUFFICES ASSUME Core, TablesTyped(disk, dependencies, ret), events \in 0..MaxEvents
               PROVE  CacheTypeOK
    BY DEF CacheIInv
  <2>1. TypeOK
    <3>1. Sound(reg) /\ pins \subseteq RefIds
      BY CoreFacts
    <3> QED
      BY <3>1 DEF TypeOK, Sound
  <2>2. /\ stage \in [RefIds -> StageRecord] /\ kept \subseteq Objs
        /\ scr \in [Objs -> ScriptRecord]
        /\ shallow_ruzta_cache \in [Scripts -> Objs \cup {Nil}]
        /\ full_ruzta_cache \in [Scripts -> Objs \cup {Nil, Null}]
    BY CoreFacts DEF StagesSound, ScriptsSound
  <2>3. /\ stage \in [RefIds -> [status : EMPTY..FULLY_SOLVED, ok : BOOLEAN,
                                 tree : Content \cup {EmptySource, Nil},
                                 base : RefIds \cup {Nil}]]
        /\ scr \in [Objs -> [path : Scripts \cup {Nil}, source : Content \cup {Nil},
                             valid : BOOLEAN, reloading : BOOLEAN,
                             initialized : BOOLEAN]]
    BY <2>2 DEF StageRecord, ScriptRecord
  <2> QED
    BY <2>1, <2>2, <2>3 DEF TablesTyped, CacheTypeOK
<1> QED
  BY <1>1, SpecCacheIInv, PTL

(***************************************************************************)
(* The loader implements the registry: every call of get_parser,           *)
(* get_depended_parser_for, remove_parser and remove_script it makes, and  *)
(* every destructor it runs, is a step the registry allows, so what is     *)
(* proved of the registry holds of the loader.                             *)
(***************************************************************************)
THEOREM ImplementsRegistry == CacheSafety => Spec
<1>1. CacheInit => Init
  BY DEF CacheInit
<1>2. CacheIInv /\ [CacheNext]_cvars => [Next]_vars
  BY NextCacheIInv
<1> QED
  BY <1>1, <1>2, SpecCacheIInv, PTL DEF CacheSafety, Spec

(* Hence, while scripts load in any cycle and on any thread, the cache     *)
(* never hands out a parser that was analysed against a discarded one, and *)
(* never names a parser another reference has taken the place of.          *)
THEOREM LoaderNeverStale ==
  CacheSafety => [](FreshDependencies /\ RegisteredIffNotAbandoned)
<1> QED
  BY ImplementsRegistry, NeverStale, OneRegistered, PTL

(***************************************************************************)
(* A cycle of scripts never makes the analyzer enter a stage of a parser   *)
(* whose stage still runs further down the chain of calls.                 *)
(***************************************************************************)
THEOREM StagesEnteredOnce == CacheSafety => []NoStageReentered
<1>1. CacheIInv => NoStageReentered
  <2> SUFFICES ASSUME Core PROVE NoStageReentered
    BY DEF CacheIInv
  <2>1. \A t \in Threads : Nested(stack[t])
    BY CoreFacts DEF StacksSound, StackSound
  <2> QED
    BY <2>1 DEF Nested, NoStageReentered
<1> QED
  BY <1>1, SpecCacheIInv, PTL

(* The base classes the analyzer records never form a loop, for any number *)
(* of scripts that extend each other in any way.                           *)
THEOREM BasesEnd == CacheSafety => []NoInheritanceLoop
<1>1. CacheIInv => NoInheritanceLoop
  <2> SUFFICES ASSUME Core PROVE NoInheritanceLoop
    BY DEF CacheIInv
  <2>1. Rooted(stage)
    BY CoreFacts DEF StagesSound
  <2> QED
    BY <2>1 DEF Rooted, NoInheritanceLoop, Live
<1> QED
  BY <1>1, SpecCacheIInv, PTL

=============================================================================
