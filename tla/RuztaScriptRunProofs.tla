------------------------- MODULE RuztaScriptRunProofs -------------------------
(***************************************************************************)
(* Proofs about RuztaScriptRun, for any scripts and any stages: on code    *)
(* that is sound every frame of the machine is at an instruction of its    *)
(* function and has the slots the instruction names, nothing is asked of   *)
(* an instance where there is none, and a variable with a setter changes   *)
(* in its setter only.                                                     *)
(***************************************************************************)
EXTENDS RuztaScriptRun, TLAPS, FiniteSetTheorems

(***************************************************************************)
(* The inductive invariant.                                                *)
(***************************************************************************)
CodeOf(p, frame) == p.functions[frame.function].code

(* alone: whether the frames without an instance are meant to need none.   *)
FrameRight(alone, p, frame) ==
  LET f == p.functions[frame.function]
  IN  /\ frame = [ function |-> frame.function, ip |-> frame.ip, defarg |-> frame.defarg,
                   with_instance |-> frame.with_instance, stack |-> frame.stack ]
      /\ frame.function \in DOMAIN p.functions
      /\ frame.ip \in DOMAIN f.code
      /\ frame.defarg \in 0..f.default_arg_count
      /\ frame.stack = [n \in 1..f.stack_size |-> frame.stack[n]]
      /\ alone => frame.with_instance \/ AsksForNone(f)

(* A caller is at an instruction that others follow.                       *)
Follows(p, frame) == CodeOf(p, frame)[frame.ip].op # "END"

StackRight(alone, p, s) ==
  /\ s \in Seq({s[n] : n \in DOMAIN s})
  /\ Len(s) <= MAX_CALL_DEPTH
  /\ \A n \in 1..Len(s) : FrameRight(alone, p, s[n])
  /\ \A n \in 1..Len(s) - 1 : Follows(p, s[n])

FunctionsSound(p) ==
  \A name \in DOMAIN p.functions : SlotsThere(p.functions[name]) /\ JumpsInside(p.functions[name])

(* The variables of the instance and of the script have a place each.      *)
PlacesThere(places, indices) ==
  places = [index \in 1..Cardinality(DOMAIN indices) |-> places[index]]

(* What is taken for granted of Compile.                                   *)
SoundWhenCompiled == stage = "compiled" => CodeSound

(* What a lambda without the instance runs needs none.                     *)
HeapRight(h) ==
  /\ h \in Seq({h[n] : n \in DOMAIN h})
  /\ \A n \in DOMAIN h : "function" \in DOMAIN h[n] => h[n].self \/ RunsAlone(h[n].function)

IInv(alone) ==
  /\ stage \in {"new", "written", "parsed", "exported", "analyzed", "compiled",
                "running", "done", "refused"}
  /\ stage # "running" => frames = <<>>
  /\ stage \notin {"running", "done"} => heap = <<>>
  /\ stage = "running" =>
       /\ CodeSound
       /\ StackRight(alone, program, frames)
       /\ HeapRight(heap)
       /\ PlacesThere(members, program.member_indices)
       /\ PlacesThere(static_variables, program.static_variables_indices)

-----------------------------------------------------------------------------
(***************************************************************************)
(* Stacks: the frame on top replaced, taken off, another one on top.       *)
(***************************************************************************)
(* All but the last.                                                       *)
LEMMA FrontOf ==
  ASSUME NEW S, NEW s, s \in Seq(S), s # <<>>
  PROVE  /\ Len(s) \in Nat /\ Len(s) >= 1
         /\ Front(s) \in Seq(S) /\ Len(Front(s)) = Len(s) - 1
         /\ \A n \in 1..Len(s) - 1 : Front(s)[n] = s[n]
<1>1. Len(s) \in Nat /\ Len(s) >= 1
  OBVIOUS
<1>2. Front(s) \in Seq(S)
  BY <1>1, SMTT(30) DEF Front
<1>3. Len(Front(s)) = Len(s) - 1
  BY <1>1, SMTT(30) DEF Front
<1>4. \A n \in 1..Len(s) - 1 : Front(s)[n] = s[n]
  BY <1>1, SMTT(30) DEF Front
<1> QED
  BY <1>1, <1>2, <1>3, <1>4

(* A sequence is one of what is in it.                                     *)
LEMMA OfItsOwn ==
  ASSUME NEW S, NEW s \in Seq(S)
  PROVE  s \in Seq({s[n] : n \in DOMAIN s})
<1> DEFINE T == {s[n] : n \in DOMAIN s}
<1>1. Len(s) \in Nat /\ s \in [1..Len(s) -> T]
  OBVIOUS
<1> QED
  BY <1>1

LEMMA StackOf ==
  ASSUME NEW alone, NEW p, NEW s, StackRight(alone, p, s), s # <<>>
  PROVE  /\ Len(s) \in Nat /\ Len(s) >= 1
         /\ FrameRight(alone, p, Last(s))
         /\ Last(s) = s[Len(s)]
<1>1. Len(s) \in Nat /\ Len(s) >= 1
  BY DEF StackRight
<1>2. FrameRight(alone, p, s[Len(s)])
  BY <1>1 DEF StackRight
<1> QED
  BY <1>1, <1>2 DEF Last

LEMMA TopReplaced ==
  ASSUME NEW alone, NEW p, NEW s, StackRight(alone, p, s), s # <<>>, NEW e, FrameRight(alone, p, e)
  PROVE  StackRight(alone, p, Append(Front(s), e))
<1>1. PICK S : s \in Seq(S)
  BY DEF StackRight
<1>2. Len(s) \in Nat /\ Len(s) >= 1
  BY StackOf
<1>3. PICK r : /\ r = Append(Front(s), e)
               /\ r \in Seq(S \cup {e}) /\ Len(r) = Len(s) /\ r[Len(s)] = e
               /\ \A n \in 1..Len(s) - 1 : r[n] = s[n]
  <2>1. PICK t : t = Front(s)
    OBVIOUS
  <2>2. /\ t \in Seq(S) /\ Len(t) = Len(s) - 1
        /\ \A n \in 1..Len(s) - 1 : t[n] = s[n]
    BY <1>1, <2>1, FrontOf
  <2>3. t \in Seq(S \cup {e})
    BY <2>2
  <2>4. /\ Append(t, e) \in Seq(S \cup {e})
        /\ Len(Append(t, e)) = Len(s)
        /\ Append(t, e)[Len(s)] = e
        /\ \A n \in 1..Len(s) - 1 : Append(t, e)[n] = s[n]
    BY <1>2, <2>2, <2>3
  <2> QED
    BY <2>1, <2>4
<1>4. r \in Seq({r[n] : n \in DOMAIN r})
  BY <1>3, OfItsOwn
<1>5. \A n \in 1..Len(s) : FrameRight(alone, p, s[n])
  BY DEF StackRight
<1>6. \A n \in 1..Len(s) - 1 : Follows(p, s[n])
  BY DEF StackRight
<1>7. \A n \in 1..Len(r) : FrameRight(alone, p, r[n])
  <2> TAKE n \in 1..Len(r)
  <2>1. CASE n = Len(s)
    BY <2>1, <1>3
  <2>2. CASE n # Len(s)
    <3>1. n \in 1..Len(s) - 1 /\ n \in 1..Len(s)
      BY <2>2, <1>2, <1>3
    <3> QED
      BY <3>1, <1>3, <1>5
  <2> QED
    BY <2>1, <2>2
<1>8. \A n \in 1..Len(r) - 1 : Follows(p, r[n])
  BY <1>3, <1>6
<1>9. Len(r) <= MAX_CALL_DEPTH
  BY <1>3 DEF StackRight
<1> QED
  BY <1>3, <1>4, <1>7, <1>8, <1>9 DEF StackRight

LEMMA Pushed ==
  ASSUME NEW alone, NEW p, NEW s, StackRight(alone, p, s), s # <<>>, Len(s) # MAX_CALL_DEPTH,
         Follows(p, Last(s)), NEW e, FrameRight(alone, p, e)
  PROVE  StackRight(alone, p, Append(s, e))
<1> DEFINE S == {s[n] : n \in DOMAIN s}
           r == Append(s, e)
<1>1. s \in Seq(S) /\ Len(s) <= MAX_CALL_DEPTH
  BY DEF StackRight
<1>2. Len(s) \in Nat /\ Len(s) >= 1 /\ Last(s) = s[Len(s)]
  BY StackOf
<1> HIDE DEF S
<1>3. s \in Seq(S \cup {e})
  BY <1>1
<1>4. /\ r \in Seq(S \cup {e}) /\ Len(r) = Len(s) + 1 /\ r[Len(s) + 1] = e
      /\ \A n \in 1..Len(s) : r[n] = s[n]
  BY <1>2, <1>3
<1> HIDE DEF r
<1>5. r \in Seq({r[n] : n \in DOMAIN r})
  BY <1>4, OfItsOwn
<1>6. /\ \A n \in 1..Len(s) : FrameRight(alone, p, s[n])
      /\ \A n \in 1..Len(s) - 1 : Follows(p, s[n])
  BY DEF StackRight
<1>7. \A n \in 1..Len(r) : FrameRight(alone, p, r[n])
  <2> TAKE n \in 1..Len(r)
  <2>1. n \in 1..Len(s) \/ n = Len(s) + 1
    BY <1>2, <1>4
  <2> QED
    BY <2>1, <1>4, <1>6
<1>8. \A n \in 1..Len(r) - 1 : Follows(p, r[n])
  <2> TAKE n \in 1..Len(r) - 1
  <2>1. n \in 1..Len(s) /\ (n \in 1..Len(s) - 1 \/ n = Len(s))
    BY <1>2, <1>4
  <2> QED
    BY <2>1, <1>2, <1>4, <1>6
<1>9. Len(r) <= MAX_CALL_DEPTH
  BY <1>1, <1>2, <1>4, DepthAssumption
<1> QED
  BY <1>5, <1>7, <1>8, <1>9 DEF StackRight, r

LEMMA Popped ==
  ASSUME NEW alone, NEW p, NEW s, StackRight(alone, p, s), s # <<>>, Front(s) # <<>>
  PROVE  StackRight(alone, p, Front(s)) /\ Follows(p, Last(Front(s)))
<1> DEFINE S == {s[n] : n \in DOMAIN s}
           r == Front(s)
<1>1. s \in Seq(S) /\ Len(s) <= MAX_CALL_DEPTH
  BY DEF StackRight
<1>2. Len(s) \in Nat /\ Len(s) >= 1
  BY StackOf
<1> HIDE DEF S
<1>3. /\ r \in Seq(S) /\ Len(r) = Len(s) - 1
      /\ \A n \in 1..Len(s) - 1 : r[n] = s[n]
  BY <1>1, FrontOf
<1> HIDE DEF r
<1>4. r \in Seq({r[n] : n \in DOMAIN r})
  BY <1>3, OfItsOwn
<1>5. /\ \A n \in 1..Len(s) : FrameRight(alone, p, s[n])
      /\ \A n \in 1..Len(s) - 1 : Follows(p, s[n])
  BY DEF StackRight
<1>6. /\ \A n \in 1..Len(r) : FrameRight(alone, p, r[n])
      /\ \A n \in 1..Len(r) - 1 : Follows(p, r[n])
  BY <1>2, <1>3, <1>5
<1>7. Len(r) <= MAX_CALL_DEPTH
  BY <1>1, <1>2, <1>3, DepthAssumption
<1>8. Len(r) \in 1..Len(s) - 1 /\ Last(r) = r[Len(r)]
  <2>1. r # <<>>
    BY DEF r
  <2> QED
    BY <2>1, <1>2, <1>3 DEF Last
<1>9. Follows(p, Last(r))
  BY <1>3, <1>5, <1>8
<1> QED
  BY <1>4, <1>6, <1>7, <1>9 DEF StackRight, r

-----------------------------------------------------------------------------
(***************************************************************************)
(* Frames: at another place, with another value in a slot.                 *)
(***************************************************************************)
LEMMA ElsewhereRight ==
  ASSUME NEW alone, NEW p, NEW frame, FrameRight(alone, p, frame), NEW place, place \in DOMAIN CodeOf(p, frame)
  PROVE  /\ FrameRight(alone, p, [frame EXCEPT !.ip = place])
         /\ [frame EXCEPT !.ip = place].function = frame.function
<1> DEFINE new == [frame EXCEPT !.ip = place]
<1>1. PICK f, i, d, w, s :
        frame = [function |-> f, ip |-> i, defarg |-> d, with_instance |-> w, stack |-> s]
  BY DEF FrameRight
<1>2. new = [function |-> f, ip |-> place, defarg |-> d, with_instance |-> w, stack |-> s]
  BY <1>1
<1> HIDE DEF new
<1>3. /\ new.function = f /\ new.ip = place /\ new.defarg = d /\ new.with_instance = w /\ new.stack = s
      /\ frame.function = f /\ frame.defarg = d /\ frame.stack = s
  BY <1>1, <1>2
<1>4. /\ f \in DOMAIN p.functions /\ place \in DOMAIN p.functions[f].code
      /\ d \in 0..p.functions[f].default_arg_count
      /\ s = [n \in 1..p.functions[f].stack_size |-> s[n]]
      /\ alone => w \/ AsksForNone(p.functions[f])
  <2>1. frame.with_instance = w
    BY <1>1
  <2> QED
    BY <1>3, <2>1 DEF FrameRight, CodeOf
<1>5. FrameRight(alone, p, new)
  BY <1>2, <1>3, <1>4 DEF FrameRight
<1> QED
  BY <1>3, <1>5 DEF new

LEMMA OnwardsRight ==
  ASSUME NEW alone, NEW p, FunctionsSound(p), NEW frame, FrameRight(alone, p, frame), Follows(p, frame)
  PROVE  FrameRight(alone, p, Onwards(frame))
<1>1. frame.function \in DOMAIN p.functions /\ frame.ip \in DOMAIN CodeOf(p, frame)
  BY DEF FrameRight, CodeOf
<1>2. frame.ip + 1 \in DOMAIN CodeOf(p, frame)
  BY <1>1 DEF FunctionsSound, JumpsInside, Follows, CodeOf
<1> QED
  BY <1>2, ElsewhereRight DEF Onwards

LEMMA PutRight ==
  ASSUME NEW alone, NEW frame, FrameRight(alone, program, frame), NEW a, NEW v
  PROVE  /\ FrameRight(alone, program, Put(frame, a, v))
         /\ Put(frame, a, v).function = frame.function
         /\ Put(frame, a, v).ip = frame.ip
<1> DEFINE new == Put(frame, a, v)
<1>1. PICK f, i, d, w, s :
        frame = [function |-> f, ip |-> i, defarg |-> d, with_instance |-> w, stack |-> s]
  BY DEF FrameRight
<1>2. PICK slot : slot = SlotIn(program.functions[frame.function], a)
  OBVIOUS
<1>3. PICK t : t = [s EXCEPT ![slot] = v]
  OBVIOUS
<1>4. new = [frame EXCEPT !.stack[slot] = v]
  BY <1>2 DEF Put
<1>5. new = [function |-> f, ip |-> i, defarg |-> d, with_instance |-> w, stack |-> t]
  BY <1>1, <1>3, <1>4
<1> HIDE DEF new
<1>6. /\ new.function = f /\ new.ip = i /\ new.defarg = d /\ new.with_instance = w /\ new.stack = t
      /\ frame.function = f /\ frame.ip = i /\ frame.defarg = d /\ frame.stack = s
  BY <1>1, <1>5
<1>7. t = [n \in 1..program.functions[f].stack_size |-> t[n]]
  <2>1. s = [n \in 1..program.functions[f].stack_size |-> s[n]]
    BY <1>6 DEF FrameRight
  <2> QED
    BY <1>3, <2>1
<1>8. /\ f \in DOMAIN program.functions /\ i \in DOMAIN program.functions[f].code
      /\ d \in 0..program.functions[f].default_arg_count
      /\ alone => w \/ AsksForNone(program.functions[f])
  <2>1. frame.with_instance = w
    BY <1>1
  <2> QED
    BY <1>6, <2>1 DEF FrameRight
<1>9. FrameRight(alone, program, new)
  BY <1>5, <1>6, <1>7, <1>8 DEF FrameRight
<1> QED
  BY <1>6, <1>9 DEF new

LEMMA PutFollows ==
  ASSUME NEW alone, NEW frame, FrameRight(alone, program, frame), Follows(program, frame), NEW a, NEW v
  PROVE  Follows(program, Put(frame, a, v))
BY PutRight DEF Follows, CodeOf

(* The first frame of a function that takes what it is given.              *)
LEMMA NewFrameRight ==
  ASSUME NEW alone, FunctionsSound(program), NEW name, name \in DOMAIN program.functions,
         NEW arguments, Accepts(name, arguments), NEW with_instance,
         alone => with_instance \/ RunsAlone(name)
  PROVE  FrameRight(alone, program, FrameOf(program.functions, name, arguments, with_instance))
<1> DEFINE f == program.functions[name]
           new == FrameOf(program.functions, name, arguments, with_instance)
<1>0. alone => with_instance \/ AsksForNone(f)
  BY DEF RunsAlone
<1>1. PICK s : /\ s = [n \in 1..f.stack_size |-> s[n]]
               /\ new = [function |-> name, ip |-> 1, defarg |-> f.argument_count - Len(arguments),
                         with_instance |-> with_instance, stack |-> s]
  <2>1. new.stack = [n \in 1..f.stack_size |-> new.stack[n]]
    BY DEF FrameOf
  <2>2. new = [function |-> name, ip |-> 1, defarg |-> f.argument_count - Len(arguments),
               with_instance |-> with_instance, stack |-> new.stack]
    BY DEF FrameOf
  <2> QED
    BY <2>1, <2>2, Zenon
<1>2. 1 \in DOMAIN f.code
  BY DEF FunctionsSound, JumpsInside
<1>3. f.argument_count - Len(arguments) \in 0..f.default_arg_count
  <2>1. /\ f.argument_count \in Nat /\ f.default_arg_count \in 0..f.argument_count
    BY DEF FunctionsSound, SlotsThere
  <2>2. Len(arguments) \in (f.argument_count - f.default_arg_count)..f.argument_count
    BY DEF Accepts
  <2> QED
    BY <2>1, <2>2
<1> HIDE DEF new
<1>4. /\ new.function = name /\ new.ip = 1 /\ new.defarg = f.argument_count - Len(arguments)
      /\ new.with_instance = with_instance /\ new.stack = s
  BY <1>1
<1>5. FrameRight(alone, program, new)
  BY <1>0, <1>1, <1>2, <1>3, <1>4 DEF FrameRight
<1> QED
  BY <1>5 DEF new

-----------------------------------------------------------------------------
(***************************************************************************)
(* The heap: operations put contents into it and never touch a lambda.     *)
(***************************************************************************)
LEMMA HeapAppended ==
  ASSUME NEW h, HeapRight(h), NEW c, "function" \in DOMAIN c => c.self \/ RunsAlone(c.function)
  PROVE  HeapRight(Append(h, c))
<1> DEFINE S == {h[n] : n \in DOMAIN h}
           r == Append(h, c)
<1>1. h \in Seq(S) /\ Len(h) \in Nat
  BY DEF HeapRight
<1>2. DOMAIN h = 1..Len(h)
  BY <1>1
<1> HIDE DEF S
<1>3. h \in Seq(S \cup {c})
  BY <1>1
<1>4. /\ r \in Seq(S \cup {c}) /\ DOMAIN r = 1..Len(h) + 1 /\ r[Len(h) + 1] = c
      /\ \A n \in 1..Len(h) : r[n] = h[n]
  BY <1>1, <1>3
<1> HIDE DEF r
<1>5. r \in Seq({r[n] : n \in DOMAIN r})
  BY <1>4, OfItsOwn
<1>6. ASSUME NEW n \in DOMAIN r, "function" \in DOMAIN r[n]
      PROVE  r[n].self \/ RunsAlone(r[n].function)
  <2>1. CASE n = Len(h) + 1
    BY <1>4, <1>6, <2>1
  <2>2. CASE n # Len(h) + 1
    <3>1. n \in DOMAIN h /\ r[n] = h[n]
      BY <1>1, <1>2, <1>4, <2>2
    <3> QED
      BY <1>6, <3>1 DEF HeapRight
  <2> QED
    BY <2>1, <2>2
<1> QED
  BY <1>5, <1>6 DEF HeapRight, r

(* What is put in the place of contents, with no more fields than they had *)
(* and the same function, if they had one.                                 *)
LEMMA HeapChanged ==
  ASSUME NEW h, HeapRight(h), NEW ref, NEW c,
         ref \in DOMAIN h /\ "function" \in DOMAIN c =>
           "function" \in DOMAIN h[ref] /\ c.function = h[ref].function /\ c.self = h[ref].self
  PROVE  HeapRight([h EXCEPT ![ref] = c])
<1> DEFINE S == {h[n] : n \in DOMAIN h}
           r == [h EXCEPT ![ref] = c]
<1>1. h \in Seq(S) /\ Len(h) \in Nat
  BY DEF HeapRight
<1>2. h \in [1..Len(h) -> S] /\ DOMAIN h = 1..Len(h)
  BY <1>1
<1> HIDE DEF S
<1>3. r \in [1..Len(h) -> S \cup {c}] /\ DOMAIN r = 1..Len(h)
  BY <1>2
<1>4. \A n \in 1..Len(h) : r[n] = IF n = ref THEN c ELSE h[n]
  BY <1>2
<1> HIDE DEF r
<1>5. r \in Seq(S \cup {c})
  BY <1>1, <1>3
<1>6. r \in Seq({r[n] : n \in DOMAIN r})
  BY <1>5, OfItsOwn
<1>7. ASSUME NEW n \in DOMAIN r, "function" \in DOMAIN r[n]
      PROVE  r[n].self \/ RunsAlone(r[n].function)
  <2>1. CASE n = ref
    <3>1. ref \in DOMAIN h /\ r[n] = c
      BY <1>2, <1>3, <1>4, <2>1
    <3>2. "function" \in DOMAIN h[ref] /\ c.function = h[ref].function /\ c.self = h[ref].self
      BY <1>7, <3>1
    <3>3. h[ref].self \/ RunsAlone(h[ref].function)
      BY <3>1, <3>2 DEF HeapRight
    <3> QED
      BY <3>1, <3>2, <3>3
  <2>2. CASE n # ref
    <3>1. n \in DOMAIN h /\ r[n] = h[n]
      BY <1>2, <1>3, <1>4, <2>2
    <3> QED
      BY <1>7, <3>1 DEF HeapRight
  <2> QED
    BY <2>1, <2>2
<1> QED
  BY <1>6, <1>7 DEF HeapRight, r

LEMMA ElementsChanged ==
  ASSUME NEW h, HeapRight(h), NEW ref, NEW x
  PROVE  HeapRight([h EXCEPT ![ref].elements = x])
<1>1. PICK c : c = [h[ref] EXCEPT !.elements = x]
  OBVIOUS
<1>2. [h EXCEPT ![ref].elements = x] = [h EXCEPT ![ref] = c]
  BY <1>1
<1>3. "function" \in DOMAIN c =>
        "function" \in DOMAIN h[ref] /\ c.function = h[ref].function /\ c.self = h[ref].self
  BY <1>1
<1> QED
  BY <1>2, <1>3, HeapChanged

LEMMA PairsChanged ==
  ASSUME NEW h, HeapRight(h), NEW ref, NEW x
  PROVE  HeapRight([h EXCEPT ![ref].pairs = x])
<1>1. PICK c : c = [h[ref] EXCEPT !.pairs = x]
  OBVIOUS
<1>2. [h EXCEPT ![ref].pairs = x] = [h EXCEPT ![ref] = c]
  BY <1>1
<1>3. "function" \in DOMAIN c =>
        "function" \in DOMAIN h[ref] /\ c.function = h[ref].function /\ c.self = h[ref].self
  BY <1>1
<1> QED
  BY <1>2, <1>3, HeapChanged

(* Operations on values leave the heap as it is, add contents to it or     *)
(* change contents.                                                        *)
LEMMA AddedRight ==
  ASSUME NEW h, HeapRight(h), NEW x
  PROVE  HeapRight(NewArray(h, x).heap) /\ HeapRight(NewDictionary(h, x).heap)
<1>1. "function" \notin DOMAIN [elements |-> x] /\ "function" \notin DOMAIN [pairs |-> x]
  OBVIOUS
<1>2. HeapRight(Append(h, [elements |-> x])) /\ HeapRight(Append(h, [pairs |-> x]))
  BY <1>1, HeapAppended
<1> QED
  BY <1>2 DEF NewArray, NewDictionary, Did

LEMMA EmptyRight ==
  ASSUME NEW h, HeapRight(h), NEW type
  PROVE  HeapRight(Empty(h, type).heap)
BY AddedRight DEF Empty, Did

LEMMA EvaluateRight ==
  ASSUME NEW h, HeapRight(h), NEW op \in Operators, NEW a, NEW b
  PROVE  HeapRight(evaluate(h, op, a, b).heap)
<1> DEFINE did == evaluate(h, op, a, b)
<1>1. CASE ~IsDefined(op, a.t, b.t) \/ (op \in {"/", "%"} /\ b.i = 0)
  BY <1>1 DEF evaluate, Invalid
<1>2. CASE IsDefined(op, a.t, b.t) /\ ~(op \in {"/", "%"} /\ b.i = 0)
  <2>1. CASE op = "+"
    BY <1>2, <2>1, AddedRight DEF evaluate, IsDefined, Did, Numeric
  <2>2. CASE op = "-"
    BY <1>2, <2>2 DEF evaluate, IsDefined, Did, Numeric
  <2>3. CASE op \in {"*", "/", "%"}
    BY <1>2, <2>3 DEF evaluate, IsDefined, Did, Numeric
  <2>4. CASE op = "negate"
    BY <1>2, <2>4 DEF evaluate, Did
  <2>5. CASE op \in {"<", "<=", ">", ">="}
    BY <1>2, <2>5 DEF evaluate, Did
  <2>6. CASE op \in {"==", "!=", "and", "or", "not"}
    BY <1>2, <2>6 DEF evaluate, Did
  <2>7. CASE op = "in"
    BY <1>2, <2>7 DEF evaluate, IsDefined, Did
  <2> QED
    BY <2>1, <2>2, <2>3, <2>4, <2>5, <2>6, <2>7 DEF Operators
<1> QED
  BY <1>1, <1>2

LEMMA SetKeyedRight ==
  ASSUME NEW h, HeapRight(h), NEW base, NEW key, NEW v
  PROVE  HeapRight(set_keyed(h, base, key, v).heap)
<1>1. ASSUME NEW i
      PROVE  HeapRight([h EXCEPT ![base.ref].elements[i] = v])
  <2>1. PICK x : x = [h[base.ref].elements EXCEPT ![i] = v]
    OBVIOUS
  <2>2. [h EXCEPT ![base.ref].elements[i] = v] = [h EXCEPT ![base.ref].elements = x]
    BY <2>1
  <2> QED
    BY <2>2, ElementsChanged
<1>2. HeapRight([h EXCEPT ![base.ref].pairs = WithKey(h, @, key, v)])
  <2>1. PICK x : x = WithKey(h, h[base.ref].pairs, key, v)
    OBVIOUS
  <2>2. [h EXCEPT ![base.ref].pairs = WithKey(h, @, key, v)] = [h EXCEPT ![base.ref].pairs = x]
    BY <2>1
  <2> QED
    BY <2>2, PairsChanged
<1> QED
  BY <1>1, <1>2 DEF set_keyed, Did, Invalid

LEMMA CallMethodRight ==
  ASSUME NEW h, HeapRight(h), NEW base, NEW method, NEW arguments
  PROVE  HeapRight(call_method(h, base, method, arguments).heap)
<1>1. HeapRight([h EXCEPT ![base.ref].elements = Append(@, arguments[1])])
  <2>1. PICK x : x = Append(h[base.ref].elements, arguments[1])
    OBVIOUS
  <2>2. [h EXCEPT ![base.ref].elements = Append(@, arguments[1])] = [h EXCEPT ![base.ref].elements = x]
    BY <2>1
  <2> QED
    BY <2>2, ElementsChanged
<1> QED
  BY <1>1 DEF call_method, Did, Invalid

LEMMA ConstructRight ==
  ASSUME NEW h, HeapRight(h), NEW type, NEW arguments
  PROVE  HeapRight(construct(h, type, arguments).heap)
BY EmptyRight DEF construct, Did, Invalid

(* Reading, and setting a part of a copy, changes nothing.                 *)
LEMMA ReadsOnly ==
  ASSUME NEW h, NEW base, NEW key, NEW v
  PROVE  /\ get_keyed(h, base, key).heap = h
         /\ get_keyed_validated(h, base, key).heap = h
         /\ get_named(h, base, key).heap = h
         /\ set_named(h, base, key, v).heap = h
         /\ len(h, base).heap = h
<1>1. get_keyed(h, base, key).heap = h
  BY DEF get_keyed, Did, Invalid
<1>2. get_keyed_validated(h, base, key).heap = h
  BY <1>1 DEF get_keyed_validated, Did
<1>3. get_named(h, base, key).heap = h /\ set_named(h, base, key, v).heap = h
  BY DEF get_named, set_named, Did, Invalid
<1>4. len(h, base).heap = h
  BY DEF len, Did, Invalid
<1> QED
  BY <1>1, <1>2, <1>3, <1>4

-----------------------------------------------------------------------------
(***************************************************************************)
(* Where a function goes on.                                               *)
(***************************************************************************)
Here(alone) ==
  /\ frames # <<>> /\ StackRight(alone, program, frames) /\ FunctionsSound(program)
  /\ \A name \in DOMAIN program.functions : InstanceLeftOut(name)
Goes(alone) == Here(alone) /\ Instruction.op # "END"

LEMMA OnTop ==
  ASSUME NEW alone, Here(alone)
  PROVE  /\ FrameRight(alone, program, Last(frames))
         /\ Instruction = CodeOf(program, Last(frames))[Last(frames).ip]
         /\ Instruction.op # "END" => Follows(program, Last(frames))
BY StackOf DEF Here, Instruction, Running, Follows, CodeOf

LEMMA ContinueKeeps ==
  ASSUME NEW alone, Here(alone), NEW frame, FrameRight(alone, program, frame), Continue(frame)
  PROVE  StackRight(alone, program, frames')
BY TopReplaced DEF Here, Continue

LEMMA ThroughKeeps ==
  ASSUME NEW alone, Goes(alone), Through
  PROVE  StackRight(alone, program, frames')
<1>1. FrameRight(alone, program, Onwards(Last(frames)))
  BY OnTop, OnwardsRight DEF Goes, Here
<1> QED
  BY <1>1, TopReplaced DEF Goes, Here, Through

LEMMA Next1Keeps ==
  ASSUME NEW alone, Goes(alone), Next1
  PROVE  StackRight(alone, program, frames')
<1>1. FrameRight(alone, program, Onwards(Last(frames)))
  BY OnTop, OnwardsRight DEF Goes, Here
<1> QED
  BY <1>1, ContinueKeeps DEF Goes, Next1

LEMMA SetsKeeps ==
  ASSUME NEW alone, Goes(alone), NEW a, NEW v, Sets(a, v)
  PROVE  StackRight(alone, program, frames')
<1>1. CASE a.mode = "member"
  BY <1>1, ThroughKeeps DEF Sets, SetsMember
<1>2. CASE a.mode # "member"
  <2>1. /\ FrameRight(alone, program, Put(Last(frames), a, v))
        /\ Follows(program, Put(Last(frames), a, v))
    BY OnTop, PutRight, PutFollows DEF Goes
  <2>2. FrameRight(alone, program, Onwards(Put(Last(frames), a, v)))
    BY <2>1, OnwardsRight DEF Goes, Here
  <2> QED
    BY <1>2, <2>2, ContinueKeeps DEF Sets, Goes
<1> QED
  BY <1>1, <1>2

LEMMA GoToKeeps ==
  ASSUME NEW alone, Here(alone), NEW place, place \in DOMAIN CodeOf(program, Last(frames)), GoTo(place)
  PROVE  StackRight(alone, program, frames')
<1>1. FrameRight(alone, program, [Last(frames) EXCEPT !.ip = place])
  BY OnTop, ElsewhereRight
<1> QED
  BY <1>1, ContinueKeeps DEF GoTo

(* A caller with the answer, behind its call.                              *)
LEMMA ReturnedRight ==
  ASSUME NEW alone, FunctionsSound(program), NEW caller, FrameRight(alone, program, caller), Follows(program, caller), NEW v
  PROVE  FrameRight(alone, program, Returned(caller, v))
<1> DEFINE call == program.functions[caller.function].code[caller.ip]
           with == IF call.op \in {"CALL_RETURN", "GET_NAMED"} THEN Put(caller, call.target, v) ELSE caller
<1>1. FrameRight(alone, program, with) /\ Follows(program, with)
  BY PutRight, PutFollows
<1>2. Returned(caller, v) = Onwards(with)
  BY DEF Returned
<1> HIDE DEF with
<1> QED
  BY <1>1, <1>2, OnwardsRight

LEMMA ExitKeeps ==
  ASSUME NEW alone, Here(alone), NEW v, Exit(v)
  PROVE  StackRight(alone, program, frames')
<1>1. CASE Front(frames) = <<>>
  <2>1. frames' = <<>>
    BY <1>1 DEF Exit
  <2> QED
    BY <2>1, DepthAssumption DEF StackRight
<1>2. CASE Front(frames) # <<>>
  <2>1. PICK callers : callers = Front(frames)
    OBVIOUS
  <2>2. StackRight(alone, program, callers) /\ Follows(program, Last(callers)) /\ callers # <<>>
    BY <1>2, <2>1, Popped DEF Here
  <2>3. FrameRight(alone, program, Last(callers))
    BY <2>2, StackOf
  <2>4. FrameRight(alone, program, Returned(Last(callers), v))
    BY <2>2, <2>3, ReturnedRight DEF Here
  <2>5. frames' = Append(Front(callers), Returned(Last(callers), v))
    BY <1>2, <2>1 DEF Exit
  <2> QED
    BY <2>2, <2>4, <2>5, TopReplaced
<1> QED
  BY <1>1, <1>2

LEMMA EndsKeeps ==
  ASSUME NEW alone, Here(alone), NEW h, NEW report, EndsWith(h, report)
  PROVE  StackRight(alone, program, frames')
BY ExitKeeps DEF EndsWith

LEMMA ErrorKeeps ==
  ASSUME NEW alone, Here(alone), NEW h, ErrorIn(h)
  PROVE  StackRight(alone, program, frames')
BY EndsKeeps DEF ErrorIn

LEMMA GivesKeeps ==
  ASSUME NEW alone, Goes(alone), NEW a, NEW did, Gives(a, did)
  PROVE  StackRight(alone, program, frames')
<1>1. Sets(a, did.v) \/ ErrorIn(did.heap)
  BY DEF Gives
<1> QED
  BY <1>1, SetsKeeps, ErrorKeeps DEF Goes

LEMMA ReturnedKeeps ==
  ASSUME NEW alone, Goes(alone), NEW v, Continue(Returned(Last(frames), v))
  PROVE  StackRight(alone, program, frames')
<1>1. FrameRight(alone, program, Returned(Last(frames), v))
  BY OnTop, ReturnedRight DEF Goes, Here
<1> QED
  BY <1>1, ContinueKeeps DEF Goes

LEMMA CallsKeeps ==
  ASSUME NEW alone, Goes(alone), NEW name, NEW arguments, NEW with_instance, Calls(name, arguments, with_instance),
         alone /\ name \in DOMAIN program.functions => with_instance \/ RunsAlone(name)
  PROVE  StackRight(alone, program, frames')
<1>1. CASE Error
  BY <1>1, ErrorKeeps DEF Error, Goes
<1>2. CASE \E v : Continue(Returned(Last(frames), v))
  BY <1>2, ReturnedKeeps
<1>3. CASE /\ name \in DOMAIN program.functions /\ Len(frames) # MAX_CALL_DEPTH
           /\ Accepts(name, arguments)
           /\ frames' = Append(frames, FrameOf(program.functions, name, arguments, with_instance))
  <2>1. PICK new : new = FrameOf(program.functions, name, arguments, with_instance)
    OBVIOUS
  <2>2. FrameRight(alone, program, new)
    BY <1>3, <2>1, NewFrameRight DEF Goes, Here
  <2>3. Follows(program, Last(frames))
    BY OnTop DEF Goes
  <2> QED
    BY <1>3, <2>1, <2>2, <2>3, Pushed DEF Goes, Here
<1> QED
  BY <1>1, <1>2, <1>3 DEF Calls

LEMMA TurnKeeps ==
  ASSUME NEW alone, Goes(alone), NEW state, NEW v, Turn(state, v)
  PROVE  StackRight(alone, program, frames')
<1>1. PICK counter, iterator :
        Continue(Onwards(Put(Put(Last(frames), counter, state), iterator, v)))
  BY DEF Turn
<1>2. PICK once : once = Put(Last(frames), counter, state)
  OBVIOUS
<1>3. FrameRight(alone, program, once) /\ Follows(program, once)
  BY <1>2, OnTop, PutRight, PutFollows DEF Goes
<1>4. FrameRight(alone, program, Put(once, iterator, v)) /\ Follows(program, Put(once, iterator, v))
  BY <1>3, PutRight, PutFollows
<1>5. FrameRight(alone, program, Onwards(Put(once, iterator, v)))
  BY <1>4, OnwardsRight DEF Goes, Here
<1> QED
  BY <1>1, <1>2, <1>5, ContinueKeeps DEF Goes

LEMMA LeaveLoopKeeps ==
  ASSUME NEW alone, Goes(alone), Instruction.op \in Jumps, NEW state, LeaveLoop(state)
  PROVE  StackRight(alone, program, frames')
<1>1. PICK once : once = Put(Last(frames), Instruction.counter, state)
  OBVIOUS
<1>2. /\ FrameRight(alone, program, once)
      /\ once.function = Last(frames).function
  BY <1>1, OnTop, PutRight DEF Goes
<1>3. Instruction.to \in DOMAIN CodeOf(program, once)
  <2>1. /\ Last(frames).function \in DOMAIN program.functions
        /\ Last(frames).ip \in DOMAIN CodeOf(program, Last(frames))
    BY OnTop DEF Goes, FrameRight, CodeOf
  <2> QED
    BY <2>1, <1>2, OnTop DEF Goes, Here, FunctionsSound, JumpsInside, CodeOf
<1>4. FrameRight(alone, program, [once EXCEPT !.ip = Instruction.to])
  BY <1>2, <1>3, ElsewhereRight
<1> QED
  BY <1>1, <1>4, ContinueKeeps DEF Goes, LeaveLoop

-----------------------------------------------------------------------------
(***************************************************************************)
(* The instructions.                                                       *)
(***************************************************************************)
LEMMA WhereItIs ==
  ASSUME NEW alone, Here(alone)
  PROVE  /\ Last(frames).function \in DOMAIN program.functions
         /\ Last(frames).ip \in DOMAIN CodeOf(program, Last(frames))
         /\ Last(frames).defarg \in 0..Running.default_arg_count
         /\ JumpsInside(Running) /\ Running.code = CodeOf(program, Last(frames))
BY OnTop DEF Here, FrameRight, FunctionsSound, CodeOf, Running

LEMMA JumpKeeps ==
  ASSUME NEW alone, Here(alone), Instruction.op \in Jumps, GoTo(Instruction.to)
  PROVE  StackRight(alone, program, frames')
<1>1. Instruction.to \in DOMAIN CodeOf(program, Last(frames))
  BY WhereItIs, OnTop DEF JumpsInside
<1> QED
  BY <1>1, GoToKeeps

LEMMA RunsGoes ==
  ASSUME NEW alone, Here(alone), NEW ops, Runs(ops), "END" \notin ops
  PROVE  Goes(alone) /\ Instruction.op \in ops
BY DEF Runs, Goes

LEMMA TurnIfKeeps ==
  ASSUME NEW alone, Goes(alone), Instruction.op \in Jumps, NEW goes, NEW state, NEW v, TurnIf(goes, state, v)
  PROVE  StackRight(alone, program, frames')
<1>1. Turn(state, v) \/ LeaveLoop(state)
  BY DEF TurnIf
<1> QED
  BY <1>1, TurnKeeps, LeaveLoopKeeps

(* A lambda made without the instance runs without it.                     *)
LEMMA LambdaAlone ==
  ASSUME NEW alone, Here(alone), HeapRight(heap), stage = "running", TypedOperands, CallsLambda
  PROVE  LET lambda == heap[Operand(Instruction.base).ref]
         IN  lambda.self \/ RunsAlone(lambda.function)
<1>1. Instruction.op \in {"CALL", "CALL_RETURN"}
  BY DEF CallsLambda, Runs
<1>2. "base" \in DOMAIN Instruction
  <2>1. SlotsThere(Running) /\ Last(frames).ip \in DOMAIN Running.code
    BY WhereItIs DEF Here, FunctionsSound, Running
  <2> QED
    BY <1>1, <2>1 DEF SlotsThere, Instruction
<1>3. Instruction.base \in Reads(Instruction)
  BY <1>2 DEF Reads, NamedIn
<1>4. PICK v : v = Operand(Instruction.base) /\ v.t = "callable" /\ v.ref # 0
  BY DEF CallsLambda
<1>5. Instruction.base.mode # "nil"
  BY <1>4 DEF Operand, Nil
<1>6. Refers(v)
  BY <1>3, <1>4, <1>5 DEF TypedOperands, Holds, Here
<1>7. v.ref \in DOMAIN heap /\ "function" \in DOMAIN heap[v.ref]
  BY <1>4, <1>6 DEF Refers
<1>8. heap[v.ref].self \/ RunsAlone(heap[v.ref].function)
  BY <1>7 DEF HeapRight
<1> QED
  BY <1>4, <1>8

LEMMA ExecuteKeeps ==
  ASSUME NEW alone, Here(alone), Execute,
         alone => HeapRight(heap) /\ stage = "running" /\ TypedOperands
  PROVE  StackRight(alone, program, frames')
<1>1. CASE CallSelf
  <2>1. Goes(alone)
    BY <1>1, RunsGoes DEF CallSelf
  <2>2. CASE \E v : Continue(Returned(Last(frames), v))
    BY <2>1, <2>2, ReturnedKeeps
  <2>3. CASE /\ Calls(Instruction.function_name, Operands(Instruction.arguments), Operand(Instruction.base) = Object)
             /\ \/ Operand(Instruction.base) = Object
                \/ Instruction.function_name \in DOMAIN program.functions =>
                     program.functions[Instruction.function_name].is_static
    <3>1. PICK name, arguments, with_instance :
            /\ Calls(name, arguments, with_instance)
            /\ with_instance \/ (name \in DOMAIN program.functions => program.functions[name].is_static)
      BY <2>3
    <3>2. alone /\ name \in DOMAIN program.functions => with_instance \/ RunsAlone(name)
      BY <3>1 DEF Here, InstanceLeftOut
    <3> QED
      BY <2>1, <3>1, <3>2, CallsKeeps
  <2> QED
    BY <1>1, <2>2, <2>3 DEF CallSelf
<1>2. CASE CallLambda
  <2>1. Goes(alone)
    BY <1>2, RunsGoes DEF CallLambda, CallsLambda
  <2>2. PICK lambda, arguments :
          /\ lambda = heap[Operand(Instruction.base).ref]
          /\ Calls(lambda.function, arguments, lambda.self)
    BY <1>2 DEF CallLambda
  <2>3. alone => lambda.self \/ RunsAlone(lambda.function)
    BY <1>2, <2>2, LambdaAlone DEF CallLambda
  <2> QED
    BY <2>1, <2>2, <2>3, CallsKeeps
<1>3. CASE CreateLambda
  <2>1. Goes(alone)
    BY <1>3, RunsGoes DEF CreateLambda
  <2>2. \E a, did : Gives(a, did)
    BY <1>3 DEF CreateLambda
  <2> QED
    BY <2>1, <2>2, GivesKeeps
<1>4. CASE CallMethod
  <2>1. Goes(alone)
    BY <1>4, RunsGoes DEF CallMethod
  <2>2. (\E h : ErrorIn(h)) \/ (\E v : Continue(Returned(Last(frames), v)))
    BY <1>4 DEF CallMethod
  <2> QED
    BY <2>1, <2>2, ReturnedKeeps, ErrorKeeps DEF Goes
<1>5. CASE CallMethodValidated
  <2>1. Goes(alone)
    BY <1>5, RunsGoes DEF CallMethodValidated
  <2>2. \E a, v : Sets(a, v)
    BY <1>5 DEF CallMethodValidated
  <2> QED
    BY <2>1, <2>2, SetsKeeps
<1>6. CASE CallUtility
  <2>1. Goes(alone)
    BY <1>6, RunsGoes DEF CallUtility
  <2>2. \E a, v : Sets(a, v)
    BY <1>6 DEF CallUtility
  <2> QED
    BY <2>1, <2>2, SetsKeeps
<1>7. CASE CallRuztaUtility
  <2>1. Goes(alone)
    BY <1>7, RunsGoes DEF CallRuztaUtility
  <2>2. \E a, did : Gives(a, did)
    BY <1>7 DEF CallRuztaUtility
  <2> QED
    BY <2>1, <2>2, GivesKeeps
<1>8. CASE ReturnValue
  BY <1>8, ExitKeeps DEF ReturnValue
<1>9. CASE ReturnTyped
  <2>1. Error \/ \E v : Exit(v)
    BY <1>9 DEF ReturnTyped
  <2> QED
    BY <2>1, ExitKeeps, ErrorKeeps DEF Error
<1>10. CASE End
  BY <1>10, ExitKeeps DEF End
<1>11. CASE Operate
  <2>1. Goes(alone)
    BY <1>11, RunsGoes DEF Operate
  <2>2. \E a, did : Gives(a, did)
    BY <1>11 DEF Operate
  <2> QED
    BY <2>1, <2>2, GivesKeeps
<1>12. CASE OperateValidated
  <2>1. Goes(alone)
    BY <1>12, RunsGoes DEF OperateValidated
  <2>2. \E a, v : Sets(a, v)
    BY <1>12 DEF OperateValidated
  <2> QED
    BY <2>1, <2>2, SetsKeeps
<1>13. CASE AdjustType
  <2>1. Goes(alone)
    BY <1>13, RunsGoes DEF AdjustType
  <2>2. \E a, v : Sets(a, v)
    BY <1>13 DEF AdjustType
  <2> QED
    BY <2>1, <2>2, SetsKeeps
<1>14. CASE TestType
  <2>1. Goes(alone)
    BY <1>14, RunsGoes DEF TestType
  <2>2. \E a, v : Sets(a, v)
    BY <1>14 DEF TestType
  <2> QED
    BY <2>1, <2>2, SetsKeeps
<1>15. CASE GetKeyed
  <2>1. Goes(alone)
    BY <1>15, RunsGoes DEF GetKeyed
  <2>2. \E a, did : Gives(a, did)
    BY <1>15 DEF GetKeyed
  <2> QED
    BY <2>1, <2>2, GivesKeeps
<1>16. CASE GetNamed
  <2>1. Goes(alone)
    BY <1>16, RunsGoes DEF GetNamed
  <2>2. \E a, did : Gives(a, did)
    BY <1>16 DEF GetNamed
  <2> QED
    BY <2>1, <2>2, GivesKeeps
<1>17. CASE SetKeyed
  <2>1. Goes(alone)
    BY <1>17, RunsGoes DEF SetKeyed
  <2>2. Next1 \/ \E h : ErrorIn(h)
    BY <1>17 DEF SetKeyed
  <2> QED
    BY <2>1, <2>2, Next1Keeps, ErrorKeeps DEF Goes
<1>18. CASE SetNamed
  <2>1. Goes(alone)
    BY <1>18, RunsGoes DEF SetNamed
  <2>2. \E a, did : Gives(a, did)
    BY <1>18 DEF SetNamed
  <2> QED
    BY <2>1, <2>2, GivesKeeps
<1>19. CASE InstanceGet
  <2>1. Goes(alone)
    BY <1>19, RunsGoes DEF InstanceGet
  <2>2. \/ Error
        \/ \E name, arguments : Calls(name, arguments, TRUE)
        \/ \E a, v : Sets(a, v)
    BY <1>19 DEF InstanceGet
  <2> QED
    BY <2>1, <2>2, CallsKeeps, SetsKeeps, ErrorKeeps DEF Error, Goes
<1>20. CASE InstanceSet
  <2>1. Goes(alone)
    BY <1>20, RunsGoes DEF InstanceSet
  <2>2. \/ Error
        \/ \E name, arguments : Calls(name, arguments, TRUE)
        \/ Through
    BY <1>20 DEF InstanceSet, SetsMember, SetsStatic
  <2> QED
    BY <2>1, <2>2, CallsKeeps, ThroughKeeps, ErrorKeeps DEF Error, Goes
<1>21. CASE GetStatic
  <2>1. Goes(alone)
    BY <1>21, RunsGoes DEF GetStatic
  <2>2. \E a, v : Sets(a, v)
    BY <1>21 DEF GetStatic
  <2> QED
    BY <2>1, <2>2, SetsKeeps
<1>22. CASE SetStatic
  <2>1. Goes(alone)
    BY <1>22, RunsGoes DEF SetStatic
  <2> QED
    BY <1>22, <2>1, ThroughKeeps DEF SetStatic, SetsStatic
<1>23. CASE Assign
  <2>1. Goes(alone)
    BY <1>23, RunsGoes DEF Assign
  <2>2. \E a, v : Sets(a, v)
    BY <1>23 DEF Assign
  <2> QED
    BY <2>1, <2>2, SetsKeeps
<1>24. CASE AssignTyped
  <2>1. Goes(alone)
    BY <1>24, RunsGoes DEF AssignTyped
  <2>2. \E a, did : Gives(a, did)
    BY <1>24 DEF AssignTyped
  <2> QED
    BY <2>1, <2>2, GivesKeeps
<1>25. CASE Construct
  <2>1. Goes(alone)
    BY <1>25, RunsGoes DEF Construct
  <2>2. \E a, did : Gives(a, did)
    BY <1>25 DEF Construct
  <2> QED
    BY <2>1, <2>2, GivesKeeps
<1>26. CASE JumpTo
  <2>1. Goes(alone) /\ Instruction.op \in Jumps
    BY <1>26, RunsGoes DEF JumpTo, Jumps
  <2>2. Next1 \/ GoTo(Instruction.to)
    BY <1>26 DEF JumpTo
  <2> QED
    BY <2>1, <2>2, Next1Keeps, JumpKeeps DEF Goes
<1>27. CASE JumpToDefault
  <2>1. Instruction.op = "JUMP_TO_DEF_ARGUMENT"
    BY <1>27 DEF JumpToDefault, Runs
  <2>2. PICK place : place = Running.default_arguments[Last(frames).defarg + 1] /\ GoTo(place)
    BY <1>27 DEF JumpToDefault
  <2>3. place \in DOMAIN CodeOf(program, Last(frames))
    BY <2>1, <2>2, WhereItIs, OnTop DEF JumpsInside
  <2> QED
    BY <2>2, <2>3, GoToKeeps
<1>28. CASE BeginRange
  <2>1. Goes(alone) /\ Instruction.op \in Jumps
    BY <1>28, RunsGoes DEF BeginRange, Jumps
  <2>2. \E state, v : Turn(state, v) \/ LeaveLoop(state)
    BY <1>28 DEF BeginRange
  <2> QED
    BY <2>1, <2>2, TurnKeeps, LeaveLoopKeeps
<1>29. CASE IterateRange
  <2>1. Goes(alone) /\ Instruction.op \in Jumps
    BY <1>29, RunsGoes DEF IterateRange, Jumps
  <2>2. \E state, v : Turn(state, v) \/ LeaveLoop(state)
    BY <1>29 DEF IterateRange
  <2> QED
    BY <2>1, <2>2, TurnKeeps, LeaveLoopKeeps
<1>30. CASE Iterate
  <2>1. Goes(alone) /\ Instruction.op \in Jumps
    BY <1>30, RunsGoes DEF Iterate, Jumps
  <2>2. Error \/ \E state, v : Turn(state, v) \/ LeaveLoop(state)
    BY <1>30 DEF Iterate
  <2> QED
    BY <2>1, <2>2, TurnKeeps, LeaveLoopKeeps, ErrorKeeps DEF Error, Goes
<1>31. CASE BeginCount
  <2>1. Goes(alone) /\ Instruction.op \in Jumps
    BY <1>31, RunsGoes DEF BeginCount, RunsOn, Jumps
  <2>2. \E goes, state, v : TurnIf(goes, state, v)
    BY <1>31 DEF BeginCount
  <2> QED
    BY <2>1, <2>2, TurnIfKeeps
<1>32. CASE GoOnCounting
  <2>1. Goes(alone) /\ Instruction.op \in Jumps
    BY <1>32, RunsGoes DEF GoOnCounting, RunsOn, Jumps
  <2>2. \E goes, state, v : TurnIf(goes, state, v)
    BY <1>32 DEF GoOnCounting
  <2> QED
    BY <2>1, <2>2, TurnIfKeeps
<1>33. CASE BeginElements
  <2>1. Goes(alone) /\ Instruction.op \in Jumps
    BY <1>33, RunsGoes DEF BeginElements, RunsOn, Jumps
  <2>2. \E goes, state, v : TurnIf(goes, state, v)
    BY <1>33 DEF BeginElements
  <2> QED
    BY <2>1, <2>2, TurnIfKeeps
<1>34. CASE NextElement
  <2>1. Goes(alone) /\ Instruction.op \in Jumps
    BY <1>34, RunsGoes DEF NextElement, RunsOn, Jumps
  <2>2. \E goes, state, v : TurnIf(goes, state, v)
    BY <1>34 DEF NextElement
  <2> QED
    BY <2>1, <2>2, TurnIfKeeps
<1>35. CASE AssertTrue
  <2>1. Goes(alone)
    BY <1>35, RunsGoes DEF AssertTrue
  <2>2. Next1 \/ Error
    BY <1>35 DEF AssertTrue
  <2> QED
    BY <2>1, <2>2, Next1Keeps, ErrorKeeps DEF Error, Goes
<1>36. CASE Line
  <2>1. Goes(alone)
    BY <1>36, RunsGoes DEF Line
  <2> QED
    BY <1>36, <2>1, Next1Keeps DEF Line
<1>37. CASE RefuseLambda
  BY <1>37, EndsKeeps DEF RefuseLambda
<1> QED
  BY <1>1, <1>2, <1>3, <1>4, <1>5, <1>6, <1>7, <1>8, <1>9, <1>10, <1>11, <1>12,
     <1>13, <1>14, <1>15, <1>16, <1>17, <1>18, <1>19, <1>20, <1>21, <1>22, <1>23, <1>24,
     <1>25, <1>26, <1>27, <1>28, <1>29, <1>30, <1>31, <1>32, <1>33, <1>34, <1>35, <1>36, <1>37
  DEF Execute

-----------------------------------------------------------------------------
(***************************************************************************)
(* What an instruction does to the heap.                                   *)
(***************************************************************************)
LEMMA EndsHeap ==
  ASSUME NEW h, HeapRight(h), NEW report, EndsWith(h, report)
  PROVE  HeapRight(heap')
BY EmptyRight DEF EndsWith

LEMMA ErrorHeap ==
  ASSUME NEW h, HeapRight(h), ErrorIn(h)
  PROVE  HeapRight(heap')
BY EndsHeap DEF ErrorIn

LEMMA GivesHeap ==
  ASSUME NEW did, HeapRight(did.heap), NEW a, Gives(a, did)
  PROVE  HeapRight(heap')
<1>1. heap' = did.heap \/ ErrorIn(did.heap)
  BY DEF Gives
<1> QED
  BY <1>1, ErrorHeap

LEMMA CallsHeap ==
  ASSUME HeapRight(heap), NEW name, NEW arguments, NEW with_instance, Calls(name, arguments, with_instance)
  PROVE  HeapRight(heap')
<1>1. Error \/ heap' = heap \/ \E type : heap' = Empty(heap, type).heap
  BY DEF Calls
<1> QED
  BY <1>1, ErrorHeap, EmptyRight DEF Error

LEMMA LambdaMade ==
  ASSUME NEW alone, Here(alone), HeapRight(heap), CreateLambda
  PROVE  HeapRight(heap')
<1>1. PICK lambda, captures :
        /\ lambda = [function |-> Instruction.function_name, captures |-> captures,
                     self |-> Instruction.op = "CREATE_SELF_LAMBDA"]
        /\ Gives(Instruction.target, NewCallable(heap, lambda))
  BY DEF CreateLambda
<1>2. Instruction.op \in {"CREATE_LAMBDA", "CREATE_SELF_LAMBDA"}
  BY DEF CreateLambda, Runs
<1>3. lambda.self \/ RunsAlone(lambda.function)
  <2>1. CASE Instruction.op = "CREATE_SELF_LAMBDA"
    BY <1>1, <2>1
  <2>2. CASE Instruction.op = "CREATE_LAMBDA"
    <3>1. RunsAlone(Instruction.function_name)
      BY <2>2, WhereItIs, OnTop DEF Here, InstanceLeftOut, CodeOf
    <3> QED
      BY <1>1, <3>1
  <2> QED
    BY <1>2, <2>1, <2>2
<1>4. HeapRight(NewCallable(heap, lambda).heap)
  BY <1>3, HeapAppended DEF NewCallable, Did
<1> QED
  BY <1>1, <1>4, GivesHeap

LEMMA ExecuteHeap ==
  ASSUME NEW alone, Here(alone), HeapRight(heap), Execute
  PROVE  HeapRight(heap')
<1>1. CASE CallSelf
  <2>1. heap' = heap \/ \E name, arguments, with_instance : Calls(name, arguments, with_instance)
    BY <1>1 DEF CallSelf
  <2> QED
    BY <2>1, CallsHeap
<1>2. CASE CallLambda
  <2>1. \E name, arguments, with_instance : Calls(name, arguments, with_instance)
    BY <1>2 DEF CallLambda
  <2> QED
    BY <2>1, CallsHeap
<1>3. CASE CreateLambda
  BY <1>3, LambdaMade
<1>4. CASE CallMethod
  <2>1. \E base, method, arguments :
          LET did == call_method(heap, base, method, arguments)
          IN  heap' = did.heap \/ ErrorIn(did.heap)
    BY <1>4 DEF CallMethod
  <2> QED
    BY <2>1, CallMethodRight, ErrorHeap
<1>5. CASE CallMethodValidated
  <2>1. \E base, method, arguments : heap' = call_method(heap, base, method, arguments).heap
    BY <1>5 DEF CallMethodValidated
  <2> QED
    BY <2>1, CallMethodRight
<1>6. CASE CallUtility
  BY <1>6 DEF CallUtility
<1>7. CASE CallRuztaUtility
  <2>1. \E a, v : Gives(a, len(heap, v))
    BY <1>7 DEF CallRuztaUtility
  <2> QED
    BY <2>1, ReadsOnly, GivesHeap
<1>8. CASE ReturnValue
  BY <1>8 DEF ReturnValue
<1>9. CASE ReturnTyped
  <2>1. heap' = heap \/ Error
    BY <1>9 DEF ReturnTyped
  <2> QED
    BY <2>1, ErrorHeap DEF Error
<1>10. CASE End
  BY <1>10 DEF End
<1>11. CASE Operate
  <2>1. Instruction.operator \in Operators
    BY <1>11, WhereItIs, OnTop DEF Operate, Runs, Here, FunctionsSound, SlotsThere, CodeOf
  <2>2. \E a, left, right : Gives(a, evaluate(heap, Instruction.operator, left, right))
    BY <1>11 DEF Operate
  <2> QED
    BY <2>1, <2>2, EvaluateRight, GivesHeap
<1>12. CASE OperateValidated
  <2>1. Instruction.operator \in Operators
    BY <1>12, WhereItIs, OnTop DEF OperateValidated, Runs, Here, FunctionsSound, SlotsThere, CodeOf
  <2>2. \E left, right : heap' = evaluate(heap, Instruction.operator, left, right).heap
    BY <1>12 DEF OperateValidated
  <2> QED
    BY <2>1, <2>2, EvaluateRight
<1>13. CASE AdjustType
  <2>1. \E type : heap' = Empty(heap, type).heap
    BY <1>13 DEF AdjustType
  <2> QED
    BY <2>1, EmptyRight
<1>14. CASE TestType
  BY <1>14 DEF TestType
<1>15. CASE GetKeyed
  <2>1. \E a, did : Gives(a, did) /\ did.heap = heap
    BY <1>15, ReadsOnly DEF GetKeyed
  <2> QED
    BY <2>1, GivesHeap
<1>16. CASE GetNamed
  <2>1. \E a, did : Gives(a, did) /\ did.heap = heap
    BY <1>16, ReadsOnly DEF GetNamed
  <2> QED
    BY <2>1, GivesHeap
<1>17. CASE SetKeyed
  <2>1. \E base, key, v :
          LET did == set_keyed(heap, base, key, v)
          IN  heap' = did.heap \/ ErrorIn(did.heap)
    BY <1>17 DEF SetKeyed
  <2> QED
    BY <2>1, SetKeyedRight, ErrorHeap
<1>18. CASE SetNamed
  <2>1. \E a, did : Gives(a, did) /\ did.heap = heap
    BY <1>18, ReadsOnly DEF SetNamed
  <2> QED
    BY <2>1, GivesHeap
<1>19. CASE InstanceGet
  <2>1. heap' = heap \/ Error \/ \E name, arguments, with_instance : Calls(name, arguments, with_instance)
    BY <1>19 DEF InstanceGet
  <2> QED
    BY <2>1, CallsHeap, ErrorHeap DEF Error
<1>20. CASE InstanceSet
  <2>1. heap' = heap \/ Error \/ \E name, arguments, with_instance : Calls(name, arguments, with_instance)
    BY <1>20 DEF InstanceSet
  <2> QED
    BY <2>1, CallsHeap, ErrorHeap DEF Error
<1>21. CASE GetStatic
  BY <1>21 DEF GetStatic
<1>22. CASE SetStatic
  BY <1>22 DEF SetStatic
<1>23. CASE Assign
  BY <1>23 DEF Assign
<1>24. CASE AssignTyped
  <2>1. \E a, did : Gives(a, did) /\ did.heap = heap
    BY <1>24 DEF AssignTyped, Did, Invalid
  <2> QED
    BY <2>1, GivesHeap
<1>25. CASE Construct
  <2>1. \E a : \/ \E x : Gives(a, NewArray(heap, x)) \/ Gives(a, NewDictionary(heap, x))
               \/ \E type, arguments : Gives(a, construct(heap, type, arguments))
    BY <1>25 DEF Construct, Runs
  <2> QED
    BY <2>1, AddedRight, ConstructRight, GivesHeap
<1>26. CASE JumpTo
  BY <1>26 DEF JumpTo
<1>27. CASE JumpToDefault
  BY <1>27 DEF JumpToDefault
<1>28. CASE BeginRange
  BY <1>28 DEF BeginRange
<1>29. CASE IterateRange
  BY <1>29 DEF IterateRange
<1>30. CASE Iterate
  <2>1. heap' = heap \/ Error
    BY <1>30 DEF Iterate
  <2> QED
    BY <2>1, ErrorHeap DEF Error
<1>31. CASE BeginCount
  BY <1>31 DEF BeginCount, RunsOn
<1>32. CASE GoOnCounting
  BY <1>32 DEF GoOnCounting, RunsOn
<1>33. CASE BeginElements
  BY <1>33 DEF BeginElements, RunsOn
<1>34. CASE NextElement
  BY <1>34 DEF NextElement, RunsOn
<1>35. CASE AssertTrue
  <2>1. heap' = heap \/ Error
    BY <1>35 DEF AssertTrue
  <2> QED
    BY <2>1, ErrorHeap DEF Error
<1>36. CASE Line
  BY <1>36 DEF Line
<1>37. CASE RefuseLambda
  BY <1>37, EndsHeap DEF RefuseLambda
<1> QED
  BY <1>1, <1>2, <1>3, <1>4, <1>5, <1>6, <1>7, <1>8, <1>9, <1>10, <1>11, <1>12,
     <1>13, <1>14, <1>15, <1>16, <1>17, <1>18, <1>19, <1>20, <1>21, <1>22, <1>23, <1>24,
     <1>25, <1>26, <1>27, <1>28, <1>29, <1>30, <1>31, <1>32, <1>33, <1>34, <1>35, <1>36, <1>37
  DEF Execute

-----------------------------------------------------------------------------
(***************************************************************************)
(* What an instruction does to the variables, and to nothing else.         *)
(***************************************************************************)
Changed(places, new, index) == \E v : new = [places EXCEPT ![index] = v]
PutsMember ==
  /\ Instruction.op \in Puts /\ Instruction.target.mode = "member"
  /\ Changed(members, members', Instruction.target.address) /\ UNCHANGED static_variables
PutsStatic ==
  /\ Instruction.op = "SET_STATIC_VARIABLE"
  /\ Changed(static_variables, static_variables', Instruction.at) /\ UNCHANGED members
SetsPlain ==   \* by name, a variable without a setter
  \/ \E name \in DOMAIN program.member_indices :
        LET info == program.member_indices[name]
        IN  info.setter = "" /\ Changed(members, members', info.index) /\ UNCHANGED static_variables
  \/ \E name \in DOMAIN program.static_variables_indices :
        LET info == program.static_variables_indices[name]
        IN  /\ info.setter = "" /\ Changed(static_variables, static_variables', info.index)
            /\ UNCHANGED members
DataStep == UNCHANGED data \/ PutsMember \/ PutsStatic \/ SetsPlain

LEMMA ExitData ==
  ASSUME NEW v, Exit(v)
  PROVE  UNCHANGED data
BY DEF Exit

LEMMA EndsData ==
  ASSUME NEW h, NEW report, EndsWith(h, report)
  PROVE  UNCHANGED data
BY ExitData DEF EndsWith

LEMMA ErrorData ==
  ASSUME NEW h, ErrorIn(h)
  PROVE  UNCHANGED data
BY EndsData DEF ErrorIn

LEMMA CallsData ==
  ASSUME NEW name, NEW arguments, NEW with_instance, Calls(name, arguments, with_instance)
  PROVE  UNCHANGED data
<1>1. Error \/ (\E frame : Continue(frame)) \/ UNCHANGED data
  BY DEF Calls
<1> QED
  BY <1>1, ErrorData DEF Error, Continue

LEMMA SetsData ==
  ASSUME NEW v, Sets(Instruction.target, v), Instruction.op \in Puts
  PROVE  UNCHANGED data \/ PutsMember
<1>1. CASE Instruction.target.mode = "member"
  BY <1>1 DEF Sets, SetsMember, PutsMember, Changed
<1>2. CASE Instruction.target.mode # "member"
  BY <1>2 DEF Sets, Continue
<1> QED
  BY <1>1, <1>2

LEMMA GivesData ==
  ASSUME NEW did, Gives(Instruction.target, did), Instruction.op \in Puts
  PROVE  UNCHANGED data \/ PutsMember
<1>1. Sets(Instruction.target, did.v) \/ ErrorIn(did.heap)
  BY DEF Gives
<1> QED
  BY <1>1, SetsData, ErrorData

LEMMA LoopData ==
  ASSUME NEW state, NEW v, Turn(state, v) \/ LeaveLoop(state)
  PROVE  UNCHANGED data
BY DEF Turn, LeaveLoop, Continue

LEMMA TurnIfData ==
  ASSUME NEW goes, NEW state, NEW v, TurnIf(goes, state, v)
  PROVE  UNCHANGED data
BY LoopData DEF TurnIf

LEMMA ExecuteData ==
  ASSUME Execute
  PROVE  UNCHANGED program /\ DataStep
<1>1. CASE CallSelf
  <2>1. UNCHANGED program
    BY <1>1 DEF CallSelf
  <2>2. (\E frame : Continue(frame)) \/ \E name, arguments, with_instance : Calls(name, arguments, with_instance)
    BY <1>1 DEF CallSelf
  <2> QED
    BY <2>1, <2>2, CallsData DEF DataStep, Continue
<1>2. CASE CallLambda
  <2>1. UNCHANGED program
    BY <1>2 DEF CallLambda
  <2>2. \E name, arguments, with_instance : Calls(name, arguments, with_instance)
    BY <1>2 DEF CallLambda
  <2> QED
    BY <2>1, <2>2, CallsData DEF DataStep
<1>3. CASE CreateLambda
  <2>1. UNCHANGED program
    BY <1>3 DEF CreateLambda
  <2>2. Instruction.op \in Puts
    BY <1>3 DEF CreateLambda, Runs, Puts
  <2>3. \E did : Gives(Instruction.target, did)
    BY <1>3 DEF CreateLambda
  <2> QED
    BY <2>1, <2>2, <2>3, GivesData DEF DataStep
<1>4. CASE CallMethod
  <2>1. UNCHANGED program
    BY <1>4 DEF CallMethod
  <2>2. (\E h : ErrorIn(h)) \/ (\E frame : Continue(frame))
    BY <1>4 DEF CallMethod
  <2> QED
    BY <2>1, <2>2, ErrorData DEF DataStep, Continue
<1>5. CASE CallMethodValidated
  <2>1. UNCHANGED program
    BY <1>5 DEF CallMethodValidated
  <2>2. Instruction.op \in Puts
    BY <1>5 DEF CallMethodValidated, Runs, Puts
  <2>3. \E v : Sets(Instruction.target, v)
    BY <1>5 DEF CallMethodValidated
  <2> QED
    BY <2>1, <2>2, <2>3, SetsData DEF DataStep
<1>6. CASE CallUtility
  <2>1. UNCHANGED program
    BY <1>6 DEF CallUtility
  <2>2. Instruction.op \in Puts
    BY <1>6 DEF CallUtility, Runs, Puts
  <2>3. \E v : Sets(Instruction.target, v)
    BY <1>6 DEF CallUtility
  <2> QED
    BY <2>1, <2>2, <2>3, SetsData DEF DataStep
<1>7. CASE CallRuztaUtility
  <2>1. UNCHANGED program
    BY <1>7 DEF CallRuztaUtility
  <2>2. Instruction.op \in Puts
    BY <1>7 DEF CallRuztaUtility, Runs, Puts
  <2>3. \E did : Gives(Instruction.target, did)
    BY <1>7 DEF CallRuztaUtility
  <2> QED
    BY <2>1, <2>2, <2>3, GivesData DEF DataStep
<1>8. CASE ReturnValue
  <2>1. UNCHANGED program
    BY <1>8 DEF ReturnValue
  <2>2. \E v : Exit(v)
    BY <1>8 DEF ReturnValue
  <2> QED
    BY <2>1, <2>2, ExitData DEF DataStep
<1>9. CASE ReturnTyped
  <2>1. UNCHANGED program
    BY <1>9 DEF ReturnTyped
  <2>2. Error \/ \E v : Exit(v)
    BY <1>9 DEF ReturnTyped
  <2> QED
    BY <2>1, <2>2, ExitData, ErrorData DEF DataStep, Error
<1>10. CASE End
  <2>1. UNCHANGED program
    BY <1>10 DEF End
  <2>2. \E v : Exit(v)
    BY <1>10 DEF End
  <2> QED
    BY <2>1, <2>2, ExitData DEF DataStep
<1>11. CASE Operate
  <2>1. UNCHANGED program
    BY <1>11 DEF Operate
  <2>2. Instruction.op \in Puts
    BY <1>11 DEF Operate, Runs, Puts
  <2>3. \E did : Gives(Instruction.target, did)
    BY <1>11 DEF Operate
  <2> QED
    BY <2>1, <2>2, <2>3, GivesData DEF DataStep
<1>12. CASE OperateValidated
  <2>1. UNCHANGED program
    BY <1>12 DEF OperateValidated
  <2>2. Instruction.op \in Puts
    BY <1>12 DEF OperateValidated, Runs, Puts
  <2>3. \E v : Sets(Instruction.target, v)
    BY <1>12 DEF OperateValidated
  <2> QED
    BY <2>1, <2>2, <2>3, SetsData DEF DataStep
<1>13. CASE AdjustType
  <2>1. UNCHANGED program
    BY <1>13 DEF AdjustType
  <2>2. Instruction.op \in Puts
    BY <1>13 DEF AdjustType, Runs, Puts
  <2>3. \E v : Sets(Instruction.target, v)
    BY <1>13 DEF AdjustType
  <2> QED
    BY <2>1, <2>2, <2>3, SetsData DEF DataStep
<1>14. CASE TestType
  <2>1. UNCHANGED program
    BY <1>14 DEF TestType
  <2>2. Instruction.op \in Puts
    BY <1>14 DEF TestType, Runs, Puts
  <2>3. \E v : Sets(Instruction.target, v)
    BY <1>14 DEF TestType
  <2> QED
    BY <2>1, <2>2, <2>3, SetsData DEF DataStep
<1>15. CASE GetKeyed
  <2>1. UNCHANGED program
    BY <1>15 DEF GetKeyed
  <2>2. Instruction.op \in Puts
    BY <1>15 DEF GetKeyed, Runs, Puts
  <2>3. \E did : Gives(Instruction.target, did)
    BY <1>15 DEF GetKeyed
  <2> QED
    BY <2>1, <2>2, <2>3, GivesData DEF DataStep
<1>16. CASE GetNamed
  <2>1. UNCHANGED program
    BY <1>16 DEF GetNamed
  <2>2. Instruction.op \in Puts
    BY <1>16 DEF GetNamed, Runs, Puts
  <2>3. \E did : Gives(Instruction.target, did)
    BY <1>16 DEF GetNamed
  <2> QED
    BY <2>1, <2>2, <2>3, GivesData DEF DataStep
<1>17. CASE SetKeyed
  <2>1. UNCHANGED program
    BY <1>17 DEF SetKeyed
  <2>2. Next1 \/ \E h : ErrorIn(h)
    BY <1>17 DEF SetKeyed
  <2> QED
    BY <2>1, <2>2, ErrorData DEF DataStep, Next1, Continue
<1>18. CASE SetNamed
  <2>1. UNCHANGED program
    BY <1>18 DEF SetNamed
  <2>2. Instruction.op \in Puts
    BY <1>18 DEF SetNamed, Runs, Puts
  <2>3. \E did : Gives(Instruction.target, did)
    BY <1>18 DEF SetNamed
  <2> QED
    BY <2>1, <2>2, <2>3, GivesData DEF DataStep
<1>19. CASE InstanceGet
  <2>1. UNCHANGED program
    BY <1>19 DEF InstanceGet
  <2>2. Instruction.op \in Puts
    BY <1>19 DEF InstanceGet, Runs, Puts
  <2>3. \/ Error
        \/ \E name, arguments, with_instance : Calls(name, arguments, with_instance)
        \/ \E v : Sets(Instruction.target, v)
    BY <1>19 DEF InstanceGet
  <2> QED
    BY <2>1, <2>2, <2>3, CallsData, SetsData, ErrorData DEF DataStep, Error
<1>20. CASE InstanceSet
  <2>1. UNCHANGED program
    BY <1>20 DEF InstanceSet
  <2>2. PICK did, info :
           /\ info = InfoOf(Instruction.name)
           /\ did.ok => IsMember(Instruction.name) \/ IsStatic(Instruction.name)
           /\ \/ ~did.ok /\ Error
              \/ did.ok /\ info.setter # "" /\ Calls(info.setter, <<did.v>>, TRUE)
              \/ /\ did.ok /\ info.setter = ""
                 /\ IF IsMember(Instruction.name) THEN SetsMember(info.index, did.v)
                    ELSE SetsStatic(info.index, did.v)
    BY <1>20 DEF InstanceSet, Invalid
  <2>3. CASE did.ok /\ info.setter = ""
    BY <2>1, <2>2, <2>3
    DEF DataStep, SetsPlain, Changed, SetsMember, SetsStatic, InfoOf, IsMember, IsStatic
  <2>4. CASE ~(did.ok /\ info.setter = "")
    BY <2>1, <2>2, <2>4, CallsData, ErrorData DEF DataStep, Error
  <2> QED
    BY <2>3, <2>4
<1>21. CASE GetStatic
  <2>1. UNCHANGED program
    BY <1>21 DEF GetStatic
  <2>2. Instruction.op \in Puts
    BY <1>21 DEF GetStatic, Runs, Puts
  <2>3. \E v : Sets(Instruction.target, v)
    BY <1>21 DEF GetStatic
  <2> QED
    BY <2>1, <2>2, <2>3, SetsData DEF DataStep
<1>22. CASE SetStatic
  <2>1. UNCHANGED program
    BY <1>22 DEF SetStatic
  <2>2. PutsStatic
    BY <1>22 DEF SetStatic, Runs, PutsStatic, SetsStatic, Changed
  <2> QED
    BY <2>1, <2>2 DEF DataStep
<1>23. CASE Assign
  <2>1. UNCHANGED program
    BY <1>23 DEF Assign
  <2>2. Instruction.op \in Puts
    BY <1>23 DEF Assign, Runs, Puts
  <2>3. \E v : Sets(Instruction.target, v)
    BY <1>23 DEF Assign
  <2> QED
    BY <2>1, <2>2, <2>3, SetsData DEF DataStep
<1>24. CASE AssignTyped
  <2>1. UNCHANGED program
    BY <1>24 DEF AssignTyped
  <2>2. Instruction.op \in Puts
    BY <1>24 DEF AssignTyped, Runs, Puts
  <2>3. \E did : Gives(Instruction.target, did)
    BY <1>24 DEF AssignTyped
  <2> QED
    BY <2>1, <2>2, <2>3, GivesData DEF DataStep
<1>25. CASE Construct
  <2>1. UNCHANGED program
    BY <1>25 DEF Construct
  <2>2. Instruction.op \in Puts
    BY <1>25 DEF Construct, Runs, Puts
  <2>3. \E did : Gives(Instruction.target, did)
    BY <1>25 DEF Construct
  <2> QED
    BY <2>1, <2>2, <2>3, GivesData DEF DataStep
<1>26. CASE JumpTo
  <2>1. UNCHANGED program
    BY <1>26 DEF JumpTo
  <2>2. \E frame : Continue(frame)
    BY <1>26 DEF JumpTo, GoTo, Next1
  <2> QED
    BY <2>1, <2>2 DEF DataStep, Continue
<1>27. CASE JumpToDefault
  <2>1. UNCHANGED program
    BY <1>27 DEF JumpToDefault
  <2>2. \E frame : Continue(frame)
    BY <1>27 DEF JumpToDefault, GoTo
  <2> QED
    BY <2>1, <2>2 DEF DataStep, Continue
<1>28. CASE BeginRange
  <2>1. UNCHANGED program
    BY <1>28 DEF BeginRange
  <2>2. \E state, v : Turn(state, v) \/ LeaveLoop(state)
    BY <1>28 DEF BeginRange
  <2> QED
    BY <2>1, <2>2, LoopData DEF DataStep
<1>29. CASE IterateRange
  <2>1. UNCHANGED program
    BY <1>29 DEF IterateRange
  <2>2. \E state, v : Turn(state, v) \/ LeaveLoop(state)
    BY <1>29 DEF IterateRange
  <2> QED
    BY <2>1, <2>2, LoopData DEF DataStep
<1>30. CASE Iterate
  <2>1. UNCHANGED program
    BY <1>30 DEF Iterate
  <2>2. Error \/ \E state, v : Turn(state, v) \/ LeaveLoop(state)
    BY <1>30 DEF Iterate
  <2> QED
    BY <2>1, <2>2, LoopData, ErrorData DEF DataStep, Error
<1>31. CASE BeginCount
  <2>1. UNCHANGED program
    BY <1>31 DEF BeginCount, RunsOn
  <2>2. \E goes, state, v : TurnIf(goes, state, v)
    BY <1>31 DEF BeginCount, RunsOn
  <2> QED
    BY <2>1, <2>2, TurnIfData DEF DataStep
<1>32. CASE GoOnCounting
  <2>1. UNCHANGED program
    BY <1>32 DEF GoOnCounting, RunsOn
  <2>2. \E goes, state, v : TurnIf(goes, state, v)
    BY <1>32 DEF GoOnCounting, RunsOn
  <2> QED
    BY <2>1, <2>2, TurnIfData DEF DataStep
<1>33. CASE BeginElements
  <2>1. UNCHANGED program
    BY <1>33 DEF BeginElements, RunsOn
  <2>2. \E goes, state, v : TurnIf(goes, state, v)
    BY <1>33 DEF BeginElements, RunsOn
  <2> QED
    BY <2>1, <2>2, TurnIfData DEF DataStep
<1>34. CASE NextElement
  <2>1. UNCHANGED program
    BY <1>34 DEF NextElement, RunsOn
  <2>2. \E goes, state, v : TurnIf(goes, state, v)
    BY <1>34 DEF NextElement, RunsOn
  <2> QED
    BY <2>1, <2>2, TurnIfData DEF DataStep
<1>35. CASE AssertTrue
  <2>1. UNCHANGED program
    BY <1>35 DEF AssertTrue
  <2>2. Next1 \/ Error
    BY <1>35 DEF AssertTrue
  <2> QED
    BY <2>1, <2>2, ErrorData DEF DataStep, Next1, Continue, Error
<1>36. CASE Line
  <2>1. UNCHANGED program
    BY <1>36 DEF Line
  <2>2. Next1
    BY <1>36 DEF Line
  <2> QED
    BY <2>1, <2>2, ErrorData DEF DataStep, Next1, Continue
<1>37. CASE RefuseLambda
  BY <1>37, EndsData DEF RefuseLambda, DataStep
<1> QED
  BY <1>1, <1>2, <1>3, <1>4, <1>5, <1>6, <1>7, <1>8, <1>9, <1>10, <1>11, <1>12,
     <1>13, <1>14, <1>15, <1>16, <1>17, <1>18, <1>19, <1>20, <1>21, <1>22, <1>23, <1>24,
     <1>25, <1>26, <1>27, <1>28, <1>29, <1>30, <1>31, <1>32, <1>33, <1>34, <1>35, <1>36, <1>37
  DEF Execute

-----------------------------------------------------------------------------
(***************************************************************************)
(* The invariant.                                                          *)
(***************************************************************************)
LEMMA Initially ==
  ASSUME NEW alone, Init
  PROVE  IInv(alone)
BY DEF Init, IInv

LEMMA NoFrames ==
  ASSUME NEW alone, NEW p
  PROVE  StackRight(alone, p, <<>>)
BY DepthAssumption DEF StackRight

LEMMA FirstFrame ==
  ASSUME NEW alone, NEW p, NEW e, FrameRight(alone, p, e)
  PROVE  StackRight(alone, p, <<e>>)
<1> DEFINE s == <<e>>
<1>1. s \in Seq({e}) /\ Len(s) = 1 /\ s[1] = e
  OBVIOUS
<1> HIDE DEF s
<1>2. s \in Seq({s[n] : n \in DOMAIN s})
  BY <1>1, OfItsOwn
<1>3. \A n \in 1..Len(s) : FrameRight(alone, p, s[n])
  BY <1>1
<1>4. \A n \in 1..Len(s) - 1 : Follows(p, s[n])
  BY <1>1
<1>5. Len(s) <= MAX_CALL_DEPTH
  BY <1>1, DepthAssumption
<1> QED
  BY <1>2, <1>3, <1>4, <1>5 DEF StackRight, s

LEMMA SoundFunctions ==
  ASSUME CodeSound, stage \in {"compiled", "running"}
  PROVE  /\ FunctionsSound(program)
         /\ \A name \in DOMAIN program.functions : InstanceLeftOut(name)
BY DEF CodeSound, FunctionsSound

LEMMA SoundStays ==
  ASSUME CodeSound, stage \in {"compiled", "running"}, UNCHANGED program
  PROVE  CodeSound'
BY DEF CodeSound, WritesGuarded, InstanceLeftOut, RunsAlone

LEMMA HeapStays ==
  ASSUME UNCHANGED program, NEW h, HeapRight(h), heap' = h
  PROVE  HeapRight(heap)'
BY DEF HeapRight, RunsAlone

(* The heap of a script with a default for each of its static variables.   *)
LEMMA DefaultsRight ==
  ASSUME NEW indices, PlacesOwn(indices)
  PROVE  LET defaults == _static_default_init(indices, <<>>)
         IN  HeapRight(defaults.heap) /\ PlacesThere(defaults.values, indices)
<1>1. PICK count : count = Cardinality(DOMAIN indices) /\ count \in Nat
  BY FS_CardinalityType DEF PlacesOwn
<1>2. PICK defaults : defaults = _static_default_init(indices, <<>>)
  OBVIOUS
<1>3. PICK v, s : /\ defaults = [values |-> v, heap |-> <<>> \o s]
                  /\ v = [index \in 1..Cardinality(DOMAIN indices) |-> v[index]]
                  /\ s = [index \in 1..Cardinality(DOMAIN indices) |-> s[index]]
                  /\ \A index \in 1..Cardinality(DOMAIN indices) : "function" \notin DOMAIN s[index]
  <2> DEFINE TypeAt(index) == indices[CHOOSE name \in DOMAIN indices : indices[name].index = index].type
             ContentsAt(index) == IF TypeAt(index) = "dictionary" THEN [pairs |-> <<>>] ELSE [elements |-> <<>>]
             contents == [index \in 1..Cardinality(DOMAIN indices) |-> ContentsAt(index)]
             values == defaults.values
  <2>1. defaults = [values |-> values, heap |-> <<>> \o contents]
    BY <1>2, Zenon DEF _static_default_init
  <2>2. values = [index \in 1..Cardinality(DOMAIN indices) |-> values[index]]
    BY <1>2 DEF _static_default_init
  <2>3. \A index : "function" \notin DOMAIN ContentsAt(index)
    OBVIOUS
  <2> HIDE DEF ContentsAt
  <2>4. contents = [index \in 1..Cardinality(DOMAIN indices) |-> contents[index]]
    OBVIOUS
  <2>5. \A index \in 1..Cardinality(DOMAIN indices) : "function" \notin DOMAIN contents[index]
    BY <2>3
  <2> HIDE DEF contents, values
  <2> QED
    BY <2>1, <2>2, <2>4, <2>5
<1>4. s \in Seq({s[n] : n \in DOMAIN s}) /\ DOMAIN s = 1..count
  <2>1. s = [index \in 1..count |-> s[index]]
    BY <1>1, <1>3
  <2>2. PICK S : S = {s[n] : n \in 1..count}
    OBVIOUS
  <2>3. s \in [1..count -> S]
    BY <2>1, <2>2
  <2>4. s \in Seq(S)
    BY <1>1, <2>3
  <2> QED
    BY <2>3, <2>4, OfItsOwn
<1>5. defaults.heap = s /\ defaults.values = v
  BY <1>3, <1>4
<1>6. HeapRight(s)
  BY <1>1, <1>3, <1>4 DEF HeapRight
<1>7. PlacesThere(v, indices)
  BY <1>3, Zenon DEF PlacesThere
<1> QED
  BY <1>2, <1>5, <1>6, <1>7

(* A place put to another value is still there, and so are the others.     *)
LEMMA ChangedThere ==
  ASSUME NEW places, NEW indices, PlacesThere(places, indices),
         NEW new, NEW index, Changed(places, new, index)
  PROVE  /\ PlacesThere(new, indices)
         /\ \A other : other \in 1..Cardinality(DOMAIN indices) /\ other # index => new[other] = places[other]
<1>1. PICK count : count = Cardinality(DOMAIN indices)
  OBVIOUS
<1>2. PICK v : new = [places EXCEPT ![index] = v]
  BY DEF Changed
<1>3. places = [at \in 1..count |-> places[at]]
  BY <1>1 DEF PlacesThere
<1>4. /\ new = [at \in 1..count |-> new[at]]
      /\ \A other : other \in 1..count /\ other # index => new[other] = places[other]
  BY <1>2, <1>3
<1> QED
  BY <1>1, <1>4 DEF PlacesThere

LEMMA DataThere ==
  ASSUME DataStep, UNCHANGED program,
         PlacesThere(members, program.member_indices),
         PlacesThere(static_variables, program.static_variables_indices)
  PROVE  /\ PlacesThere(members', program'.member_indices)
         /\ PlacesThere(static_variables', program'.static_variables_indices)
<1>1. CASE UNCHANGED data
  BY <1>1 DEF data
<1>2. CASE PutsMember
  BY <1>2, ChangedThere DEF PutsMember
<1>3. CASE PutsStatic
  BY <1>3, ChangedThere DEF PutsStatic
<1>4. CASE SetsPlain
  <2>1. CASE \E index : Changed(members, members', index) /\ UNCHANGED static_variables
    BY <2>1, ChangedThere
  <2>2. CASE \E index : Changed(static_variables, static_variables', index) /\ UNCHANGED members
    BY <2>2, ChangedThere
  <2> QED
    BY <1>4, <2>1, <2>2 DEF SetsPlain
<1> QED
  BY <1>1, <1>2, <1>3, <1>4 DEF DataStep

(* Nothing is executed without a frame.                                    *)
LEMMA ExecuteRuns ==
  ASSUME Execute
  PROVE  frames # <<>>
BY DEF Execute, Runs, RunsOn, CallsLambda,
     CallSelf, CallLambda, RefuseLambda, CreateLambda, CallMethod, CallMethodValidated, CallUtility, CallRuztaUtility, ReturnValue, ReturnTyped,
     End, Operate, OperateValidated, AdjustType, TestType, GetKeyed, GetNamed, SetKeyed, SetNamed,
     InstanceGet, InstanceSet, GetStatic, SetStatic, Assign, AssignTyped, Construct, JumpTo, JumpToDefault,
     BeginRange, IterateRange, Iterate, BeginCount, GoOnCounting, BeginElements, NextElement, AssertTrue, Line

LEMMA LoadKeeps ==
  ASSUME NEW alone, IInv(alone), SoundWhenCompiled, Load
  PROVE  IInv(alone)'
<1>1. /\ stage = "compiled" /\ stage' = "running" /\ frames = <<>>
      /\ program' = program /\ frames' = frames
  BY DEF Load, IInv
<1>2. CodeSound /\ CodeSound'
  BY <1>1, SoundStays DEF SoundWhenCompiled
<1>3. StackRight(alone, program', frames')
  BY <1>1, NoFrames
<1>4. PlacesThere(members', program'.member_indices)
  <2>1. members' = [index \in 1..Cardinality(DOMAIN program.member_indices) |-> Nil]
    BY DEF Load
  <2> QED
    BY <1>1, <2>1 DEF PlacesThere
<1>5. /\ PlacesThere(static_variables', program'.static_variables_indices)
      /\ HeapRight(heap)'
  <2>1. PICK indices, defaults :
          /\ indices = program.static_variables_indices
          /\ defaults = _static_default_init(indices, <<>>)
          /\ static_variables' = defaults.values /\ heap' = defaults.heap
    BY <1>1 DEF Load, IInv
  <2>2. PlacesOwn(indices)
    BY <1>1, <1>2, <2>1 DEF CodeSound
  <2>3. HeapRight(defaults.heap) /\ PlacesThere(defaults.values, indices)
    BY <2>1, <2>2, DefaultsRight
  <2> QED
    BY <1>1, <2>1, <2>3, HeapStays
<1> QED
  BY <1>1, <1>2, <1>3, <1>4, <1>5 DEF IInv

LEMMA BeginKeeps ==
  ASSUME NEW alone, IInv(alone), Begin
  PROVE  IInv(alone)'
<1>1. /\ stage = "running" /\ stage' = "running" /\ frames = <<>> /\ program' = program
      /\ heap' = heap /\ members' = members /\ static_variables' = static_variables
  BY DEF Begin, data
<1>2. CodeSound /\ StackRight(alone, program, frames) /\ HeapRight(heap)
  BY <1>1 DEF IInv
<1>3. CodeSound' /\ HeapRight(heap)'
  BY <1>1, <1>2, SoundStays, HeapStays
<1>4. StackRight(alone, program, frames')
  <2>1. CASE frames' = frames
    BY <1>2, <2>1
  <2>2. CASE frames' # frames
    <3>1. PICK name, with_instance :
            /\ name \in DOMAIN program.functions /\ Accepts(name, <<>>)
            /\ with_instance = (name # "@static_initializer")
            /\ frames' = <<FrameOf(program.functions, name, <<>>, with_instance)>>
      BY <2>2 DEF Begin
    <3>2. with_instance \/ RunsAlone(name)
      BY <1>1, <1>2, <3>1, SoundFunctions DEF InstanceLeftOut
    <3>3. FrameRight(alone, program, FrameOf(program.functions, name, <<>>, with_instance))
      BY <1>1, <1>2, <3>1, <3>2, SoundFunctions, NewFrameRight
    <3> QED
      BY <3>1, <3>3, FirstFrame
  <2> QED
    BY <2>1, <2>2
<1> QED
  BY <1>1, <1>3, <1>4 DEF IInv

LEMMA StepKeeps ==
  ASSUME NEW alone, IInv(alone), Step, frames # <<>>, alone => TypedOperands
  PROVE  IInv(alone)'
<1>1. stage = "running" /\ stage' = "running" /\ Execute
  BY DEF Step
<1>2. /\ CodeSound /\ StackRight(alone, program, frames) /\ HeapRight(heap)
      /\ PlacesThere(members, program.member_indices)
      /\ PlacesThere(static_variables, program.static_variables_indices)
  BY <1>1 DEF IInv
<1>3. UNCHANGED program /\ DataStep
  BY <1>1, ExecuteData
<1>4. CodeSound'
  BY <1>1, <1>2, <1>3, SoundStays
<1>5. Here(alone)
  BY <1>1, <1>2, SoundFunctions DEF Here
<1>6. StackRight(alone, program', frames')
  BY <1>1, <1>2, <1>3, <1>5, ExecuteKeeps
<1>7. HeapRight(heap)'
  <2>1. HeapRight(heap')
    BY <1>1, <1>2, <1>5, ExecuteHeap
  <2> QED
    BY <1>3, <2>1, HeapStays
<1>8. /\ PlacesThere(members', program'.member_indices)
      /\ PlacesThere(static_variables', program'.static_variables_indices)
  BY <1>2, <1>3, DataThere
<1> QED
  BY <1>1, <1>4, <1>6, <1>7, <1>8 DEF IInv

LEMMA NextKeeps ==
  ASSUME NEW alone, IInv(alone), SoundWhenCompiled, alone => TypedOperands, [Next]_vars
  PROVE  IInv(alone)'
<1>1. CASE IsWritten \/ IsParsed \/ IsExported \/ IsAnalyzed
  BY <1>1 DEF IsWritten, IsParsed, IsExported, IsAnalyzed, IInv, machine
<1>2. CASE IsCompiled
  BY <1>2 DEF IsCompiled, IInv
<1>3. CASE Refuse
  BY <1>3 DEF Refuse, IInv, machine
<1>4. CASE Load
  BY <1>4, LoadKeeps
<1>5. CASE Begin
  BY <1>5, BeginKeeps
<1>6. CASE Step
  <2>1. frames # <<>>
    BY <1>6, ExecuteRuns DEF Step
  <2> QED
    BY <1>6, <2>1, StepKeeps
<1>7. CASE Finish
  BY <1>7 DEF Finish, IInv, machine
<1>8. CASE UNCHANGED vars
  <2>1. /\ UNCHANGED <<stage, program, frames, heap, members, static_variables>>
    BY <1>8 DEF vars, machine, data
  <2>2. stage = "running" => CodeSound' /\ HeapRight(heap)'
    BY <2>1, SoundStays, HeapStays DEF IInv
  <2> QED
    BY <2>1, <2>2 DEF IInv
<1> QED
  BY <1>1, <1>2, <1>3, <1>4, <1>5, <1>6, <1>7, <1>8 DEF Next, Done

-----------------------------------------------------------------------------
LEMMA InvariantGivesFrames ==
  ASSUME NEW alone, IInv(alone)
  PROVE  FramesOK
<1>1. CASE frames = <<>>
  BY <1>1, DepthAssumption DEF FramesOK
<1>2. CASE frames # <<>>
  <2>1. StackRight(alone, program, frames) /\ FunctionsSound(program)
    BY <1>2, SoundFunctions DEF IInv
  <2>2. Len(frames) <= MAX_CALL_DEPTH /\ DOMAIN frames = 1..Len(frames)
    BY <2>1 DEF StackRight
  <2>3. ASSUME NEW n \in DOMAIN frames PROVE FrameOK(frames[n])
    <3>1. PICK frame : frame = frames[n] /\ FrameRight(alone, program, frame)
      BY <2>1, <2>2 DEF StackRight
    <3>2. PICK f, i : /\ f = program.functions[frame.function] /\ i = f.code[frame.ip]
                      /\ frame.ip \in DOMAIN f.code /\ SlotsThere(f)
                      /\ frame.stack = [k \in 1..f.stack_size |-> frame.stack[k]]
      BY <2>1, <3>1 DEF FrameRight, FunctionsSound
    <3>3. f.stack_size \in Nat
      BY <3>2 DEF SlotsThere
    <3>4. Len(frame.stack) = f.stack_size /\ DOMAIN frame.stack = 1..f.stack_size
      <4>1. PICK k, s : k \in Nat /\ k = f.stack_size /\ s = frame.stack /\ s = [m \in 1..k |-> s[m]]
        BY <3>2, <3>3
      <4>2. s \in Seq({s[m] : m \in 1..k}) /\ DOMAIN s = 1..k
        BY <4>1
      <4> QED
        BY <4>1, <4>2
    <3>5. \A a \in SlotsOf(i) : IsSlot(a) => SlotIn(f, a) \in DOMAIN frame.stack
      BY <3>2, <3>4 DEF SlotsThere
    <3> QED
      BY <3>1, <3>2, <3>4, <3>5 DEF FrameOK
  <2> QED
    BY <2>2, <2>3 DEF FramesOK
<1> QED
  BY <1>1, <1>2

(* On code that was sound when it was compiled every frame of the machine  *)
(* is at an instruction of its function and has the slots the instruction  *)
(* names, and calls are no deeper than MAX_CALL_DEPTH: no jump, default    *)
(* argument, turn of a loop, call, return or error of RuztaFunction::call  *)
(* leaves the code or the stack of its function.                           *)
THEOREM FramesRight == Spec /\ []SoundWhenCompiled => []FramesOK
<1>1. Init => IInv(FALSE)
  BY Initially
<1>2. IInv(FALSE) /\ SoundWhenCompiled /\ [Next]_vars => IInv(FALSE)'
  BY NextKeeps
<1>3. IInv(FALSE) => FramesOK
  BY InvariantGivesFrames
<1> QED
  BY <1>1, <1>2, <1>3, PTL DEF Spec

LEMMA InvariantGivesInstance ==
  ASSUME IInv(TRUE)
  PROVE  InstanceThere
<1> SUFFICES ASSUME stage = "running", frames # <<>>, ~Last(frames).with_instance
             PROVE  /\ Instruction.op # "CREATE_SELF_LAMBDA"
                    /\ \A a \in SlotsOf(Instruction) : a.mode \notin {"self", "member"}
  BY DEF InstanceThere
<1>1. FrameRight(TRUE, program, Last(frames))
  BY StackOf DEF IInv
<1>2. AsksForNone(Running) /\ Last(frames).ip \in DOMAIN Running.code
  BY <1>1 DEF FrameRight, Running
<1> QED
  BY <1>2 DEF AsksForNone, Instruction

(* On code that was sound when it was compiled, and as long as operands    *)
(* refer to what values of their types refer to, nothing is asked of an    *)
(* instance where there is none: neither a static function and what it     *)
(* calls, nor the static initializer, nor a lambda that was made without   *)
(* the instance, wherever it was kept and however it was called.           *)
THEOREM InstanceKept == Spec /\ []SoundWhenCompiled /\ []TypedOperands => []InstanceThere
<1>1. Init => IInv(TRUE)
  BY Initially
<1>2. IInv(TRUE) /\ SoundWhenCompiled /\ TypedOperands /\ [Next]_vars => IInv(TRUE)'
  BY NextKeeps
<1>3. IInv(TRUE) => InstanceThere
  BY InvariantGivesInstance
<1> QED
  BY <1>1, <1>2, <1>3, PTL DEF Spec

-----------------------------------------------------------------------------
(***************************************************************************)
(* Setters.                                                                *)
(***************************************************************************)
Plain(indices, index) == \E name \in DOMAIN indices : indices[name].index = index /\ indices[name].setter = ""

(* One place changes, and who changes it may.                              *)
LEMMA OnePlaceGuarded ==
  ASSUME NEW indices, PlacesOwn(indices), NEW places, PlacesThere(places, indices),
         NEW new, NEW index, Changed(places, new, index), NEW initializer,
         MayWrite(indices, index, Last(frames).function, initializer) \/ Plain(indices, index)
  PROVE  Guarded(indices, places, new, initializer)
<1>0. \A other : other \in 1..Cardinality(DOMAIN indices) /\ other # index => new[other] = places[other]
  BY ChangedThere
<1> SUFFICES ASSUME NEW name \in DOMAIN indices, indices[name].setter # "",
                    places[indices[name].index] # new[indices[name].index]
             PROVE  Last(frames).function \in {indices[name].setter, initializer}
  BY DEF Guarded
<1>1. indices[name].index \in 1..Cardinality(DOMAIN indices)
  BY DEF PlacesOwn
<1>2. indices[name].index = index
  BY <1>0, <1>1
<1>3. CASE MayWrite(indices, index, Last(frames).function, initializer)
  BY <1>2, <1>3 DEF MayWrite
<1>4. CASE Plain(indices, index)
  BY <1>2, <1>4 DEF PlacesOwn, Plain
<1> QED
  BY <1>3, <1>4

LEMMA UnchangedGuarded ==
  ASSUME NEW indices, NEW places, NEW initializer
  PROVE  Guarded(indices, places, places, initializer)
BY DEF Guarded

LEMMA StepGuarded ==
  ASSUME NEW alone, IInv(alone), Step
  PROVE  /\ Guarded(program.member_indices, members, members', "@implicit_new")
         /\ Guarded(program.static_variables_indices, static_variables, static_variables', "@static_initializer")
<1>1. stage = "running" /\ Execute /\ frames # <<>>
  BY ExecuteRuns DEF Step
<1>2. /\ CodeSound /\ Here(alone)
      /\ PlacesThere(members, program.member_indices)
      /\ PlacesThere(static_variables, program.static_variables_indices)
  BY <1>1, SoundFunctions DEF IInv, Here
<1>3. PlacesOwn(program.member_indices) /\ PlacesOwn(program.static_variables_indices)
  BY <1>1, <1>2 DEF CodeSound
<1>4. PICK function : function = Last(frames).function
  OBVIOUS
<1>5. PICK code : /\ code = program.functions[function].code
                  /\ Last(frames).ip \in DOMAIN code /\ Instruction = code[Last(frames).ip]
  BY <1>2, <1>4, WhereItIs, OnTop DEF CodeOf
<1>6. /\ Instruction.op \in Puts /\ Instruction.target.mode = "member" =>
            MayWrite(program.member_indices, Instruction.target.address, function, "@implicit_new")
      /\ Instruction.op = "SET_STATIC_VARIABLE" =>
            MayWrite(program.static_variables_indices, Instruction.at, function, "@static_initializer")
  <2>1. WritesGuarded(function)
    BY <1>1, <1>2, <1>4, WhereItIs DEF CodeSound
  <2> QED
    BY <1>5, <2>1 DEF WritesGuarded
<1>7. DataStep
  BY <1>1, ExecuteData
<1>8. CASE UNCHANGED data
  BY <1>8, UnchangedGuarded DEF data
<1>9. CASE PutsMember
  BY <1>2, <1>3, <1>4, <1>6, <1>9, OnePlaceGuarded, UnchangedGuarded DEF PutsMember
<1>10. CASE PutsStatic
  BY <1>2, <1>3, <1>4, <1>6, <1>10, OnePlaceGuarded, UnchangedGuarded DEF PutsStatic
<1>11. CASE SetsPlain
  <2>1. CASE \E name \in DOMAIN program.member_indices :
               /\ program.member_indices[name].setter = ""
               /\ Changed(members, members', program.member_indices[name].index)
               /\ UNCHANGED static_variables
    BY <1>2, <1>3, <2>1, OnePlaceGuarded, UnchangedGuarded DEF Plain
  <2>2. CASE \E name \in DOMAIN program.static_variables_indices :
               /\ program.static_variables_indices[name].setter = ""
               /\ Changed(static_variables, static_variables', program.static_variables_indices[name].index)
               /\ UNCHANGED members
    BY <1>2, <1>3, <2>2, OnePlaceGuarded, UnchangedGuarded DEF Plain
  <2> QED
    BY <1>11, <2>1, <2>2 DEF SetsPlain
<1> QED
  BY <1>7, <1>8, <1>9, <1>10, <1>11 DEF DataStep

(* On code that was sound when it was compiled, and once it has its first  *)
(* value, a variable with a setter changes while its setter or the         *)
(* initializer runs, and by no other function, whatever is assigned to,    *)
(* by name, through self or in part (RuztaInstance::set, and the code      *)
(* RuztaCompiler makes of assignments).                                    *)
THEOREM SettersKept == Spec /\ []SoundWhenCompiled => SettersGuard
<1> DEFINE Kept ==
      stage = "running" =>
        /\ Guarded(program.member_indices, members, members', "@implicit_new")
        /\ Guarded(program.static_variables_indices, static_variables, static_variables', "@static_initializer")
<1>1. Init => IInv(FALSE)
  BY Initially
<1>2. IInv(FALSE) /\ SoundWhenCompiled /\ [Next]_vars => IInv(FALSE)'
  BY NextKeeps
<1>3. ASSUME IInv(FALSE), [Next]_vars PROVE [Kept]_vars
  <2>1. CASE Step
    BY <1>3, <2>1, StepGuarded
  <2>2. CASE Begin \/ Finish
    BY <2>2, UnchangedGuarded DEF Begin, Finish, machine, data
  <2>3. CASE stage # "running"
    BY <2>3
  <2>4. CASE UNCHANGED vars
    BY <2>4
  <2> QED
    BY <1>3, <2>1, <2>2, <2>3, <2>4
    DEF Next, IsWritten, IsParsed, IsExported, IsAnalyzed, IsCompiled, Refuse, Load, Done
<1>4. [][Kept]_vars => SettersGuard
  BY DEF SettersGuard
<1> QED
  BY <1>1, <1>2, <1>3, <1>4, PTL DEF Spec
=============================================================================
