---------------------- MODULE RuztaFunctionStateProofs ----------------------
(***************************************************************************)
(* Proofs about RuztaFunctionState, for any number of states, signals and  *)
(* instances and any depth: a call runs on a stack that is there, each     *)
(* coroutine goes on at one place, who waits will be woken, and the call   *)
(* stack of the debugger.                                                  *)
(***************************************************************************)
EXTENDS RuztaFunctionState, FiniteSetTheorems, SequenceTheorems, TLAPS

Sources == States \cup Signals

(***************************************************************************)
(* The inductive invariant, on function states f, connections C, instances *)
(* I and frames fr, so that it can be stated before and after a step ends. *)
(***************************************************************************)
Typed(f, C, I, fr) ==
  /\ f \in [States -> StateRecord]
  /\ C \subseteq Sources \X States
  /\ I \subseteq Instances
  /\ fr \in Seq(FrameRecord)

Absent(f) == \A s \in States : ~ f[s].exists => f[s] = Free

(* What a frame may hold: a call that runs on a state's stack has that     *)
(* state to itself, and an emission or nothing below it.                   *)
Shaped(fr) ==
  \A i \in 1..Len(fr) :
    /\ fr[i].kind = "emit" => /\ fr[i].state = Nil /\ fr[i].instance = Nil
                              /\ fr[i].got = Nil /\ fr[i].pc = "run"
    /\ fr[i].kind = "call" => fr[i].todo = {}
    /\ fr[i].got # Nil => i = 1
    /\ fr[i].pc = "emit" => fr[i].state # Nil
    /\ fr[i].state # Nil /\ i < Len(fr) => fr[i + 1].kind = "emit"

OwnState(fr) ==
  \A i, j \in 1..Len(fr) :
    fr[i].state # Nil /\ fr[i].state = fr[j].state => i = j

Held(f, fr) ==
  \A i \in 1..Len(fr) : fr[i].state # Nil =>
    LET s == fr[i].state
    IN /\ f[s].exists /\ f[s].function /\ ~ f[s].in_script
       /\ f[s].stack = "held" /\ f[s].instance = fr[i].instance

(* Every state of a coroutine keeps the first one, which is there.         *)
KeepsFirst(f) ==
  \A s \in States : f[s].exists =>
    /\ f[s].completed = IF f[s].first_state = Nil THEN s ELSE f[s].first_state
    /\ f[f[s].completed].exists
    /\ f[f[s].completed].instance = f[s].instance

OnePlace(f) ==
  \A s, t \in States :
    f[s].function /\ f[t].function /\ f[s].completed = f[t].completed => s = t

CanRun(f, s) ==
  f[s].function /\ f[s].in_script /\ (f[s].instance # Nil => f[s].in_instance)

Ready(f) == \A s \in States : CanRun(f, s) => f[s].stack = "held"

Connected(f, C) ==
  \A x \in Sources, s \in States : <<x, s>> \in C =>
    f[s].exists /\ (x \in States => f[x].exists /\ f[s].awaits = x)

(* Nobody connects to a signal that is being emitted for the last time.    *)
Emitted(f, C, fr) ==
  \A i \in 1..Len(fr), w \in States :
    fr[i].pc = "emit" => <<f[fr[i].state].completed, w>> \notin C

(* The state a caller was given is the first of a coroutine that waits.    *)
Given(f, C, I, fr) ==
  \A i \in 1..Len(fr) : fr[i].got # Nil =>
    LET g == fr[i].got
    IN /\ f[g].function /\ f[g].in_script /\ f[g].completed = g
       /\ f[g].instance \in I \cup {Nil} => CanRun(f, g)
       /\ CanRun(f, g) => \E x \in Sources : <<x, g>> \in C

WillRun(f, C, fr, s) ==
  /\ CanRun(f, s)
  /\ \/ \E x \in Sources : <<x, s>> \in C
     \/ \E i \in 1..Len(fr) : s \in fr[i].todo

GoesOn(f, C, fr, c) ==
  \E s \in States :
    /\ f[s].function /\ f[s].completed = c
    /\ WillRun(f, C, fr, s) \/ \E i \in 1..Len(fr) : fr[i].state = s

Woken(f, C, I, fr) ==
  \A c, w \in States :
    <<c, w>> \in C /\ CanRun(f, w) /\ f[c].instance \in I \cup {Nil}
      => GoesOn(f, C, fr, c)

Sound(f, C, I, fr) ==
  /\ Typed(f, C, I, fr)
  /\ Absent(f) /\ Shaped(fr) /\ OwnState(fr) /\ Held(f, fr)
  /\ KeepsFirst(f) /\ OnePlace(f) /\ Ready(f) /\ Connected(f, C)
  /\ Emitted(f, C, fr) /\ Given(f, C, I, fr) /\ Woken(f, C, I, fr)

(* The call stack holds heights of calls, and leaves room between them for *)
(* those it left out; if it left out none, all of them.                    *)
KindAt(fr, h) == fr[Len(fr) - h + 1].kind

Levels(cs, fr) ==
  /\ cs \in Seq(Nat)
  /\ \A i \in 1..Len(cs) : cs[i] \in 1..Len(fr) /\ KindAt(fr, cs[i]) = "call"
  /\ \A i, j \in 1..Len(cs) : i < j => cs[i] - cs[j] >= j - i

AllEntered(cs, fr) ==
  \A h \in 1..Len(fr) :
    KindAt(fr, h) = "call" => \E i \in 1..Len(cs) : cs[i] = h

IInv == Sound(fst, connections, instances, frames) /\ Levels(call_stack, frames)

-----------------------------------------------------------------------------
(***************************************************************************)
(* What reference counting keeps.  Kept is the union of the sets whose     *)
(* members are all kept from outside or by each other.                     *)
(***************************************************************************)
Roots(fr) == UNION {fr[i].todo \cup {fr[i].state, fr[i].got} : i \in 1..Len(fr)}

Supported(f, C, fr, S) ==
  \A s \in S :
    \/ s \in Roots(fr)
    \/ \E c \in C : c[2] = s /\ (c[1] \in Signals \/ c[1] \in S)
    \/ \E u \in S : f[u].first_state = s \/ (f[u].stack = "held" /\ f[u].awaits = s)

Existing(f) == {s \in States : f[s].exists}

(* A set that supports itself is kept, and so is what a kept set supports. *)
LEMMA KeptUnion ==
  ASSUME NEW f, NEW C, NEW fr
  PROVE  /\ Kept(f, C, fr) \subseteq Existing(f)
         /\ Supported(f, C, fr, Kept(f, C, fr))
         /\ \A S \in SUBSET Existing(f) :
              Supported(f, C, fr, S \cup Kept(f, C, fr)) => S \subseteq Kept(f, C, fr)
<1> DEFINE K == Kept(f, C, fr)
<1>1. K = UNION {S \in SUBSET Existing(f) : Supported(f, C, fr, S)}
  BY DEF Kept, Existing, Supported, Roots
<1> HIDE DEF K
<1>2. K \subseteq Existing(f)
  BY <1>1
<1>3. ASSUME NEW s \in K
      PROVE  \/ s \in Roots(fr)
             \/ \E c \in C : c[2] = s /\ (c[1] \in Signals \/ c[1] \in K)
             \/ \E u \in K : f[u].first_state = s \/ (f[u].stack = "held" /\ f[u].awaits = s)
  <2>1. PICK S \in SUBSET Existing(f) : Supported(f, C, fr, S) /\ s \in S
    BY <1>1, <1>3
  <2>2. S \subseteq K
    BY <1>1, <2>1
  <2>3. CASE s \in Roots(fr)
    BY <2>3
  <2>4. CASE \E c \in C : c[2] = s /\ (c[1] \in Signals \/ c[1] \in S)
    BY <2>4, <2>2
  <2>5. CASE \E u \in S : f[u].first_state = s \/ (f[u].stack = "held" /\ f[u].awaits = s)
    BY <2>5, <2>2
  <2> QED
    BY <2>1, <2>3, <2>4, <2>5 DEF Supported
<1>4. Supported(f, C, fr, K)
  BY <1>3 DEF Supported
<1>5. ASSUME NEW S \in SUBSET Existing(f), Supported(f, C, fr, S \cup K)
      PROVE  S \subseteq K
  BY <1>1, <1>2, <1>5
<1> QED
  BY <1>2, <1>4, <1>5 DEF K

(* What is on the stack, waits for a signal, is the first state of a kept  *)
(* one, or waits for a state on a stack that is there.                     *)
LEMMA KeptFacts ==
  ASSUME NEW f \in [States -> StateRecord], NEW C \in SUBSET (Sources \X States),
         NEW fr \in Seq(FrameRecord)
  PROVE  LET K == Kept(f, C, fr)
         IN /\ K \subseteq Existing(f)
            /\ Existing(f) \cap Roots(fr) \subseteq K
            /\ \A s \in Existing(f), x \in Signals : <<x, s>> \in C => s \in K
            /\ \A u \in K : f[u].first_state \in Existing(f) => f[u].first_state \in K
            /\ \A s, x \in Existing(f) :
                 /\ <<x, s>> \in C /\ f[s].stack = "held" /\ f[s].awaits = x
                 => s \in K /\ x \in K
<1> DEFINE K == Kept(f, C, fr)
<1>1. /\ K \subseteq Existing(f)
      /\ Supported(f, C, fr, K)
      /\ \A S \in SUBSET Existing(f) : Supported(f, C, fr, S \cup K) => S \subseteq K
  BY KeptUnion
<1> HIDE DEF K
<1>2. ASSUME NEW S \in SUBSET Existing(f),
             \A s \in S :
                \/ s \in Roots(fr)
                \/ \E c \in C : c[2] = s /\ (c[1] \in Signals \/ c[1] \in S)
                \/ \E u \in S \cup K : f[u].first_state = s
                                       \/ (f[u].stack = "held" /\ f[u].awaits = s)
      PROVE  S \subseteq K
  <2>1. Supported(f, C, fr, S \cup K)
    <3> SUFFICES ASSUME NEW s \in S \cup K
                 PROVE  \/ s \in Roots(fr)
                        \/ \E c \in C : c[2] = s /\ (c[1] \in Signals \/ c[1] \in S \cup K)
                        \/ \E u \in S \cup K : f[u].first_state = s
                             \/ (f[u].stack = "held" /\ f[u].awaits = s)
      BY DEF Supported
    <3>1. CASE s \in S
      BY <1>2, <3>1
    <3>2. CASE s \in K
      BY <1>1, <3>2 DEF Supported
    <3> QED
      BY <3>1, <3>2
  <2> QED
    BY <1>1, <2>1
<1>3. Existing(f) \cap Roots(fr) \subseteq K
  BY <1>2
<1>4. ASSUME NEW s \in Existing(f), NEW x \in Signals, <<x, s>> \in C
      PROVE  s \in K
  <2>1. {s} \subseteq K
    BY <1>2, <1>4
  <2> QED
    BY <2>1
<1>5. ASSUME NEW u \in K, f[u].first_state \in Existing(f)
      PROVE  f[u].first_state \in K
  <2>1. {f[u].first_state} \subseteq K
    BY <1>2, <1>5
  <2> QED
    BY <2>1
<1>6. ASSUME NEW s \in Existing(f), NEW x \in Existing(f),
             <<x, s>> \in C, f[s].stack = "held", f[s].awaits = x
      PROVE  s \in K /\ x \in K
  <2>1. {s, x} \subseteq K
    BY <1>2, <1>6
  <2> QED
    BY <2>1
<1> QED
  BY <1>1, <1>3, <1>4, <1>5, <1>6 DEF K

(***************************************************************************)
(* A step may end with the destructors: what Settle takes away nobody      *)
(* needed.                                                                 *)
(***************************************************************************)
LEMMA SoundSettled ==
  ASSUME NEW f, NEW C, NEW I, NEW fr, Sound(f, C, I, fr), Settle(f, C, fr)
  PROVE  Sound(fst', connections', I, frames')
<1> DEFINE K == Kept(f, C, fr)
           F == [s \in States |-> IF s \in K THEN f[s] ELSE Free]
           D == {c \in C : c[2] \in K /\ c[1] \in Signals \cup K}
<1>1. fst' = F /\ connections' = D /\ frames' = fr
  BY DEF Settle
<1>2. /\ f \in [States -> StateRecord] /\ C \in SUBSET (Sources \X States)
      /\ I \subseteq Instances /\ fr \in Seq(FrameRecord)
      /\ \A i \in 1..Len(fr) : /\ fr[i].state \in States \cup {Nil}
                                /\ fr[i].got \in States \cup {Nil}
                                /\ fr[i].todo \subseteq States
  <2>1. fr \in Seq(FrameRecord)
    BY DEF Sound, Typed
  <2>2. \A i \in 1..Len(fr) : fr[i] \in FrameRecord
    BY <2>1, ElementOfSeq
  <2> QED
    BY <2>1, <2>2 DEF Sound, Typed, FrameRecord
<1>3. /\ K \subseteq States
      /\ \A s \in K : f[s].exists
      /\ \A i \in 1..Len(fr) : fr[i].state \in States /\ f[fr[i].state].exists
                                 => fr[i].state \in K
      /\ \A i \in 1..Len(fr) : fr[i].got \in States /\ f[fr[i].got].exists
                                 => fr[i].got \in K
      /\ \A i \in 1..Len(fr), s \in States :
           s \in fr[i].todo /\ f[s].exists => s \in K
      /\ \A s \in States, x \in Signals : f[s].exists /\ <<x, s>> \in C => s \in K
      /\ \A u \in K : f[u].first_state \in States /\ f[f[u].first_state].exists
                        => f[u].first_state \in K
      /\ \A s, x \in States :
           /\ f[s].exists /\ f[x].exists
           /\ <<x, s>> \in C /\ f[s].stack = "held" /\ f[s].awaits = x
           => s \in K /\ x \in K
  <2>1. /\ K \subseteq Existing(f)
        /\ Existing(f) \cap Roots(fr) \subseteq K
        /\ \A s \in Existing(f), x \in Signals : <<x, s>> \in C => s \in K
        /\ \A u \in K : f[u].first_state \in Existing(f) => f[u].first_state \in K
        /\ \A s, x \in Existing(f) :
             /\ <<x, s>> \in C /\ f[s].stack = "held" /\ f[s].awaits = x
             => s \in K /\ x \in K
    BY <1>2, KeptFacts
  <2>2. \A s \in States : s \in Existing(f) <=> f[s].exists
    BY DEF Existing
  <2>3. \A i \in 1..Len(fr) : /\ fr[i].state \in Roots(fr) /\ fr[i].got \in Roots(fr)
                               /\ fr[i].todo \subseteq Roots(fr)
    BY DEF Roots
  <2>4. K \subseteq States
    BY <2>1 DEF Existing
  <2> HIDE DEF K
  <2> QED
    BY <2>1, <2>2, <2>3, <2>4
<1> HIDE DEF K
<1>4. /\ \A s \in States : F[s] = IF s \in K THEN f[s] ELSE Free
      /\ \A s \in K : F[s] = f[s]
      /\ \A s \in States \ K : F[s] = Free
      /\ Free \in StateRecord
  BY <1>3, StateAssumption DEF StateRecord, Free
<1>5. /\ \A x, s : <<x, s>> \in D <=> <<x, s>> \in C /\ s \in K /\ x \in Signals \cup K
      /\ D \subseteq C
  OBVIOUS
<1>6. Typed(F, D, I, fr)
  BY <1>2, <1>4, <1>5 DEF Typed
<1> HIDE DEF F, D
<1>7. Absent(F)
  BY <1>4, <1>3 DEF Absent
<1>8. Held(F, fr)
  <2> SUFFICES ASSUME NEW i \in 1..Len(fr), fr[i].state # Nil
               PROVE  LET s == fr[i].state
                      IN /\ F[s].exists /\ F[s].function /\ ~ F[s].in_script
                         /\ F[s].stack = "held" /\ F[s].instance = fr[i].instance
    BY DEF Held
  <2>1. fr[i].state \in States /\ f[fr[i].state].exists
    BY <1>2 DEF Sound, Held
  <2>2. F[fr[i].state] = f[fr[i].state]
    BY <2>1, <1>3, <1>4
  <2> QED
    BY <2>2 DEF Sound, Held
<1>9. KeepsFirst(F)
  <2> SUFFICES ASSUME NEW s \in States, F[s].exists
               PROVE  /\ F[s].completed = IF F[s].first_state = Nil THEN s
                                          ELSE F[s].first_state
                      /\ F[F[s].completed].exists
                      /\ F[F[s].completed].instance = F[s].instance
    BY DEF KeepsFirst
  <2>1. s \in K /\ F[s] = f[s] /\ f[s].exists
    BY <1>4, <1>3 DEF Free
  <2>2. /\ f[s].completed = IF f[s].first_state = Nil THEN s ELSE f[s].first_state
        /\ f[f[s].completed].exists
        /\ f[f[s].completed].instance = f[s].instance
    BY <2>1 DEF Sound, KeepsFirst
  <2>3. f[s].first_state \in States \cup {Nil}
    BY <1>2 DEF StateRecord
  <2>4. f[s].completed \in K
    BY <2>1, <2>2, <2>3, <1>3
  <2> QED
    BY <2>1, <2>2, <2>4, <1>4
<1>10. OnePlace(F)
  BY <1>4 DEF Sound, OnePlace, Free
<1>11. Ready(F)
  BY <1>4 DEF Sound, Ready, CanRun, Free
<1>12. \A s \in States : CanRun(F, s) => s \in K /\ F[s] = f[s] /\ CanRun(f, s)
  BY <1>4 DEF CanRun, Free
<1>13. Connected(F, D)
  BY <1>4, <1>5, StateAssumption DEF Sound, Connected, Sources
<1>14. Emitted(F, D, fr)
  <2> SUFFICES ASSUME NEW i \in 1..Len(fr), NEW w \in States, fr[i].pc = "emit"
               PROVE  <<F[fr[i].state].completed, w>> \notin D
    BY DEF Emitted
  <2>1. fr[i].state # Nil
    BY DEF Sound, Shaped
  <2>2. fr[i].state \in States /\ f[fr[i].state].exists
    BY <2>1, <1>2 DEF Sound, Held
  <2>3. F[fr[i].state] = f[fr[i].state]
    BY <2>2, <1>3, <1>4
  <2> QED
    BY <2>3, <1>5 DEF Sound, Emitted
(* A connection of a state that can run is kept, with the state.           *)
<1>15. ASSUME NEW x \in Sources, NEW s \in States, <<x, s>> \in C, CanRun(f, s)
       PROVE  s \in K /\ <<x, s>> \in D
  <2>1. f[s].exists /\ f[s].stack = "held"
    BY <1>15 DEF Sound, Connected, Ready
  <2>2. CASE x \in Signals
    BY <2>1, <2>2, <1>15, <1>3, <1>5
  <2>3. CASE x \in States
    <3>1. f[x].exists /\ f[s].awaits = x
      BY <1>15, <2>3 DEF Sound, Connected
    <3> QED
      BY <3>1, <2>1, <2>3, <1>15, <1>3, <1>5
  <2> QED
    BY <2>2, <2>3 DEF Sources
<1>16. Given(F, D, I, fr)
  <2> SUFFICES ASSUME NEW i \in 1..Len(fr), fr[i].got # Nil
               PROVE  LET g == fr[i].got
                      IN /\ F[g].function /\ F[g].in_script /\ F[g].completed = g
                         /\ F[g].instance \in I \cup {Nil} => CanRun(F, g)
                         /\ CanRun(F, g) => \E x \in Sources : <<x, g>> \in D
    BY DEF Given
  <2> DEFINE g == fr[i].got
  <2>1. g \in States
    BY <1>2
  <2>2. /\ f[g].function /\ f[g].in_script /\ f[g].completed = g
        /\ f[g].instance \in I \cup {Nil} => CanRun(f, g)
        /\ CanRun(f, g) => \E x \in Sources : <<x, g>> \in C
    BY DEF Sound, Given
  <2>3. f[g].exists
    BY <2>1, <2>2 DEF Sound, Absent, Free
  <2>4. F[g] = f[g]
    BY <2>1, <2>3, <1>3, <1>4
  <2>5. CanRun(F, g) <=> CanRun(f, g)
    BY <2>4 DEF CanRun
  <2> QED
    BY <2>1, <2>2, <2>4, <2>5, <1>15
<1>17. Woken(F, D, I, fr)
  <2> SUFFICES ASSUME NEW c \in States, NEW w \in States, <<c, w>> \in D, CanRun(F, w),
                      F[c].instance \in I \cup {Nil}
               PROVE  GoesOn(F, D, fr, c)
    BY DEF Woken
  <2>1. c \in K /\ F[c] = f[c] /\ <<c, w>> \in C /\ CanRun(f, w)
    BY <1>5, <1>4, <1>12, StateAssumption
  <2>2. PICK s \in States :
          /\ f[s].function /\ f[s].completed = c
          /\ WillRun(f, C, fr, s) \/ \E i \in 1..Len(fr) : fr[i].state = s
    BY <2>1 DEF Sound, Woken, GoesOn
  <2>3. f[s].exists
    BY <2>2 DEF Sound, Absent, Free
  <2>4. CASE \E i \in 1..Len(fr) : fr[i].state = s
    <3>1. F[s] = f[s]
      BY <2>3, <2>4, <1>3, <1>4
    <3> QED
      BY <2>2, <2>4, <3>1 DEF GoesOn
  <2>5. CASE WillRun(f, C, fr, s)
    <3>1. CanRun(f, s)
      BY <2>5 DEF WillRun
    <3>2. CASE \E i \in 1..Len(fr) : s \in fr[i].todo
      <4>1. F[s] = f[s]
        BY <2>3, <3>2, <1>3, <1>4
      <4>2. CanRun(F, s)
        BY <3>1, <4>1 DEF CanRun
      <4> QED
        BY <2>2, <3>2, <4>1, <4>2 DEF GoesOn, WillRun
    <3>3. CASE \E x \in Sources : <<x, s>> \in C
      <4>1. s \in K /\ \E x \in Sources : <<x, s>> \in D
        BY <3>1, <3>3, <1>15
      <4>2. F[s] = f[s]
        BY <4>1, <1>4
      <4>3. CanRun(F, s)
        BY <3>1, <4>2 DEF CanRun
      <4> QED
        BY <2>2, <4>1, <4>2, <4>3 DEF GoesOn, WillRun
    <3> QED
      BY <2>5, <3>2, <3>3 DEF WillRun
  <2> QED
    BY <2>2, <2>4, <2>5
<1> QED
  BY <1>1, <1>6, <1>7, <1>8, <1>9, <1>10, <1>11, <1>13, <1>14, <1>16, <1>17 DEF Sound

-----------------------------------------------------------------------------
(***************************************************************************)
(* Frames put on top, taken off, and changed in place.                     *)
(***************************************************************************)
LEMMA Pushed ==
  ASSUME NEW S, NEW seq \in Seq(S), NEW e \in S
  PROVE  /\ <<e>> \o seq \in Seq(S)
         /\ Len(<<e>> \o seq) = Len(seq) + 1
         /\ (<<e>> \o seq)[1] = e
         /\ \A i \in 1..Len(seq) : (<<e>> \o seq)[i + 1] = seq[i]
         /\ \A j \in 1..Len(seq) + 1 :
              j # 1 => j - 1 \in 1..Len(seq) /\ (<<e>> \o seq)[j] = seq[j - 1]
<1>1. <<e>> \in Seq(S) /\ Len(<<e>>) = 1 /\ <<e>>[1] = e
  OBVIOUS
<1>2. /\ <<e>> \o seq \in Seq(S)
      /\ Len(<<e>> \o seq) = 1 + Len(seq)
      /\ \A i \in 1..1 + Len(seq) : (<<e>> \o seq)[i] =
                      IF i <= 1 THEN <<e>>[i] ELSE seq[i - 1]
  BY <1>1, ConcatProperties
<1>3. Len(seq) \in Nat
  OBVIOUS
<1> QED
  BY <1>1, <1>2, <1>3

LEMMA Popped ==
  ASSUME NEW S, NEW seq \in Seq(S), seq # <<>>
  PROVE  /\ Len(seq) \in Nat \ {0}
         /\ Head(seq) = seq[1] /\ seq[1] \in S
         /\ Tail(seq) \in Seq(S)
         /\ Len(Tail(seq)) = Len(seq) - 1
         /\ \A i \in 1..Len(seq) - 1 : i + 1 \in 1..Len(seq) /\ Tail(seq)[i] = seq[i + 1]
<1>1. Len(seq) \in Nat \ {0}
  BY EmptySeq
<1>2. Head(seq) = seq[1] /\ seq[1] \in S
  BY <1>1
<1>3. /\ Tail(seq) \in Seq(S) /\ Len(Tail(seq)) = Len(seq) - 1
      /\ \A i \in 1..Len(Tail(seq)) : Tail(seq)[i] = seq[i + 1]
  BY HeadTailProperties
<1> QED
  BY <1>1, <1>2, <1>3

LEMMA FrameFields ==
  ASSUME NEW fr \in Seq(FrameRecord), NEW i \in 1..Len(fr)
  PROVE  /\ fr[i] \in FrameRecord
         /\ fr[i].kind \in {"call", "emit"} /\ fr[i].instance \in Instances \cup {Nil}
         /\ fr[i].state \in States \cup {Nil} /\ fr[i].pc \in {"run", "emit"}
         /\ fr[i].got \in States \cup {Nil} /\ fr[i].todo \in SUBSET States
<1>1. fr[i] \in FrameRecord
  BY ElementOfSeq
<1> QED
  BY <1>1 DEF FrameRecord

(* A new frame that is not a state's: a call, or the emission of a signal. *)
LEMMA SoundPushed ==
  ASSUME NEW f, NEW C, NEW I, NEW fr, Sound(f, C, I, fr),
         NEW x \in FrameRecord, x.state = Nil, x.got = Nil, x.pc = "run",
         x.kind = "emit" => x.instance = Nil,
         x.kind = "call" => x.todo = {},
         \A i \in 1..Len(fr) : fr[i].got = Nil
  PROVE  Sound(f, C, I, <<x>> \o fr)
<1> DEFINE g == <<x>> \o fr
<1>1. fr \in Seq(FrameRecord)
  BY DEF Sound, Typed
<1>2. /\ g \in Seq(FrameRecord)
      /\ Len(g) = Len(fr) + 1
      /\ g[1] = x
      /\ \A i \in 1..Len(fr) : g[i + 1] = fr[i]
      /\ \A j \in 1..Len(fr) + 1 : j # 1 => j - 1 \in 1..Len(fr) /\ g[j] = fr[j - 1]
  BY <1>1, Pushed
<1>3. Len(fr) \in Nat
  BY <1>1
<1> HIDE DEF g
<1>4. Typed(f, C, I, g)
  BY <1>2 DEF Sound, Typed
<1>5. Shaped(g)
  <2> SUFFICES ASSUME NEW j \in 1..Len(g)
               PROVE  /\ g[j].kind = "emit" =>
                           /\ g[j].state = Nil /\ g[j].instance = Nil
                           /\ g[j].got = Nil /\ g[j].pc = "run"
                      /\ g[j].kind = "call" => g[j].todo = {}
                      /\ g[j].got # Nil => j = 1
                      /\ g[j].pc = "emit" => g[j].state # Nil
                      /\ g[j].state # Nil /\ j < Len(g) => g[j + 1].kind = "emit"
    BY DEF Shaped
  <2>1. CASE j = 1
    BY <2>1, <1>2
  <2>2. CASE j # 1
    <3>1. j - 1 \in 1..Len(fr) /\ g[j] = fr[j - 1]
      BY <2>2, <1>2
    <3>2. j < Len(g) => g[j + 1] = fr[(j - 1) + 1] /\ j - 1 < Len(fr)
      BY <3>1, <1>2, <1>3
    <3> QED
      BY <3>1, <3>2 DEF Sound, Shaped
  <2> QED
    BY <2>1, <2>2
<1>6. OwnState(g)
  <2> SUFFICES ASSUME NEW i \in 1..Len(g), NEW j \in 1..Len(g),
                      g[i].state # Nil, g[i].state = g[j].state
               PROVE  i = j
    BY DEF OwnState
  <2>1. i # 1 /\ j # 1
    BY <1>2
  <2>2. /\ i - 1 \in 1..Len(fr) /\ g[i] = fr[i - 1]
        /\ j - 1 \in 1..Len(fr) /\ g[j] = fr[j - 1]
    BY <2>1, <1>2
  <2>3. i - 1 = j - 1
    BY <2>2 DEF Sound, OwnState
  <2> QED
    BY <2>3
<1>7. Held(f, g)
  BY <1>2 DEF Sound, Held
<1>8. Emitted(f, C, g)
  BY <1>2 DEF Sound, Emitted
<1>9. Given(f, C, I, g)
  BY <1>2 DEF Given
<1>10. ASSUME NEW s \in States
       PROVE  /\ WillRun(f, C, fr, s) => WillRun(f, C, g, s)
              /\ (\E i \in 1..Len(fr) : fr[i].state = s) => \E i \in 1..Len(g) : g[i].state = s
  <2>1. \A i \in 1..Len(fr) : i + 1 \in 1..Len(g)
    BY <1>2, <1>3
  <2> QED
    BY <2>1, <1>2 DEF WillRun
<1>11. Woken(f, C, I, g)
  BY <1>10 DEF Sound, Woken, GoesOn
<1> QED
  BY <1>4, <1>5, <1>6, <1>7, <1>8, <1>9, <1>11 DEF Sound, g

(* A frame that runs no state's stack and resumes nobody may go.           *)
LEMMA SoundPopped ==
  ASSUME NEW f, NEW C, NEW I, NEW fr, Sound(f, C, I, fr), fr # <<>>,
         fr[1].state = Nil, fr[1].todo = {}
  PROVE  Sound(f, C, I, Tail(fr))
<1> DEFINE g == Tail(fr)
<1>1. fr \in Seq(FrameRecord)
  BY DEF Sound, Typed
<1>2. /\ Len(fr) \in Nat \ {0} /\ g \in Seq(FrameRecord) /\ Len(g) = Len(fr) - 1
      /\ \A i \in 1..Len(fr) - 1 : i + 1 \in 1..Len(fr) /\ g[i] = fr[i + 1]
  BY <1>1, Popped
<1> HIDE DEF g
<1>3. Typed(f, C, I, g)
  BY <1>2 DEF Sound, Typed
<1>4. Shaped(g)
  <2> SUFFICES ASSUME NEW j \in 1..Len(g)
               PROVE  /\ g[j].kind = "emit" =>
                           /\ g[j].state = Nil /\ g[j].instance = Nil
                           /\ g[j].got = Nil /\ g[j].pc = "run"
                      /\ g[j].kind = "call" => g[j].todo = {}
                      /\ g[j].got # Nil => j = 1
                      /\ g[j].pc = "emit" => g[j].state # Nil
                      /\ g[j].state # Nil /\ j < Len(g) => g[j + 1].kind = "emit"
    BY DEF Shaped
  <2>1. j + 1 \in 1..Len(fr) /\ g[j] = fr[j + 1] /\ j + 1 # 1
    BY <1>2
  <2>2. j < Len(g) => g[j + 1] = fr[(j + 1) + 1] /\ j + 1 < Len(fr)
    BY <1>2
  <2> QED
    BY <2>1, <2>2 DEF Sound, Shaped
<1>5. OwnState(g)
  <2> SUFFICES ASSUME NEW i \in 1..Len(g), NEW j \in 1..Len(g),
                      g[i].state # Nil, g[i].state = g[j].state
               PROVE  i = j
    BY DEF OwnState
  <2>1. /\ i + 1 \in 1..Len(fr) /\ g[i] = fr[i + 1]
        /\ j + 1 \in 1..Len(fr) /\ g[j] = fr[j + 1]
    BY <1>2
  <2>2. i + 1 = j + 1
    BY <2>1 DEF Sound, OwnState
  <2> QED
    BY <2>2
<1>6. Held(f, g)
  BY <1>2 DEF Sound, Held
<1>7. Emitted(f, C, g)
  BY <1>2 DEF Sound, Emitted
<1>8. Given(f, C, I, g)
  BY <1>2, ZenonT(60) DEF Sound, Given
<1>9. ASSUME NEW s \in States
      PROVE  /\ WillRun(f, C, fr, s) => WillRun(f, C, g, s)
             /\ (\E i \in 1..Len(fr) : fr[i].state = s) => \E i \in 1..Len(g) : g[i].state = s
  <2>1. \A i \in 1..Len(fr) : i # 1 => i - 1 \in 1..Len(g) /\ g[i - 1] = fr[i]
    BY <1>2
  <2>2. s # Nil
    BY StateAssumption
  <2> QED
    BY <2>1, <2>2 DEF WillRun
<1>10. Woken(f, C, I, g)
  BY <1>9 DEF Sound, Woken, GoesOn
<1> QED
  BY <1>3, <1>4, <1>5, <1>6, <1>7, <1>8, <1>10 DEF Sound, g

(* What a frame was given may be dropped, a state that cannot run may be   *)
(* passed over, and a call may emit completed when nobody waits for it.    *)
LEMMA SoundReframed ==
  ASSUME NEW f, NEW C, NEW I, NEW fr, Sound(f, C, I, fr),
         NEW g \in Seq(FrameRecord), Len(g) = Len(fr),
         \A i \in 1..Len(fr) :
           /\ g[i].kind = fr[i].kind /\ g[i].instance = fr[i].instance
           /\ g[i].state = fr[i].state
           /\ \/ g[i].pc = fr[i].pc
              \/ /\ fr[i].state # Nil /\ fr[i].kind = "call"
                 /\ \A w \in States : <<f[fr[i].state].completed, w>> \notin C
           /\ g[i].got = fr[i].got \/ g[i].got = Nil
           /\ g[i].todo \subseteq fr[i].todo
           /\ \A s \in fr[i].todo \ g[i].todo : ~ CanRun(f, s)
  PROVE  Sound(f, C, I, g)
<1>1. Typed(f, C, I, g)
  BY DEF Sound, Typed
<1>2. Shaped(g)
  <2>1. Len(fr) \in Nat
    BY DEF Sound, Typed
  <2> QED
    BY <2>1 DEF Sound, Shaped
<1>3. OwnState(g)
  BY DEF Sound, OwnState
<1>4. Held(f, g)
  BY DEF Sound, Held
<1>5. Emitted(f, C, g)
  BY DEF Sound, Emitted
<1>6. Given(f, C, I, g)
  BY DEF Sound, Given
<1>7. \A s \in States : WillRun(f, C, fr, s) => WillRun(f, C, g, s)
  BY DEF WillRun
<1>8. Woken(f, C, I, g)
  BY <1>7 DEF Sound, Woken, GoesOn
<1> QED
  BY <1>1, <1>2, <1>3, <1>4, <1>5, <1>6, <1>8 DEF Sound

(* An emission takes the connections of its source and has the states that *)
(* waited before it.                                                       *)
LEMMA SoundUndone ==
  ASSUME NEW f, NEW C, NEW I, NEW fr, Sound(f, C, I, fr), NEW src \in Sources,
         \A i \in 1..Len(fr) : fr[i].got = Nil
  PROVE  Sound(f, {c \in C : c[1] # src}, I,
               <<Emission({s \in States : <<src, s>> \in C})>> \o fr)
<1> DEFINE W == {s \in States : <<src, s>> \in C}
           D == {c \in C : c[1] # src}
           x == Emission(W)
           g == <<x>> \o fr
<1>1. fr \in Seq(FrameRecord) /\ C \subseteq Sources \X States
  BY DEF Sound, Typed
<1>2. /\ x \in FrameRecord /\ x.kind = "emit" /\ x.state = Nil /\ x.got = Nil
      /\ x.pc = "run" /\ x.instance = Nil /\ x.todo = W
  BY DEF Emission, FrameRecord
<1>3. Sound(f, C, I, g)
  BY <1>2, SoundPushed
<1>4. /\ Len(g) = Len(fr) + 1 /\ g[1] = x /\ Len(fr) \in Nat
  BY <1>1, <1>2, Pushed
<1>5. D \subseteq C /\ \A y, s : <<y, s>> \in D <=> <<y, s>> \in C /\ y # src
  OBVIOUS
<1>6. \A s \in States : <<src, s>> \in C => s \in g[1].todo
  BY <1>4, <1>2
<1> HIDE DEF g, W, D, x
<1>7. Typed(f, D, I, g)
  BY <1>3, <1>5 DEF Sound, Typed
<1>8. Connected(f, D)
  BY <1>3, <1>5 DEF Sound, Connected
<1>9. Emitted(f, D, g)
  BY <1>3, <1>5 DEF Sound, Emitted
<1>10. Given(f, D, I, g)
  <2>1. \A i \in 1..Len(g) : g[i].got = Nil
    <3>1. \A i \in 1..Len(g) : g[i].got # Nil => i = 1
      BY <1>3 DEF Sound, Shaped
    <3> QED
      BY <3>1, <1>4, <1>2
  <2> QED
    BY <2>1 DEF Given
<1>11. \A s \in States : WillRun(f, C, g, s) => WillRun(f, D, g, s)
  <2>1. 1 \in 1..Len(g)
    BY <1>4
  <2> QED
    BY <2>1, <1>5, <1>6 DEF WillRun
<1>12. Woken(f, D, I, g)
  BY <1>3, <1>5, <1>11 DEF Sound, Woken, GoesOn
<1>13. Sound(f, D, I, g)
  BY <1>3, <1>7, <1>8, <1>9, <1>10, <1>12 DEF Sound
<1> QED
  BY <1>13 DEF g, W, D, x

-----------------------------------------------------------------------------
(***************************************************************************)
(* What the actions do to the states.                                      *)
(***************************************************************************)

(* resume runs a listed state's call again, on top of what emits.          *)
LEMMA SoundResumed ==
  ASSUME NEW f, NEW C, NEW I, NEW fr, Sound(f, C, I, fr),
         NEW s \in States, CanRun(f, s), fr # <<>> => fr[1].kind = "emit"
  PROVE  Sound([f EXCEPT ![s].in_script = FALSE, ![s].in_instance = FALSE], C, I,
               <<Call(f[s].instance, s)>> \o fr)
<1> DEFINE f2 == [f EXCEPT ![s].in_script = FALSE, ![s].in_instance = FALSE]
           x == Call(f[s].instance, s)
           g == <<x>> \o fr
<1>1. /\ f \in [States -> StateRecord] /\ fr \in Seq(FrameRecord)
      /\ \A i \in 1..Len(fr) : fr[i].state \in States \cup {Nil}
  <2>1. f \in [States -> StateRecord] /\ fr \in Seq(FrameRecord)
    BY DEF Sound, Typed
  <2> QED
    BY <2>1, FrameFields
<1>2. /\ x \in FrameRecord /\ x.kind = "call" /\ x.state = s /\ x.got = Nil
      /\ x.pc = "run" /\ x.instance = f[s].instance /\ x.todo = {}
  BY <1>1 DEF Call, FrameRecord, StateRecord
<1>3. /\ g \in Seq(FrameRecord)
      /\ Len(g) = Len(fr) + 1
      /\ g[1] = x
      /\ \A i \in 1..Len(fr) : g[i + 1] = fr[i]
      /\ \A j \in 1..Len(fr) + 1 : j # 1 => j - 1 \in 1..Len(fr) /\ g[j] = fr[j - 1]
      /\ Len(fr) \in Nat
  BY <1>1, <1>2, Pushed
<1>4. /\ f2 \in [States -> StateRecord]
      /\ \A t \in States :
           /\ f2[t].exists = f[t].exists /\ f2[t].function = f[t].function
           /\ f2[t].instance = f[t].instance /\ f2[t].stack = f[t].stack
           /\ f2[t].awaits = f[t].awaits /\ f2[t].completed = f[t].completed
           /\ f2[t].first_state = f[t].first_state
           /\ t # s => f2[t] = f[t]
      /\ ~ f2[s].in_script
  <2>1. f[s] \in StateRecord
    BY <1>1
  <2>2. f2 = [f EXCEPT ![s] = [f[s] EXCEPT !.in_script = FALSE, !.in_instance = FALSE]]
    BY <1>1
  <2> DEFINE r == [f[s] EXCEPT !.in_script = FALSE, !.in_instance = FALSE]
  <2>3. /\ r \in StateRecord /\ ~ r.in_script
        /\ r.exists = f[s].exists /\ r.function = f[s].function
        /\ r.instance = f[s].instance /\ r.stack = f[s].stack
        /\ r.awaits = f[s].awaits /\ r.completed = f[s].completed
        /\ r.first_state = f[s].first_state
    BY <2>1 DEF StateRecord
  <2> HIDE DEF r
  <2> QED
    BY <1>1, <2>2, <2>3 DEF r
<1>5. s # Nil /\ f[s].function /\ f[s].in_script /\ f[s].exists
  BY StateAssumption DEF CanRun, Sound, Absent, Free
<1> HIDE DEF f2, g, x
<1>6. Typed(f2, C, I, g)
  BY <1>3, <1>4 DEF Sound, Typed
<1>7. Absent(f2)
  BY <1>4, <1>5 DEF Sound, Absent
<1>8. Shaped(g)
  <2> SUFFICES ASSUME NEW j \in 1..Len(g)
               PROVE  /\ g[j].kind = "emit" =>
                           /\ g[j].state = Nil /\ g[j].instance = Nil
                           /\ g[j].got = Nil /\ g[j].pc = "run"
                      /\ g[j].kind = "call" => g[j].todo = {}
                      /\ g[j].got # Nil => j = 1
                      /\ g[j].pc = "emit" => g[j].state # Nil
                      /\ g[j].state # Nil /\ j < Len(g) => g[j + 1].kind = "emit"
    BY DEF Shaped
  <2>1. CASE j = 1
    <3>1. j < Len(g) => 1 \in 1..Len(fr) /\ g[2] = fr[1] /\ fr # <<>>
      BY <2>1, <1>3
    <3> QED
      BY <2>1, <1>2, <1>3, <3>1
  <2>2. CASE j # 1
    <3>1. j - 1 \in 1..Len(fr) /\ g[j] = fr[j - 1]
      BY <2>2, <1>3
    <3>2. j < Len(g) => g[j + 1] = fr[(j - 1) + 1] /\ j - 1 < Len(fr)
      BY <3>1, <1>3
    <3>3. fr[j - 1].got # Nil => j - 1 = 1 /\ fr[1].kind = "emit"
      <4>1. fr # <<>>
        BY <3>1
      <4> QED
        BY <3>1, <4>1 DEF Sound, Shaped
    <3>4. fr[j - 1].got = Nil
      BY <3>1, <3>3 DEF Sound, Shaped
    <3> QED
      BY <3>1, <3>2, <3>4 DEF Sound, Shaped
  <2> QED
    BY <2>1, <2>2
<1>9. OwnState(g)
  <2>1. \A j \in 1..Len(fr) : fr[j].state # s
    BY <1>5 DEF Sound, Held
  <2> SUFFICES ASSUME NEW i \in 1..Len(g), NEW j \in 1..Len(g),
                      g[i].state # Nil, g[i].state = g[j].state
               PROVE  i = j
    BY DEF OwnState
  <2>2. CASE i = 1 \/ j = 1
    BY <2>1, <2>2, <1>2, <1>3
  <2>3. CASE i # 1 /\ j # 1
    <3>1. /\ i - 1 \in 1..Len(fr) /\ g[i] = fr[i - 1]
          /\ j - 1 \in 1..Len(fr) /\ g[j] = fr[j - 1]
      BY <2>3, <1>3
    <3>2. i - 1 = j - 1
      BY <3>1 DEF Sound, OwnState
    <3> QED
      BY <3>2
  <2> QED
    BY <2>2, <2>3
<1>10. Held(f2, g)
  <2> SUFFICES ASSUME NEW j \in 1..Len(g), g[j].state # Nil
               PROVE  LET t == g[j].state
                      IN /\ f2[t].exists /\ f2[t].function /\ ~ f2[t].in_script
                         /\ f2[t].stack = "held" /\ f2[t].instance = g[j].instance
    BY DEF Held
  <2>1. CASE j = 1
    BY <2>1, <1>2, <1>3, <1>4, <1>5 DEF Sound, Ready
  <2>2. CASE j # 1
    <3>1. j - 1 \in 1..Len(fr) /\ g[j] = fr[j - 1]
      BY <2>2, <1>3
    <3>2. fr[j - 1].state \in States
      BY <3>1, <1>1
    <3> QED
      BY <3>1, <3>2, <1>4, <1>5 DEF Sound, Held
  <2> QED
    BY <2>1, <2>2
<1>11. KeepsFirst(f2)
  <2>1. \A t \in States : f[t].exists => f[t].completed \in States
    <3>1. \A t \in States : f[t].first_state \in States \cup {Nil}
      BY <1>1 DEF StateRecord
    <3> QED
      BY <3>1 DEF Sound, KeepsFirst
  <2> QED
    BY <2>1, <1>4 DEF Sound, KeepsFirst
<1>12. OnePlace(f2)
  BY <1>4 DEF Sound, OnePlace
<1>13. \A t \in States : CanRun(f2, t) => t # s /\ CanRun(f, t)
  BY <1>4 DEF CanRun
<1>14. \A t \in States : CanRun(f, t) /\ t # s => CanRun(f2, t)
  BY <1>4 DEF CanRun
<1>15. Ready(f2)
  BY <1>13, <1>4 DEF Sound, Ready
<1>16. Connected(f2, C)
  BY <1>4 DEF Sound, Connected
<1>17. Emitted(f2, C, g)
  <2> SUFFICES ASSUME NEW j \in 1..Len(g), NEW w \in States, g[j].pc = "emit"
               PROVE  <<f2[g[j].state].completed, w>> \notin C
    BY DEF Emitted
  <2>1. j - 1 \in 1..Len(fr) /\ g[j] = fr[j - 1]
    BY <1>2, <1>3
  <2>2. fr[j - 1].state \in States
    BY <2>1, <1>1 DEF Sound, Shaped
  <2> QED
    BY <2>1, <2>2, <1>4 DEF Sound, Emitted
<1>18. Given(f2, C, I, g)
  <2>1. \A j \in 1..Len(g) : g[j].got # Nil => j = 1
    BY <1>8 DEF Shaped
  <2>2. \A j \in 1..Len(g) : g[j].got = Nil
    BY <2>1, <1>2, <1>3
  <2> QED
    BY <2>2 DEF Given
<1>19. Woken(f2, C, I, g)
  <2> SUFFICES ASSUME NEW c \in States, NEW w \in States, <<c, w>> \in C, CanRun(f2, w),
                      f2[c].instance \in I \cup {Nil}
               PROVE  GoesOn(f2, C, g, c)
    BY DEF Woken
  <2>1. PICK t \in States :
          /\ f[t].function /\ f[t].completed = c
          /\ WillRun(f, C, fr, t) \/ \E i \in 1..Len(fr) : fr[i].state = t
    BY <1>4, <1>13 DEF Sound, Woken, GoesOn
  <2>2. f2[t].function /\ f2[t].completed = c
    BY <2>1, <1>4
  <2>3. \A i \in 1..Len(fr) : i + 1 \in 1..Len(g) /\ g[i + 1] = fr[i]
    BY <1>3
  <2>4. CASE t = s
    <3>1. 1 \in 1..Len(g) /\ g[1].state = t
      BY <2>4, <1>2, <1>3
    <3> QED
      BY <2>2, <3>1 DEF GoesOn
  <2>5. CASE t # s /\ WillRun(f, C, fr, t)
    <3>1. WillRun(f2, C, g, t)
      BY <2>5, <2>3, <1>14 DEF WillRun
    <3> QED
      BY <2>2, <3>1 DEF GoesOn
  <2>6. CASE \E i \in 1..Len(fr) : fr[i].state = t
    BY <2>2, <2>3, <2>6 DEF GoesOn
  <2> QED
    BY <2>1, <2>4, <2>5, <2>6
<1> QED
  BY <1>6, <1>7, <1>8, <1>9, <1>10, <1>11, <1>12, <1>15, <1>16, <1>17, <1>18, <1>19
     DEF Sound, f2, g, x

(* The rest of a resumed call, when its signal was emitted.                *)
LEMMA SoundFinished ==
  ASSUME NEW C, NEW I, NEW fr, Sound(fst, C, I, fr), fr # <<>>, fr[1].pc = "emit"
  PROVE  Sound([fst EXCEPT ![fr[1].state] = Spent(fr[1].state)], C, I, Tail(fr))
<1> DEFINE st == fr[1].state
           f2 == [fst EXCEPT ![st] = Spent(st)]
           g == Tail(fr)
<1>1. fst \in [States -> StateRecord] /\ fr \in Seq(FrameRecord)
  BY DEF Sound, Typed
<1>2. /\ Len(fr) \in Nat \ {0} /\ g \in Seq(FrameRecord) /\ Len(g) = Len(fr) - 1
      /\ \A i \in 1..Len(fr) - 1 : i + 1 \in 1..Len(fr) /\ g[i] = fr[i + 1]
  BY <1>1, Popped
<1>3. \A i \in 1..Len(fr) : fr[i].state \in States \cup {Nil}
  BY <1>1, FrameFields
<1>4. /\ st \in States /\ fr[1].kind = "call" /\ fr[1].todo = {}
      /\ fst[st].exists /\ fst[st].function
  <2>1. 1 \in 1..Len(fr)
    BY <1>2
  <2>2. st \in States /\ fr[1].kind # "emit"
    BY <2>1, <1>3 DEF Sound, Shaped
  <2>3. fr[1].kind = "call"
    BY <2>1, <2>2, <1>1, FrameFields
  <2> QED
    BY <2>1, <2>2, <2>3, StateAssumption DEF Sound, Shaped, Held
<1>5. /\ f2 \in [States -> StateRecord]
      /\ \A t \in States :
           /\ f2[t].exists = fst[t].exists /\ f2[t].instance = fst[t].instance
           /\ f2[t].awaits = fst[t].awaits /\ f2[t].completed = fst[t].completed
           /\ f2[t].first_state = fst[t].first_state
           /\ t # st => f2[t] = fst[t]
      /\ ~ f2[st].function
  <2>1. fst[st] \in StateRecord
    BY <1>1, <1>4
  <2>2. /\ Spent(st) \in StateRecord /\ ~ Spent(st).function
        /\ Spent(st).exists = fst[st].exists /\ Spent(st).instance = fst[st].instance
        /\ Spent(st).awaits = fst[st].awaits /\ Spent(st).completed = fst[st].completed
        /\ Spent(st).first_state = fst[st].first_state
    BY <2>1 DEF Spent, StateRecord
  <2> QED
    BY <1>1, <1>4, <2>2
<1> HIDE DEF f2, g, st
<1>6. Typed(f2, C, I, g)
  BY <1>2, <1>5 DEF Sound, Typed
<1>7. Absent(f2)
  BY <1>4, <1>5 DEF Sound, Absent
<1>8. Shaped(g)
  <2> SUFFICES ASSUME NEW j \in 1..Len(g)
               PROVE  /\ g[j].kind = "emit" =>
                           /\ g[j].state = Nil /\ g[j].instance = Nil
                           /\ g[j].got = Nil /\ g[j].pc = "run"
                      /\ g[j].kind = "call" => g[j].todo = {}
                      /\ g[j].got # Nil => j = 1
                      /\ g[j].pc = "emit" => g[j].state # Nil
                      /\ g[j].state # Nil /\ j < Len(g) => g[j + 1].kind = "emit"
    BY DEF Shaped
  <2>1. j + 1 \in 1..Len(fr) /\ g[j] = fr[j + 1] /\ j + 1 # 1
    BY <1>2
  <2>2. j < Len(g) => g[j + 1] = fr[(j + 1) + 1] /\ j + 1 < Len(fr)
    BY <1>2
  <2> QED
    BY <2>1, <2>2 DEF Sound, Shaped
<1>9. OwnState(g)
  <2> SUFFICES ASSUME NEW i \in 1..Len(g), NEW j \in 1..Len(g),
                      g[i].state # Nil, g[i].state = g[j].state
               PROVE  i = j
    BY DEF OwnState
  <2>1. /\ i + 1 \in 1..Len(fr) /\ g[i] = fr[i + 1]
        /\ j + 1 \in 1..Len(fr) /\ g[j] = fr[j + 1]
    BY <1>2
  <2>2. i + 1 = j + 1
    BY <2>1 DEF Sound, OwnState
  <2> QED
    BY <2>2
(* No other frame runs on the stack that is freed.                         *)
<1>10. \A j \in 1..Len(g) : g[j].state # st
  <2> SUFFICES ASSUME NEW j \in 1..Len(g), g[j].state = st
               PROVE  FALSE
    OBVIOUS
  <2>1. j + 1 \in 1..Len(fr) /\ fr[j + 1].state = fr[1].state /\ fr[1].state # Nil
    BY <1>2, <1>4, StateAssumption DEF st
  <2>2. j + 1 = 1
    BY <2>1, <1>2 DEF Sound, OwnState
  <2> QED
    BY <2>2
<1>11. \A j \in 1..Len(g) : g[j].state # Nil => g[j].state \in States /\ f2[g[j].state] = fst[g[j].state]
  BY <1>2, <1>3, <1>5, <1>10
<1>12. Held(f2, g)
  BY <1>2, <1>11 DEF Sound, Held
<1>13. KeepsFirst(f2)
  <2>1. \A t \in States : fst[t].exists => fst[t].completed \in States
    <3>1. \A t \in States : fst[t].first_state \in States \cup {Nil}
      BY <1>1 DEF StateRecord
    <3> QED
      BY <3>1 DEF Sound, KeepsFirst
  <2> QED
    BY <2>1, <1>5 DEF Sound, KeepsFirst
<1>14. OnePlace(f2)
  BY <1>5 DEF Sound, OnePlace
<1>15. \A t \in States : CanRun(f2, t) <=> t # st /\ CanRun(fst, t)
  BY <1>5 DEF CanRun
<1>16. Ready(f2)
  BY <1>15, <1>5 DEF Sound, Ready
<1>17. Connected(f2, C)
  BY <1>5 DEF Sound, Connected
<1>18. Emitted(f2, C, g)
  <2> SUFFICES ASSUME NEW j \in 1..Len(g), NEW w \in States, g[j].pc = "emit"
               PROVE  <<f2[g[j].state].completed, w>> \notin C
    BY DEF Emitted
  <2>1. g[j].state # Nil
    BY <1>8 DEF Shaped
  <2>2. f2[g[j].state] = fst[g[j].state]
    BY <2>1, <1>11
  <2>3. j + 1 \in 1..Len(fr) /\ g[j] = fr[j + 1]
    BY <1>2
  <2> QED
    BY <2>2, <2>3 DEF Sound, Emitted
<1>19. Given(f2, C, I, g)
  <2>1. \A j \in 1..Len(g) : g[j].got = Nil
    BY <1>2 DEF Sound, Shaped
  <2> QED
    BY <2>1 DEF Given
<1>20. Woken(f2, C, I, g)
  <2> SUFFICES ASSUME NEW c \in States, NEW w \in States, <<c, w>> \in C, CanRun(f2, w),
                      f2[c].instance \in I \cup {Nil}
               PROVE  GoesOn(f2, C, g, c)
    BY DEF Woken
  <2>1. PICK t \in States :
          /\ fst[t].function /\ fst[t].completed = c
          /\ WillRun(fst, C, fr, t) \/ \E i \in 1..Len(fr) : fr[i].state = t
    BY <1>5, <1>15 DEF Sound, Woken, GoesOn
  <2>2. t # st
    <3>1. 1 \in 1..Len(fr)
      BY <1>2
    <3> QED
      BY <2>1, <3>1 DEF Sound, Emitted, st
  <2>3. f2[t] = fst[t] /\ t # Nil
    BY <2>2, <1>5, StateAssumption
  <2>4. \A i \in 1..Len(fr) : i # 1 => i - 1 \in 1..Len(g) /\ g[i - 1] = fr[i]
    BY <1>2
  <2>5. CASE \E i \in 1..Len(fr) : fr[i].state = t
    <3>1. \E i \in 1..Len(g) : g[i].state = t
      BY <2>2, <2>4, <2>5 DEF st
    <3> QED
      BY <2>1, <2>3, <3>1 DEF GoesOn
  <2>6. CASE WillRun(fst, C, fr, t)
    <3>1. WillRun(f2, C, g, t)
      BY <2>2, <2>4, <2>6, <1>4, <1>15 DEF WillRun
    <3> QED
      BY <2>1, <2>3, <3>1 DEF GoesOn
  <2> QED
    BY <2>1, <2>5, <2>6
<1> QED
  BY <1>6, <1>7, <1>8, <1>9, <1>12, <1>13, <1>14, <1>16, <1>17, <1>18, <1>19, <1>20
     DEF Sound, f2, g, st

(* A cancelled state cannot run.  Nothing that runs is cancelled; when the *)
(* script is reloaded nothing can run any more, and when an instance is    *)
(* freed all states of a coroutine of it are cancelled or none.            *)
LEMMA SoundCancelled ==
  ASSUME NEW C, NEW I, NEW J, NEW fr, Sound(fst, C, I, fr), J \subseteq I,
         NEW S \in SUBSET States, NEW list \in {"in_script", "in_instance"},
         \A s \in S : fst[s].exists,
         \A i \in 1..Len(fr) : fr[i].state \notin S,
         list = "in_instance" => \A s \in S : fst[s].instance \notin J \cup {Nil},
         list = "in_script" => /\ \A i \in 1..Len(fr) : fr[i].got = Nil
                               /\ \A t \in States : CanRun(fst, t) => t \in S
  PROVE  Sound(Cancelled(S, list), C, J, fr)
<1> DEFINE f2 == Cancelled(S, list)
<1>1. /\ fst \in [States -> StateRecord] /\ fr \in Seq(FrameRecord)
      /\ \A i \in 1..Len(fr) : /\ fr[i].state \in States \cup {Nil}
                               /\ fr[i].got \in States \cup {Nil}
  <2>1. fst \in [States -> StateRecord] /\ fr \in Seq(FrameRecord)
    BY DEF Sound, Typed
  <2> QED
    BY <2>1, FrameFields
<1>2. /\ f2 \in [States -> StateRecord]
      /\ \A t \in States :
           /\ f2[t].exists = fst[t].exists /\ f2[t].function = fst[t].function
           /\ f2[t].instance = fst[t].instance
           /\ f2[t].awaits = fst[t].awaits /\ f2[t].completed = fst[t].completed
           /\ f2[t].first_state = fst[t].first_state
           /\ t \notin S => f2[t] = fst[t]
           /\ t \in S /\ list = "in_script" => ~ f2[t].in_script
           /\ t \in S /\ list = "in_instance" => ~ f2[t].in_instance
           /\ list = "in_instance" => f2[t].in_script = fst[t].in_script
  <2> SUFFICES ASSUME NEW t \in States
               PROVE  LET r == f2[t]
                      IN /\ r \in StateRecord
                         /\ r.exists = fst[t].exists /\ r.function = fst[t].function
                         /\ r.instance = fst[t].instance
                         /\ r.awaits = fst[t].awaits /\ r.completed = fst[t].completed
                         /\ r.first_state = fst[t].first_state
                         /\ t \notin S => r = fst[t]
                         /\ t \in S /\ list = "in_script" => ~ r.in_script
                         /\ t \in S /\ list = "in_instance" => ~ r.in_instance
                         /\ list = "in_instance" => r.in_script = fst[t].in_script
    BY DEF Cancelled
  <2>1. fst[t] \in StateRecord
    BY <1>1
  <2>2. CASE t \notin S
    BY <2>1, <2>2 DEF Cancelled
  <2>3. CASE t \in S /\ list = "in_script"
    <3>1. f2[t] = [fst[t] EXCEPT !.in_script = FALSE, !.stack = "destroyed"]
      BY <2>3 DEF Cancelled
    <3> QED
      BY <2>1, <2>3, <3>1 DEF StateRecord
  <2>4. CASE t \in S /\ list = "in_instance"
    <3>1. f2[t] = [fst[t] EXCEPT !.in_instance = FALSE, !.stack = "destroyed"]
      BY <2>4 DEF Cancelled
    <3> QED
      BY <2>1, <2>4, <3>1 DEF StateRecord
  <2> QED
    BY <2>2, <2>3, <2>4
<1> HIDE DEF f2
<1>3. \A t \in States : CanRun(f2, t) <=> t \notin S /\ CanRun(fst, t)
  BY <1>2 DEF CanRun
<1>4. Typed(f2, C, J, fr)
  BY <1>2 DEF Sound, Typed
<1>5. Absent(f2)
  BY <1>2 DEF Sound, Absent
<1>6. Held(f2, fr)
  <2>1. \A i \in 1..Len(fr) : fr[i].state # Nil => f2[fr[i].state] = fst[fr[i].state]
    BY <1>1, <1>2
  <2> QED
    BY <2>1 DEF Sound, Held
<1>7. KeepsFirst(f2)
  <2>1. \A t \in States : fst[t].exists => fst[t].completed \in States
    <3>1. \A t \in States : fst[t].first_state \in States \cup {Nil}
      BY <1>1 DEF StateRecord
    <3> QED
      BY <3>1 DEF Sound, KeepsFirst
  <2> QED
    BY <2>1, <1>2 DEF Sound, KeepsFirst
<1>8. OnePlace(f2)
  BY <1>2 DEF Sound, OnePlace
<1>9. Ready(f2)
  BY <1>2, <1>3 DEF Sound, Ready
<1>10. Connected(f2, C)
  BY <1>2 DEF Sound, Connected
<1>11. Emitted(f2, C, fr)
  <2>1. \A i \in 1..Len(fr) : fr[i].pc = "emit" => fr[i].state \in States
    BY <1>1 DEF Sound, Shaped
  <2> QED
    BY <2>1, <1>2 DEF Sound, Emitted
<1>12. Given(f2, C, J, fr)
  <2> SUFFICES ASSUME NEW i \in 1..Len(fr), fr[i].got # Nil
               PROVE  LET g == fr[i].got
                      IN /\ f2[g].function /\ f2[g].in_script /\ f2[g].completed = g
                         /\ f2[g].instance \in J \cup {Nil} => CanRun(f2, g)
                         /\ CanRun(f2, g) => \E x \in Sources : <<x, g>> \in C
    BY DEF Given
  <2> DEFINE g == fr[i].got
  <2>1. g \in States /\ list = "in_instance"
    BY <1>1
  <2>2. /\ fst[g].function /\ fst[g].in_script /\ fst[g].completed = g
        /\ fst[g].instance \in I \cup {Nil} => CanRun(fst, g)
        /\ CanRun(fst, g) => \E x \in Sources : <<x, g>> \in C
    BY DEF Sound, Given
  <2>3. f2[g].function /\ f2[g].in_script /\ f2[g].completed = g
    BY <2>1, <2>2, <1>2
  <2>4. ASSUME f2[g].instance \in J \cup {Nil}
        PROVE  CanRun(f2, g)
    <3>1. CanRun(fst, g) /\ fst[g].instance \in J \cup {Nil}
      BY <2>1, <2>2, <2>4, <1>2
    <3>2. g \notin S
      BY <2>1, <3>1
    <3> QED
      BY <2>1, <3>1, <3>2, <1>3
  <2> QED
    BY <2>1, <2>2, <2>3, <2>4, <1>3
<1>13. Woken(f2, C, J, fr)
  <2> SUFFICES ASSUME NEW c \in States, NEW w \in States, <<c, w>> \in C, CanRun(f2, w),
                      f2[c].instance \in J \cup {Nil}
               PROVE  GoesOn(f2, C, fr, c)
    BY DEF Woken
  <2>1. list = "in_instance" /\ fst[c].instance \in J \cup {Nil} /\ CanRun(fst, w)
    BY <1>2, <1>3
  <2>2. PICK t \in States :
          /\ fst[t].function /\ fst[t].completed = c
          /\ WillRun(fst, C, fr, t) \/ \E i \in 1..Len(fr) : fr[i].state = t
    BY <2>1 DEF Sound, Woken, GoesOn
  <2>3. f2[t].function /\ f2[t].completed = c
    BY <2>2, <1>2
  <2>4. CASE WillRun(fst, C, fr, t)
    <3>1. fst[t].instance = fst[c].instance
      BY <2>2 DEF Sound, Absent, Free, KeepsFirst
    <3>2. t \notin S
      BY <2>1, <2>4, <3>1 DEF WillRun
    <3>3. WillRun(f2, C, fr, t)
      BY <2>4, <3>2, <1>3 DEF WillRun
    <3> QED
      BY <2>3, <3>3 DEF GoesOn
  <2> QED
    BY <2>2, <2>3, <2>4 DEF GoesOn
<1> QED
  BY <1>4, <1>5, <1>6, <1>7, <1>8, <1>9, <1>10, <1>11, <1>12, <1>13 DEF Sound, f2

(* The state s of f2 holds the call on top of fr, whose old state is spent. *)
HoldsCall(f, fr, s, f2) ==
  /\ f2[s].exists /\ f2[s].function /\ f2[s].in_script
  /\ f2[s].in_instance <=> fr[1].instance # Nil
  /\ f2[s].instance = fr[1].instance
  /\ f2[s].stack = "held" /\ f2[s].awaits = fr[1].got
  /\ f2[s].completed = IF fr[1].state = Nil THEN s ELSE f[fr[1].state].completed
  /\ f2[s].first_state = IF fr[1].state = Nil THEN Nil ELSE f[fr[1].state].completed
  /\ \A t \in States \ {s} :
       /\ f2[t].exists = f[t].exists /\ f2[t].instance = f[t].instance
       /\ f2[t].awaits = f[t].awaits /\ f2[t].completed = f[t].completed
       /\ f2[t].first_state = f[t].first_state
       /\ IF t = fr[1].state THEN ~ f2[t].function ELSE f2[t] = f[t]

(* g are the frames below the top of fr, a caller among them given s. *)
ToCaller(fr, s, g) ==
  /\ Len(g) = Len(fr) - 1
  /\ \A i \in 1..Len(g) :
       /\ g[i].kind = fr[i + 1].kind /\ g[i].instance = fr[i + 1].instance
       /\ g[i].state = fr[i + 1].state /\ g[i].pc = fr[i + 1].pc
       /\ g[i].todo = fr[i + 1].todo
       /\ g[i].got = IF i = 1 /\ fr[2].kind = "call" THEN s ELSE Nil


(* A call awaits: a new state s takes its stack over and waits for src; if *)
(* it was a state's, that one is spent.  g are the frames left, the caller *)
(* among them given s.                                                     *)
LEMMA SoundAwaited ==
  ASSUME NEW f, NEW C, NEW I, NEW fr, Sound(f, C, I, fr),
         fr # <<>>, fr[1].kind = "call", fr[1].pc = "run",
         NEW src \in Sources, IF fr[1].got = Nil THEN src \in Signals ELSE src = fr[1].got,
         NEW s \in States, ~ f[s].exists,
         NEW f2 \in [States -> StateRecord],
         HoldsCall(f, fr, s, f2),
         NEW g \in Seq(FrameRecord), ToCaller(fr, s, g)
  PROVE  Sound(f2, C \cup {<<src, s>>}, I, g)
<1> USE DEF HoldsCall, ToCaller
<1> DEFINE st == fr[1].state
           D == C \cup {<<src, s>>}
<1>1. f \in [States -> StateRecord] /\ fr \in Seq(FrameRecord) /\ C \subseteq Sources \X States
  BY DEF Sound, Typed
<1>2. /\ Len(fr) \in Nat \ {0}
      /\ \A i \in 1..Len(g) : i + 1 \in 1..Len(fr) /\ i + 1 # 1
      /\ \A i \in 1..Len(fr) : i # 1 => i - 1 \in 1..Len(g) /\ (i - 1) + 1 = i
  BY <1>1, EmptySeq
<1>3. \A i \in 1..Len(fr) : fr[i].state \in States \cup {Nil} /\ fr[i].got \in States \cup {Nil}
  BY <1>1, FrameFields
<1>4. \A x, t : <<x, t>> \in D <=> <<x, t>> \in C \/ (x = src /\ t = s)
  OBVIOUS
<1>5. 1 \in 1..Len(fr) /\ fr[1].todo = {} /\ st \in States \cup {Nil} /\ s # Nil
  BY <1>2, <1>3, StateAssumption DEF Sound, Shaped
<1>6. \A t \in States : f[t].function \/ f[t].in_script => f[t].exists
  BY DEF Sound, Absent, Free
<1>7. /\ \A i \in 1..Len(fr) : fr[i].state # s
      /\ \A i \in 1..Len(fr) : fr[i].got # s
      /\ st # s
  <2>1. \A i \in 1..Len(fr) : fr[i].state # s
    BY <1>5 DEF Sound, Held
  <2>2. \A i \in 1..Len(fr) : fr[i].got # s
    BY <1>5, <1>6 DEF Sound, Given
  <2> QED
    BY <2>1, <2>2, <1>5
(* A resumed call is not called by a script function.                      *)
<1>8. st # Nil => \A i \in 1..Len(g) : g[i].got = Nil
  <2>1. \A i \in 1..Len(g) : i = 1 => 1 < Len(fr)
    BY <1>2
  <2>2. st # Nil /\ 1 < Len(fr) => fr[2].kind # "call"
    BY <1>5 DEF Sound, Shaped
  <2> QED
    BY <2>1, <2>2
<1>9. st # Nil => /\ st \in States /\ f[st].exists /\ f[st].function /\ ~ f[st].in_script
                  /\ f[st].instance = fr[1].instance
                  /\ f[st].completed \in States
                  /\ f[f[st].completed].exists
                  /\ f[f[st].completed].instance = fr[1].instance
  <2> SUFFICES ASSUME st # Nil
               PROVE  /\ st \in States /\ f[st].exists /\ f[st].function /\ ~ f[st].in_script
                      /\ f[st].instance = fr[1].instance
                      /\ f[st].completed \in States
                      /\ f[f[st].completed].exists
                      /\ f[f[st].completed].instance = fr[1].instance
    OBVIOUS
  <2>1. /\ st \in States /\ f[st].exists /\ f[st].function /\ ~ f[st].in_script
        /\ f[st].instance = fr[1].instance
    BY <1>5 DEF Sound, Held
  <2>2. f[st].first_state \in States \cup {Nil}
    BY <2>1, <1>1 DEF StateRecord
  <2> QED
    BY <2>1, <2>2 DEF Sound, KeepsFirst
<1> HIDE DEF D, st
<1>10. Typed(f2, D, I, g)
  BY DEF Sound, Typed, D
<1>11. Absent(f2)
  <2> SUFFICES ASSUME NEW t \in States, ~ f2[t].exists
               PROVE  f2[t] = Free
    BY DEF Absent
  <2>1. t # s /\ ~ f[t].exists /\ t # Nil
    BY StateAssumption
  <2>2. t # st
    BY <2>1, <1>9
  <2> QED
    BY <2>1, <2>2 DEF Sound, Absent, st
<1>12. Shaped(g)
  <2> SUFFICES ASSUME NEW j \in 1..Len(g)
               PROVE  /\ g[j].kind = "emit" =>
                           /\ g[j].state = Nil /\ g[j].instance = Nil
                           /\ g[j].got = Nil /\ g[j].pc = "run"
                      /\ g[j].kind = "call" => g[j].todo = {}
                      /\ g[j].got # Nil => j = 1
                      /\ g[j].pc = "emit" => g[j].state # Nil
                      /\ g[j].state # Nil /\ j < Len(g) => g[j + 1].kind = "emit"
    BY DEF Shaped
  <2>1. j + 1 \in 1..Len(fr)
    BY <1>2
  <2>2. j < Len(g) => j + 1 \in 1..Len(g) /\ j + 1 < Len(fr)
    BY <1>2
  <2>3. g[j].got # Nil => j = 1 /\ g[j].kind = "call"
    OBVIOUS
  <2>4. /\ g[j].kind = "emit" => g[j].state = Nil /\ g[j].instance = Nil /\ g[j].pc = "run"
        /\ g[j].kind = "call" => g[j].todo = {}
        /\ g[j].pc = "emit" => g[j].state # Nil
        /\ g[j].state # Nil /\ j + 1 < Len(fr) => fr[(j + 1) + 1].kind = "emit"
    <3> DEFINE k == j + 1
    <3>1. /\ g[j].kind = fr[k].kind /\ g[j].instance = fr[k].instance
          /\ g[j].state = fr[k].state /\ g[j].pc = fr[k].pc
          /\ g[j].todo = fr[k].todo
      OBVIOUS
    <3>2. k \in 1..Len(fr)
      BY <2>1
    <3>3. /\ fr[k].kind = "emit" => fr[k].state = Nil /\ fr[k].instance = Nil /\ fr[k].pc = "run"
          /\ fr[k].kind = "call" => fr[k].todo = {}
          /\ fr[k].pc = "emit" => fr[k].state # Nil
          /\ fr[k].state # Nil /\ k < Len(fr) => fr[k + 1].kind = "emit"
      <4> HIDE DEF k
      <4> QED
        BY <3>2 DEF Sound, Shaped
    <3> QED
      BY <3>1, <3>3
  <2>5. g[j].state # Nil /\ j < Len(g) => g[j + 1].kind = "emit"
    <3>2. j < Len(g) => g[j + 1].kind = fr[(j + 1) + 1].kind
      BY <2>2
    <3> QED
      BY <2>2, <2>4, <3>2
  <2> QED
    BY <2>3, <2>4, <2>5
<1>13. OwnState(g)
  <2> SUFFICES ASSUME NEW i \in 1..Len(g), NEW j \in 1..Len(g),
                      g[i].state # Nil, g[i].state = g[j].state
               PROVE  i = j
    BY DEF OwnState
  <2>1. i + 1 \in 1..Len(fr) /\ j + 1 \in 1..Len(fr)
    BY <1>2
  <2>2. i + 1 = j + 1
    BY <2>1 DEF Sound, OwnState
  <2> QED
    BY <2>2
<1>14. \A i \in 1..Len(g) : g[i].state # Nil =>
          g[i].state \in States /\ g[i].state # st /\ f2[g[i].state] = f[g[i].state]
  <2> SUFFICES ASSUME NEW i \in 1..Len(g), g[i].state # Nil
               PROVE  g[i].state \in States /\ g[i].state # st /\ f2[g[i].state] = f[g[i].state]
    OBVIOUS
  <2>1. i + 1 \in 1..Len(fr) /\ i + 1 # 1
    BY <1>2
  <2>2. g[i].state \in States /\ g[i].state # s
    BY <2>1, <1>3, <1>7
  <2>3. g[i].state # st
    BY <2>1, <1>5 DEF Sound, OwnState, st
  <2> QED
    BY <2>2, <2>3 DEF st
<1>15. Held(f2, g)
  BY <1>2, <1>14 DEF Sound, Held
<1>16. KeepsFirst(f2)
  <2> SUFFICES ASSUME NEW t \in States, f2[t].exists
               PROVE  /\ f2[t].completed = IF f2[t].first_state = Nil THEN t
                                           ELSE f2[t].first_state
                      /\ f2[f2[t].completed].exists
                      /\ f2[f2[t].completed].instance = f2[t].instance
    BY DEF KeepsFirst
  <2>1. \A c \in States : f[c].exists => f2[c].exists /\ f2[c].instance = f[c].instance
    OBVIOUS
  <2>2. CASE t = s /\ st = Nil
    BY <2>2 DEF st
  <2>3. CASE t = s /\ st # Nil
    BY <2>3, <2>1, <1>9, StateAssumption DEF st
  <2>4. CASE t # s
    <3>1. f[t].exists /\ f[t].first_state \in States \cup {Nil}
      BY <2>4, <1>1 DEF StateRecord
    <3>2. f[t].completed \in States /\ f[f[t].completed].exists
          /\ f[f[t].completed].instance = f[t].instance
      BY <3>1 DEF Sound, KeepsFirst
    <3> QED
      BY <2>4, <3>1, <3>2, <2>1 DEF Sound, KeepsFirst
  <2> QED
    BY <2>2, <2>3, <2>4
<1>17. \A t \in States : f2[t].function => t = s \/ (t # s /\ t # st /\ f2[t] = f[t])
  BY DEF st
(* The continuation is the only one: a new coroutine's, or the spent one's. *)
<1>18. ASSUME NEW t \in States, t # s, t # st, f[t].function
       PROVE  f[t].completed # f2[s].completed
  <2>1. CASE st = Nil
    <3>1. f[t].exists /\ f[f[t].completed].exists
      BY <1>6, <1>18 DEF Sound, KeepsFirst
    <3> QED
      BY <2>1, <3>1 DEF st
  <2>2. CASE st # Nil
    BY <2>2, <1>9, <1>18 DEF Sound, OnePlace, st
  <2> QED
    BY <2>1, <2>2
<1>19. OnePlace(f2)
  <2> SUFFICES ASSUME NEW t \in States, NEW u \in States, f2[t].function, f2[u].function,
                      f2[t].completed = f2[u].completed
               PROVE  t = u
    BY DEF OnePlace
  <2>1. CASE t = s /\ u # s
    BY <2>1, <1>17, <1>18
  <2>2. CASE t # s /\ u = s
    BY <2>2, <1>17, <1>18
  <2>3. CASE t # s /\ u # s
    BY <2>3, <1>17 DEF Sound, OnePlace
  <2> QED
    BY <2>1, <2>2, <2>3
<1>20. \A t \in States : CanRun(f2, t) => t = s \/ (t # s /\ t # st /\ f2[t] = f[t] /\ CanRun(f, t))
  BY <1>17 DEF CanRun
<1>21. \A t \in States : CanRun(f, t) /\ t # st => t # s /\ f2[t] = f[t] /\ CanRun(f2, t)
  BY <1>6 DEF CanRun, st
<1>22. CanRun(f2, s)
  BY DEF CanRun
<1>23. Ready(f2)
  BY <1>20 DEF Sound, Ready
(* What is awaited is the state that was given.                            *)
<1>24. src \in States => /\ src = fr[1].got /\ src # Nil
                         /\ f[src].function /\ f[src].in_script /\ f[src].completed = src
                         /\ f[src].instance \in I \cup {Nil} => CanRun(f, src)
                         /\ CanRun(f, src) => \E x \in Sources : <<x, src>> \in C
  <2> SUFFICES ASSUME src \in States
               PROVE  /\ src = fr[1].got /\ src # Nil
                      /\ f[src].function /\ f[src].in_script /\ f[src].completed = src
                      /\ f[src].instance \in I \cup {Nil} => CanRun(f, src)
                      /\ CanRun(f, src) => \E x \in Sources : <<x, src>> \in C
    OBVIOUS
  <2>1. src = fr[1].got /\ src # Nil
    BY StateAssumption
  <2> QED
    BY <2>1, <1>5 DEF Sound, Given
<1>25. Connected(f2, D)
  <2> SUFFICES ASSUME NEW x \in Sources, NEW t \in States, <<x, t>> \in D
               PROVE  f2[t].exists /\ (x \in States => f2[x].exists /\ f2[t].awaits = x)
    BY DEF Connected
  <2>1. CASE <<x, t>> \in C
    <3>1. f[t].exists /\ (x \in States => f[x].exists /\ f[t].awaits = x)
      BY <2>1 DEF Sound, Connected
    <3> QED
      BY <3>1
  <2>2. CASE x = src /\ t = s
    <3>1. x \in States => f[x].exists /\ x # s
      BY <2>2, <1>24, <1>6
    <3> QED
      BY <2>2, <3>1, <1>24
  <2> QED
    BY <2>1, <2>2, <1>4
<1>26. Emitted(f2, D, g)
  <2> SUFFICES ASSUME NEW i \in 1..Len(g), NEW w \in States, g[i].pc = "emit",
                      <<f2[g[i].state].completed, w>> \in D
               PROVE  FALSE
    BY DEF Emitted
  <2> DEFINE t == g[i].state
  <2>1. i + 1 \in 1..Len(fr) /\ t = fr[i + 1].state /\ fr[i + 1].pc = "emit"
    BY <1>2
  <2>2. t # Nil
    BY <1>12 DEF Shaped
  <2>3. t \in States /\ f2[t] = f[t]
    BY <2>2, <1>14
  <2>4. <<f[t].completed, w>> \notin C
    BY <2>1 DEF Sound, Emitted
  <2>5. f[t].completed = src
    BY <2>3, <2>4, <1>4
  <2>6. f[t].exists /\ f[t].function /\ ~ f[t].in_script
    BY <2>1, <2>2 DEF Sound, Held
  <2>7. src \in States
    BY <2>3, <2>5, <2>6, <1>1 DEF Sound, KeepsFirst, StateRecord
  <2>8. t = src
    BY <2>3, <2>5, <2>6, <2>7, <1>24 DEF Sound, OnePlace
  <2> QED
    BY <2>6, <2>7, <2>8, <1>24
<1>27. Given(f2, D, I, g)
  <2> SUFFICES ASSUME NEW i \in 1..Len(g), g[i].got # Nil
               PROVE  LET h == g[i].got
                      IN /\ f2[h].function /\ f2[h].in_script /\ f2[h].completed = h
                         /\ f2[h].instance \in I \cup {Nil} => CanRun(f2, h)
                         /\ CanRun(f2, h) => \E x \in Sources : <<x, h>> \in D
    BY DEF Given
  <2>1. g[i].got = s /\ st = Nil
    BY <1>8
  <2> QED
    BY <2>1, <1>4, <1>22 DEF st
<1>28. Woken(f2, D, I, g)
  <2> SUFFICES ASSUME NEW c \in States, NEW w \in States, <<c, w>> \in D, CanRun(f2, w),
                      f2[c].instance \in I \cup {Nil}
               PROVE  GoesOn(f2, D, g, c)
    BY DEF Woken
  <2>1. CASE <<c, w>> \in C
    <3>1. f[c].exists /\ f[w].exists /\ c # s /\ w # s
      BY <2>1 DEF Sound, Connected, Sources
    <3>2. CanRun(f, w) /\ f[c].instance \in I \cup {Nil}
      BY <3>1, <1>20
    <3>3. PICK t \in States :
            /\ f[t].function /\ f[t].completed = c
            /\ WillRun(f, C, fr, t) \/ \E i \in 1..Len(fr) : fr[i].state = t
      BY <2>1, <3>2 DEF Sound, Woken, GoesOn
    <3>4. CASE t = st
      <4>1. f2[s].completed = c
        BY <3>3, <3>4, StateAssumption DEF st
      <4>2. WillRun(f2, D, g, s)
        BY <1>4, <1>22 DEF WillRun
      <4> QED
        BY <4>1, <4>2 DEF GoesOn
    <3>5. CASE t # st
      <4>1. t # s /\ f2[t] = f[t] /\ t # Nil
        BY <3>3, <3>5, <1>6, StateAssumption DEF st
      <4>2. CASE WillRun(f, C, fr, t)
        <5>1. CanRun(f2, t)
          BY <3>5, <4>2, <1>21 DEF WillRun
        <5>2. \A i \in 1..Len(fr) : t \in fr[i].todo => i # 1
          BY <1>5
        <5>3. \A i \in 1..Len(fr) : i # 1 => i - 1 \in 1..Len(g) /\ g[i - 1].todo = fr[i].todo
          BY <1>2
        <5>4. WillRun(f2, D, g, t)
          BY <4>2, <5>1, <5>2, <5>3, <1>4, ZenonT(60) DEF WillRun
        <5> QED
          BY <3>3, <4>1, <5>4 DEF GoesOn
      <4>3. CASE \E i \in 1..Len(fr) : fr[i].state = t
        <5>1. \E i \in 1..Len(g) : g[i].state = t
          <6>1. PICK i \in 1..Len(fr) : fr[i].state = t
            BY <4>3
          <6>2. i # 1
            BY <6>1, <3>5 DEF st
          <6>3. i - 1 \in 1..Len(g) /\ g[i - 1].state = fr[(i - 1) + 1].state
            BY <6>2, <1>2
          <6> QED
            BY <6>1, <6>2, <6>3, <1>2
        <5> QED
          BY <3>3, <4>1, <5>1 DEF GoesOn
      <4> QED
        BY <3>3, <4>2, <4>3
    <3> QED
      BY <3>4, <3>5
  <2>2. CASE c = src /\ w = s
    <3>1. /\ f[c].function /\ f[c].in_script /\ f[c].completed = c
          /\ f[c].instance \in I \cup {Nil} => CanRun(f, c)
          /\ CanRun(f, c) => \E x \in Sources : <<x, c>> \in C
      BY <2>2, <1>24
    <3>2. c # st /\ c # s
      BY <3>1, <1>6, <1>9, StateAssumption
    <3>3. f2[c] = f[c]
      BY <3>2 DEF st
    <3>4. CanRun(f2, c)
      BY <3>1, <3>2, <3>3, <1>21
    <3>5. WillRun(f2, D, g, c)
      BY <3>1, <3>3, <3>4, <1>4 DEF WillRun
    <3> QED
      BY <3>1, <3>3, <3>5 DEF GoesOn
  <2> QED
    BY <2>1, <2>2, <1>4
<1> QED
  BY <1>10, <1>11, <1>12, <1>13, <1>15, <1>16, <1>19, <1>23, <1>25, <1>26, <1>27, <1>28
     DEF Sound, D


-----------------------------------------------------------------------------
(***************************************************************************)
(* The frames and the call stack, kinds only: a call is pushed and         *)
(* entered, an emission pushed or popped, a call left and exited.          *)
(***************************************************************************)
SameBelow(fr, g, n) == \A h \in 1..n : KindAt(g, h) = KindAt(fr, h)

Entering(cs, fr, cs2, g) ==
  /\ Len(g) = Len(fr) + 1 /\ KindAt(g, Len(g)) = "call" /\ SameBelow(fr, g, Len(fr))
  /\ cs2 = IF Len(cs) >= MaxCallStack THEN cs ELSE <<Len(g)>> \o cs

Emitting(cs, fr, cs2, g) ==
  /\ Len(g) = Len(fr) + 1 /\ KindAt(g, Len(g)) = "emit" /\ SameBelow(fr, g, Len(fr))
  /\ cs2 = cs

Staying(cs, fr, cs2, g) ==
  Len(g) = Len(fr) /\ SameBelow(fr, g, Len(fr)) /\ cs2 = cs

Emitting_ends(cs, fr, cs2, g) ==
  /\ Len(fr) >= 1 /\ Len(g) = Len(fr) - 1 /\ SameBelow(fr, g, Len(g))
  /\ KindAt(fr, Len(fr)) = "emit"
  /\ cs2 = cs

Exiting(cs, fr, cs2, g) ==
  /\ Len(g) < Len(fr) /\ SameBelow(fr, g, Len(g))
  /\ \A h \in Len(g) + 2..Len(fr) : KindAt(fr, h) = "emit"
  /\ KindAt(fr, Len(g) + 1) = "call"
  /\ cs2 = exit_function(cs)

StackStep(cs, fr, cs2, g) ==
  \/ Entering(cs, fr, cs2, g) \/ Emitting(cs, fr, cs2, g) \/ Staying(cs, fr, cs2, g)
  \/ Emitting_ends(cs, fr, cs2, g) \/ Exiting(cs, fr, cs2, g)

(* exit_function leaves all levels but the newest. *)
LEMMA ExitedLevels ==
  ASSUME NEW cs \in Seq(Nat)
  PROVE  /\ exit_function(cs) \in Seq(Nat)
         /\ cs = <<>> => exit_function(cs) = <<>>
         /\ cs # <<>> => /\ Len(cs) \in Nat \ {0}
                         /\ Len(exit_function(cs)) = Len(cs) - 1
                         /\ \A i \in 1..Len(cs) - 1 :
                              i + 1 \in 1..Len(cs) /\ exit_function(cs)[i] = cs[i + 1]
<1>1. CASE cs = <<>>
  BY <1>1 DEF exit_function
<1>2. CASE cs # <<>>
  BY <1>2, Popped DEF exit_function
<1> QED
  BY <1>1, <1>2

(* A height on the call stack stays that of a call: an exit takes the      *)
(* newest away, and the others are below it.                               *)
LEMMA LevelsKept ==
  ASSUME NEW cs, NEW fr \in Seq(FrameRecord), NEW cs2, NEW g \in Seq(FrameRecord),
         Levels(cs, fr), StackStep(cs, fr, cs2, g)
  PROVE  Levels(cs2, g)
<1>1. cs \in Seq(Nat) /\ Len(fr) \in Nat /\ Len(g) \in Nat /\ Len(cs) \in Nat
  BY DEF Levels
<1>9. \A a, b \in 1..Len(cs) : a < b => cs[a] - cs[b] >= b - a
  BY DEF Levels
<1>2. CASE Entering(cs, fr, cs2, g) /\ Len(cs) < MaxCallStack
  <2>1. cs2 = <<Len(g)>> \o cs
    BY <1>1, <1>2, StateAssumption DEF Entering
  <2>2. /\ cs2 \in Seq(Nat) /\ Len(cs2) = Len(cs) + 1 /\ cs2[1] = Len(g)
        /\ \A j \in 1..Len(cs) + 1 : j # 1 => j - 1 \in 1..Len(cs) /\ cs2[j] = cs[j - 1]
    BY <1>1, <2>1, Pushed
  <2>3. \A j \in 1..Len(cs2) : cs2[j] \in 1..Len(g) /\ KindAt(g, cs2[j]) = "call"
    <3> SUFFICES ASSUME NEW j \in 1..Len(cs2)
                 PROVE  cs2[j] \in 1..Len(g) /\ KindAt(g, cs2[j]) = "call"
      OBVIOUS
    <3>1. CASE j = 1
      BY <1>1, <1>2, <2>2, <3>1 DEF Entering
    <3>2. CASE j # 1
      <4>1. j - 1 \in 1..Len(cs) /\ cs2[j] = cs[j - 1]
        BY <2>2, <3>2
      <4>2. cs[j - 1] \in 1..Len(fr) /\ KindAt(fr, cs[j - 1]) = "call"
        BY <4>1 DEF Levels
      <4> QED
        BY <1>1, <1>2, <4>1, <4>2 DEF Entering, SameBelow
    <3> QED
      BY <3>1, <3>2
  <2>4. ASSUME NEW i \in 1..Len(cs2), NEW j \in 1..Len(cs2), i < j
        PROVE  cs2[i] - cs2[j] >= j - i
    <3>1. j - 1 \in 1..Len(cs) /\ cs2[j] = cs[j - 1]
      BY <1>1, <2>2, <2>4
    <3>2. CASE i = 1
      <4>1. 1 \in 1..Len(cs) /\ cs[1] \in 1..Len(fr) /\ cs[j - 1] \in Nat
        BY <1>1, <3>1 DEF Levels
      <4>2. 1 < j - 1 => cs[1] - cs[j - 1] >= (j - 1) - 1
        BY <4>1, <3>1 DEF Levels
      <4> QED
        BY <1>1, <1>2, <2>2, <3>1, <3>2, <4>1, <4>2, SMTT(60) DEF Entering
    <3>3. CASE i # 1
      <4>1. i - 1 \in 1..Len(cs) /\ cs2[i] = cs[i - 1]
        BY <1>1, <2>2, <3>3
      <4>2. cs[i - 1] - cs[j - 1] >= (j - 1) - (i - 1)
        <5>1. i - 1 < j - 1
          BY <2>2, <2>4
        <5> QED
          BY <3>1, <4>1, <5>1, <1>9
      <4> QED
        BY <1>1, <3>1, <4>1, <4>2
    <3> QED
      BY <3>2, <3>3
  <2> QED
    BY <2>2, <2>3, <2>4 DEF Levels
<1>3. CASE Entering(cs, fr, cs2, g) /\ Len(cs) >= MaxCallStack
  BY <1>1, <1>3, StateAssumption DEF Levels, Entering, SameBelow
<1>4. CASE Emitting(cs, fr, cs2, g)
  BY <1>1, <1>4 DEF Levels, Emitting, SameBelow
<1>5. CASE Staying(cs, fr, cs2, g)
  BY <1>1, <1>5 DEF Levels, Staying, SameBelow
<1>6. CASE Emitting_ends(cs, fr, cs2, g)
  <2>1. \A i \in 1..Len(cs) : cs[i] \in 1..Len(g)
    <3> SUFFICES ASSUME NEW i \in 1..Len(cs)
                 PROVE  cs[i] \in 1..Len(g)
      OBVIOUS
    <3>1. cs[i] \in 1..Len(fr) /\ KindAt(fr, cs[i]) = "call"
      BY DEF Levels
    <3>2. cs[i] # Len(fr)
      BY <3>1, <1>6 DEF Emitting_ends
    <3> QED
      BY <1>1, <1>6, <3>1, <3>2 DEF Emitting_ends
  <2> QED
    BY <1>1, <1>6, <2>1 DEF Levels, Emitting_ends, SameBelow
<1>7. CASE Exiting(cs, fr, cs2, g) /\ cs # <<>>
  <2>1. /\ cs2 \in Seq(Nat) /\ Len(cs) >= 1 /\ Len(cs2) = Len(cs) - 1
        /\ \A i \in 1..Len(cs2) : i + 1 \in 1..Len(cs) /\ cs2[i] = cs[i + 1]
    <3>1. cs2 = exit_function(cs)
      BY <1>7 DEF Exiting
    <3>2. /\ cs2 \in Seq(Nat) /\ Len(cs) \in Nat \ {0} /\ Len(cs2) = Len(cs) - 1
          /\ \A i \in 1..Len(cs) - 1 : i + 1 \in 1..Len(cs) /\ cs2[i] = cs[i + 1]
      BY <1>1, <1>7, <3>1, ExitedLevels
    <3> QED
      BY <3>2
  <2>2. cs[1] \in 1..Len(g) + 1
    <3>1. 1 \in 1..Len(cs)
      BY <1>1, <2>1
    <3>2. cs[1] \in 1..Len(fr) /\ KindAt(fr, cs[1]) = "call"
      BY <3>1 DEF Levels
    <3>3. cs[1] \notin Len(g) + 2..Len(fr)
      BY <1>7, <3>2 DEF Exiting
    <3> QED
      BY <1>1, <3>2, <3>3
  <2>3. \A i \in 1..Len(cs2) : cs2[i] \in 1..Len(g) /\ KindAt(g, cs2[i]) = "call"
    <3> SUFFICES ASSUME NEW i \in 1..Len(cs2)
                 PROVE  cs2[i] \in 1..Len(g) /\ KindAt(g, cs2[i]) = "call"
      OBVIOUS
    <3>1. /\ i + 1 \in 1..Len(cs) /\ 1 \in 1..Len(cs) /\ i \in Nat \ {0}
          /\ cs2[i] = cs[i + 1]
      BY <1>1, <2>1
    <3>2. /\ cs[1] - cs[i + 1] >= (i + 1) - 1
          /\ cs[i + 1] \in 1..Len(fr) /\ KindAt(fr, cs[i + 1]) = "call"
      BY <3>1 DEF Levels
    <3>3. cs2[i] \in 1..Len(g)
      BY <1>1, <2>2, <3>1, <3>2, SMTT(60)
    <3> QED
      BY <1>7, <3>1, <3>2, <3>3 DEF Exiting, SameBelow
  <2>4. ASSUME NEW i \in 1..Len(cs2), NEW j \in 1..Len(cs2), i < j
        PROVE  cs2[i] - cs2[j] >= j - i
    <3>1. /\ i + 1 \in 1..Len(cs) /\ j + 1 \in 1..Len(cs)
          /\ cs2[i] = cs[i + 1] /\ cs2[j] = cs[j + 1]
      BY <2>1
    <3>2. i + 1 < j + 1
      <4>1. i \in Nat /\ j \in Nat
        BY <2>1
      <4> QED
        BY <2>4, <4>1
    <3>3. cs[i + 1] - cs[j + 1] >= (j + 1) - (i + 1)
      BY <3>1, <3>2, <1>9
    <3>4. cs[i + 1] \in Nat /\ cs[j + 1] \in Nat
      BY <3>1, <1>1, ElementOfSeq
    <3> QED
      BY <1>1, <2>1, <3>1, <3>3, <3>4
  <2> QED
    BY <2>1, <2>3, <2>4 DEF Levels
<1>8. CASE Exiting(cs, fr, cs2, g) /\ cs = <<>>
  <2>1. cs2 = <<>>
    BY <1>8 DEF Exiting, exit_function
  <2> QED
    BY <2>1 DEF Levels
<1> QED
  BY <1>1, <1>2, <1>3, <1>4, <1>5, <1>6, <1>7, <1>8, StateAssumption DEF StackStep

(* The heights of the calls. *)
Calls(fr) == {h \in 1..Len(fr) : KindAt(fr, h) = "call"}

(* A call stack that leaves no call out has as many levels as calls run. *)
LEMMA LevelPerCall ==
  ASSUME NEW cs, NEW fr \in Seq(FrameRecord), Levels(cs, fr), AllEntered(cs, fr)
  PROVE  /\ cs \in Seq(Nat) /\ Len(cs) \in Nat
         /\ IsFiniteSet(Calls(fr)) /\ Cardinality(Calls(fr)) = Len(cs)
<1> DEFINE n == Len(cs)
           b == [i \in 1..n |-> cs[i]]
<1>1. cs \in Seq(Nat) /\ n \in Nat
  BY DEF Levels
<1>2. b \in [1..n -> Calls(fr)]
  BY DEF Levels, Calls
<1>3. \A h \in Calls(fr) : \E i \in 1..n : b[i] = h
  BY DEF AllEntered, Calls
<1>4. ASSUME NEW i \in 1..n, NEW j \in 1..n, i # j
      PROVE  b[i] # b[j]
  <2>1. cs[i] \in Nat /\ cs[j] \in Nat /\ i \in Nat /\ j \in Nat
    BY <1>1, ElementOfSeq
  <2>2. CASE i < j
    <3>1. cs[i] - cs[j] >= j - i
      BY <2>2 DEF Levels
    <3> QED
      BY <2>1, <2>2, <3>1
  <2>3. CASE j < i
    <3>1. cs[j] - cs[i] >= i - j
      BY <2>3 DEF Levels
    <3> QED
      BY <2>1, <2>3, <3>1
  <2> QED
    BY <1>4, <2>1, <2>2, <2>3
<1> HIDE DEF b
<1>5. b \in Bijection(1..n, Calls(fr))
  BY <1>2, <1>3, <1>4 DEF Bijection, Injection, Surjection, IsInjective
<1>6. ExistsBijection(1..n, Calls(fr))
  BY <1>5 DEF ExistsBijection
<1> QED
  BY <1>1, <1>6, FS_NatBijection, FS_CountingElements

(* With room for every call that runs, none is left out: what is exited is *)
(* the level of the call that is left.                                     *)
LEMMA AllEnteredKept ==
  ASSUME NEW cs, NEW fr \in Seq(FrameRecord), NEW cs2, NEW g \in Seq(FrameRecord),
         Levels(cs, fr), AllEntered(cs, fr), StackStep(cs, fr, cs2, g),
         Cardinality(Calls(g)) <= MaxCallStack
  PROVE  AllEntered(cs2, g)
<1>1. cs \in Seq(Nat) /\ Len(fr) \in Nat /\ Len(g) \in Nat /\ Len(cs) \in Nat
  BY DEF Levels
<1>2. Entering(cs, fr, cs2, g) => Len(cs) < MaxCallStack
  <2> SUFFICES ASSUME Entering(cs, fr, cs2, g)
               PROVE  Len(cs) < MaxCallStack
    OBVIOUS
  <2>1. Calls(g) = Calls(fr) \cup {Len(g)} /\ Len(g) \notin Calls(fr)
    BY <1>1 DEF Entering, SameBelow, Calls
  <2>2. IsFiniteSet(Calls(fr)) /\ Cardinality(Calls(fr)) = Len(cs)
    BY LevelPerCall
  <2>3. Cardinality(Calls(g)) = Len(cs) + 1
    BY <2>1, <2>2, FS_AddElement
  <2> QED
    BY <1>1, <2>3, StateAssumption
<1>3. CASE Entering(cs, fr, cs2, g)
  <2>1. cs2 = <<Len(g)>> \o cs
    BY <1>1, <1>2, <1>3, StateAssumption DEF Entering
  <2>2. /\ Len(cs2) = Len(cs) + 1 /\ cs2[1] = Len(g)
        /\ \A i \in 1..Len(cs) : cs2[i + 1] = cs[i]
    <3>1. Len(g) \in Nat
      BY <1>1
    <3> QED
      BY <1>1, <2>1, <3>1, Pushed
  <2> SUFFICES ASSUME NEW h \in 1..Len(g), KindAt(g, h) = "call"
               PROVE  \E i \in 1..Len(cs2) : cs2[i] = h
    BY DEF AllEntered
  <2>3. CASE h = Len(g)
    <3>1. 1 \in 1..Len(cs2)
      BY <1>1, <2>2
    <3> QED
      BY <2>2, <2>3, <3>1
  <2>4. CASE h # Len(g)
    <3>1. h \in 1..Len(fr) /\ KindAt(fr, h) = "call"
      BY <1>1, <1>3, <2>4 DEF Entering, SameBelow
    <3>2. PICK i \in 1..Len(cs) : cs[i] = h
      BY <3>1 DEF AllEntered
    <3>3. i + 1 \in 1..Len(cs2) /\ cs2[i + 1] = h
      BY <1>1, <2>2, <3>2
    <3> QED
      BY <3>3
  <2> QED
    BY <2>3, <2>4
<1>4. CASE Emitting(cs, fr, cs2, g)
  <2> SUFFICES ASSUME NEW h \in 1..Len(g), KindAt(g, h) = "call"
               PROVE  \E i \in 1..Len(cs2) : cs2[i] = h
    BY DEF AllEntered
  <2>1. h # Len(g)
    BY <1>4 DEF Emitting
  <2>2. h \in 1..Len(fr) /\ KindAt(fr, h) = "call"
    BY <1>1, <1>4, <2>1 DEF Emitting, SameBelow
  <2> QED
    BY <1>4, <2>2 DEF AllEntered, Emitting
<1>5. CASE Staying(cs, fr, cs2, g)
  BY <1>5 DEF AllEntered, Staying, SameBelow
<1>6. CASE Emitting_ends(cs, fr, cs2, g)
  <2>1. \A h \in 1..Len(g) : h \in 1..Len(fr)
    BY <1>1, <1>6 DEF Emitting_ends
  <2> QED
    BY <1>6, <2>1 DEF AllEntered, Emitting_ends, SameBelow
<1>7. CASE Exiting(cs, fr, cs2, g)
  <2> SUFFICES ASSUME NEW h \in 1..Len(g), KindAt(g, h) = "call"
               PROVE  \E i \in 1..Len(cs2) : cs2[i] = h
    BY DEF AllEntered
  <2>1. h \in 1..Len(fr) /\ KindAt(fr, h) = "call" /\ h < Len(g) + 1
    BY <1>1, <1>7 DEF Exiting, SameBelow
  <2>2. PICK i \in 1..Len(cs) : cs[i] = h
    BY <2>1 DEF AllEntered
  <2>3. PICK k \in 1..Len(cs) : cs[k] = Len(g) + 1
    <3>1. Len(g) + 1 \in 1..Len(fr) /\ KindAt(fr, Len(g) + 1) = "call"
      BY <1>1, <1>7 DEF Exiting
    <3> QED
      BY <3>1 DEF AllEntered
  <2>4. cs # <<>>
    BY <2>2
(* The level that is exited is not the first one.                          *)
  <2>5. i # 1
    <3> SUFFICES ASSUME i = 1 PROVE FALSE
      OBVIOUS
    <3>1. k # 1
      BY <1>1, <2>1, <2>2, <2>3
    <3>2. i < k /\ k \in Nat
      BY <2>3, <3>1
    <3>3. cs[i] - cs[k] >= k - i
      BY <2>2, <2>3, <3>2 DEF Levels
    <3> QED
      BY <1>1, <2>1, <2>2, <2>3, <3>2, <3>3
  <2>6. /\ Len(cs2) = Len(cs) - 1
        /\ \A a \in 1..Len(cs) - 1 : cs2[a] = cs[a + 1]
    BY <1>1, <1>7, <2>4, ExitedLevels DEF Exiting
  <2>7. i - 1 \in 1..Len(cs) - 1 /\ (i - 1) + 1 = i
    BY <1>1, <2>2, <2>5
  <2>8. cs2[i - 1] = h
    BY <2>2, <2>6, <2>7
  <2> QED
    BY <2>6, <2>7, <2>8
<1> QED
  BY <1>3, <1>4, <1>5, <1>6, <1>7 DEF StackStep

-----------------------------------------------------------------------------
(***************************************************************************)
(* Every action: the invariant before the destructors, and the kinds.      *)
(***************************************************************************)

(* A frame put on top of frames of the same kinds. *)
LEMMA KindsPushed ==
  ASSUME NEW fr \in Seq(FrameRecord), NEW x \in FrameRecord, NEW b \in Seq(FrameRecord),
         Len(b) = Len(fr), \A i \in 1..Len(fr) : b[i].kind = fr[i].kind
  PROVE  LET g == <<x>> \o b
         IN /\ g \in Seq(FrameRecord) /\ Len(g) = Len(fr) + 1
            /\ KindAt(g, Len(g)) = x.kind /\ SameBelow(fr, g, Len(fr))
<1> DEFINE g == <<x>> \o b
<1>1. Len(fr) \in Nat
  OBVIOUS
<1>2. /\ g \in Seq(FrameRecord) /\ Len(g) = Len(fr) + 1 /\ g[1] = x
      /\ \A i \in 1..Len(fr) : g[i + 1] = b[i]
  BY Pushed
<1> HIDE DEF g
<1>3. KindAt(g, Len(g)) = x.kind
  <2>1. Len(g) - Len(g) + 1 = 1
    BY <1>1, <1>2
  <2> QED
    BY <1>2, <2>1 DEF KindAt
<1>4. SameBelow(fr, g, Len(fr))
  <2> SUFFICES ASSUME NEW h \in 1..Len(fr)
               PROVE  g[Len(g) - h + 1].kind = fr[Len(fr) - h + 1].kind
    BY DEF SameBelow, KindAt
  <2>1. /\ Len(fr) - h + 1 \in 1..Len(fr)
        /\ Len(g) - h + 1 = (Len(fr) - h + 1) + 1
    BY <1>1, <1>2
  <2> QED
    BY <1>2, <2>1
<1> QED
  BY <1>2, <1>3, <1>4 DEF g

(* Frames of the same kinds as those below the top. *)
LEMMA KindsPopped ==
  ASSUME NEW fr \in Seq(FrameRecord), fr # <<>>, NEW g \in Seq(FrameRecord),
         Len(g) = Len(fr) - 1, \A i \in 1..Len(g) : g[i].kind = fr[i + 1].kind
  PROVE  /\ SameBelow(fr, g, Len(g)) /\ Len(g) < Len(fr) /\ Len(fr) >= 1
         /\ Len(g) + 1 = Len(fr) /\ KindAt(fr, Len(fr)) = fr[1].kind
<1>1. Len(fr) \in Nat \ {0} /\ Len(g) \in Nat
  BY EmptySeq
<1>2. KindAt(fr, Len(fr)) = fr[1].kind
  <2>1. Len(fr) - Len(fr) + 1 = 1
    BY <1>1
  <2> QED
    BY <2>1 DEF KindAt
<1>3. SameBelow(fr, g, Len(g))
  <2> SUFFICES ASSUME NEW h \in 1..Len(g)
               PROVE  g[Len(g) - h + 1].kind = fr[Len(fr) - h + 1].kind
    BY DEF SameBelow, KindAt
  <2>1. /\ Len(g) - h + 1 \in 1..Len(g)
        /\ Len(fr) - h + 1 = (Len(g) - h + 1) + 1
    BY <1>1
  <2> QED
    BY <2>1
<1> QED
  BY <1>1, <1>2, <1>3

(* Frames of the same kinds. *)
LEMMA KindsSame ==
  ASSUME NEW fr \in Seq(FrameRecord), NEW g \in Seq(FrameRecord),
         Len(g) = Len(fr), \A i \in 1..Len(fr) : g[i].kind = fr[i].kind
  PROVE  SameBelow(fr, g, Len(fr))
<1> SUFFICES ASSUME NEW h \in 1..Len(fr)
             PROVE  g[Len(g) - h + 1].kind = fr[Len(fr) - h + 1].kind
  BY DEF SameBelow, KindAt
<1>1. Len(fr) - h + 1 \in 1..Len(fr)
  OBVIOUS
<1> QED
  BY <1>1

(* The first frame changed in a field. *)
LEMMA TopChanged ==
  ASSUME NEW fr \in Seq(FrameRecord), fr # <<>>, NEW x \in FrameRecord
  PROVE  LET g == <<x>> \o Tail(fr)
         IN /\ g \in Seq(FrameRecord) /\ Len(g) = Len(fr) /\ g[1] = x
            /\ \A i \in 1..Len(fr) : i # 1 => g[i] = fr[i]
<1> DEFINE g == <<x>> \o Tail(fr)
<1>1. /\ Len(fr) \in Nat \ {0} /\ Tail(fr) \in Seq(FrameRecord)
      /\ Len(Tail(fr)) = Len(fr) - 1
      /\ \A i \in 1..Len(fr) - 1 : Tail(fr)[i] = fr[i + 1]
  BY Popped
<1>2. /\ g \in Seq(FrameRecord) /\ Len(g) = Len(Tail(fr)) + 1 /\ g[1] = x
      /\ \A i \in 1..Len(Tail(fr)) : g[i + 1] = Tail(fr)[i]
  BY <1>1, Pushed
<1> HIDE DEF g
<1>3. \A i \in 1..Len(fr) : i # 1 => g[i] = fr[i]
  <2> SUFFICES ASSUME NEW i \in 1..Len(fr), i # 1
               PROVE  g[i] = fr[i]
    OBVIOUS
  <2>1. i - 1 \in 1..Len(fr) - 1 /\ (i - 1) + 1 = i
    BY <1>1
  <2> QED
    BY <1>1, <1>2, <2>1
<1> QED
  BY <1>1, <1>2, <1>3 DEF g

(* What each step of the proofs below has to show. *)
SoundStep ==
  /\ Sound(fst', connections', instances', frames')
  /\ StackStep(call_stack, frames, call_stack', frames')

(* The frame on top, and that nothing but it was given a state. *)
LEMMA TopFacts ==
  ASSUME IInv
  PROVE  /\ frames \in Seq(FrameRecord) /\ Len(frames) \in Nat
         /\ call_stack \in Seq(Nat)
         /\ frames # <<>> => /\ Len(frames) >= 1 /\ 1 \in 1..Len(frames)
                             /\ Top = frames[1] /\ frames[1] \in FrameRecord
         /\ (frames # <<>> => Top.got = Nil) =>
              \A i \in 1..Len(frames) : frames[i].got = Nil
         /\ \A i \in 1..Len(frames) : frames[i].kind = "emit" =>
              frames[i].state = Nil /\ frames[i].got = Nil /\ frames[i].pc = "run"
         /\ \A i \in 1..Len(frames) : frames[i].kind = "call" => frames[i].todo = {}
<1>1. frames \in Seq(FrameRecord) /\ call_stack \in Seq(Nat)
  BY DEF IInv, Sound, Typed, Levels
<1>2. Shaped(frames)
  BY DEF IInv, Sound
<1>3. frames # <<>> => /\ Len(frames) >= 1 /\ 1 \in 1..Len(frames)
                       /\ Top = frames[1] /\ frames[1] \in FrameRecord
  BY <1>1, Popped DEF Top
<1>4. (frames # <<>> => Top.got = Nil) => \A i \in 1..Len(frames) : frames[i].got = Nil
  BY <1>1, <1>2, <1>3 DEF Shaped
<1> QED
  BY <1>1, <1>2, <1>3, <1>4 DEF Shaped

(* Frames as script and engine make them have the fields they should. *)
LEMMA NewFrames ==
  /\ \A inst \in Instances \cup {Nil}, st \in States \cup {Nil} :
       /\ Call(inst, st) \in FrameRecord
       /\ Call(inst, st).kind = "call" /\ Call(inst, st).instance = inst
       /\ Call(inst, st).state = st /\ Call(inst, st).pc = "run"
       /\ Call(inst, st).got = Nil /\ Call(inst, st).todo = {}
  /\ \A S \in SUBSET States :
       /\ Emission(S) \in FrameRecord
       /\ Emission(S).kind = "emit" /\ Emission(S).instance = Nil
       /\ Emission(S).state = Nil /\ Emission(S).pc = "run"
       /\ Emission(S).got = Nil /\ Emission(S).todo = S
BY DEF Call, Emission, FrameRecord

(* A call begins. *)
LEMMA InvokeStep ==
  ASSUME IInv, NEW inst \in Instances \cup {Nil}, Invoke(inst)
  PROVE  SoundStep
<1> DEFINE x == Call(inst, Nil)
<1>1. /\ frames # <<>> => Top.got = Nil
      /\ Settle(fst, connections, <<x>> \o frames)
      /\ call_stack' = enter_function(Len(frames) + 1)
      /\ instances' = instances
  BY DEF Invoke
<1>2. /\ x \in FrameRecord /\ x.kind = "call" /\ x.state = Nil /\ x.got = Nil
      /\ x.pc = "run" /\ x.todo = {}
  BY NewFrames
<1> HIDE DEF x
<1>3. Sound(fst, connections, instances, <<x>> \o frames)
  BY <1>1, <1>2, TopFacts, SoundPushed DEF IInv
<1>4. Sound(fst', connections', instances', frames')
  BY <1>1, <1>3, SoundSettled
<1>5. frames' = <<x>> \o frames
  BY <1>1 DEF Settle
<1>6. /\ Len(frames') = Len(frames) + 1 /\ KindAt(frames', Len(frames')) = "call"
      /\ SameBelow(frames, frames', Len(frames))
  BY <1>2, <1>5, TopFacts, KindsPushed
<1>7. Entering(call_stack, frames, call_stack', frames')
  BY <1>1, <1>6 DEF Entering, enter_function
<1> QED
  BY <1>4, <1>7 DEF SoundStep, StackStep

(* A signal is emitted. *)
LEMMA EmitStep ==
  ASSUME IInv, NEW sig \in Signals, Emit(sig)
  PROVE  SoundStep
<1> DEFINE W == {s \in States : <<sig, s>> \in connections}
           D == {c \in connections : c[1] # sig}
           x == Emission(W)
<1>1. /\ frames # <<>> => Top.got = Nil
      /\ Settle(fst, D, <<x>> \o frames)
      /\ call_stack' = call_stack /\ instances' = instances
  BY DEF Emit, Waiting, Undone
<1>2. x \in FrameRecord /\ x.kind = "emit"
  BY NewFrames
<1>3. Sound(fst, D, instances, <<x>> \o frames)
  <2>1. sig \in Sources
    BY DEF Sources
  <2> QED
    BY <1>1, <2>1, TopFacts, SoundUndone DEF IInv
<1> HIDE DEF x, D
<1>4. Sound(fst', connections', instances', frames')
  BY <1>1, <1>3, SoundSettled
<1>5. frames' = <<x>> \o frames
  BY <1>1 DEF Settle
<1>6. /\ Len(frames') = Len(frames) + 1 /\ KindAt(frames', Len(frames')) = "emit"
      /\ SameBelow(frames, frames', Len(frames))
  BY <1>2, <1>5, TopFacts, KindsPushed
<1>7. Emitting(call_stack, frames, call_stack', frames')
  BY <1>1, <1>6 DEF Emitting
<1> QED
  BY <1>4, <1>7 DEF SoundStep, StackStep

(* What a call was given is dropped. *)
LEMMA DropStep ==
  ASSUME IInv, Drop
  PROVE  SoundStep
<1> DEFINE g == [frames EXCEPT ![1].got = Nil]
<1>1. /\ frames # <<>> /\ Settle(fst, connections, g)
      /\ instances' = instances /\ call_stack' = call_stack
  BY DEF Drop, Running
<1>2. /\ frames \in Seq(FrameRecord) /\ Len(frames) \in Nat
      /\ 1 \in 1..Len(frames) /\ frames[1] \in FrameRecord
  BY <1>1, TopFacts
<1>3. [frames[1] EXCEPT !.got = Nil] \in FrameRecord
  BY <1>2 DEF FrameRecord
<1>4. g = [frames EXCEPT ![1] = [frames[1] EXCEPT !.got = Nil]]
  BY <1>2
<1>5. /\ g \in Seq(FrameRecord) /\ Len(g) = Len(frames)
      /\ \A i \in 1..Len(frames) :
           g[i] = IF i = 1 THEN [frames[1] EXCEPT !.got = Nil] ELSE frames[i]
  BY <1>2, <1>3, <1>4, ExceptSeq
<1> HIDE DEF g
<1>6. \A i \in 1..Len(frames) :
        /\ g[i].kind = frames[i].kind /\ g[i].instance = frames[i].instance
        /\ g[i].state = frames[i].state /\ g[i].pc = frames[i].pc
        /\ g[i].got = frames[i].got \/ g[i].got = Nil
        /\ g[i].todo = frames[i].todo
  BY <1>2, <1>5, FrameFields DEF FrameRecord
<1>7. Sound(fst, connections, instances, g)
  BY <1>5, <1>6, SoundReframed DEF IInv
<1>8. Sound(fst', connections', instances', frames')
  BY <1>1, <1>7, SoundSettled
<1>9. frames' = g
  BY <1>1 DEF Settle
<1>10. SameBelow(frames, frames', Len(frames))
  BY <1>2, <1>5, <1>6, <1>9, KindsSame
<1>11. Staying(call_stack, frames, call_stack', frames')
  BY <1>1, <1>5, <1>9, <1>10 DEF Staying
<1> QED
  BY <1>8, <1>11 DEF SoundStep, StackStep

(* What is below the top: one frame less, of the same kinds. *)
LEMMA TopLeft ==
  ASSUME NEW fr \in Seq(FrameRecord), fr # <<>>
  PROVE  /\ Tail(fr) \in Seq(FrameRecord) /\ Len(Tail(fr)) = Len(fr) - 1
         /\ \A i \in 1..Len(Tail(fr)) : Tail(fr)[i] = fr[i + 1]
         /\ SameBelow(fr, Tail(fr), Len(Tail(fr)))
         /\ Len(Tail(fr)) < Len(fr) /\ Len(fr) >= 1
         /\ Len(Tail(fr)) + 1 = Len(fr) /\ KindAt(fr, Len(fr)) = fr[1].kind
<1> DEFINE g == Tail(fr)
<1>1. /\ Len(fr) \in Nat \ {0} /\ g \in Seq(FrameRecord) /\ Len(g) = Len(fr) - 1
      /\ \A i \in 1..Len(fr) - 1 : g[i] = fr[i + 1]
  BY Popped
<1> HIDE DEF g
<1>2. \A i \in 1..Len(g) : g[i] = fr[i + 1]
  BY <1>1
<1>3. /\ SameBelow(fr, g, Len(g)) /\ Len(g) < Len(fr) /\ Len(fr) >= 1
      /\ Len(g) + 1 = Len(fr) /\ KindAt(fr, Len(fr)) = fr[1].kind
  BY <1>1, <1>2, KindsPopped
<1> QED
  BY <1>1, <1>2, <1>3 DEF g

(* A call that never awaited returns. *)
LEMMA ReturnStep ==
  ASSUME IInv, Return
  PROVE  SoundStep
<1>1. /\ frames # <<>> /\ Top.kind = "call" /\ Top.state = Nil
      /\ Settle(fst, connections, Tail(frames))
      /\ instances' = instances /\ call_stack' = exit_function(call_stack)
  BY DEF Return, Running
<1>2. /\ frames \in Seq(FrameRecord) /\ Len(frames) \in Nat
      /\ 1 \in 1..Len(frames) /\ Top = frames[1]
      /\ frames[1].kind = "call" => frames[1].todo = {}
  BY <1>1, TopFacts
<1>3. Sound(fst, connections, instances, Tail(frames))
  BY <1>1, <1>2, SoundPopped DEF IInv
<1>4. Sound(fst', connections', instances', frames')
  BY <1>1, <1>3, SoundSettled
<1>5. frames' = Tail(frames)
  BY <1>1 DEF Settle
<1>6. /\ Len(frames') < Len(frames) /\ Len(frames') \in Nat
      /\ SameBelow(frames, frames', Len(frames')) /\ KindAt(frames, Len(frames') + 1) = "call"
      /\ Len(frames') + 1 = Len(frames)
  BY <1>1, <1>2, <1>5, TopLeft
<1>7. Exiting(call_stack, frames, call_stack', frames')
  BY <1>1, <1>2, <1>6 DEF Exiting
<1> QED
  BY <1>4, <1>7 DEF SoundStep, StackStep

(* An emission that no resumed call made is over. *)
LEMMA EmitDoneStep ==
  ASSUME IInv, EmitDone
  PROVE  SoundStep
<1>1. /\ frames # <<>> /\ Top.kind = "emit" /\ Top.todo = {}
      /\ Settle(fst, connections, Tail(frames))
      /\ instances' = instances /\ call_stack' = call_stack
  BY DEF EmitDone
<1>2. /\ frames \in Seq(FrameRecord) /\ Len(frames) \in Nat
      /\ 1 \in 1..Len(frames) /\ Top = frames[1]
      /\ frames[1].kind = "emit" => frames[1].state = Nil
  BY <1>1, TopFacts
<1>3. Sound(fst, connections, instances, Tail(frames))
  BY <1>1, <1>2, SoundPopped DEF IInv
<1>4. Sound(fst', connections', instances', frames')
  BY <1>1, <1>3, SoundSettled
<1>5. frames' = Tail(frames)
  BY <1>1 DEF Settle
<1>6. /\ Len(frames) >= 1 /\ Len(frames') = Len(frames) - 1
      /\ SameBelow(frames, frames', Len(frames')) /\ KindAt(frames, Len(frames)) = "emit"
  BY <1>1, <1>2, <1>5, TopLeft
<1>7. Emitting_ends(call_stack, frames, call_stack', frames')
  BY <1>1, <1>6 DEF Emitting_ends
<1> QED
  BY <1>4, <1>7 DEF SoundStep, StackStep

(* The rest of a resumed call, after completed was emitted. *)
LEMMA ResumeDoneStep ==
  ASSUME IInv, ResumeDone
  PROVE  SoundStep
<1> DEFINE g == Tail(frames)
           f2 == [fst EXCEPT ![g[1].state] = Spent(g[1].state)]
<1>1. /\ Len(frames) > 1 /\ Top.kind = "emit" /\ Top.todo = {}
      /\ frames[2].pc = "emit"
      /\ Settle([fst EXCEPT ![frames[2].state] = Spent(frames[2].state)],
                connections, Tail(Tail(frames)))
      /\ instances' = instances /\ call_stack' = exit_function(call_stack)
  BY DEF ResumeDone
<1>2. /\ frames \in Seq(FrameRecord) /\ Len(frames) \in Nat /\ frames # <<>>
      /\ 1 \in 1..Len(frames) /\ Top = frames[1]
      /\ frames[1].kind = "emit" => frames[1].state = Nil
      /\ \A i \in 1..Len(frames) : frames[i].kind = "emit" => frames[i].pc = "run"
  BY <1>1, TopFacts
<1>3. Sound(fst, connections, instances, g)
  BY <1>1, <1>2, SoundPopped DEF IInv
<1>4. /\ g \in Seq(FrameRecord) /\ Len(g) = Len(frames) - 1
      /\ \A i \in 1..Len(g) : g[i] = frames[i + 1]
      /\ SameBelow(frames, g, Len(g)) /\ Len(frames) >= 1
      /\ KindAt(frames, Len(frames)) = "emit"
  BY <1>1, <1>2, TopLeft
<1> HIDE DEF g
<1>5. /\ 1 \in 1..Len(g) /\ g[1] = frames[2] /\ g # <<>>
  <2>1. 1 \in 1..Len(g) /\ 1 + 1 = 2
    BY <1>1, <1>2, <1>4
  <2>2. g[1] = frames[1 + 1]
    BY <2>1, <1>4
  <2>3. g # <<>>
    BY <2>1, <1>4, EmptySeq
  <2> QED
    BY <2>1, <2>2, <2>3
<1>6. g[1].kind = "call"
  <2>1. 2 \in 1..Len(frames) /\ frames[2].kind \in {"call", "emit"}
    BY <1>1, <1>2, FrameFields
  <2> QED
    BY <1>1, <1>2, <1>5, <2>1
<1>7. Sound(f2, connections, instances, Tail(g))
  BY <1>1, <1>3, <1>5, SoundFinished
<1>8. Settle(f2, connections, Tail(g))
  BY <1>1, <1>5 DEF g
<1> HIDE DEF f2
<1>9. Sound(fst', connections', instances', frames')
  BY <1>1, <1>7, <1>8, SoundSettled
<1>10. frames' = Tail(g)
  BY <1>8 DEF Settle
<1>11. /\ Len(frames') = Len(g) - 1 /\ Len(frames') \in Nat /\ Len(g) \in Nat
       /\ SameBelow(g, frames', Len(frames')) /\ KindAt(g, Len(g)) = "call"
  BY <1>4, <1>5, <1>6, <1>10, TopLeft
<1>12. /\ Len(frames') < Len(frames)
       /\ Len(frames') + 1 = Len(g) /\ Len(frames') + 2 = Len(frames)
  BY <1>2, <1>4, <1>11
<1>13. KindAt(frames, Len(frames') + 1) = "call"
  BY <1>4, <1>5, <1>11, <1>12 DEF SameBelow
<1>14. SameBelow(frames, frames', Len(frames'))
  BY <1>4, <1>11 DEF SameBelow
<1>15. \A h \in Len(frames') + 2..Len(frames) : KindAt(frames, h) = "emit"
  BY <1>2, <1>4, <1>12
<1>16. Exiting(call_stack, frames, call_stack', frames')
  BY <1>1, <1>12, <1>13, <1>14, <1>15 DEF Exiting
<1> QED
  BY <1>9, <1>16 DEF SoundStep, StackStep

(* What a script reload may find on the stack is emissions only. *)
LEMMA CancelStep ==
  ASSUME IInv, cancel_pending_functions
  PROVE  SoundStep
<1> DEFINE S == {s \in States : fst[s].in_script}
<1>1. /\ \A f \in OnStack : f.kind # "call"
      /\ Settle(Cancelled(S, "in_script"), connections, frames)
      /\ instances' = instances /\ call_stack' = call_stack
  BY DEF cancel_pending_functions
<1>2. /\ frames \in Seq(FrameRecord)
      /\ \A i \in 1..Len(frames) : frames[i].kind = "emit" =>
           frames[i].state = Nil /\ frames[i].got = Nil
  BY TopFacts
<1>3. \A i \in 1..Len(frames) : frames[i].state = Nil /\ frames[i].got = Nil
  BY <1>1, <1>2, FrameFields DEF OnStack
<1>4. /\ S \in SUBSET States /\ Nil \notin S
      /\ \A s \in S : fst[s].exists
      /\ \A t \in States : CanRun(fst, t) => t \in S
  <2>1. \A s \in S : fst[s].exists
    BY DEF IInv, Sound, Absent, Free
  <2> QED
    BY <2>1, StateAssumption DEF CanRun
<1> HIDE DEF S
<1>5. Sound(Cancelled(S, "in_script"), connections, instances, frames)
  BY <1>3, <1>4, SoundCancelled DEF IInv
<1>6. Sound(fst', connections', instances', frames')
  BY <1>1, <1>5, SoundSettled
<1>7. frames' = frames
  BY <1>1 DEF Settle
<1>8. Staying(call_stack, frames, call_stack', frames')
  BY <1>1, <1>7 DEF Staying, SameBelow
<1> QED
  BY <1>6, <1>8 DEF SoundStep, StackStep

(* No call of the instance that is freed runs. *)
LEMMA FreeInstanceStep ==
  ASSUME IInv, NEW inst \in Instances, FreeInstance(inst)
  PROVE  SoundStep
<1> DEFINE S == {s \in States : fst[s].in_instance /\ fst[s].instance = inst}
           J == instances \ {inst}
<1>1. /\ \A f \in OnStack : f.instance # inst
      /\ Settle(Cancelled(S, "in_instance"), connections, frames)
      /\ instances' = J /\ call_stack' = call_stack
  BY DEF FreeInstance
<1>2. frames \in Seq(FrameRecord)
  BY TopFacts
<1>3. /\ S \in SUBSET States /\ Nil \notin S /\ inst \notin J \cup {Nil}
      /\ \A s \in S : fst[s].exists /\ fst[s].instance = inst
  <2>1. \A s \in S : fst[s].exists
    BY DEF IInv, Sound, Absent, Free
  <2> QED
    BY <2>1, StateAssumption
<1>4. \A i \in 1..Len(frames) : frames[i].state \notin S
  <2> SUFFICES ASSUME NEW i \in 1..Len(frames), frames[i].state \in S
               PROVE  FALSE
    OBVIOUS
  <2>1. fst[frames[i].state].instance = frames[i].instance
    BY <1>3 DEF IInv, Sound, Held
  <2> QED
    BY <1>1, <1>3, <2>1 DEF OnStack
<1> HIDE DEF S
<1>5. Sound(Cancelled(S, "in_instance"), connections, J, frames)
  BY <1>3, <1>4, SoundCancelled DEF IInv
<1> HIDE DEF J
<1>6. Sound(fst', connections', instances', frames')
  BY <1>1, <1>5, SoundSettled
<1>7. frames' = frames
  BY <1>1 DEF Settle
<1>8. Staying(call_stack, frames, call_stack', frames')
  BY <1>1, <1>7 DEF Staying, SameBelow
<1> QED
  BY <1>6, <1>8 DEF SoundStep, StackStep

(* resume asks what CanRun says. *)
LEMMA ResumableCanRun ==
  ASSUME NEW s
  PROVE  Resumable(s) <=> CanRun(fst, s)
BY DEF Resumable, CanRun

(* resume by hand, when nothing runs. *)
LEMMA ResumeByHandStep ==
  ASSUME IInv, NEW s \in States, ResumeByHand(s)
  PROVE  SoundStep
<1>1. frames = <<>> /\ Resumed(s, <<>>) /\ instances' = instances
  BY DEF ResumeByHand, Resumed
<1>2. frames \in Seq(FrameRecord) /\ call_stack \in Seq(Nat)
      /\ Len(frames) = 0 /\ fst \in [States -> StateRecord]
  BY <1>1, TopFacts DEF IInv, Sound, Typed
<1>3. CASE Resumable(s)
  <2> DEFINE f2 == [fst EXCEPT ![s].in_script = FALSE, ![s].in_instance = FALSE]
             x == Call(fst[s].instance, s)
  <2>1. Settle(f2, connections, <<x>> \o frames)
        /\ call_stack' = enter_function(Len(frames) + 1)
    BY <1>1, <1>3 DEF Resumed
  <2>2. Sound(f2, connections, instances, <<x>> \o frames)
    BY <1>1, <1>3, ResumableCanRun, SoundResumed DEF IInv
  <2>3. x \in FrameRecord /\ x.kind = "call"
    BY <1>2, NewFrames DEF StateRecord
  <2> HIDE DEF f2, x
  <2>4. Sound(fst', connections', instances', frames')
    BY <1>1, <2>1, <2>2, SoundSettled
  <2>5. frames' = <<x>> \o frames
    BY <2>1 DEF Settle
  <2>6. /\ Len(frames') = Len(frames) + 1 /\ KindAt(frames', Len(frames')) = "call"
        /\ SameBelow(frames, frames', Len(frames))
    BY <1>2, <2>3, <2>5, KindsPushed
  <2>7. Entering(call_stack, frames, call_stack', frames')
    BY <2>1, <2>6 DEF Entering, enter_function
  <2> QED
    BY <2>4, <2>7 DEF SoundStep, StackStep
<1>4. CASE ~ Resumable(s)
  <2>1. Settle(fst, connections, frames) /\ call_stack' = call_stack
    BY <1>1, <1>4 DEF Resumed
  <2>2. Sound(fst', connections', instances', frames')
    BY <1>1, <2>1, SoundSettled DEF IInv
  <2>3. Staying(call_stack, frames, call_stack', frames')
    BY <2>1 DEF Staying, SameBelow, Settle
  <2> QED
    BY <2>2, <2>3 DEF SoundStep, StackStep
<1> QED
  BY <1>3, <1>4

(* An emission calls resume of a state: it runs the call again, or not.    *)
LEMMA ResumeNextStep ==
  ASSUME IInv, ResumeNext
  PROVE  SoundStep
<1>1. frames # <<>> /\ Top.kind = "emit"
  BY DEF ResumeNext
<1>2. /\ frames \in Seq(FrameRecord) /\ Len(frames) \in Nat
      /\ Len(frames) >= 1 /\ 1 \in 1..Len(frames) /\ Top = frames[1]
      /\ frames[1] \in FrameRecord /\ fst \in [States -> StateRecord]
  BY <1>1, TopFacts DEF IInv, Sound, Typed
<1>3. PICK s \in Top.todo :
        Resumed(s, <<[Top EXCEPT !.todo = @ \ {s}]>> \o Tail(frames))
  BY DEF ResumeNext
<1> DEFINE y == [Top EXCEPT !.todo = @ \ {s}]
           b == <<y>> \o Tail(frames)
<1>4. s \in States
  BY <1>2, <1>3 DEF FrameRecord
<1>5. /\ y \in FrameRecord /\ y.todo = frames[1].todo \ {s}
      /\ y.kind = frames[1].kind /\ y.instance = frames[1].instance
      /\ y.state = frames[1].state /\ y.pc = frames[1].pc /\ y.got = frames[1].got
  BY <1>2 DEF FrameRecord
<1>6. Resumed(s, b) /\ instances' = instances
  BY <1>3 DEF Resumed
<1> HIDE DEF y
<1>7. /\ b \in Seq(FrameRecord) /\ Len(b) = Len(frames) /\ b[1] = y
      /\ \A i \in 1..Len(frames) : i # 1 => b[i] = frames[i]
  BY <1>1, <1>2, <1>5, TopChanged
<1> HIDE DEF b
<1>8. \A i \in 1..Len(frames) :
        /\ b[i].kind = frames[i].kind /\ b[i].instance = frames[i].instance
        /\ b[i].state = frames[i].state /\ b[i].pc = frames[i].pc
        /\ b[i].got = frames[i].got
        /\ b[i].todo \subseteq frames[i].todo
        /\ \A t \in frames[i].todo \ b[i].todo : t = s
  BY <1>2, <1>5, <1>7
<1>9. SameBelow(frames, b, Len(frames))
  BY <1>2, <1>7, <1>8, KindsSame
<1>10. CASE Resumable(s)
  <2> DEFINE f2 == [fst EXCEPT ![s].in_script = FALSE, ![s].in_instance = FALSE]
             x == Call(fst[s].instance, s)
             h == <<x>> \o frames
             g == <<x>> \o b
  <2>1. Settle(f2, connections, g) /\ call_stack' = enter_function(Len(frames) + 1)
    BY <1>6, <1>7, <1>10 DEF Resumed
  <2>2. Sound(f2, connections, instances, h)
    BY <1>1, <1>2, <1>4, <1>10, ResumableCanRun, SoundResumed DEF IInv
  <2>3. x \in FrameRecord /\ x.kind = "call"
    BY <1>2, <1>4, NewFrames DEF StateRecord
  <2>4. ~ CanRun(f2, s)
    BY <1>2, <1>4 DEF CanRun, StateRecord
  <2> HIDE DEF f2, x
  <2>5. /\ Len(g) = Len(frames) + 1 /\ KindAt(g, Len(g)) = "call"
        /\ SameBelow(frames, g, Len(frames))
    BY <1>2, <1>7, <1>8, <2>3, KindsPushed
  <2>6. /\ h \in Seq(FrameRecord) /\ Len(h) = Len(frames) + 1 /\ h[1] = x
        /\ \A i \in 1..Len(frames) + 1 :
             i # 1 => i - 1 \in 1..Len(frames) /\ h[i] = frames[i - 1]
    BY <1>2, <2>3, Pushed
  <2>7. /\ g \in Seq(FrameRecord) /\ g[1] = x
        /\ \A i \in 1..Len(frames) + 1 : i # 1 => g[i] = b[i - 1]
    BY <1>7, <2>3, Pushed
  <2> HIDE DEF g, h
  <2>8. \A i \in 1..Len(h) :
          /\ g[i].kind = h[i].kind /\ g[i].instance = h[i].instance
          /\ g[i].state = h[i].state /\ g[i].pc = h[i].pc
          /\ g[i].got = h[i].got
          /\ g[i].todo \subseteq h[i].todo
          /\ \A t \in h[i].todo \ g[i].todo : ~ CanRun(f2, t)
    <3> SUFFICES ASSUME NEW i \in 1..Len(h)
                 PROVE  /\ g[i].kind = h[i].kind /\ g[i].instance = h[i].instance
                        /\ g[i].state = h[i].state /\ g[i].pc = h[i].pc
                        /\ g[i].got = h[i].got
                        /\ g[i].todo \subseteq h[i].todo
                        /\ \A t \in h[i].todo \ g[i].todo : ~ CanRun(f2, t)
      OBVIOUS
    <3>1. CASE i = 1
      BY <2>6, <2>7, <3>1
    <3>2. CASE i # 1
      <4>1. i - 1 \in 1..Len(frames) /\ h[i] = frames[i - 1] /\ g[i] = b[i - 1]
        BY <2>6, <2>7, <3>2
      <4> QED
        BY <1>8, <2>4, <4>1
    <3> QED
      BY <3>1, <3>2
  <2>9. Sound(f2, connections, instances, g)
    BY <2>2, <2>5, <2>6, <2>7, <2>8, SoundReframed
  <2>10. Sound(fst', connections', instances', frames')
    BY <1>6, <2>1, <2>9, SoundSettled
  <2>11. frames' = g
    BY <2>1 DEF Settle
  <2>12. Entering(call_stack, frames, call_stack', frames')
    BY <2>1, <2>5, <2>11 DEF Entering, enter_function
  <2> QED
    BY <2>10, <2>12 DEF SoundStep, StackStep
<1>11. CASE ~ Resumable(s)
  <2>1. Settle(fst, connections, b) /\ call_stack' = call_stack
    BY <1>6, <1>11 DEF Resumed
  <2>2. ~ CanRun(fst, s)
    BY <1>11, ResumableCanRun
  <2>3. Sound(fst, connections, instances, b)
    BY <1>7, <1>8, <2>2, SoundReframed DEF IInv
  <2>4. Sound(fst', connections', instances', frames')
    BY <1>6, <2>1, <2>3, SoundSettled
  <2>5. Staying(call_stack, frames, call_stack', frames')
    BY <1>7, <1>9, <2>1 DEF Staying, Settle
  <2> QED
    BY <2>4, <2>5 DEF SoundStep, StackStep
<1> QED
  BY <1>10, <1>11

(* Two frames put on top of a sequence. *)
LEMMA PushedTwo ==
  ASSUME NEW S, NEW a \in S, NEW b \in S, NEW seq \in Seq(S)
  PROVE  <<a, b>> \o seq = <<a>> \o (<<b>> \o seq)
<1>1. <<a>> \in Seq(S) /\ Len(<<a>>) = 1 /\ <<a>>[1] = a
  OBVIOUS
<1>2. <<b>> \in Seq(S) /\ Len(<<b>>) = 1 /\ <<b>>[1] = b
  OBVIOUS
<1>3. /\ <<a, b>> \in Seq(S) /\ Len(<<a, b>>) = 2
      /\ <<a, b>>[1] = a /\ <<a, b>>[2] = b
  OBVIOUS
<1>4. <<a>> \o <<b>> = <<a, b>>
  <2> DEFINE ab == <<a>> \o <<b>>
  <2>1. ab \in Seq(S) /\ Len(ab) = 2 /\ ab[1] = a /\ ab[2] = b
    BY <1>1, <1>2, Pushed
  <2> HIDE DEF ab
  <2>2. \A i \in 1..2 : ab[i] = <<a, b>>[i]
    <3>1. \A i \in 1..2 : i = 1 \/ i = 2
      OBVIOUS
    <3> QED
      BY <1>3, <2>1, <3>1
  <2>3. ab = <<a, b>>
    BY <1>3, <2>1, <2>2, SeqEqual
  <2> QED
    BY <2>3 DEF ab
<1> DEFINE A == <<a>>
           B == <<b>>
<1>5. A \in Seq(S) /\ B \in Seq(S)
  BY <1>1, <1>2
<1>6. A \o B = <<a, b>>
  BY <1>4, Zenon
<1> HIDE DEF A, B
<1>7. (A \o B) \o seq = A \o (B \o seq)
  BY <1>5, ConcatAssociative
<1>8. <<a, b>> \o seq = A \o (B \o seq)
  BY <1>6, <1>7, Zenon
<1> QED
  BY <1>8, Zenon DEF A, B

(* A resumed call returns: completed of its coroutine is emitted. *)
LEMMA ReturnResumedStep ==
  ASSUME IInv, ReturnResumed
  PROVE  SoundStep
<1> DEFINE st == frames[1].state
           c == fst[st].completed
           W == {s \in States : <<c, s>> \in connections}
           D == {e \in connections : e[1] # c}
           x == Emission(W)
           y == [frames[1] EXCEPT !.pc = "emit"]
           b == <<y>> \o Tail(frames)
           h == <<x>> \o frames
           g == <<x>> \o b
<1>1. /\ frames # <<>> /\ Top.kind = "call" /\ Top.got = Nil /\ Top.state # Nil
      /\ instances' = instances /\ call_stack' = call_stack
  BY DEF ReturnResumed, Running
<1>2. /\ frames \in Seq(FrameRecord) /\ Len(frames) \in Nat
      /\ Len(frames) >= 1 /\ 1 \in 1..Len(frames) /\ Top = frames[1]
      /\ frames[1] \in FrameRecord
      /\ \A i \in 1..Len(frames) : frames[i].got = Nil
  BY <1>1, TopFacts
<1>3. x \in FrameRecord /\ x.kind = "emit"
  BY NewFrames
<1>4. /\ y \in FrameRecord /\ y.pc = "emit" /\ y.todo = frames[1].todo
      /\ y.kind = frames[1].kind /\ y.instance = frames[1].instance
      /\ y.state = frames[1].state /\ y.got = frames[1].got
  BY <1>2 DEF FrameRecord
<1>5. Settle(fst, D, <<x, y>> \o Tail(frames))
  BY <1>2 DEF ReturnResumed, Waiting, Undone
<1>6. c \in Sources
  <2>1. st \in States /\ fst[st].exists
    BY <1>1, <1>2, FrameFields DEF IInv, Sound, Held
  <2>2. fst[st].first_state \in States \cup {Nil}
    BY <2>1 DEF IInv, Sound, Typed, StateRecord
  <2>3. fst[st].completed = IF fst[st].first_state = Nil THEN st ELSE fst[st].first_state
    BY <2>1 DEF IInv, Sound, KeepsFirst
  <2> QED
    BY <2>1, <2>2, <2>3 DEF Sources
<1> HIDE DEF c
<1>7. Sound(fst, D, instances, h)
  BY <1>2, <1>6, SoundUndone DEF IInv
<1>8. \A w \in States : <<c, w>> \notin D
  OBVIOUS
<1> HIDE DEF D, x, y
<1>9. /\ b \in Seq(FrameRecord) /\ Len(b) = Len(frames) /\ b[1] = y
      /\ \A i \in 1..Len(frames) : i # 1 => b[i] = frames[i]
  BY <1>1, <1>2, <1>4, TopChanged
<1>10. <<x, y>> \o Tail(frames) = g
  <2>1. Tail(frames) \in Seq(FrameRecord)
    BY <1>1, <1>2, Popped
  <2> QED
    BY <1>3, <1>4, <2>1, PushedTwo, SMTT(60)
<1> HIDE DEF b
<1>11. \A i \in 1..Len(frames) : b[i].kind = frames[i].kind
  BY <1>2, <1>4, <1>9
<1>12. /\ Len(g) = Len(frames) + 1 /\ KindAt(g, Len(g)) = "emit"
       /\ SameBelow(frames, g, Len(frames))
  BY <1>2, <1>3, <1>9, <1>11, KindsPushed
<1>13. /\ h \in Seq(FrameRecord) /\ Len(h) = Len(frames) + 1 /\ h[1] = x
       /\ \A i \in 1..Len(frames) + 1 :
            i # 1 => i - 1 \in 1..Len(frames) /\ h[i] = frames[i - 1]
  BY <1>2, <1>3, Pushed
<1>14. /\ g \in Seq(FrameRecord) /\ g[1] = x
       /\ \A i \in 1..Len(frames) + 1 : i # 1 => g[i] = b[i - 1]
  BY <1>3, <1>9, Pushed
<1> HIDE DEF g, h
<1>15. \A i \in 1..Len(h) :
         /\ g[i].kind = h[i].kind /\ g[i].instance = h[i].instance
         /\ g[i].state = h[i].state
         /\ \/ g[i].pc = h[i].pc
            \/ /\ h[i].state # Nil /\ h[i].kind = "call"
               /\ \A w \in States : <<fst[h[i].state].completed, w>> \notin D
         /\ g[i].got = h[i].got
         /\ g[i].todo = h[i].todo
  <2> SUFFICES ASSUME NEW i \in 1..Len(h)
               PROVE  /\ g[i].kind = h[i].kind /\ g[i].instance = h[i].instance
                      /\ g[i].state = h[i].state
                      /\ \/ g[i].pc = h[i].pc
                         \/ /\ h[i].state # Nil /\ h[i].kind = "call"
                            /\ \A w \in States : <<fst[h[i].state].completed, w>> \notin D
                      /\ g[i].got = h[i].got
                      /\ g[i].todo = h[i].todo
    OBVIOUS
  <2>1. CASE i = 1
    BY <1>13, <1>14, <2>1
  <2>2. CASE i # 1
    <3>1. i - 1 \in 1..Len(frames) /\ h[i] = frames[i - 1] /\ g[i] = b[i - 1]
      BY <1>13, <1>14, <2>2
    <3>2. CASE i - 1 = 1
      <4>1. h[i] = frames[1] /\ g[i] = y
        BY <1>9, <3>1, <3>2
      <4> QED
        BY <1>1, <1>2, <1>4, <1>8, <4>1 DEF c
    <3>3. CASE i - 1 # 1
      BY <1>9, <3>1, <3>3
    <3> QED
      BY <3>2, <3>3
  <2> QED
    BY <2>1, <2>2
<1>16. Sound(fst, D, instances, g)
  BY <1>7, <1>12, <1>13, <1>14, <1>15, SoundReframed
<1>17. Sound(fst', connections', instances', frames')
  BY <1>1, <1>5, <1>10, <1>16, SoundSettled
<1>18. Emitting(call_stack, frames, call_stack', frames')
  BY <1>1, <1>5, <1>10, <1>12 DEF Emitting, Settle
<1> QED
  BY <1>17, <1>18 DEF SoundStep, StackStep

(* The caller, if it is a script function, is given the state. *)
LEMMA CallerGiven ==
  ASSUME IInv, frames # <<>>, NEW s \in States
  PROVE  LET g == CallerGets(s)
         IN g \in Seq(FrameRecord) /\ ToCaller(frames, s, g)
<1> USE DEF ToCaller
<1> DEFINE b == Tail(frames)
           g == CallerGets(s)
<1>1. frames \in Seq(FrameRecord) /\ Len(frames) \in Nat
  BY TopFacts
<1>2. /\ b \in Seq(FrameRecord) /\ Len(b) = Len(frames) - 1
      /\ \A i \in 1..Len(b) : b[i] = frames[i + 1]
  BY <1>1, TopLeft
<1>3. g = IF b # <<>> /\ Head(b).kind = "call" THEN [b EXCEPT ![1].got = s] ELSE b
  BY DEF CallerGets
<1> HIDE DEF b, g
<1>4. b # <<>> => 1 \in 1..Len(b) /\ Head(b) = frames[2] /\ b[1] = frames[2]
  <2> SUFFICES ASSUME b # <<>>
               PROVE  1 \in 1..Len(b) /\ Head(b) = frames[2] /\ b[1] = frames[2]
    OBVIOUS
  <2>1. Len(b) \in Nat \ {0} /\ Head(b) = b[1]
    BY <1>2, Popped
  <2>2. 1 \in 1..Len(b) /\ 1 + 1 = 2
    BY <2>1
  <2>3. b[1] = frames[1 + 1]
    BY <1>2, <2>2
  <2> QED
    BY <2>1, <2>2, <2>3
<1>5. \A i \in 1..Len(b) : frames[i + 1].got = Nil
  <2> SUFFICES ASSUME NEW i \in 1..Len(b)
               PROVE  frames[i + 1].got = Nil
    OBVIOUS
  <2>1. i + 1 \in 1..Len(frames) /\ i + 1 # 1
    BY <1>1, <1>2
  <2> QED
    BY <2>1 DEF IInv, Sound, Shaped
<1>6. CASE b # <<>> /\ frames[2].kind = "call"
  <2> DEFINE x == [b[1] EXCEPT !.got = s]
  <2>1. 1 \in 1..Len(b) /\ b[1] = frames[2] /\ b[1] \in FrameRecord
    BY <1>2, <1>4, <1>6, ElementOfSeq
  <2>2. /\ x \in FrameRecord /\ x.got = s /\ x.kind = b[1].kind
        /\ x.instance = b[1].instance /\ x.state = b[1].state
        /\ x.pc = b[1].pc /\ x.todo = b[1].todo
    BY <2>1 DEF FrameRecord
  <2>3. g = [b EXCEPT ![1] = x]
    BY <1>3, <1>4, <1>6, <2>1
  <2> HIDE DEF x
  <2>4. /\ g \in Seq(FrameRecord) /\ Len(g) = Len(b)
        /\ \A i \in 1..Len(b) : g[i] = IF i = 1 THEN x ELSE b[i]
    BY <1>2, <2>1, <2>2, <2>3, ExceptSeq
  <2>5. ASSUME NEW i \in 1..Len(g)
        PROVE  /\ g[i].kind = frames[i + 1].kind /\ g[i].instance = frames[i + 1].instance
               /\ g[i].state = frames[i + 1].state /\ g[i].pc = frames[i + 1].pc
               /\ g[i].todo = frames[i + 1].todo
               /\ g[i].got = IF i = 1 /\ frames[2].kind = "call" THEN s ELSE Nil
    <3>1. i \in 1..Len(b) /\ b[i] = frames[i + 1] /\ frames[i + 1].got = Nil
      BY <1>2, <1>5, <2>4
    <3>2. CASE i = 1
      <4>1. g[i] = x /\ b[1] = frames[i + 1]
        BY <2>4, <3>1, <3>2
      <4> QED
        BY <1>6, <2>2, <3>2, <4>1
    <3>3. CASE i # 1
      BY <2>4, <3>1, <3>3
    <3> QED
      BY <3>2, <3>3
  <2> QED
    BY <1>2, <2>4, <2>5 DEF g
<1>7. CASE ~ (b # <<>> /\ frames[2].kind = "call")
  <2>1. g = b
    BY <1>3, <1>4, <1>7
  <2>2. \A i \in 1..Len(b) : b # <<>>
    BY EmptySeq
  <2> QED
    BY <1>2, <1>5, <1>7, <2>1, <2>2 DEF g
<1> QED
  BY <1>6, <1>7

(* A spent state differs in its stack and its function. *)
LEMMA SpentFields ==
  ASSUME fst \in [States -> StateRecord], NEW t \in States
  PROVE  /\ Spent(t) \in StateRecord /\ ~ Spent(t).function
         /\ Spent(t).exists = fst[t].exists /\ Spent(t).instance = fst[t].instance
         /\ Spent(t).awaits = fst[t].awaits /\ Spent(t).completed = fst[t].completed
         /\ Spent(t).first_state = fst[t].first_state
<1> DEFINE r == fst[t]
<1>1. r \in StateRecord
  OBVIOUS
<1>2. Spent(t) = [r EXCEPT !.stack = "destroyed", !.function = FALSE]
  BY DEF Spent
<1> HIDE DEF r
<1> QED
  BY <1>1, <1>2 DEF StateRecord, r

(* A call awaits: a new state holds it, and the caller goes on. *)
LEMMA AwaitStep ==
  ASSUME IInv, NEW src \in Sources, Await(src)
  PROVE  SoundStep
<1> DEFINE s == FreshState
           st == Top.state
           next == [exists |-> TRUE, function |-> TRUE, in_script |-> TRUE,
                    in_instance |-> Top.instance # Nil, instance |-> Top.instance,
                    stack |-> "held", awaits |-> Top.got,
                    completed |-> IF st = Nil THEN s ELSE fst[st].completed,
                    first_state |-> HandedDown(st)]
           f2 == IF st = Nil THEN [fst EXCEPT ![s] = next]
                 ELSE [fst EXCEPT ![s] = next, ![st] = Spent(st)]
           g == CallerGets(s)
<1>1. /\ frames # <<>> /\ Top.kind = "call" /\ Top.pc = "run"
      /\ IF Top.got = Nil THEN src \in Signals ELSE src = Top.got
      /\ Settle(f2, connections \cup {<<src, s>>}, g)
      /\ call_stack' = exit_function(call_stack) /\ instances' = instances
  BY DEF Await, Running
<1>2. s \in States /\ ~ fst[s].exists
  <2>1. \E t \in States : ~ fst[t].exists
    BY DEF Await
  <2> QED
    BY <2>1 DEF FreshState
<1>3. /\ frames \in Seq(FrameRecord) /\ Len(frames) \in Nat
      /\ 1 \in 1..Len(frames) /\ Top = frames[1] /\ frames[1] \in FrameRecord
      /\ fst \in [States -> StateRecord]
  BY <1>1, TopFacts DEF IInv, Sound, Typed
<1>4. /\ st \in States \cup {Nil} /\ Top.instance \in Instances \cup {Nil}
      /\ Top.got \in States \cup {Nil}
  BY <1>3 DEF FrameRecord
<1>5. st # Nil => /\ st \in States /\ fst[st].exists /\ st # s
                  /\ fst[st].completed \in States
                  /\ HandedDown(st) = fst[st].completed
  <2> SUFFICES ASSUME st # Nil
               PROVE  /\ st \in States /\ fst[st].exists /\ st # s
                      /\ fst[st].completed \in States
                      /\ HandedDown(st) = fst[st].completed
    OBVIOUS
  <2>1. st \in States /\ fst[st].exists
    BY <1>3, <1>4 DEF IInv, Sound, Held
  <2>2. fst[st].first_state \in States \cup {Nil}
    BY <1>3, <2>1 DEF StateRecord
  <2>3. fst[st].completed = IF fst[st].first_state = Nil THEN st ELSE fst[st].first_state
    BY <2>1 DEF IInv, Sound, KeepsFirst
  <2> QED
    BY <1>2, <2>1, <2>2, <2>3 DEF HandedDown
<1>6. st = Nil => HandedDown(st) = Nil
  BY DEF HandedDown
<1>7. next \in StateRecord
  <2>1. HandedDown(st) \in States \cup {Nil}
    BY <1>4, <1>5, <1>6
  <2>2. (IF st = Nil THEN s ELSE fst[st].completed) \in States \cup {Nil}
    BY <1>2, <1>5
  <2> QED
    BY <1>4, <2>1, <2>2 DEF StateRecord
<1>8. /\ next.exists /\ next.function /\ next.in_script
      /\ next.in_instance <=> Top.instance # Nil
      /\ next.instance = Top.instance /\ next.stack = "held" /\ next.awaits = Top.got
      /\ next.completed = IF st = Nil THEN s ELSE fst[st].completed
      /\ next.first_state = IF st = Nil THEN Nil ELSE fst[st].completed
  BY <1>5, <1>6
<1> HIDE DEF next
<1>9. st # Nil => /\ Spent(st) \in StateRecord /\ ~ Spent(st).function
                  /\ Spent(st).exists = fst[st].exists
                  /\ Spent(st).instance = fst[st].instance
                  /\ Spent(st).awaits = fst[st].awaits
                  /\ Spent(st).completed = fst[st].completed
                  /\ Spent(st).first_state = fst[st].first_state
  BY <1>3, <1>5, SpentFields
<1>10. /\ f2 \in [States -> StateRecord] /\ f2[s] = next
       /\ \A t \in States \ {s} :
            f2[t] = IF st # Nil /\ t = st THEN Spent(st) ELSE fst[t]
  <2>1. CASE st = Nil
    BY <1>2, <1>3, <1>7, <2>1
  <2>2. CASE st # Nil
    <3>1. f2 = [[fst EXCEPT ![s] = next] EXCEPT ![st] = Spent(st)]
      BY <2>2
    <3> QED
      BY <1>2, <1>3, <1>5, <1>7, <1>9, <2>2, <3>1
  <2> QED
    BY <2>1, <2>2
<1>11. g \in Seq(FrameRecord) /\ ToCaller(frames, s, g)
  BY <1>1, <1>2, CallerGiven
<1> HIDE DEF f2, g, s
<1>12. HoldsCall(fst, frames, s, f2)
  <2>1. \A t \in States : t # Nil
    BY StateAssumption
  <2>2. \A t \in States \ {s} :
         /\ f2[t].exists = fst[t].exists /\ f2[t].instance = fst[t].instance
         /\ f2[t].awaits = fst[t].awaits /\ f2[t].completed = fst[t].completed
         /\ f2[t].first_state = fst[t].first_state
         /\ IF t = frames[1].state THEN ~ f2[t].function ELSE f2[t] = fst[t]
    BY <1>3, <1>9, <1>10, <2>1
  <2> QED
    BY <1>3, <1>8, <1>10, <2>2 DEF HoldsCall
<1>14. Sound(f2, connections \cup {<<src, s>>}, instances, g)
  <2>1. /\ frames # <<>> /\ frames[1].kind = "call" /\ frames[1].pc = "run"
        /\ IF frames[1].got = Nil THEN src \in Signals ELSE src = frames[1].got
    BY <1>1, <1>3
  <2>2. Sound(fst, connections, instances, frames)
    BY DEF IInv
  <2>3. f2 \in [States -> StateRecord]
    BY <1>10
  <2> QED
    BY <1>2, <1>11, <1>12, <2>1, <2>2, <2>3, SoundAwaited
<1>15. Sound(fst', connections', instances', frames')
  BY <1>1, <1>14, SoundSettled
<1>16. frames' = g
  BY <1>1 DEF Settle
<1>17. /\ SameBelow(frames, frames', Len(frames')) /\ Len(frames') < Len(frames)
       /\ Len(frames') + 1 = Len(frames) /\ KindAt(frames, Len(frames)) = "call"
       /\ Len(frames') \in Nat
  <2>1. /\ SameBelow(frames, g, Len(g)) /\ Len(g) < Len(frames)
        /\ Len(g) + 1 = Len(frames) /\ KindAt(frames, Len(frames)) = frames[1].kind
    <3>1. /\ Len(g) = Len(frames) - 1
          /\ \A i \in 1..Len(g) : g[i].kind = frames[i + 1].kind
      BY <1>11 DEF ToCaller
    <3> QED
      BY <1>1, <1>3, <1>11, <3>1, KindsPopped
  <2>2. Len(g) \in Nat
    BY <1>11
  <2> QED
    BY <1>1, <1>3, <1>16, <2>1, <2>2
<1>18. Exiting(call_stack, frames, call_stack', frames')
  BY <1>1, <1>3, <1>17 DEF Exiting
<1> QED
  BY <1>15, <1>18 DEF SoundStep, StackStep

-----------------------------------------------------------------------------
(***************************************************************************)
(* The invariant, for every behaviour.                                     *)
(***************************************************************************)

(* Before anything is called there is no state, no frame, no level. *)
LEMMA InitIInv == Init => IInv
<1> SUFFICES ASSUME Init PROVE IInv
  OBVIOUS
<1>1. /\ fst = [s \in States |-> Free] /\ connections = {} /\ frames = <<>>
      /\ call_stack = <<>> /\ instances = Instances
  BY DEF Init
<1>2. Free \in StateRecord
  BY StateAssumption DEF Free, StateRecord
<1>3. Typed(fst, connections, instances, frames)
  BY <1>1, <1>2 DEF Typed
<1>4. \A s \in States : fst[s] = Free /\ ~ fst[s].exists /\ ~ fst[s].function
  BY <1>1 DEF Free
<1>5. \A i : i \notin 1..Len(frames)
  BY <1>1
<1>6. /\ Absent(fst) /\ KeepsFirst(fst) /\ OnePlace(fst) /\ Ready(fst)
  BY <1>4 DEF Absent, KeepsFirst, OnePlace, Ready, CanRun
<1>7. /\ Shaped(frames) /\ OwnState(frames) /\ Held(fst, frames)
      /\ Emitted(fst, connections, frames)
      /\ Given(fst, connections, instances, frames)
  BY <1>5 DEF Shaped, OwnState, Held, Emitted, Given
<1>8. /\ Connected(fst, connections)
      /\ Woken(fst, connections, instances, frames)
  BY <1>1 DEF Connected, Woken
<1>9. Levels(call_stack, frames)
  BY <1>1 DEF Levels
<1> QED
  BY <1>3, <1>6, <1>7, <1>8, <1>9 DEF IInv, Sound

(* Every action keeps the states sound, and moves the two stacks together. *)
LEMMA NextSoundStep ==
  ASSUME IInv, [Next]_vars
  PROVE  SoundStep
<1>1. ASSUME NEW inst \in Instances \cup {Nil}, Invoke(inst)
      PROVE  SoundStep
  BY <1>1, InvokeStep
<1>2. ASSUME NEW src \in States \cup Signals, Await(src)
      PROVE  SoundStep
  BY <1>2, AwaitStep DEF Sources
<1>3. CASE Drop
  BY <1>3, DropStep
<1>4. CASE Return
  BY <1>4, ReturnStep
<1>5. CASE ReturnResumed
  BY <1>5, ReturnResumedStep
<1>6. ASSUME NEW sig \in Signals, Emit(sig)
      PROVE  SoundStep
  BY <1>6, EmitStep
<1>7. CASE ResumeNext
  BY <1>7, ResumeNextStep
<1>8. CASE EmitDone
  BY <1>8, EmitDoneStep
<1>9. CASE ResumeDone
  BY <1>9, ResumeDoneStep
<1>10. ASSUME NEW s \in States, ResumeByHand(s)
       PROVE  SoundStep
  BY <1>10, ResumeByHandStep
<1>11. CASE cancel_pending_functions
  BY <1>11, CancelStep
<1>12. ASSUME NEW inst \in Instances, FreeInstance(inst)
       PROVE  SoundStep
  BY <1>12, FreeInstanceStep
<1>13. CASE UNCHANGED vars
  <2>1. /\ fst' = fst /\ connections' = connections /\ instances' = instances
        /\ frames' = frames /\ call_stack' = call_stack
    BY <1>13 DEF vars
  <2>2. Staying(call_stack, frames, call_stack', frames')
    BY <2>1 DEF Staying, SameBelow
  <2> QED
    BY <2>1, <2>2 DEF SoundStep, StackStep, IInv
<1> QED
  BY <1>1, <1>2, <1>3, <1>4, <1>5, <1>6, <1>7, <1>8, <1>9, <1>10, <1>11, <1>12, <1>13
     DEF Next

(* The invariant is inductive. *)
LEMMA NextIInv == IInv /\ [Next]_vars => IInv'
<1> SUFFICES ASSUME IInv, [Next]_vars PROVE IInv'
  OBVIOUS
<1>1. SoundStep
  BY NextSoundStep
<1>2. frames \in Seq(FrameRecord) /\ frames' \in Seq(FrameRecord)
  BY <1>1 DEF IInv, Sound, Typed, SoundStep
<1>3. Levels(call_stack', frames')
  BY <1>1, <1>2, LevelsKept DEF IInv, SoundStep
<1> QED
  BY <1>1, <1>3 DEF IInv, SoundStep

(* Every behaviour keeps the invariant. *)
THEOREM SpecIInv == Spec => []IInv
<1>1. Init => IInv
  BY InitIInv
<1>2. IInv /\ [Next]_vars => IInv'
  BY NextIInv
<1> QED
  BY <1>1, <1>2, PTL DEF Spec

-----------------------------------------------------------------------------
(***************************************************************************)
(* What the invariant says.                                                *)
(***************************************************************************)

(* Types hold, and no entry of the call stack outlives the frame it points *)
(* into, also when calls beyond the limit were not entered.                *)
THEOREM TypeCorrect == Spec => []TypeOK
<1>1. IInv => TypeOK
  <2> SUFFICES ASSUME IInv PROVE TypeOK
    OBVIOUS
  <2>1. /\ call_stack \in Seq(Nat)
        /\ \A i \in 1..Len(call_stack) : call_stack[i] \in 1..Len(frames)
    BY DEF IInv, Levels
  <2>2. call_stack \in Seq(1..Len(frames))
    BY <2>1
  <2> QED
    BY <2>2 DEF IInv, Sound, Typed, Sources, TypeOK
<1> QED
  BY <1>1, SpecIInv, PTL

(* However signals, resume by hand, reloads and freed instances            *)
(* interleave, a call runs on a stack that was not destroyed.              *)
THEOREM OwnStack == Spec => []RunsOnOwnStack
<1>1. IInv => RunsOnOwnStack
  BY DEF IInv, Sound, Held, RunsOnOwnStack, OnStack
<1> QED
  BY <1>1, SpecIInv, PTL

(* A coroutine waits in one state or runs in one frame, so its completed   *)
(* is emitted once.                                                        *)
THEOREM GoesOnAtOnePlace == Spec => []OneContinuation
<1>1. IInv => OneContinuation
  <2> SUFFICES ASSUME IInv, NEW c \in States
               PROVE  Cardinality(Continuations(c)) <= 1
    BY DEF OneContinuation
  <2>1. CASE Continuations(c) = {}
    BY <2>1, FS_EmptySet
  <2>2. CASE Continuations(c) # {}
    <3>1. PICK s : s \in Continuations(c)
      BY <2>2
    <3>2. Continuations(c) = {s}
      BY <3>1 DEF IInv, Sound, OnePlace, Continuations
    <3> QED
      <4>1. Cardinality({s}) = 1
        BY FS_Singleton
      <4> QED
        BY <3>2, <4>1
  <2> QED
    BY <2>1, <2>2
<1> QED
  BY <1>1, SpecIInv, PTL

(* Who awaits a coroutine whose instance was not freed waits for something *)
(* that runs or will be resumed; the state with the signal is kept.        *)
THEOREM NobodyWaitsInVain == Spec => []NoLostWakeup
<1>1. IInv => NoLostWakeup
  <2> SUFFICES ASSUME IInv PROVE NoLostWakeup
    OBVIOUS
  <2>1. ASSUME NEW src \in States, NEW waiter \in States,
               <<src, waiter>> \in connections, Resumable(waiter),
               fst[src].instance \in instances \cup {Nil}
        PROVE  \E s \in Continuations(src) :
                 Waits(s) \/ \E f \in OnStack : f.state = s
    <3>1. CanRun(fst, waiter)
      BY <2>1, ResumableCanRun
    <3>2. PICK s \in States :
            /\ fst[s].function /\ fst[s].completed = src
            /\ WillRun(fst, connections, frames, s)
               \/ \E i \in 1..Len(frames) : frames[i].state = s
      BY <2>1, <3>1 DEF IInv, Sound, Woken, GoesOn
    <3>3. s \in Continuations(src)
      BY <3>2 DEF Continuations
    <3>4. WillRun(fst, connections, frames, s) => Waits(s)
      BY ResumableCanRun DEF WillRun, Waits, OnStack, Sources
    <3>5. (\E i \in 1..Len(frames) : frames[i].state = s)
            => \E f \in OnStack : f.state = s
      BY DEF OnStack
    <3> QED
      BY <3>2, <3>3, <3>4, <3>5
  <2>2. \A s \in States : fst[s].function => fst[fst[s].completed].exists
    BY DEF IInv, Sound, KeepsFirst, Absent, Free
  <2> QED
    BY <2>1, <2>2 DEF NoLostWakeup
<1> QED
  BY <1>1, SpecIInv, PTL

(* The call stack is that of the calls that run as long as there never     *)
(* were more of them than the limit of RuztaLanguage: only enter_function  *)
(* at the limit and the exits that follow put it out of step.              *)
THEOREM StackOfCalls ==
  Spec /\ [](Cardinality(CallHeights) <= MaxCallStack)
    => [](CallStackMatches /\ NoUnderflow)
<1> DEFINE Shallow == Cardinality(CallHeights) <= MaxCallStack
           Entered == AllEntered(call_stack, frames)
<1>1. Init => Entered
  BY DEF Init, AllEntered
<1>2. IInv /\ Entered /\ Shallow' /\ [Next]_vars => Entered'
  <2> SUFFICES ASSUME IInv, Entered, Shallow', [Next]_vars PROVE Entered'
    OBVIOUS
  <2>1. SoundStep
    BY NextSoundStep
  <2>2. frames \in Seq(FrameRecord) /\ frames' \in Seq(FrameRecord)
    BY <2>1 DEF IInv, Sound, Typed, SoundStep
  <2>3. Levels(call_stack, frames) /\ StackStep(call_stack, frames, call_stack', frames')
    BY <2>1 DEF IInv, SoundStep
  <2>4. Cardinality(Calls(frames')) <= MaxCallStack
    BY DEF Calls, CallHeights, KindAt
  <2> QED
    BY <2>2, <2>3, <2>4, AllEnteredKept
<1>3. IInv /\ Entered => CallStackMatches /\ NoUnderflow
  <2> SUFFICES ASSUME IInv, Entered PROVE CallStackMatches /\ NoUnderflow
    OBVIOUS
  <2>1. /\ call_stack \in Seq(Nat) /\ Len(call_stack) \in Nat
        /\ Levels(call_stack, frames)
    BY DEF IInv, Levels
  <2>2. \A h : h \in CallHeights <=> h \in 1..Len(frames) /\ KindAt(frames, h) = "call"
    BY DEF CallHeights, KindAt
  <2>3. {call_stack[i] : i \in 1..Len(call_stack)} = CallHeights
    <3>1. \A i \in 1..Len(call_stack) : call_stack[i] \in CallHeights
      BY <2>1, <2>2 DEF Levels
    <3>2. \A h \in CallHeights : \E i \in 1..Len(call_stack) : call_stack[i] = h
      BY <2>2 DEF AllEntered
    <3> QED
      BY <3>1, <3>2
  <2>4. ASSUME NEW i \in 1..Len(call_stack), NEW j \in 1..Len(call_stack), i < j
        PROVE  call_stack[i] > call_stack[j]
    <3>1. call_stack[i] - call_stack[j] >= j - i
      BY <2>1, <2>4 DEF Levels
    <3>2. call_stack[i] \in Nat /\ call_stack[j] \in Nat /\ i \in Nat /\ j \in Nat
      BY <2>1, ElementOfSeq
    <3> QED
      BY <2>4, <3>1, <3>2
  <2>5. NoUnderflow
    <3> SUFFICES ASSUME frames # <<>>, Top.kind = "call", call_stack = <<>>
                 PROVE  FALSE
      BY DEF NoUnderflow
    <3>1. /\ frames \in Seq(FrameRecord) /\ Len(frames) \in Nat
          /\ Len(frames) >= 1 /\ Top = frames[1]
      BY TopFacts
    <3>2. KindAt(frames, Len(frames)) = "call" /\ Len(frames) \in 1..Len(frames)
      BY <3>1, TopLeft
    <3> QED
      BY <3>2 DEF AllEntered
  <2> QED
    BY <2>3, <2>4, <2>5 DEF CallStackMatches
<1> HIDE DEF Entered
<1> QED
  BY <1>1, <1>2, <1>3, SpecIInv, PTL DEF Spec

=============================================================================
