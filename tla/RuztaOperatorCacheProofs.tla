----------------------- MODULE RuztaOperatorCacheProofs -----------------------
(***************************************************************************)
(* Proofs about RuztaOperatorCache, for any number of threads: what the    *)
(* mutex of OPCODE_OPERATOR protects, and what it leaves open.             *)
(***************************************************************************)
EXTENDS RuztaOperatorCache, TLAPS

ThreadsAreNot == Nobody \notin Threads

Words == {Unset} \cup {ReturnType(s) : s \in Signatures \cup {0}}
                 \cup {Evaluator(s) : s \in Signatures \cup {0}}

Stages == {"idle", "first", "signature", "type", "evaluator", "unlock",
           "fast", "read", "call", "slow"}

Typed ==
  /\ code \in [signature : Signatures \cup {0}, type : Words, evaluator : Words]
  /\ mutex \in Threads \cup {Nobody}
  /\ pc \in [Threads -> Stages]
  /\ actual \in [Threads -> Signatures \cup {0}]
  /\ found \in [Threads -> [type : Words, evaluator : Words]]
  /\ ran \in [Threads -> [signature : Signatures \cup {0}, type : Words, evaluator : Words]]

Locked == {"signature", "type", "evaluator", "unlock"}

(* Who stores holds the mutex, and writes what belongs to one signature.   *)
Storing ==
  \A t \in Threads :
    /\ pc[t] \in Locked => mutex = t
    /\ pc[t] = "signature" => code.signature = 0
    /\ pc[t] \in {"type", "evaluator"} => code.signature = actual[t]
    /\ pc[t] = "evaluator" => code.type = ReturnType(actual[t])

Fits(s) == code.type = ReturnType(s) /\ code.evaluator = Evaluator(s)

(* A thread is between the words of a store.                               *)
Torn == \E t \in Threads : pc[t] \in {"type", "evaluator"}

Whole == code.signature # 0 /\ ~ Torn => Fits(code.signature)

IInv == Typed /\ Storing /\ Whole

-----------------------------------------------------------------------------
LEMMA InitIInv == Init => IInv
<1> SUFFICES ASSUME Init PROVE IInv
  OBVIOUS
<1>1. Typed
  BY DEF Init, Typed, Words, Stages, NullNull
<1>2. Storing /\ Whole
  BY DEF Init, Storing, Whole, Locked
<1> QED
  BY <1>1, <1>2 DEF IInv

LEMMA TypedStep ==
  ASSUME Typed, NEW t \in Threads,
         \/ Enter(t) \/ Lock(t) \/ StoreSignature(t) \/ StoreType(t)
         \/ StoreEvaluator(t) \/ Unlock(t) \/ ReadType(t) \/ ReadEvaluator(t)
         \/ CallFound(t) \/ Slow(t)
  PROVE  Typed'
<1> USE DEF Typed, Goes, Stages
<1>1. \A s \in Signatures \cup {0} : ReturnType(s) \in Words /\ Evaluator(s) \in Words
  BY DEF Words
<1>2. CASE Enter(t)
  BY <1>2 DEF Enter
<1>3. CASE Lock(t)
  <2>1. ran' \in [Threads -> [signature : Signatures \cup {0}, type : Words, evaluator : Words]]
    BY <1>1, <1>3 DEF Lock, Runs
  <2>2. mutex' \in Threads \cup {Nobody} /\ pc' \in [Threads -> Stages]
    BY <1>3 DEF Lock
  <2> QED
    BY <1>3, <2>1, <2>2 DEF Lock
<1>4. CASE StoreSignature(t)
  BY <1>4 DEF StoreSignature
<1>5. CASE StoreType(t)
  BY <1>1, <1>5 DEF StoreType
<1>6. CASE StoreEvaluator(t)
  BY <1>1, <1>6 DEF StoreEvaluator
<1>7. CASE Unlock(t)
  BY <1>7 DEF Unlock
<1>8. CASE ReadType(t)
  BY <1>8 DEF ReadType
<1>9. CASE ReadEvaluator(t)
  BY <1>9 DEF ReadEvaluator
<1>10. CASE CallFound(t)
  <2>1. /\ actual[t] \in Signatures \cup {0} /\ found[t].type \in Words
        /\ found[t].evaluator \in Words
    OBVIOUS
  <2>2. PICK s, a, b : s = actual[t] /\ a = found[t].type /\ b = found[t].evaluator
    OBVIOUS
  <2>3. ran' = [ran EXCEPT ![t] = [signature |-> s, type |-> a, evaluator |-> b]]
    BY <1>10, <2>2 DEF CallFound, Runs
  <2>4. ran' \in [Threads -> [signature : Signatures \cup {0}, type : Words, evaluator : Words]]
    BY <2>1, <2>2, <2>3
  <2> QED
    BY <1>10, <2>4 DEF CallFound
<1>11. CASE Slow(t)
  <2>1. ran' \in [Threads -> [signature : Signatures \cup {0}, type : Words, evaluator : Words]]
    BY <1>1, <1>11 DEF Slow, Runs
  <2> QED
    BY <1>11, <2>1 DEF Slow
<1> QED
  BY <1>2, <1>3, <1>4, <1>5, <1>6, <1>7, <1>8, <1>9, <1>10, <1>11

(* A step that is not a store moves one thread.                            *)
LEMMA Keeps ==
  ASSUME IInv, NEW t \in Threads, UNCHANGED <<code, mutex>>, Typed',
         NEW to, Goes(t, pc[t], to), to \notin Locked, pc[t] \notin Locked,
         \A u \in Threads \ {t} : actual'[u] = actual[u]
  PROVE  Storing' /\ Whole'
<1>1. pc'[t] = to /\ \A u \in Threads \ {t} : pc'[u] = pc[u]
  BY DEF IInv, Typed, Goes
<1>2. Storing'
  BY <1>1 DEF IInv, Storing, Locked
<1>3. Torn' <=> Torn
  BY <1>1 DEF Torn, Locked
<1>4. Whole'
  BY <1>3 DEF IInv, Whole, Fits
<1> QED
  BY <1>2, <1>4

LEMMA NextIInv ==
  ASSUME ThreadsAreNot, IInv, [Next]_vars
  PROVE  IInv'
<1>1. CASE Done \/ UNCHANGED vars
  <2>1. UNCHANGED vars
    BY <1>1 DEF Done
  <2> QED
    BY <2>1 DEF vars, IInv, Typed, Storing, Whole, Torn, Fits
<1>2. ASSUME NEW t \in Threads,
             \/ Enter(t) \/ Lock(t) \/ StoreSignature(t) \/ StoreType(t)
             \/ StoreEvaluator(t) \/ Unlock(t) \/ ReadType(t) \/ ReadEvaluator(t)
             \/ CallFound(t) \/ Slow(t)
      PROVE  IInv'
  <2>1. Typed' /\ Typed /\ Storing /\ Whole
    BY <1>2, TypedStep DEF IInv
  <2>2. CASE Enter(t) \/ ReadType(t) \/ ReadEvaluator(t) \/ CallFound(t) \/ Slow(t)
    <3>1. UNCHANGED <<code, mutex>> /\ \A u \in Threads \ {t} : actual'[u] = actual[u]
      BY <2>1, <2>2 DEF Enter, ReadType, ReadEvaluator, CallFound, Slow, Typed
    <3>2. PICK to : Goes(t, pc[t], to) /\ to \notin Locked /\ pc[t] \notin Locked
      BY <2>2 DEF Enter, ReadType, ReadEvaluator, CallFound, Slow, Goes, Locked
    <3> QED
      BY <2>1, <3>1, <3>2, Keeps DEF IInv
  <2>3. CASE Lock(t)
    <3>1. CASE actual[t] \notin Valid
      <4>1. Goes(t, pc[t], "idle") /\ pc[t] \notin Locked /\ "idle" \notin Locked
            /\ UNCHANGED <<code, mutex, actual>>
        BY <2>3, <3>1 DEF Lock, Goes, Locked
      <4> QED
        BY <2>1, <4>1, Keeps DEF IInv
    <3>2. CASE actual[t] \in Valid
      <4>1. /\ mutex = Nobody /\ mutex' = t /\ UNCHANGED <<code, actual>> /\ pc[t] = "first"
            /\ pc'[t] = IF code.signature = 0 THEN "signature" ELSE "unlock"
            /\ \A u \in Threads \ {t} : pc'[u] = pc[u]
        BY <2>1, <2>3, <3>2 DEF Lock, Goes, Typed
      <4>2. \A u \in Threads : pc[u] \notin Locked
        BY <2>1, <4>1 DEF Storing, ThreadsAreNot
      <4>3. Storing'
        BY <4>1, <4>2 DEF Storing, Locked
      <4>4. ~ Torn /\ ~ Torn'
        BY <4>1, <4>2 DEF Torn, Locked
      <4>5. Whole'
        BY <2>1, <4>1, <4>4 DEF Whole, Fits
      <4> QED
        BY <2>1, <4>3, <4>5 DEF IInv
    <3> QED
      BY <3>1, <3>2
  <2>4. CASE StoreSignature(t) \/ StoreType(t) \/ StoreEvaluator(t) \/ Unlock(t)
    <3>1. /\ pc[t] \in Locked /\ mutex = t /\ UNCHANGED actual
          /\ \A u \in Threads \ {t} : pc'[u] = pc[u] /\ pc[u] \notin Locked
      <4>1. pc[t] \in Locked /\ UNCHANGED actual /\ \A u \in Threads \ {t} : pc'[u] = pc[u]
        BY <2>1, <2>4
        DEF StoreSignature, StoreType, StoreEvaluator, Unlock, Goes, Typed, Locked
      <4> QED
        BY <2>1, <4>1 DEF Storing
    <3>2. CASE StoreSignature(t)
      <4>1. pc'[t] = "type" /\ code'.signature = actual[t] /\ mutex' = t
        BY <2>1, <3>1, <3>2 DEF StoreSignature, Goes, Typed
      <4> QED
        BY <2>1, <3>1, <4>1 DEF IInv, Storing, Whole, Torn, Locked
    <3>3. CASE StoreType(t)
      <4>1. /\ pc[t] = "type" /\ pc'[t] = "evaluator" /\ mutex' = t
            /\ code'.signature = code.signature /\ code'.type = ReturnType(actual[t])
        BY <2>1, <3>1, <3>3 DEF StoreType, Goes, Typed
      <4>2. code.signature = actual[t]
        BY <2>1, <4>1 DEF Storing
      <4> QED
        BY <2>1, <3>1, <4>1, <4>2 DEF IInv, Storing, Whole, Torn, Locked
    <3>4. CASE StoreEvaluator(t)
      <4>1. /\ pc[t] = "evaluator" /\ pc'[t] = "unlock" /\ mutex' = t
            /\ code'.signature = code.signature /\ code'.type = code.type
            /\ code'.evaluator = Evaluator(actual[t])
        BY <2>1, <3>1, <3>4 DEF StoreEvaluator, Goes, Typed
      <4>2. code.signature = actual[t] /\ code.type = ReturnType(actual[t])
        BY <2>1, <4>1 DEF Storing
      <4>3. Storing'
        BY <3>1, <4>1 DEF Storing, Locked
      <4>4. Whole'
        BY <4>1, <4>2 DEF Whole, Fits
      <4> QED
        BY <2>1, <4>3, <4>4 DEF IInv
    <3>5. CASE Unlock(t)
      <4>1. pc[t] = "unlock" /\ pc'[t] = "idle" /\ UNCHANGED code
        BY <2>1, <3>5 DEF Unlock, Goes, Typed
      <4>2. Storing'
        BY <3>1, <4>1 DEF Storing, Locked
      <4>3. Torn' <=> Torn
        BY <3>1, <4>1 DEF Torn
      <4>4. Whole'
        BY <2>1, <4>1, <4>3 DEF Whole, Fits
      <4> QED
        BY <2>1, <4>2, <4>4 DEF IInv
    <3> QED
      BY <2>4, <3>2, <3>3, <3>4, <3>5
  <2> QED
    BY <1>2, <2>2, <2>3, <2>4
<1> QED
  BY <1>1, <1>2 DEF Next

(* What the mutex protects (ruzta_vm.cpp, OPCODE_OPERATOR): one thread     *)
(* stores at a time, and an instruction that nobody is storing into has    *)
(* the type and the evaluator of its signature.                            *)
THEOREM StoresAlone == ASSUME ThreadsAreNot PROVE Spec => []IInv
<1>1. Init => IInv
  BY InitIInv
<1>2. IInv /\ [Next]_vars => IInv'
  BY NextIInv
<1> QED
  BY <1>1, <1>2, PTL DEF Spec

-----------------------------------------------------------------------------
(***************************************************************************)
(* When the optimized path is right.                                       *)
(***************************************************************************)

(* Nobody takes the optimized path while another thread still stores.      *)
EntersWhole == \A t \in Threads : pc[t] = "idle" /\ pc'[t] = "fast" => ~ Torn

OnPath == {"fast", "read", "call"}

Reading ==
  \A t \in Threads :
    /\ pc[t] \in OnPath => code.signature # 0 /\ code.signature = actual[t] /\ Fits(actual[t])
    /\ pc[t] \in {"read", "call"} => found[t].type = ReturnType(actual[t])
    /\ pc[t] = "call" => found[t].evaluator = Evaluator(actual[t])

(* What an instruction has once it has run stays.                          *)
LEMMA Stays ==
  ASSUME IInv, [Next]_vars, code.signature # 0
  PROVE  /\ code'.signature = code.signature
         /\ \A s : s = code.signature /\ Fits(s) => Fits(s)'
<1>1. Typed /\ Storing
  BY DEF IInv
<1>2. CASE UNCHANGED code
  BY <1>2 DEF Fits
<1>3. ASSUME NEW t \in Threads, StoreSignature(t) PROVE FALSE
  BY <1>1, <1>3 DEF StoreSignature, Goes, Storing
<1>4. ASSUME NEW t \in Threads, StoreType(t)
      PROVE  /\ code'.signature = code.signature /\ code'.evaluator = code.evaluator
             /\ code'.type = ReturnType(code.signature)
  BY <1>1, <1>4 DEF StoreType, Goes, Storing, Typed
<1>5. ASSUME NEW t \in Threads, StoreEvaluator(t)
      PROVE  /\ code'.signature = code.signature /\ code'.type = code.type
             /\ code'.evaluator = Evaluator(code.signature)
  BY <1>1, <1>5 DEF StoreEvaluator, Goes, Storing, Typed
<1>6. \/ UNCHANGED code
      \/ \E t \in Threads : StoreSignature(t) \/ StoreType(t) \/ StoreEvaluator(t)
  BY DEF Next, vars, Done, Enter, Lock, Unlock, ReadType, ReadEvaluator, CallFound, Slow
<1> QED
  BY <1>2, <1>3, <1>4, <1>5, <1>6 DEF Fits

LEMMA ReadsWhole ==
  ASSUME IInv, [Next]_vars, [EntersWhole]_vars, Reading
  PROVE  Reading'
<1>1. Typed /\ Whole
  BY DEF IInv
<1>2. CASE UNCHANGED vars
  BY <1>2 DEF vars, Reading, Fits
<1>3. CASE ~ UNCHANGED vars
  <2>1. EntersWhole
    BY <1>3
  <2>2. PICK t \in Threads :
          \/ Enter(t) \/ Lock(t) \/ StoreSignature(t) \/ StoreType(t)
          \/ StoreEvaluator(t) \/ Unlock(t) \/ ReadType(t) \/ ReadEvaluator(t)
          \/ CallFound(t) \/ Slow(t)
    BY <1>3 DEF Next, Done
  <2>3. \A u \in Threads \ {t} :
          pc'[u] = pc[u] /\ actual'[u] = actual[u] /\ found'[u] = found[u]
    BY <1>1, <2>2 DEF Typed, Goes, Enter, Lock, StoreSignature, StoreType, StoreEvaluator,
       Unlock, ReadType, ReadEvaluator, CallFound, Slow
  <2>4. ASSUME NEW s, s = code.signature, s # 0, Fits(s)
        PROVE  s = code'.signature /\ Fits(s)'
    BY <2>4, Stays
  <2>5. ASSUME NEW u \in Threads \ {t}
        PROVE  /\ pc'[u] \in OnPath =>
                    code'.signature # 0 /\ code'.signature = actual'[u] /\ Fits(actual[u])'
               /\ pc'[u] \in {"read", "call"} => found'[u].type = ReturnType(actual'[u])
               /\ pc'[u] = "call" => found'[u].evaluator = Evaluator(actual'[u])
    <3>1. PICK a : a = actual[u]
      OBVIOUS
    <3>2. pc[u] \in OnPath => a = code'.signature /\ a # 0 /\ Fits(a)'
      BY <2>4, <3>1 DEF Reading
    <3>3. actual'[u] = a
      BY <2>3, <3>1
    <3> QED
      BY <2>3, <3>1, <3>2, <3>3 DEF Reading, Fits
  <2>6. /\ pc'[t] \in OnPath =>
             code'.signature # 0 /\ code'.signature = actual'[t] /\ Fits(actual[t])'
        /\ pc'[t] \in {"read", "call"} => found'[t].type = ReturnType(actual'[t])
        /\ pc'[t] = "call" => found'[t].evaluator = Evaluator(actual'[t])
    <3>1. CASE Enter(t)
      <4>1. pc[t] = "idle" /\ UNCHANGED code /\ pc'[t] \in {"first", "fast", "slow"}
            /\ (pc'[t] = "fast" => code.signature # 0 /\ code.signature = actual'[t])
        BY <1>1, <3>1 DEF Enter, Goes, Typed
      <4>2. pc'[t] = "fast" => Fits(code.signature)
        BY <1>1, <2>1, <4>1 DEF EntersWhole, Whole
      <4> QED
        BY <4>1, <4>2 DEF OnPath, Fits
    <3>2. CASE ReadType(t)
      <4>1. pc[t] = "fast" /\ pc'[t] = "read" /\ UNCHANGED <<code, actual>>
            /\ found'[t].type = code.type
        BY <1>1, <3>2 DEF ReadType, Goes, Typed
      <4> QED
        BY <4>1 DEF OnPath, Fits, Reading
    <3>3. CASE ReadEvaluator(t)
      <4>1. pc[t] = "read" /\ pc'[t] = "call" /\ UNCHANGED <<code, actual>>
            /\ found'[t].type = found[t].type /\ found'[t].evaluator = code.evaluator
        BY <1>1, <3>3 DEF ReadEvaluator, Goes, Typed
      <4> QED
        BY <4>1 DEF OnPath, Fits, Reading
    <3>4. CASE \/ Lock(t) \/ StoreSignature(t) \/ StoreType(t) \/ StoreEvaluator(t)
               \/ Unlock(t) \/ CallFound(t) \/ Slow(t)
      <4>1. pc'[t] \in {"idle", "signature", "type", "evaluator", "unlock"}
        BY <1>1, <3>4 DEF Typed, Goes, Lock, StoreSignature, StoreType, StoreEvaluator,
           Unlock, CallFound, Slow
      <4> QED
        BY <4>1 DEF OnPath
    <3> QED
      BY <2>2, <3>1, <3>2, <3>3, <3>4
  <2> QED
    BY <2>5, <2>6 DEF Reading, Fits
<1> QED
  BY <1>2, <1>3

LEMMA RunsRight ==
  ASSUME IInv, [Next]_vars, Reading, OptimizedPathMatches
  PROVE  OptimizedPathMatches'
<1>1. Typed
  BY DEF IInv
<1>2. CASE UNCHANGED ran
  BY <1>2 DEF OptimizedPathMatches
<1>3. ASSUME NEW t \in Threads, NEW a, NEW b, Runs(t, a, b),
             a = ReturnType(actual[t]), b = Evaluator(actual[t])
      PROVE  OptimizedPathMatches'
  <2>1. ran'[t] = [signature |-> actual[t], type |-> a, evaluator |-> b]
        /\ \A u \in Threads \ {t} : ran'[u] = ran[u]
    BY <1>1, <1>3 DEF Runs, Typed
  <2>2. ran'[t].signature = actual[t] /\ ran'[t].type = a /\ ran'[t].evaluator = b
    BY <2>1
  <2> QED
    BY <1>3, <2>1, <2>2 DEF OptimizedPathMatches
<1>4. ASSUME NEW t \in Threads, Lock(t) \/ Slow(t)
      PROVE  OptimizedPathMatches'
  BY <1>2, <1>3, <1>4 DEF Lock, Slow
<1>5. ASSUME NEW t \in Threads, CallFound(t)
      PROVE  OptimizedPathMatches'
  <2>1. Runs(t, found[t].type, found[t].evaluator) /\ pc[t] = "call"
    BY <1>5 DEF CallFound, Goes
  <2>2. found[t].type = ReturnType(actual[t]) /\ found[t].evaluator = Evaluator(actual[t])
    BY <2>1 DEF Reading
  <2> QED
    BY <1>3, <2>1, <2>2
<1>6. UNCHANGED ran \/ \E t \in Threads : Lock(t) \/ Slow(t) \/ CallFound(t)
  BY DEF Next, vars, Done, Enter, StoreSignature, StoreType, StoreEvaluator, Unlock,
     ReadType, ReadEvaluator
<1> QED
  BY <1>2, <1>4, <1>5, <1>6

(* The signature an instruction has once is never another, whatever the    *)
(* threads that found it without one store (ruzta_vm.cpp looks again under *)
(* the mutex).                                                             *)
FilledOnce == code.signature # 0 => code'.signature = code.signature

THEOREM NeverRefilled == ASSUME ThreadsAreNot PROVE Spec => [][FilledOnce]_vars
<1>1. IInv /\ [Next]_vars => [FilledOnce]_vars
  BY Stays DEF FilledOnce
<1> QED
  BY <1>1, StoresAlone, PTL DEF Spec

(* The comment on the optimized path is right for any number of threads    *)
(* that do not take it between the first and the last word of a store: no  *)
(* other order of steps calls a wrong evaluator (OPCODE_OPERATOR).         *)
THEOREM RightUnlessTorn ==
  ASSUME ThreadsAreNot
  PROVE  Spec /\ [][EntersWhole]_vars => []OptimizedPathMatches
<1>1. Init => Reading /\ OptimizedPathMatches
  BY DEF Init, Reading, OptimizedPathMatches, OnPath, NullNull, Unset
<1>2. /\ IInv /\ Reading /\ OptimizedPathMatches /\ [Next]_vars /\ [EntersWhole]_vars
      => Reading' /\ OptimizedPathMatches'
  BY ReadsWhole, RunsRight
<1> QED
  BY <1>1, <1>2, StoresAlone, PTL DEF Spec

(* So it is right for a single thread.                                     *)
THEOREM RightAlone ==
  ASSUME ThreadsAreNot, \A t, u \in Threads : t = u
  PROVE  Spec => []OptimizedPathMatches
<1>1. [Next]_vars => [EntersWhole]_vars
  BY DEF EntersWhole, Torn
<1> QED
  BY <1>1, RightUnlessTorn, PTL DEF Spec
=============================================================================
