-------------------------- MODULE RuztaOperatorCache --------------------------
(***************************************************************************)
(* OPCODE_OPERATOR (ruzta_vm.cpp): the types of the operands of its first  *)
(* run are kept in the instruction, with the evaluator for them, so that   *)
(* later runs with the same types skip the search.  The code of a function *)
(* is shared by all threads that run it.  Only the store is under a mutex. *)
(* A signature is the pair of operand types; 0 is that of two nulls, and   *)
(* of an instruction that has not run.  What one thread writes another may *)
(* see word by word, in the order of the code.                             *)
(***************************************************************************)
EXTENDS Naturals, FiniteSets

CONSTANTS Threads,
          Signatures, \* signatures operands have; 0 may be one
          Valid,      \* those the operator is defined for
          MaxRuns     \* bound on runs of the instruction

Unset == <<"unset", 0>>
Nobody == "nobody"
NullNull == 0

VARIABLES
    code,    \* the words ip+5, ip+6 and ip+7 of the instruction
    mutex,   \* initializer_mutex
    pc,      \* per thread: the next step of the run
    actual,  \* per thread: the signature of its operands
    found,   \* per thread: what the fast path has read
    ran,     \* per thread: the evaluator its last run has called
    runs

vars == <<code, mutex, pc, actual, found, ran, runs>>

(* What belongs to a signature: the type and the evaluator of its result. *)
ReturnType(s) == <<"type", s>>
Evaluator(s) == <<"evaluator", s>>

Init ==
    /\ code = [signature |-> 0, type |-> Unset, evaluator |-> Unset]
    /\ mutex = Nobody
    /\ pc = [t \in Threads |-> "idle"]
    /\ actual = [t \in Threads |-> NullNull]
    /\ found = [t \in Threads |-> [type |-> Unset, evaluator |-> Unset]]
    /\ ran = [t \in Threads |-> [signature |-> NullNull, type |-> Unset, evaluator |-> Unset]]
    /\ runs = 0

Goes(t, from, to) == pc[t] = from /\ pc' = [pc EXCEPT ![t] = to]

Runs(t, type, evaluator) ==
    ran' = [ran EXCEPT ![t] = [signature |-> actual[t], type |-> type, evaluator |-> evaluator]]

(* The instruction reads the signature without the mutex. *)
Enter(t) ==
    /\ runs < MaxRuns
    /\ runs' = runs + 1
    /\ \E s \in Signatures :
          /\ actual' = [actual EXCEPT ![t] = s]
          /\ \/ code.signature = 0 /\ Goes(t, "idle", "first")
             \/ code.signature # 0 /\ code.signature = s /\ Goes(t, "idle", "fast")
             \/ code.signature \notin {0, s} /\ Goes(t, "idle", "slow")
    /\ UNCHANGED <<code, mutex, found, ran>>

(* The first run: locked, evaluated, and stored if it still is the first.
   Operands the operator is not defined for end the call with an error. *)
Lock(t) ==
    /\ mutex = Nobody
    /\ \/ /\ actual[t] \in Valid
          /\ Goes(t, "first", IF code.signature = 0 THEN "signature" ELSE "unlock")
          /\ mutex' = t
          /\ Runs(t, ReturnType(actual[t]), Evaluator(actual[t]))
       \/ /\ actual[t] \notin Valid
          /\ Goes(t, "first", "idle")
          /\ UNCHANGED <<mutex, ran>>
    /\ UNCHANGED <<code, actual, found, runs>>

StoreSignature(t) ==
    /\ Goes(t, "signature", "type")
    /\ code' = [code EXCEPT !.signature = actual[t]]
    /\ UNCHANGED <<mutex, actual, found, ran, runs>>

StoreType(t) ==
    /\ Goes(t, "type", "evaluator")
    /\ code' = [code EXCEPT !.type = ReturnType(actual[t])]
    /\ UNCHANGED <<mutex, actual, found, ran, runs>>

StoreEvaluator(t) ==
    /\ Goes(t, "evaluator", "unlock")
    /\ code' = [code EXCEPT !.evaluator = Evaluator(actual[t])]
    /\ UNCHANGED <<mutex, actual, found, ran, runs>>

Unlock(t) ==
    /\ Goes(t, "unlock", "idle")
    /\ mutex' = Nobody
    /\ UNCHANGED <<code, actual, found, ran, runs>>

(* The optimized path, without the mutex. *)
ReadType(t) ==
    /\ Goes(t, "fast", "read")
    /\ found' = [found EXCEPT ![t].type = code.type]
    /\ UNCHANGED <<code, mutex, actual, ran, runs>>

ReadEvaluator(t) ==
    /\ Goes(t, "read", "call")
    /\ found' = [found EXCEPT ![t].evaluator = code.evaluator]
    /\ UNCHANGED <<code, mutex, actual, ran, runs>>

CallFound(t) ==
    /\ Goes(t, "call", "idle")
    /\ Runs(t, found[t].type, found[t].evaluator)
    /\ UNCHANGED <<code, mutex, actual, found, runs>>

(* RuztaVariantExtension::evaluate searches for the evaluator each time. *)
Slow(t) ==
    /\ Goes(t, "slow", "idle")
    /\ IF actual[t] \in Valid
       THEN Runs(t, ReturnType(actual[t]), Evaluator(actual[t]))
       ELSE UNCHANGED ran
    /\ UNCHANGED <<code, mutex, actual, found, runs>>

Done == runs = MaxRuns /\ (\A t \in Threads : pc[t] = "idle") /\ UNCHANGED vars

Next ==
    \/ \E t \in Threads :
          \/ Enter(t) \/ Lock(t) \/ StoreSignature(t) \/ StoreType(t)
          \/ StoreEvaluator(t) \/ Unlock(t) \/ ReadType(t) \/ ReadEvaluator(t)
          \/ CallFound(t) \/ Slow(t)
    \/ Done

Spec == Init /\ [][Next]_vars

(* "If the signature matches, we can use the optimized path" (the comment in
   OPCODE_OPERATOR): the path taken when the signature matches calls the
   evaluator of the operands it has, into a result of that type. *)
OptimizedPathMatches ==
    \A t \in Threads :
        ran[t].evaluator # Unset \/ ran[t].signature # NullNull =>
            /\ ran[t].type = ReturnType(ran[t].signature)
            /\ ran[t].evaluator = Evaluator(ran[t].signature)
=============================================================================
