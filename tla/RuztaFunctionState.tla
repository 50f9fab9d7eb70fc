------------------------- MODULE RuztaFunctionState -------------------------
(***************************************************************************)
(* Coroutines: RuztaFunction::call (ruzta_vm.cpp) with await, the          *)
(* RuztaFunctionState objects that hold a suspended call                   *)
(* (ruzta_function.cpp), their lists in the script and in the instance,    *)
(* and the call stack RuztaLanguage keeps for the debugger (ruzta.h).      *)
(*                                                                         *)
(* One thread.  `frames` is the C++ stack: activations of call, and the    *)
(* emissions of signals that resume suspended calls from inside.  What a   *)
(* script does next is free: call, await, emit, return.                    *)
(***************************************************************************)
EXTENDS Naturals, Sequences, FiniteSets

CONSTANTS
  States,        \* identities a RuztaFunctionState may get
  Signals,       \* signals of objects that outlive the run
  Instances,     \* script instances, all of one script
  Nil,           \* no state, no instance (a static function)
  MaxCallStack,  \* _debug_max_call_stack
  MaxFrames      \* bound: how deep scripts nest calls and emissions; what
                 \* an emission resumes is bounded by the states there are

ASSUME StateAssumption ==
  /\ Nil \notin States \cup Instances
  /\ States \cap Signals = {}
  /\ MaxCallStack \in Nat \ {0} /\ MaxFrames \in Nat

VARIABLES
  fst,          \* the function states
  connections,  \* pairs <<source, state>>; a source is a signal, or the
                \* state whose `completed` signal it is
  instances,    \* the instances that exist
  frames,       \* C++ activations, the innermost first
  call_stack    \* _call_stack: the frames entered, as heights, newest first

vars == <<fst, connections, instances, frames, call_stack>>

(***************************************************************************)
(* A function state: function is not null; the state is in the list of its *)
(* script and, if it has an instance, of that; its stack is owned          *)
(* ("held"), or destroyed; the state it awaits is kept alive by a slot of  *)
(* that stack; completed names the state whose signal ends the coroutine.  *)
(***************************************************************************)
Free == [exists |-> FALSE, function |-> FALSE, in_script |-> FALSE,
         in_instance |-> FALSE, instance |-> Nil, stack |-> "none",
         awaits |-> Nil, completed |-> Nil, first_state |-> Nil]

Call(inst, st) == [kind |-> "call", instance |-> inst, state |-> st,
                   pc |-> "run", got |-> Nil, todo |-> {}]
Emission(S) == [kind |-> "emit", instance |-> Nil, state |-> Nil,
                pc |-> "run", got |-> Nil, todo |-> S]

Top == Head(frames)
Running == frames # <<>> /\ Top.kind = "call" /\ Top.pc = "run"
OnStack == {frames[i] : i \in 1..Len(frames)}

(***************************************************************************)
(* Reference counting: a state is kept by the callables bound to it, by    *)
(* the frames that use it, by the later states of its coroutine, and by    *)
(* the stack of a state that awaits it; a callable is kept by its source.  *)
(***************************************************************************)
Kept(f, C, fr) ==
  LET exists == {s \in States : f[s].exists}
      roots == UNION {fr[i].todo \cup {fr[i].state, fr[i].got} : i \in 1..Len(fr)}
  IN UNION {S \in SUBSET exists :
       \A s \in S :
         \/ s \in roots
         \/ \E c \in C : c[2] = s /\ (c[1] \in Signals \/ c[1] \in S)
         \/ \E u \in S : f[u].first_state = s \/ (f[u].stack = "held" /\ f[u].awaits = s)}

(* A step ends with the destructors: a state that goes leaves its lists.   *)
Settle(f, C, fr) ==
  LET K == Kept(f, C, fr)
  IN /\ fst' = [s \in States |-> IF s \in K THEN f[s] ELSE Free]
     /\ connections' = {c \in C : c[2] \in K /\ c[1] \in Signals \cup K}
     /\ frames' = fr

(***************************************************************************)
(* enter_function and exit_function.  A call beyond the limit reports the  *)
(* overflow, is not entered, and runs all the same.                        *)
(***************************************************************************)
enter_function(height) ==
  IF Len(call_stack) >= MaxCallStack THEN call_stack ELSE <<height>> \o call_stack

(* Mistake: a resumed call was exited before its waiters ran, and again.   *)
exit_functionIfTwice(levels) ==
  IF Len(levels) < 2 THEN <<>> ELSE Tail(Tail(levels))

(* Mistake: a call left without exit_function. *)
exit_functionIfSkipped(levels) == levels

exit_function(levels) == IF levels = <<>> THEN levels ELSE Tail(levels)

-----------------------------------------------------------------------------
Room == Len(frames) < MaxFrames

(* A script function, or the engine when nothing runs, calls a function.   *)
Invoke(inst) ==
  /\ Room /\ (frames # <<>> => Running /\ Top.got = Nil)
  /\ inst \in instances \cup {Nil}
  /\ Settle(fst, connections, <<Call(inst, Nil)>> \o frames)
  /\ call_stack' = enter_function(Len(frames) + 1)
  /\ UNCHANGED instances

(***************************************************************************)
(* OPCODE_AWAIT in the frame on top: a new state takes over the stack and  *)
(* waits for src; the call returns it.  A resumed call frees the stack of  *)
(* its old state, and resume hands the first state down.                   *)
(***************************************************************************)
FreshState == CHOOSE s \in States : ~ fst[s].exists

(* Mistake: resume did not keep the first state alive. *)
HandedDownIfDropped(st) == Nil

HandedDown(st) ==
  IF st = Nil THEN Nil
  ELSE IF fst[st].first_state # Nil THEN fst[st].first_state ELSE st

(* Mistake: a state whose call goes on elsewhere may be resumed again. *)
SpentIfStillBound(st) == [fst[st] EXCEPT !.stack = "destroyed"]

(* A state whose call has run: its stack is freed, its function forgotten. *)
Spent(st) == [fst[st] EXCEPT !.stack = "destroyed", !.function = FALSE]

(* The frames below, a script function among them given what call returned. *)
CallerGets(s) ==
  LET below == Tail(frames)
  IN IF below # <<>> /\ Head(below).kind = "call" THEN [below EXCEPT ![1].got = s]
     ELSE below

(* OPCODE_AWAIT that could connect; its own stack goes to the new state, so *)
(* that of the state it was resumed from is freed (ruzta_vm.cpp:3969-3976). *)
(* One that cannot connect frees the state it made and ends the call with   *)
(* an error, which is a Return or ReturnResumed.                            *)
Await(src) ==
  /\ Running
  /\ IF Top.got = Nil THEN src \in Signals ELSE src = Top.got
  /\ \E s \in States : ~ fst[s].exists
  /\ LET s    == FreshState
         st   == Top.state
         next == [exists |-> TRUE, function |-> TRUE, in_script |-> TRUE,
                  in_instance |-> Top.instance # Nil, instance |-> Top.instance,
                  stack |-> "held", awaits |-> Top.got,
                  completed |-> IF st = Nil THEN s ELSE fst[st].completed,
                  first_state |-> HandedDown(st)]
         f    == IF st = Nil THEN [fst EXCEPT ![s] = next]
                 ELSE [fst EXCEPT ![s] = next, ![st] = Spent(st)]
     IN Settle(f, connections \cup {<<src, s>>}, CallerGets(s))
  /\ call_stack' = exit_function(call_stack)
  /\ UNCHANGED instances

(* The script does not await what it called, nor keeps it. *)
Drop ==
  /\ Running /\ Top.got # Nil
  /\ Settle(fst, connections, [frames EXCEPT ![1].got = Nil])
  /\ UNCHANGED <<instances, call_stack>>

(* OPCODE_RETURN of a call that never awaited. *)
Return ==
  /\ Running /\ Top.got = Nil /\ Top.state = Nil
  /\ Settle(fst, connections, Tail(frames))
  /\ call_stack' = exit_function(call_stack)
  /\ UNCHANGED instances

(***************************************************************************)
(* Emitting: every one-shot connection of the source is undone, then each  *)
(* callable runs.  A resumed call that returns emits completed before it   *)
(* is exited.                                                              *)
(***************************************************************************)
Waiting(src) == {s \in States : <<src, s>> \in connections}
Undone(src) == {c \in connections : c[1] # src}

ReturnResumed ==
  /\ Running /\ Top.got = Nil /\ Top.state # Nil
  /\ LET c == fst[Top.state].completed
     IN Settle(fst, Undone(c), <<Emission(Waiting(c)), [Top EXCEPT !.pc = "emit"]>>
                                 \o Tail(frames))
  /\ UNCHANGED <<instances, call_stack>>

Emit(sig) ==
  /\ Room /\ (frames # <<>> => Running /\ Top.got = Nil) /\ Waiting(sig) # {}
  /\ Settle(fst, Undone(sig), <<Emission(Waiting(sig))>> \o frames)
  /\ UNCHANGED <<instances, call_stack>>

(* Mistake: resume did not ask whether the state is still listed. *)
ResumableIfUnlisted(s) == fst[s].function

(* What resume asks before it runs the call again. *)
Resumable(s) ==
  /\ fst[s].function
  /\ fst[s].in_script
  /\ fst[s].instance # Nil => fst[s].in_instance

(* resume, called by a signal or, when nothing runs, by hand.              *)
Resumed(s, below) ==
  /\ IF Resumable(s)
     THEN /\ Settle([fst EXCEPT ![s].in_script = FALSE, ![s].in_instance = FALSE],
                    connections, <<Call(fst[s].instance, s)>> \o below)
          /\ call_stack' = enter_function(Len(below) + 1)
     ELSE Settle(fst, connections, below) /\ UNCHANGED call_stack
  /\ UNCHANGED instances

ResumeNext ==
  /\ frames # <<>> /\ Top.kind = "emit"
  /\ \E s \in Top.todo :
       Resumed(s, <<[Top EXCEPT !.todo = @ \ {s}]>> \o Tail(frames))

ResumeByHand(s) == frames = <<>> /\ fst[s].exists /\ Resumed(s, <<>>)

EmitDone ==
  /\ frames # <<>> /\ Top.kind = "emit" /\ Top.todo = {}
  /\ Len(frames) > 1 => frames[2].pc # "emit"
  /\ Settle(fst, connections, Tail(frames))
  /\ UNCHANGED <<instances, call_stack>>

(* The rest of a resumed call and of its resume after completed was emitted. *)
ResumeDone ==
  /\ Len(frames) > 1 /\ Top.kind = "emit" /\ Top.todo = {}
  /\ frames[2].pc = "emit"
  /\ LET st == frames[2].state
     IN Settle([fst EXCEPT ![st] = Spent(st)],
               connections, Tail(Tail(frames)))
  /\ call_stack' = exit_function(call_stack)
  /\ UNCHANGED instances

(***************************************************************************)
(* Reloading the script cancels what is pending; freeing an instance does  *)
(* so for its calls.  Neither disconnects anything (_clear_connections is  *)
(* empty).  Neither happens under a running call of the script, or of the  *)
(* instance.                                                               *)
(***************************************************************************)
Cancelled(S, list) ==
  [s \in States |->
     IF s \in S THEN [fst[s] EXCEPT ![list] = FALSE, !.stack = "destroyed"]
     ELSE fst[s]]

cancel_pending_functions ==
  /\ \A f \in OnStack : f.kind # "call"
  /\ Settle(Cancelled({s \in States : fst[s].in_script}, "in_script"),
            connections, frames)
  /\ UNCHANGED <<instances, call_stack>>

FreeInstance(inst) ==
  /\ inst \in instances /\ \A f \in OnStack : f.instance # inst
  /\ Settle(Cancelled({s \in States : fst[s].in_instance /\ fst[s].instance = inst},
                      "in_instance"), connections, frames)
  /\ instances' = instances \ {inst}
  /\ UNCHANGED call_stack

Init ==
  /\ fst = [s \in States |-> Free]
  /\ connections = {} /\ frames = <<>> /\ call_stack = <<>>
  /\ instances = Instances

Next ==
  \/ \E inst \in Instances \cup {Nil} : Invoke(inst)
  \/ \E src \in States \cup Signals : Await(src)
  \/ Drop \/ Return \/ ReturnResumed
  \/ \E sig \in Signals : Emit(sig)
  \/ ResumeNext \/ EmitDone \/ ResumeDone
  \/ \E s \in States : ResumeByHand(s)
  \/ cancel_pending_functions
  \/ \E inst \in Instances : FreeInstance(inst)

Spec == Init /\ [][Next]_vars

-----------------------------------------------------------------------------
StateRecord ==
  [exists : BOOLEAN, function : BOOLEAN, in_script : BOOLEAN,
   in_instance : BOOLEAN, instance : Instances \cup {Nil},
   stack : {"none", "held", "destroyed"}, awaits : States \cup {Nil},
   completed : States \cup {Nil}, first_state : States \cup {Nil}]

FrameRecord ==
  [kind : {"call", "emit"}, instance : Instances \cup {Nil},
   state : States \cup {Nil}, pc : {"run", "emit"},
   got : States \cup {Nil}, todo : SUBSET States]

(* Types; and no entry of the call stack outlives the frame it points into *)
(* (call_level is a local of call, ruzta_vm.cpp).                          *)
TypeOK ==
  /\ fst \in [States -> StateRecord]
  /\ connections \subseteq (States \cup Signals) \X States
  /\ instances \subseteq Instances
  /\ frames \in Seq(FrameRecord)
  /\ call_stack \in Seq(1..Len(frames))

(***************************************************************************)
(* However signals, resume by hand, reloads and freed instances interleave,*)
(* a call never runs on a stack that was destroyed: the lists are the only *)
(* defence, since nothing is disconnected (ruzta_function.cpp:197-213).    *)
(***************************************************************************)
RunsOnOwnStack ==
  \A f \in OnStack : f.state # Nil => fst[f.state].stack = "held"

(***************************************************************************)
(* A coroutine continues at one place only: it waits in one state or runs  *)
(* in one frame, so completed is emitted once.                             *)
(***************************************************************************)
Continuations(c) == {s \in States : fst[s].function /\ fst[s].completed = c}

OneContinuation == \A c \in States : Cardinality(Continuations(c)) <= 1

(***************************************************************************)
(* Nobody waits in vain: when a call that can be resumed awaits another    *)
(* one, whose instance was not freed, that one runs, or can be resumed by  *)
(* something that will still call it; and the first state of every         *)
(* coroutine, the one with the signal, is kept (ruzta_function.cpp:229).   *)
(***************************************************************************)
Waits(s) ==
  /\ Resumable(s)
  /\ \/ \E src \in States \cup Signals : <<src, s>> \in connections
     \/ \E f \in OnStack : s \in f.todo

NoLostWakeup ==
  /\ \A src, waiter \in States :
       /\ <<src, waiter>> \in connections /\ Resumable(waiter)
       /\ fst[src].instance \in instances \cup {Nil}
       => \E s \in Continuations(src) : Waits(s) \/ \E f \in OnStack : f.state = s
  /\ \A s \in States : fst[s].function => fst[fst[s].completed].exists

(***************************************************************************)
(* The debugger sees the calls that run, in their order, the ones below a  *)
(* resumed call included (ruzta_vm.cpp:3957-3959).                         *)
(***************************************************************************)
CallHeights == {h \in 1..Len(frames) : frames[Len(frames) - h + 1].kind = "call"}

CallStackMatches ==
  /\ {call_stack[i] : i \in 1..Len(call_stack)} = CallHeights
  /\ \A i, j \in 1..Len(call_stack) : i < j => call_stack[i] > call_stack[j]

(* ruzta.h:763, "Stack Underflow (Engine Bug)": exit_function always finds *)
(* a level to leave.                                                       *)
NoUnderflow == (frames # <<>> /\ Top.kind = "call") => call_stack # <<>>

=============================================================================
