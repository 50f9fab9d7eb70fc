----------------------------- MODULE RuztaScriptRun -----------------------------
(***************************************************************************)
(* RuztaScriptRun: a script from its text to what it does.  Its text is    *)
(* parsed (Ruzta::reload), its exported form is parsed too (a release      *)
(* build), it is analyzed and compiled, its static variables and those of  *)
(* an instance are given their values, and a function of the instance is   *)
(* called on the virtual machine.  The stages are parameters: each is a    *)
(* module of its own.                                                      *)
(***************************************************************************)
EXTENDS RuztaVM

CONSTANTS
    Cases,           \* [script, layout, cut, entry, typed]: what is written, and what is called
    Write(_),        \* the text of a case
    Reference(_),    \* what is to come of it: [written, result, log]
    Parse(_),        \* RuztaTokenizerText and RuztaParser::parse
    ParseExported(_),  \* RuztaTokenizerBuffer and RuztaParser::parse_binary
    Analyze(_),      \* RuztaAnalyzer: [errors, tree]
    Compile(_),      \* RuztaCompiler and RuztaByteCodeGenerator
    OtherCode        \* instructions no case has, to be listed

D == INSTANCE RuztaDisassembler

VARIABLES case, stage, text, wanted, parsed, exported, todo   \* todo: the functions to call
vars == <<machine, case, stage, text, wanted, parsed, exported, todo>>

Init ==
    /\ case \in Cases
    /\ stage = "new"
    /\ text = <<>> /\ wanted = <<>> /\ parsed = <<>> /\ exported = <<>>
    /\ program = << >> /\ frames = <<>> /\ heap = <<>> /\ log = <<>> /\ result = Nil
    /\ members = <<>> /\ static_variables = <<>> /\ todo = <<>>

(* The stages: what does the work of one, and what it is done on. *)
Work(Stage(_), x) == Stage(x)

IsWritten ==
    /\ stage = "new" /\ stage' = "written"
    /\ text' = Work(Write, case) /\ wanted' = Work(Reference, case)
    /\ UNCHANGED <<machine, case, parsed, exported, todo>>
IsParsed ==
    /\ stage = "written" /\ stage' = "parsed"
    /\ parsed' = Work(Parse, text)
    /\ UNCHANGED <<machine, case, text, wanted, exported, todo>>
IsExported ==
    /\ stage = "parsed" /\ stage' = "exported"
    /\ exported' = Work(ParseExported, text)
    /\ UNCHANGED <<machine, case, text, wanted, parsed, todo>>

(* Only a script without errors is analyzed, and only one that is accepted
   is compiled, which may find errors too; the text is not kept. *)
Runnable == case.entry # "" /\ parsed.ok
IsAnalyzed ==
    /\ stage = "exported" /\ Runnable /\ stage' = "analyzed"
    /\ parsed' = Work(Analyze, parsed.tree)
    /\ text' = <<>> /\ exported' = <<>>
    /\ UNCHANGED <<machine, case, wanted, todo>>
IsCompiled ==
    /\ stage = "analyzed" /\ parsed.errors = 0
    /\ program' = Work(Compile, parsed.tree)
    /\ stage' = IF program'.error THEN "refused" ELSE "compiled"
    /\ parsed' = <<>>
    /\ UNCHANGED <<frames, heap, log, result, data, case, text, wanted, exported, todo>>
Refuse ==
    /\ \/ stage = "exported" /\ ~Runnable
       \/ stage = "analyzed" /\ parsed.errors # 0
    /\ stage' = "refused"
    /\ UNCHANGED <<machine, case, text, wanted, parsed, exported, todo>>

(* Ruzta::reload ends with the script's static initializer; an instance is
   made with its implicit one, and with _init, and is there to be called. *)
Load ==
    LET defaults == _static_default_init(program.static_variables_indices, heap)
    IN  /\ stage = "compiled" /\ stage' = "running"
        /\ static_variables' = defaults.values /\ heap' = defaults.heap
        /\ members' = [index \in 1..Cardinality(DOMAIN program.member_indices) |-> Nil]
        /\ todo' = <<"@static_initializer", "@implicit_new", "_init", case.entry>>
        /\ UNCHANGED <<program, frames, log, result, case, text, wanted, parsed, exported>>
(* What the script has of these is called, from outside and with nothing. *)
Begin ==
    LET name == Head(todo)
    IN  /\ stage = "running" /\ frames = <<>> /\ todo # <<>> /\ todo' = Tail(todo)
        /\ IF name \in DOMAIN program.functions
           THEN /\ Accepts(name, <<>>)
                /\ frames' = <<FrameOf(program.functions, name, <<>>, name # "@static_initializer")>>
           ELSE UNCHANGED frames
        /\ UNCHANGED <<program, heap, log, result, data, case, stage, text, wanted, parsed, exported>>
Step ==
    /\ stage = "running" /\ Execute
    /\ UNCHANGED <<case, stage, text, wanted, parsed, exported, todo>>
Finish ==
    /\ stage = "running" /\ frames = <<>> /\ todo = <<>> /\ stage' = "done"
    /\ UNCHANGED <<machine, case, text, wanted, parsed, exported, todo>>
Done == stage \in {"done", "refused"} /\ UNCHANGED vars

Next ==
    \/ IsWritten \/ IsParsed \/ IsExported \/ IsAnalyzed \/ IsCompiled \/ Refuse
    \/ Load \/ Begin \/ Step \/ Finish \/ Done

(* A call that has begun goes on: the thread does nothing else. *)
Spec == Init /\ [][Next]_vars /\ WF_vars(Begin) /\ WF_vars(Step) /\ WF_vars(Finish)

(***************************************************************************)
(* Properties.                                                             *)
(***************************************************************************)
Read == stage \in {"parsed", "exported"}

NamedIn(i, names) == {i[name] : name \in names \cap DOMAIN i}
ListedIn(i, names) == UNION {ToSet(i[name]) : name \in names \cap DOMAIN i}
SlotsOf(i) ==
    NamedIn(i, {"target", "source", "left", "right", "condition", "base", "index", "counter", "container",
              "iterator", "test", "value"}) \cup ListedIn(i, {"arguments", "range"})
IsSlot(a) == a.mode \in {"local", "temporary"}

(***************************************************************************)
(* What the machine takes for granted of code, as it is given it: slots of *)
(* the function for what instructions name, operators there are, places of *)
(* the function to jump to and an END nothing goes past, one place for     *)
(* each default argument; one place for each variable, and only its setter *)
(* and the initializer to put a value where a variable with a setter has   *)
(* it; no instance where there may be none.                                *)
(***************************************************************************)
SlotsThere(f) ==
    /\ f.stack_size \in Nat /\ f.argument_count \in Nat /\ f.default_arg_count \in 0..f.argument_count
    /\ \A ip \in DOMAIN f.code :
          LET i == f.code[ip]
          IN  /\ \A a \in SlotsOf(i) : IsSlot(a) => SlotIn(f, a) \in 1..f.stack_size
              /\ i.op \in {"OPERATOR", "OPERATOR_VALIDATED"} => i.operator \in Operators
              /\ i.op \in {"CALL", "CALL_RETURN"} => "base" \in DOMAIN i
Jumps == {"JUMP", "JUMP_IF", "JUMP_IF_NOT", "JUMP_IF_SHARED", "ITERATE_BEGIN", "ITERATE"}
JumpsInside(f) ==
    LET places == DOMAIN f.code
    IN  /\ places \subseteq Nat /\ 1 \in places
        /\ \A ip \in places :
              LET i == f.code[ip]
              IN  /\ i.op # "END" => ip + 1 \in places
                  /\ i.op \in Jumps => i.to \in places
                  /\ i.op = "JUMP_TO_DEF_ARGUMENT" =>
                        \A given \in 0..f.default_arg_count : f.default_arguments[given + 1] \in places
PlacesOwn(indices) ==
    /\ IsFiniteSet(DOMAIN indices)
    /\ \A name \in DOMAIN indices : indices[name].index \in 1..Cardinality(DOMAIN indices)
    /\ \A one, other \in DOMAIN indices : indices[one].index = indices[other].index => one = other
MayWrite(indices, index, function, initializer) ==
    \A name \in DOMAIN indices :
        indices[name].index = index /\ indices[name].setter # "" => function \in {indices[name].setter, initializer}
Puts ==   \* a value into their target
    {"ASSIGN", "ASSIGN_NULL", "ASSIGN_TRUE", "ASSIGN_FALSE", "ASSIGN_TYPED_BUILTIN", "TYPE_ADJUST",
     "TYPE_TEST_BUILTIN", "CAST_TO_BUILTIN", "OPERATOR", "OPERATOR_VALIDATED", "GET_KEYED",
     "GET_KEYED_VALIDATED", "GET_INDEXED_VALIDATED", "GET_NAMED", "GET_NAMED_VALIDATED", "SET_NAMED",
     "SET_NAMED_VALIDATED", "GET_STATIC_VARIABLE", "CONSTRUCT", "CONSTRUCT_VALIDATED", "CONSTRUCT_ARRAY",
     "CONSTRUCT_DICTIONARY", "CREATE_LAMBDA", "CREATE_SELF_LAMBDA", "CALL_BUILTIN_TYPE_VALIDATED",
     "CALL_UTILITY", "CALL_RUZTA_UTILITY"}
WritesGuarded(function) ==
    LET code == program.functions[function].code
    IN  \A ip \in DOMAIN code :
            LET i == code[ip]
            IN  /\ i.op \in Puts /\ i.target.mode = "member" =>
                      MayWrite(program.member_indices, i.target.address, function, "@implicit_new")
                /\ i.op = "SET_STATIC_VARIABLE" =>
                      MayWrite(program.static_variables_indices, i.at, function, "@static_initializer")
AsksForNone(f) ==   \* for no instance
    \A ip \in DOMAIN f.code :
        /\ f.code[ip].op # "CREATE_SELF_LAMBDA"
        /\ \A a \in SlotsOf(f.code[ip]) : a.mode \notin {"self", "member"}
RunsAlone(name) == name \in DOMAIN program.functions /\ AsksForNone(program.functions[name])
InstanceLeftOut(name) ==
    LET f == program.functions[name]
    IN  /\ f.is_static \/ name = "@static_initializer" => RunsAlone(name)
        /\ \A ip \in DOMAIN f.code : f.code[ip].op = "CREATE_LAMBDA" => RunsAlone(f.code[ip].function_name)

(* The generator gives the machine what it takes for granted, and each     *)
(* temporary an expression takes is given back by the end of its function  *)
(* (write_end: "Non-zero temporary variables at end of function"), however *)
(* branches, loops, short circuits and assignments to parts are nested.    *)
CodeSound ==
    stage \in {"compiled", "running"} =>
        /\ PlacesOwn(program.member_indices) /\ PlacesOwn(program.static_variables_indices)
        /\ \A name \in DOMAIN program.functions :
              LET f == program.functions[name]
              IN  /\ SlotsThere(f) /\ JumpsInside(f) /\ WritesGuarded(name) /\ InstanceLeftOut(name)
                  /\ f.temporaries_left = 0

(* The type invariant of the machine: every frame is at an instruction of  *)
(* its function and has the slots that instruction names, and calls are no *)
(* deeper than MAX_CALL_DEPTH (the checks of OPCODE_OUT_OF_BOUNDS and      *)
(* GET_VARIANT_PTR, and the stack overflow test of RuztaFunction::call).   *)
FrameOK(frame) ==
    LET f == program.functions[frame.function]
    IN  /\ frame.ip \in DOMAIN f.code
        /\ Len(frame.stack) = f.stack_size
        /\ \A a \in SlotsOf(f.code[frame.ip]) : IsSlot(a) => SlotIn(f, a) \in DOMAIN frame.stack
FramesOK ==
    /\ Len(frames) <= MAX_CALL_DEPTH
    /\ \A n \in DOMAIN frames : FrameOK(frames[n])

(* Whatever the layout it is written in, parsing a script gives the tree   *)
(* it was written from: RuztaParser's precedences and associativity, its   *)
(* blocks, and the lines the tokenizer joins.  One that has self where     *)
(* there is none, or a constructor that returns a value, is refused.       *)
TreeOfSource ==
    Read /\ case.cut = 0 =>
        IF wanted.refused THEN ~parsed.ok ELSE parsed.ok /\ parsed.written = wanted.written

(* What the parser's tree printer shows is the script: its names, numbers, *)
(* operators and blocks in its order, and no expression that a reader, who *)
(* goes by the brackets, would take for another (RuztaParser::TreePrinter, *)
(* "Surround in parenthesis for disambiguation").                          *)
PrintTellsTree == Read /\ case.cut = 0 /\ ~wanted.refused => parsed.shown /\ parsed.said = wanted.said

(* An exported script is the script: where the text of a script parses,    *)
(* the tokens a release build has parse to the same tree, with none of the *)
(* columns, comments and line ends they were exported without.             *)
BinaryLikeText ==
    stage = "exported" /\ parsed.ok => exported.ok /\ exported.tree = parsed.tree

(* However a script is broken off, the parser leaves every bracket and     *)
(* lambda it entered and never reads past the end, so that the tokenizer   *)
(* is in the mode the next script starts in.                               *)
LayoutBalanced ==
    Read => /\ ~parsed.past_end /\ parsed.left = 0
            /\ stage = "exported" => ~exported.past_end /\ exported.left = 0

(* A listing shows the code: the disassembler, which knows the size of     *)
(* every instruction by itself, finds each where the generator put it,     *)
(* jumps go to where one begins, and what is shown of one is what it has   *)
(* (RuztaFunction::disassemble, and the generator's own counting of words  *)
(* in write_end_and, write_end_or and write_for).                          *)
ListingTrue ==
    stage = "compiled" =>
        /\ \A f \in DOMAIN program.functions : D!WellListed(program.functions[f].code)
        /\ D!WellListed(OtherCode)

(* What code takes from a place of a built-in type is a value of that      *)
(* type, and refers to what a value of that type refers to; a validated    *)
(* operator, which checks nothing, is one its types have and finds a value *)
(* of its own type where it puts the result: these instructions read and   *)
(* write the memory of the value itself.                                   *)
Refers(v) ==
    LET To(fields) == v.ref \in DOMAIN heap /\ DOMAIN heap[v.ref] = fields
    IN  CASE v.t = "array" -> To({"elements"}) [] v.t = "dictionary" -> To({"pairs"})
          [] v.t = "callable" /\ v.ref # 0 -> To({"function", "captures", "self"}) [] OTHER -> TRUE
Holds(a) == Refers(Operand(a)) /\ (a.type \notin {"variant", "object"} => Operand(a).t = a.type)
Reads(i) ==
    NamedIn(i, {"source", "left", "right", "condition", "base", "index", "container", "test", "value"}
             \cup IF i.op \in {"SET_KEYED_VALIDATED", "SET_NAMED_VALIDATED"} THEN {"target"} ELSE {})
    \cup ListedIn(i, {"arguments"} \cup IF i.op = "ITERATE" /\ i.kind = "RANGE" THEN {"range"} ELSE {})
TypedOperands ==
    stage = "running" /\ frames # <<>> =>
        LET i == Instruction
        IN  /\ \A a \in Reads(i) : a.mode # "nil" => Holds(a)
            /\ i.op = "ITERATE" /\ i.kind \in {"RANGE", "int", "array"} => Operand(i.counter).t = "int"
            /\ i.op = "ITERATE" /\ i.kind \in {"int", "float", "vector"} =>
                  {Operand(i.counter).t, Operand(i.iterator).t} = {IF i.kind = "int" THEN "int" ELSE "float"}
            /\ i.op = "OPERATOR_VALIDATED" =>
                  LET right == IF i.right.mode = "nil" THEN "null" ELSE i.right.type
                  IN  /\ IsDefined(i.operator, i.left.type, right)
                      /\ Operand(i.target).t = ReturnType(i.operator, i.left.type, right)

(* A lambda that uses self runs, and prints what it is about               *)
(* (tests/scripts/runtime/features/lambda_use_self.out, "foo", "bar" and   *)
(* "true").                                                                *)
SelfLambdasRun == \A n \in DOMAIN log : log[n] # Refusal

(* What runs is what was meant: compiled and run, a script prints, reports *)
(* and returns what its text says (RuztaCompiler and RuztaFunction::call   *)
(* together), whatever slots, temporaries and jumps its code uses; unless  *)
(* a lambda with the instance was refused for having it                    *)
(* (ruzta_lambda_callable.cpp:218-223).                                    *)
ResultRight ==
    stage = "done" /\ SelfLambdasRun =>
        frames = <<>> /\ Shown(heap, result) = wanted.result /\ log = wanted.log

(* A script that states or infers the type of everything it declares and   *)
(* is accepted reports no error when it runs (RuztaAnalyzer checks what    *)
(* the virtual machine will be given).                                     *)
WellTyped ==
    case.typed = "fully" /\ stage \in {"running", "done"} => \A n \in DOMAIN log : log[n].t # "error"

(* Without an instance nothing is asked of one: code that runs for the     *)
(* script, or in a lambda that did not take the instance with it, names    *)
(* neither self nor a variable of the instance and makes no lambda that    *)
(* takes it (RuztaAnalyzer::mark_lambda_use_self and static_context; the   *)
(* machine would go through a null pointer, or give up the function).      *)
InstanceThere ==
    stage = "running" /\ frames # <<>> =>
        LET i == Instruction
        IN  ~Last(frames).with_instance =>
                /\ i.op # "CREATE_SELF_LAMBDA"
                /\ \A a \in SlotsOf(i) : a.mode \notin {"self", "member"}

(* A variable with a setter changes in its setter and nowhere else, once   *)
(* it has its first value: not by an assignment to a part of it, nor from  *)
(* another function of the script (the code for in_setter and base_temp in *)
(* RuztaCompiler, and RuztaInstance::set).                                 *)
Guarded(indices, before, after, initializer) ==
    \A name \in DOMAIN indices :
        LET info == indices[name]
        IN  info.setter # "" /\ before[info.index] # after[info.index] =>
                Last(frames).function \in {info.setter, initializer}
SettersGuard ==
    [][stage = "running" =>
           /\ Guarded(program.member_indices, members, members', "@implicit_new")
           /\ Guarded(program.static_variables_indices, static_variables, static_variables',
                      "@static_initializer")]_vars

(* Nothing that would have run well is refused: without a branch or a loop *)
(* around it, what the analyzer reports would have failed.                 *)
RefusedWouldFail ==
    case.typed # "no" /\ stage = "refused" => \E n \in DOMAIN wanted.log : wanted.log[n].t = "error"

(* A script whose loops end comes to its end: no jump of its code, and no  *)
(* error on the way out of a loop, makes it go round for ever.             *)
Terminates == stage = "running" ~> stage = "done"

(* "the variable must be assigned to null on each iteration"               *)
(* (ruzta_compiler.cpp): a script that prints its variables only right     *)
(* after it declares them prints nothing but null.                         *)
FreshOnEachIteration == \A n \in DOMAIN log : log[n] = Nil
=============================================================================
