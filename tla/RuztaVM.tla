--------------------------------- MODULE RuztaVM ---------------------------------
(***************************************************************************)
(* RuztaVM: RuztaFunction::call with the checks of DEBUG_ENABLED, an action *)
(* for each kind of instruction.  program is a compiled script, with one   *)
(* instance.  An error ends the function it is in, which gives the default of its     *)
(* type, and its caller goes on.  What is printed and that an error was    *)
(* reported is in log.                                                     *)
(***************************************************************************)
EXTENDS RuztaVariant, FiniteSets

CONSTANT MAX_CALL_DEPTH
ASSUME DepthAssumption == MAX_CALL_DEPTH \in Nat \ {0}

VARIABLES
    program,     \* [functions, member_indices, static_variables_indices, constants]
    frames, heap, log, result,
    members,     \* of the instance
    static_variables
data == <<members, static_variables>>
machine == <<program, frames, heap, log, result, data>>

Failure == [t |-> "error"]
Refusal == [t |-> "refused"]   \* of a lambda with the instance

Running == program.functions[Last(frames).function]
Instruction == Running.code[Last(frames).ip]
Runs(ops) == frames # <<>> /\ Instruction.op \in ops

SlotIn(function, a) == IF a.mode = "local" THEN a.address ELSE function.max_locals + a.address
Operand(a) ==
    CASE a.mode = "constant" -> a.value
      [] a.mode = "self" -> IF Last(frames).with_instance THEN Object ELSE Nil
      [] a.mode = "class" -> ScriptClass
      [] a.mode = "member" -> members[a.address]
      [] a.mode = "nil" -> Nil
      [] OTHER -> Last(frames).stack[SlotIn(Running, a)]
Operands(addresses) == [i \in DOMAIN addresses |-> Operand(addresses[i])]

(***************************************************************************)
(* Where a function goes on: the next instruction, another, or its caller. *)
(***************************************************************************)
Put(frame, a, v) == [frame EXCEPT !.stack[SlotIn(program.functions[frame.function], a)] = v]
Onwards(frame) == [frame EXCEPT !.ip = @ + 1]
Continue(frame) == frames' = Append(Front(frames), frame) /\ UNCHANGED data
Next1 == Continue(Onwards(Last(frames)))
Through == frames' = Append(Front(frames), Onwards(Last(frames)))
SetsMember(address, v) ==
    Through /\ members' = [members EXCEPT ![address] = v] /\ UNCHANGED static_variables
SetsStatic(index, v) ==
    Through /\ static_variables' = [static_variables EXCEPT ![index] = v] /\ UNCHANGED members
Sets(a, v) ==
    IF a.mode = "member" THEN SetsMember(a.address, v) ELSE Continue(Onwards(Put(Last(frames), a, v)))
GoTo(ip) == Continue([Last(frames) EXCEPT !.ip = ip])

(* The caller has the value where its call instruction says. *)
Returned(caller, v) ==
    LET call == program.functions[caller.function].code[caller.ip]
    IN  Onwards(IF call.op \in {"CALL_RETURN", "GET_NAMED"} THEN Put(caller, call.target, v) ELSE caller)
Exit(v) ==
    LET callers == Front(frames)
    IN  /\ UNCHANGED data
        /\ IF callers = <<>> THEN frames' = <<>> /\ result' = v
           ELSE frames' = Append(Front(callers), Returned(Last(callers), v)) /\ UNCHANGED result

(* h: the heap the failing instruction leaves. *)
EndsWith(h, report) ==
    LET value == Empty(h, Running.return_type)
    IN  heap' = value.heap /\ log' = Append(log, report) /\ Exit(value.v)
ErrorIn(h) == EndsWith(h, Failure)
Error == ErrorIn(heap)

(* An operation's value into its place, or the error. *)
Gives(a, did) ==
    IF did.ok THEN heap' = did.heap /\ Sets(a, did.v) /\ UNCHANGED <<log, result>>
    ELSE ErrorIn(did.heap)

(***************************************************************************)
(* Calls of functions of the script, with its instance or without one.     *)
(***************************************************************************)
(* functions: those of the script, name: which one. *)
FrameOf(functions, name, arguments, with_instance) ==
    LET f == functions[name]
        count == Len(arguments)
        Argument(i) ==
            IF f.argument_types[i] \in {"variant", arguments[i].t} THEN arguments[i]
            ELSE Converted(arguments[i], f.argument_types[i])
        Initial(i) ==
            CASE i <= count -> Argument(i)
              [] i > f.max_locals /\ (i - f.max_locals) \in DOMAIN f.temporary_slots ->
                    Default(f.temporary_slots[i - f.max_locals])
              [] OTHER -> Nil
    IN  [function |-> name, ip |-> 1, defarg |-> f.argument_count - count, with_instance |-> with_instance,
         stack |-> [i \in 1..f.stack_size |-> Initial(i)]]
Accepts(name, arguments) ==
    LET f == program.functions[name]
    IN  /\ Len(arguments) \in (f.argument_count - f.default_arg_count)..f.argument_count
        /\ \A i \in DOMAIN arguments :
              \/ f.argument_types[i] \in {"variant", arguments[i].t}
              \/ can_convert_strict(arguments[i].t, f.argument_types[i])

(* Too deep a call gives the default of its type, and the caller goes on. *)
Calls(name, arguments, with_instance) ==
    LET known == name \in DOMAIN program.functions
        deep == Len(frames) = MAX_CALL_DEPTH
        value == Empty(heap, program.functions[name].return_type)
    IN  \/ /\ known => ~deep /\ ~Accepts(name, arguments)
           /\ Error
        \/ /\ known /\ deep
           /\ heap' = value.heap /\ Continue(Returned(Last(frames), value.v))
           /\ log' = Append(log, Failure) /\ UNCHANGED result
        \/ /\ known /\ ~deep /\ Accepts(name, arguments)
           /\ frames' = Append(frames, FrameOf(program.functions, name, arguments, with_instance))
           /\ UNCHANGED <<heap, log, result, data>>

(* Of the instance, and of the script, which calls static functions only:
   another one of its gives null, and that is reported. *)
CallSelf ==
    LET name == Instruction.function_name
        base == Operand(Instruction.base)
        refused == base = ScriptClass /\ name \in DOMAIN program.functions /\ ~program.functions[name].is_static
    IN  /\ Runs({"CALL", "CALL_RETURN"}) /\ base \in {Object, ScriptClass} /\ UNCHANGED program
        /\ IF refused
           THEN /\ Continue(Returned(Last(frames), Nil))
                /\ log' = Append(log, Failure) /\ UNCHANGED <<heap, result>>
           ELSE Calls(name, Operands(Instruction.arguments), base = Object)

(* A lambda with the values it was made with, for which its function's
   caller answers, and with the instance if it took it. *)
CallsLambda ==
    LET i == Instruction
        base == Operand(i.base)
    IN  Runs({"CALL", "CALL_RETURN"}) /\ base.t = "callable" /\ base.ref # 0 /\ i.function_name = "call"
CallLambda ==
    LET i == Instruction
        lambda == heap[Operand(i.base).ref]
        arguments == lambda.captures \o Operands(i.arguments)
    IN  CallsLambda /\ Calls(lambda.function, arguments, lambda.self) /\ UNCHANGED program
(* A build with DEBUG_ENABLED refuses one with the instance because the
   instance is there (the guard is the wrong way round); without it there is
   no guard.  Both are run. *)
RefuseLambda ==
    CallsLambda /\ heap[Operand(Instruction.base).ref].self /\ EndsWith(heap, Refusal) /\ UNCHANGED program
CreateLambda ==
    LET i == Instruction
        lambda == [function |-> i.function_name, captures |-> Operands(i.arguments), self |-> i.op = "CREATE_SELF_LAMBDA"]
    IN  /\ Runs({"CREATE_LAMBDA", "CREATE_SELF_LAMBDA"}) /\ UNCHANGED program
        /\ Gives(i.target, NewCallable(heap, lambda))

(* The method has run by the time its result turns out to be missing. *)
CallMethod ==
    LET i == Instruction
        did == call_method(heap, Operand(i.base), i.function_name, Operands(i.arguments))
        wanted == i.op = "CALL_RETURN"
    IN  /\ Runs({"CALL", "CALL_RETURN"}) /\ Operand(i.base) \notin {Object, ScriptClass} /\ ~CallsLambda
        /\ UNCHANGED program
        /\ IF did.ok /\ (wanted => HasReturn(i.function_name))
           THEN heap' = did.heap /\ Continue(Returned(Last(frames), did.v)) /\ UNCHANGED <<log, result>>
           ELSE ErrorIn(did.heap)
CallMethodValidated ==   \* its type is known, and what it takes
    LET i == Instruction
        did == call_method(heap, Operand(i.base), i.function_name, Operands(i.arguments))
    IN  /\ Runs({"CALL_BUILTIN_TYPE_VALIDATED"}) /\ UNCHANGED <<program, log, result>>
        /\ heap' = did.heap /\ Sets(i.target, did.v)

CallUtility ==
    LET i == Instruction
        arguments == Operands(i.arguments)
    IN  /\ Runs({"CALL_UTILITY"}) /\ UNCHANGED <<program, heap, result>>
        /\ IF i.function_name = "typeof"
           THEN Sets(i.target, Number(TypeCode(arguments[1].t))) /\ UNCHANGED log
           ELSE Sets(i.target, Nil)
                /\ log' = log \o [n \in DOMAIN arguments |-> Shown(heap, arguments[n])]

CallRuztaUtility ==
    /\ Runs({"CALL_RUZTA_UTILITY"}) /\ UNCHANGED program
    /\ Gives(Instruction.target, len(heap, Operand(Instruction.arguments[1])))

ReturnValue ==
    /\ Runs({"RETURN"}) /\ UNCHANGED <<program, heap, log>>
    /\ Exit(Operand(Instruction.value))
(* What cannot be converted is reported, and the default returned. *)
ReturnTyped ==
    LET v == Operand(Instruction.value)
        type == Instruction.type
    IN  /\ Runs({"RETURN_TYPED_BUILTIN"}) /\ UNCHANGED program
        /\ IF v.t = type THEN Exit(v) /\ UNCHANGED <<heap, log>>
           ELSE IF can_convert_strict(v.t, type) THEN Exit(Converted(v, type)) /\ UNCHANGED <<heap, log>>
           ELSE Error
End == Runs({"END"}) /\ UNCHANGED <<program, heap, log>> /\ Exit(Nil)

(***************************************************************************)
(* Operators and elements.                                                 *)
(***************************************************************************)
Operate ==
    LET i == Instruction
    IN  /\ Runs({"OPERATOR"}) /\ UNCHANGED program
        /\ Gives(i.target, evaluate(heap, i.operator, Operand(i.left), Operand(i.right)))

(* No check is left: the types were known. *)
OperateValidated ==
    LET i == Instruction
        did == evaluate(heap, i.operator, Operand(i.left), Operand(i.right))
    IN  /\ Runs({"OPERATOR_VALIDATED"}) /\ UNCHANGED <<program, log, result>>
        /\ heap' = did.heap /\ Sets(i.target, did.v)

AdjustType ==
    LET i == Instruction
        empty == Empty(heap, i.type)
    IN  /\ Runs({"TYPE_ADJUST"}) /\ UNCHANGED <<program, log, result>>
        /\ heap' = empty.heap /\ Sets(i.target, empty.v)

TestType ==
    LET i == Instruction
    IN  /\ Runs({"TYPE_TEST_BUILTIN"}) /\ UNCHANGED <<program, heap, log, result>>
        /\ Sets(i.target, Bool(Operand(i.source).t = i.type))

GetKeyed ==
    LET i == Instruction
        key == Operand(i.index)
    IN  /\ Runs({"GET_KEYED", "GET_KEYED_VALIDATED", "GET_INDEXED_VALIDATED"}) /\ UNCHANGED program
        /\ Gives(i.target, IF i.op = "GET_KEYED" THEN get_keyed(heap, Operand(i.source), key)
                           ELSE get_keyed_validated(heap, Operand(i.source), key))
GetNamed ==
    /\ Runs({"GET_NAMED", "GET_NAMED_VALIDATED"}) /\ Operand(Instruction.source) # Object
    /\ UNCHANGED program
    /\ Gives(Instruction.target, get_named(heap, Operand(Instruction.source), Instruction.name))

SetKeyed ==
    LET i == Instruction
    IN  /\ Runs({"SET_KEYED", "SET_KEYED_VALIDATED"}) /\ UNCHANGED program
        /\ LET did == set_keyed(heap, Operand(i.target), Operand(i.index), Operand(i.source))
           IN  IF did.ok THEN heap' = did.heap /\ Next1 /\ UNCHANGED <<log, result>>
               ELSE ErrorIn(did.heap)
SetNamed ==
    LET i == Instruction
    IN  /\ Runs({"SET_NAMED", "SET_NAMED_VALIDATED"}) /\ Operand(i.target) # Object
        /\ UNCHANGED program
        /\ Gives(i.target, set_named(heap, Operand(i.target), i.name, Operand(i.source)))

(***************************************************************************)
(* Members of the instance and of the script, got and set by name: through *)
(* their accessors, which a function that has the name at hand may be one  *)
(* of.                                                                     *)
(***************************************************************************)
IsMember(name) == name \in DOMAIN program.member_indices
IsStatic(name) == name \in DOMAIN program.static_variables_indices
InfoOf(name) ==
    IF IsMember(name) THEN program.member_indices[name] ELSE program.static_variables_indices[name]

InstanceGet ==
    LET i == Instruction
        info == InfoOf(i.name)
        There(v) == Sets(i.target, v) /\ UNCHANGED <<heap, log, result>>
    IN  /\ Runs({"GET_NAMED"}) /\ Operand(i.source) = Object
        /\ UNCHANGED program
        /\ IF IsMember(i.name) \/ IsStatic(i.name)
           THEN IF info.getter # "" THEN Calls(info.getter, <<>>, TRUE)
                ELSE There(IF IsMember(i.name) THEN members[info.index] ELSE static_variables[info.index])
           ELSE IF i.name \in DOMAIN program.constants THEN There(program.constants[i.name])
           ELSE Error
(* What is not of the variable's type is made into it. *)
InstanceSet ==
    LET i == Instruction
        v == Operand(i.source)
        known == IsMember(i.name) \/ IsStatic(i.name)
        info == InfoOf(i.name)
        did == IF ~known THEN Invalid(heap)
               ELSE IF info.type \in {"variant", v.t} THEN Did(v, heap) ELSE construct(heap, info.type, <<v>>)
    IN  /\ Runs({"SET_NAMED"}) /\ Operand(i.target) = Object
        /\ UNCHANGED program
        /\ IF ~did.ok THEN Error
           ELSE IF info.setter # "" THEN Calls(info.setter, <<did.v>>, TRUE)
           ELSE /\ IF IsMember(i.name) THEN SetsMember(info.index, did.v) ELSE SetsStatic(info.index, did.v)
                /\ UNCHANGED <<heap, log, result>>

GetStatic ==
    /\ Runs({"GET_STATIC_VARIABLE"}) /\ UNCHANGED <<program, heap, log, result>>
    /\ Sets(Instruction.target, static_variables[Instruction.at])
SetStatic ==
    /\ Runs({"SET_STATIC_VARIABLE"}) /\ UNCHANGED <<program, heap, log, result>>
    /\ SetsStatic(Instruction.at, Operand(Instruction.value))

(* What static variables have before the script's own code gives them a
   value: of a stated type, its default.  Each has room in the heap for
   what its default refers to, if it does. *)
_static_default_init(indices, h) ==
    LET places == 1..Cardinality(DOMAIN indices)
        TypeAt(index) == indices[CHOOSE name \in DOMAIN indices : indices[name].index = index].type
        DefaultAt(index) ==
            IF TypeAt(index) \in {"array", "dictionary"} THEN [t |-> TypeAt(index), ref |-> Len(h) + index]
            ELSE Default(TypeAt(index))
        ContentsAt(index) ==
            IF TypeAt(index) = "dictionary" THEN [pairs |-> <<>>] ELSE [elements |-> <<>>]
    IN  [values |-> [index \in places |-> DefaultAt(index)],
         heap |-> h \o [index \in places |-> ContentsAt(index)]]

(***************************************************************************)
(* Assignments and constructors.                                           *)
(***************************************************************************)
Assign ==
    LET i == Instruction
    IN  /\ Runs({"ASSIGN", "ASSIGN_NULL", "ASSIGN_TRUE", "ASSIGN_FALSE"})
        /\ UNCHANGED <<program, heap, log, result>>
        /\ Sets(i.target, CASE i.op = "ASSIGN" -> Operand(i.source)
                            [] i.op = "ASSIGN_NULL" -> Nil
                            [] i.op = "ASSIGN_TRUE" -> Bool(TRUE)
                            [] i.op = "ASSIGN_FALSE" -> Bool(FALSE))
AssignTyped ==
    LET i == Instruction
        v == Operand(i.source)
    IN  /\ Runs({"ASSIGN_TYPED_BUILTIN"}) /\ UNCHANGED program
        /\ Gives(i.target, CASE v.t = i.type -> Did(v, heap)
                             [] v.t # i.type /\ can_convert_strict(v.t, i.type) -> Did(Converted(v, i.type), heap)
                             [] OTHER -> Invalid(heap))

FilledPairs(values) ==
    FoldLeft(LAMBDA pairs, n : WithKey(heap, pairs, values[2 * n - 1], values[2 * n]), <<>>,
             [n \in 1..(Len(values) \div 2) |-> n])
Construct ==
    LET i == Instruction
        Made == CASE i.op = "CONSTRUCT_ARRAY" -> NewArray(heap, Operands(i.arguments))
                  [] i.op = "CONSTRUCT_DICTIONARY" -> NewDictionary(heap, FilledPairs(Operands(i.arguments)))
                  [] i.op \in {"CONSTRUCT", "CONSTRUCT_VALIDATED"} ->
                        construct(heap, i.type, Operands(i.arguments))
                  [] i.op = "CAST_TO_BUILTIN" -> construct(heap, i.type, <<Operand(i.source)>>)
    IN  /\ Runs({"CONSTRUCT_ARRAY", "CONSTRUCT_DICTIONARY", "CONSTRUCT", "CONSTRUCT_VALIDATED",
                 "CAST_TO_BUILTIN"})
        /\ UNCHANGED program
        /\ Gives(i.target, Made)

(***************************************************************************)
(* Jumps and loops.                                                        *)
(***************************************************************************)
JumpTo ==
    LET i == Instruction
        Taken == CASE i.op = "JUMP" -> TRUE
                   [] i.op = "JUMP_IF" -> booleanize(heap, Operand(i.condition))
                   [] i.op = "JUMP_IF_NOT" -> ~booleanize(heap, Operand(i.condition))
                   [] i.op = "JUMP_IF_SHARED" -> is_shared(Operand(i.condition))
    IN  /\ Runs({"JUMP", "JUMP_IF", "JUMP_IF_NOT", "JUMP_IF_SHARED"})
        /\ UNCHANGED <<program, heap, log, result>>
        /\ IF Taken THEN GoTo(i.to) ELSE Next1
JumpToDefault ==
    /\ Runs({"JUMP_TO_DEF_ARGUMENT"}) /\ UNCHANGED <<program, heap, log, result>>
    /\ GoTo(Running.default_arguments[Last(frames).defarg + 1])

(* The first turn goes on with the jump past ITERATE, which begins the
   others. *)
Turn(state, v) ==
    LET i == Instruction
    IN  Continue(Onwards(Put(Put(Last(frames), i.counter, state), i.iterator, v)))
LeaveLoop(state) == Continue([Put(Last(frames), Instruction.counter, state) EXCEPT !.ip = Instruction.to])

BeginRange ==
    LET i == Instruction
        from == Operand(i.range[1]).i
        to == Operand(i.range[2]).i
        step == Operand(i.range[3]).i
    IN  /\ Runs({"ITERATE_BEGIN"}) /\ i.kind = "RANGE" /\ UNCHANGED <<program, heap, log, result>>
        /\ IF from # to /\ (IF from < to THEN step > 0 ELSE step < 0) THEN Turn(Number(from), Number(from))
           ELSE LeaveLoop(Number(from))
IterateRange ==
    LET i == Instruction
        to == Operand(i.range[2]).i
        step == Operand(i.range[3]).i
        count == Operand(i.counter).i + step
        over == (step < 0 /\ count <= to) \/ (step > 0 /\ count >= to)
    IN  /\ Runs({"ITERATE"}) /\ i.kind = "RANGE" /\ UNCHANGED <<program, heap, log, result>>
        /\ IF over THEN LeaveLoop(Number(count)) ELSE Turn(Number(count), Number(count))

Iterate ==
    LET i == Instruction
        container == Operand(i.container)
        place == IF i.op = "ITERATE_BEGIN" THEN 0 ELSE NextPlace(heap, container, Operand(i.counter))
        state == StateAt(heap, container, place)
        ended == CASE container.t # "dictionary" -> state
                   [] container.t = "dictionary" /\ i.op = "ITERATE" -> Operand(i.counter)
                   [] OTHER -> Nil
    IN  /\ Runs({"ITERATE_BEGIN", "ITERATE"}) /\ i.kind = "VARIANT"
        /\ UNCHANGED program
        /\ IF ~IsIterable(container) THEN Error
           ELSE /\ IF place < Count(heap, container) THEN Turn(state, iter_get(heap, container, state))
                   ELSE LeaveLoop(ended)
                /\ UNCHANGED <<heap, log, result>>

(* In what is known to be a number, the two of a vector, or to have
   elements: it is not asked for its type. *)
RunsOn(op, kinds) == Runs({op}) /\ Instruction.kind \in kinds /\ UNCHANGED <<program, heap, log, result>>
TurnIf(goes, state, v) == IF goes THEN Turn(state, v) ELSE LeaveLoop(state)
Counted(kind, n) == IF kind = "int" THEN Number(n) ELSE Real(n)

BeginCount ==
    LET i == Instruction
        bounds == Operand(i.container)
        first == IF i.kind = "vector" THEN bounds.x ELSE 0
        count == Counted(i.kind, first)
    IN  /\ RunsOn("ITERATE_BEGIN", {"int", "float", "vector"})
        /\ TurnIf(first < IF i.kind = "vector" THEN bounds.y ELSE bounds.i, count, count)
GoOnCounting ==
    LET i == Instruction
        bounds == Operand(i.container)
        next == Operand(i.counter).i + 1
        count == Counted(i.kind, next)
    IN  /\ RunsOn("ITERATE", {"int", "float", "vector"})
        /\ TurnIf(next < IF i.kind = "vector" THEN bounds.y ELSE bounds.i, count, count)

(* The counter of an array is a place, of a dictionary a key of it. *)
BeginElements ==
    LET i == Instruction
        container == Operand(i.container)
        key == PairsOf(heap, container)[1].key
        some == Size(heap, container) > 0
    IN  /\ RunsOn("ITERATE_BEGIN", {"array", "dictionary"})
        /\ IF i.kind = "array" THEN TurnIf(some, Number(0), ElementsOf(heap, container)[1])
           ELSE TurnIf(some, IF some THEN key ELSE Operand(i.counter), key)
NextElement ==
    LET i == Instruction
        container == Operand(i.container)
        counter == Operand(i.counter)
        place == NextPlace(heap, container, counter) + 1
        some == place <= Size(heap, container)
        key == PairsOf(heap, container)[place].key
    IN  /\ RunsOn("ITERATE", {"array", "dictionary"})
        /\ IF i.kind = "array" THEN TurnIf(some, Number(place - 1), ElementsOf(heap, container)[place])
           ELSE TurnIf(some, IF some THEN key ELSE counter, key)

AssertTrue ==
    /\ Runs({"ASSERT"}) /\ UNCHANGED program
    /\ IF booleanize(heap, Operand(Instruction.test)) THEN Next1 /\ UNCHANGED <<heap, log, result>>
       ELSE Error
Line == Runs({"LINE"}) /\ UNCHANGED <<program, heap, log, result>> /\ Next1

Execute ==
    \/ CallSelf \/ CallLambda \/ RefuseLambda \/ CreateLambda \/ CallMethod \/ CallMethodValidated
    \/ CallUtility \/ CallRuztaUtility
    \/ ReturnValue \/ ReturnTyped \/ End
    \/ Operate \/ OperateValidated \/ AdjustType \/ TestType
    \/ GetKeyed \/ GetNamed \/ SetKeyed \/ SetNamed
    \/ InstanceGet \/ InstanceSet \/ GetStatic \/ SetStatic
    \/ Assign \/ AssignTyped \/ Construct
    \/ JumpTo \/ JumpToDefault \/ BeginRange \/ IterateRange \/ Iterate
    \/ BeginCount \/ GoOnCounting \/ BeginElements \/ NextElement \/ AssertTrue \/ Line
=============================================================================
