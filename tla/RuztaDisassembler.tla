--------------------------- MODULE RuztaDisassembler ---------------------------
(***************************************************************************)
(* RuztaDisassembler: the words of an instruction as the generator appends *)
(* them, and RuztaFunction::disassemble, which finds the instructions in   *)
(* the words again.  What it prints of one is a record of texts named      *)
(* after what they are shown as; wording is left out.  Positions count     *)
(* from zero, as in the code.                                              *)
(***************************************************************************)
EXTENDS Integers, SequencesExt

(***************************************************************************)
(* What the generator appends.  An instruction without a field of a name   *)
(* (a message, the class of a static variable) has an empty word for it.   *)
(***************************************************************************)
Ranged(i) == i.op \in {"ITERATE_BEGIN", "ITERATE"} /\ i.kind = "RANGE"
Opcode(i) == IF Ranged(i) THEN i.op \o "_RANGE" ELSE i.op
ElementType == <<"script_type", "builtin_type", "native_type">>
EntryTypes == <<"key_script_type", "value_script_type", "key_builtin_type", "key_native_type",
                "value_builtin_type", "value_native_type">>

(* append_opcode: the words after the opcode. *)
OperatorWords ==
    [OPERATOR |-> <<"left", "right", "target", "operator", "signature", "return_type", "evaluator", "evaluator">>,
     OPERATOR_VALIDATED |-> <<"left", "right", "target", "operator">>,
     TYPE_TEST_BUILTIN |-> <<"target", "source", "type">>,
     TYPE_TEST_ARRAY |-> <<"target", "source">> \o ElementType,
     TYPE_TEST_DICTIONARY |-> <<"target", "source">> \o EntryTypes,
     TYPE_TEST_NATIVE |-> <<"target", "source", "type">>,
     TYPE_TEST_SCRIPT |-> <<"target", "source", "type">>]
AccessWords ==
    [SET_KEYED |-> <<"target", "index", "source">>,
     SET_KEYED_VALIDATED |-> <<"target", "index", "source", "setter">>,
     SET_INDEXED_VALIDATED |-> <<"target", "index", "source", "setter">>,
     GET_KEYED |-> <<"source", "index", "target">>,
     GET_KEYED_VALIDATED |-> <<"source", "index", "target", "getter">>,
     GET_INDEXED_VALIDATED |-> <<"source", "index", "target", "getter">>,
     SET_NAMED |-> <<"target", "source", "name">>,
     SET_NAMED_VALIDATED |-> <<"target", "source", "name">>,
     GET_NAMED |-> <<"source", "target", "name">>,
     GET_NAMED_VALIDATED |-> <<"source", "target", "name">>,
     SET_MEMBER |-> <<"value", "name">>, GET_MEMBER |-> <<"target", "name">>,
     SET_STATIC_VARIABLE |-> <<"value", "class", "at">>,
     GET_STATIC_VARIABLE |-> <<"target", "class", "at">>]
AssignWords ==
    [ASSIGN |-> <<"target", "source">>,
     ASSIGN_NULL |-> <<"target">>, ASSIGN_TRUE |-> <<"target">>, ASSIGN_FALSE |-> <<"target">>,
     ASSIGN_TYPED_BUILTIN |-> <<"target", "source", "type">>,
     ASSIGN_TYPED_ARRAY |-> <<"target", "source">> \o ElementType,
     ASSIGN_TYPED_DICTIONARY |-> <<"target", "source">> \o EntryTypes,
     ASSIGN_TYPED_NATIVE |-> <<"target", "source", "type">>,
     ASSIGN_TYPED_SCRIPT |-> <<"target", "source", "type">>,
     STORE_GLOBAL |-> <<"target", "at">>, STORE_NAMED_GLOBAL |-> <<"target", "name">>,
     CAST_TO_BUILTIN |-> <<"source", "target", "type">>,
     CAST_TO_NATIVE |-> <<"source", "target", "type">>,
     CAST_TO_SCRIPT |-> <<"source", "target", "type">>]
JumpWords ==
    [AWAIT |-> <<"operand">>, AWAIT_RESUME |-> <<"target">>, JUMP |-> <<"to">>,
     JUMP_IF |-> <<"condition", "to">>, JUMP_IF_NOT |-> <<"condition", "to">>,
     JUMP_IF_SHARED |-> <<"condition", "to">>, JUMP_TO_DEF_ARGUMENT |-> <<>>,
     LINE |-> <<"line">>, TYPE_ADJUST |-> <<"target">>,
     ASSERT |-> <<"test", "message">>, BREAKPOINT |-> <<>>, END |-> <<>>]
IterateWords ==
    [ITERATE_BEGIN |-> <<"counter", "container", "iterator", "to">>,
     ITERATE |-> <<"counter", "container", "iterator", "to">>,
     ITERATE_BEGIN_RANGE |-> <<"counter", "range1", "range2", "range3", "iterator", "to">>,
     ITERATE_RANGE |-> <<"counter", "range2", "range3", "iterator", "to">>]
ReturnWords ==
    [RETURN |-> <<"value">>,
     RETURN_TYPED_BUILTIN |-> <<"value", "type">>,
     RETURN_TYPED_ARRAY |-> <<"value">> \o ElementType,
     RETURN_TYPED_DICTIONARY |-> <<"value">> \o EntryTypes,
     RETURN_TYPED_NATIVE |-> <<"value", "type">>, RETURN_TYPED_SCRIPT |-> <<"value", "type">>]
Fixed == OperatorWords @@ AccessWords @@ AssignWords @@ JumpWords @@ IterateWords @@ ReturnWords

(* append_opcode_and_argcount: the words after the arguments. *)
OfBase == <<"base", "target", "argc", "function_name">>
OfNone == <<"target", "argc", "function_name">>
ScriptCalls ==
    [CALL |-> OfBase, CALL_RETURN |-> OfBase, CALL_ASYNC |-> OfBase, CALL_SELF_BASE |-> OfNone]
BuiltinCalls ==
    [CALL_UTILITY |-> OfNone, CALL_UTILITY_VALIDATED |-> OfNone, CALL_RUZTA_UTILITY |-> OfNone,
     CALL_BUILTIN_TYPE_VALIDATED |-> OfBase,
     CALL_BUILTIN_STATIC |-> <<"target", "type", "function_name", "argc">>]
NativeCalls ==
    [CALL_METHOD_BIND |-> OfBase, CALL_METHOD_BIND_RET |-> OfBase,
     CALL_METHOD_BIND_VALIDATED_RETURN |-> OfBase, CALL_METHOD_BIND_VALIDATED_NO_RETURN |-> OfBase,
     CALL_NATIVE_STATIC |-> <<"target", "function_name", "argc">>,
     CALL_NATIVE_STATIC_VALIDATED_RETURN |-> OfNone, CALL_NATIVE_STATIC_VALIDATED_NO_RETURN |-> OfNone]
Constructions ==
    [CREATE_LAMBDA |-> OfNone, CREATE_SELF_LAMBDA |-> OfNone,
     CONSTRUCT |-> <<"target", "argc", "type">>, CONSTRUCT_VALIDATED |-> <<"target", "argc", "type">>,
     CONSTRUCT_ARRAY |-> <<"target", "argc">>,
     CONSTRUCT_TYPED_ARRAY |-> <<"target", "script_type", "argc", "builtin_type", "native_type">>,
     CONSTRUCT_DICTIONARY |-> <<"target", "pairs">>,
     CONSTRUCT_TYPED_DICTIONARY |->
         <<"target", "key_script_type", "value_script_type", "pairs", "key_builtin_type",
           "key_native_type", "value_builtin_type", "value_native_type">>]
AfterArguments == ScriptCalls @@ BuiltinCalls @@ NativeCalls @@ Constructions
(* Addresses among them, which the count after the opcode includes. *)
Addresses(op) ==
    CASE op = "CONSTRUCT_TYPED_DICTIONARY" -> 3
      [] op = "CONSTRUCT_TYPED_ARRAY" \/ AfterArguments[op] = OfBase -> 2
      [] OTHER -> 1

Size(i) ==
    IF Opcode(i) \in DOMAIN Fixed THEN 1 + Len(Fixed[Opcode(i)])
    ELSE 2 + Len(i.arguments) + Len(AfterArguments[i.op])
(* Where each instruction begins, and where the code ends. *)
Starts(code) == FoldLeft(LAMBDA starts, i : Append(starts, Last(starts) + Size(i)), <<0>>, code)

Word(x) == [text |-> ToString(x), number |-> 0]
Number(n) == [text |-> "", number |-> n]

(* A jump over what is written next is given as a number of words. *)
JumpWord(i, start, starts) == IF "words" \in DOMAIN i THEN start + 1 + i.words ELSE starts[i.to]
WordOf(field, i, start, starts) ==
    CASE field = "to" -> Word(JumpWord(i, start, starts))
      [] field = "argc" -> Number(Len(i.arguments))
      [] field = "pairs" -> Number(Len(i.arguments) \div 2)
      [] field = "range1" -> Word(i.range[1])
      [] field = "range2" -> Word(i.range[2])
      [] field = "range3" -> Word(i.range[3])
      [] OTHER -> IF field \in DOMAIN i THEN Word(i[field]) ELSE Word("")
Words(i, start, starts) ==
    LET Of(fields) == [n \in DOMAIN fields |-> WordOf(fields[n], i, start, starts)]
        opcode == [text |-> Opcode(i), number |-> 0]
    IN  IF Opcode(i) \in DOMAIN Fixed THEN <<opcode>> \o Of(Fixed[Opcode(i)])
        ELSE <<opcode, Number(Addresses(i.op) + Len(i.arguments))>>
             \o [n \in DOMAIN i.arguments |-> Word(i.arguments[n])] \o Of(AfterArguments[i.op])
Flat(code) ==
    LET starts == Starts(code)
    IN  FlattenSeq([n \in DOMAIN code |-> Words(code[n], starts[n], starts)])

(***************************************************************************)
(* What is read: word m from the instruction pointer.  Each operator takes *)
(* the words and the place of an instruction, and gives what is shown of   *)
(* it and the place of the next.                                           *)
(***************************************************************************)
Code(words, ip) == IF ip < Len(words) THEN words[ip + 1] ELSE Word("past the end")
OpAt(words, ip) == Code(words, ip).text
DADDR(words, ip, m) == Code(words, ip + m).text

_pointer_size == 2   \* of a function, in words, on a machine of 64 bits
ShowOperator(words, ip) ==
    [shows |-> [target |-> DADDR(words, ip, 3), left |-> DADDR(words, ip, 1),
                operator |-> DADDR(words, ip, 4), right |-> DADDR(words, ip, 2)],
     next |-> ip + IF OpAt(words, ip) = "OPERATOR" THEN 7 + _pointer_size ELSE 5]

ShowTypeTest(words, ip) ==
    LET op == OpAt(words, ip)
        A(m) == DADDR(words, ip, m)
        tested == [target |-> A(1), source |-> A(2)]
    IN  CASE op = "TYPE_TEST_ARRAY" ->
                [shows |-> [script_type |-> A(3), builtin_type |-> A(4), native_type |-> A(5)] @@ tested,
                 next |-> ip + 6]
          [] op = "TYPE_TEST_DICTIONARY" ->
                [shows |-> [key_script_type |-> A(3), key_builtin_type |-> A(5), key_native_type |-> A(6),
                            value_script_type |-> A(4), value_builtin_type |-> A(7),
                            value_native_type |-> A(8)] @@ tested,
                 next |-> ip + 9]
          [] OTHER -> [shows |-> [type |-> A(3)] @@ tested, next |-> ip + 4]

ShowKeyed(words, ip) ==
    LET op == OpAt(words, ip)
        A(m) == DADDR(words, ip, m)
    IN  [shows |-> IF op \in {"SET_KEYED", "SET_KEYED_VALIDATED", "SET_INDEXED_VALIDATED"}
                   THEN [target |-> A(1), index |-> A(2), source |-> A(3)]
                   ELSE [target |-> A(3), index |-> A(2), source |-> A(1)],
         next |-> ip + IF op \in {"SET_KEYED", "GET_KEYED"} THEN 4 ELSE 5]

ShowNamed(words, ip) ==
    LET op == OpAt(words, ip)
        A(m) == DADDR(words, ip, m)
    IN  CASE op \in {"SET_NAMED", "SET_NAMED_VALIDATED"} ->
                [shows |-> [target |-> A(1), name |-> A(3), source |-> A(2)], next |-> ip + 4]
          [] op \in {"GET_NAMED", "GET_NAMED_VALIDATED"} ->
                [shows |-> [target |-> A(2), name |-> A(3), source |-> A(1)], next |-> ip + 4]
          [] op = "SET_MEMBER" -> [shows |-> [name |-> A(2), value |-> A(1)], next |-> ip + 3]
          [] op = "GET_MEMBER" -> [shows |-> [target |-> A(1), name |-> A(2)], next |-> ip + 3]
          [] op = "SET_STATIC_VARIABLE" ->
                [shows |-> [class |-> A(2), at |-> A(3), value |-> A(1)], next |-> ip + 4]
          [] op = "GET_STATIC_VARIABLE" ->
                [shows |-> [class |-> A(2), at |-> A(3), target |-> A(1)], next |-> ip + 4]

ShowAssign(words, ip) ==
    LET op == OpAt(words, ip)
        A(m) == DADDR(words, ip, m)
        both == [target |-> A(1), source |-> A(2)]
    IN  CASE op = "ASSIGN" -> [shows |-> both, next |-> ip + 3]
          [] op \in {"ASSIGN_NULL", "ASSIGN_TRUE", "ASSIGN_FALSE"} ->
                [shows |-> [target |-> A(1)], next |-> ip + 2]
          [] op = "ASSIGN_TYPED_ARRAY" -> [shows |-> both, next |-> ip + 6]
          [] op = "ASSIGN_TYPED_DICTIONARY" -> [shows |-> both, next |-> ip + 9]
          [] OTHER -> [shows |-> [type |-> A(3)] @@ both, next |-> ip + 4]

(* A cast to a built-in type is shown with a type of the number of the word
   that has the source. *)
ShowCast(words, ip) ==
    [shows |-> [target |-> DADDR(words, ip, 2), source |-> DADDR(words, ip, 1),
                type |-> DADDR(words, ip, IF OpAt(words, ip) = "CAST_TO_BUILTIN" THEN 1 ELSE 3)],
     next |-> ip + 4]

(***************************************************************************)
(* Instructions with arguments: ip goes to the count first.                *)
(***************************************************************************)
Arguments(words, ip, count) == [n \in 1..count |-> DADDR(words, ip, n)]

(* Of a constructor that is not validated the type shown is the word after
   the instruction's last. *)
ShowConstruct(words, at) ==
    LET op == OpAt(words, at)
        ip == at + 1
        instr_var_args == Code(words, ip).number
        argc == Code(words, ip + 1 + instr_var_args).number
        A(m) == DADDR(words, ip, m)
        Made(count) == [target |-> A(1 + count), arguments |-> Arguments(words, ip, count)]
    IN  CASE op = "CONSTRUCT" ->
                [shows |-> [type |-> A(3 + instr_var_args)] @@ Made(argc), next |-> ip + 3 + instr_var_args]
          [] op = "CONSTRUCT_VALIDATED" ->
                [shows |-> [type |-> A(3 + argc)] @@ Made(argc), next |-> ip + 3 + instr_var_args]
          [] op = "CONSTRUCT_ARRAY" -> [shows |-> Made(argc), next |-> ip + 3 + argc]
          [] op = "CONSTRUCT_TYPED_ARRAY" ->
                [shows |-> [script_type |-> A(argc + 2), builtin_type |-> A(argc + 4),
                            native_type |-> A(argc + 5)] @@ Made(argc),
                 next |-> ip + 6 + argc]

(* argc counts pairs. *)
ShowConstructDictionary(words, at) ==
    LET ip == at + 1
        argc == Code(words, ip + 1 + Code(words, ip).number).number
        A(m) == DADDR(words, ip, m)
        pairs == [target |-> A(1 + argc * 2), arguments |-> Arguments(words, ip, argc * 2)]
    IN  IF OpAt(words, at) = "CONSTRUCT_DICTIONARY" THEN [shows |-> pairs, next |-> ip + 3 + argc * 2]
        ELSE [shows |-> [key_script_type |-> A(argc * 2 + 2), key_builtin_type |-> A(argc * 2 + 5),
                         key_native_type |-> A(argc * 2 + 6), value_script_type |-> A(argc * 2 + 3),
                         value_builtin_type |-> A(argc * 2 + 7),
                         value_native_type |-> A(argc * 2 + 8)] @@ pairs,
              next |-> ip + 9 + argc * 2]

(* Of a call whose result nobody wants no target is shown. *)
ShowCall(words, at) ==
    LET op == OpAt(words, at)
        ip == at + 1
        instr_var_args == Code(words, ip).number
        argc == Code(words, ip + 1 + instr_var_args).number
        call == [base |-> DADDR(words, ip, 1 + argc), arguments |-> Arguments(words, ip, argc),
                 function_name |-> DADDR(words, ip, 2 + instr_var_args)]
    IN  [shows |-> IF op \in {"CALL_RETURN", "CALL_ASYNC", "CALL_METHOD_BIND_RET"}
                   THEN [target |-> DADDR(words, ip, 2 + argc)] @@ call ELSE call,
         next |-> ip + 5 + argc]

ShowCallStatic(words, at) ==
    LET ip == at + 1
        instr_var_args == Code(words, ip).number
        builtin == OpAt(words, at) = "CALL_BUILTIN_STATIC"
        argc == Code(words, ip + instr_var_args + IF builtin THEN 3 ELSE 2).number
        A(m) == DADDR(words, ip, m)
        call == [target |-> A(1 + argc), arguments |-> Arguments(words, ip, argc)]
    IN  IF builtin
        THEN [shows |-> [type |-> A(1 + instr_var_args), function_name |-> A(2 + instr_var_args)] @@ call,
              next |-> ip + 5 + argc]
        ELSE [shows |-> [function_name |-> A(1 + instr_var_args)] @@ call, next |-> ip + 4 + argc]

ShowCallStaticValidated(words, at) ==
    LET ip == at + 1
        instr_var_args == Code(words, ip).number
        argc == Code(words, ip + 1 + instr_var_args).number
        call == [function_name |-> DADDR(words, ip, 2 + instr_var_args),
                 arguments |-> Arguments(words, ip, argc)]
    IN  [shows |-> IF OpAt(words, at) = "CALL_NATIVE_STATIC_VALIDATED_RETURN"
                   THEN [target |-> DADDR(words, ip, 1 + argc)] @@ call ELSE call,
         next |-> ip + 4 + argc]

(* A validated method's base is shown as the first of its arguments. *)
ShowCallValidated(words, at) ==
    LET op == OpAt(words, at)
        ip == at + 1
        argc == Code(words, ip + 1 + Code(words, ip).number).number
        A(m) == DADDR(words, ip, m)
        call == [arguments |-> Arguments(words, ip, argc)]
        base == [base |-> A(IF op = "CALL_BUILTIN_TYPE_VALIDATED" THEN 1 ELSE 1 + argc)]
        name == [function_name |-> A(IF op = "CALL_BUILTIN_TYPE_VALIDATED" THEN 4 + argc
                                     ELSE 2 + Code(words, ip).number)]
    IN  [shows |-> IF op = "CALL_METHOD_BIND_VALIDATED_NO_RETURN" THEN base @@ name @@ call
                   ELSE [target |-> A(2 + argc)] @@ base @@ name @@ call,
         next |-> ip + 5 + argc]

(* The target of a call of the base class is read from the word after it. *)
ShowCallUtility(words, at) ==
    LET op == OpAt(words, at)
        ip == at + 1
        instr_var_args == Code(words, ip).number
        argc == Code(words, ip + 1 + instr_var_args).number
        A(m) == DADDR(words, ip, m)
    IN  [shows |-> [target |-> A(IF op = "CALL_SELF_BASE" THEN 2 + argc ELSE 1 + argc),
                    function_name |-> A(IF op \in {"CALL_UTILITY_VALIDATED", "CALL_RUZTA_UTILITY"}
                                        THEN 3 + argc ELSE 2 + instr_var_args),
                    arguments |-> Arguments(words, ip, argc)],
         next |-> ip + 4 + argc]

ShowLambda(words, at) ==
    LET ip == at + 1
        instr_var_args == Code(words, ip).number
        captures_count == Code(words, ip + 1 + instr_var_args).number
    IN  [shows |-> [target |-> DADDR(words, ip, 1 + captures_count),
                    function_name |-> DADDR(words, ip, 2 + instr_var_args),
                    arguments |-> Arguments(words, ip, captures_count)],
         next |-> ip + 4 + captures_count]

(***************************************************************************)
(* Jumps, returns and loops.                                               *)
(***************************************************************************)
ShowJump(words, ip) ==
    LET op == OpAt(words, ip)
        A(m) == DADDR(words, ip, m)
    IN  CASE op = "AWAIT" -> [shows |-> [operand |-> A(1)], next |-> ip + 2]
          [] op = "AWAIT_RESUME" -> [shows |-> [target |-> A(1)], next |-> ip + 2]
          [] op = "JUMP" -> [shows |-> [to |-> A(1)], next |-> ip + 2]
          [] op = "JUMP_TO_DEF_ARGUMENT" -> [shows |-> << >>, next |-> ip + 1]
          [] OTHER -> [shows |-> [condition |-> A(1), to |-> A(2)], next |-> ip + 3]

ShowReturn(words, ip) ==
    LET op == OpAt(words, ip)
        value == [value |-> DADDR(words, ip, 1)]
    IN  CASE op = "RETURN" -> [shows |-> value, next |-> ip + 2]
          [] op = "RETURN_TYPED_ARRAY" -> [shows |-> value, next |-> ip + 5]
          [] op = "RETURN_TYPED_DICTIONARY" -> [shows |-> value, next |-> ip + 8]
          [] OTHER -> [shows |-> [type |-> DADDR(words, ip, 2)] @@ value, next |-> ip + 3]

(* A slip: the counter of a range takes no word of its own. *)
ShowIterateIfNoStep(words, ip) ==
    LET op == OpAt(words, ip)
    IN  [shows |-> [counter |-> DADDR(words, ip, 1)],
         next |-> ip + CASE op = "ITERATE_BEGIN_RANGE" -> 6 [] op = "ITERATE_RANGE" -> 5 [] OTHER -> 5]
ShowIterate(words, ip) ==
    LET op == OpAt(words, ip)
        A(m) == DADDR(words, ip, m)
    IN  CASE op = "ITERATE_BEGIN_RANGE" ->
                [shows |-> [iterator |-> A(5), range1 |-> A(2), range2 |-> A(3), range3 |-> A(4),
                            counter |-> A(1), to |-> A(6)],
                 next |-> ip + 7]
          [] op = "ITERATE_RANGE" ->
                [shows |-> [iterator |-> A(4), range2 |-> A(2), range3 |-> A(3), counter |-> A(1),
                            to |-> A(5)],
                 next |-> ip + 6]
          [] OTHER ->
                [shows |-> [iterator |-> A(3), container |-> A(2), counter |-> A(1), to |-> A(4)],
                 next |-> ip + 5]

ShowOther(words, ip) ==
    LET op == OpAt(words, ip)
        A(m) == DADDR(words, ip, m)
    IN  CASE op = "STORE_GLOBAL" -> [shows |-> [target |-> A(1), at |-> A(2)], next |-> ip + 3]
          [] op = "STORE_NAMED_GLOBAL" -> [shows |-> [target |-> A(1), name |-> A(2)], next |-> ip + 3]
          [] op = "LINE" -> [shows |-> [line |-> A(1)], next |-> ip + 2]
          [] op = "TYPE_ADJUST" -> [shows |-> [target |-> A(1)], next |-> ip + 2]
          [] op = "ASSERT" -> [shows |-> [test |-> A(1), message |-> A(2)], next |-> ip + 3]
          [] OTHER -> [shows |-> << >>, next |-> ip + 1]

Show(words, ip) ==
    LET op == OpAt(words, ip)
    IN  CASE op \in {"OPERATOR", "OPERATOR_VALIDATED"} -> ShowOperator(words, ip)
          [] op \in {"TYPE_TEST_BUILTIN", "TYPE_TEST_ARRAY", "TYPE_TEST_DICTIONARY", "TYPE_TEST_NATIVE",
                     "TYPE_TEST_SCRIPT"} -> ShowTypeTest(words, ip)
          [] op \in {"SET_KEYED", "SET_KEYED_VALIDATED", "SET_INDEXED_VALIDATED", "GET_KEYED",
                     "GET_KEYED_VALIDATED", "GET_INDEXED_VALIDATED"} -> ShowKeyed(words, ip)
          [] op \in {"SET_NAMED", "SET_NAMED_VALIDATED", "GET_NAMED", "GET_NAMED_VALIDATED", "SET_MEMBER",
                     "GET_MEMBER", "SET_STATIC_VARIABLE", "GET_STATIC_VARIABLE"} -> ShowNamed(words, ip)
          [] op \in {"ASSIGN", "ASSIGN_NULL", "ASSIGN_TRUE", "ASSIGN_FALSE", "ASSIGN_TYPED_BUILTIN",
                     "ASSIGN_TYPED_ARRAY", "ASSIGN_TYPED_DICTIONARY", "ASSIGN_TYPED_NATIVE",
                     "ASSIGN_TYPED_SCRIPT"} -> ShowAssign(words, ip)
          [] op \in {"CAST_TO_BUILTIN", "CAST_TO_NATIVE", "CAST_TO_SCRIPT"} -> ShowCast(words, ip)
          [] op \in {"CONSTRUCT", "CONSTRUCT_VALIDATED", "CONSTRUCT_ARRAY", "CONSTRUCT_TYPED_ARRAY"} ->
                ShowConstruct(words, ip)
          [] op \in {"CONSTRUCT_DICTIONARY", "CONSTRUCT_TYPED_DICTIONARY"} ->
                ShowConstructDictionary(words, ip)
          [] op \in {"CALL", "CALL_RETURN", "CALL_ASYNC", "CALL_METHOD_BIND", "CALL_METHOD_BIND_RET"} ->
                ShowCall(words, ip)
          [] op \in {"CALL_BUILTIN_STATIC", "CALL_NATIVE_STATIC"} -> ShowCallStatic(words, ip)
          [] op \in {"CALL_NATIVE_STATIC_VALIDATED_RETURN", "CALL_NATIVE_STATIC_VALIDATED_NO_RETURN"} ->
                ShowCallStaticValidated(words, ip)
          [] op \in {"CALL_METHOD_BIND_VALIDATED_RETURN", "CALL_METHOD_BIND_VALIDATED_NO_RETURN",
                     "CALL_BUILTIN_TYPE_VALIDATED"} -> ShowCallValidated(words, ip)
          [] op \in {"CALL_UTILITY", "CALL_UTILITY_VALIDATED", "CALL_RUZTA_UTILITY", "CALL_SELF_BASE"} ->
                ShowCallUtility(words, ip)
          [] op \in {"CREATE_LAMBDA", "CREATE_SELF_LAMBDA"} -> ShowLambda(words, ip)
          [] op \in {"AWAIT", "AWAIT_RESUME", "JUMP", "JUMP_IF", "JUMP_IF_NOT", "JUMP_IF_SHARED",
                     "JUMP_TO_DEF_ARGUMENT"} -> ShowJump(words, ip)
          [] op \in {"RETURN", "RETURN_TYPED_BUILTIN", "RETURN_TYPED_ARRAY", "RETURN_TYPED_DICTIONARY",
                     "RETURN_TYPED_NATIVE", "RETURN_TYPED_SCRIPT"} -> ShowReturn(words, ip)
          [] op \in {"ITERATE_BEGIN", "ITERATE", "ITERATE_BEGIN_RANGE", "ITERATE_RANGE"} ->
                ShowIterate(words, ip)
          [] OTHER -> ShowOther(words, ip)

disassemble(words) ==
    LET from[ip \in Nat] ==
            LET line == Show(words, ip)
            IN  IF ip >= Len(words) THEN <<>> ELSE <<[at |-> ip, shows |-> line.shows]>> \o from[line.next]
    IN  from[0]

(***************************************************************************)
(* A listing of code: an instruction at each place where one begins, each  *)
(* shown with what it has.  Four fields are taken from a wrong word.       *)
(***************************************************************************)
Misread == {<<"CAST_TO_BUILTIN", "type">>, <<"CONSTRUCT", "type">>,
            <<"CALL_BUILTIN_TYPE_VALIDATED", "base">>, <<"CALL_SELF_BASE", "target">>}
Meant(field, i, starts) ==
    CASE field = "arguments" -> [n \in DOMAIN i.arguments |-> ToString(i.arguments[n])]
      [] field = "to" -> ToString(starts[i.to])
      [] OTHER -> WordOf(field, i, 0, starts).text
IsListingOf(listing, code) ==
    LET starts == Starts(code)
    IN  /\ Len(listing) = Len(code)
        /\ \A n \in DOMAIN code :
              /\ listing[n].at = starts[n]
              /\ \A field \in DOMAIN listing[n].shows :
                    \/ <<code[n].op, field>> \in Misread
                    \/ listing[n].shows[field] = Meant(field, code[n], starts)
WellListed(code) == IsListingOf(disassemble(Flat(code)), code)
=============================================================================
