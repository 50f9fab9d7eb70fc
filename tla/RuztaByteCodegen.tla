---------------------------- MODULE RuztaByteCodegen ----------------------------
(***************************************************************************)
(* RuztaByteCodegen: RuztaByteCodeGenerator with the names in scope of the *)
(* compiler's CodeGen.  A generator is a record, g; each operator that     *)
(* writes returns the next.  An instruction is a record and a jump goes to *)
(* the index of one, so what a jump skips is counted in instructions.      *)
(* Types are those known for sure, or variant.                             *)
(***************************************************************************)
EXTENDS RuztaVariant, FiniteSets, TLC

Address(mode, address, type) == [mode |-> mode, address |-> address, type |-> type]
ConstantAt(value) == [mode |-> "constant", value |-> value, type |-> value.t]
NoAddress == [mode |-> "nil", type |-> "nil"]
SelfAddress == [mode |-> "self", type |-> "variant"]
ClassAddress == [mode |-> "class", type |-> "variant"]

HasBuiltinType(a) == a.type \notin {"variant", "nil"}
CanContainObject(type) == type \notin {"bool", "int", "float", "vector", "callable"}
PoolOf(type) == IF CanContainObject(type) THEN "nil" ELSE type

write_start(return_type) ==
    [return_type |-> return_type, argument_types |-> <<>>,
     code |-> <<>>, locals |-> <<>>, max_locals |-> 0, dirty_locals |-> {},
     temporaries |-> <<>>, used_temporaries |-> <<>>, temporaries_pending_clear |-> {},
     temporaries_pool |-> [type \in {"nil", "bool", "int", "float", "vector", "callable"} |-> <<>>],
     names |-> <<>>, names_stack |-> <<>>, stack_identifiers_counts |-> <<>>,
     if_jmp_addrs |-> <<>>, for_jmp_addrs |-> <<>>, while_jmp_addrs |-> <<>>,
     continue_addrs |-> <<>>, current_breaks_to_patch |-> <<>>,
     logic_op_jump_pos1 |-> <<>>, logic_op_jump_pos2 |-> <<>>,
     ternary_result |-> <<>>, ternary_jump_fail_pos |-> <<>>, ternary_jump_skip_pos |-> <<>>,
     for_counter_variables |-> <<>>, for_container_variables |-> <<>>,
     for_range_variables |-> <<>>,
     default_arguments |-> <<>>, argument_count |-> 0, default_arg_count |-> 0]

Append1(g, instruction) == [g EXCEPT !.code = Append(@, instruction)]
HereIn(g) == Len(g.code)          \* the instruction just written
NextIn(g) == Len(g.code) + 1      \* the one to be written next
patch_jump(g, at) == [g EXCEPT !.code[at].to = NextIn(g)]

(***************************************************************************)
(* Names, locals and blocks.  A name is a pair of names, the last wins.    *)
(***************************************************************************)
IsLocal(g, name) == \E i \in DOMAIN g.names : g.names[i].name = name
AddressOf(g, name) ==
    g.names[CHOOSE i \in DOMAIN g.names :
                /\ g.names[i].name = name
                /\ \A j \in DOMAIN g.names : g.names[j].name = name => j <= i].address

(* The slot after those in use, which an earlier block may have used.  A
   slip makes room for those of the last block only. *)
add_slotIfLast(g, type) ==
    [g EXCEPT !.locals = Append(@, type), !.max_locals = Len(g.locals) + 1]
add_slot(g, type) ==
    [g EXCEPT !.locals = Append(@, type),
              !.max_locals = IF Len(g.locals) + 1 > @ THEN Len(g.locals) + 1 ELSE @]
LastSlot(g) == Address("local", Len(g.locals), Last(g.locals))

add_local(g, name, type) ==
    LET a == add_slot(g, type)
    IN  [a EXCEPT !.names = Append(@, [name |-> name, address |-> LastSlot(a)])]

add_parameter(g, name, optional, type) ==
    [add_local(g, name, type) EXCEPT
        !.argument_types = Append(@, type), !.argument_count = @ + 1, !.default_arg_count = @ + (IF optional THEN 1 ELSE 0)]

start_block(g) ==
    [g EXCEPT !.names_stack = Append(@, g.names),
              !.stack_identifiers_counts = Append(@, Len(g.locals))]

(* Slots a block leaves keep their last value and are noted as dirty. *)
end_block(g) ==
    LET count == Last(g.stack_identifiers_counts)
    IN  [g EXCEPT !.names = Last(g.names_stack), !.names_stack = Front(@),
                  !.dirty_locals = @ \cup ((count + 1)..Len(g.locals)),
                  !.locals = SubSeq(@, 1, count),
                  !.stack_identifiers_counts = Front(@)]

(***************************************************************************)
(* Temporaries: a pool for each type that no object can be in.             *)
(***************************************************************************)
add_temporary(g, type) ==
    LET pool == g.temporaries_pool[PoolOf(type)]
        fresh == Len(g.temporaries) + 1
    IN  IF pool = <<>>
        THEN [g EXCEPT !.temporaries = Append(@, PoolOf(type)),
                       !.used_temporaries = Append(@, fresh)]
        ELSE [g EXCEPT !.temporaries_pool[PoolOf(type)] = Tail(@),
                       !.used_temporaries = Append(@, Head(pool))]
LastTemporary(g, type) == Address("temporary", Last(g.used_temporaries), type)

(* The one taken last, whichever address the caller is done with. *)
pop_temporary(g) ==
    LET slot == Last(g.used_temporaries)
        type == g.temporaries[slot]
    IN  [g EXCEPT !.used_temporaries = Front(@),
                  !.temporaries_pool[type] = Append(@, slot),
                  !.temporaries_pending_clear = IF type = "nil" THEN @ \cup {slot} ELSE @]

(* What every user of an address does with one it is done with. *)
PoppedIf(g, address) == IF address.mode = "temporary" THEN pop_temporary(g) ELSE g

clear_address(g, address) ==
    LET construct1 == [op |-> "CONSTRUCT_VALIDATED", type |-> address.type, arguments |-> <<>>]
        a == Append1(g, [target |-> address]
                        @@ CASE address.type = "bool" -> [op |-> "ASSIGN_FALSE"]
                             [] address.type \in {"int", "float", "vector", "callable", "array", "dictionary"} -> construct1
                             [] OTHER -> [op |-> "ASSIGN_NULL"])
    IN  IF address.mode = "local" THEN [a EXCEPT !.dirty_locals = @ \ {address.address}] ELSE a

RECURSIVE ClearAll(_, _)
ClearAll(g, slots) ==
    IF slots = {} THEN g
    ELSE LET slot == CHOOSE s \in slots : \A other \in slots : s <= other
         IN  ClearAll(clear_address(g, Address("temporary", slot, "variant")), slots \ {slot})
clear_temporaries(g) ==
    [ClearAll(g, g.temporaries_pending_clear) EXCEPT !.temporaries_pending_clear = {}]

is_local_dirty(g, address) == address.address \in g.dirty_locals

(***************************************************************************)
(* Parameters with defaults: the call starts at the one for the number of  *)
(* arguments it gives.                                                     *)
(***************************************************************************)
start_parameters(g) ==
    IF g.default_arg_count = 0 THEN g
    ELSE LET a == Append1(g, [op |-> "JUMP_TO_DEF_ARGUMENT"])
         IN  [a EXCEPT !.default_arguments = Append(@, NextIn(a))]
end_parameters(g) == [g EXCEPT !.default_arguments = Reverse(@)]

(***************************************************************************)
(* Instructions.                                                           *)
(***************************************************************************)
write_assign_with_conversion(g, target, source) ==
    IF HasBuiltinType(target)
    THEN Append1(g, [op |-> "ASSIGN_TYPED_BUILTIN", target |-> target, source |-> source,
                     type |-> target.type])
    ELSE Append1(g, [op |-> "ASSIGN", target |-> target, source |-> source])
write_assign(g, target, source) ==
    IF HasBuiltinType(target) /\ HasBuiltinType(source) /\ target.type # source.type
    THEN write_assign_with_conversion(g, target, source)
    ELSE Append1(g, [op |-> "ASSIGN", target |-> target, source |-> source])
write_assign_null(g, target) == Append1(g, [op |-> "ASSIGN_NULL", target |-> target])
write_assign_true(g, target) == Append1(g, [op |-> "ASSIGN_TRUE", target |-> target])
write_assign_false(g, target) == Append1(g, [op |-> "ASSIGN_FALSE", target |-> target])
write_assign_default_parameter(g, target, source, use_conversion) ==
    LET a == IF use_conversion THEN write_assign_with_conversion(g, target, source)
             ELSE write_assign(g, target, source)
    IN  [a EXCEPT !.default_arguments = Append(@, NextIn(a))]

write_type_adjustIfNever(g, target, type) == g   \* a slip: taken for granted
write_type_adjust(g, target, type) ==
    Append1(g, [op |-> "TYPE_ADJUST", target |-> target, type |-> type])

(* A division of integers is not validated: nothing would check for zero. *)
write_binary_operator(g, target, operator, left, right) ==
    LET valid == /\ HasBuiltinType(left) /\ HasBuiltinType(right)
                 /\ operator \in {"/", "%"} /\ left.type = "int" => operator = "/" /\ right.type # "int"
        result_type == ReturnType(operator, left.type, right.type)
        a == IF valid /\ target.mode = "temporary" /\ g.temporaries[target.address] # result_type
             THEN write_type_adjust(g, target, result_type) ELSE g
    IN  Append1(a, [op |-> IF valid THEN "OPERATOR_VALIDATED" ELSE "OPERATOR",
                    operator |-> operator, left |-> left, right |-> right, target |-> target])
write_unary_operator(g, target, operator, left) ==
    Append1(g, [op |-> IF HasBuiltinType(left) THEN "OPERATOR_VALIDATED" ELSE "OPERATOR",
                operator |-> IF operator = "-" THEN "negate" ELSE operator,
                left |-> left, right |-> NoAddress, target |-> target])

write_cast(g, target, source, type) ==
    Append1(g, [op |-> "CAST_TO_BUILTIN", target |-> target, source |-> source, type |-> type])
write_type_test(g, target, source, type) ==
    Append1(g, [op |-> "TYPE_TEST_BUILTIN", target |-> target, source |-> source, type |-> type])

LogicJump(g, op, condition) == Append1(g, [op |-> op, condition |-> condition, to |-> 0])
write_and_left_operand(g, operand) ==
    LET a == LogicJump(g, "JUMP_IF_NOT", operand)
    IN  [a EXCEPT !.logic_op_jump_pos1 = Append(@, HereIn(a))]
write_and_right_operand(g, operand) ==
    LET a == LogicJump(g, "JUMP_IF_NOT", operand)
    IN  [a EXCEPT !.logic_op_jump_pos2 = Append(@, HereIn(a))]
write_or_left_operand(g, operand) ==
    LET a == LogicJump(g, "JUMP_IF", operand)
    IN  [a EXCEPT !.logic_op_jump_pos1 = Append(@, HereIn(a))]
write_or_right_operand(g, operand) ==
    LET a == LogicJump(g, "JUMP_IF", operand)
    IN  [a EXCEPT !.logic_op_jump_pos2 = Append(@, HereIn(a))]

(* The outcome of the last operand, a jump over the next instruction, and
   the outcome both operands' jumps go to. *)
EndLogic(g, last, other, target) ==
    LET a == Append1(g, [op |-> last, target |-> target])
        b == Append1(a, [op |-> "JUMP", to |-> NextIn(a) + 2, words |-> 3])
        c == patch_jump(patch_jump(b, Last(b.logic_op_jump_pos1)), Last(b.logic_op_jump_pos2))
    IN  Append1([c EXCEPT !.logic_op_jump_pos1 = Front(@), !.logic_op_jump_pos2 = Front(@)],
                [op |-> other, target |-> target])
write_end_and(g, target) == EndLogic(g, "ASSIGN_TRUE", "ASSIGN_FALSE", target)
write_end_or(g, target) == EndLogic(g, "ASSIGN_FALSE", "ASSIGN_TRUE", target)

write_start_ternary(g, target) == [g EXCEPT !.ternary_result = Append(@, target)]
write_ternary_condition(g, condition) ==
    LET a == LogicJump(g, "JUMP_IF_NOT", condition)
    IN  [a EXCEPT !.ternary_jump_fail_pos = Append(@, HereIn(a))]
Jump(g) == Append1(g, [op |-> "JUMP", to |-> 0])
write_ternary_true_expr(g, expr) ==
    LET a == Jump(Append1(g, [op |-> "ASSIGN", target |-> Last(g.ternary_result), source |-> expr]))
        b == [a EXCEPT !.ternary_jump_skip_pos = Append(@, HereIn(a)),
                       !.ternary_jump_fail_pos = Front(@)]
    IN  patch_jump(b, Last(a.ternary_jump_fail_pos))
write_ternary_false_expr(g, expr) ==
    Append1(g, [op |-> "ASSIGN", target |-> Last(g.ternary_result), source |-> expr])
write_end_ternary(g) ==
    [patch_jump(g, Last(g.ternary_jump_skip_pos)) EXCEPT
        !.ternary_jump_skip_pos = Front(@), !.ternary_result = Front(@)]

IsContainer(address) == address.type \in {"array", "dictionary"}
write_set(g, target, index, source) ==
    Append1(g, [op |-> IF target.type = "dictionary" THEN "SET_KEYED_VALIDATED" ELSE "SET_KEYED",
                target |-> target, index |-> index, source |-> source])
write_get(g, target, index, source) ==
    Append1(g, [op |-> IF IsContainer(source) /\ index.type = "int" THEN "GET_INDEXED_VALIDATED"
                       ELSE IF source.type = "dictionary" THEN "GET_KEYED_VALIDATED" ELSE "GET_KEYED",
                target |-> target, index |-> index, source |-> source])
write_set_named(g, target, name, source) ==
    Append1(g, [op |-> IF HasBuiltinType(source) /\ source.type = MemberType(target.type, name)
                       THEN "SET_NAMED_VALIDATED" ELSE "SET_NAMED",
                target |-> target, name |-> name, source |-> source])
write_get_named(g, target, name, source) ==
    Append1(g, [op |-> IF source.type = "vector" THEN "GET_NAMED_VALIDATED" ELSE "GET_NAMED",
                target |-> target, name |-> name, source |-> source])

write_get_static_variable(g, target, index) ==
    Append1(g, [op |-> "GET_STATIC_VARIABLE", target |-> target, at |-> index])
write_set_static_variable(g, value, index) ==
    Append1(g, [op |-> "SET_STATIC_VARIABLE", value |-> value, at |-> index])

(* A call nobody wants the result of has a temporary for it all the same. *)
WriteCall(g, target, type, instruction) ==
    IF target.mode # "nil" THEN Append1(g, [instruction EXCEPT !.target = target])
    ELSE LET a == add_temporary(g, type)
         IN  pop_temporary(Append1(a, [instruction EXCEPT !.target = LastTemporary(a, type)]))
write_call(g, target, base, function_name, arguments) ==
    WriteCall(g, target, "variant",
              [op |-> IF target.mode = "nil" THEN "CALL" ELSE "CALL_RETURN", base |-> base,
               function_name |-> function_name, arguments |-> arguments, target |-> target])
write_call_self(g, target, function_name, arguments) ==
    write_call(g, target, SelfAddress, function_name, arguments)
write_call_ruzta_utility(g, target, function_name, arguments) ==
    WriteCall(g, target, "variant",
              [op |-> "CALL_RUZTA_UTILITY", function_name |-> function_name,
               arguments |-> arguments, target |-> target])
write_call_utility(g, target, function_name, arguments) ==
    WriteCall(g, target, "variant",
              [op |-> "CALL_UTILITY", function_name |-> function_name,
               arguments |-> arguments, target |-> target])

(* Of a base of a known type, given what the method takes: nothing is
   checked. *)
write_call_builtin_type(g, target, base, function_name, arguments) ==
    LET method == Method(base.type, function_name)
        validated == method.found /\ ~method.vararg /\ Len(arguments) = Len(method.arguments)
                     /\ \A i \in DOMAIN arguments :
                           HasBuiltinType(arguments[i]) /\ arguments[i].type = method.arguments[i]
        a == IF target.mode = "temporary" /\ g.temporaries[target.address] # method.returns
             THEN write_type_adjust(g, target, method.returns) ELSE g
    IN  IF ~validated THEN write_call(g, target, base, function_name, arguments)
        ELSE WriteCall(a, target, method.returns,
                       [op |-> "CALL_BUILTIN_TYPE_VALIDATED", base |-> base,
                        function_name |-> function_name, arguments |-> arguments, target |-> target])

(* captures: what the function takes before its own arguments. *)
write_lambda(g, target, function, captures, use_self) ==
    Append1(g, [op |-> IF use_self THEN "CREATE_SELF_LAMBDA" ELSE "CREATE_LAMBDA", arguments |-> captures,
                target |-> target, function_name |-> function])

write_construct(g, target, type, arguments) ==
    LET types == [i \in DOMAIN arguments |-> arguments[i].type]
        validated == types \in Constructors(type)
    IN  WriteCall(g, target, "variant",
                  [op |-> IF validated THEN "CONSTRUCT_VALIDATED" ELSE "CONSTRUCT", type |-> type,
                   arguments |-> arguments, target |-> target])
write_construct_array(g, target, arguments) ==
    Append1(g, [op |-> "CONSTRUCT_ARRAY", arguments |-> arguments, target |-> target])
write_construct_dictionary(g, target, arguments) ==
    Append1(g, [op |-> "CONSTRUCT_DICTIONARY", arguments |-> arguments, target |-> target])

IfJump(g, op, condition) ==
    LET a == LogicJump(g, op, condition) IN [a EXCEPT !.if_jmp_addrs = Append(@, HereIn(a))]
write_if(g, condition) == IfJump(g, "JUMP_IF_NOT", condition)
write_else(g) ==
    LET a == Jump(g)
    IN  [patch_jump(a, Last(g.if_jmp_addrs)) EXCEPT
            !.if_jmp_addrs = Append(Front(@), HereIn(a))]
write_endif(g) == [patch_jump(g, Last(g.if_jmp_addrs)) EXCEPT !.if_jmp_addrs = Front(@)]
write_jump_if_shared(g, value) == IfJump(g, "JUMP_IF_SHARED", value)
write_end_jump_if_shared(g) == write_endif(g)

(***************************************************************************)
(* Loops.                                                                  *)
(***************************************************************************)
start_for(g, iterator_type, list_type, is_range) ==
    LET a == add_slot(g, iterator_type)
        b == add_slot(add_slot(add_slot(a, "int"), "int"), "int")
        At(i) == Address("local", Len(a.locals) + i, "int")
        c == add_slot(a, list_type)
        counted == LastSlot(a)
    IN  IF is_range
        THEN [b EXCEPT !.for_counter_variables = Append(@, counted),
                       !.for_range_variables = Append(@, <<At(1), At(2), At(3)>>)]
        ELSE [c EXCEPT !.for_counter_variables = Append(@, counted),
                       !.for_container_variables = Append(@, LastSlot(c))]

write_for_list_assignment(g, list) ==
    Append1(g, [op |-> "ASSIGN", target |-> Last(g.for_container_variables), source |-> list])

write_for_range_assignment(g, from, to, step) ==
    LET range == Last(g.for_range_variables)
        Put(h, target, source) ==
            IF target.type = source.type THEN write_assign(h, target, source)
            ELSE write_assign_with_conversion(h, target, source)
    IN  Put(Put(Put(g, range[1], from), range[2], to), range[3], step)

(* begin, a jump into the loop, and the step every next turn starts with:
   both end the loop. *)
write_for(g, variable, use_conversion, is_range) ==
    LET a == IF use_conversion THEN add_slot(g, "variant") ELSE g
        taken == IF use_conversion THEN LastSlot(a) ELSE variable   \* @iterator_temp
        list == IF is_range THEN NoAddress ELSE Last(g.for_container_variables)
        range == IF is_range THEN Last(g.for_range_variables) ELSE <<>>
        kind == IF is_range THEN "RANGE"
                ELSE IF list.type \in {"int", "float", "vector", "array", "dictionary"} THEN list.type
                ELSE "VARIANT"
        Iterate(op) == [op |-> op, kind |-> kind, counter |-> Last(g.for_counter_variables),
                        container |-> list, range |-> range, iterator |-> taken, to |-> 0]
        b == Append1(a, Iterate("ITERATE_BEGIN"))
        c == Append1(b, [op |-> "JUMP", to |-> NextIn(b) + 2, words |-> IF is_range THEN 7 ELSE 6])
        d == Append1(c, Iterate("ITERATE"))
        e == [d EXCEPT !.current_breaks_to_patch = Append(@, <<>>),
                       !.for_jmp_addrs = @ \o <<HereIn(b), HereIn(d)>>,
                       !.continue_addrs = Append(@, NextIn(c))]
        converted == write_assign_with_conversion(e, variable, taken)
    IN  IF ~use_conversion THEN e
        ELSE IF CanContainObject(variable.type) THEN clear_address(converted, taken) ELSE converted

RECURSIVE PatchAll(_, _)
PatchAll(g, places) == IF places = <<>> THEN g ELSE PatchAll(patch_jump(g, Head(places)), Tail(places))

(* The jump back, and the end of the loop for its breaks. *)
EndLoop(g, jumps) ==
    LET a == Append1(g, [op |-> "JUMP", to |-> Last(g.continue_addrs)])
    IN  [PatchAll(a, jumps \o Last(g.current_breaks_to_patch)) EXCEPT
            !.continue_addrs = Front(@), !.current_breaks_to_patch = Front(@)]
write_endfor(g, is_range) ==
    LET count == Len(g.for_jmp_addrs)
        a == EndLoop(g, SubSeq(g.for_jmp_addrs, count - 1, count))
        b == [a EXCEPT !.for_jmp_addrs = SubSeq(@, 1, count - 2), !.for_counter_variables = Front(@)]
    IN  IF is_range THEN [b EXCEPT !.for_range_variables = Front(@)]
        ELSE [b EXCEPT !.for_container_variables = Front(@)]

start_while_condition(g) ==
    [g EXCEPT !.current_breaks_to_patch = Append(@, <<>>),
              !.continue_addrs = Append(@, NextIn(g))]
write_while(g, condition) ==
    LET a == LogicJump(g, "JUMP_IF_NOT", condition)
    IN  [a EXCEPT !.while_jmp_addrs = Append(@, HereIn(a))]
write_endwhile(g) ==
    [EndLoop(g, <<Last(g.while_jmp_addrs)>>) EXCEPT !.while_jmp_addrs = Front(@)]

write_break(g) ==
    LET a == Jump(g)
    IN  [a EXCEPT !.current_breaks_to_patch[Len(a.current_breaks_to_patch)] = Append(@, HereIn(a))]
(* A slip: back to where the innermost for begins. *)
write_continueIfBegin(g) ==
    Append1(g, [op |-> "JUMP", to |-> IF g.for_jmp_addrs = <<>> THEN Last(g.continue_addrs)
                                      ELSE g.for_jmp_addrs[Len(g.for_jmp_addrs) - 1]])
write_continue(g) == Append1(g, [op |-> "JUMP", to |-> Last(g.continue_addrs)])

write_newline(g) == Append1(g, [op |-> "LINE"])
(* Converted if the function has a type and the value is not known to be of
   it; a slip takes any value of a known type for one of it. *)
write_returnIfKnown(g, value) ==
    IF g.return_type = "variant" \/ HasBuiltinType(value) THEN Append1(g, [op |-> "RETURN", value |-> value])
    ELSE Append1(g, [op |-> "RETURN_TYPED_BUILTIN", value |-> value, type |-> g.return_type])
write_return(g, value) ==
    IF g.return_type \in {"variant", value.type} THEN Append1(g, [op |-> "RETURN", value |-> value])
    ELSE Append1(g, [op |-> "RETURN_TYPED_BUILTIN", value |-> value, type |-> g.return_type])
write_assert(g, test) == Append1(g, [op |-> "ASSERT", test |-> test])

(* write_end: temporaries have the slots after all locals. *)
write_end(g) ==
    LET a == Append1(g, [op |-> "END"])
    IN  [code |-> a.code, is_static |-> g.is_static,
         stack_size |-> g.max_locals + Len(g.temporaries),
         max_locals |-> g.max_locals,
         temporary_slots |-> [i \in {j \in DOMAIN g.temporaries : g.temporaries[j] # "nil"}
                                  |-> g.temporaries[i]],
         return_type |-> g.return_type,
         argument_types |-> g.argument_types,
         argument_count |-> g.argument_count,
         default_arg_count |-> g.default_arg_count,
         default_arguments |-> g.default_arguments,
         temporaries_left |-> Len(g.used_temporaries)]
=============================================================================
