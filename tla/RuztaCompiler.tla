----------------------------- MODULE RuztaCompiler -----------------------------
(***************************************************************************)
(* RuztaCompiler: from the tree of a script, with what the analyzer found, *)
(* to the code of its functions.  Names are locals, parameters and the     *)
(* script's own variables and constants; globals and awaits are left out.  *)
(* g also has the script, with its lambdas, the function's name and        *)
(* whether it is static.  An operator that compiles an expression returns  *)
(* the generator and the address, [g, a].                                  *)
(***************************************************************************)
EXTENDS RuztaByteCodegen

Absent == [type |-> "null"]    \* no node
R(g, a) == [g |-> g, a |-> a]

VariantUtilities == {"typeof", "print"}
RuztaUtilities == {"len"}
BuiltinTypes == {"int", "bool", "float", "Array", "Dictionary", "Vector2", "Callable"}

(* The type of what is known for sure: a built-in one or none. *)
_gdtype_from_datatype(datatype) ==
    IF datatype.source = "annotated" /\ datatype.type \notin {"unresolved", "object"} THEN datatype.type
    ELSE "variant"
TypeOf(n) == _gdtype_from_datatype(n.datatype)

(***************************************************************************)
(* Expressions.                                                            *)
(***************************************************************************)
RECURSIVE parse_expression(_, _, _), ParseEach(_, _), PopEach(_, _), GetChain(_, _, _, _)

Temporary(g, type) ==
    LET a == add_temporary(g, type) IN R(a, LastTemporary(a, type))

(* Several expressions, one after the other. *)
ParseEach(g, expressions) ==
    IF expressions = <<>> THEN R(g, <<>>)
    ELSE LET first == parse_expression(g, Head(expressions), FALSE)
             others == ParseEach(first.g, Tail(expressions))
         IN  R(others.g, <<first.a>> \o others.a)
PopEach(g, addresses) ==
    IF addresses = <<>> THEN g ELSE PopEach(PoppedIf(g, Head(addresses)), Tail(addresses))

(***************************************************************************)
(* Variables of the script: of the instance, and static ones.  From its    *)
(* own accessor, and from nowhere else, one is used without it.            *)
(***************************************************************************)
MemberAt(info, type) == Address("member", info.index, type)
OwnerOf(static) == IF static THEN ClassAddress ELSE SelfAddress

ParseField(g, e) ==
    LET static == e.source = "static"
        info == IF static THEN g.script.static_variables_indices[e.name] ELSE g.script.member_indices[e.name]
        temp == Temporary(g, info.type)
        gets == info.getter \notin {"", g.function_name}
    IN  CASE gets -> R(write_call(temp.g, temp.a, OwnerOf(static), info.getter, <<>>), temp.a)
          [] ~gets /\ static -> R(write_get_static_variable(temp.g, temp.a, info.index), temp.a)
          [] OTHER -> R(g, MemberAt(info, info.type))

(* What an assignment to a name is to, if to no local: whatever the name
   meant to the analyzer, the locals of the block are asked. *)
NoProperty == [is_member |-> FALSE]
PropertyOf(g, e) ==
    LET members == g.script.member_indices
        static == e.name \notin DOMAIN members
        indices == IF static THEN g.script.static_variables_indices ELSE members
        info == indices[e.name]
    IN  IF e.type # "identifier" THEN NoProperty
        ELSE IF IsLocal(g, e.name) \/ e.name \notin DOMAIN indices THEN NoProperty
        ELSE [is_member |-> TRUE, static |-> static, info |-> info,
              calls_setter |-> info.setter \notin {"", g.function_name}]

WriteTo(g, conversion, target, source) ==
    IF conversion THEN write_assign_with_conversion(g, target, source) ELSE write_assign(g, target, source)
WriteStatic(g, conversion, info, source) ==
    LET temp == Temporary(g, info.type)
    IN  pop_temporary(write_set_static_variable(WriteTo(temp.g, conversion, temp.a, source), temp.a, info.index))
WriteProperty(g, property, conversion, source) ==
    LET info == property.info
    IN  CASE property.calls_setter -> write_call(g, NoAddress, OwnerOf(property.static), info.setter, <<source>>)
          [] ~property.calls_setter /\ property.static -> WriteStatic(g, conversion, info, source)
          [] OTHER -> WriteTo(g, conversion, MemberAt(info, info.type), source)

ParseArray(g, e) ==
    LET result == Temporary(g, "array")
        values == ParseEach(result.g, e.elements)
    IN  R(PopEach(write_construct_array(values.g, result.a, values.a), values.a), result.a)

ParseDictionary(g, e) ==
    LET result == Temporary(g, "dictionary")
        Flat == [i \in 1..(2 * Len(e.entries)) |->
                    IF i % 2 = 1 THEN e.entries[(i + 1) \div 2].key ELSE e.entries[i \div 2].value]
        elements == ParseEach(result.g, Flat)
    IN  R(PopEach(write_construct_dictionary(elements.g, result.a, elements.a), elements.a),
          result.a)

(* The lambda's function is one of the script that has no name there. *)
FunctionOf(lambda) == "@lambda" \o ToString(lambda)
ParseLambda(g, e) ==
    LET lambda == g.script.lambdas[e.id]
        result == Temporary(g, TypeOf(e))
        captures == ParseEach(result.g, lambda.captures)
    IN  R(PopEach(write_lambda(captures.g, result.a, FunctionOf(e.id), captures.a, lambda.use_self), captures.a),
          result.a)

(* The base of a method comes after the arguments.  The result of a call
   that is a statement is nobody's. *)
ParseCall(g, e, root) ==
    LET result == IF root THEN R(g, NoAddress) ELSE Temporary(g, TypeOf(e))
        arguments == ParseEach(result.g, e.arguments)
        base == parse_expression(arguments.g, e.callee.base, FALSE)
        name == e.callee.name
        Written ==
            CASE e.callee.type = "attribute" ->
                    PoppedIf(IF HasBuiltinType(base.a)
                             THEN write_call_builtin_type(base.g, result.a, base.a, name, arguments.a)
                             ELSE write_call(base.g, result.a, base.a, name, arguments.a), base.a)
              [] name \in BuiltinTypes -> write_construct(arguments.g, result.a, e.datatype.type, arguments.a)
              [] name \in VariantUtilities ->
                    write_call_utility(arguments.g, result.a, name, arguments.a)
              [] name \in RuztaUtilities ->
                    write_call_ruzta_utility(arguments.g, result.a, name, arguments.a)
              [] name \notin BuiltinTypes \cup VariantUtilities \cup RuztaUtilities /\ (e.is_static \/ g.is_static) ->
                    write_call(arguments.g, result.a, ClassAddress, name, arguments.a)
              [] OTHER -> write_call_self(arguments.g, result.a, name, arguments.a)
    IN  R(PopEach(Written, arguments.a), result.a)

(* In its own accessor a variable goes by its name: by self is an error, in
   a build with DEBUG_ENABLED.  What is compiled all the same is not used. *)
Checked(g, e, accessor) ==
    LET own == /\ e.type = "attribute" /\ e.base.type = "self" /\ e.name \in DOMAIN g.script.member_indices
               /\ g.script.member_indices[e.name][accessor] = g.function_name
    IN  IF own THEN [g EXCEPT !.error = TRUE] ELSE g

(* The slip keeps the index. *)
ParseSubscriptIfIndexKept(g, e) ==
    LET result == Temporary(g, TypeOf(e))
        base == parse_expression(result.g, e.base, FALSE)
        index == parse_expression(base.g, e.index, FALSE)
    IN  IF e.type = "attribute"
        THEN R(PoppedIf(write_get_named(base.g, result.a, e.name, base.a), base.a), result.a)
        ELSE R(PoppedIf(write_get(index.g, result.a, index.a, base.a), base.a), result.a)
ParseSubscript(g, e) ==
    LET result == Temporary(Checked(g, e, "getter"), TypeOf(e))
        base == parse_expression(result.g, e.base, FALSE)
        index == parse_expression(base.g, e.index, FALSE)
        get == write_get(index.g, result.a, index.a, base.a)
        plain == /\ e.type = "attribute" /\ e.base.type = "self"
                 /\ e.name \in DOMAIN g.script.member_indices /\ g.script.member_indices[e.name].getter = ""
    IN  IF plain THEN R(pop_temporary(base.g), MemberAt(g.script.member_indices[e.name], TypeOf(e)))
        ELSE IF e.type = "attribute"
        THEN R(PoppedIf(write_get_named(base.g, result.a, e.name, base.a), base.a), result.a)
        ELSE R(PoppedIf(PoppedIf(get, index.a), base.a), result.a)

(* One to no type for sure is its operand. *)
ParseCast(g, e) ==
    LET type == TypeOf(e)
        result == Temporary(g, type)
        operand == parse_expression(result.g, e.operand, FALSE)
    IN  IF type = "variant" THEN parse_expression(g, e.operand, FALSE)
        ELSE R(PoppedIf(write_cast(operand.g, result.a, operand.a, type), operand.a), result.a)

ParseUnary(g, e) ==
    LET result == Temporary(g, TypeOf(e))
        operand == parse_expression(result.g, e.operand, FALSE)
    IN  R(PoppedIf(write_unary_operator(operand.g, result.a, e.op, operand.a), operand.a), result.a)

(* An operand of and, or is tested before the next one is evaluated. *)
ParseBinary(g, e) ==
    LET result == Temporary(g, TypeOf(e))
        left == parse_expression(result.g, e.left, FALSE)
        tested == CASE e.op = "and" -> write_and_left_operand(left.g, left.a)
                    [] e.op = "or" -> write_or_left_operand(left.g, left.a)
                    [] OTHER -> left.g
        right == parse_expression(tested, e.right, FALSE)
        Written ==
            CASE e.op = "and" -> write_end_and(write_and_right_operand(right.g, right.a), result.a)
              [] e.op = "or" -> write_end_or(write_or_right_operand(right.g, right.a), result.a)
              [] OTHER -> write_binary_operator(right.g, result.a, e.op, left.a, right.a)
    IN  R(PoppedIf(PoppedIf(Written, right.a), left.a), result.a)

ParseTernary(g, e) ==
    LET result == Temporary(g, TypeOf(e))
        condition == parse_expression(write_start_ternary(result.g, result.a), e.condition, FALSE)
        a == PoppedIf(write_ternary_condition(condition.g, condition.a), condition.a)
        true_expr == parse_expression(a, e.true_expr, FALSE)
        b == PoppedIf(write_ternary_true_expr(true_expr.g, true_expr.a), true_expr.a)
        false_expr == parse_expression(b, e.false_expr, FALSE)
        c == PoppedIf(write_ternary_false_expr(false_expr.g, false_expr.a), false_expr.a)
    IN  R(write_end_ternary(c), result.a)

ParseTypeTest(g, e) ==
    LET result == Temporary(g, "bool")
        operand == parse_expression(result.g, e.operand, FALSE)
        type == _gdtype_from_datatype(e.test_datatype)
    IN  R(PoppedIf(write_type_test(operand.g, result.a, operand.a, type), operand.a), result.a)

(***************************************************************************)
(* Assignments.  a[i].x = v gets a[i], sets x of it and, unless the value  *)
(* is shared, sets it back into a; each link has what that takes.          *)
(***************************************************************************)
IsLink(e) == e.type \in {"subscript", "attribute"}
RECURSIVE Links(_)
Links(e) == IF IsLink(e.base) THEN Append(Links(e.base), e) ELSE <<e>>

KeyOf(g, link) == IF link.type = "attribute" THEN R(g, NoAddress) ELSE parse_expression(g, link.index, FALSE)
GetLink(g, link, value, key, base) ==
    IF link.type = "attribute" THEN write_get_named(g, value, link.name, base)
    ELSE write_get(g, value, key, base)
SetLink(g, link, base, key, value) ==
    IF link.type = "attribute" THEN write_set_named(g, base, link.name, value)
    ELSE write_set(g, base, key, value)

(* chain: what to set back, the last got first. *)
GetChain(g, links, base, chain) ==
    LET value == Temporary(g, TypeOf(Head(links)))
        key == KeyOf(value.g, Head(links))
    IN  IF Len(links) = 1 THEN [g |-> g, a |-> base, chain |-> chain]
        ELSE GetChain(GetLink(key.g, Head(links), value.a, key.a, base), Tail(links), value.a,
                      <<[link |-> Head(links), base |-> base, key |-> key.a]>> \o chain)

(* Of a known type it is known whether the value is shared. *)
SetBack(g, info, assigned) ==
    LET Set(h) == SetLink(h, info.link, info.base, info.key, assigned)
    IN  IF HasBuiltinType(assigned) THEN (IF IsContainer(assigned) THEN g ELSE Set(g))
        ELSE write_end_jump_if_shared(Set(write_jump_if_shared(g, assigned)))

(* At the start of the chain is the variable, if it is one of the script. *)
SetProperty(g, property, assigned) ==
    LET Written(h) == WriteProperty(h, property, FALSE, assigned)
    IN  IF ~property.is_member THEN g
        ELSE IF HasBuiltinType(assigned) THEN (IF IsContainer(assigned) THEN g ELSE Written(g))
        ELSE write_end_jump_if_shared(Written(write_jump_if_shared(g, assigned)))

RECURSIVE SetChain(_, _, _, _)
SetChain(g, chain, property, assigned) ==
    IF chain = <<>> THEN PoppedIf(SetProperty(g, property, assigned), assigned)
    ELSE LET info == Head(chain)
             a == SetBack(g, info, assigned)
         IN  SetChain(PoppedIf(PoppedIf(a, info.key), assigned), Tail(chain), property, info.base)

Operator(op) ==
    CASE op = "+=" -> "+" [] op = "-=" -> "-" [] op = "*=" -> "*" [] op = "/=" -> "/"
      [] op = "%=" -> "%" [] op = "|=" -> "|" [] op = "&=" -> "&" [] op = "^=" -> "^"
(* A copy, for the setter to be given: the variable itself is the setter's
   to change.  A slip has the parts set in the variable. *)
StartOfChainIfInPlace(base, property) == base
StartOfChain(base, property) ==
    LET copy == Temporary(base.g, base.a.type)
    IN  IF property.is_member /\ base.a.mode = "member" /\ ~IsContainer(base.a)
        THEN (IF property.calls_setter THEN R(write_assign(copy.g, copy.a, base.a), copy.a) ELSE base)
        ELSE base
ParseSetChain(g, e) ==
    LET links == Links(e.assignee)
        property == PropertyOf(g, Head(links).base)
        base == StartOfChain(parse_expression(Checked(g, e.assignee, "setter"), Head(links).base, FALSE), property)
        got == GetChain(base.g, links, base.a, <<>>)
        value == parse_expression(got.g, e.assigned, FALSE)
        key == KeyOf(value.g, Last(links))
        op_result == Temporary(key.g, TypeOf(e))
        old == Temporary(op_result.g, TypeOf(e.assignee))
        operated == write_binary_operator(GetLink(old.g, Last(links), old.a, key.a, got.a),
                                          op_result.a, Operator(e.op), old.a, value.a)
        plain == e.op = "="
        assigned == IF plain THEN value.a ELSE op_result.a
        a == IF plain THEN key.g ELSE PoppedIf(pop_temporary(operated), value.a)
        set == SetLink(a, Last(links), got.a, key.a, assigned)
    IN  SetChain(PoppedIf(PoppedIf(set, key.a), assigned), got.chain, property, got.a)

(* A name: a local, or a variable of the script.  What an operation is on
   is read after the other value. *)
ParseRegular(g, e) ==
    LET property == PropertyOf(g, e.assignee)
        target == IF property.is_member THEN R(g, NoAddress) ELSE parse_expression(g, e.assignee, FALSE)
        value == parse_expression(target.g, e.assigned, FALSE)
        op_result == Temporary(value.g, TypeOf(e))
        old == parse_expression(op_result.g, e.assignee, FALSE)
        operated == PoppedIf(write_binary_operator(old.g, op_result.a, Operator(e.op), old.a, value.a), old.a)
        Written(h, source) ==
            IF property.is_member THEN WriteProperty(h, property, e.use_conversion_assign, source)
            ELSE WriteTo(h, e.use_conversion_assign, target.a, source)
        assigned == IF e.op = "=" THEN PoppedIf(Written(value.g, value.a), value.a)
                    ELSE PoppedIf(pop_temporary(Written(operated, op_result.a)), value.a)
    IN  PoppedIf(assigned, target.a)

parse_expression(g, e, root) ==
    IF e.is_constant THEN R(g, ConstantAt(e.value))
    ELSE CASE e.type = "identifier" /\ e.source = "local" -> R(g, AddressOf(g, e.name))
           [] e.type = "identifier" /\ e.source \in {"member", "static"} -> ParseField(g, e)
           [] e.type = "self" -> R(g, SelfAddress)
           [] e.type = "lambda" -> ParseLambda(g, e)
           [] e.type = "array" -> ParseArray(g, e)
           [] e.type = "dictionary" -> ParseDictionary(g, e)
           [] e.type = "call" -> ParseCall(g, e, root)
           [] e.type \in {"subscript", "attribute"} -> ParseSubscript(g, e)
           [] e.type = "unary" -> ParseUnary(g, e)
           [] e.type = "binary" -> ParseBinary(g, e)
           [] e.type = "ternary" -> ParseTernary(g, e)
           [] e.type = "is" -> ParseTypeTest(g, e)
           [] e.type = "cast" -> ParseCast(g, e)
           [] e.type = "assignment" ->
                 R(IF IsLink(e.assignee) THEN ParseSetChain(g, e) ELSE ParseRegular(g, e), NoAddress)

(***************************************************************************)
(* Patterns.  A pattern narrows or widens the test of those before it: the *)
(* elements of one nested are all to match, any pattern of a branch may.   *)
(***************************************************************************)
RECURSIVE parse_match_pattern(_, _, _, _, _, _, _), ArrayElements(_, _, _, _, _, _), DictionaryElements(_, _, _, _, _)

AfterPrevious(g, previous, first, nested) ==
    CASE nested -> write_and_left_operand(g, previous)
      [] ~nested /\ ~first -> write_or_left_operand(g, previous)
      [] OTHER -> g
Combined(g, previous, test, first, nested) ==
    CASE nested -> write_end_and(write_and_right_operand(g, test), previous)
      [] ~nested /\ ~first -> write_end_or(write_or_right_operand(g, test), previous)
      [] OTHER -> write_assign(g, previous, test)

Typeof(g, target, source) == write_call_utility(g, target, "typeof", <<source>>)
TypeConstant(tag) == ConstantAt(Number(TypeCode(tag)))
IsType(g, target, type, tag) == write_binary_operator(g, target, "==", type, TypeConstant(tag))

LiteralPattern(g, n, value, type, previous, first, nested) ==
    LET literal == ConstantAt(n.expression.value)
        same == Temporary(AfterPrevious(g, previous, first, nested), "bool")
        typed == IsType(same.g, same.a, type, n.expression.value.t)
        equality == Temporary(write_and_left_operand(typed, same.a), "bool")
        tested == write_binary_operator(equality.g, equality.a, "==", value, literal)
        both == write_end_and(write_and_right_operand(tested, equality.a), same.a)
    IN  pop_temporary(Combined(pop_temporary(both), previous, same.a, first, nested))

(* A string and a string name may be equal. *)
ExpressionPattern(g, n, value, type, previous, first, nested) ==
    LET result == Temporary(AfterPrevious(g, previous, first, nested), "bool")
        equality == Temporary(result.g, "bool")
        stringy == Temporary(equality.g, "bool")
        stringy_2 == Temporary(stringy.g, "bool")
        expr_type == Temporary(stringy_2.g, "variant")
        expr == parse_expression(expr_type.g, n.expression, FALSE)
        Stringy(h, one, other) ==
            LET a == IsType(h, stringy.a, type, one)
                b == IsType(a, stringy_2.a, expr_type.a, other)
                c == write_binary_operator(b, stringy.a, "and", stringy.a, stringy_2.a)
            IN  write_binary_operator(c, result.a, "or", result.a, stringy.a)
        same == write_binary_operator(Typeof(expr.g, expr_type.a, expr.a),
                                      result.a, "==", type, expr_type.a)
        compared == Stringy(Stringy(same, "string", "string_name"), "string_name", "string")
        popped == pop_temporary(pop_temporary(pop_temporary(compared)))
        tested == write_binary_operator(write_and_left_operand(popped, result.a),
                                        equality.a, "==", value, expr.a)
        both == write_end_and(write_and_right_operand(tested, equality.a), result.a)
        left == pop_temporary(PoppedIf(both, expr.a))
    IN  pop_temporary(Combined(left, previous, result.a, first, nested))

(* The type and the length; then each element while all before it match. *)
ContainerTest(g, tag, size, rest_used, value, type) ==
    LET result == Temporary(g, "bool")
        typed == write_and_left_operand(IsType(result.g, result.a, type, tag), result.a)
        value_length == Temporary(typed, "int")
        length == write_call_ruzta_utility(value_length.g, value_length.a, "len", <<value>>)
        compat == Temporary(length, "bool")
        tested == write_binary_operator(
                      compat.g, compat.a, IF rest_used THEN ">=" ELSE "==", value_length.a,
                      ConstantAt(Number(IF rest_used THEN size - 1 ELSE size)))
        both == write_end_and(write_and_right_operand(tested, compat.a), result.a)
    IN  R(pop_temporary(pop_temporary(both)), result.a)

(* The element's own pattern, and the test so far again. *)
Element(g, n, element, element_type, result) ==
    LET a == Typeof(g, element_type, element)
        b == parse_match_pattern(a, n, element, element_type, result, FALSE, TRUE)
    IN  write_end_and(write_and_right_operand(b, result), result)

ArrayElements(g, patterns, i, value, result, temporaries) ==
    LET element == temporaries[1]
        a == write_get(write_and_left_operand(g, result), element, ConstantAt(Number(i)), value)
    IN  IF patterns = <<>> \/ Head(patterns).kind = "rest" THEN g
        ELSE ArrayElements(Element(a, Head(patterns), element, temporaries[2], result),
                           Tail(patterns), i + 1, value, result, temporaries)

DictionaryElements(g, entries, value, result, temporaries) ==
    LET entry == Head(entries)
        element == temporaries[1]
        key == parse_expression(write_and_left_operand(g, result), entry.key, FALSE)
        a == write_call(key.g, result, value, "has", <<key.a>>)
        b == write_get(write_and_left_operand(a, result), element, key.a, value)
        c == IF entry.value = Absent THEN a ELSE Element(b, entry.value, element, temporaries[2], result)
        d == PoppedIf(write_end_and(write_and_right_operand(c, result), result), key.a)
    IN  IF entries = <<>> THEN g
        ELSE IF entry.value.type = "pattern" /\ entry.value.kind = "rest" THEN g
        ELSE DictionaryElements(d, Tail(entries), value, result, temporaries)

ContainerPattern(g, n, value, type, previous, first, nested) ==
    LET patterns == IF n.kind = "array" THEN n.array ELSE n.dictionary
        test == ContainerTest(AfterPrevious(g, previous, first, nested), n.kind, Len(patterns),
                              n.rest_used, value, type)
        element == Temporary(test.g, "variant")
        element_type == Temporary(element.g, "variant")
        temporaries == <<element.a, element_type.a>>
        a == IF n.kind = "array"
             THEN ArrayElements(element_type.g, patterns, 0, value, test.a, temporaries)
             ELSE DictionaryElements(element_type.g, patterns, value, test.a, temporaries)
    IN  pop_temporary(Combined(pop_temporary(pop_temporary(a)), previous, test.a, first, nested))

(* A bind takes the value, and matches anything as a wildcard does. *)
AnyPattern(g, n, value, previous, first, nested) ==
    LET a == AfterPrevious(g, previous, first, nested)
        b == IF n.kind = "bind" THEN write_assign(a, AddressOf(a, n.bind), value) ELSE a
    IN  IF nested \/ ~first THEN Combined(b, previous, ConstantAt(Bool(TRUE)), first, nested)
        ELSE write_assign_true(b, previous)

parse_match_pattern(g, n, value, type, previous, first, nested) ==
    CASE n.kind = "expression" /\ n.expression.type = "literal" ->
            LiteralPattern(g, n, value, type, previous, first, nested)
      [] n.kind = "expression" /\ n.expression.type # "literal" ->
            ExpressionPattern(g, n, value, type, previous, first, nested)
      [] n.kind \in {"array", "dictionary"} ->
            ContainerPattern(g, n, value, type, previous, first, nested)
      [] n.kind \in {"bind", "wildcard"} -> AnyPattern(g, n, value, previous, first, nested)
      [] n.kind = "rest" -> g

(***************************************************************************)
(* Blocks.  A local is a name and the type of its slot.                    *)
(***************************************************************************)
RECURSIVE Binds(_), BindsOf(_), Statements(_, _, _), Branches(_, _, _, _)

BindsOf(patterns) == IF patterns = <<>> THEN <<>> ELSE Binds(Head(patterns)) \o BindsOf(Tail(patterns))
Binds(n) ==
    CASE n.kind = "bind" -> <<[name |-> n.bind, type |-> TypeOf(n)]>>
      [] n.kind = "array" -> BindsOf(n.array)
      [] n.kind = "dictionary" ->
            LET Valued(entry) == entry.value # Absent
                entries == SelectSeq(n.dictionary, Valued)
            IN  BindsOf([i \in DOMAIN entries |-> entries[i].value])
      [] OTHER -> <<>>

Declares(n) == n.type \in {"variable", "constant"}
LocalsOf(suite) ==
    LET declarations == SelectSeq(suite.statements, Declares)
    IN  [i \in DOMAIN declarations |-> [name |-> declarations[i].name, type |-> TypeOf(declarations[i])]]

(* Slots for locals; a has their addresses. *)
RECURSIVE _add_block_locals(_, _)
_add_block_locals(g, locals) ==
    LET a == add_local(g, Head(locals).name, Head(locals).type)
        others == _add_block_locals(a, Tail(locals))
    IN  IF locals = <<>> THEN R(g, <<>>) ELSE R(others.g, <<LastSlot(a)>> \o others.a)

RECURSIVE _clear_block_locals(_, _)
_clear_block_locals(g, locals) ==
    IF locals = <<>> THEN g
    ELSE _clear_block_locals(IF CanContainObject(Head(locals).type)
                             THEN clear_address(g, Head(locals)) ELSE g, Tail(locals))

(* A block with locals of its own, in a function's body not cleared. *)
ParseBlock(g, suite, clear) ==
    LET a == _add_block_locals(start_block(clear_temporaries(g)), LocalsOf(suite))
        b == Statements(a.g, suite.statements, suite.in_loop)
    IN  end_block(IF clear THEN _clear_block_locals(b, a.a) ELSE b)

(* A block whose locals are there already, and are the caller's to clear. *)
ParseInner(g, suite) ==
    end_block(Statements(start_block(clear_temporaries(g)), suite.statements, suite.in_loop))
ParseLoop(g, suite, loop) ==
    LET a == _add_block_locals(g, LocalsOf(suite))
        b == ParseInner(a.g, suite)
        c == IF loop = "while" THEN write_endwhile(b) ELSE write_endfor(b, loop = "range")
    IN  end_block(_clear_block_locals(c, a.a))

RECURSIVE AnyOf(_, _, _, _, _, _)
AnyOf(g, patterns, value, type, result, first) ==
    IF patterns = <<>> THEN g
    ELSE AnyOf(parse_match_pattern(g, Head(patterns), value, type, result, first, FALSE),
               Tail(patterns), value, type, result, FALSE)

ParseBranch(g, n, value, type) ==
    LET binds == Binds(n.patterns[1])
        locals == _add_block_locals(start_block(g), binds \o LocalsOf(n.block))
        result == Temporary(write_newline(locals.g), "variant")
        tested == AnyOf(result.g, n.patterns, value, type, result.a, TRUE)
        guard == parse_expression(write_and_left_operand(tested, result.a), n.guard, FALSE)
        guarded == PoppedIf(write_end_and(write_and_right_operand(guard.g, guard.a), result.a), guard.a)
        a == write_if(IF n.guard = Absent THEN tested ELSE guarded, result.a)
    IN  end_block(_clear_block_locals(ParseInner(pop_temporary(a), n.block), locals.a))

(* Each branch is in the else of those before it. *)
Branches(g, branches, value, type) ==
    LET a == ParseBranch(g, Head(branches), value, type)
    IN  IF branches = <<>> THEN g
        ELSE IF Len(branches) = 1 THEN write_endif(a)
        ELSE write_endif(Branches(write_else(a), Tail(branches), value, type))

ParseMatch(g, n) ==
    LET a == add_local(start_block(g), "@match_value", TypeOf(n.test))
        value == LastSlot(a)
        test == parse_expression(a, n.test, FALSE)
        b == PoppedIf(write_assign(test.g, value, test.a), test.a)
        c == add_local(b, "@match_type", "int")
    IN  end_block(Branches(Typeof(c, LastSlot(c), value), n.branches, value, LastSlot(c)))

ParseIf(g, n) ==
    LET condition == parse_expression(g, n.condition, FALSE)
        a == ParseBlock(PoppedIf(write_if(condition.g, condition.a), condition.a), n.true_block, TRUE)
    IN  write_endif(IF n.false_block = Absent THEN a ELSE ParseBlock(write_else(a), n.false_block, TRUE))

IsRange(e) == e.type = "call" /\ e.callee.type = "identifier" /\ e.callee.name = "range"
ParseFor(g, n) ==
    LET range == IsRange(n.list)
        a == add_local(start_block(g), n.variable, _gdtype_from_datatype(n.variable_type))
        iterator == LastSlot(a)
        b == start_for(a, iterator.type, TypeOf(n.list), range)
        args == ParseEach(b, n.list.arguments)
        zero == ConstantAt(Number(0))
        one == ConstantAt(Number(1))
        ranged == CASE Len(args.a) = 1 -> write_for_range_assignment(args.g, zero, args.a[1], one)
                    [] Len(args.a) = 2 -> write_for_range_assignment(args.g, args.a[1], args.a[2], one)
                    [] OTHER -> write_for_range_assignment(args.g, args.a[1], args.a[2], args.a[3])
        list == parse_expression(b, n.list, FALSE)
        c == IF range THEN PopEach(ranged, args.a)
             ELSE PoppedIf(write_for_list_assignment(list.g, list.a), list.a)
    IN  ParseLoop(write_for(c, iterator, n.use_conversion_assign, range), n.loop,
                  IF range THEN "range" ELSE "list")

ParseWhile(g, n) ==
    LET condition == parse_expression(start_while_condition(start_block(g)), n.condition, FALSE)
        a == PoppedIf(write_while(condition.g, condition.a), condition.a)
    IN  ParseLoop(a, n.loop, "while")

(* Without an initializer: the default of its type; null, if the slot may
   have another value or if the block runs again. *)
ParseVariable(g, n, in_loop) ==
    LET local == AddressOf(g, n.name)
        value == parse_expression(g, n.initializer, FALSE)
        cleared == HasBuiltinType(local) \/ is_local_dirty(g, local) \/ in_loop
    IN  CASE n.initializer # Absent -> PoppedIf(WriteTo(value.g, n.use_conversion_assign, local, value.a), value.a)
          [] n.initializer = Absent /\ cleared -> clear_address(g, local)
          [] OTHER -> g

add_local_constant(g, name, value) ==
    [g EXCEPT !.names = Append(@, [name |-> name, address |-> ConstantAt(value)])]

ParseReturn(g, n) ==
    LET value == parse_expression(g, n.return_value, FALSE)
        returned == IF n.void_return THEN ConstantAt(Nil) ELSE value.a
    IN  IF n.return_value = Absent THEN write_return(g, NoAddress)
        ELSE PoppedIf(write_return(value.g, returned), value.a)
ParseAssert(g, n) ==
    LET condition == parse_expression(g, n.condition, FALSE)
    IN  PoppedIf(write_assert(condition.g, condition.a), condition.a)
ParseRoot(g, n) ==
    LET value == parse_expression(g, n, TRUE) IN PoppedIf(value.g, value.a)

ParseStatement(g, n, in_loop) ==
    CASE n.type = "match" -> ParseMatch(g, n)
      [] n.type = "if" -> ParseIf(g, n)
      [] n.type = "for" -> ParseFor(g, n)
      [] n.type = "while" -> ParseWhile(g, n)
      [] n.type = "break" -> write_break(g)
      [] n.type = "continue" -> write_continue(g)
      [] n.type = "return" -> ParseReturn(g, n)
      [] n.type = "assert" -> ParseAssert(g, n)
      [] n.type = "variable" -> ParseVariable(g, n, in_loop)
      [] n.type = "constant" -> add_local_constant(g, n.name, n.initializer.value)
      [] n.type \in {"pass", "breakpoint"} -> g
      [] OTHER -> ParseRoot(g, n)

Statements(g, statements, in_loop) ==
    IF statements = <<>> THEN g
    ELSE Statements(clear_temporaries(ParseStatement(write_newline(g), Head(statements), in_loop)),
                    Tail(statements), in_loop)

(***************************************************************************)
(* Functions.                                                              *)
(***************************************************************************)
RECURSIVE AddParameters(_, _), ParseDefaults(_, _)
AddParameters(g, parameters) ==
    IF parameters = <<>> THEN g
    ELSE LET parameter == Head(parameters)
         IN  AddParameters(add_parameter(g, parameter.name, parameter.default # Absent, TypeOf(parameter)),
                           Tail(parameters))
ParseDefaults(g, parameters) ==
    LET parameter == Head(parameters)
        value == parse_expression(g, parameter.default, FALSE)
        a == write_assign_default_parameter(value.g, AddressOf(g, parameter.name), value.a,
                                            parameter.use_conversion_assign)
    IN  IF parameters = <<>> THEN g
        ELSE IF parameter.default = Absent THEN ParseDefaults(g, Tail(parameters))
        ELSE ParseDefaults(PoppedIf(a, value.a), Tail(parameters))

Started(script, name, static, type) ==
    [script |-> script, function_name |-> name, is_static |-> static, error |-> FALSE] @@ write_start(type)
parse_function(script, name, n) ==
    LET start == Started(script, name, n.static, _gdtype_from_datatype(n.returns))
        a == start_parameters(AddParameters(start, n.parameters))
        b == ParseBlock(end_parameters(ParseDefaults(a, n.parameters)), n.body, FALSE)
    IN  [error |-> b.error] @@ write_end(b)

(* The variables of an instance when it is made: first those of a type get
   its default, then each its value; and the static ones. *)
RECURSIVE WriteDefaults(_, _), WriteInitializers(_, _)
WriteDefaults(g, variables) ==
    IF variables = <<>> THEN g
    ELSE LET n == Head(variables)
             type == TypeOf(n)
             member == MemberAt(g.script.member_indices[n.name], type)
             temp == Temporary(write_newline(g), type)
             made == write_construct(temp.g, temp.a, type, <<>>)
         IN  WriteDefaults(
                CASE type = "variant" -> g
                  [] type # "variant" /\ ~n.static -> write_construct(write_newline(g), member, type, <<>>)
                  [] OTHER -> pop_temporary(write_set_static_variable(
                                  made, temp.a, g.script.static_variables_indices[n.name].index)),
                Tail(variables))
WriteInitializers(g, variables) ==
    IF variables = <<>> THEN g
    ELSE LET n == Head(variables)
             value == parse_expression(write_newline(g), n.initializer, FALSE)
             member == MemberAt(g.script.member_indices[n.name], TypeOf(n))
             info == g.script.static_variables_indices[n.name]
             temp == Temporary(value.g, info.type)
             assigned == PoppedIf(WriteTo(temp.g, n.use_conversion_assign, temp.a, value.a), value.a)
         IN  WriteInitializers(
                IF n.initializer = Absent THEN g
                ELSE IF n.static THEN pop_temporary(write_set_static_variable(assigned, temp.a, info.index))
                ELSE PoppedIf(WriteTo(value.g, n.use_conversion_assign, member, value.a), value.a),
                Tail(variables))

Initializer(script, name, static, variables) ==
    WriteInitializers(WriteDefaults(Started(script, name, static, IF static THEN "null" ELSE "variant"),
                                    variables), variables)
(* The static ones', with the script's own function for it. *)
_make_static_initializer(script, variables, has_static_init) ==
    LET a == Initializer(script, "@static_initializer", TRUE, variables)
        b == write_call(write_newline(a), NoAddress, ClassAddress, "_static_init", <<>>)
    IN  write_end(IF has_static_init THEN b ELSE a)

(***************************************************************************)
(* The script.                                                             *)
(***************************************************************************)
AccessorName(n, accessor, kind) ==
    CASE accessor = Absent -> ""
      [] accessor # Absent /\ n.property = "inline" -> "@" \o n.name \o kind
      [] OTHER -> accessor.name
(* Where the variables are, and by which accessors others use them. *)
_prepare_compilation(variables) ==
    [name \in {variables[i].name : i \in DOMAIN variables} |->
        LET index == CHOOSE i \in DOMAIN variables : variables[i].name = name
            n == variables[index]
        IN  [index |-> index, type |-> TypeOf(n),
             setter |-> AccessorName(n, n.setter, "_setter"), getter |-> AccessorName(n, n.getter, "_getter")]]

Accessors(n) ==
    IF n.property # "inline" THEN <<>>
    ELSE SelectSeq(<<[name |-> "@" \o n.name \o "_setter", node |-> n.setter],
                     [name |-> "@" \o n.name \o "_getter", node |-> n.getter]>>,
                   LAMBDA accessor : accessor.node # Absent)
FunctionsOf(m) ==
    CASE m.type = "function" -> <<[name |-> m.name, node |-> m]>>
      [] m.type = "variable" -> Accessors(m)
      [] OTHER -> <<>>
compile(class) ==
    LET Named(m) == m.type \in {"constant", "enum_value"}
        constants == SelectSeq(class.members, Named)
        IsVariable(m) == m.type = "variable"
        variables == SelectSeq(class.members, IsVariable)
        own == SelectSeq(variables, LAMBDA n : ~n.static)
        static == SelectSeq(variables, LAMBDA n : n.static)
        script == [member_indices |-> _prepare_compilation(own),
                   static_variables_indices |-> _prepare_compilation(static), lambdas |-> class.lambdas]
        written == FlattenSeq([i \in DOMAIN class.members |-> FunctionsOf(class.members[i])])
        Written(name) == written[CHOOSE i \in DOMAIN written : written[i].name = name]
        functions == [name \in {written[i].name : i \in DOMAIN written} |->
                         parse_function(script, name, Written(name).node)]
        initializers ==
            "@implicit_new" :> write_end(Initializer(script, "@implicit_new", FALSE, own))
            @@ (IF static # <<>> \/ "_static_init" \in DOMAIN functions
                THEN "@static_initializer" :>
                         _make_static_initializer(script, static, "_static_init" \in DOMAIN functions)
                ELSE << >>)
        Lambda(name) == class.lambdas[CHOOSE k \in DOMAIN class.lambdas : FunctionOf(k) = name]
        lambdas == [name \in {FunctionOf(k) : k \in DOMAIN class.lambdas} |->
                       parse_function(script, "<anonymous lambda>", Lambda(name).node)]
        parsed == functions @@ lambdas
    IN  [script EXCEPT !.lambdas = <<>>] @@ [functions |-> parsed @@ initializers,
                   error |-> \E name \in DOMAIN parsed : parsed[name].error,
                   constants |-> [name \in {constants[i].name : i \in DOMAIN constants} |->
                       constants[CHOOSE i \in DOMAIN constants : constants[i].name = name].value]]
=============================================================================
