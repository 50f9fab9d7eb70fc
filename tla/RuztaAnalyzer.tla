----------------------------- MODULE RuztaAnalyzer -----------------------------
(***************************************************************************)
(* RuztaAnalyzer: the types of a script's expressions, the conversions     *)
(* its assignments take and the errors it is refused for.  Types are       *)
(* built-in ones, enum values being integers, and the class of the script; *)
(* typed arrays, constants that are arrays, inheritance, named enums,      *)
(* signals, functions as values and lambdas as defaults of a function's    *)
(* parameters are left out.  z is what analyzing goes by: the names in     *)
(* scope, the members of the class with what is known of them, the enum,   *)
(* whether self is there (static), the type to return and the lambda (0:   *)
(* none) where it is, all lambdas, those whose bodies are to come, and the *)
(* number of errors.  An operator that analyzes a node returns z and the   *)
(* node with what was found: [z, n].                                       *)
(***************************************************************************)
EXTENDS RuztaVariant, TLC

Absent == [type |-> "null"]
R(z, n) == [z |-> z, n |-> n]
push_error(z) == [z EXCEPT !.errors = @ + 1]
Unless(z, bad) == IF bad THEN push_error(z) ELSE z

(***************************************************************************)
(* Types.  A type stated or inferred (:=) is known for sure; one that a    *)
(* variable has from the value it was given holds until another is put in. *)
(***************************************************************************)
Of(type, source) == [type |-> type, source |-> source, constant |-> FALSE]
Variant == Of("variant", "undetected")
Unresolved == Of("unresolved", "undetected")
Hard(type) == Of(type, "annotated")
type_from_variant(v) == [Hard(v.t) EXCEPT !.constant = TRUE]

is_hard_type(d) == d.source = "annotated"
is_set(d) == d.type # "unresolved"
is_variant(d) == d.type \in {"variant", "unresolved"}
IsBuiltin(d) == ~is_variant(d) /\ d.type # "object"   \* object: the class of the script
Same(d, other) == ~is_hard_type(d) \/ ~is_hard_type(other) \/ d.type = other.type

TypeNames == "int" :> "int" @@ "bool" :> "bool" @@ "float" :> "float" @@ "Array" :> "array"
             @@ "Dictionary" :> "dictionary" @@ "Vector2" :> "vector" @@ "Callable" :> "callable" @@ "void" :> "null"
resolve_datatype(node) == Hard(TypeNames[node.chain[1]])

is_type_compatibleIfAny(target, source, implicit) ==     \* slip: a value of any type converts
    is_variant(target) \/ is_variant(source) \/ target.type = source.type \/ (IsBuiltin(target) /\ implicit)
is_type_compatibleIfExact(target, source, implicit) ==   \* slip: none does
    is_variant(target) \/ is_variant(source) \/ target.type = source.type \/ source.type = "null"
is_type_compatible(target, source, implicit) ==
    \/ is_variant(target) \/ is_variant(source)
    \/ target.type = source.type
    \/ IsBuiltin(target) /\ implicit /\ can_convert_strict(source.type, target.type)
    \/ target.type = "object" /\ source.type = "null"

get_operation_type(op, a, b) ==
    LET hard == is_hard_type(a) /\ is_hard_type(b)
        logic == op \in {"and", "or"}
        defined == IsDefined(op, a.type, b.type)
    IN  [valid |-> logic \/ defined \/ ~hard,
         type |-> IF logic THEN Hard("bool")
                  ELSE IF defined
                  THEN Of(ReturnType(op, a.type, b.type), IF hard THEN "annotated" ELSE "inferred")
                  ELSE Variant]

(***************************************************************************)
(* Names.  owner: the lambda one is declared in.                           *)
(***************************************************************************)
Declared(z, name, kind, datatype, value) ==
    [z EXCEPT !.env = (name :> [kind |-> kind, datatype |-> datatype, value |-> value, owner |-> z.lambda]) @@ @]
(* What is left of z when a block that began with outer ends. *)
Outside(z, outer) == [z EXCEPT !.env = [name \in DOMAIN outer.env |-> z.env[name]]]

(* What has been found meanwhile of the names of env that later knows too. *)
Updated(env, later) ==
    [name \in DOMAIN env |->
        IF name \in DOMAIN later /\ later[name].owner = env[name].owner THEN later[name] ELSE env[name]]

(* The type a variable was found to have no longer holds.  A static one
   keeps it. *)
downgrade_node_type_source(z, n) ==
    CASE n.type = "identifier" /\ n.source = "local" /\ z.env[n.name].kind = "variable" ->
            [z EXCEPT !.env[n.name].datatype = Variant]
      [] n.type \in {"identifier", "attribute"} /\ n.source = "member" ->
            [z EXCEPT !.members[n.name].datatype = Variant]
      [] OTHER -> z
DowngradedIf(z, n, condition) == IF condition THEN downgrade_node_type_source(z, n) ELSE z

(***************************************************************************)
(* Constants.                                                              *)
(***************************************************************************)
Reduced(e, datatype) == [datatype |-> datatype, is_constant |-> FALSE, value |-> Nil] @@ e
Constant1(e, v) == [datatype |-> type_from_variant(v), is_constant |-> TRUE, value |-> v] @@ e
AllConstant(nodes) == \A i \in DOMAIN nodes : nodes[i].is_constant
ValuesOf(nodes) == [i \in DOMAIN nodes |-> nodes[i].value]
LiteralOf(text) ==
    CASE text = "true" -> Bool(TRUE) [] text = "false" -> Bool(FALSE) [] text = "null" -> Nil
      [] OTHER -> Number(CHOOSE i \in -99..99 : ToString(i) = text)

(* A constant is converted to the type it is wanted as. *)
update_const_expression_builtin_type(z, e, type) ==
    LET value_type == type_from_variant(e.value)
        given == IF is_variant(e.datatype) THEN value_type ELSE e.datatype
        made == construct(<<>>, type.type, <<e.value>>)
    IN  IF Same(e.datatype, type) \/ ~IsBuiltin(type) THEN R(z, e)
        ELSE IF is_type_compatible(type, given, TRUE) /\ made.ok
        THEN R(z, [e EXCEPT !.datatype = type, !.value = made.v])
        ELSE R(push_error(z), e)

(***************************************************************************)
(* What lambdas take with them: values of the names outside of them, and   *)
(* the instance.  One takes what those within it do.                       *)
(***************************************************************************)
RECURSIVE Enclosing(_, _)
Enclosing(z, lambda) ==   \* itself first
    IF lambda = 0 THEN <<>> ELSE <<lambda>> \o Enclosing(z, z.lambdas[lambda].parent)

mark_lambda_use_selfIfInnermost(z) ==   \* a slip: those around it do without
    IF z.lambda = 0 THEN z ELSE [z EXCEPT !.lambdas[z.lambda].use_self = TRUE]
mark_lambda_use_self(z) ==
    LET enclosing == Enclosing(z, z.lambda)
    IN  [z EXCEPT !.lambdas =
            [k \in DOMAIN @ |-> [@[k] EXCEPT !.use_self = @ \/ \E j \in DOMAIN enclosing : enclosing[j] = k]]]
MarkedIf(z, uses_self) == IF uses_self THEN mark_lambda_use_self(z) ELSE z

(* Each lambda from here outwards, up to the one that declares the name or
   has it already, takes it. *)
Captured(z, n) ==
    LET enclosing == Enclosing(z, z.lambda)
        Has(k) == \E j \in DOMAIN z.lambdas[k].captures : z.lambdas[k].captures[j].name = n.name
        Stops(j) == enclosing[j] = z.env[n.name].owner \/ Has(enclosing[j])
        takes == {enclosing[j] : j \in {j \in DOMAIN enclosing : \A i \in 1..j : ~Stops(i)}}
    IN  [z EXCEPT !.lambdas =
            [k \in DOMAIN @ |-> IF k \in takes THEN [@[k] EXCEPT !.captures = Append(@, n)] ELSE @[k]]]

(***************************************************************************)
(* Expressions.                                                            *)
(***************************************************************************)
RECURSIVE reduce_expression(_, _, _), ReduceEach(_, _), ReduceEntries(_, _), resolve_class_member(_, _), reduce_lambda(_, _)
Reduce(z, e) == reduce_expression(z, e, FALSE)
ReduceEach(z, expressions) ==
    IF expressions = <<>> THEN R(z, <<>>)
    ELSE LET first == Reduce(z, Head(expressions))
             others == ReduceEach(first.z, Tail(expressions))
         IN  R(others.z, <<first.n>> \o others.n)

(* A local.  A name bound by a pattern may not be assigned to. *)
ReduceLocal(z, e) ==
    LET declared == z.env[e.name]
        found == CASE declared.kind = "constant" ->
                         [Constant1(e, declared.value) EXCEPT !.datatype = declared.datatype]
                   [] declared.kind = "variable" -> Reduced(e, declared.datatype)
                   [] declared.kind = "bind" -> Reduced(e, [declared.datatype EXCEPT !.constant = TRUE])
        n == [source |-> "local"] @@ found
    IN  R(IF declared.kind = "constant" THEN z ELSE Captured(z, n), n)

(* A member of the class, resolved first if it was not yet. *)
IsNamed(z, name, type) == name \in DOMAIN z.members /\ z.members[name].node.type = type
IsConstant(n) == n.type \in {"constant", "enum_value"}
reduce_identifier_from_base(z, e) ==
    LET a == resolve_class_member(z, e.name)
        member == a.members[e.name]
    IN  CASE IsConstant(member.node) ->
                R(a, [source |-> "constant", datatype |-> member.datatype] @@ Constant1(e, member.value))
          [] member.node.type = "variable" ->
                R(a, [source |-> IF member.node.static THEN "static" ELSE "member"]
                     @@ Reduced(e, member.datatype))
          [] OTHER -> R(a, [source |-> "function"] @@ Reduced(e, Variant))

(* In an enum its own values come first, and only those before are known.
   Without an instance there are no variables of one. *)
reduce_identifier(z, e) ==
    LET found == reduce_identifier_from_base(z, e)
        unknown == R(push_error(z), [source |-> "none"] @@ Reduced(e, Variant))
    IN  IF e.name \in z.enum /\ z.members[e.name].state # "resolved" THEN unknown
        ELSE IF e.name \in DOMAIN z.env THEN ReduceLocal(z, e)
        ELSE IF e.name \notin DOMAIN z.members THEN unknown
        ELSE R(MarkedIf(Unless(found.z, z.static /\ found.n.source = "member"), found.n.source = "member"), found.n)

reduce_array(z, e) ==
    LET r == ReduceEach(z, e.elements)
    IN  R(r.z, Reduced([e EXCEPT !.elements = r.n], [Hard("array") EXCEPT !.constant = TRUE]))

ReduceEntries(z, entries) ==
    IF entries = <<>> THEN R(z, <<>>)
    ELSE LET key == Reduce(z, Head(entries).key)
             value == Reduce(key.z, Head(entries).value)
             others == ReduceEntries(value.z, Tail(entries))
         IN  R(others.z, <<[Head(entries) EXCEPT !.key = key.n, !.value = value.n]>> \o others.n)
(* A constant may be a key once. *)
reduce_dictionary(z, e) ==
    LET r == ReduceEntries(z, e.entries)
        Key(i) == r.n[i].key
        Again(i) == Key(i).is_constant
                    /\ \E j \in 1..(i - 1) : Key(j).is_constant /\ Key(j).value = Key(i).value
    IN  R(Unless(r.z, \E i \in DOMAIN r.n : Again(i)),
          Reduced([e EXCEPT !.entries = r.n], [Hard("dictionary") EXCEPT !.constant = TRUE]))

reduce_unary_op(z, e) ==
    LET r == Reduce(z, e.operand)
        op == IF e.op = "-" THEN "negate" ELSE e.op
        operation == get_operation_type(op, r.n.datatype, Hard("null"))
        open == is_variant(r.n.datatype)
        reduced == Reduced([e EXCEPT !.operand = r.n], IF open THEN Variant ELSE operation.type)
    IN  R(Unless(r.z, ~open /\ ~operation.valid),
          IF r.n.is_constant
          THEN [reduced EXCEPT !.is_constant = TRUE, !.value = evaluate(<<>>, op, r.n.value, Nil).v]
          ELSE reduced)

(* One with null is a bool whatever the other operand is. *)
reduce_binary_op(z, e) ==
    LET left == Reduce(z, e.left)
        right == Reduce(left.z, e.right)
        node == [e EXCEPT !.left = left.n, !.right = right.n]
        types == {left.n.datatype, right.n.datatype}
        did == evaluate(<<>>, e.op, left.n.value, right.n.value)
        operation == get_operation_type(e.op, left.n.datatype, right.n.datatype)
    IN  IF left.n.is_constant /\ right.n.is_constant
        THEN R(Unless(right.z, ~did.ok), Constant1(node, did.v))
        ELSE IF e.op \in {"==", "!="} /\ \E type \in types : type.type = "null"
        THEN R(right.z, Reduced(node, Hard("bool")))
        ELSE IF \E type \in types : is_variant(type) THEN R(right.z, Reduced(node, Variant))
        ELSE R(Unless(right.z, ~operation.valid), Reduced(node, operation.type))

reduce_ternary_op(z, e, root) ==
    LET condition == Reduce(z, e.condition)
        yes == reduce_expression(condition.z, e.true_expr, root)
        no == reduce_expression(yes.z, e.false_expr, root)
        node == [e EXCEPT !.condition = condition.n, !.true_expr = yes.n, !.false_expr = no.n]
        true_type == yes.n.datatype
        false_type == no.n.datatype
        hard == is_hard_type(true_type) /\ is_hard_type(false_type)
        type == IF is_variant(true_type) \/ is_variant(false_type) THEN "variant"
                ELSE IF is_type_compatible(true_type, false_type, FALSE) THEN true_type.type
                ELSE IF is_type_compatible(false_type, true_type, FALSE) THEN false_type.type
                ELSE "variant"
        reduced == Reduced(node, Of(type, IF hard THEN "annotated" ELSE "inferred"))
        chosen == IF booleanize(<<>>, condition.n.value) THEN yes.n ELSE no.n
    IN  R(no.z, IF AllConstant(<<condition.n, yes.n, no.n>>)
                THEN [reduced EXCEPT !.is_constant = TRUE, !.value = chosen.value] ELSE reduced)

(* A test that cannot be true is an error, if the types are sure. *)
reduce_type_test(z, e) ==
    LET r == Reduce(z, e.operand)
        type == r.n.datatype
        test_type == resolve_datatype(e.test_type)
        node == Reduced([test_datatype |-> test_type] @@ [e EXCEPT !.operand = r.n], Hard("bool"))
        possible == is_type_compatible(test_type, type, FALSE)
        either == possible \/ is_type_compatible(type, test_type, FALSE)
    IN  IF r.n.is_constant
        THEN R(Unless(r.z, ~possible),
               [node EXCEPT !.is_constant = TRUE,
                            !.value = Bool(is_type_compatible(test_type, type_from_variant(r.n.value), FALSE))])
        ELSE IF either THEN R(r.z, node)
        ELSE R(IF is_hard_type(type) THEN push_error(r.z) ELSE downgrade_node_type_source(r.z, r.n), node)

reduce_cast(z, e) ==
    LET r == Reduce(z, e.operand)
        type == resolve_datatype(e.cast_type)
        operand == IF r.n.is_constant THEN update_const_expression_builtin_type(r.z, r.n, type) ELSE r
        given == operand.n.datatype
        node == Reduced([e EXCEPT !.operand = operand.n], type)
        bad == is_hard_type(given) /\ ~is_variant(given)
               /\ given.type # type.type /\ ~can_convert_strict(given.type, type.type)
    IN  R(Unless(operand.z, bad),
          IF operand.n.is_constant /\ Same(given, type)
          THEN [node EXCEPT !.is_constant = TRUE, !.value = operand.n.value] ELSE node)

(***************************************************************************)
(* Calls.  A signature: the types of the parameters, how many of them have *)
(* defaults, whether more may follow, and the type of the result.          *)
(***************************************************************************)
Signature(parameters, defaults, vararg, returns) ==
    [parameters |-> parameters, defaults |-> defaults, vararg |-> vararg, returns |-> returns]
VariantUtilities == "typeof" :> Signature(<<Variant>>, 0, FALSE, Hard("int"))
                    @@ "print" :> Signature(<<>>, 0, TRUE, Hard("null"))
RuztaUtilities == "len" :> Signature(<<Variant>>, 0, FALSE, Hard("int"))
                  @@ "range" :> Signature(<<>>, 0, TRUE, Hard("array"))
Utilities == VariantUtilities @@ RuztaUtilities

(* Given where parameters of the types are. *)
RECURSIVE PassEach(_, _, _)
PassEach(z, arguments, parameters) ==
    LET argument == Head(arguments)
        parameter == Head(parameters)
        passed == IF is_hard_type(parameter) /\ argument.is_constant
                  THEN update_const_expression_builtin_type(z, argument, parameter) ELSE R(z, argument)
        given == passed.n.datatype
        bad == /\ is_hard_type(given) /\ is_hard_type(parameter)
               /\ ~is_type_compatible(parameter, given, TRUE) /\ ~is_type_compatible(given, parameter, FALSE)
        others == PassEach(Unless(passed.z, bad), Tail(arguments), Tail(parameters))
    IN  IF arguments = <<>> \/ parameters = <<>> THEN R(z, arguments)
        ELSE R(others.z, <<passed.n>> \o others.n)
validate_call_arg(z, arguments, signature) ==
    LET count == Len(arguments)
        wanted == Len(signature.parameters)
        bad == count < wanted - signature.defaults \/ (~signature.vararg /\ count > wanted)
    IN  PassEach(Unless(z, bad), arguments, signature.parameters)

(* The result of a function that has none may only be ignored. *)
Called(z, e, signature, root) ==
    LET r == validate_call_arg(z, e.arguments, signature)
        unusable == ~root /\ signature.returns = Hard("null")
    IN  R(Unless(r.z, unusable), Reduced([e EXCEPT !.arguments = r.n], signature.returns))

(* A function of the script; only static ones are there without an
   instance.  One whose own signature is being resolved is an error. *)
CalledFunction(z, e, name, is_self, root) ==
    LET a == resolve_class_member(z, name)
        member == a.members[name]
        static == member.node.static
    IN  Called(MarkedIf(Unless(a, is_self /\ z.static /\ ~static), is_self /\ ~static /\ ~z.static),
               [e EXCEPT !.is_static = static], member.signature, root)

ReduceConstructor(z, e, type) ==
    LET arguments == e.arguments
        made == construct(<<>>, type, ValuesOf(arguments))
        given == [i \in DOMAIN arguments |-> arguments[i].datatype]
        Fits(parameters) == /\ Len(parameters) = Len(arguments)
                            /\ \A i \in DOMAIN given : is_type_compatible(Hard(parameters[i]), given[i], TRUE)
        fitting == {parameters \in Constructors(type) : Fits(parameters)}
        parameters == CHOOSE p \in fitting : TRUE
        passed == PassEach(z, arguments, [i \in DOMAIN parameters |-> Hard(parameters[i])])
        open == Len(arguments) = 1 /\ (is_variant(given[1]) \/ ~is_hard_type(given[1]))
    IN  IF AllConstant(arguments) /\ type \notin {"array", "dictionary"}
        THEN (IF made.ok THEN R(z, [Constant1(e, made.v) EXCEPT !.datatype = Hard(type)])
              ELSE R(push_error(z), Reduced(e, Hard(type))))
        ELSE IF open THEN R(z, Reduced(e, Hard(type)))
        ELSE IF fitting = {} THEN R(push_error(z), Reduced(e, Hard(type)))
        ELSE IF Len(arguments) = 1 THEN R(z, Reduced(e, Hard(type)))
        ELSE R(passed.z, Reduced([e EXCEPT !.arguments = passed.n], Hard(type)))

(* A method of a value of a known type; of others nothing is known. *)
ReduceMethod(z, e, root) ==
    LET name == e.callee.name
        base == Reduce(z, e.callee.base)
        node == [e EXCEPT !.callee.base = base.n]
        type == base.n.datatype
        method == Method(type.type, name)
        signature == Signature([i \in DOMAIN method.arguments |-> Variant], 0, method.vararg, Hard(method.returns))
        missing == \/ base.n.type = "self" \/ (IsBuiltin(type) /\ is_hard_type(type))
                   \/ MemberType(type.type, name) # "variant"
    IN  IF type.type = "object" /\ IsNamed(z, name, "function")
        THEN CalledFunction(base.z, node, name, base.n.type = "self", root)
        ELSE IF method.found THEN Called(base.z, node, signature, root)
        ELSE R(Unless(base.z, missing), Reduced(node, Variant))

(* The base of a method comes after the arguments. *)
reduce_call(z, e, root) ==
    LET arguments == ReduceEach(z, e.arguments)
        node == [is_static |-> FALSE] @@ [e EXCEPT !.arguments = arguments.n]
        name == e.callee.name
    IN  IF e.callee.type = "attribute" THEN ReduceMethod(arguments.z, node, root)
        ELSE IF name \in DOMAIN TypeNames \ {"void"} THEN ReduceConstructor(arguments.z, node, TypeNames[name])
        ELSE IF name \in DOMAIN Utilities
        THEN LET constant == name = "len" /\ AllConstant(arguments.n)   \* of no array: it fails
             IN  Called(Unless(arguments.z, constant), node, Utilities[name], root)
        ELSE IF IsNamed(z, name, "function") THEN CalledFunction(arguments.z, node, name, TRUE, root)
        ELSE R(push_error(arguments.z), Reduced(node, Variant))

(***************************************************************************)
(* Members and elements.                                                   *)
(***************************************************************************)
ReduceAttribute(z, e) ==   \* its base is reduced
    LET type == e.base.datatype
        got == get_named(<<>>, e.base.value, e.name)
        member == MemberType(type.type, e.name)
        missing == IsBuiltin(type) /\ type.type # "dictionary" /\ member = "variant"
    IN  IF e.base.is_constant /\ got.ok THEN R(z, [source |-> "none"] @@ Constant1(e, got.v))
        ELSE IF type.type = "object" /\ is_hard_type(type) /\ e.name \in DOMAIN z.members
        THEN reduce_identifier_from_base(z, e)
        ELSE IF is_variant(type) \/ ~is_hard_type(type) THEN R(z, [source |-> "none"] @@ Reduced(e, Variant))
        ELSE R(Unless(z, missing), [source |-> "none"] @@ Reduced(e, IF member = "variant" THEN Variant ELSE Hard(member)))

ReduceIndex(z, e) ==   \* its base and index are reduced
    LET type == e.base.datatype
        index == e.index.datatype
        got == get_keyed(<<>>, e.base.value, e.index.value)
        bad == ~is_variant(index) /\ (CASE type.type = "array" -> index.type \notin Numeric
                                         [] type.type = "vector" -> index.type \notin Numeric
                                         [] type.type = "object" -> TRUE
                                         [] OTHER -> FALSE)
        none == type.type \in Scalar \cup {"null"}
    IN  IF e.base.is_constant /\ e.index.is_constant
        THEN (IF got.ok THEN R(z, Constant1(e, got.v)) ELSE R(push_error(z), Reduced(e, Variant)))
        ELSE IF is_variant(type) THEN R(z, Reduced(e, Variant))
        ELSE R(Unless(z, bad \/ none),
               Reduced(e, IF type.type = "vector" THEN Of("float", IF is_hard_type(type) THEN "annotated" ELSE "inferred")
                          ELSE Variant))

reduce_subscript(z, e) ==
    LET base == Reduce(z, e.base)
        index == Reduce(base.z, e.index)
    IN  IF e.type = "attribute" THEN ReduceAttribute(base.z, [e EXCEPT !.base = base.n])
        ELSE ReduceIndex(index.z, [e EXCEPT !.base = base.n, !.index = index.n])

(***************************************************************************)
(* Assignments.  What a variable of a sure type takes is converted if its  *)
(* own type is not sure.  A variable whose type is not sure gives it up    *)
(* when a value of another type is put in.                                 *)
(***************************************************************************)
Operator(op) ==
    CASE op = "+=" -> "+" [] op = "-=" -> "-" [] op = "*=" -> "*" [] op = "/=" -> "/" [] op = "%=" -> "%"
IsFixed(assignee) ==
    \/ assignee.datatype.constant
    \/ assignee.type \in {"subscript", "attribute"} /\ assignee.base.is_constant

(* What is assigned, its operation done. *)
AssignedType(e, assignee, assigned) ==
    IF e.op # "=" /\ ~is_variant(assigned) THEN get_operation_type(Operator(e.op), assignee, assigned)
    ELSE [valid |-> TRUE, type |-> assigned]

ReduceAssignmentOf(z, e) ==   \* its parts are reduced
    LET assignee == e.assignee.datatype
        assigned == e.assigned.datatype
        op == AssignedType(e, assignee, assigned)
        operation == e.op # "=" /\ ~is_variant(assigned)
        sure == is_hard_type(assignee)
        unknown == sure /\ ~is_hard_type(assigned)
        fits == is_type_compatible(assignee, op.type, sure)
        back == is_type_compatible(op.type, assignee, FALSE)
        undetected == operation /\ op.valid /\ op.type.source = "undetected"
        converts == sure /\ (unknown \/ (op.valid /\ (is_variant(op.type) \/ (~fits /\ back))))
        refused == \/ operation /\ ~op.valid
                   \/ sure /\ ~unknown /\ op.valid /\ ~fits /\ ~back
        loosened == ~sure /\ (undetected \/ (op.valid /\ (is_variant(op.type) \/ ~fits)))
        misled == ~is_hard_type(assigned)
                  /\ (undetected \/ (unknown /\ ~is_variant(assigned) /\ ~fits))
        checked == DowngradedIf(DowngradedIf(Unless(z, refused), e.assignee, loosened), e.assigned, misled)
        open == is_variant(assignee)
    IN  R(IF open THEN z ELSE checked,
          [use_conversion_assign |-> ~open /\ converts] @@ Reduced(e, op.type))

reduce_assignment(z, e) ==
    LET assigned == Reduce(z, e.assigned)
        assignee == Reduce(assigned.z, e.assignee)
        exact == e.op = "=" /\ is_hard_type(assignee.n.datatype) /\ assigned.n.is_constant
        value == IF exact
                 THEN update_const_expression_builtin_type(assignee.z, assigned.n, assignee.n.datatype)
                 ELSE R(assignee.z, assigned.n)
    IN  IF IsFixed(assignee.n) THEN R(push_error(assignee.z), e)
        ELSE ReduceAssignmentOf(value.z, [e EXCEPT !.assignee = assignee.n, !.assigned = value.n])

reduce_expression(z, e, root) ==
    CASE e.type = "literal" -> R(z, Constant1(e, LiteralOf(e.text)))
      [] e.type = "identifier" -> reduce_identifier(z, e)
      [] e.type = "self" -> R(mark_lambda_use_self(z), Reduced(e, Hard("object")))
      [] e.type = "lambda" -> reduce_lambda(z, e.function)
      [] e.type = "array" -> reduce_array(z, e)
      [] e.type = "dictionary" -> reduce_dictionary(z, e)
      [] e.type = "unary" -> reduce_unary_op(z, e)
      [] e.type = "binary" -> reduce_binary_op(z, e)
      [] e.type = "ternary" -> reduce_ternary_op(z, e, root)
      [] e.type = "is" -> reduce_type_test(z, e)
      [] e.type = "cast" -> reduce_cast(z, e)
      [] e.type = "call" -> reduce_call(z, e, root)
      [] e.type \in {"subscript", "attribute"} -> reduce_subscript(z, e)
      [] e.type = "assignment" -> reduce_assignment(z, e)

(***************************************************************************)
(* Declarations: of a variable, a constant or a parameter.                 *)
(***************************************************************************)
(* The type of one without a type of its own: that of its value, which a
   variable set to null does not keep. *)
TypeOfValue(n, type, constant) ==
    LET none == type = Hard("null") \/ type = [Hard("null") EXCEPT !.constant = TRUE]
    IN  [type EXCEPT !.type = IF @ = "unresolved" \/ (none /\ ~constant) THEN "variant" ELSE @,
                     !.source = IF n.infer \/ constant THEN "annotated" ELSE "inferred"]

(* The value, its type and whether it is to be converted. *)
resolve_assignable(z, n, initializer, constant) ==
    LET typed == n.specifier # Absent
        specified == resolve_datatype(n.specifier)
        r == Reduce(z, initializer)
        value == IF typed /\ r.n.is_constant
                 THEN update_const_expression_builtin_type(r.z, r.n, specified) ELSE r
        type == value.n.datatype
        unknown == is_variant(type) \/ ~is_hard_type(type)
        fits == is_type_compatible(specified, type, TRUE)
        back == ~constant /\ is_type_compatible(type, specified, FALSE)
        inferable == is_hard_type(type) /\ (constant \/ type.type # "null")
        bad == \/ constant /\ ~r.n.is_constant
               \/ n.infer /\ ~inferable
               \/ typed /\ ~unknown /\ ~fits /\ ~back
        Found(z1, node, conversion, datatype) ==
            [z |-> z1, n |-> node, conversion |-> conversion,
             datatype |-> [datatype EXCEPT !.constant = constant]]
    IN  IF initializer = Absent THEN Found(z, Absent, FALSE, IF typed THEN specified ELSE Variant)
        ELSE IF ~typed THEN Found(Unless(value.z, bad), value.n, FALSE, TypeOfValue(n, type, constant))
        ELSE Found(DowngradedIf(Unless(value.z, bad), value.n, unknown /\ ~fits), value.n,
                   unknown \/ (~fits /\ back), specified)

resolve_variable(z, n) ==
    LET found == resolve_assignable(z, n, n.initializer, FALSE)
    IN  R(found.z, [datatype |-> found.datatype, use_conversion_assign |-> found.conversion]
                   @@ [n EXCEPT !.initializer = found.n])
resolve_constant(z, n) ==
    LET found == resolve_assignable(z, n, n.initializer, TRUE)
    IN  R(found.z, [datatype |-> found.datatype, value |-> found.n.value] @@ [n EXCEPT !.initializer = found.n])
resolve_parameter(z, n) ==
    LET found == resolve_assignable(z, n, n.default, FALSE)
    IN  R(Declared(found.z, n.name, "variable", found.datatype, Nil),
          [datatype |-> found.datatype, use_conversion_assign |-> found.conversion]
          @@ [n EXCEPT !.default = found.n])

(* In a block they have their names from there on. *)
LocalVariable(z, n) ==
    LET r == resolve_variable(z, n) IN R(Declared(r.z, n.name, "variable", r.n.datatype, Nil), r.n)
LocalConstant(z, n) ==
    LET r == resolve_constant(z, n) IN R(Declared(r.z, n.name, "constant", r.n.datatype, r.n.value), r.n)

(***************************************************************************)
(* Patterns.                                                               *)
(***************************************************************************)
RECURSIVE resolve_match_pattern(_, _, _), PatternEach(_, _), PatternEntries(_, _), IsPath(_)
IsPath(e) == IF e.type = "attribute" THEN IsPath(e.base) ELSE e.type = "identifier"
PatternEach(z, patterns) ==
    IF patterns = <<>> THEN R(z, <<>>)
    ELSE LET first == resolve_match_pattern(z, Head(patterns), Variant)
             others == PatternEach(first.z, Tail(patterns))
         IN  R(others.z, <<first.n>> \o others.n)
PatternEntries(z, entries) ==
    IF entries = <<>> THEN R(z, <<>>)
    ELSE LET entry == Head(entries)
             key == IF entry.key = Absent THEN R(z, Absent) ELSE Reduce(z, entry.key)
             checked == Unless(key.z, entry.key # Absent /\ ~key.n.is_constant)
             value == IF entry.value = Absent THEN R(checked, Absent)
                      ELSE resolve_match_pattern(checked, entry.value, Variant)
             others == PatternEntries(value.z, Tail(entries))
         IN  R(others.z, <<[entry EXCEPT !.key = key.n, !.value = value.n]>> \o others.n)

(* type: of what is matched, Variant within another pattern. *)
resolve_match_pattern(z, n, type) ==
    CASE n.kind = "bind" -> R(Declared(z, n.bind, "bind", type, Nil), [datatype |-> type] @@ n)
      [] n.kind \in {"wildcard", "rest"} -> R(z, n)
      [] n.kind = "expression" ->
            LET r == Reduce(z, n.expression)
            IN  R(Unless(r.z, ~r.n.is_constant /\ ~IsPath(r.n)), [n EXCEPT !.expression = r.n])
      [] n.kind = "array" ->
            LET r == PatternEach(z, n.array) IN R(r.z, [n EXCEPT !.array = r.n])
      [] n.kind = "dictionary" ->
            LET r == PatternEntries(z, n.dictionary) IN R(r.z, [n EXCEPT !.dictionary = r.n])

RECURSIVE TopPatterns(_, _, _)
TopPatterns(z, patterns, type) ==
    IF patterns = <<>> THEN R(z, <<>>)
    ELSE LET first == resolve_match_pattern(z, Head(patterns), type)
             others == TopPatterns(first.z, Tail(patterns), type)
         IN  R(others.z, <<first.n>> \o others.n)

(***************************************************************************)
(* Statements.                                                             *)
(***************************************************************************)
RECURSIVE resolve_suite(_, _), resolve_node(_, _), ResolveEach(_, _), BranchEach(_, _, _), resolve_pending_lambda_bodies(_)

(* A block has the type of its last statement that may return. *)
decide_suite_type(statements) ==
    LET Decides(n) == n.type \in {"if", "for", "match", "return", "while"}
        deciding == SelectSeq(statements, Decides)
    IN  IF deciding = <<>> THEN Unresolved ELSE [Last(deciding).datatype EXCEPT !.source = "inferred"]
ResolveEach(z, statements) ==
    IF statements = <<>> THEN R(z, <<>>)
    ELSE LET first == resolve_node(z, Head(statements))
             others == ResolveEach(resolve_pending_lambda_bodies(first.z), Tail(statements))
         IN  R(others.z, <<first.n>> \o others.n)
resolve_suite(z, suite) ==
    LET r == ResolveEach(z, suite.statements)
    IN  R(Outside(r.z, z),
          [datatype |-> decide_suite_type(r.n)] @@ [suite EXCEPT !.statements = r.n])

resolve_if(z, n) ==
    LET condition == Reduce(z, n.condition)
        yes == resolve_suite(condition.z, n.true_block)
        no == IF n.false_block = Absent THEN R(yes.z, Absent) ELSE resolve_suite(yes.z, n.false_block)
    IN  R(no.z, [datatype |-> yes.n.datatype]
                @@ [n EXCEPT !.condition = condition.n, !.true_block = yes.n, !.false_block = no.n])

IsRange(e) == e.type = "call" /\ e.callee.type = "identifier" /\ e.callee.name = "range"
ElementType(list) ==
    LET type == list.datatype
    IN  IF IsRange(list) THEN Hard("int")
        ELSE IF type.type \in Numeric THEN Of(type.type, type.source)
        ELSE IF type.type = "vector" THEN Of("float", type.source)
        ELSE Variant
IsIterableType(list) ==
    LET type == list.datatype
    IN  \/ IF IsRange(list) THEN Len(list.arguments) \in 1..3 ELSE FALSE
        \/ is_variant(type) \/ ~is_hard_type(type)
        \/ ~IsRange(list) /\ type.type \in Numeric \cup {"vector", "array", "dictionary"}

(* The elements are converted to the type the variable was given. *)
resolve_for(z, n) ==
    LET list == Reduce(z, n.list)
        typed == n.specifier # Absent
        specified == resolve_datatype(n.specifier)
        type == ElementType(list.n)
        unknown == is_variant(type) \/ ~is_hard_type(type)
        fits == is_type_compatible(specified, type, TRUE)
        exact == is_type_compatible(specified, type, FALSE)
        back == is_type_compatible(type, specified, FALSE)
        bad == ~IsIterableType(list.n) \/ (typed /\ ~unknown /\ ~fits /\ ~back)
        variable == IF typed THEN specified ELSE type
        inside == Declared(Unless(list.z, bad), n.variable, "variable", variable, Nil)
        loop == resolve_suite(inside, n.loop)
    IN  R(Outside(loop.z, z),
          [datatype |-> loop.n.datatype, variable_type |-> variable,
           use_conversion_assign |-> typed /\ (unknown \/ ~fits \/ ~exact)]
          @@ [n EXCEPT !.list = list.n, !.loop = loop.n])

resolve_while(z, n) ==
    LET condition == Reduce(z, n.condition)
        loop == resolve_suite(condition.z, n.loop)
    IN  R(loop.z, [datatype |-> loop.n.datatype] @@ [n EXCEPT !.condition = condition.n, !.loop = loop.n])

BranchEach(z, branches, type) ==
    IF branches = <<>> THEN R(z, <<>>)
    ELSE LET branch == Head(branches)
             patterns == TopPatterns(z, branch.patterns, type)
             guard == IF branch.guard = Absent THEN R(patterns.z, Absent) ELSE Reduce(patterns.z, branch.guard)
             block == resolve_suite(guard.z, branch.block)
             others == BranchEach(Outside(block.z, z), Tail(branches), type)
         IN  R(others.z, <<[branch EXCEPT !.patterns = patterns.n, !.guard = guard.n, !.block = block.n]>>
                         \o others.n)
resolve_match(z, n) ==
    LET test == Reduce(z, n.test)
        r == BranchEach(test.z, n.branches, test.n.datatype)
    IN  R(r.z, [datatype |-> Unresolved] @@ [n EXCEPT !.test = test.n, !.branches = r.n])

(* z.returns: the type of the function.  One that returns nothing may only
   return what a call does not return. *)
resolve_return(z, n) ==
    LET expected == z.returns
        given == n.return_value # Absent
        void == expected = Hard("null")
        nothing == [Hard("null") EXCEPT !.constant = TRUE]
        r == reduce_expression(z, n.return_value, void /\ n.return_value.type = "call")
        value == IF ~void /\ is_hard_type(expected) /\ r.n.is_constant
                 THEN update_const_expression_builtin_type(r.z, r.n, expected) ELSE r
        result == IF ~given \/ void THEN nothing ELSE value.n.datatype
        bad == /\ ~is_variant(expected) /\ is_hard_type(result)
               /\ ~is_type_compatible(expected, result, TRUE) /\ ~is_type_compatible(result, expected, FALSE)
        found == [datatype |-> result, void_return |-> given /\ void]
    IN  IF ~given THEN R(Unless(z, bad), found @@ n)
        ELSE R(Unless(value.z, bad \/ (void /\ n.return_value.type # "call")),
               found @@ [n EXCEPT !.return_value = value.n])

resolve_assert(z, n) ==
    LET condition == Reduce(z, n.condition) IN R(condition.z, [n EXCEPT !.condition = condition.n])

resolve_node(z, n) ==
    CASE n.type = "variable" -> LocalVariable(z, n)
      [] n.type = "constant" -> LocalConstant(z, n)
      [] n.type = "if" -> resolve_if(z, n)
      [] n.type = "for" -> resolve_for(z, n)
      [] n.type = "while" -> resolve_while(z, n)
      [] n.type = "match" -> resolve_match(z, n)
      [] n.type = "return" -> resolve_return(z, n)
      [] n.type = "assert" -> resolve_assert(z, n)
      [] n.type \in {"pass", "breakpoint", "break", "continue"} -> R(z, n)
      [] OTHER -> reduce_expression(z, n, TRUE)

(***************************************************************************)
(* Members: each when it is first asked for, with nothing in scope but the *)
(* class; one that is asked for by what it is made of is an error.         *)
(***************************************************************************)
(* Whether each way through a block returns, as the parser notes it. *)
RECURSIVE has_return(_)
has_return(suite) ==
    \E i \in DOMAIN suite.statements :
        LET n == suite.statements[i]
        IN  CASE n.type = "return" -> TRUE
              [] n.type = "if" ->
                    n.false_block # Absent /\ has_return(n.true_block) /\ has_return(n.false_block)
              [] n.type = "match" ->
                    /\ \A j \in DOMAIN n.branches : has_return(n.branches[j].block)
                    /\ \E j \in DOMAIN n.branches :
                          /\ n.branches[j].guard = Absent
                          /\ \E k \in DOMAIN n.branches[j].patterns :
                                n.branches[j].patterns[k].kind \in {"bind", "wildcard"}
              [] OTHER -> FALSE

RECURSIVE ParameterEach(_, _)
ParameterEach(z, parameters) ==
    IF parameters = <<>> THEN R(z, <<>>)
    ELSE LET first == resolve_parameter(z, Head(parameters))
             others == ParameterEach(first.z, Tail(parameters))
         IN  R(others.z, <<first.n>> \o others.n)

(* What a function is said to return.  _init gives the instance, and it
   and _static_init may only be said to return nothing. *)
StatedType(n) ==
    CASE n.name = "_init" -> Hard("object")
      [] n.name = "_static_init" -> Of("null", "undetected")
      [] n.name \notin {"_init", "_static_init"} /\ n.return_type = Absent -> Of("variant", "inferred")
      [] OTHER -> resolve_datatype(n.return_type)
resolve_function_signature(z, n) ==
    LET r == ParameterEach([z EXCEPT !.static = n.static], n.parameters)
        HasDefault(p) == p.default # Absent
        signature == Signature([i \in DOMAIN r.n |-> r.n[i].datatype],
                               Len(SelectSeq(r.n, HasDefault)), FALSE, StatedType(n))
        bad == /\ n.name \in {"_init", "_static_init"} /\ n.return_type # Absent
               /\ resolve_datatype(n.return_type) # Hard("null")
    IN  R([Unless(r.z, bad) EXCEPT !.members[n.name].signature = signature],
          [scope |-> r.z.env] @@ [n EXCEPT !.parameters = r.n])

(* Of an enum without a name: one more than the value before it. *)
resolve_enum_value(z, n) ==
    LET member == z.members[n.name]
        custom == Reduce([z EXCEPT !.enum = member.siblings], n.custom_value)
        bad == ~custom.n.is_constant \/ custom.n.value.t # "int"
        previous == CHOOSE name \in member.siblings : z.members[name].node.index = n.index - 1
        a == resolve_class_member(z, previous)
        Found(z1, v) == R(z1, [datatype |-> [Hard("int") EXCEPT !.constant = TRUE], value |-> v] @@ n)
    IN  IF n.custom_value # Absent THEN Found(Unless(custom.z, bad), IF bad THEN Number(0) ELSE custom.n.value)
        ELSE IF n.index = 0 THEN Found(z, Number(0))
        ELSE Found(a, Number(a.members[previous].value.i + 1))

(* The parts of z that are the place's: they are as they were when the
   member is resolved. *)
At(z, place) == [z EXCEPT !.env = place.env, !.static = place.static, !.enum = place.enum,
                          !.returns = place.returns, !.lambda = place.lambda]
resolve_class_member(z, name) ==
    LET member == z.members[name]
        n == member.node
        inside == [z EXCEPT !.env = << >>, !.lambda = 0, !.members[name].state = "resolving"]
        Found(r) == [At(r.z, z) EXCEPT !.members[name] =
                        [r.z.members[name] EXCEPT !.node = r.n, !.state = "resolved", !.datatype = r.n.datatype,
                                                  !.value = IF IsConstant(n) THEN r.n.value ELSE Nil]]
        signature == resolve_function_signature(inside, n)
    IN  CASE member.state = "resolving" -> push_error(z)
          [] member.state = "resolved" -> z
          [] member.state = "unresolved" /\ n.type = "variable" ->
                LET r == resolve_variable([inside EXCEPT !.static = n.static], n)
                IN  Found(R(resolve_pending_lambda_bodies(r.z), r.n))
          [] member.state = "unresolved" /\ n.type = "constant" -> Found(resolve_constant(inside, n))
          [] member.state = "unresolved" /\ n.type = "enum_value" -> Found(resolve_enum_value(inside, n))
          [] member.state = "unresolved" /\ n.type = "function" ->
                [At(signature.z, z) EXCEPT !.members[name].node = signature.n, !.members[name].state = "resolved"]

(***************************************************************************)
(* Bodies, when all members are resolved.                                  *)
(***************************************************************************)
(* The type found is that of the last return. *)
resolve_function_body(z, n, scope, returns) ==
    LET body == resolve_suite([z EXCEPT !.env = scope, !.returns = returns, !.static = n.static], n.body)
        bad == is_hard_type(returns) /\ returns.type # "null" /\ ~has_return(n.body) /\ n.name # "_init"
    IN  [z |-> At(Unless(body.z, bad), z), found |-> body.n.datatype, env |-> body.z.env,
         n |-> [returns |-> returns, has_return |-> has_return(n.body)] @@ [n EXCEPT !.body = body.n]]

(* The signature of a lambda where it is written, and its body later, with
   the names that were known there. *)
reduce_lambda(z, function) ==
    LET k == Len(z.lambdas) + 1
        new == [node |-> [function EXCEPT !.static = z.static], scope |-> << >>, parent |-> z.lambda,
                captures |-> <<>>, use_self |-> FALSE, returns |-> Variant]
        r == ParameterEach([z EXCEPT !.lambda = k, !.lambdas = Append(@, new)], function.parameters)
        returns == IF function.return_type = Absent THEN Of("variant", "inferred")
                   ELSE resolve_datatype(function.return_type)
        a == [r.z EXCEPT !.lambda = z.lambda, !.env = Updated(z.env, @), !.pending = Append(@, k),
                         !.lambdas[k].node.parameters = r.n, !.lambdas[k].returns = returns, !.lambdas[k].scope = r.z.env]
    IN  R(a, Reduced([type |-> "lambda", id |-> k], Hard("callable")))

(* Captures are parameters before its own, of the types they are known to
   have. *)
LambdaBody(z, k, r) ==
    LET captures == r.z.lambdas[k].captures
        Parameter(i) == [type |-> "parameter", name |-> captures[i].name, default |-> Absent,
                         datatype |-> captures[i].datatype, use_conversion_assign |-> FALSE]
    IN  [r.z EXCEPT !.env = Updated(@, r.env),
                    !.lambdas[k].node = [r.n EXCEPT !.parameters = [i \in DOMAIN captures |-> Parameter(i)] \o @]]
RECURSIVE LambdaEach(_, _)
LambdaEach(z, lambdas) ==
    LET k == Head(lambdas)
        lambda == z.lambdas[k]
        r == resolve_function_body([z EXCEPT !.lambda = k], lambda.node, Updated(lambda.scope, z.env), lambda.returns)
    IN  IF lambdas = <<>> THEN z ELSE LambdaEach(LambdaBody(z, k, r), Tail(lambdas))
resolve_pending_lambda_bodies(z) ==
    [LambdaEach([z EXCEPT !.pending = <<>>], z.pending) EXCEPT !.lambda = z.lambda]

(* A function without a type has, for those analyzed after it, that of its
   last return. *)
FunctionBody(z, name) ==
    LET n == z.members[name].node
        returns == z.members[name].signature.returns
        r == resolve_function_body(z, n, n.scope, returns)
        weak == ~is_hard_type(returns) /\ is_set(r.found)
    IN  [r.z EXCEPT !.members[name].node = r.n,
                    !.members[name].signature.parameters =
                        [i \in DOMAIN n.parameters |-> r.env[n.parameters[i].name].datatype],
                    !.members[name].signature.returns = IF weak THEN r.found ELSE @]

(* An accessor takes or returns what the variable has; that of one without
   a type may change in the getter, for the setter. *)
GetterBody(z, name) ==
    LET n == z.members[name].node.getter
        r == resolve_function_body(z, n, << >>, z.members[name].datatype)
    IN  IF n = Absent THEN z ELSE [r.z EXCEPT !.members[name].node.getter = r.n]
SetterBody(z, name) ==
    LET n == z.members[name].node.setter
        parameter == n.parameters[1]
        type == z.members[name].datatype
        scope == parameter.name :> [kind |-> "variable", datatype |-> type, value |-> Nil, owner |-> 0]
        r == resolve_function_body(z, n, scope, Variant)
        taking == <<[datatype |-> type, use_conversion_assign |-> FALSE] @@ parameter>>
    IN  IF n = Absent THEN z ELSE [r.z EXCEPT !.members[name].node.setter = [r.n EXCEPT !.parameters = taking]]

RECURSIVE InterfaceEach(_, _), BodyEach(_, _), PropertyEach(_, _)
InterfaceEach(z, names) ==
    IF names = <<>> THEN z ELSE InterfaceEach(resolve_class_member(z, Head(names)), Tail(names))
BodyEach(z, names) ==
    LET n == z.members[Head(names)].node
        inline == n.type = "variable" /\ n.property = "inline"
    IN  IF names = <<>> THEN z
        ELSE BodyEach(CASE n.type = "function" -> FunctionBody(z, n.name)
                        [] n.type # "function" /\ inline -> SetterBody(GetterBody(z, n.name), n.name)
                        [] OTHER -> z, Tail(names))

(* Functions named as accessors: of the variable's type, or of one that is
   converted to it. *)
CheckAccessors(z, n) ==
    LET type == z.members[n.name].datatype
        Is(accessor) == accessor # Absent /\ IsNamed(z, accessor.name, "function")
        getter == z.members[n.getter.name]
        setter == z.members[n.setter.name]
        returned == IF getter.node.return_type = Absent THEN getter.signature.returns
                    ELSE resolve_datatype(getter.node.return_type)
        gets == /\ Is(n.getter) /\ getter.node.parameters = <<>> /\ returned.source # "undetected"
                /\ is_type_compatible(type, returned, TRUE)
        sets == /\ Is(n.setter) /\ Len(setter.node.parameters) = 1
                /\ is_type_compatible(type, setter.signature.parameters[1], TRUE)
        agree == is_type_compatible(getter.signature.returns, setter.signature.parameters[1], TRUE)
        bad == \/ n.getter # Absent /\ ~gets
               \/ n.setter # Absent /\ ~sets
               \/ is_variant(type) /\ gets /\ sets /\ ~agree
    IN  Unless(z, bad)
PropertyEach(z, names) ==
    LET n == z.members[Head(names)].node
        setget == n.type = "variable" /\ n.property = "setget"
    IN  IF names = <<>> THEN z
        ELSE PropertyEach(IF setget THEN CheckAccessors(z, n) ELSE z, Tail(names))

(* The members in the order they are written in; what is known of one at
   first. *)
Siblings(members, i) ==
    LET first == i - members[i].index
        Of1(j) == \A k \in first..j : members[k].type = "enum_value" /\ members[k].index = k - first
    IN  {members[j].name : j \in {j \in first..Len(members) : Of1(j)}}
Unknown(members, i) ==
    [node |-> members[i], state |-> "unresolved", datatype |-> Variant, value |-> Nil,
     signature |-> Signature(<<>>, 0, TRUE, Variant),
     siblings |-> IF members[i].type = "enum_value" THEN Siblings(members, i) ELSE {}]
analyze(class) ==
    LET members == SelectSeq(class.members, LAMBDA m : m.type \notin {"enum", "signal"})
        names == [i \in DOMAIN members |-> members[i].name]
        known == [name \in {names[i] : i \in DOMAIN names} |->
                     Unknown(members, CHOOSE i \in DOMAIN names : names[i] = name)]
        z == [errors |-> 0, env |-> << >>, members |-> known, enum |-> {}, static |-> FALSE, returns |-> Variant,
              lambda |-> 0, lambdas |-> <<>>, pending |-> <<>>]
        done == PropertyEach(BodyEach(InterfaceEach(z, names), names), names)
    IN  [errors |-> done.errors,
         tree |-> [lambdas |-> done.lambdas]
                  @@ [class EXCEPT !.members = [i \in DOMAIN names |-> done.members[names[i]].node]]]
=============================================================================
