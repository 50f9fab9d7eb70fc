--------------------------- MODULE RuztaScriptMeaning ---------------------------
(***************************************************************************)
(* RuztaScriptMeaning: what a script does, told from its tree without any  *)
(* code: the reference that compiling and running it are checked against.  *)
(* s is what evaluating goes by: the variables of the function and the     *)
(* types they were given, those of the script (members), what has been     *)
(* printed, the heap, the function and how deep the calls are.  A variable *)
(* with accessors is got and set through them, but not by themselves.  A   *)
(* value put where a type is stated is converted to it.  A lambda has the  *)
(* variables there are where it is made as they are then.  An error ends   *)
(* the function, which gives the default of its type.                      *)
(***************************************************************************)
EXTENDS RuztaVariant, RuztaTreeNodes, TLC

Absent == [type |-> "null"]
Failure == [t |-> "error"]

Ok(v, s) == [ok |-> TRUE, v |-> v, s |-> s]
Fails(s) == [ok |-> FALSE, v |-> Nil, s |-> [s EXCEPT !.log = Append(@, Failure)]]
Then(r, F(_, _)) == IF r.ok THEN F(r.v, r.s) ELSE r
Doing(s, did) ==
    LET t == [s EXCEPT !.heap = did.heap] IN IF did.ok THEN Ok(did.v, t) ELSE Fails(t)
Known(s, name, v) == [s EXCEPT !.env = (name :> v) @@ @, !.types = (name :> "variant") @@ @]

LiteralValue(text) ==
    CASE text = "true" -> Bool(TRUE) [] text = "false" -> Bool(FALSE) [] text = "null" -> Nil
      [] OTHER -> Number(CHOOSE i \in -99..99 : ToString(i) = text)
TypeTag == "int" :> "int" @@ "bool" :> "bool" @@ "float" :> "float" @@ "Array" :> "array"
           @@ "Dictionary" :> "dictionary" @@ "Vector2" :> "vector" @@ "Callable" :> "callable" @@ "void" :> "null"
TypeGiven(specifier) == IF specifier = Absent THEN "variant" ELSE TypeTag[specifier.chain[1]]
Fits(v, type) == type \in {"variant", v.t} \/ can_convert_strict(v.t, type)
As(v, type) == IF type \in {"variant", v.t} THEN v ELSE Converted(v, type)

(* A variable of a type, and one that is there. *)
Declared(s, name, type, v) ==
    IF Fits(v, type) THEN Ok(Nil, [Known(s, name, As(v, type)) EXCEPT !.types[name] = type]) ELSE Fails(s)
Kept(s, name, v) == Declared(s, name, s.types[name], v)
IsOf(e, name) == e.type = "call" /\ e.callee.type = "identifier" /\ e.callee.name = name

(***************************************************************************)
(* Expressions.                                                            *)
(***************************************************************************)
RECURSIVE Eval(_, _), EvalAll(_, _), Call(_, _, _), CallClosure(_, _, _), Do(_, _), Store(_, _, _)

(* Of the script, by a name (direct) or by self and a name.  A setter takes
   what is assigned to the name as it is. *)
GetMember(name, s, direct) ==
    LET m == s.class[name]
    IN  IF name \notin DOMAIN s.class THEN Fails(s)
        ELSE IF m.kind = "constant" THEN Ok(As(Eval(m.value, [s EXCEPT !.env = << >>]).v, m.type), s)
        ELSE IF m.getter # "" /\ ~(direct /\ m.getter = s.function) THEN Call(m.getter, <<>>, s)
        ELSE Ok(s.members[name], s)
SetMember(name, v, s, direct) ==
    LET m == s.class[name]
    IN  IF name \notin DOMAIN s.class THEN Fails(s)
        ELSE IF m.setter # "" /\ ~(direct /\ m.setter = s.function) THEN Call(m.setter, <<IF direct THEN v ELSE As(v, m.type)>>, s)
        ELSE IF Fits(v, m.type) THEN Ok(Nil, [s EXCEPT !.members[name] = As(v, m.type)]) ELSE Fails(s)

EvalAll(expressions, s) ==
    IF expressions = <<>> THEN Ok(<<>>, s)
    ELSE Then(Eval(Head(expressions), s),
              LAMBDA v, t : Then(EvalAll(Tail(expressions), t), LAMBDA vs, u : Ok(<<v>> \o vs, u)))

(* The second operand of and, or counts only if the first leaves it open. *)
EvalLogic(e, s) ==
    Then(Eval(e.left, s),
         LAMBDA a, t : IF booleanize(t.heap, a) = (e.op = "or") THEN Ok(Bool(e.op = "or"), t)
                       ELSE Then(Eval(e.right, t), LAMBDA b, u : Ok(Bool(booleanize(u.heap, b)), u)))
EvalOperation(op, a, b, s) == Doing(s, evaluate(s.heap, op, a, b))

EvalCall(e, s) ==
    IF e.callee.type = "attribute"
    THEN Then(EvalAll(Append(e.arguments, e.callee.base), s),
              LAMBDA vs, t :
                  IF Last(vs) = Object THEN Call(e.callee.name, Front(vs), t)
                  ELSE IF Last(vs).t = "callable" /\ e.callee.name = "call" THEN CallClosure(Last(vs), Front(vs), t)
                  ELSE Doing(t, call_method(t.heap, Last(vs), e.callee.name, Front(vs))))
    ELSE Then(EvalAll(e.arguments, s),
              LAMBDA vs, t :
                  CASE e.callee.name = "print" ->
                          Ok(Nil, [t EXCEPT !.log = @ \o [i \in DOMAIN vs |-> Shown(t.heap, vs[i])]])
                    [] e.callee.name = "typeof" -> Ok(Number(TypeCode(vs[1].t)), t)
                    [] e.callee.name = "len" -> Doing(t, len(t.heap, vs[1]))
                    [] e.callee.name \in DOMAIN TypeTag ->
                          Doing(t, construct(t.heap, TypeTag[e.callee.name], vs))
                    [] OTHER -> Call(e.callee.name, vs, t))

Closure(e, s) ==
    Doing(s, NewCallable(s.heap, [lambda |-> e.function, env |-> s.env, types |-> s.types]))

(* The result of a method that has none may not be used. *)
Wanted(e, r) ==
    IF e.callee.type = "attribute" /\ ~HasReturn(e.callee.name) /\ r.ok THEN Fails(r.s) ELSE r

Eval(e, s) ==
    CASE e.type = "literal" -> Ok(LiteralValue(e.text), s)
      [] e.type = "identifier" -> IF e.name \in DOMAIN s.env THEN Ok(s.env[e.name], s) ELSE GetMember(e.name, s, TRUE)
      [] e.type = "self" -> Ok(Object, s)
      [] e.type = "lambda" -> Closure(e, s)
      [] e.type = "array" ->
            Then(EvalAll(e.elements, s), LAMBDA vs, t : Doing(t, NewArray(t.heap, vs)))
      [] e.type = "dictionary" ->
            LET keys == [i \in DOMAIN e.entries |-> e.entries[i].key]
                values == [i \in DOMAIN e.entries |-> e.entries[i].value]
            IN  Then(EvalAll(keys, s), LAMBDA ks, t :
                Then(EvalAll(values, t), LAMBDA vs, u :
                     Doing(u, NewDictionary(u.heap, [i \in DOMAIN ks |-> [key |-> ks[i], value |-> vs[i]]]))))
      [] e.type = "unary" ->
            Then(Eval(e.operand, s), LAMBDA v, t :
                 EvalOperation(IF e.op = "-" THEN "negate" ELSE e.op, v, Nil, t))
      [] e.type = "binary" /\ e.op \in {"and", "or"} -> EvalLogic(e, s)
      [] e.type = "binary" /\ e.op \notin {"and", "or"} ->
            Then(Eval(e.left, s), LAMBDA a, t : Then(Eval(e.right, t), LAMBDA b, u :
                 EvalOperation(e.op, a, b, u)))
      [] e.type = "ternary" ->
            Then(Eval(e.condition, s), LAMBDA v, t :
                 Eval(IF booleanize(t.heap, v) THEN e.true_expr ELSE e.false_expr, t))
      [] e.type = "is" ->
            Then(Eval(e.operand, s), LAMBDA v, t : Ok(Bool(v.t = TypeTag[e.test_type.chain[1]]), t))
      [] e.type = "cast" ->
            Then(Eval(e.operand, s), LAMBDA v, t :
                 Doing(t, construct(t.heap, TypeTag[e.cast_type.chain[1]], <<v>>)))
      [] e.type = "subscript" ->
            Then(Eval(e.base, s), LAMBDA base, t : Then(Eval(e.index, t), LAMBDA key, u :
                 Doing(u, get_keyed(u.heap, base, key))))
      [] e.type = "attribute" ->
            Then(Eval(e.base, s), LAMBDA base, t :
                 IF base = Object THEN GetMember(e.name, t, FALSE)
                 ELSE Doing(t, get_named(t.heap, base, e.name)))
      [] e.type = "call" -> Wanted(e, EvalCall(e, s))

(***************************************************************************)
(* Assignments: a part of a value that is copied is set in a copy, which   *)
(* then takes the value's place.                                           *)
(***************************************************************************)
Store(e, v, s) ==
    CASE e.type = "identifier" -> IF e.name \in DOMAIN s.env THEN Kept(s, e.name, v) ELSE SetMember(e.name, v, s, TRUE)
      [] e.type = "subscript" ->
            Then(Eval(e.base, s), LAMBDA base, t : Then(Eval(e.index, t), LAMBDA key, u :
                 LET did == set_keyed(u.heap, base, key, v) IN Doing(u, did)))
      [] e.type = "attribute" ->
            Then(Eval(e.base, s), LAMBDA base, t :
                 IF base = Object THEN SetMember(e.name, v, t, FALSE)
                 ELSE Then(Doing(t, set_named(t.heap, base, e.name, v)), LAMBDA changed, u :
                      Store(e.base, changed, u)))
Assigned(e, s) ==
    LET op == CASE e.op = "+=" -> "+" [] e.op = "-=" -> "-" [] e.op = "*=" -> "*"
                [] e.op = "/=" -> "/" [] e.op = "%=" -> "%"
    IN  IF e.op = "=" THEN Then(Eval(e.assigned, s), LAMBDA v, t : Store(e.assignee, v, t))
        ELSE Then(Eval(e.assigned, s), LAMBDA v, t : Then(Eval(e.assignee, t), LAMBDA old, u :
             Then(EvalOperation(op, old, v, u), LAMBDA new, w : Store(e.assignee, new, w))))

(***************************************************************************)
(* Patterns: v of the outcome says whether they match.                     *)
(***************************************************************************)
RECURSIVE Matches(_, _, _), MatchesAll(_, _, _), FitsAll(_, _, _)
FitsAll(entries, v, s) ==
    IF entries = <<>> THEN Ok(TRUE, s)
    ELSE LET entry == Head(entries)
         IN  IF entry.key = Absent THEN Ok(TRUE, s)
             ELSE Then(Eval(entry.key, s), LAMBDA key, t :
                  LET got == get_keyed(t.heap, v, key)
                  IN  IF ~got.ok THEN Ok(FALSE, t)
                      ELSE Then(IF entry.value = Absent THEN Ok(TRUE, t) ELSE Matches(entry.value, got.v, t),
                                LAMBDA fits, u : IF fits THEN FitsAll(Tail(entries), v, u) ELSE Ok(FALSE, u)))
MatchesAll(patterns, values, s) ==
    IF patterns = <<>> \/ Head(patterns).kind = "rest" THEN Ok(TRUE, s)
    ELSE Then(Matches(Head(patterns), Head(values), s), LAMBDA fits, t :
              IF fits THEN MatchesAll(Tail(patterns), Tail(values), t) ELSE Ok(FALSE, t))

Enough(n, patterns, v, s) ==
    IF n.rest_used THEN Size(s.heap, v) >= Len(patterns) - 1 ELSE Size(s.heap, v) = Len(patterns)
Matches(n, v, s) ==
    CASE n.kind \in {"wildcard", "rest"} -> Ok(TRUE, s)
      [] n.kind = "bind" -> Ok(TRUE, Known(s, n.bind, v))
      [] n.kind = "expression" ->
            Then(Eval(n.expression, s), LAMBDA w, t : Ok(v.t = w.t /\ Equal(t.heap, v, w), t))
      [] n.kind = "array" ->
            IF v.t = "array" /\ Enough(n, n.array, v, s) THEN MatchesAll(n.array, ElementsOf(s.heap, v), s)
            ELSE Ok(FALSE, s)
      [] n.kind = "dictionary" ->
            IF v.t = "dictionary" /\ Enough(n, n.dictionary, v, s) THEN FitsAll(n.dictionary, v, s)
            ELSE Ok(FALSE, s)

RECURSIVE AnyMatches(_, _, _)
AnyMatches(patterns, v, s) ==
    IF patterns = <<>> THEN Ok(FALSE, s)
    ELSE Then(Matches(Head(patterns), v, s), LAMBDA fits, t :
              IF fits THEN Ok(TRUE, t) ELSE AnyMatches(Tail(patterns), v, t))

(***************************************************************************)
(* Statements.  how: next, break, continue, return with a value, or fail.  *)
(***************************************************************************)
Goes(how, v, s) == [how |-> how, v |-> v, s |-> s]
On(r, F(_, _)) == IF r.ok THEN F(r.v, r.s) ELSE Goes("fail", Nil, r.s)
InLoop(r, Again(_)) ==
    CASE r.how = "break" -> Goes("next", Nil, r.s) [] r.how \in {"return", "fail"} -> r
      [] OTHER -> Again(r.s)

RECURSIVE Loop(_, _), Each(_, _, _, _), Count3(_, _, _, _, _), Branched(_, _, _), Run(_, _)

Loop(n, s) ==
    On(Eval(n.condition, s), LAMBDA v, t :
       IF booleanize(t.heap, v) THEN InLoop(Do(n.loop.statements, t), LAMBDA u : Loop(n, u))
       ELSE Goes("next", Nil, t))
Each(n, list, place, s) ==
    IF place >= Count(s.heap, list) THEN Goes("next", Nil, s)
    ELSE On(Declared(s, n.variable, TypeGiven(n.specifier), iter_get(s.heap, list, StateAt(s.heap, list, place))),
            LAMBDA v, t : InLoop(Do(n.loop.statements, t), LAMBDA u : Each(n, list, place + 1, u)))
Count3(n, i, to, step, s) ==
    IF step = 0 \/ (step > 0 /\ i >= to) \/ (step < 0 /\ i <= to) THEN Goes("next", Nil, s)
    ELSE On(Declared(s, n.variable, TypeGiven(n.specifier), Number(i)),
            LAMBDA v, t : InLoop(Do(n.loop.statements, t), LAMBDA u : Count3(n, i + step, to, step, u)))

ForRange(n, s) ==
    LET given == n.list.arguments
    IN  On(EvalAll(given, s), LAMBDA vs, t :
           LET At(i) == AsInt(vs[i])
           IN  IF \E i \in DOMAIN vs : vs[i].t \notin Scalar THEN Goes("fail", Nil, Fails(t).s)
               ELSE IF Len(vs) = 1 THEN Count3(n, 0, At(1), 1, t)
               ELSE Count3(n, At(1), At(2), IF Len(vs) = 3 THEN At(3) ELSE 1, t))

Branched(branches, v, s) ==
    IF branches = <<>> THEN Goes("next", Nil, s)
    ELSE LET b == Head(branches)
         IN  On(AnyMatches(b.patterns, v, s), LAMBDA fits, t :
                IF ~fits THEN Branched(Tail(branches), v, t)
                ELSE On(IF b.guard = Absent THEN Ok(Bool(TRUE), t) ELSE Eval(b.guard, t), LAMBDA g, u :
                        IF booleanize(u.heap, g) THEN Do(b.block.statements, u)
                        ELSE Branched(Tail(branches), v, u)))

Stat(n, s) ==
    CASE n.type \in {"break", "continue"} -> Goes(n.type, Nil, s)
      [] n.type \in {"pass", "breakpoint"} -> Goes("next", Nil, s)
      [] n.type \in {"variable", "constant"} ->
            LET type == TypeGiven(n.specifier)
                value == IF n.initializer = Absent THEN Doing(s, Empty(s.heap, type)) ELSE Eval(n.initializer, s)
                Given(v) == IF n.infer THEN v.t ELSE type
            IN  On(value, LAMBDA v, t :
                On(Declared(t, n.name, Given(v), v), LAMBDA w, u : Goes("next", Nil, u)))
      [] n.type = "return" ->
            IF n.return_value = Absent THEN Goes("return", Nil, s)
            ELSE On(Eval(n.return_value, s), LAMBDA v, t : Goes("return", v, t))
      [] n.type = "assert" ->
            On(Eval(n.condition, s), LAMBDA v, t :
               IF booleanize(t.heap, v) THEN Goes("next", Nil, t) ELSE Goes("fail", Nil, Fails(t).s))
      [] n.type = "if" ->
            On(Eval(n.condition, s), LAMBDA v, t :
               IF booleanize(t.heap, v) THEN Do(n.true_block.statements, t)
               ELSE IF n.false_block = Absent THEN Goes("next", Nil, t)
               ELSE Do(n.false_block.statements, t))
      [] n.type = "while" -> Loop(n, s)
      [] n.type = "for" ->
            IF IsOf(n.list, "range") THEN ForRange(n, s)
            ELSE On(Eval(n.list, s), LAMBDA list, t :
                    IF IsIterable(list) THEN Each(n, list, 0, t) ELSE Goes("fail", Nil, Fails(t).s))
      [] n.type = "match" -> On(Eval(n.test, s), LAMBDA v, t : Branched(n.branches, v, t))
      [] n.type = "assignment" -> On(Assigned(n, s), LAMBDA v, t : Goes("next", Nil, t))
      [] n.type = "call" -> On(EvalCall(n, s), LAMBDA v, t : Goes("next", Nil, t))
      [] OTHER -> On(Eval(n, s), LAMBDA v, t : Goes("next", Nil, t))

Do(statements, s) ==
    IF statements = <<>> THEN Goes("next", Nil, s)
    ELSE LET r == Stat(Head(statements), s)
         IN  IF r.how = "next" THEN Do(Tail(statements), r.s) ELSE r

(***************************************************************************)
(* Calls: too deep a call gives the default of its type and is reported.   *)
(***************************************************************************)
RECURSIVE WithDefaults(_, _)
WithDefaults(parameters, s) ==
    IF parameters = <<>> THEN Ok(Nil, s)
    ELSE LET parameter == Head(parameters)
         IN  Then(Eval(parameter.default, s), LAMBDA v, t :
             Then(Declared(t, parameter.name, TypeGiven(parameter.specifier), v), LAMBDA w, u :
                  WithDefaults(Tail(parameters), u)))

Run(f, s) ==   \* s.env: the arguments given
    LET missing == SelectSeq(f.parameters, LAMBDA p : p.name \notin DOMAIN s.env)
    IN  On(WithDefaults(missing, s), LAMBDA v, t : Do(f.body.statements, t))

(* What a function that ended so gives. *)
Gives(r, type) ==
    LET none == Doing(r.s, Empty(r.s.heap, type))
    IN  CASE r.how = "fail" -> none
          [] r.how # "fail" /\ type = "null" -> Ok(Nil, r.s)
          [] r.how # "fail" /\ type # "null" ->
                IF Fits(r.v, type) THEN Ok(As(r.v, type), r.s)
                ELSE [none EXCEPT !.s.log = Append(@, Failure)]

(* Of function f, called name: env and types, of the variables it has
   beside its parameters. *)
CallOf(f, name, env, types, arguments, s) ==
    LET type == TypeGiven(f.return_type)
        count == Len(arguments)
        Required(p) == p.default = Absent
        Type(i) == TypeGiven(f.parameters[i].specifier)
        Of(F(_)) == [n \in {f.parameters[i].name : i \in 1..count} |->
                        F(CHOOSE i \in 1..count : f.parameters[i].name = n)]
        accepted == /\ count \in Len(SelectSeq(f.parameters, Required))..Len(f.parameters)
                    /\ \A i \in 1..count : Fits(arguments[i], Type(i))
        given == Of(LAMBDA i : As(arguments[i], Type(i)))
        parameters == {f.parameters[i].name : i \in DOMAIN f.parameters}
        Beside(F) == [n \in DOMAIN F \ parameters |-> F[n]]
        r == Gives(Run(f, [s EXCEPT !.env = given @@ Beside(env), !.types = Of(Type) @@ Beside(types),
                                    !.function = name, !.depth = @ + 1]), type)
    IN  IF s.depth = s.max_depth
        THEN Doing([s EXCEPT !.log = Append(@, Failure)], Empty(s.heap, type))
        ELSE IF ~accepted THEN Fails(s)
        ELSE Ok(r.v, [r.s EXCEPT !.env = s.env, !.types = s.types, !.function = s.function, !.depth = s.depth])

Call(name, arguments, s) ==
    IF name \in DOMAIN s.functions THEN CallOf(s.functions[name], name, << >>, << >>, arguments, s) ELSE Fails(s)
(* A callable of nothing cannot be called. *)
CallClosure(v, arguments, s) ==
    LET closure == s.heap[v.ref]
    IN  IF v.ref = 0 THEN Fails(s)
        ELSE CallOf(closure.lambda, "", closure.env, closure.types, arguments, s)

(***************************************************************************)
(* The script: what its names stand for, and the values of its variables.  *)
(***************************************************************************)
AccessorOf(n, accessor, kind) ==
    CASE accessor = Absent -> ""
      [] accessor # Absent /\ n.property = "setget" -> accessor.name
      [] OTHER -> kind \o n.name
(* Of a value of an enum: the one given, or one more than the one before. *)
RECURSIVE ValueIn(_, _)
ValueIn(members, i) ==
    CASE members[i].custom_value # Absent -> members[i].custom_value
      [] members[i].custom_value = Absent /\ members[i].index = 0 -> [type |-> "literal", text |-> "0"]
      [] OTHER -> [type |-> "binary", op |-> "+", left |-> ValueIn(members, i - 1),
                   right |-> [type |-> "literal", text |-> "1"]]
(* The type stated, or that of the value. *)
SpecifierOf(n, s) ==
    IF n.infer THEN [chain |-> <<CHOOSE name \in DOMAIN TypeTag : TypeTag[name] = Eval(n.initializer, s).v.t>>]
    ELSE n.specifier
MemberOf(members, i, s) ==
    LET n == members[i]
    IN  CASE n.type = "constant" ->
                [kind |-> "constant", value |-> n.initializer, type |-> TypeGiven(SpecifierOf(n, s))]
          [] n.type = "enum_value" -> [kind |-> "constant", value |-> ValueIn(members, i), type |-> "int"]
          [] n.type = "variable" ->
                [kind |-> "variable", static |-> n.static, type |-> TypeGiven(SpecifierOf(n, s)),
                 setter |-> AccessorOf(n, n.setter, "set "), getter |-> AccessorOf(n, n.getter, "get ")]
FunctionIn(n, accessor, kind, s) ==
    IF accessor = Absent \/ n.property = "setget" THEN << >>
    ELSE kind \o n.name :>
         [static |-> n.static,
          parameters |-> [i \in DOMAIN accessor.parameters |->
                             [accessor.parameters[i] EXCEPT !.specifier = SpecifierOf(n, s)]],
          return_type |-> IF kind = "get " THEN SpecifierOf(n, s) ELSE Absent, body |-> accessor.body]

RECURSIVE Defaults(_, _), Initial(_, _), FunctionsIn(_, _)
FunctionsIn(members, s) ==
    IF members = <<>> THEN << >>
    ELSE LET n == Head(members)
         IN  FunctionsIn(Tail(members), s)
             @@ CASE n.type = "function" -> n.name :> n
                  [] n.type = "variable" -> FunctionIn(n, n.setter, "set ", s) @@ FunctionIn(n, n.getter, "get ", s)
                  [] OTHER -> << >>
Defaults(variables, s) ==
    IF variables = <<>> THEN s
    ELSE LET n == Head(variables)
             empty == Empty(s.heap, s.class[n.name].type)
         IN  Defaults(Tail(variables),
                      [s EXCEPT !.heap = empty.heap, !.members = (n.name :> empty.v) @@ @])
Initial(variables, s) ==   \* what fails leaves the rest as they are
    IF variables = <<>> THEN Ok(Nil, s)
    ELSE LET n == Head(variables)
             type == s.class[n.name].type
             Given(v, t) == IF Fits(v, type) THEN Ok(Nil, [t EXCEPT !.members[n.name] = As(v, type)]) ELSE Fails(t)
         IN  IF n.initializer = Absent THEN Initial(Tail(variables), s)
             ELSE Then(Then(Eval(n.initializer, s), Given), LAMBDA v, t : Initial(Tail(variables), t))

(* What calling a function of a new instance of a script gives, and what
   has been printed by then. *)
CalledIf(name, s) == IF name \in DOMAIN s.functions THEN Call(name, <<>>, s).s ELSE s
Meaning(class, name, max_depth) ==
    LET members == class.members
        Variable(static) == SelectSeq(members, LAMBDA n : n.type = "variable" /\ n.static = static)
        named == {i \in DOMAIN members : members[i].type \in {"constant", "enum_value", "variable"}}
        At(n) == CHOOSE i \in named : members[i].name = n
        empty == [env |-> << >>, types |-> << >>, log |-> <<>>, heap |-> <<>>, depth |-> 0,
                  max_depth |-> max_depth, function |-> "", members |-> << >>,
                  functions |-> << >>, class |-> << >>]
        class1 == [n \in {members[i].name : i \in named} |-> MemberOf(members, At(n), empty)]
        script == [empty EXCEPT !.class = class1, !.functions = FunctionsIn(members, empty)]
        Deeper(s) == [s EXCEPT !.depth = @ + 1]
        Back(s) == [s EXCEPT !.depth = @ - 1, !.env = << >>]
        none == Defaults(Variable(FALSE), Defaults(Variable(TRUE), script))
        static == Initial(Variable(TRUE), Deeper(none))
        loaded == IF static.ok THEN CalledIf("_static_init", static.s) ELSE static.s
        made == CalledIf("_init", Back(Initial(Variable(FALSE), loaded).s))
        r == Call(name, <<>>, made)
    IN  [result |-> Shown(r.s.heap, r.v), log |-> r.s.log]
=============================================================================
