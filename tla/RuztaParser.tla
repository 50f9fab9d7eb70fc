------------------------------ MODULE RuztaParser ------------------------------
(***************************************************************************)
(* RuztaParser: from the tokens of a script, as text or as exported, to    *)
(* its tree.  A parser is a record, p; an operator that parses returns the *)
(* next parser and a node, [p, n].  Comments, completion, extents and      *)
(* warnings are left out, and so are the annotations about warnings, super *)
(* and yield.                                                              *)
(***************************************************************************)
EXTENDS RuztaTokenizerBuffer

Null == [type |-> "null"]
R(p, n) == [p |-> p, n |-> n]

Literal(text) == [type |-> "literal", text |-> text]
IsString(token) == token.type = "literal" /\ token.text \in Strings
Identifier(name) == [type |-> "identifier", name |-> name]
Suite(statements, in_loop) ==
    [type |-> "suite", statements |-> statements, in_loop |-> in_loop]

(***************************************************************************)
(* Tokens.                                                                 *)
(***************************************************************************)
Reported(p) == [p EXCEPT !.panic_mode = TRUE, !.errors = @ + 1]   \* push_error

Scanned(p) == LET s == scan(p.tk) IN [p EXCEPT !.tk = s.t, !.current = s.token]

RECURSIVE SkipErrors(_)
SkipErrors(p) ==
    IF p.current.type = "error" THEN SkipErrors(Scanned(Reported(p))) ELSE p

advance(p) ==
    IF p.current.type = "eof" THEN [p EXCEPT !.lambda_ended = FALSE, !.past_end = TRUE]
    ELSE SkipErrors(Scanned([p EXCEPT !.lambda_ended = FALSE, !.previous = p.current]))

IsIdentifier(token) == token.type \in {"identifier", "match", "when"}
check(p, type) == IF type = "identifier" THEN IsIdentifier(p.current) ELSE p.current.type = type
match(p, type) == IF check(p, type) THEN advance(p) ELSE p
consume(p, type) == IF check(p, type) THEN advance(p) ELSE Reported(p)
is_at_end(p) == check(p, "eof")

RECURSIVE SkipToStatement(_)
SkipToStatement(p) ==
    IF \/ is_at_end(p)
       \/ p.previous.type \in {"newline", ";"}
       \/ p.current.type \in {"class", "func", "static", "var", "const", "signal", "for",
                              "while", "match", "return", "annotation"}
    THEN p ELSE SkipToStatement(advance(p))
synchronize(p) == IF p.panic_mode THEN SkipToStatement([p EXCEPT !.panic_mode = FALSE]) ELSE p

Layout == {"newline", "indent", "dedent"}
RECURSIVE SkipLayout(_)
SkipLayout(p) == IF p.current.type \in Layout THEN SkipLayout(Scanned(p)) ELSE p

push_multiline(p, state) ==
    LET q == [p EXCEPT !.multiline_stack = Append(@, state),
                       !.tk = set_multiline_mode(@, state)]
    IN  IF state THEN SkipLayout(q) ELSE q

pop_multiline(p) ==
    LET rest == Front(p.multiline_stack)
    IN  [p EXCEPT !.multiline_stack = rest,
                  !.tk = set_multiline_mode(@, rest # <<>> /\ Last(rest))]

is_statement_end_token(p) == p.current.type \in {"newline", ";", "eof"}
is_statement_end(p) == p.lambda_ended \/ p.in_lambda \/ is_statement_end_token(p)

(* end_statement: line ends and semicolons; inside a lambda, anything, and
   then the lambda has ended; after a lambda, nothing. *)
RECURSIVE Ended(_, _)
Ended(p, found) ==
    IF is_at_end(p) THEN p
    ELSE IF is_statement_end_token(p) THEN Ended(advance(p), TRUE)
    ELSE IF p.lambda_ended THEN [p EXCEPT !.lambda_ended = FALSE]
    ELSE IF found THEN p
    ELSE IF p.in_lambda THEN [p EXCEPT !.lambda_ended = TRUE]
    ELSE Reported(p)
end_statement(p) == Ended(p, FALSE)

(***************************************************************************)
(* Names in scope: suites is the chain of the current suite's parents.     *)
(***************************************************************************)
has_local(p, name) == \E i \in DOMAIN p.suites : name \in p.suites[i].locals
add_local(p, name) ==
    [p EXCEPT !.suites[Len(p.suites)].locals = @ \cup {name}]
Declared(p, name) == add_local(IF has_local(p, name) THEN Reported(p) ELSE p, name)
Enter(p, locals, in_loop) ==
    [p EXCEPT !.suites = Append(@, [locals |-> locals, in_loop |-> in_loop])]
Leave(p) == [p EXCEPT !.suites = Front(@)]
(* The function whose signature or body is parsed, until p is as it was. *)
NoFunction == [name |-> "", static |-> FALSE]
InFunction(p, name, static) == [p EXCEPT !.current_function = [name |-> name, static |-> static]]
BackIn(p, q) == [q EXCEPT !.current_function = p.current_function]
InLoop(p) == p.suites # <<>> /\ Last(p.suites).in_loop

(***************************************************************************)
(* get_rule and the order of precedences.                                  *)
(***************************************************************************)
ASSIGNMENT == 1
TERNARY == 3
LOGIC_NOT == 6
CONTENT_TEST == 7
SIGN == 15
BIT_NOT == 16
AWAIT == 19

AssignmentTokens ==
    {"=", "+=", "-=", "*=", "**=", "/=", "%=", "<<=", ">>=", "&=", "|=", "^="}
BinaryTokens ==
    {"<", "<=", ">", ">=", "==", "!=", "and", "or", "&&", "||", "&", "|", "^", "<<", ">>",
     "+", "-", "*", "**", "/", "%", "in"}

(* The infix precedence of a token; 0 for none.  A slip swaps the factors
   and the sums. *)
precedenceIfSwapped(type) ==
    CASE type \in {"+", "-"} -> 14 [] type \in {"*", "/", "%"} -> 13
      [] type \in AssignmentTokens -> ASSIGNMENT [] type = "if" -> TERNARY
      [] type \in {"<", "<=", ">", ">=", "==", "!="} -> 8
      [] type = "." -> 21 [] type = "[" -> 22 [] type = "(" -> 20 [] OTHER -> 0
precedence(type) ==
    CASE type \in AssignmentTokens -> ASSIGNMENT
      [] type = "as" -> 2
      [] type = "if" -> TERNARY
      [] type \in {"or", "||"} -> 4
      [] type \in {"and", "&&"} -> 5
      [] type \in {"not", "in"} -> CONTENT_TEST
      [] type \in {"<", "<=", ">", ">=", "==", "!="} -> 8
      [] type = "|" -> 9
      [] type = "^" -> 10
      [] type = "&" -> 11
      [] type \in {"<<", ">>"} -> 12
      [] type \in {"+", "-"} -> 13
      [] type \in {"*", "/", "%"} -> 14
      [] type = "**" -> 17
      [] type = "is" -> 18
      [] type = "(" -> 20
      [] type = "." -> 21
      [] type = "[" -> 22
      [] OTHER -> 0

Keywords ==   \* is_node_name
    {"and", "as", "assert", "await", "break", "breakpoint", "class", "class_name", "const",
     "continue", "elif", "else", "enum", "extends", "for", "func", "if", "in", "is", "not", "or",
     "pass", "preload", "return", "self", "signal", "static", "_", "var", "void", "while"}
is_node_name(token) == IsIdentifier(token) \/ token.type \in Keywords

PrefixTokens ==
    {"literal", "self", "not", "!", "~", "+", "-", "await", "func", "preload", "$", "%", "[", "{", "("}

RECURSIVE parse_precedence(_, _, _, _), Infix(_, _, _, _), parse_suite(_, _, _, _), parse_type(_, _)

parse_expression(p, can_assign) == parse_precedence(p, ASSIGNMENT, can_assign, FALSE)

(* An expression that must be there. *)
Expected(r) == IF r.n = Null THEN [r EXCEPT !.p = Reported(@)] ELSE r

(***************************************************************************)
(* Expressions.                                                            *)
(***************************************************************************)
parse_unary_operator(p) ==
    LET op == p.previous.type
        level == CASE op \in {"+", "-"} -> SIGN [] op = "~" -> BIT_NOT [] OTHER -> LOGIC_NOT
        operand == Expected(parse_precedence(p, level, FALSE, FALSE))
    IN  R(operand.p, [type |-> "unary", op |-> IF op = "!" THEN "not" ELSE op,
                      operand |-> operand.n])

(* Operators of a level group to the left. *)
RightLevel(op) == precedence(op) + 1

parse_binary_operator(p, left) ==
    LET op == p.previous.type
        right == Expected(parse_precedence(p, RightLevel(op), FALSE, FALSE))
    IN  R(right.p, [type |-> "binary",
                    op |-> CASE op = "&&" -> "and" [] op = "||" -> "or" [] OTHER -> op,
                    left |-> left, right |-> right.n])

parse_binary_not_in_operator(p, left) ==
    LET q == consume(p, "in")
        operation == parse_binary_operator(q, left)
    IN  IF q.previous.type \notin BinaryTokens
        THEN R(Expected(parse_precedence(q, RightLevel("not"), FALSE, FALSE)).p,
               [type |-> "unary", op |-> "not", operand |-> Null])
        ELSE R(operation.p, [type |-> "unary", op |-> "not", operand |-> operation.n])

parse_ternary_operator(p, true_expr) ==
    LET condition == Expected(parse_precedence(p, TERNARY, FALSE, FALSE))
        false_expr == Expected(parse_precedence(consume(condition.p, "else"), TERNARY, FALSE, FALSE))
    IN  R(false_expr.p, [type |-> "ternary", condition |-> condition.n,
                         true_expr |-> true_expr, false_expr |-> false_expr.n])

parse_assignment(p, assignee, can_assign) ==
    LET value == Expected(parse_expression(p, FALSE))
    IN  IF ~can_assign \/ assignee.type \notin {"identifier", "subscript", "attribute"}
        THEN parse_expression(Reported(p), FALSE)
        ELSE R(value.p, [type |-> "assignment", op |-> p.previous.type,
                         assignee |-> assignee, assigned |-> value.n])

parse_await(p) ==
    LET element == Expected(parse_precedence(p, AWAIT, FALSE, FALSE))
    IN  R(element.p, [type |-> "await", element |-> element.n])

RECURSIVE Elements(_, _)
Elements(p, elements) ==
    LET element == Expected(parse_expression(p, FALSE))
        list == IF element.n = Null THEN elements ELSE Append(elements, element.n)
        q == match(element.p, ",")
    IN  IF check(p, "]") THEN R(p, elements)
        ELSE IF check(element.p, ",") /\ ~is_at_end(q) THEN Elements(q, list)
        ELSE R(q, list)
parse_array(p) ==
    LET r == Elements(p, <<>>)
    IN  R(consume(pop_multiline(r.p), "]"), [type |-> "array", elements |-> r.n])

(* The first entry settles which separator all have.  After the other one
   a token is skipped: the separator itself has been consumed before. *)
RECURSIVE Entries(_, _, _)
Entries(p, entries, separator) ==
    LET key == Expected(parse_precedence(p, ASSIGNMENT, FALSE, TRUE))
        decided == IF separator # "none" THEN separator
                   ELSE IF check(key.p, "=") THEN "=" ELSE ":"
        undecided == separator = "none" /\ ~check(key.p, ":") /\ ~check(key.p, "=")
        other == IF decided = "=" THEN ":" ELSE "="
        a == IF undecided THEN Reported(key.p) ELSE key.p
        b == IF decided = "=" /\ key.n # Null /\ key.n.type # "identifier"
             THEN Reported(a) ELSE a
        c == IF check(b, decided) THEN advance(b)
             ELSE IF check(b, other) THEN advance(Reported(advance(b)))
             ELSE Reported(b)
        value == Expected(parse_expression(c, FALSE))
        list == IF key.n = Null /\ value.n = Null THEN entries
                ELSE Append(entries, [key |-> key.n, value |-> value.n])
        q == match(value.p, ",")
    IN  IF check(p, "}") THEN R(p, entries)
        ELSE IF check(value.p, ",") /\ ~is_at_end(q) THEN Entries(q, list, decided)
        ELSE R(q, list)
parse_dictionary(p) ==
    LET r == Entries(p, <<>>, "none")
    IN  R(consume(pop_multiline(r.p), "}"), [type |-> "dictionary", entries |-> r.n])

parse_grouping(p) ==
    LET r == parse_expression(p, FALSE)
        q == pop_multiline(r.p)
    IN  R(IF r.n = Null THEN Reported(q) ELSE consume(q, ")"), r.n)

(* A keyword may name an attribute. *)
parse_attribute(p, base) ==
    LET named == is_node_name(p.current)
    IN  R(IF named THEN advance(p) ELSE Reported(p),
          [type |-> "attribute", base |-> base, name |-> IF named THEN p.current.text ELSE ""])

parse_subscript(p, base) ==
    LET index == Expected(parse_expression(p, FALSE))
    IN  R(consume(pop_multiline(index.p), "]"),
          [type |-> "subscript", base |-> base, index |-> index.n])

RECURSIVE Arguments(_, _)
Arguments(p, arguments) ==
    LET argument == Expected(parse_expression(p, FALSE))
        list == IF argument.n = Null THEN arguments ELSE Append(arguments, argument.n)
    IN  IF check(p, ")") THEN R(p, arguments)
        ELSE IF check(argument.p, ",") THEN Arguments(advance(argument.p), list)
        ELSE R(argument.p, list)
parse_call(p, callee) ==
    LET q == IF callee.type \in {"identifier", "attribute"} THEN p ELSE Reported(p)
        r == Arguments(q, <<>>)
    IN  R(consume(pop_multiline(r.p), ")"),
          [type |-> "call", callee |-> callee, arguments |-> r.n])

(* A path of names and strings with "/" between and "%" before a name: the
   part after p.previous, where state says what came before. *)
RECURSIVE NodePath(_, _, _, _)
MarkMayFollow(mark) == IF mark = "%" THEN {"start", "slash"} ELSE {"start", "name"}
NodePath(p, path, state, node) ==
    LET mark == p.previous.type
        marked == mark \in {"%", "/"}
        named == is_node_name(p.current) \/ IsString(p.current)
        q == IF named THEN advance(p) ELSE p
        longer == path \o (IF marked THEN <<mark>> ELSE <<>>) \o (IF named THEN <<p.current.text>> ELSE <<>>)
        next == CASE named -> "name" [] mark = "%" -> "percent" [] mark = "/" -> "slash" [] OTHER -> state
    IN  IF marked /\ state \notin MarkMayFollow(mark) THEN R(Reported(p), Null)
        ELSE IF ~named /\ ~check(p, "/") /\ ~check(p, "%") THEN R(Reported(match(p, "literal")), Null)
        ELSE IF check(q, "/") \/ check(q, "%") THEN NodePath(advance(q), longer, next, node)
        ELSE R(q, [node EXCEPT !.full_path = longer])
GetNode(use_dollar, full_path) ==
    [type |-> "get_node", use_dollar |-> use_dollar, full_path |-> full_path]
parse_get_node(p) ==
    LET begins == is_node_name(p.current) \/ IsString(p.current) \/ check(p, "/") \/ check(p, "%")
        dollar == p.previous.type = "$"
    IN  IF ~begins THEN R(Reported(p), Null)
        ELSE NodePath(IF dollar THEN match(p, "/") ELSE p, <<>>, "start", GetNode(dollar, <<>>))

parse_preload(p) ==
    LET path == Expected(parse_expression(consume(push_multiline(p, TRUE), "("), FALSE))
    IN  R(consume(pop_multiline(match(path.p, ",")), ")"), [type |-> "preload", path |-> path.n])

parse_cast(p, operand) ==
    LET r == parse_type(p, FALSE)
    IN  IF r.n = Null THEN R(Reported(r.p), operand)
        ELSE R(r.p, [type |-> "cast", operand |-> operand, cast_type |-> r.n])

parse_type_test(p, operand) ==
    LET negated == check(p, "not")
        r == Expected(parse_type(match(p, "not"), FALSE))
        test == [type |-> "is", operand |-> operand, test_type |-> r.n]
    IN  R(r.p, IF negated THEN [type |-> "unary", op |-> "not", operand |-> test] ELSE test)

(***************************************************************************)
(* Functions and lambdas.                                                  *)
(***************************************************************************)
parse_parameter(p) ==
    LET a == advance(p)
        b == match(a, ":")
        typed == check(a, ":") /\ ~check(b, "=")
        c == IF typed THEN parse_type(b, FALSE) ELSE R(b, Null)
        d == IF check(c.p, "=") THEN parse_expression(advance(c.p), FALSE) ELSE R(c.p, Null)
    IN  IF ~check(p, "identifier") THEN R(Reported(p), Null)
        ELSE R(d.p, [type |-> "parameter", name |-> p.current.text, default |-> d.n,
                     specifier |-> c.n, infer |-> check(a, ":") /\ ~typed])

(* Parameters up to the closing bracket: none without a default after one
   with a default, and no name twice. *)
RECURSIVE Parameters(_, _)
Parameters(p, parameters) ==
    LET r == parse_parameter(p)
        mandatory == /\ r.n.default = Null
                     /\ \E i \in DOMAIN parameters : parameters[i].default # Null
        twice == \E i \in DOMAIN parameters : parameters[i].name = r.n.name
        q == IF mandatory \/ twice THEN Reported(r.p) ELSE add_local(r.p, r.n.name)
        list == IF mandatory \/ twice THEN parameters ELSE Append(parameters, r.n)
    IN  IF check(p, ")") \/ r.n = Null
        THEN R(IF check(p, ")") THEN p ELSE r.p, parameters)
        ELSE IF check(q, ",") THEN Parameters(advance(q), list) ELSE R(q, list)

(* n has the parameters and whether a body follows.  The function that
   runs when the script is loaded has no instance and takes nothing. *)
parse_function_signature(p, lambda, name, static) ==
    LET r == IF is_at_end(p) THEN R(p, <<>>) ELSE Parameters(p, <<>>)
        a == consume(pop_multiline(r.p), ")")
        b == IF check(a, "->") THEN Expected(parse_type(advance(a), TRUE)) ELSE R(a, Null)
        refused == name = "_static_init" /\ (~static \/ r.n # <<>>)
        d == IF refused THEN Reported(b.p) ELSE b.p
        c == IF lambda THEN consume(d, ":") ELSE match(d, ":")
    IN  R(c, [parameters |-> r.n, return_type |-> b.n, has_body |-> check(b.p, ":")])

FunctionNode(name, signature, body) ==
    [type |-> "function", name |-> name, parameters |-> signature.parameters,
     return_type |-> signature.return_type, static |-> FALSE, body |-> body]

parse_function(p, static) ==
    LET a == InFunction(Enter(push_multiline(advance(p), TRUE), {}, FALSE), p.current.text, static)
        s == parse_function_signature(consume(a, "("), FALSE, p.current.text, static)
        locals == Last(s.p.suites).locals
        b == Leave(s.p)
        body == parse_suite(b, locals, FALSE, FALSE)
    IN  IF ~check(p, "identifier") THEN R(Reported(p), Null)
        ELSE IF s.n.has_body THEN R(BackIn(p, body.p), FunctionNode(p.current.text, s.n, body.n))
        ELSE R(BackIn(p, end_statement(b)), FunctionNode(p.current.text, s.n, Null))

(* What follows the body of a lambda.  Inside brackets the layout its body
   left is dropped with its levels of indentation; a slip keeps the levels. *)
AfterLambdaIfLevelsKept(p, multiline_context) ==
    IF multiline_context THEN SkipLayout(pop_multiline(p)) ELSE pop_multiline(p)
AfterLambda(p, multiline_context) ==
    LET q == SkipLayout(pop_multiline(p))
    IN  IF multiline_context THEN [q EXCEPT !.tk = pop_expression_indented_block(@)]
        ELSE pop_multiline(p)

parse_lambda(p) ==
    LET named == check(p, "identifier")
        multiline_context == Last(p.multiline_stack)
        a == push_multiline(match(p, "identifier"), FALSE)
        b == IF multiline_context
             THEN [a EXCEPT !.tk = push_expression_indented_block(@)] ELSE a
        c == consume(push_multiline(b, TRUE), "(")
        inside == InFunction(Enter(c, {}, FALSE), IF named THEN p.current.text ELSE "", p.current_function.static)
        s == parse_function_signature(inside, TRUE, "", FALSE)
        d == [Leave(s.p) EXCEPT !.in_lambda = TRUE, !.can_break = FALSE, !.can_continue = FALSE]
        body == parse_suite(d, Last(s.p.suites).locals, TRUE, FALSE)
    IN  R([AfterLambda(body.p, multiline_context) EXCEPT
              !.current_function = p.current_function, !.in_lambda = p.in_lambda,
              !.can_break = p.can_break, !.can_continue = p.can_continue],
          [type |-> "lambda",
           function |-> FunctionNode(IF named THEN p.current.text ELSE "", s.n, body.n)])

(* What is static has no self. *)
parse_self(p) == R(IF p.current_function.static THEN Reported(p) ELSE p, [type |-> "self"])

(***************************************************************************)
(* parse_precedence.                                                       *)
(***************************************************************************)
Prefix(p) ==
    LET word == p.previous
    IN  CASE IsIdentifier(word) -> R(p, Identifier(word.text))
          [] word.type = "literal" -> R(p, Literal(word.text))
          [] word.type = "self" -> parse_self(p)
          [] word.type = "await" -> parse_await(p)
          [] word.type = "func" -> parse_lambda(p)
          [] word.type \in {"$", "%"} -> parse_get_node(p)
          [] word.type = "preload" -> parse_preload(p)
          [] word.type = "[" -> parse_array(p)
          [] word.type = "{" -> parse_dictionary(p)
          [] word.type = "(" -> parse_grouping(p)
          [] OTHER -> parse_unary_operator(p)

parse_precedence(p, level, can_assign, stop_on_assign) ==
    LET q == IF p.current.type \in {"(", "[", "{"} THEN push_multiline(p, TRUE) ELSE p
    IN  IF q.current.type \notin PrefixTokens /\ ~IsIdentifier(q.current) THEN R(q, Null)
        ELSE Infix(Prefix(advance(q)), level, can_assign, stop_on_assign)

Infix(r, level, can_assign, stop_on_assign) ==
    LET type == r.p.current.type
        q == advance(IF type \in {"(", "["} THEN push_multiline(r.p, TRUE) ELSE r.p)
        left == r.n
        next == CASE type \in BinaryTokens -> parse_binary_operator(q, left)
                  [] type \in AssignmentTokens -> parse_assignment(q, left, can_assign)
                  [] type = "if" -> parse_ternary_operator(q, left)
                  [] type = "not" -> parse_binary_not_in_operator(q, left)
                  [] type = "as" -> parse_cast(q, left)
                  [] type = "is" -> parse_type_test(q, left)
                  [] type = "." -> parse_attribute(q, left)
                  [] type = "[" -> parse_subscript(q, left)
                  [] OTHER -> parse_call(q, left)
    IN  IF \/ level > precedence(type)
           \/ r.n = Null
           \/ stop_on_assign /\ type = "="
           \/ r.p.lambda_ended
        THEN r
        ELSE Infix(next, level, can_assign, stop_on_assign)

(***************************************************************************)
(* Types.                                                                  *)
(***************************************************************************)
RECURSIVE ContainerTypes(_, _), TypeChain(_, _)
ContainerTypes(p, types) ==
    LET r == parse_type(p, FALSE)
        nested == r.n.containers # <<>>
        q == IF nested THEN Reported(r.p) ELSE r.p
        list == IF nested THEN types ELSE Append(types, r.n.chain)
    IN  IF r.n = Null THEN R(Reported(r.p), Null)
        ELSE IF check(q, ",") THEN ContainerTypes(advance(q), list)
        ELSE R(q, [containers |-> list])

TypeChain(p, chain) ==
    LET a == advance(p)
        b == consume(a, "identifier")
    IN  IF ~check(p, ".") THEN R(p, [type |-> "type", chain |-> chain, containers |-> <<>>])
        ELSE TypeChain(b, IF check(a, "identifier") THEN Append(chain, a.current.text) ELSE chain)

parse_type(p, allow_void) ==
    LET name == p.current.text
        a == advance(p)
        elements == ContainerTypes(advance(a), <<>>)
    IN  IF check(p, "void")
        THEN IF allow_void THEN R(a, [type |-> "type", chain |-> <<"void">>, containers |-> <<>>])
             ELSE R(Reported(a), Null)
        ELSE IF ~check(p, "identifier") THEN R(p, Null)
        ELSE IF ~check(a, "[") THEN TypeChain(a, <<name>>)
        ELSE R(consume(elements.p, "]"),
               IF elements.n = Null THEN Null
               ELSE [type |-> "type", chain |-> <<name>>, containers |-> elements.n.containers])

(***************************************************************************)
(* Annotations wait in p for what they are before.                         *)
(***************************************************************************)
ClassLevel == {"class", "variable", "constant", "signal", "function"}
Info(targets, least, most) == [targets |-> targets, least |-> least, most |-> most]
AnyNumber == 1000   \* of arguments

(* What each may stand before and how many arguments it has. *)
valid_annotations ==
    "@tool" :> Info({"script"}, 0, 0)
    @@ "@static_unload" :> Info({"script"}, 0, 0)
    @@ "@icon" :> Info({"script"}, 1, 1)
    @@ "@abstract" :> Info({"script", "class", "function"}, 0, 0)
    @@ "@onready" :> Info({"variable"}, 0, 0)
    @@ "@export" :> Info({"variable"}, 0, 0)
    @@ "@export_range" :> Info({"variable"}, 2, AnyNumber)
    @@ "@export_group" :> Info({"standalone"}, 1, 2)
    @@ "@warning_ignore" :> Info(ClassLevel \cup {"statement"}, 1, AnyNumber)
    @@ "@rpc" :> Info({"function"}, 0, 4)
applies_to(annotation, targets) == valid_annotations[annotation.name].targets \cap targets # {}
Annotation(name, arguments) == [type |-> "annotation", name |-> name, arguments |-> arguments]
Annotated(n, annotations) ==
    LET before == IF "annotations" \in DOMAIN n THEN n.annotations ELSE <<>>
    IN  IF annotations = <<>> THEN n ELSE [annotations |-> before \o annotations] @@ n

validate_annotation_arguments(annotation) ==
    LET info == valid_annotations[annotation.name]
    IN  /\ Len(annotation.arguments) \in info.least..info.most
        /\ annotation.name = "@icon" => IsString(annotation.arguments[1])

(* Arguments up to the bracket; one that is missing makes it no annotation. *)
RECURSIVE AnnotationArguments(_, _, _)
AnnotationArguments(p, arguments, valid) ==
    LET r == Expected(parse_expression(p, FALSE))
        missing == r.n = Null
        list == IF missing THEN arguments ELSE Append(arguments, r.n)
    IN  IF check(p, ")") THEN [p |-> p, arguments |-> arguments, valid |-> valid]
        ELSE IF check(r.p, ",") THEN AnnotationArguments(advance(r.p), list, valid /\ ~missing)
        ELSE [p |-> r.p, arguments |-> list, valid |-> valid /\ ~missing]

parse_annotation(p, valid_targets) ==
    LET name == p.previous.text
        bare == Annotation(name, <<>>)
        valid == name \in DOMAIN valid_annotations /\ applies_to(bare, valid_targets)
        a == IF valid THEN p ELSE Reported(p)
        r == IF check(a, "(") THEN AnnotationArguments(advance(push_multiline(a, TRUE)), <<>>, valid)
             ELSE [p |-> a, arguments |-> <<>>, valid |-> valid]
        b == IF check(a, "(") THEN consume(pop_multiline(r.p), ")") ELSE a
        annotation == [bare EXCEPT !.arguments = r.arguments]
        c == match(b, "newline")
    IN  IF ~r.valid THEN R(c, Null)
        ELSE IF validate_annotation_arguments(annotation) THEN R(c, annotation)
        ELSE R(Reported(c), Null)

push_annotation(p, annotation) == [p EXCEPT !.annotation_stack = Append(@, annotation)]

RECURSIVE clear_unused_annotations(_)
clear_unused_annotations(p) ==
    IF p.annotation_stack = <<>> THEN p
    ELSE clear_unused_annotations([Reported(p) EXCEPT !.annotation_stack = Tail(@)])

(* The annotations for what comes next, up to one that cannot be for it:
   that one and all before it are reported. *)
AfterMisplaced(p, annotations) == clear_unused_annotations([Reported(p) EXCEPT !.annotation_stack = annotations])
consume_annotations(p, target) ==
    LET stack == p.annotation_stack
        Apply(i) == \A j \in i..Len(stack) : applies_to(stack[j], {target})
        from == CHOOSE i \in 1..(Len(stack) + 1) : Apply(i) /\ (i > 1 => ~Apply(i - 1))
        rest == SubSeq(stack, 1, from - 1)
    IN  R(IF rest = <<>> THEN [p EXCEPT !.annotation_stack = <<>>] ELSE AfterMisplaced(p, rest),
          SubSeq(stack, from, Len(stack)))

(* One that stands alone has its line to itself. *)
OnOwnLine(p) == IF p.previous.type = "newline" THEN p ELSE Reported(p)

(***************************************************************************)
(* Variables, constants and properties.                                    *)
(***************************************************************************)
Variable(name, initializer) ==
    [type |-> "variable", name |-> name, initializer |-> initializer, specifier |-> Null,
     infer |-> FALSE, static |-> FALSE, property |-> "none", setter |-> Null, getter |-> Null]
Constant(name, initializer) ==
    [type |-> "constant", name |-> name, initializer |-> initializer, specifier |-> Null,
     infer |-> FALSE]

(* An accessor is the name of a function or, inline, has a body of its own. *)
Accessor(name, parameters, body) ==
    FunctionNode(name, [parameters |-> parameters, return_type |-> Null], body)
NamedAccessor(p) ==
    LET a == consume(p, "=")
    IN  R(consume(a, "identifier"), IF check(a, "identifier") THEN Identifier(a.current.text) ELSE Null)

parse_property_setter(p, variable) ==
    LET a == consume(p, "(")
        named == check(a, "identifier")
        b == consume(consume(consume(a, "identifier"), ")"), ":")
        inside == InFunction(b, "@setter", variable.static)
        body == parse_suite(inside, {a.current.text}, FALSE, FALSE)
        parameter == [type |-> "parameter", name |-> a.current.text, default |-> Null,
                      specifier |-> Null, infer |-> FALSE]
    IN  IF variable.property = "setget" THEN NamedAccessor(p)
        ELSE IF named THEN R(BackIn(p, body.p), Accessor("@setter", <<parameter>>, body.n)) ELSE R(b, Null)

parse_property_getter(p, variable) ==
    LET a == IF check(p, "(") THEN consume(advance(p), ")") ELSE p
        inside == InFunction(consume(a, ":"), "@getter", variable.static)
        body == parse_suite(inside, {}, FALSE, FALSE)
    IN  IF variable.property = "setget" THEN NamedAccessor(p)
        ELSE R(BackIn(p, body.p), Accessor("@getter", <<>>, body.n))

(* One or two accessors, in either order; used has those seen before. *)
RECURSIVE Accessors(_, _, _, _, _)
Accessors(p, name, variable, need_indent, used) ==
    LET setter == parse_property_setter(p, variable)
        getter == parse_property_getter(p, variable)
        r == IF name \notin {"get", "set"} \/ name \in used THEN R(Reported(p), variable)
             ELSE IF name = "set" THEN R(setter.p, [variable EXCEPT !.setter = setter.n])
             ELSE R(getter.p, [variable EXCEPT !.getter = getter.n])
        a == r.p
        setget == variable.property = "setget"
        first == used = {}
        b == IF ~first \/ ~setget THEN a
             ELSE LET c == match(a, ",")
                  IN  IF check(c, "newline") /\ ~need_indent
                      THEN Reported(advance(c)) ELSE match(c, "newline")
    IN  IF first /\ setget /\ ~check(a, ",") THEN r
        ELSE IF ~check(b, "identifier") THEN R(b, r.n)
        ELSE IF first THEN Accessors(advance(b), b.current.text, r.n, need_indent, {name})
        ELSE R(advance(b), r.n)

parse_property(p, variable, need_indent) ==
    LET a == IF need_indent THEN consume(p, "indent") ELSE p
        b == advance(a)
        setget == check(b, "=")
        c == IF ~setget /\ ~need_indent THEN Reported(b) ELSE b
        kind == [variable EXCEPT !.property = IF setget THEN "setget" ELSE "inline"]
        d == Accessors(c, a.current.text, kind, need_indent, {})
        e == IF setget THEN end_statement(d.p) ELSE d.p
    IN  IF need_indent /\ ~check(p, "indent") THEN R(a, Null)
        ELSE IF ~check(a, "identifier") THEN R(Reported(a), Null)
        ELSE R(IF need_indent THEN consume(e, "dedent") ELSE e, d.n)

parse_variable(p, static, allow_property) ==
    LET name == p.current.text
        a == advance(p)
        b == match(a, ":")
        typed == check(a, ":") /\ ~check(b, "=")
        property == /\ typed /\ allow_property
                    /\ check(b, "newline") \/ b.current.text \in {"get", "set"}
        c == IF typed THEN parse_type(b, FALSE) ELSE R(b, Null)
        d == IF check(c.p, "=") THEN Expected(parse_expression(advance(c.p), FALSE)) ELSE R(c.p, Null)
        e == match(d.p, ":")
        new == [Variable(name, Null) EXCEPT !.static = static]
        variable == [new EXCEPT !.initializer = d.n, !.specifier = c.n, !.infer = check(a, ":") /\ ~typed]
    IN  IF ~check(p, "identifier") THEN R(Reported(p), Null)
        ELSE IF property
        THEN parse_property(match(b, "newline"), new, check(b, "newline"))
        ELSE IF typed /\ check(b, "newline") THEN R(Reported(b), Null)
        ELSE IF allow_property /\ check(d.p, ":")
        THEN parse_property(match(e, "newline"), variable, check(e, "newline"))
        ELSE R(end_statement(d.p), variable)

parse_constant(p) ==
    LET a == advance(p)
        b == match(a, ":")
        typed == check(a, ":") /\ ~check(b, "=")
        c == IF typed THEN parse_type(b, FALSE) ELSE R(b, Null)
        r == parse_expression(advance(c.p), FALSE)
    IN  IF ~check(p, "identifier") THEN R(Reported(p), Null)
        ELSE IF ~check(c.p, "=") THEN R(Reported(c.p), Null)
        ELSE IF r.n = Null THEN R(Reported(r.p), Null)
        ELSE R(end_statement(r.p),
               [Constant(p.current.text, r.n) EXCEPT
                   !.specifier = c.n, !.infer = check(a, ":") /\ ~typed])

(***************************************************************************)
(* Statements.                                                             *)
(***************************************************************************)
RECURSIVE parse_statement(_), Statements(_, _, _), parse_if(_)

(* The statements of a suite, whose names are in scope from there on. *)
Statements(p, statements, multiline) ==
    LET s == parse_statement(p)
        list == IF s.n = Null THEN statements ELSE Append(statements, s.n)
        q == IF s.n.type \in {"variable", "constant"} THEN Declared(s.p, s.n.name) ELSE s.p
    IN  IF is_at_end(p) \/ (~multiline /\ p.previous.type = ";" /\ check(p, "newline"))
        THEN R(p, statements)
        ELSE IF /\ multiline \/ q.previous.type = ";"
                /\ ~check(q, "dedent") /\ ~q.lambda_ended /\ ~is_at_end(q)
        THEN Statements(q, list, multiline)
        ELSE R(q, list)

parse_suite(p, locals, for_lambda, in_loop) ==
    LET looped == in_loop \/ (~for_lambda /\ InLoop(p))
        multiline == check(p, "newline")
        a == Enter(match(p, "newline"), locals, looped)
        r == Statements(IF multiline THEN advance(a) ELSE a, <<>>, multiline)
        b == IF multiline
             THEN IF r.p.lambda_ended THEN match(r.p, "dedent") ELSE consume(r.p, "dedent")
             ELSE IF r.p.previous.type = ";" THEN consume(r.p, "newline") ELSE r.p
    IN  IF multiline /\ ~check(a, "indent") THEN R(Leave(Reported(a)), Suite(<<>>, looped))
        ELSE R(Leave([b EXCEPT !.lambda_ended = @ \/ for_lambda]), Suite(r.n, looped))

(* The body of a loop may break and continue. *)
LoopBody(p, locals) ==
    LET r == parse_suite([p EXCEPT !.can_break = TRUE, !.can_continue = TRUE], locals, FALSE, TRUE)
    IN  R([r.p EXCEPT !.can_break = p.can_break, !.can_continue = p.can_continue], r.n)

parse_for(p) ==
    LET named == check(p, "identifier")
        name == p.current.text
        a == consume(p, "identifier")
        b == IF check(a, ":") THEN Expected(parse_type(advance(a), FALSE)) ELSE R(a, Null)
        list == Expected(parse_expression(consume(b.p, "in"), FALSE))
        c == consume(list.p, ":")
        d == IF named /\ has_local(c, name) THEN Reported(c) ELSE c
        body == LoopBody(d, IF named THEN {name} ELSE {})
    IN  R(body.p, [type |-> "for", variable |-> IF named THEN name ELSE "",
                   specifier |-> b.n, list |-> list.n, loop |-> body.n])

parse_while(p) ==
    LET condition == Expected(parse_expression(p, FALSE))
        body == LoopBody(consume(condition.p, ":"), {})
    IN  R(body.p, [type |-> "while", condition |-> condition.n, loop |-> body.n])

(* An elif is an if alone in an else block, which is not marked as in a loop. *)
parse_if(p) ==
    LET condition == Expected(parse_expression(p, FALSE))
        true_block == parse_suite(consume(condition.p, ":"), {}, FALSE, FALSE)
        q == true_block.p
        elif == parse_if(Enter(advance(q), {}, FALSE))
        else == parse_suite(consume(advance(q), ":"), {}, FALSE, FALSE)
        If(false_block) == [type |-> "if", condition |-> condition.n,
                            true_block |-> true_block.n, false_block |-> false_block]
    IN  IF check(q, "elif") THEN R(Leave(elif.p), If(Suite(<<elif.n>>, FALSE)))
        ELSE IF check(q, "else") THEN R(else.p, If(else.n))
        ELSE R(q, If(Null))

(***************************************************************************)
(* match: the binds of a pattern are gathered in p.                        *)
(***************************************************************************)
RECURSIVE parse_match_pattern(_), ArrayPatterns(_, _, _), DictionaryPatterns(_, _, _)
Pattern(kind) == [type |-> "pattern", kind |-> kind]

ArrayPatterns(p, patterns, rest_used) ==
    LET r == parse_match_pattern(p)
        rest == r.n.kind = "rest"
        a == IF r.n = Null \/ ~rest_used THEN r.p ELSE Reported(r.p)
        list == IF r.n = Null THEN patterns ELSE Append(patterns, r.n)
        used == rest_used \/ (r.n # Null /\ rest)
    IN  IF is_at_end(p) \/ check(p, "]") THEN R(p, [patterns |-> patterns, rest_used |-> rest_used])
        ELSE IF check(a, ",") THEN ArrayPatterns(advance(a), list, used)
        ELSE R(a, [patterns |-> list, rest_used |-> used])

DictionaryPatterns(p, entries, rest_used) ==
    LET key == Expected(parse_expression(p, FALSE))
        value == parse_match_pattern(advance(key.p))
        wrong == value.n # Null /\ (rest_used \/ value.n.kind = "rest")
        r == IF check(p, "..")
             THEN R(IF rest_used THEN Reported(advance(p)) ELSE advance(p),
                    IF rest_used THEN entries ELSE Append(entries, [key |-> Null, value |-> Pattern("rest")]))
             ELSE IF ~check(key.p, ":") THEN R(key.p, Append(entries, [key |-> key.n, value |-> Null]))
             ELSE IF wrong THEN R(Reported(value.p), entries)
             ELSE R(value.p, IF value.n = Null THEN entries
                             ELSE Append(entries, [key |-> key.n, value |-> value.n]))
        used == rest_used \/ check(p, "..")
    IN  IF is_at_end(p) \/ check(p, "}") THEN R(p, [entries |-> entries, rest_used |-> rest_used])
        ELSE IF check(r.p, ",") THEN DictionaryPatterns(advance(r.p), r.n, used)
        ELSE R(r.p, [entries |-> r.n, rest_used |-> used])

parse_match_pattern(p) ==
    LET a == advance(p)
        name == a.current.text
        b == advance(a)
        opened == advance(push_multiline(p, TRUE))
        array == ArrayPatterns(opened, <<>>, FALSE)
        dictionary == DictionaryPatterns(opened, <<>>, FALSE)
        expression == parse_expression(p, FALSE)
    IN  CASE check(p, "var") ->
                IF ~check(a, "identifier") THEN R(Reported(a), Null)
                ELSE IF name \in p.binds \/ has_local(b, name) THEN R(Reported(b), Null)
                ELSE R([b EXCEPT !.binds = @ \cup {name}],
                       [type |-> "pattern", kind |-> "bind", bind |-> name])
          [] check(p, "_") -> R(a, Pattern("wildcard"))
          [] check(p, "..") -> R(a, Pattern("rest"))
          [] check(p, "[") ->
                R(pop_multiline(consume(array.p, "]")),
                  [type |-> "pattern", kind |-> "array", array |-> array.n.patterns,
                   rest_used |-> array.n.rest_used])
          [] check(p, "{") ->
                R(pop_multiline(consume(dictionary.p, "}")),
                  [type |-> "pattern", kind |-> "dictionary", dictionary |-> dictionary.n.entries,
                   rest_used |-> dictionary.n.rest_used])
          [] OTHER ->
                IF expression.n = Null THEN R(Reported(expression.p), Null)
                ELSE R(expression.p, [type |-> "pattern", kind |-> "expression",
                                      expression |-> expression.n])

(* Patterns of a branch and the names the first one binds. *)
RECURSIVE Patterns(_, _, _)
Patterns(p, patterns, binds) ==
    LET r == parse_match_pattern([p EXCEPT !.binds = {}])
        bound == IF patterns = <<>> THEN r.p.binds ELSE binds
        several == patterns # <<>> /\ (binds # {} \/ r.p.binds # {})
        a == IF several THEN Reported(r.p) ELSE r.p
        b == IF r.n.kind = "rest" THEN Reported(a) ELSE a
        q == IF r.n = Null THEN r.p ELSE b
        list == IF r.n = Null THEN patterns ELSE Append(patterns, r.n)
        names == IF r.n = Null THEN binds ELSE bound
    IN  IF check(q, ",") THEN Patterns(advance(q), list, names)
        ELSE R(q, [patterns |-> list, binds |-> names])

RECURSIVE SkipLine(_)
SkipLine(p) ==
    IF is_at_end(p) THEN p ELSE IF check(p, "newline") THEN advance(p) ELSE SkipLine(advance(p))

parse_match_branch(p) ==
    LET r == Patterns(p, <<>>, {})
        a == IF r.n.patterns = <<>> THEN Reported(r.p) ELSE r.p
        guard == IF check(a, "when")
                 THEN Expected(parse_expression(Enter(advance(a), r.n.binds, FALSE), FALSE))
                 ELSE R(a, Null)
        b == IF check(a, "when") THEN Leave(guard.p) ELSE a
        body == parse_suite(advance(b), r.n.binds, FALSE, FALSE)
        Branch(block) == [type |-> "branch", patterns |-> r.n.patterns, guard |-> guard.n,
                          block |-> block]
    IN  IF ~check(b, ":") THEN R(SkipLine(Reported(b)), Branch(Suite(<<>>, InLoop(p))))
        ELSE R(body.p, Branch(body.n))

RECURSIVE Branches(_, _)
Branches(p, branches) ==
    LET r == parse_match_branch(p)
    IN  IF check(p, "dedent") \/ is_at_end(p) THEN R(p, branches)
        ELSE IF check(p, "pass") THEN Branches(consume(advance(p), "newline"), branches)
        ELSE Branches(r.p, Append(branches, r.n))

parse_match(p) ==
    LET test == Expected(parse_expression(p, FALSE))
        a == consume(consume(test.p, ":"), "newline")
        r == Branches(advance(a), <<>>)
        Match(branches) == [type |-> "match", test |-> test.n, branches |-> branches]
    IN  IF ~check(a, "indent") THEN R(Reported(a), Match(<<>>))
        ELSE R(consume(r.p, "dedent"), Match(r.n))

parse_assert(p) ==
    LET condition == parse_expression(consume(push_multiline(p, TRUE), "("), FALSE)
        a == match(condition.p, ",")
        message == IF check(condition.p, ",") /\ ~check(a, ")")
                   THEN parse_expression(a, FALSE) ELSE R(a, [type |-> "none"])
        b == IF message.n.type = "none" THEN a ELSE match(message.p, ",")
    IN  IF condition.n = Null THEN R(pop_multiline(Reported(condition.p)), Null)
        ELSE IF message.n = Null THEN R(pop_multiline(Reported(message.p)), Null)
        ELSE R(end_statement(consume(pop_multiline(b), ")")),
               [type |-> "assert", condition |-> condition.n])

parse_return(p) ==   \* with nothing from what makes an instance or loads a script
    LET constructs == p.current_function.name \in {"_init", "_static_init"}
        q == IF ~is_statement_end(p) /\ constructs THEN Reported(p) ELSE p
        r == IF ~is_statement_end(p) \/ (p.in_lambda /\ ~is_statement_end_token(p))
             THEN parse_expression(q, FALSE) ELSE R(q, Null)
    IN  R(end_statement(r.p), [type |-> "return", return_value |-> r.n])

(* In a lambda, what begins no statement may go on with the expression the
   lambda is in. *)
parse_expression_statement(p) ==
    LET r == parse_expression(p, TRUE)
        q == end_statement(r.p)
    IN  IF r.n # Null THEN R(IF r.n.type = "lambda" THEN Reported(q) ELSE q, r.n)
        ELSE IF r.p.in_lambda THEN R([r.p EXCEPT !.lambda_ended = TRUE], Null)
        ELSE R(Reported(advance(r.p)), Null)

(* Before a statement; its own annotations go with it. *)
StatementAnnotation(p) ==
    LET r == parse_annotation(p, {"statement", "standalone"})
    IN  IF r.n = Null THEN r
        ELSE IF applies_to(r.n, {"standalone"}) THEN R(Reported(OnOwnLine(r.p)), Null)
        ELSE R(push_annotation(r.p, r.n), Null)

parse_statement(from) ==
    LET t == IF check(from, "annotation") THEN R(from, <<>>) ELSE consume_annotations(from, "statement")
        p == t.p
        a == advance(p)
        jumps == IF check(p, "break") THEN p.can_break ELSE p.can_continue
        r == CASE check(p, "pass") -> R(end_statement(a), [type |-> "pass"])
               [] check(p, "breakpoint") -> R(end_statement(a), [type |-> "breakpoint"])
               [] check(p, "break") \/ check(p, "continue") ->
                     R(end_statement(IF jumps THEN a ELSE Reported(a)), [type |-> p.current.type])
               [] check(p, "var") -> parse_variable(a, FALSE, FALSE)
               [] check(p, "const") -> parse_constant(a)
               [] check(p, "if") -> parse_if(a)
               [] check(p, "for") -> parse_for(a)
               [] check(p, "while") -> parse_while(a)
               [] check(p, "match") -> parse_match(a)
               [] check(p, "return") -> parse_return(a)
               [] check(p, "assert") -> parse_assert(a)
               [] check(p, "annotation") -> StatementAnnotation(a)
               [] OTHER -> parse_expression_statement(p)
    IN  R(synchronize(r.p), IF r.n = Null THEN Null ELSE Annotated(r.n, t.n))

(***************************************************************************)
(* Classes.                                                                *)
(***************************************************************************)
Class(name) == [type |-> "class", name |-> name, extends |-> <<>>, members |-> <<>>]

RECURSIVE parse_extends(_, _), parse_class_body(_, _, _, _)
parse_extends(p, class) ==
    LET c == [class EXCEPT !.extends = Append(@, p.current.text)]
        a == advance(p)
    IN  IF ~check(p, "identifier") THEN R(Reported(p), class)
        ELSE IF check(a, ".") THEN parse_extends(advance(a), c)
        ELSE R(a, c)

parse_class(p) ==
    LET named == check(p, "identifier")
        class == Class(IF named THEN p.current.text ELSE "")
        a == consume(p, "identifier")
        b == IF check(a, "extends") THEN parse_extends(advance(a), class) ELSE R(a, class)
        c == consume(b.p, ":")
        multiline == check(c, "newline")
        d == IF multiline THEN advance(advance(c)) ELSE c
        again == b.n.extends # <<>>
        e == IF check(d, "extends")
             THEN LET x == parse_extends(IF again THEN Reported(advance(d)) ELSE advance(d), b.n)
                  IN  R(end_statement(x.p), x.n)
             ELSE R(d, b.n)
        body == parse_class_body(e.p, e.n, multiline, FALSE)
    IN  IF multiline /\ ~check(advance(c), "indent") THEN R(Reported(advance(c)), b.n)
        ELSE R(IF multiline THEN consume(body.p, "dedent") ELSE body.p, body.n)

(* parse_class_member: a member without a name is left out, a second one of
   a name is reported; t has the annotations before it. *)
Target(word) == CASE word = "var" -> "variable" [] word = "const" -> "constant"
                  [] word = "func" -> "function" [] word \in {"signal", "class"} -> word [] OTHER -> "none"
WithAnnotations(t, r) == IF r.n = Null THEN r ELSE R(r.p, Annotated(r.n, t.n))
Member(class, r) ==
    LET twice == \E i \in DOMAIN class.members : class.members[i].name = r.n.name
    IN  IF r.n = Null \/ r.n.name = "" THEN R(r.p, class)
        ELSE IF twice THEN R(Reported(r.p), class)
        ELSE R(r.p, [class EXCEPT !.members = Append(@, r.n)])

(* The names in an enum without a name are members of the class. *)
RECURSIVE EnumValues(_, _, _)
EnumValues(p, class, enum) ==
    LET name == p.current.text
        a == consume(p, "identifier")
        custom == check(p, "identifier") /\ check(a, "=")
        value == IF custom THEN Expected(parse_expression(advance(a), FALSE)) ELSE R(a, Null)
        InEnum == \E i \in DOMAIN enum.values : enum.values[i].name = name
        InClass == enum.name = "" /\ \E i \in DOMAIN class.members : class.members[i].name = name
        b == IF check(p, "identifier") /\ (InEnum \/ InClass) THEN Reported(value.p) ELSE value.p
        item == [type |-> "enum_value", name |-> name, custom_value |-> value.n,
                 index |-> Len(enum.values)]
        e == IF check(p, "identifier") THEN [enum EXCEPT !.values = Append(@, item)] ELSE enum
        c == IF check(p, "identifier") /\ enum.name = ""
             THEN [class EXCEPT !.members = Append(@, item)] ELSE class
    IN  IF check(p, "}") THEN [p |-> p, class |-> class, enum |-> enum]
        ELSE IF check(b, ",") THEN EnumValues(advance(b), c, e)
        ELSE [p |-> b, class |-> c, enum |-> e]

parse_enum(p, class) ==
    LET named == check(p, "identifier")
        enum == [type |-> "enum", name |-> IF named THEN p.current.text ELSE "", values |-> <<>>]
        r == EnumValues(consume(push_multiline(match(p, "identifier"), TRUE), "{"), class, enum)
    IN  Member(r.class, R(end_statement(consume(pop_multiline(r.p), "}")), r.enum))

RECURSIVE SignalParameters(_, _)
SignalParameters(p, parameters) ==
    LET r == parse_parameter(p)
        twice == \E i \in DOMAIN parameters : parameters[i].name = r.n.name
        q == IF r.n.default # Null \/ twice THEN Reported(r.p) ELSE r.p
        list == IF twice THEN parameters ELSE Append(parameters, r.n)
    IN  IF check(p, ")") THEN R(p, parameters)
        ELSE IF r.n = Null THEN R(Reported(r.p), parameters)
        ELSE IF check(q, ",") /\ ~is_at_end(advance(q)) THEN SignalParameters(advance(q), list)
        ELSE R(match(q, ","), list)
parse_signal(p) ==
    LET a == advance(p)
        r == SignalParameters(advance(push_multiline(a, TRUE)), <<>>)
        Signal(parameters) ==
            [type |-> "signal", name |-> p.current.text, parameters |-> parameters]
    IN  IF ~check(p, "identifier") THEN R(Reported(p), Null)
        ELSE IF ~check(a, "(") THEN R(end_statement(a), Signal(<<>>))
        ELSE R(end_statement(consume(pop_multiline(r.p), ")")), Signal(r.n))

(* After "static" the next member is static, and so are the accessors it
   has inline. *)
WithStatic(n, static) ==
    LET Made(accessor) == IF accessor.type = "function" THEN [accessor EXCEPT !.static = static] ELSE accessor
    IN  CASE n.type = "function" -> [n EXCEPT !.static = static]
          [] n.type = "variable" -> [n EXCEPT !.static = static, !.setter = Made(@), !.getter = Made(@)]
          [] OTHER -> n
StaticMember(r, static) == R(r.p, WithStatic(r.n, static))

(* A group of members, or what waits for the next member. *)
ClassAnnotation(p, class) ==
    LET r == parse_annotation(p, ClassLevel \cup {"standalone"})
    IN  IF r.n = Null THEN R(r.p, class)
        ELSE IF applies_to(r.n, {"standalone"})
        THEN R(OnOwnLine(r.p), [class EXCEPT !.members = Append(@, r.n)])
        ELSE R(push_annotation(r.p, r.n), class)

(* A string in a class is a comment of several lines. *)
CommentString(p) == consume(advance(p), "newline")

parse_class_body(p, class, multiline, static) ==
    LET a == advance(p)
        t == consume_annotations(a, Target(p.current.type))
        With(r) == Member(class, WithAnnotations(t, r))
        r == CASE check(p, "var") -> With(StaticMember(parse_variable(t.p, static, TRUE), static))
               [] check(p, "const") -> With(parse_constant(t.p))
               [] check(p, "signal") -> With(parse_signal(t.p))
               [] check(p, "func") -> With(StaticMember(parse_function(t.p, static), static))
               [] check(p, "class") -> With(parse_class(t.p))
               [] check(p, "enum") -> parse_enum(t.p, class)
               [] check(p, "static") ->
                     R(IF check(a, "func") \/ check(a, "var") THEN a ELSE Reported(a), class)
               [] check(p, "annotation") -> ClassAnnotation(a, class)
               [] check(p, "pass") -> R(end_statement(a), class)
               [] IsString(p.current) -> R(CommentString(p), class)
               [] OTHER -> R(Reported(a), class)
    IN  IF is_at_end(p) \/ check(p, "dedent") THEN R(p, class)
        ELSE IF multiline
        THEN parse_class_body(synchronize(r.p), r.n, multiline, check(p, "static"))
        ELSE R(synchronize(r.p), r.n)

(* What waits is for the script: a line about it, or the end, comes next. *)
ToHead(r) == R([r.p EXCEPT !.annotation_stack = <<>>], Annotated(r.n, r.p.annotation_stack))

(* @tool, @icon and @static_unload, each once. *)
AboutScript(r, annotation) ==
    LET before == IF "about" \in DOMAIN r.n THEN r.n.about ELSE <<>>
    IN  IF \E i \in DOMAIN before : before[i].name = annotation.name THEN R(Reported(r.p), r.n)
        ELSE R(r.p, [about |-> Append(before, annotation)] @@ r.n)

(* The annotations at the top: before a member, or a group, the head of the
   script is over. *)
RECURSIVE HeadAnnotations(_)
HeadAnnotations(r) ==
    LET p == r.p
        x == parse_annotation(advance(p), {"script", "standalone"} \cup ClassLevel)
        Over(next) == [p |-> next.p, n |-> next.n, over |-> TRUE]
    IN  IF IsString(p.current) THEN HeadAnnotations(R(CommentString(p), r.n))
        ELSE IF ~check(p, "annotation") THEN [p |-> p, n |-> r.n, over |-> FALSE]
        ELSE IF x.n = Null THEN HeadAnnotations(R(x.p, r.n))
        ELSE IF applies_to(x.n, {"class"}) THEN HeadAnnotations(R(push_annotation(x.p, x.n), r.n))
        ELSE IF applies_to(x.n, {"script"}) THEN HeadAnnotations(AboutScript(ToHead(R(x.p, r.n)), x.n))
        ELSE IF applies_to(x.n, {"standalone"})
        THEN Over(R(OnOwnLine(x.p), [r.n EXCEPT !.members = Append(@, x.n)]))
        ELSE Over(R(push_annotation(x.p, x.n), r.n))

(* The head of a script: class_name and extends, each once, in any order. *)
RECURSIVE ScriptHead(_, _)
ScriptHead(from, before) ==
    LET head == from.current.type \in {"class_name", "extends", "eof"}
        t == IF head THEN ToHead(R(from, before)) ELSE R(from, before)
        p == t.p
        class == t.n
        a == advance(p)
        named == check(a, "identifier")
        b == consume(a, "identifier")
        named_class == IF named THEN [class EXCEPT !.name = a.current.text] ELSE class
        c == IF check(b, "extends") THEN parse_extends(advance(b), named_class) ELSE R(b, named_class)
        x == parse_extends(a, class)
    IN  IF check(p, "class_name")
        THEN IF class.name # "" THEN ScriptHead(synchronize(Reported(a)), class)
             ELSE ScriptHead(synchronize(end_statement(c.p)), c.n)
        ELSE IF check(p, "extends")
        THEN IF class.extends # <<>> THEN ScriptHead(synchronize(Reported(a)), class)
             ELSE ScriptHead(synchronize(end_statement(x.p)), x.n)
        ELSE IF IsString(p.current) THEN ScriptHead(synchronize(CommentString(p)), class)
        ELSE R(synchronize(p), class)

(* A script is abstract once. *)
AbstractOnce(r) ==
    LET abstract == IF "annotations" \in DOMAIN r.n
                    THEN SelectSeq(r.n.annotations, LAMBDA x : x.name = "@abstract") ELSE <<>>
    IN  R(IF Len(abstract) > 1 THEN Reported(r.p) ELSE r.p, r.n)

RECURSIVE SkipFirst(_)
SkipFirst(p) ==
    CASE p.current.type = "error" -> SkipFirst(Scanned(Reported(p)))
      [] p.current.type = "newline" -> SkipFirst(Scanned(p))
      [] OTHER -> p

NewParser(tk) ==
    LET first == scan(tk)
    IN  [tk |-> first.t, current |-> first.token,
         previous |-> [first.token EXCEPT !.type = "none"],
         multiline_stack |-> <<>>, suites |-> <<>>, binds |-> {}, current_function |-> NoFunction,
         annotation_stack |-> <<>>,
         in_lambda |-> FALSE, lambda_ended |-> FALSE, panic_mode |-> FALSE,
         can_break |-> FALSE, can_continue |-> FALSE, errors |-> 0, past_end |-> FALSE]

parse_program(p) ==
    LET top == HeadAnnotations(R(p, Class("")))
        head == AbstractOnce(IF top.over THEN R(top.p, top.n) ELSE ScriptHead(top.p, top.n))
        r == parse_class_body(head.p, head.n, TRUE, FALSE)
    IN  R(clear_unused_annotations(IF is_at_end(r.p) THEN r.p ELSE Reported(r.p)), r.n)

Parsed(tk) ==
    LET r == parse_program(push_multiline(SkipFirst(NewParser(tk)), FALSE))
    IN  R(pop_multiline(r.p), r.n)

parse(source) == Parsed(TextTokenizer(source))
parse_binary(code) == Parsed(BufferTokenizer(code))
=============================================================================
