------------------------------ MODULE RuztaTreePrinter ------------------------------
(***************************************************************************)
(* RuztaTreePrinter: RuztaParser::TreePrinter, which shows the tree of a   *)
(* script to who works on the parser.  What is printed is a sequence of    *)
(* words; blanks between them are left out, and so are the class that      *)
(* "Self" names and the numbers of an enum, which the analyzer finds.  A   *)
(* printer is a record; each operator returns the next.                    *)
(***************************************************************************)
EXTENDS Integers, SequencesExt

LOCAL Nothing == [type |-> "null"]
LOCAL EndOfLine == "\n"
LevelOfIndent == "|   "

NewPrinter == [printed |-> <<>>, indent_level |-> 0, pending_indent |-> FALSE]

increase_indent(t) == [t EXCEPT !.indent_level = @ + 1]
decrease_indent(t) == [t EXCEPT !.indent_level = @ - 1]
push_text(t, words) ==
    LET indent == IF t.pending_indent THEN [i \in 1..t.indent_level |-> LevelOfIndent] ELSE <<>>
    IN  [t EXCEPT !.printed = @ \o indent \o words, !.pending_indent = FALSE]
push_line(t, words) ==
    LET u == IF words = <<>> THEN t ELSE push_text(t, words)
    IN  [u EXCEPT !.printed = Append(@, EndOfLine), !.pending_indent = TRUE]

(* What Show does for each of a list, with words between. *)
PrintAll(t, list, separator, Show(_, _)) ==
    LET Next(u, i) == Show(IF i = 1 \/ separator = <<>> THEN u ELSE push_text(u, separator), list[i])
    IN  FoldLeft(Next, t, [i \in DOMAIN list |-> i])

RECURSIVE print_expression(_, _), print_suite(_, _), print_match_pattern(_, _), print_class(_, _)

Comma == <<",">>
Expressions(t, list) == PrintAll(t, list, Comma, LAMBDA u, e : print_expression(u, e))

print_annotation(t, n) == push_line(Expressions(push_text(t, <<n.name, "(">>), n.arguments), <<")">>)
print_annotations(t, n) ==
    IF "annotations" \notin DOMAIN n THEN t
    ELSE PrintAll(t, n.annotations, <<>>, print_annotation)

print_array(t, n) == push_text(Expressions(push_text(t, <<"[">>), n.elements), <<"]">>)

print_assignment(t, n) ==
    push_line(print_expression(push_text(print_expression(t, n.assignee), <<n.op>>), n.assigned), <<>>)

print_await(t, n) == print_expression(push_text(t, <<"Await">>), n.element)

(* In brackets, to tell what belongs to what; a slip leaves them out. *)
Printed(op) == CASE op = "and" -> "AND" [] op = "or" -> "OR" [] op = "in" -> "IN" [] OTHER -> op
print_binary_op_if_bare(t, n) ==
    print_expression(push_text(print_expression(t, n.left), <<Printed(n.op)>>), n.right)
print_binary_op(t, n) ==
    LET left == print_expression(push_text(t, <<"(">>), n.left)
    IN  push_text(print_expression(push_text(left, <<Printed(n.op)>>), n.right), <<")">>)

print_unary_op(t, n) ==
    LET op == IF n.op = "not" THEN "NOT" ELSE n.op
    IN  push_text(print_expression(push_text(t, <<"(", op>>), n.operand), <<")">>)

print_ternary_op(t, n) ==
    LET a == print_expression(push_text(t, <<"(">>), n.true_expr)
        b == print_expression(push_text(a, <<")", "IF", "(">>), n.condition)
    IN  push_text(print_expression(push_text(b, <<")", "ELSE", "(">>), n.false_expr), <<")">>)

print_call(t, n) ==
    push_text(Expressions(push_text(print_expression(t, n.callee), <<"(">>), n.arguments), <<")">>)

print_type(t, n) ==
    push_text(t, IF n.chain = <<"void">> THEN <<"Void">>
                 ELSE [i \in 1..(2 * Len(n.chain) - 1) |-> IF i % 2 = 0 THEN "." ELSE n.chain[(i + 1) \div 2]])
print_cast(t, n) == print_type(push_text(print_expression(t, n.operand), <<"AS">>), n.cast_type)
print_type_test(t, n) == print_type(push_text(print_expression(t, n.operand), <<"IS">>), n.test_type)

print_subscript(t, n) ==
    LET base == print_expression(t, n.base)
    IN  IF n.type = "attribute" THEN push_text(base, <<".", n.name>>)
        ELSE push_text(print_expression(push_text(base, <<"[">>), n.index), <<"]">>)

print_dictionary(t, n) ==
    LET Entry(u, entry) ==
            push_line(print_expression(push_text(print_expression(u, entry.key), <<":">>), entry.value), Comma)
        entries == PrintAll(increase_indent(push_line(t, <<"{">>)), n.entries, <<>>, Entry)
    IN  push_text(decrease_indent(entries), <<"}">>)

print_identifier(t, name) == push_text(t, <<name>>)

print_get_node(t, n) == push_text(t, (IF n.use_dollar THEN <<"$">> ELSE <<>>) \o n.full_path)

(* The path is known once the analyzer has found it. *)
print_preload(t, n) == push_text(t, <<"Preload", "(", "<missing path>", ")">>)

print_parameter(t, n) ==
    LET a == print_identifier(t, n.name)
        b == IF n.specifier = Nothing THEN a ELSE print_type(push_text(a, <<":">>), n.specifier)
    IN  IF n.default = Nothing THEN b ELSE print_expression(push_text(b, <<"=">>), n.default)

print_function(t, n, context) ==
    LET s == print_annotations(t, n)
        a == push_text(IF n.static THEN push_text(s, <<"Static">>) ELSE s,
                       <<context, IF n.name = "" THEN "<anonymous>" ELSE n.name, "(">>)
        parameters == PrintAll(a, n.parameters, Comma, LAMBDA u, p : print_parameter(u, p))
    IN  decrease_indent(print_suite(increase_indent(push_line(parameters, <<")", ":">>)), n.body))

(* What a lambda captures is found by the analyzer. *)
print_lambda(t, n) == push_line(push_text(print_function(t, n.function, "Lambda"), <<"| captures [">>), <<"]">>)

print_expression(t, n) ==
    CASE n = Nothing -> push_text(t, <<"<invalid expression>">>)
      [] n.type = "array" -> print_array(t, n)
      [] n.type = "assignment" -> print_assignment(t, n)
      [] n.type = "await" -> print_await(t, n)
      [] n.type = "binary" -> print_binary_op(t, n)
      [] n.type = "call" -> print_call(t, n)
      [] n.type = "cast" -> print_cast(t, n)
      [] n.type = "dictionary" -> print_dictionary(t, n)
      [] n.type = "get_node" -> print_get_node(t, n)
      [] n.type = "identifier" -> print_identifier(t, n.name)
      [] n.type = "lambda" -> print_lambda(t, n)
      [] n.type = "literal" -> push_text(t, <<n.text>>)
      [] n.type = "preload" -> print_preload(t, n)
      [] n.type = "self" -> push_text(t, <<"Self">>)
      [] n.type \in {"subscript", "attribute"} -> print_subscript(t, n)
      [] n.type = "ternary" -> print_ternary_op(t, n)
      [] n.type = "is" -> print_type_test(t, n)
      [] n.type = "unary" -> print_unary_op(t, n)

(***************************************************************************)
(* Statements.                                                             *)
(***************************************************************************)
Inner(t, suite) == decrease_indent(print_suite(increase_indent(t), suite))

print_assert(t, n) ==
    push_line(print_expression(push_text(t, <<"Assert", "(">>), n.condition), <<")">>)

(* The value of a variable or constant has a line of its own. *)
InitializerLine(t, value, missing) ==
    LET a == push_text(push_line(t, <<>>), <<"=">>)
    IN  IF value = Nothing THEN push_text(a, <<missing>>) ELSE print_expression(a, value)
print_constant(t, n) ==
    LET a == print_identifier(push_text(t, <<"Constant">>), n.name)
    IN  push_line(decrease_indent(InitializerLine(increase_indent(a), n.initializer, "<missing value>")), <<>>)

print_accessor(t, n, accessor, word) ==
    LET named == n.property = "setget"
        parameter == IF word = "Set (" /\ ~named THEN <<accessor.parameters[1].name, ")">> ELSE <<>>
        a == push_line(push_text(t, <<word>> \o parameter), <<IF named THEN "=" ELSE ":">>)
    IN  IF accessor = Nothing THEN t
        ELSE IF named
        THEN decrease_indent(push_line(print_identifier(increase_indent(a), accessor.name), <<>>))
        ELSE Inner(a, accessor.body)
print_variable(t, n) ==
    LET u == print_annotations(t, n)
        a == push_text(IF n.static THEN push_text(u, <<"Static">>) ELSE u, <<"Variable", n.name, ":">>)
        b == IF n.specifier # Nothing THEN print_type(a, n.specifier)
             ELSE push_text(a, <<IF n.infer THEN "<inferred type>" ELSE "Variant">>)
        c == push_line(InitializerLine(increase_indent(b), n.initializer, "<default value>"), <<>>)
        d == IF n.property = "none" THEN c
             ELSE print_accessor(print_accessor(c, n, n.getter, "Get"), n, n.setter, "Set (")
    IN  push_line(decrease_indent(d), <<>>)

(* An elif is shown as the if in an else that it is. *)
print_if(t, n) ==
    LET a == Inner(push_line(print_expression(push_text(t, <<"If">>), n.condition), <<":">>), n.true_block)
    IN  IF n.false_block = Nothing THEN a ELSE Inner(push_line(a, <<"Else", ":">>), n.false_block)

print_for(t, n) ==
    LET list == print_expression(push_text(t, <<"For", n.variable, "IN">>), n.list)
    IN  Inner(push_line(list, <<":">>), n.loop)

print_while(t, n) ==
    Inner(push_line(print_expression(push_text(t, <<"While">>), n.condition), <<":">>), n.loop)

(* The guard of a branch is not shown. *)
print_match_branch(t, n) ==
    LET patterns == PrintAll(t, n.patterns, Comma, LAMBDA u, p : print_match_pattern(u, p))
    IN  Inner(push_line(patterns, <<":">>), n.block)
print_match(t, n) ==
    LET test == push_line(print_expression(push_text(t, <<"Match">>), n.test), <<":">>)
    IN  decrease_indent(PrintAll(increase_indent(test), n.branches, <<>>, print_match_branch))

print_match_pattern(t, n) ==
    LET Entry(u, entry) ==
            LET key == IF entry.key = Nothing THEN u ELSE push_text(print_expression(u, entry.key), <<":">>)
            IN  IF entry.value = Nothing THEN key ELSE print_match_pattern(key, entry.value)
        Inside(u, p) == print_match_pattern(u, p)
    IN  CASE n.kind = "wildcard" -> push_text(t, <<"_">>)
          [] n.kind = "rest" -> push_text(t, <<"..">>)
          [] n.kind = "bind" -> push_text(t, <<"Var", n.bind>>)
          [] n.kind = "expression" -> print_expression(t, n.expression)
          [] n.kind = "array" -> push_text(PrintAll(push_text(t, <<"[">>), n.array, Comma, Inside), <<"]">>)
          [] n.kind = "dictionary" -> push_text(PrintAll(push_text(t, <<"{">>), n.dictionary, Comma, Entry), <<"}">>)

print_return(t, n) ==
    LET a == push_text(t, <<"Return">>)
    IN  push_line(IF n.return_value = Nothing THEN a ELSE print_expression(a, n.return_value), <<>>)

print_statement(t, n) ==
    CASE n.type = "assert" -> print_assert(t, n)
      [] n.type = "variable" -> print_variable(t, n)
      [] n.type = "constant" -> print_constant(t, n)
      [] n.type = "if" -> print_if(t, n)
      [] n.type = "for" -> print_for(t, n)
      [] n.type = "while" -> print_while(t, n)
      [] n.type = "match" -> print_match(t, n)
      [] n.type = "return" -> print_return(t, n)
      [] n.type = "break" -> push_line(t, <<"Break">>)
      [] n.type = "continue" -> push_line(t, <<"Continue">>)
      [] n.type = "pass" -> push_line(t, <<"Pass">>)
      [] n.type = "breakpoint" -> push_line(t, <<"Breakpoint">>)
      [] n.type = "assignment" -> print_assignment(t, n)
      [] OTHER -> push_line(print_expression(t, n), <<>>)
print_suite(t, suite) == PrintAll(t, suite.statements, <<>>, print_statement)

(***************************************************************************)
(* Members.                                                                *)
(***************************************************************************)
print_enum(t, n) ==
    LET Value(u, item) == push_line(push_text(u, <<item.name, "=", "<value>">>), Comma)
        a == increase_indent(push_line(push_text(t, <<"Enum", n.name>>), <<"{">>))
    IN  push_line(decrease_indent(PrintAll(a, n.values, <<>>, Value)), <<"}">>)

(* No comma between the parameters. *)
print_signal(t, n) ==
    push_line(PrintAll(push_text(t, <<"Signal", n.name, "(">>), n.parameters, <<>>, print_parameter), <<")">>)

(* The values of an enum are shown with it; one without a name is no member
   of its own. *)
print_member(t, n) ==
    CASE n.type = "class" -> print_class(t, n)
      [] n.type = "variable" -> print_variable(t, n)
      [] n.type = "constant" -> print_constant(t, n)
      [] n.type = "signal" -> print_signal(t, n)
      [] n.type = "function" -> print_function(t, n, "Function")
      [] n.type = "enum" -> print_enum(t, n)
      [] n.type \in {"enum_value", "annotation"} -> t   \* groups are for the inspector
print_class(t, n) ==
    LET name == IF n.name = "" THEN "<unnamed>" ELSE n.name
        parts == [i \in 1..(2 * Len(n.extends) - 1) |-> IF i % 2 = 0 THEN "." ELSE n.extends[(i + 1) \div 2]]
        extends == IF n.extends = <<>> THEN <<>> ELSE <<"Extends">> \o parts
        a == increase_indent(push_line(push_text(print_annotations(t, n), <<"Class", name>> \o extends), <<":">>))
    IN  decrease_indent(PrintAll(a, n.members, <<>>, print_member))

print_tree(class) == print_class(NewPrinter, class).printed
=============================================================================
