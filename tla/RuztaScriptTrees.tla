---------------------------- MODULE RuztaScriptTrees ----------------------------
(***************************************************************************)
(* RuztaScriptTrees: scripts as trees, and how a person writes a tree down *)
(* in several layouts.  It is the reference the parser is checked against: *)
(* whatever the layout, parsing gives the tree back.                       *)
(***************************************************************************)
EXTENDS RuztaParser

(***************************************************************************)
(* Trees.                                                                  *)
(***************************************************************************)
Unary(op, operand) == [type |-> "unary", op |-> op, operand |-> operand]
Binary(left, op, right) == [type |-> "binary", op |-> op, left |-> left, right |-> right]
Ternary(true_expr, condition, false_expr) ==
    [type |-> "ternary", condition |-> condition, true_expr |-> true_expr,
     false_expr |-> false_expr]
Array(elements) == [type |-> "array", elements |-> elements]
Pair(key, value) == [key |-> key, value |-> value]
Dictionary(entries) == [type |-> "dictionary", entries |-> entries]
Attribute(base, name) == [type |-> "attribute", base |-> base, name |-> name]
Subscript(base, index) == [type |-> "subscript", base |-> base, index |-> index]
CallOf(callee, arguments) == [type |-> "call", callee |-> callee, arguments |-> arguments]
Call(name, arguments) == CallOf(Identifier(name), arguments)
Await(element) == [type |-> "await", element |-> element]
Type(name) == [type |-> "type", chain |-> <<name>>, containers |-> <<>>]
Cast(operand, name) == [type |-> "cast", operand |-> operand, cast_type |-> Type(name)]
Is(operand, name) == [type |-> "is", operand |-> operand, test_type |-> Type(name)]

Body(statements) == Suite(statements, FALSE)
Set(assignee, op, assigned) ==
    [type |-> "assignment", op |-> op, assignee |-> assignee, assigned |-> assigned]
If(condition, true_block) ==
    [type |-> "if", condition |-> condition, true_block |-> Body(true_block), false_block |-> Null]
IfElse(condition, true_block, false_block) ==
    [If(condition, true_block) EXCEPT !.false_block = Body(false_block)]
For(variable, list, loop) ==
    [type |-> "for", variable |-> variable, specifier |-> Null, list |-> list, loop |-> Body(loop)]
While(condition, loop) == [type |-> "while", condition |-> condition, loop |-> Body(loop)]
Return(value) == [type |-> "return", return_value |-> value]
AssertThat(condition) == [type |-> "assert", condition |-> condition]
Plain(type) == [type |-> type]   \* pass, break, continue, breakpoint, self

Bind(name) == [type |-> "pattern", kind |-> "bind", bind |-> name]
Value(expression) == [type |-> "pattern", kind |-> "expression", expression |-> expression]
HasRest(kinds) == \E i \in DOMAIN kinds : kinds[i] = "rest"
ArrayOf(array) ==
    [type |-> "pattern", kind |-> "array", array |-> array,
     rest_used |-> HasRest([i \in DOMAIN array |-> array[i].kind])]
DictionaryOf(entries) ==
    [type |-> "pattern", kind |-> "dictionary", dictionary |-> entries,
     rest_used |-> HasRest([i \in DOMAIN entries |->
                               IF entries[i].value = Null THEN "none" ELSE entries[i].value.kind])]
Branch(patterns, guard, block) ==
    [type |-> "branch", patterns |-> patterns, guard |-> guard, block |-> Body(block)]
Match(test, branches) == [type |-> "match", test |-> test, branches |-> branches]

Parameter(name, default) ==
    [type |-> "parameter", name |-> name, default |-> default, specifier |-> Null, infer |-> FALSE]
Function(name, parameters, statements) ==
    FunctionNode(name, [parameters |-> parameters, return_type |-> Null], Body(statements))

(* With a type: of a variable, constant, parameter or for; found from the
   value; and of what a function returns. *)
Typed(n, name) == [n EXCEPT !.specifier = Type(name)]
Inferred(n) == [n EXCEPT !.infer = TRUE]
Returns(function, name) == [function EXCEPT !.return_type = Type(name)]
Static(n) == WithStatic(n, TRUE)
Values(values) ==   \* of an enum without a name they are members of the class
    [i \in DOMAIN values |->
        [type |-> "enum_value", name |-> values[i][1], custom_value |-> values[i][2], index |-> i - 1]]
Enum(name, values) == [type |-> "enum", name |-> name, values |-> Values(values)]
Signal(name, parameters) == [type |-> "signal", name |-> name, parameters |-> parameters]
Property(variable, setter, getter) ==
    [variable EXCEPT !.property = "inline", !.setter = setter, !.getter = getter]
Setget(variable, setter, getter) ==
    [variable EXCEPT !.property = "setget", !.setter = setter, !.getter = getter]
Setter(parameter, statements) == Accessor("@setter", <<Parameter(parameter, Null)>>, Body(statements))
Getter(statements) == Accessor("@getter", <<>>, Body(statements))
Lambda(parameters, statements) ==
    [type |-> "lambda", function |-> Function("", parameters, statements)]
NodeAt(full_path) == GetNode(full_path[1] # "%", full_path)
Preload(path) == [type |-> "preload", path |-> path]
At(name, arguments, n) == Annotated(n, <<Annotation(name, arguments)>>)
Script(members) == [Class("") EXCEPT !.members = members]

(***************************************************************************)
(* Layouts.  plain: a statement a line; airy: with comments and empty      *)
(* lines between; wrapped: a line end and a comment after every bracket    *)
(* and comma; joined: a backslash before every operator; terse: simple     *)
(* statements on one line; bracketed: brackets around every operation.     *)
(***************************************************************************)
Layouts == {"plain", "airy", "wrapped", "joined", "terse", "bracketed"}

Rank(e) ==
    CASE e.type = "assignment" -> 1
      [] e.type = "cast" -> 2
      [] e.type = "ternary" -> 3
      [] e.type = "binary" ->
            (CASE e.op = "or" -> 4 [] e.op = "and" -> 5 [] e.op = "in" -> 7
               [] e.op \in {"<", "<=", ">", ">=", "==", "!="} -> 8
               [] e.op = "|" -> 9 [] e.op = "^" -> 10 [] e.op = "&" -> 11
               [] e.op \in {"<<", ">>"} -> 12
               [] e.op \in {"+", "-"} -> 13 [] e.op \in {"*", "/", "%"} -> 14
               [] e.op = "**" -> 17)
      [] e.type = "unary" -> (CASE e.op = "not" -> 6 [] e.op = "~" -> 16 [] OTHER -> 15)
      [] e.type = "is" -> 18
      [] e.type = "await" -> 19
      [] OTHER -> 20

RECURSIVE Indent(_), Expr(_, _, _), Join(_, _), Block(_, _, _), OneLine(_, _, _), Lines(_, _, _)
IsSimple(n) == n.type \notin {"if", "for", "while", "match"} /\ "annotations" \notin DOMAIN n
OnOneLine(suite, st) ==
    st = "terse" /\ \A i \in DOMAIN suite.statements : IsSimple(suite.statements[i])

Indent(level) == IF level = 0 THEN <<>> ELSE <<Tab>> \o Indent(level - 1)

Join(texts, separator) ==
    CASE texts = <<>> -> <<>>
      [] Len(texts) = 1 -> Head(texts)
      [] OTHER -> Head(texts) \o separator \o Join(Tail(texts), separator)

Open(bracket, st) == IF st = "wrapped" THEN <<bracket, Comment, LineEnd, Space>> ELSE <<bracket>>
Close(bracket, st) == IF st = "wrapped" THEN <<LineEnd, bracket>> ELSE <<bracket>>
Bracketed(open, texts, close, st) ==
    Open(open, st)
    \o Join(texts, IF st = "wrapped" THEN <<",", LineEnd, Tab>> ELSE <<",", Space>>)
    \o Close(close, st)

(* A list may have a comma after the last element. *)
Listed(open, texts, close, st) ==
    Bracketed(open, [i \in DOMAIN texts |->
                        IF st = "wrapped" /\ i = Len(texts) THEN Append(texts[i], ",") ELSE texts[i]],
              close, st)

Group(e, least, level, st) ==
    IF Rank(e) < least \/ (st = "bracketed" /\ Rank(e) < 20)
    THEN Bracketed("(", <<Expr(e, level, st)>>, ")", st) ELSE Expr(e, level, st)

Operation(op, st) ==
    IF st = "joined" THEN <<Backslash, LineEnd, Tab, op, Space>> ELSE <<Space, op, Space>>

(* After the lines of a lambda the brackets around it go on. *)
Resumed(text, level) == IF Last(text) = LineEnd THEN text \o Indent(level) ELSE text
Each(list, level, st) == [i \in DOMAIN list |-> Resumed(Expr(list[i], level, st), level)]

TypeText(type) ==
    type.chain \o (IF type.containers = <<>> THEN <<>>
                   ELSE <<"[">> \o Join(type.containers, <<",">>) \o <<"]">>)
Specifier(n) ==
    IF n.specifier = Null THEN <<>> ELSE <<":", Space>> \o TypeText(n.specifier)
AssignText(n, value, level, st) ==
    CASE value = Null -> <<>>
      [] value # Null /\ n.infer -> <<Space, ":", "=", Space>> \o Expr(value, level, st)
      [] OTHER -> <<Space, "=", Space>> \o Expr(value, level, st)
ParameterText(parameters, level, st) ==
    Bracketed("(", [i \in DOMAIN parameters |->
                       <<parameters[i].name>> \o Specifier(parameters[i])
                       \o AssignText(parameters[i], parameters[i].default, level, st)], ")", st)
ReturnText(function) ==
    IF function.return_type = Null THEN <<>> ELSE <<Space, "->", Space>> \o TypeText(function.return_type)

RECURSIVE EndsInPath(_)
EndsInPath(e) ==
    CASE e.type = "get_node" -> TRUE
      [] e.type = "unary" -> EndsInPath(e.operand)
      [] e.type = "binary" -> EndsInPath(e.right)
      [] e.type = "ternary" -> EndsInPath(e.false_expr)
      [] e.type = "await" -> EndsInPath(e.element)
      [] OTHER -> FALSE

Expr(e, level, st) ==
    CASE e.type = "literal" ->
            IF \E n \in Numbers : e.text = "-" \o n
            THEN <<"-", CHOOSE n \in Numbers : e.text = "-" \o n>> ELSE <<e.text>>
      [] e.type = "identifier" -> <<e.name>>
      [] e.type = "self" -> <<"self">>
      [] e.type = "unary" -> <<e.op, Space>> \o Group(e.operand, Rank(e), level, st)
      [] e.type = "binary" ->
            (IF EndsInPath(e.left) /\ e.op \in {"/", "%"}   \* it would be more of the path
             THEN Bracketed("(", <<Expr(e.left, level, st)>>, ")", st) ELSE Group(e.left, Rank(e), level, st))
            \o Operation(e.op, st) \o Group(e.right, Rank(e) + 1, level, st)
      [] e.type = "ternary" ->
            Group(e.true_expr, 4, level, st) \o Operation("if", st)
            \o Group(e.condition, 3, level, st) \o Operation("else", st)
            \o Group(e.false_expr, 3, level, st)
      [] e.type = "cast" -> Group(e.operand, 2, level, st) \o <<Space, "as", Space>> \o TypeText(e.cast_type)
      [] e.type = "is" -> Group(e.operand, 18, level, st) \o <<Space, "is", Space>> \o TypeText(e.test_type)
      [] e.type = "get_node" -> (IF e.use_dollar THEN <<"$">> ELSE <<>>) \o e.full_path
      [] e.type = "preload" ->
            <<"preload">> \o Listed("(", IF e.path = Null THEN <<>> ELSE <<Expr(e.path, level, st)>>, ")", st)
      [] e.type = "await" -> <<"await", Space>> \o Group(e.element, 19, level, st)
      [] e.type = "assignment" ->
            Expr(e.assignee, level, st) \o <<Space, e.op, Space>> \o Expr(e.assigned, level, st)
      [] e.type = "array" -> Listed("[", Each(e.elements, level, st), "]", st)
      [] e.type = "dictionary" ->
            Listed("{", [i \in DOMAIN e.entries |->
                               Expr(e.entries[i].key, level, st) \o <<":">>
                               \o Resumed(Expr(e.entries[i].value, level, st), level)], "}", st)
      [] e.type = "attribute" -> Group(e.base, 20, level, st) \o <<".", e.name>>
      [] e.type = "subscript" ->
            Group(e.base, 20, level, st) \o Bracketed("[", Each(<<e.index>>, level, st), "]", st)
      [] e.type = "call" ->
            Expr(e.callee, level, st) \o Bracketed("(", Each(e.arguments, level, st), ")", st)
      [] e.type = "lambda" ->
            <<"func">> \o ParameterText(e.function.parameters, level, st) \o ReturnText(e.function) \o <<":">>
            \o (IF OnOneLine(e.function.body, st) THEN <<Space>> \o OneLine(e.function.body, level, st)
                ELSE Block(e.function.body, level, st))

RECURSIVE PatternText(_, _, _), IfText(_, _, _, _)
PatternText(n, level, st) ==
    CASE n.kind = "bind" -> <<"var", Space, n.bind>>
      [] n.kind = "wildcard" -> <<"_">>
      [] n.kind = "rest" -> <<"..">>
      [] n.kind = "expression" -> Expr(n.expression, level, st)
      [] n.kind = "array" ->
            Listed("[", [i \in DOMAIN n.array |-> PatternText(n.array[i], level, st)], "]", st)
      [] n.kind = "dictionary" ->
            Listed("{", [i \in DOMAIN n.dictionary |->
                               IF n.dictionary[i].key = Null THEN <<"..">>
                               ELSE Expr(n.dictionary[i].key, level, st)
                                    \o (IF n.dictionary[i].value = Null THEN <<>>
                                        ELSE <<":">> \o PatternText(n.dictionary[i].value, level, st))],
                      "}", st)

(* A line of its own, unless a lambda has ended it. *)
Ends(text) == IF Last(text) = LineEnd THEN text ELSE Append(text, LineEnd)

IfText(n, word, level, st) ==
    <<word, Space>> \o Expr(n.condition, level, st) \o <<":">> \o Block(n.true_block, level, st)
    \o (IF n.false_block = Null THEN <<>>
        ELSE IF Len(n.false_block.statements) = 1 /\ n.false_block.statements[1].type = "if"
        THEN Indent(level) \o IfText(n.false_block.statements[1], "elif", level, st)
        ELSE Indent(level) \o <<"else", ":">> \o Block(n.false_block, level, st))

Declaration(word, n, level, st) ==
    <<word, Space, n.name>> \o Specifier(n) \o AssignText(n, n.initializer, level, st)

Stat(n, level, st) ==
    CASE n.type \in {"pass", "break", "continue", "breakpoint"} -> <<n.type>>
      [] n.type = "variable" -> Declaration("var", n, level, st)
      [] n.type = "constant" -> Declaration("const", n, level, st)
      [] n.type = "return" ->
            IF n.return_value = Null THEN <<"return">>
            ELSE <<"return", Space>> \o Expr(n.return_value, level, st)
      [] n.type = "assert" -> <<"assert">> \o Bracketed("(", <<Expr(n.condition, level, st)>>, ")", st)
      [] n.type = "if" -> IfText(n, "if", level, st)
      [] n.type = "while" ->
            <<"while", Space>> \o Expr(n.condition, level, st) \o <<":">> \o Block(n.loop, level, st)
      [] n.type = "for" ->
            <<"for", Space, n.variable>> \o Specifier(n) \o <<Space, "in", Space>> \o Expr(n.list, level, st) \o <<":">>
            \o Block(n.loop, level, st)
      [] n.type = "match" ->
            <<"match", Space>> \o Expr(n.test, level, st) \o <<":", LineEnd>>
            \o Join([i \in DOMAIN n.branches |->
                        Indent(level + 1)
                        \o Join([j \in DOMAIN n.branches[i].patterns |->
                                    PatternText(n.branches[i].patterns[j], level, st)], <<",">>)
                        \o (IF n.branches[i].guard = Null THEN <<>>
                            ELSE <<Space, "when", Space>> \o Expr(n.branches[i].guard, level, st))
                        \o <<":">> \o Block(n.branches[i].block, level + 1, st)], <<>>)
      [] OTHER -> Expr(n, level, st)

Air(st) == IF st = "airy" THEN <<Comment, LineEnd, LineEnd, Space, LineEnd>> ELSE <<>>

(* Annotations are on the line of what they are for or on those above. *)
AnnotationText(x, level, st) ==
    <<x.name>> \o (IF x.arguments = <<>> /\ st # "bracketed" THEN <<>>
                  ELSE Listed("(", Each(x.arguments, level, st), ")", st))
AnnotationsText(n, field, level, st, after) ==
    IF field \notin DOMAIN n THEN <<>>
    ELSE Join([i \in DOMAIN n[field] |-> AnnotationText(n[field][i], level, st) \o after], <<>>)
Above(n, level, st) ==
    AnnotationsText(n, "annotations", level, st, IF st = "airy" THEN <<LineEnd>> \o Indent(level) ELSE <<Space>>)

Lines(statements, level, st) ==
    Join([i \in DOMAIN statements |->
             Air(st) \o Indent(level) \o Above(statements[i], level, st)
             \o Ends(Stat(statements[i], level, st))], <<>>)

OneLine(suite, level, st) ==
    Join([i \in DOMAIN suite.statements |-> Stat(suite.statements[i], level, st)], <<";">>)

Block(suite, level, st) ==
    IF OnOneLine(suite, st) THEN <<Space>> \o Ends(OneLine(suite, level, st))
    ELSE <<LineEnd>> \o Lines(suite.statements, level + 1, st)

(* Accessors of a member: in a block below it, or named beside it.  The
   parser reads the brackets of a setter without its multiline mode. *)
SetterText(n, level, st) ==
    Indent(level) \o <<"set">> \o ParameterText(n.parameters, level, "plain") \o <<":">> \o Block(n.body, level, st)
GetterText(n, level, st) ==
    Indent(level) \o <<"get">> \o (IF st = "bracketed" THEN <<"(", ")">> ELSE <<>>) \o <<":">>
    \o Block(n.body, level, st)
AccessorsText(n, level, st) ==
    CASE n.property = "none" -> <<LineEnd>>
      [] n.property = "inline" ->
            <<":", LineEnd>>
            \o (IF n.getter = Null THEN <<>> ELSE GetterText(n.getter, level + 1, st))
            \o (IF n.setter = Null THEN <<>> ELSE SetterText(n.setter, level + 1, st))
      [] n.property = "setget" ->
            LET setter == IF n.setter = Null THEN <<>> ELSE <<<<"set", Space, "=", Space, n.setter.name>>>>
                getter == IF n.getter = Null THEN <<>> ELSE <<<<"get", "=", n.getter.name>>>>
            IN  <<":", Space>>
                \o Join(IF st = "bracketed" THEN getter \o setter ELSE setter \o getter, <<",", Space>>)
                \o <<LineEnd>>
EnumText(name, values, level, st) ==
    <<"enum", Space>> \o (IF name = "" THEN <<>> ELSE <<name, Space>>)
    \o Listed("{", [i \in DOMAIN values |->
          <<values[i].name>>
          \o (IF values[i].custom_value = Null THEN <<>>
              ELSE <<Space, "=", Space>> \o Expr(values[i].custom_value, level, st))], "}", st)
    \o <<LineEnd>>
(* The values of an enum without a name, from the first one on. *)
ValuesFrom(members, i) ==
    LET Goes(j) == \A k \in i..j : members[k].type = "enum_value" /\ members[k].index = k - i
    IN  SelectSeq([j \in DOMAIN members |-> IF j >= i /\ Goes(j) THEN members[j] ELSE Null],
                  LAMBDA m : m # Null)
(* A string in a class is a comment. *)
StringComment(level, st) ==
    IF st = "airy" THEN Indent(level) \o <<CHOOSE s \in Strings : TRUE, LineEnd>> ELSE <<>>
StaticText(m) == IF m.static THEN <<"static", Space>> ELSE <<>>

RECURSIVE Members(_, _, _)
ExtendsText(class, after) ==
    IF class.extends = <<>> THEN <<>> ELSE <<"extends", Space>> \o Join([i \in DOMAIN class.extends |-> <<class.extends[i]>>], <<".">>) \o after
MemberText(m, level, st) ==
    CASE m.type = "function" ->
            StaticText(m) \o <<"func", Space, m.name>> \o ParameterText(m.parameters, level, st)
            \o ReturnText(m) \o <<":">> \o Block(m.body, level, st)
      [] m.type = "class" -> <<"class", Space, m.name>> \o (IF m.extends = <<>> THEN <<>> ELSE <<Space>>) \o ExtendsText(m, <<>>)
            \o <<":", LineEnd>> \o Members(m, level + 1, st)
      [] m.type = "variable" ->
            LET text == StaticText(m) \o Declaration("var", m, level, st)
            IN  IF m.property = "none" THEN Ends(text)
                ELSE text \o AccessorsText(m, level, st)
      [] m.type = "enum" -> EnumText(m.name, m.values, level, st)
      [] m.type = "signal" ->
            <<"signal", Space, m.name>>
            \o (IF m.parameters = <<>> /\ st # "bracketed" THEN <<>>
                ELSE ParameterText(m.parameters, level, st))
            \o <<LineEnd>>
      [] m.type = "annotation" -> Ends(AnnotationText(m, level, st))
      [] OTHER -> Ends(Stat(m, level, st))
Members(class, level, st) ==
    Join([i \in DOMAIN class.members |->
             LET m == class.members[i]
                 text == IF m.type = "enum_value" THEN EnumText("", ValuesFrom(class.members, i), level, st)
                         ELSE MemberText(m, level, st)
             IN  IF m.type = "enum_value" /\ m.index > 0 THEN <<>>
                 ELSE Air(st) \o StringComment(level, st) \o Indent(level) \o Above(m, level, st) \o text], <<>>)

(* The head has a line for each annotation, and one that says what script
   it is, without which its annotations would be those of the first member. *)
Source(class, st) ==
    AnnotationsText(class, "about", 0, st, <<LineEnd>>)
    \o AnnotationsText(class, "annotations", 0, st, <<LineEnd>>)
    \o (IF class.name = "" THEN <<>> ELSE <<"class_name", Space, class.name, LineEnd>>)
    \o ExtendsText(class, <<LineEnd>>)
    \o Members(class, 0, st)
=============================================================================
