------------------------------ MODULE RuztaPrintedTrees ------------------------------
(***************************************************************************)
(* RuztaPrintedTrees: what the print of a tree is to say, told from how a  *)
(* person writes the tree down: the words of the script in its order, and  *)
(* each expression in brackets that tell what belongs to what.             *)
(***************************************************************************)
EXTENDS RuztaScriptTrees, RuztaTreeNodes

P == INSTANCE RuztaTreePrinter

(* The printer does not show guards, what functions return, the types of
   constants and of the variables of loops, the numbers of enums, what is
   preloaded, and annotations but those of classes, functions and variables. *)
LeftOut(n, field) ==
    \/ field \in {"guard", "return_type", "custom_value", "path"}
    \/ field = "specifier" /\ n.type \in {"constant", "for"}
RECURSIVE Told(_)
Told(n) ==
    [field \in DOMAIN n |->
        CASE LeftOut(n, field) -> Null
          [] field = "about" \/ (field = "annotations" /\ n.type \notin {"class", "function", "variable"}) -> <<>>
          [] field = "values" -> [i \in DOMAIN n.values |-> Told(n.values[i])]
          [] IsPart(n, field) -> Told(n[field])
          [] field \in PartLists ->
                LET list == IF field = "members" THEN SelectSeq(n.members, LAMBDA m : m.type \notin {"enum_value", "annotation"})
                            ELSE n[field]
                IN  [i \in DOMAIN list |-> Told(list[i])]
          [] OTHER -> n[field]]

(* Words of a print as those of a script. *)
Vocabulary ==
    [AND |-> "and", OR |-> "or", NOT |-> "not", AS |-> "as", IS |-> "is",
     Await |-> "await", Self |-> "self", If |-> "if", Else |-> "else", For |-> "for",
     While |-> "while", Match |-> "match", Var |-> "var", Return |-> "return", Break |-> "break",
     Continue |-> "continue", Pass |-> "pass", Breakpoint |-> "breakpoint", Assert |-> "assert",
     Signal |-> "signal", Enum |-> "enum", Class |-> "class", Static |-> "static", Function |-> "func",
     Preload |-> "preload", Extends |-> "extends", Lambda |-> "func", Variable |-> "var", Constant |-> "const", Get |-> "get"]
    @@ "Set (" :> "set" @@ "IN" :> "in" @@ "IF" :> "if" @@ "ELSE" :> "else"
AsWritten(word) ==
    CASE word \in DOMAIN Vocabulary -> <<Vocabulary[word]>>
      [] word = P!LevelOfIndent -> <<Tab>>
      [] word = "elif" -> <<"else", "if">>
      [] \E n \in Numbers : word = "-" \o n -> <<"-", CHOOSE n \in Numbers : word = "-" \o n>>
      [] OTHER -> <<word>>

(* The words that say something: not the layout, brackets and separators. *)
Marks == {Space, Tab, LineEnd, Comment, Backslash, "(", ")", "[", "]", "{", "}", ",", ":", "=", "->", ";", ".",
          "", "<unnamed>", "<anonymous>", "<value>", "<inferred type>", "Variant",
          "<default value>", "<missing path>", "| captures ["}
Said(text) == SelectSeq(FlattenSeq([i \in DOMAIN text |-> AsWritten(text[i])]), LAMBDA word : word \notin Marks)
SaidOf(class) == Said(P!print_tree(class))
SaidBy(class) ==
    LET told == Told(class)
    IN  Said(AnnotationsText(told, "annotations", 0, "bracketed", <<>>))
        \o <<"class">> \o Said(<<class.name>> \o ExtendsText(class, <<>>))
        \o Said(Members(told, 0, "bracketed"))

(* Casts, type tests, conditionals, awaits and node paths, which a sign may
   go on, have no brackets around them: what is shown of them within another
   expression may be read differently. *)
Bare == {"cast", "is", "ternary", "await", "get_node"}
Sides == {"operand", "left", "right", "element", "base"}
InDoubt(e) == \E n \in Nodes(e) : \E side \in DOMAIN n \cap Sides : n[side].type \in Bare
Operations == {"unary", "binary", "ternary", "cast", "is", "await", "subscript", "attribute", "call", "array"}
ReadBack(words) ==
    LET p == push_multiline(SkipFirst(NewParser(TextTokenizer(Append(words, LineEnd)))), TRUE)
        r == parse_expression(p, FALSE)
    IN  r.n
Spaced(words) == FlattenSeq([i \in DOMAIN words |-> Append(AsWritten(words[i]), Space)])
ShownRight(e) ==
    \/ InDoubt(e)
    \/ \E n \in Nodes(e) : n.type \in {"lambda", "preload"}
    \/ ReadBack(Spaced(P!print_expression(P!NewPrinter, e).printed)) = e
AllShownRight(class) == \A e \in Nodes(class) : e.type \in Operations => ShownRight(e)
=============================================================================
