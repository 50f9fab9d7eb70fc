------------------------------ MODULE RuztaTreeNodes ------------------------------
(***************************************************************************)
(* RuztaTreeNodes: all nodes of a tree.                                    *)
(***************************************************************************)
Parts ==   \* fields that hold a node, and lists of nodes
    {"operand", "left", "right", "condition", "true_expr", "false_expr", "element", "base", "callee",
     "assignee", "assigned", "return_value", "test", "loop", "true_block", "false_block", "list", "body",
     "function", "initializer", "default", "setter", "getter", "expression", "key", "value", "block",
     "path"}
PartLists ==
    {"elements", "entries", "arguments", "statements", "branches", "patterns", "members", "parameters",
     "array", "dictionary", "annotations", "about"}
IsPart(n, field) == field \in Parts \/ (field = "index" /\ n.type = "subscript")

RECURSIVE Nodes(_)
Nodes(n) ==
    (IF "type" \in DOMAIN n THEN {n} ELSE {})
        \cup UNION {Nodes(n[field]) : field \in {f \in DOMAIN n : IsPart(n, f)}}
        \cup UNION {UNION {Nodes(n[field][i]) : i \in DOMAIN n[field]} : field \in DOMAIN n \cap PartLists}
=============================================================================
