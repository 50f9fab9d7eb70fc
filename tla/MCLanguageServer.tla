--------------------------- MODULE MCLanguageServer ---------------------------
(* Messages and scripts for TLC. *)
EXTENDS RuztaLanguageServer

Message(method, text, header, content) ==
    [method |-> method, path |-> "a", text |-> text, header |-> header, content |-> content]

MCPaths == <<"a", "b">>

MCDisks == {("a" :> "bad" @@ "b" :> "good")}

(* The first client edits, the second asks. *)
MCMethods ==
    0 :> { Message("didChange", "bad", 1, 1),
           Message("didDeleteFiles", "good", 1, 1),
           Message("references", "good", 2, 1),
           Message("hover", "good", 3, 1) }
    @@ 1 :> { Message("initialize", "good", 1, 1),
              Message("documentSymbol", "good", 1, 1),
              Message("documentLink", "good", 1, 2) }
=============================================================================
