---------------------------- MODULE MCRegistry ----------------------------
(* Two paths and three references: enough for a chain or a cycle of       *)
(* dependencies, an abandoned parser and its successor at the same time.   *)
EXTENDS RuztaParserRegistry, TLC

Symmetric == Permutations(Scripts) \cup Permutations(RefIds)
=============================================================================
