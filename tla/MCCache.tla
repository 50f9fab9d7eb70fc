------------------------------ MODULE MCCache ------------------------------
(***************************************************************************)
(* Two paths for RuztaCache, and the files the runs choose from.           *)
(***************************************************************************)
EXTENDS RuztaCache

CONSTANTS ScriptA, ScriptB

Both == {ScriptA, ScriptB}

File(ext, uses, health) == [ext |-> ext, uses |-> uses, health |-> health]

(* Each path may extend the other one or itself, use both, or not parse:   *)
(* cycles of extends, of uses, and mixed ones, and every way a load ends.  *)
MCCycles == {File(p, {}, "ok") : p \in Both}
              \cup {File(Nil, Both, "ok"), File(Nil, {}, "parse_error")}

(* Two scripts that use each other; one of them may be broken.             *)
MCBroken == {File(Nil, Both, "ok"), File(Nil, Both, "body_error")}

(* Two scripts that use each other, for the run with two threads.          *)
MCMutual == {File(Nil, Both, "ok")}

(* A script that uses another one, and one that uses nothing.              *)
MCLeaves == {File(Nil, {}, "ok"), File(Nil, Both, "ok")}
=============================================================================
