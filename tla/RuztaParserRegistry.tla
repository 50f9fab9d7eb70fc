------------------------ MODULE RuztaParserRegistry ------------------------
(***************************************************************************)
(* The parser side of RuztaCache (ruzta_cache.cpp): which RuztaParserRef   *)
(* is registered for a path, which ones are abandoned, who depends on      *)
(* whom, and when a reference-counted RuztaParserRef dies.                 *)
(*                                                                         *)
(* This module is the contract of the registry: any holder may call any    *)
(* operation at any time.  RuztaCache drives the same operations from the  *)
(* call chains of the loader and is shown to implement this module.        *)
(***************************************************************************)
EXTENDS FiniteSets

CONSTANTS
  Scripts,   \* paths of script files
  RefIds,    \* identities a RuztaParserRef (or a bare RuztaParser) may get
  Nil        \* no reference, no path, no owner

ASSUME RegistryAssumption == Nil \notin Scripts /\ Nil \notin RefIds

VARIABLES
  reg,       \* the tables of the registry, one field per HashMap
  pins       \* the references held by locals of running C++ functions

(***************************************************************************)
(* A reference: its kind ("cached" for a RuztaParserRef made by            *)
(* get_parser, "local" for the RuztaParser that Ruzta::reload keeps on its *)
(* stack), its path, its depended_parsers and the abandoned flag.          *)
(***************************************************************************)
Dead == [kind |-> "dead", path |-> Nil, deps |-> {}, abandoned |-> FALSE]

RefRecord == [kind : {"dead", "cached", "local"}, path : Scripts \cup {Nil},
              deps : SUBSET RefIds, abandoned : BOOLEAN]

Registry == [ref : [RefIds -> RefRecord],
             parser_map : [Scripts -> RefIds \cup {Nil}],
             abandoned_parser_map : [Scripts -> SUBSET RefIds],
             parser_inverse_dependencies : [Scripts -> SUBSET Scripts]]

EmptyRegistry ==
  [ref |-> [r \in RefIds |-> Dead],
   parser_map |-> [p \in Scripts |-> Nil],
   abandoned_parser_map |-> [p \in Scripts |-> {}],
   parser_inverse_dependencies |-> [p \in Scripts |-> {}]]

Live(g) == {r \in RefIds : g.ref[r].kind # "dead"}

Registered(g) == {r \in RefIds : \E p \in Scripts : g.parser_map[p] = r}

(* Mistake: depended_parsers kept plain pointers. *)
SurvivorsIfPlainPointers(g, held) == held \cap Live(g)

(***************************************************************************)
(* Reference counting.  What survives is what a pin or a survivor holds in *)
(* its depended_parsers; a cycle of parsers keeps itself alive.  The       *)
(* destructor of a reference that is not abandoned erases its path from    *)
(* parser_map, whatever the entry says.                                    *)
(***************************************************************************)
Survivors(g, held) ==
  UNION {S \in SUBSET Live(g) :
           \A r \in S : r \in held \/ \E h \in S : r \in g.ref[h].deps}

(* Mistake: the destructor did not look at the abandoned flag. *)
ErasesItsPathIfAlways(x) == x.kind = "cached"

ErasesItsPath(x) == x.kind = "cached" /\ ~ x.abandoned

Collected(g, held) ==
  LET S    == Survivors(g, held)
      gone == {r \in Live(g) \ S : ErasesItsPath(g.ref[r])}
  IN [ref |-> [r \in RefIds |-> IF r \in S THEN g.ref[r] ELSE Dead],
      parser_map |-> [p \in Scripts |->
         IF \E r \in gone : g.ref[r].path = p THEN Nil ELSE g.parser_map[p]],
      abandoned_parser_map |->
         [p \in Scripts |-> g.abandoned_parser_map[p] \cap S],
      parser_inverse_dependencies |-> g.parser_inverse_dependencies]

(* Mistakes: an empty owner was noted too; a path that has a parser was    *)
(* not noted again.                                                        *)
NotedIfUnchecked(g, p, owner) ==
  [g EXCEPT !.parser_inverse_dependencies[p] = @ \cup {owner}]

NotedIfOnlyNew(g, p, owner) ==
  IF owner = Nil \/ g.parser_map[p] # Nil THEN g
  ELSE [g EXCEPT !.parser_inverse_dependencies[p] = @ \cup {owner}]

(***************************************************************************)
(* get_parser: note the owner, then find or instantiate the reference.     *)
(* r is the identity the instantiated reference gets.  A pointer in the    *)
(* table whose object is being destroyed, which get_parser answers with    *)
(* ERR_INVALID_DATA (ruzta_cache.cpp:218-221), takes a thread between the  *)
(* last release and the erase of the destructor: see Settle.               *)
(***************************************************************************)
Noted(g, p, owner) ==
  IF owner = Nil THEN g
  ELSE [g EXCEPT !.parser_inverse_dependencies[p] = @ \cup {owner}]

Instantiated(g, p, r) ==
  [g EXCEPT !.ref[r] = [kind |-> "cached", path |-> p, deps |-> {},
                        abandoned |-> FALSE],
            !.parser_map[p] = r]

GetParser(g, p, owner, r) ==
  IF g.parser_map[p] = Nil THEN Instantiated(Noted(g, p, owner), p, r)
  ELSE Noted(g, p, owner)

(* The entry get_parser answers with. *)
Answer(g, p, r) == IF g.parser_map[p] = Nil THEN r ELSE g.parser_map[p]

(* get_depended_parser_for: what get_parser answered is held by parser h. *)
WithDependency(g, h, d) == [g EXCEPT !.ref[h].deps = @ \cup {d}]

(***************************************************************************)
(* remove_parser: the path and, through parser_inverse_dependencies,       *)
(* everything that depends on it.  The recursion erases the entry of a     *)
(* path before it visits its dependents, so it visits the closure once.    *)
(***************************************************************************)
ClosedUnder(inv, S) == \A q \in S : inv[q] \subseteq S

(* Mistake: only the path itself was removed, not its dependents. *)
DependentsIfAlone(inv, p) == {p}

Dependents(inv, p) ==
  {q \in Scripts :
     \A S \in SUBSET Scripts : (p \in S /\ ClosedUnder(inv, S)) => q \in S}

RemoveParser(g, p) ==
  LET D == Dependents(g.parser_inverse_dependencies, p)
      A == {r \in RefIds : \E q \in D : g.parser_map[q] = r}
  IN [ref |-> [r \in RefIds |->
         IF r \in A THEN [g.ref[r] EXCEPT !.abandoned = TRUE] ELSE g.ref[r]],
      parser_map |-> [q \in Scripts |->
         IF q \in D THEN Nil ELSE g.parser_map[q]],
      abandoned_parser_map |-> [q \in Scripts |->
         IF q \in D /\ g.parser_map[q] # Nil
         THEN g.abandoned_parser_map[q] \cup {g.parser_map[q]}
         ELSE g.abandoned_parser_map[q]],
      parser_inverse_dependencies |-> [q \in Scripts |->
         IF q \in D THEN {} ELSE g.parser_inverse_dependencies[q]]]

(* RuztaParserRef::clear deletes the parser and with it depended_parsers. *)
Cleared(g, R) ==
  [g EXCEPT !.ref = [r \in RefIds |->
     IF r \in R THEN [g.ref[r] EXCEPT !.deps = {}] ELSE g.ref[r]]]

(* The references remove_script(p) clears. *)
ClearedBy(g, p) ==
  g.abandoned_parser_map[p] \cup ({g.parser_map[p]} \ {Nil})

RemoveScriptParsers(g, p) ==
  LET c == Cleared(g, ClearedBy(g, p))
  IN RemoveParser([c EXCEPT !.abandoned_parser_map[p] = {}], p)

-----------------------------------------------------------------------------
Init == reg = EmptyRegistry /\ pins = {}

(* Any release or take of a local reference, with the destructors it runs. *)
(* ~RuztaParserRef clears the parser, then takes the mutex and erases the  *)
(* entry (ruzta_cache.cpp:139-146).  Both are in the step that releases:   *)
(* exactly what happens on one thread; with several, the order in which    *)
(* nobody comes between the two.                                           *)
Settle(g, held) ==
  /\ held \subseteq Live(g)
  /\ pins' = held
  /\ reg' = Collected(g, held)

(* r is free to become a reference, if get_parser(p) needs a new one. *)
Spare(p, r) == reg.parser_map[p] = Nil => reg.ref[r].kind = "dead"

(* get_parser on behalf of owner; the caller holds the answer or, as       *)
(* get_shallow_script does, drops it again.                                *)
Get(p, owner, r) ==
  /\ Spare(p, r)
  /\ \E held \in {pins, pins \cup {Answer(reg, p, r)}} :
       Settle(GetParser(reg, p, owner, r), held)

(* get_parser on a path whose file is missing: only the owner is noted. *)
GetMissing(p, owner) ==
  /\ reg.parser_map[p] = Nil
  /\ Settle(Noted(reg, p, owner), pins)

(* get_depended_parser_for(p) on the live parser h, not seen before. *)
Depend(h, p, r) ==
  /\ h \in Live(reg)
  /\ Spare(p, r)
  /\ \A d \in reg.ref[h].deps : reg.ref[d].path # p
  /\ LET g == GetParser(reg, p, reg.ref[h].path, r)
         d == Answer(reg, p, r)
     IN \E held \in SUBSET (pins \cup {d}) :
          pins \subseteq held /\ Settle(WithDependency(g, h, d), held)

(* Ruzta::reload constructs its own parser for path p. *)
NewLocal(p, r) ==
  /\ reg.ref[r].kind = "dead"
  /\ Settle([reg EXCEPT !.ref[r] = [kind |-> "local", path |-> p,
                                    deps |-> {}, abandoned |-> FALSE]],
            pins \cup {r})

Hold(r) == r \in Live(reg) /\ Settle(reg, pins \cup {r})

Release(held) == held \subseteq pins /\ Settle(reg, held)

Remove(p) == Settle(RemoveParser(reg, p), pins)

RemoveScript(p) == Settle(RemoveScriptParsers(reg, p), pins)

Next ==
  \/ \E p \in Scripts, owner \in Scripts \cup {Nil}, r \in RefIds :
       Get(p, owner, r)
  \/ \E p \in Scripts, owner \in Scripts \cup {Nil} : GetMissing(p, owner)
  \/ \E h, r \in RefIds, p \in Scripts : Depend(h, p, r)
  \/ \E p \in Scripts, r \in RefIds : NewLocal(p, r)
  \/ \E r \in RefIds : Hold(r)
  \/ \E held \in SUBSET RefIds : Release(held)
  \/ \E p \in Scripts : Remove(p)
  \/ \E p \in Scripts : RemoveScript(p)

vars == <<reg, pins>>

Spec == Init /\ [][Next]_vars

-----------------------------------------------------------------------------
(* The tables hold what their HashMaps and flags can hold. *)
TypeOK == reg \in Registry /\ pins \subseteq RefIds

(***************************************************************************)
(* The registry names exactly the references that are not abandoned: an    *)
(* entry of parser_map is a live reference of that path, and a live        *)
(* reference that is not abandoned is the entry of its path, so its        *)
(* destructor erases its own entry and never the one of a successor        *)
(* (ruzta_cache.cpp:142-145).                                              *)
(***************************************************************************)
RegisteredIffNotAbandoned ==
  \A r \in RefIds, p \in Scripts :
    reg.parser_map[p] = r
      <=> /\ reg.ref[r].kind = "cached"
          /\ reg.ref[r].path = p
          /\ ~ reg.ref[r].abandoned

(***************************************************************************)
(* Nobody who asks the cache for a parser gets one that was analysed       *)
(* against a parser that has since been thrown away: whatever a registered *)
(* parser depends on is registered too.  This is what the inverse          *)
(* dependencies and the recursion of remove_parser are for.                *)
(***************************************************************************)
FreshDependencies ==
  \A r \in Registered(reg) : \A d \in reg.ref[r].deps :
    ~ reg.ref[d].abandoned

(* What a registered parser depends on has it on record as a dependent, so *)
(* remove_parser will find it (ruzta_cache.cpp:211-215, 253-258).          *)
DependentsRecorded ==
  \A r \in Registered(reg) : \A d \in reg.ref[r].deps :
    reg.ref[r].path \in reg.parser_inverse_dependencies[reg.ref[d].path]

(* A parser never holds a reference that is gone, whichever of the two is  *)
(* removed, cleared or released first (depended_parsers, ruzta_cache.h).   *)
NoDanglingDependency ==
  \A r \in RefIds : reg.ref[r].deps \subseteq Live(reg)

=============================================================================
