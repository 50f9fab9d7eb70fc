--------------------- MODULE RuztaParserRegistryProofs ---------------------
(***************************************************************************)
(* Proofs about RuztaParserRegistry, for any number of scripts and of      *)
(* references: who is registered, and that a registered parser is never    *)
(* left depending on an abandoned one.                                     *)
(***************************************************************************)
EXTENDS RuztaParserRegistry, TLAPS

(***************************************************************************)
(* The inductive invariant, on a value g of the registry.                  *)
(***************************************************************************)
IsRegistered(g, r) == g.ref[r].kind = "cached" /\ ~ g.ref[r].abandoned

Placed(g) == \A r \in RefIds : g.ref[r].kind # "dead" => g.ref[r].path \in Scripts

Keyed(g) == \A r \in RefIds, p \in Scripts :
              g.parser_map[p] = r <=> IsRegistered(g, r) /\ g.ref[r].path = p

DepsAreRefs(g) == \A r \in RefIds : \A d \in g.ref[r].deps :
                    g.ref[d].kind = "cached"

DepsFresh(g) == \A r \in RefIds : IsRegistered(g, r) =>
                  \A d \in g.ref[r].deps : ~ g.ref[d].abandoned

DepsRecorded(g) == \A r \in RefIds : IsRegistered(g, r) =>
   \A d \in g.ref[r].deps :
      g.ref[r].path \in g.parser_inverse_dependencies[g.ref[d].path]

Sound(g) == /\ g \in Registry
            /\ Placed(g) /\ Keyed(g)
            /\ DepsAreRefs(g) /\ DepsFresh(g) /\ DepsRecorded(g)

IInv == Sound(reg) /\ pins \subseteq RefIds

-----------------------------------------------------------------------------
(***************************************************************************)
(* Two facts about the closures the code computes by recursion.            *)
(***************************************************************************)

(* remove_parser visits a set of paths that contains its argument and      *)
(* every recorded dependent of a member.                                   *)
LEMMA DependentsClosed ==
  ASSUME NEW inv \in [Scripts -> SUBSET Scripts], NEW p \in Scripts
  PROVE  /\ p \in Dependents(inv, p)
         /\ Dependents(inv, p) \subseteq Scripts
         /\ ClosedUnder(inv, Dependents(inv, p))
<1> DEFINE D == Dependents(inv, p)
<1>1. p \in D /\ D \subseteq Scripts
  BY DEF Dependents
<1>2. ASSUME NEW q \in D, NEW o \in inv[q]
      PROVE  o \in D
  <2>1. q \in Scripts /\ o \in Scripts
    BY <1>1, <1>2
  <2>2. ASSUME NEW S \in SUBSET Scripts, p \in S, ClosedUnder(inv, S)
        PROVE  o \in S
    <3>1. q \in S
      BY <1>2, <2>2 DEF Dependents
    <3> QED
      BY <1>2, <2>2, <3>1 DEF ClosedUnder
  <2> QED
    BY <2>1, <2>2 DEF Dependents
<1> QED
  BY <1>1, <1>2 DEF ClosedUnder

(* The references that survive a collection are live and hold only         *)
(* references that survive with them.                                      *)
LEMMA SurvivorsClosed ==
  ASSUME NEW g \in Registry, NEW held, DepsAreRefs(g)
  PROVE  /\ Survivors(g, held) \subseteq Live(g)
         /\ \A r \in Survivors(g, held) :
              g.ref[r].deps \subseteq Survivors(g, held)
<1> DEFINE S == Survivors(g, held)
           Supported(T) == \A r \in T : r \in held \/ \E h \in T : r \in g.ref[h].deps
<1>1. S = UNION {T \in SUBSET Live(g) : Supported(T)}
  BY DEF Survivors
<1>2. S \subseteq Live(g)
  BY <1>1
<1>3. Supported(S)
  <2>1. ASSUME NEW r \in S
        PROVE  r \in held \/ \E h \in S : r \in g.ref[h].deps
    <3>1. PICK T \in SUBSET Live(g) : Supported(T) /\ r \in T
      BY <1>1, <2>1
    <3>2. T \subseteq S
      BY <1>1, <3>1
    <3> QED
      BY <3>1, <3>2
  <2> QED
    BY <2>1
<1>4. ASSUME NEW r \in S, NEW d \in g.ref[r].deps
      PROVE  d \in S
  <2>1. r \in RefIds /\ d \in RefIds
    BY <1>2, <1>4 DEF Live, Registry, RefRecord
  <2>2. d \in Live(g)
    BY <1>4, <2>1 DEF DepsAreRefs, Live
  <2>3. Supported(S \cup {d})
    BY <1>3, <1>4
  <2>4. S \cup {d} \in SUBSET Live(g)
    BY <1>2, <2>2
  <2> QED
    BY <1>1, <2>3, <2>4
<1> HIDE DEF S
<1>5. \A r \in S : g.ref[r].deps \subseteq S
  BY <1>4
<1> QED
  BY <1>2, <1>5 DEF S
-----------------------------------------------------------------------------
(***************************************************************************)
(* Each operation of the registry keeps it sound.                          *)
(***************************************************************************)

(* The empty tables of a new RuztaCache are sound. *)
LEMMA SoundEmpty == Sound(EmptyRegistry)
BY RegistryAssumption
   DEF Sound, EmptyRegistry, Dead, Registry, RefRecord, Placed, Keyed,
       DepsAreRefs, DepsFresh, DepsRecorded, IsRegistered

(* Noting an owner only adds to the inverse dependencies. *)
LEMMA SoundNoted ==
  ASSUME NEW g, Sound(g), NEW p \in Scripts, NEW owner \in Scripts \cup {Nil}
  PROVE  Sound(Noted(g, p, owner))
<1>1. CASE owner = Nil
  BY <1>1 DEF Noted
<1>2. CASE owner # Nil
  <2> DEFINE n == Noted(g, p, owner)
  <2>1. /\ n \in Registry
        /\ n.ref = g.ref /\ n.parser_map = g.parser_map
        /\ \A q \in Scripts : g.parser_inverse_dependencies[q]
                                 \subseteq n.parser_inverse_dependencies[q]
    BY <1>2 DEF Noted, Sound, Registry
  <2> HIDE DEF n
  <2>2. Placed(n) /\ Keyed(n) /\ DepsAreRefs(n) /\ DepsFresh(n)
    BY <2>1 DEF Sound, Placed, Keyed, DepsAreRefs, DepsFresh, IsRegistered
  <2>3. DepsRecorded(n)
    BY <2>1 DEF Sound, Placed, DepsAreRefs, DepsRecorded, IsRegistered,
                Registry, RefRecord
  <2> QED
    BY <2>1, <2>2, <2>3 DEF Sound, n
<1> QED
  BY <1>1, <1>2

(* A reference instantiated for a path without an entry is registered. *)
LEMMA SoundInstantiated ==
  ASSUME NEW g, Sound(g), NEW p \in Scripts, NEW r \in RefIds,
         g.parser_map[p] = Nil, g.ref[r].kind = "dead"
  PROVE  Sound(Instantiated(g, p, r))
<1> DEFINE n == Instantiated(g, p, r)
<1>1. /\ n \in Registry
      /\ n.ref[r] = [kind |-> "cached", path |-> p, deps |-> {}, abandoned |-> FALSE]
      /\ \A s \in RefIds \ {r} : n.ref[s] = g.ref[s]
      /\ n.parser_map[p] = r
      /\ \A q \in Scripts \ {p} : n.parser_map[q] = g.parser_map[q]
      /\ n.parser_inverse_dependencies = g.parser_inverse_dependencies
  BY DEF Instantiated, Sound, Registry, RefRecord
<1> HIDE DEF n
<1>2. \A s \in RefIds : \A d \in n.ref[s].deps :
         s # r /\ d \in RefIds \ {r} /\ n.ref[d] = g.ref[d]
  BY <1>1 DEF Sound, DepsAreRefs, Registry, RefRecord
<1>3. Keyed(n)
  <2> SUFFICES ASSUME NEW s \in RefIds, NEW q \in Scripts
               PROVE  n.parser_map[q] = s
                        <=> IsRegistered(n, s) /\ n.ref[s].path = q
    BY DEF Keyed
  <2>1. CASE s = r
    BY <1>1, <2>1 DEF Sound, Keyed, IsRegistered
  <2>2. CASE s # r
    BY <1>1, <2>2, RegistryAssumption DEF Sound, Keyed, IsRegistered
  <2> QED
    BY <2>1, <2>2
<1>4. Placed(n)
  BY <1>1 DEF Sound, Placed
<1>5. DepsAreRefs(n) /\ DepsFresh(n) /\ DepsRecorded(n)
  BY <1>1, <1>2 DEF Sound, DepsAreRefs, DepsFresh, DepsRecorded, IsRegistered
<1> QED
  BY <1>1, <1>3, <1>4, <1>5 DEF Sound, n

(* get_parser answers with the registered reference of the path. *)
LEMMA SoundGetParser ==
  ASSUME NEW g, Sound(g), NEW p \in Scripts, NEW owner \in Scripts \cup {Nil},
         NEW r \in RefIds, g.parser_map[p] = Nil => g.ref[r].kind = "dead"
  PROVE  /\ Sound(GetParser(g, p, owner, r))
         /\ Answer(g, p, r) \in RefIds
         /\ GetParser(g, p, owner, r).parser_map[p] = Answer(g, p, r)
<1> DEFINE m == Noted(g, p, owner)
<1>1. Sound(m)
  BY SoundNoted
<1>2. m.ref = g.ref /\ m.parser_map = g.parser_map
  BY DEF Noted, Sound, Registry
<1>3. CASE g.parser_map[p] = Nil
  <2>1. Sound(Instantiated(m, p, r))
    BY <1>1, <1>2, <1>3, SoundInstantiated
  <2>2. Instantiated(m, p, r).parser_map[p] = r
    BY <1>1 DEF Instantiated, Sound, Registry
  <2> QED
    BY <1>3, <2>1, <2>2 DEF GetParser, Answer
<1>4. CASE g.parser_map[p] # Nil
  BY <1>1, <1>2, <1>4 DEF GetParser, Answer, Sound, Registry
<1> QED
  BY <1>3, <1>4

(* A parser starts to depend on a registered one that has it on record. *)
LEMMA SoundWithDependency ==
  ASSUME NEW g, Sound(g), NEW h \in RefIds, NEW d \in RefIds, IsRegistered(g, d),
         g.ref[h].path \in g.parser_inverse_dependencies[g.ref[d].path]
  PROVE  Sound(WithDependency(g, h, d))
<1> DEFINE n == WithDependency(g, h, d)
           e == [g.ref[h] EXCEPT !.deps = g.ref[h].deps \cup {d}]
           f == [g.ref EXCEPT ![h] = e]
<1>a. g.ref \in [RefIds -> RefRecord]
  BY DEF Sound, Registry
<1>b. /\ e \in RefRecord
      /\ e.kind = g.ref[h].kind /\ e.path = g.ref[h].path
      /\ e.abandoned = g.ref[h].abandoned
      /\ e.deps = g.ref[h].deps \cup {d}
  BY <1>a DEF RefRecord
<1> HIDE DEF e
<1>c. f \in [RefIds -> RefRecord] /\ f[h] = e /\ \A s \in RefIds \ {h} : f[s] = g.ref[s]
  BY <1>a, <1>b
<1>d. n = [g EXCEPT !.ref = f]
  BY DEF WithDependency, e
<1> HIDE DEF f, n
<1>e. /\ n \in Registry /\ n.ref = f
      /\ n.parser_map = g.parser_map
      /\ n.parser_inverse_dependencies = g.parser_inverse_dependencies
  BY <1>c, <1>d DEF Sound, Registry
<1>1. /\ \A s \in RefIds : /\ n.ref[s].kind = g.ref[s].kind
                           /\ n.ref[s].path = g.ref[s].path
                           /\ n.ref[s].abandoned = g.ref[s].abandoned
                           /\ s # h => n.ref[s].deps = g.ref[s].deps
      /\ n.ref[h].deps = g.ref[h].deps \cup {d}
      /\ n \in Registry /\ n.parser_map = g.parser_map
      /\ n.parser_inverse_dependencies = g.parser_inverse_dependencies
  BY <1>b, <1>c, <1>e
<1>2. Placed(n) /\ Keyed(n)
  BY <1>1 DEF Sound, Placed, Keyed, IsRegistered
<1>3. \A s \in RefIds : \A x \in n.ref[s].deps :
        x \in RefIds /\ (x \in g.ref[s].deps \/ (s = h /\ x = d))
  BY <1>1 DEF Registry, RefRecord
<1>4. DepsAreRefs(n) /\ DepsFresh(n) /\ DepsRecorded(n)
  BY <1>1, <1>3 DEF Sound, DepsAreRefs, DepsFresh, DepsRecorded, IsRegistered
<1> QED
  BY <1>1, <1>2, <1>4 DEF Sound, n

(* The parser local to Ruzta::reload is nobody's dependency. *)
LEMMA SoundNewLocal ==
  ASSUME NEW g, Sound(g), NEW p \in Scripts, NEW r \in RefIds,
         g.ref[r].kind = "dead"
  PROVE  Sound([g EXCEPT !.ref[r] = [kind |-> "local", path |-> p,
                                     deps |-> {}, abandoned |-> FALSE]])
<1> DEFINE e == [kind |-> "local", path |-> p, deps |-> {}, abandoned |-> FALSE]
           n == [g EXCEPT !.ref[r] = e]
<1>1. /\ n \in Registry
      /\ n.ref[r] = e
      /\ \A s \in RefIds \ {r} : n.ref[s] = g.ref[s]
      /\ n.parser_map = g.parser_map
      /\ n.parser_inverse_dependencies = g.parser_inverse_dependencies
  BY DEF Sound, Registry, RefRecord
<1>2. e.kind = "local" /\ e.path = p /\ e.deps = {}
  OBVIOUS
<1> HIDE DEF n, e
<1>3. \A s \in RefIds : \A d \in n.ref[s].deps :
         s # r /\ d \in RefIds \ {r} /\ n.ref[d] = g.ref[d]
  BY <1>1, <1>2 DEF Sound, DepsAreRefs, Registry, RefRecord
<1>4. Placed(n) /\ Keyed(n)
  BY <1>1, <1>2 DEF Sound, Placed, Keyed, IsRegistered
<1>5. DepsAreRefs(n) /\ DepsFresh(n) /\ DepsRecorded(n)
  BY <1>1, <1>2, <1>3 DEF Sound, DepsAreRefs, DepsFresh, DepsRecorded, IsRegistered
<1> QED
  BY <1>1, <1>4, <1>5 DEF Sound, n, e

(***************************************************************************)
(* remove_parser leaves no registered parser that depends on one of those  *)
(* it abandons: a dependent is on record, so its path is visited as well.  *)
(***************************************************************************)
LEMMA SoundRemoveParser ==
  ASSUME NEW g, Sound(g), NEW p \in Scripts
  PROVE  Sound(RemoveParser(g, p))
<1> DEFINE inv == g.parser_inverse_dependencies
           D == Dependents(inv, p)
           A == {r \in RefIds : \E q \in D : g.parser_map[q] = r}
           n == RemoveParser(g, p)
<1>1. D \subseteq Scripts /\ ClosedUnder(inv, D)
  BY DependentsClosed DEF Sound, Registry
<1> HIDE DEF D
<1> DEFINE ref == [r \in RefIds |-> IF r \in A THEN [g.ref[r] EXCEPT !.abandoned = TRUE]
                                    ELSE g.ref[r]]
           map == [q \in Scripts |-> IF q \in D THEN Nil ELSE g.parser_map[q]]
           old == [q \in Scripts |-> IF q \in D /\ g.parser_map[q] # Nil
                                     THEN g.abandoned_parser_map[q] \cup {g.parser_map[q]}
                                     ELSE g.abandoned_parser_map[q]]
           deps == [q \in Scripts |-> IF q \in D THEN {} ELSE inv[q]]
<1>2. n = [ref |-> ref, parser_map |-> map, abandoned_parser_map |-> old,
           parser_inverse_dependencies |-> deps]
  BY DEF RemoveParser, D
<1>3. n \in Registry
  <2>1. ref \in [RefIds -> RefRecord]
    <3> SUFFICES ASSUME NEW r \in RefIds
                 PROVE  ref[r] \in RefRecord
      OBVIOUS
    <3>1. g.ref[r] \in RefRecord
      BY DEF Sound, Registry
    <3> HIDE DEF A
    <3> QED
      BY <3>1 DEF RefRecord
  <2>2. map \in [Scripts -> RefIds \cup {Nil}] /\ deps \in [Scripts -> SUBSET Scripts]
    BY DEF Sound, Registry
  <2>3. old \in [Scripts -> SUBSET RefIds]
    BY DEF Sound, Registry
  <2> QED
    BY <1>2, <2>1, <2>2, <2>3 DEF Registry
<1> HIDE DEF n
<1>4. \A r \in RefIds : /\ n.ref[r].kind = g.ref[r].kind
                        /\ n.ref[r].path = g.ref[r].path
                        /\ n.ref[r].deps = g.ref[r].deps
                        /\ n.ref[r].abandoned <=> (g.ref[r].abandoned \/ r \in A)
  BY <1>2 DEF Sound, Registry, RefRecord
<1>5. \A r \in A : IsRegistered(g, r) /\ g.ref[r].path \in D
  BY <1>1 DEF Sound, Keyed
<1>6. \A r \in RefIds : IsRegistered(n, r)
                          <=> IsRegistered(g, r) /\ g.ref[r].path \notin D
  <2> TAKE r \in RefIds
  <2>1. IsRegistered(g, r) /\ g.ref[r].path \in D => r \in A
    BY <1>1 DEF Sound, Keyed
  <2> QED
    BY <1>4, <1>5, <2>1 DEF IsRegistered
<1>7. Placed(n) /\ DepsAreRefs(n)
  BY <1>4 DEF Sound, Placed, DepsAreRefs, Registry, RefRecord
<1>8. Keyed(n)
  BY <1>1, <1>2, <1>4, <1>6, RegistryAssumption DEF Sound, Keyed
<1>9. ASSUME NEW r \in RefIds, IsRegistered(n, r), NEW d \in g.ref[r].deps
      PROVE  /\ d \in RefIds /\ IsRegistered(g, d) /\ g.ref[d].path \in Scripts \ D
             /\ g.ref[r].path \in inv[g.ref[d].path]
  <2>1. IsRegistered(g, r) /\ g.ref[r].path \notin D /\ d \in RefIds
    BY <1>6, <1>9 DEF Sound, Registry, RefRecord
  <2>2. IsRegistered(g, d) /\ g.ref[d].path \in Scripts
    BY <1>9, <2>1 DEF Sound, DepsAreRefs, DepsFresh, Placed, IsRegistered
  <2>3. g.ref[r].path \in inv[g.ref[d].path]
    BY <1>9, <2>1 DEF Sound, DepsRecorded
  <2> QED
    BY <2>1, <2>2, <2>3, <1>1 DEF ClosedUnder
<1>10. DepsFresh(n)
  BY <1>4, <1>6, <1>9 DEF DepsFresh, IsRegistered
<1>11. DepsRecorded(n)
  <2> SUFFICES ASSUME NEW r \in RefIds, IsRegistered(n, r), NEW d \in n.ref[r].deps
               PROVE  n.ref[r].path \in n.parser_inverse_dependencies[n.ref[d].path]
    BY DEF DepsRecorded
  <2>1. d \in g.ref[r].deps
    BY <1>4
  <2>2. n.parser_inverse_dependencies[g.ref[d].path] = inv[g.ref[d].path]
    BY <1>2, <1>9, <2>1
  <2> QED
    BY <1>4, <1>9, <2>1, <2>2
<1> QED
  BY <1>3, <1>7, <1>8, <1>10, <1>11 DEF Sound, n

(* Clearing references only takes dependencies away. *)
LEMMA SoundCleared ==
  ASSUME NEW g, Sound(g), NEW R
  PROVE  Sound(Cleared(g, R))
<1> DEFINE n == Cleared(g, R)
           f == [r \in RefIds |-> IF r \in R THEN [g.ref[r] EXCEPT !.deps = {}]
                                  ELSE g.ref[r]]
<1>1. f \in [RefIds -> RefRecord]
  BY DEF Sound, Registry, RefRecord
<1>2. \A r \in RefIds : /\ f[r].kind = g.ref[r].kind
                        /\ f[r].path = g.ref[r].path
                        /\ f[r].abandoned = g.ref[r].abandoned
                        /\ f[r].deps \subseteq g.ref[r].deps
  BY DEF Sound, Registry, RefRecord
<1>3. n = [g EXCEPT !.ref = f]
  BY DEF Cleared
<1> HIDE DEF f
<1>4. /\ n \in Registry /\ n.ref = f /\ n.parser_map = g.parser_map
      /\ n.parser_inverse_dependencies = g.parser_inverse_dependencies
  BY <1>1, <1>3 DEF Sound, Registry
<1> HIDE DEF n
<1>5. \A r \in RefIds : \A d \in f[r].deps : d \in RefIds
  BY <1>1 DEF RefRecord
<1>6. Placed(n) /\ Keyed(n) /\ DepsAreRefs(n) /\ DepsFresh(n) /\ DepsRecorded(n)
  BY <1>2, <1>4, <1>5
     DEF Sound, Placed, Keyed, DepsAreRefs, DepsFresh, DepsRecorded, IsRegistered
<1> QED
  BY <1>4, <1>6 DEF Sound, n

(***************************************************************************)
(* The destructors keep the registry sound: a reference that dies without  *)
(* being abandoned erases its own entry, nobody else's.                    *)
(***************************************************************************)
LEMMA SoundCollected ==
  ASSUME NEW g, Sound(g), NEW held
  PROVE  Sound(Collected(g, held))
<1> DEFINE S == Survivors(g, held)
           gone == {r \in Live(g) \ S : ErasesItsPath(g.ref[r])}
           ref == [r \in RefIds |-> IF r \in S THEN g.ref[r] ELSE Dead]
           map == [p \in Scripts |->
                     IF \E r \in gone : g.ref[r].path = p THEN Nil
                     ELSE g.parser_map[p]]
           old == [p \in Scripts |-> g.abandoned_parser_map[p] \cap S]
           n == Collected(g, held)
<1>1. S \subseteq Live(g) /\ \A r \in S : g.ref[r].deps \subseteq S
  BY SurvivorsClosed DEF Sound
<1> HIDE DEF S
<1>2. n = [ref |-> ref, parser_map |-> map, abandoned_parser_map |-> old,
           parser_inverse_dependencies |-> g.parser_inverse_dependencies]
  BY DEF Collected, S
<1>3. n \in Registry
  <2>1. ref \in [RefIds -> RefRecord]
    BY DEF Sound, Registry, RefRecord, Dead
  <2>2. map \in [Scripts -> RefIds \cup {Nil}]
    BY DEF Sound, Registry
  <2>3. old \in [Scripts -> SUBSET RefIds]
    BY DEF Sound, Registry
  <2> QED
    BY <1>2, <2>1, <2>2, <2>3 DEF Sound, Registry
<1>4. \A r \in RefIds : /\ r \in S => n.ref[r] = g.ref[r]
                        /\ r \notin S => n.ref[r].kind = "dead" /\ n.ref[r].deps = {}
  BY <1>2 DEF Dead
<1>5. n.parser_inverse_dependencies = g.parser_inverse_dependencies
  BY <1>2
<1>6. \A r \in gone : /\ r \in RefIds \ S /\ IsRegistered(g, r)
                      /\ g.ref[r].path \in Scripts
                      /\ g.parser_map[g.ref[r].path] = r
  BY DEF Live, ErasesItsPath, IsRegistered, Sound, Placed, Keyed
<1>7. Keyed(n)
  <2> SUFFICES ASSUME NEW r \in RefIds, NEW p \in Scripts
               PROVE  n.parser_map[p] = r
                        <=> IsRegistered(n, r) /\ n.ref[r].path = p
    BY DEF Keyed
  <2>1. n.parser_map[p] = r <=> g.parser_map[p] = r /\ r \in S
    <3>1. ASSUME g.parser_map[p] = r, r \in S
          PROVE  n.parser_map[p] = r
      BY <1>2, <1>6, <3>1
    <3>2. ASSUME n.parser_map[p] = r
          PROVE  g.parser_map[p] = r /\ r \in S
      <4>1. g.parser_map[p] = r /\ ~ \E s \in gone : g.ref[s].path = p
        BY <1>2, <3>2, RegistryAssumption
      <4>2. IsRegistered(g, r) /\ g.ref[r].path = p /\ r \in Live(g)
        BY <4>1 DEF Sound, Keyed, IsRegistered, Live
      <4> QED
        BY <4>1, <4>2 DEF IsRegistered, ErasesItsPath
    <3> QED
      BY <3>1, <3>2
  <2>2. IsRegistered(n, r) /\ n.ref[r].path = p
          <=> r \in S /\ IsRegistered(g, r) /\ g.ref[r].path = p
    BY <1>4 DEF IsRegistered
  <2> QED
    BY <2>1, <2>2 DEF Sound, Keyed
<1> HIDE DEF n, gone
<1>8. Placed(n)
  BY <1>4 DEF Sound, Placed
<1>9. \A r \in RefIds : \A d \in n.ref[r].deps :
        /\ r \in S /\ d \in S /\ d \in RefIds /\ d \in g.ref[r].deps
        /\ n.ref[d] = g.ref[d] /\ n.ref[r] = g.ref[r]
  BY <1>1, <1>4 DEF Live
<1>10. DepsAreRefs(n) /\ DepsFresh(n) /\ DepsRecorded(n)
  BY <1>5, <1>9 DEF Sound, DepsAreRefs, DepsFresh, DepsRecorded, IsRegistered
<1> QED
  BY <1>3, <1>7, <1>8, <1>10 DEF Sound, n

(* So a step that settles a sound registry is sound. *)
LEMMA SoundSettle ==
  ASSUME NEW g, Sound(g), NEW held, Settle(g, held)
  PROVE  IInv'
<1>1. Sound(reg')
  BY SoundCollected DEF Settle
<1>2. pins' \subseteq RefIds
  BY DEF Settle, Live
<1>3. Sound(reg)' <=> Sound(reg')
  BY DEF Sound, Placed, Keyed, DepsAreRefs, DepsFresh, DepsRecorded, IsRegistered
<1> QED
  BY <1>1, <1>2, <1>3 DEF IInv

-----------------------------------------------------------------------------
(***************************************************************************)
(* The invariant is inductive.                                             *)
(***************************************************************************)
LEMMA InitIInv == Init => IInv
BY SoundEmpty DEF Init, IInv

LEMMA NextIInv == IInv /\ [Next]_vars => IInv'
<1> SUFFICES ASSUME Sound(reg), pins \subseteq RefIds, [Next]_vars
             PROVE  IInv'
  BY DEF IInv
<1>1. ASSUME NEW p \in Scripts, NEW owner \in Scripts \cup {Nil}, NEW r \in RefIds,
             Get(p, owner, r)
      PROVE  IInv'
  <2>1. Sound(GetParser(reg, p, owner, r))
    BY <1>1, SoundGetParser DEF Get, Spare
  <2> QED
    BY <1>1, <2>1, SoundSettle DEF Get
<1>2. ASSUME NEW p \in Scripts, NEW owner \in Scripts \cup {Nil}, GetMissing(p, owner)
      PROVE  IInv'
  BY <1>2, SoundNoted, SoundSettle DEF GetMissing
<1>3. ASSUME NEW h \in RefIds, NEW r \in RefIds, NEW p \in Scripts, Depend(h, p, r)
      PROVE  IInv'
  <2> DEFINE o == reg.ref[h].path
             g == GetParser(reg, p, o, r)
             d == Answer(reg, p, r)
  <2>1. o \in Scripts /\ o # Nil
    BY <1>3, RegistryAssumption DEF Depend, Live, Sound, Placed
  <2>2. Sound(g) /\ d \in RefIds /\ g.parser_map[p] = d
    BY <1>3, <2>1, SoundGetParser DEF Depend, Spare
  <2>3. IsRegistered(g, d) /\ g.ref[d].path = p
    BY <2>2 DEF Sound, Keyed
  <2>4. o \in g.parser_inverse_dependencies[p]
    BY <2>1 DEF GetParser, Instantiated, Noted, Sound, Registry
  <2>5. g.ref[h].path = o
    BY <1>3 DEF Depend, Spare, Live, GetParser, Instantiated, Noted, Sound, Registry
  <2>6. Sound(WithDependency(g, h, d))
    <3> HIDE DEF g, d, o
    <3> QED
      BY <2>2, <2>3, <2>4, <2>5, SoundWithDependency
  <2> QED
    BY <1>3, <2>6, SoundSettle DEF Depend
<1>4. ASSUME NEW p \in Scripts, NEW r \in RefIds, NewLocal(p, r)
      PROVE  IInv'
  BY <1>4, SoundNewLocal, SoundSettle DEF NewLocal
<1>5. ASSUME NEW r \in RefIds, Hold(r)
      PROVE  IInv'
  BY <1>5, SoundSettle DEF Hold
<1>6. ASSUME NEW held \in SUBSET RefIds, Release(held)
      PROVE  IInv'
  BY <1>6, SoundSettle DEF Release
<1>7. ASSUME NEW p \in Scripts, Remove(p)
      PROVE  IInv'
  BY <1>7, SoundRemoveParser, SoundSettle DEF Remove
<1>8. ASSUME NEW p \in Scripts, RemoveScript(p)
      PROVE  IInv'
  <2> DEFINE c == Cleared(reg, ClearedBy(reg, p))
             e == [c EXCEPT !.abandoned_parser_map[p] = {}]
  <2>1. Sound(c)
    BY SoundCleared
  <2> HIDE DEF c
  <2>2. /\ e \in Registry /\ e.ref = c.ref /\ e.parser_map = c.parser_map
        /\ e.parser_inverse_dependencies = c.parser_inverse_dependencies
    BY <2>1 DEF Sound, Registry
  <2>3. Sound(e)
    <3> HIDE DEF e
    <3> QED
      BY <2>1, <2>2 DEF Sound, Placed, Keyed, DepsAreRefs, DepsFresh,
                        DepsRecorded, IsRegistered
  <2>4. Sound(RemoveScriptParsers(reg, p))
    BY <2>3, SoundRemoveParser DEF RemoveScriptParsers, c
  <2> QED
    BY <1>8, <2>4, SoundSettle DEF RemoveScript
<1>9. CASE UNCHANGED vars
  BY <1>9 DEF vars, IInv, Sound, Placed, Keyed, DepsAreRefs, DepsFresh,
              DepsRecorded, IsRegistered
<1> QED
  BY <1>1, <1>2, <1>3, <1>4, <1>5, <1>6, <1>7, <1>8, <1>9 DEF Next

THEOREM SpecIInv == Spec => []IInv
<1> QED
  BY InitIInv, NextIInv, PTL DEF Spec

(* The tables keep their types, whatever the callers do. *)
THEOREM TypeCorrect == Spec => []TypeOK
<1>1. IInv => TypeOK
  BY DEF IInv, Sound, TypeOK
<1> QED
  BY <1>1, SpecIInv, PTL

(***************************************************************************)
(* The entry of a path is the one live reference of that path which is not *)
(* abandoned; a destructor never erases the entry of a successor.          *)
(***************************************************************************)
THEOREM OneRegistered == Spec => []RegisteredIffNotAbandoned
<1>1. IInv => RegisteredIffNotAbandoned
  BY DEF IInv, Sound, Keyed, IsRegistered, RegisteredIffNotAbandoned
<1> QED
  BY <1>1, SpecIInv, PTL

(***************************************************************************)
(* A parser the cache hands out never depends on a discarded parser: the   *)
(* recursion of remove_parser reaches every dependent.                     *)
(***************************************************************************)
THEOREM NeverStale == Spec => []FreshDependencies
<1>1. IInv => FreshDependencies
  BY DEF IInv, Sound, Keyed, DepsFresh, FreshDependencies, Registered
<1> QED
  BY <1>1, SpecIInv, PTL

(* The dependents of a registered parser are on record, by path. *)
THEOREM AlwaysRecorded == Spec => []DependentsRecorded
<1>1. IInv => DependentsRecorded
  BY DEF IInv, Sound, Keyed, DepsRecorded, DependentsRecorded, Registered
<1> QED
  BY <1>1, SpecIInv, PTL

(* No parser holds a reference that was destroyed. *)
THEOREM NothingDangles == Spec => []NoDanglingDependency
<1>1. IInv => NoDanglingDependency
  BY DEF IInv, Sound, Registry, RefRecord, DepsAreRefs, Live, NoDanglingDependency
<1> QED
  BY <1>1, SpecIInv, PTL
=============================================================================
