----------------------- MODULE RuztaLanguageServerProofs -----------------------
(***************************************************************************)
(* Proofs about RuztaLanguageServer, for any number of clients, messages   *)
(* and scripts and any cut of the bytes: the tables of the workspace, and  *)
(* the server that is polled exactly while it is started.                  *)
(***************************************************************************)
EXTENDS RuztaLanguageServer, FiniteSetTheorems, SequenceTheorems, WellFoundedInduction, TLAPS

-----------------------------------------------------------------------------
(***************************************************************************)
(* What the handlers of the workspace keep, for any project and any texts: *)
(* the tables have only parsers that are alive and of their path, and      *)
(* scripts has the last good text.                                         *)
(***************************************************************************)
IsWorkspace(w) ==
  w = [ parse_results |-> w.parse_results,
        scripts       |-> w.scripts,
        heap          |-> w.heap,
        spoiled       |-> w.spoiled,
        initialized   |-> w.initialized,
        notes         |-> w.notes ]

Typed(results, scripts, heap) ==
  /\ results \in [PathSet -> Parsers \cup {Null}]
  /\ scripts \in [PathSet -> Parsers \cup {Null}]
  /\ IsHeap(heap)

(* What is in a table is alive, and of the path it is there for.           *)
Alive(table, heap) ==
  \A p \in PathSet : table[p] # Null =>
    table[p] \in DOMAIN heap /\ heap[table[p]].path = p

LastGood(results, scripts, heap) ==
  \A p \in PathSet :
    /\ scripts[p] # Null => heap[scripts[p]].text = "good" /\ results[p] # Null
    /\ results[p] # Null /\ heap[results[p]].text = "good" =>
         scripts[p] = results[p]

Tables(results, scripts, heap) ==
  /\ Typed(results, scripts, heap)
  /\ Alive(results, heap) /\ Alive(scripts, heap)
  /\ LastGood(results, scripts, heap)

(* What handlers tell the client, none of it a response.                   *)
Notice == [type : {"diagnostics", "changeWorkspace"}, about : PathSet \cup {"root"}]

Sound(w) ==
  /\ IsWorkspace(w)
  /\ w.notes \in Seq(Notice)
  /\ w.spoiled = FALSE
  /\ w.initialized \in BOOLEAN
  /\ Tables(w.parse_results, w.scripts, w.heap)

(* No other parser replaces one that is there.                             *)
Kept(w, u) ==
  \A p \in PathSet : w.parse_results[p] # Null =>
    u.parse_results[p] = w.parse_results[p]

(* What the files may be.                                                  *)
DiskTyped == disk \in [PathSet -> Texts \cup {"absent"}]

-----------------------------------------------------------------------------
(* Counting up from zero reaches every natural number.                     *)
LEMMA Steps ==
  ASSUME NEW T, 0 \in T, \A n \in Nat : n \in T => n + 1 \in T
  PROVE  Nat \subseteq T
<1> DEFINE R == OpToRel(<, Nat)
           U == Nat \ T
<1>1. IsWellFoundedOn(R, Nat)
  BY NatLessThanWellFounded
<1>2. \A x, y \in Nat : <<x, y>> \in R <=> x < y
  BY DEF OpToRel
<1> HIDE DEF R
<1>3. SUFFICES ASSUME U # {} PROVE FALSE
  OBVIOUS
<1>4. PICK x \in U : \A y \in U : ~ (<<y, x>> \in R)
  BY <1>1, <1>3, WFMin
<1>5. x # 0 /\ x \in Nat
  BY <1>4
<1> DEFINE y == x - 1
<1>6. y \in Nat /\ y < x /\ y + 1 = x
  BY <1>5
<1> HIDE DEF y
<1>7. <<y, x>> \in R
  BY <1>2, <1>5, <1>6
<1>8. y \in T
  BY <1>4, <1>6, <1>7
<1>9. x \in T
  BY <1>6, <1>8
<1> QED
  BY <1>4, <1>9

(* memnew finds an address: of n objects, one of n + 1 addresses is free.  *)
LEMMA Fresh ==
  ASSUME NEW w, IsFiniteSet(DOMAIN w.heap)
  PROVE  memnew(w) \in Parsers /\ memnew(w) \notin DOMAIN w.heap
<1> DEFINE D == DOMAIN w.heap
           n == Cardinality(D)
           S == 1..n + 1
<1>1. n \in Nat
  BY FS_CardinalityType
<1>2. Cardinality(S) = n + 1
  <2> DEFINE m == n + 1
  <2>1. m \in Int /\ m >= 1
    BY <1>1
  <2> HIDE DEF m
  <2>2. Cardinality(1..m) = IF 1 > m THEN 0 ELSE m - 1 + 1
    BY <2>1, FS_Interval
  <2>3. Cardinality(1..m) = m
    BY <2>1, <2>2
  <2> QED
    BY <2>3 DEF m
<1>3. ~ (S \subseteq D)
  <2>1. SUFFICES ASSUME S \in SUBSET D PROVE FALSE
    OBVIOUS
  <2>2. Cardinality(S) <= Cardinality(D)
    BY <2>1, FS_Subset
  <2> QED
    BY <1>1, <1>2, <2>2
<1>4. \E q \in S : ~ Live(w, q)
  BY <1>3 DEF Live
<1>5. memnew(w) \in S /\ ~ Live(w, memnew(w))
  <2>1. memnew(w) = CHOOSE q \in S : ~ Live(w, q)
    BY DEF memnew
  <2> HIDE DEF S
  <2> QED
    BY <1>4, <2>1, Zenon
<1> QED
  BY <1>1, <1>5 DEF Live, Parsers, Null

LEMMA SmallerHeap ==
  ASSUME NEW heap, IsHeap(heap), NEW gone
  PROVE  IsHeap([q \in DOMAIN heap \ gone |-> heap[q]])
<1>1. IsFiniteSet(DOMAIN heap \ gone)
  <2>1. (DOMAIN heap \ gone) \in SUBSET DOMAIN heap
    OBVIOUS
  <2> QED
    BY <2>1, FS_Subset DEF IsHeap
<1> QED
  BY <1>1 DEF IsHeap

(* The heap and the tables after the entries of a path were removed.       *)
LEMMA Removes ==
  ASSUME NEW w, Sound(w), NEW p \in PathSet
  PROVE  remove_cache_parser(w, p) =
           [ parse_results |-> [w.parse_results EXCEPT ![p] = Null],
             scripts       |-> [w.scripts EXCEPT ![p] = Null],
             heap          |-> [q \in DOMAIN w.heap \ {w.parse_results[p], w.scripts[p]}
                                  |-> w.heap[q]],
             spoiled       |-> FALSE,
             initialized   |-> w.initialized,
             notes         |-> w.notes ]
<1> DEFINE a == w.parse_results[p]
           b == w.scripts[p]
           Without(gone) == [ parse_results |-> w.parse_results,
                              scripts       |-> w.scripts,
                              heap          |-> [q \in DOMAIN w.heap \ gone |-> w.heap[q]],
                              spoiled       |-> FALSE,
                              initialized   |-> w.initialized,
                              notes         |-> w.notes ]
<1>1. /\ IsWorkspace(w) /\ w.spoiled = FALSE
      /\ DOMAIN w.heap \subseteq Parsers
      /\ w.heap \in [DOMAIN w.heap -> ParserRecord]
      /\ a # Null => a \in DOMAIN w.heap
      /\ b # Null => b \in DOMAIN w.heap
      /\ Null \notin DOMAIN w.heap
  BY DEF Sound, Tables, Typed, Alive, IsHeap, Parsers
<1>2. ASSUME NEW q \in DOMAIN w.heap
      PROVE  memdelete(w, q) = Without({q})
  BY <1>1 DEF memdelete, Live, IsWorkspace
<1>3. ASSUME NEW q \in DOMAIN w.heap, NEW r \in DOMAIN w.heap, q # r
      PROVE  memdelete(memdelete(w, q), r) = Without({q, r})
  <2> DEFINE v == Without({q})
  <2>1. v.heap = [x \in DOMAIN w.heap \ {q} |-> w.heap[x]]
    OBVIOUS
  <2>2. DOMAIN v.heap = DOMAIN w.heap \ {q} /\ r \in DOMAIN v.heap
    BY <1>3, <2>1
  <2>3. [x \in DOMAIN v.heap \ {r} |-> v.heap[x]]
          = [x \in DOMAIN w.heap \ {q, r} |-> w.heap[x]]
    BY <2>1, <2>2
  <2>4. memdelete(v, r) = [v EXCEPT !.heap = [x \in DOMAIN v.heap \ {r} |-> v.heap[x]]]
    BY <2>2 DEF memdelete, Live
  <2> QED
    BY <1>2, <2>3, <2>4
<1>4. FreedEntries(w, p) = Without({a, b})
  <2>1. CASE a = Null /\ b = Null
    <3>1. FreedEntries(w, p) = w
      BY <2>1 DEF FreedEntries
    <3>2. DOMAIN w.heap \ {a, b} = DOMAIN w.heap
      BY <1>1, <2>1
    <3>3. [q \in DOMAIN w.heap \ {a, b} |-> w.heap[q]] = w.heap
      BY <1>1, <3>2
    <3> QED
      BY <1>1, <3>1, <3>3 DEF IsWorkspace
  <2>2. CASE a # Null /\ b = Null
    <3>1. FreedEntries(w, p) = memdelete(w, a)
      BY <2>2 DEF FreedEntries
    <3>2. DOMAIN w.heap \ {a, b} = DOMAIN w.heap \ {a}
      BY <1>1, <2>2
    <3> QED
      BY <1>1, <1>2, <2>2, <3>1, <3>2
  <2>3. CASE a = Null /\ b # Null
    <3>1. FreedEntries(w, p) = memdelete(w, b)
      BY <2>3 DEF FreedEntries
    <3>2. DOMAIN w.heap \ {a, b} = DOMAIN w.heap \ {b}
      BY <1>1, <2>3
    <3> QED
      BY <1>1, <1>2, <2>3, <3>1, <3>2
  <2>4. CASE a # Null /\ b # Null /\ a = b
    <3>1. FreedEntries(w, p) = memdelete(w, b)
      BY <2>4 DEF FreedEntries
    <3> QED
      BY <1>1, <1>2, <2>4, <3>1
  <2>5. CASE a # Null /\ b # Null /\ a # b
    <3>1. FreedEntries(w, p) = memdelete(memdelete(w, b), a)
      BY <2>5 DEF FreedEntries
    <3>2. memdelete(memdelete(w, b), a) = Without({b, a})
      BY <1>1, <1>3, <2>5
    <3>3. DOMAIN w.heap \ {b, a} = DOMAIN w.heap \ {a, b}
      OBVIOUS
    <3> QED
      BY <3>1, <3>2, <3>3
  <2> QED
    BY <2>1, <2>2, <2>3, <2>4, <2>5
<1>5. remove_cache_parser(w, p)
        = [Without({a, b}) EXCEPT !.parse_results[p] = Null, !.scripts[p] = Null]
  BY <1>4 DEF remove_cache_parser
<1> QED
  BY <1>5

(* A new parser, of a text for a path.                                     *)
LEMMA Allocates ==
  ASSUME NEW w, Sound(w), NEW p \in PathSet, NEW text \in Texts,
         NEW new, new = memnew(w), NEW v, v = Parsed(w, new, p, text)
  PROVE  /\ Sound(v)
         /\ new \in Parsers /\ new \in DOMAIN v.heap
         /\ v.heap[new] = [text |-> text, path |-> p]
         /\ \A x \in PathSet : v.parse_results[x] # new /\ v.scripts[x] # new
         /\ v.parse_results = w.parse_results
<1> DEFINE h == [q \in DOMAIN w.heap \cup {new} |->
                   IF q = new THEN [text |-> text, path |-> p] ELSE w.heap[q]]
<1>1. /\ IsWorkspace(w) /\ w.spoiled = FALSE /\ w.initialized \in BOOLEAN
      /\ Typed(w.parse_results, w.scripts, w.heap)
      /\ Alive(w.parse_results, w.heap) /\ Alive(w.scripts, w.heap)
      /\ LastGood(w.parse_results, w.scripts, w.heap)
      /\ IsHeap(w.heap)
  BY DEF Sound, Tables, Typed
<1>2. new \in Parsers /\ new \notin DOMAIN w.heap
  BY <1>1, Fresh DEF IsHeap
<1>3. /\ v = [ parse_results |-> w.parse_results, scripts |-> w.scripts, heap |-> h,
               spoiled |-> FALSE, initialized |-> w.initialized, notes |-> w.notes ]
  BY <1>1 DEF IsWorkspace, Parsed
<1>4. /\ DOMAIN h = DOMAIN w.heap \cup {new}
      /\ h[new] = [text |-> text, path |-> p]
      /\ \A q \in DOMAIN w.heap : h[q] = w.heap[q]
  BY <1>2
<1>5. IsHeap(h)
  <2>1. IsFiniteSet(DOMAIN w.heap \cup {new})
    BY <1>1, FS_AddElement DEF IsHeap
  <2>2. [text |-> text, path |-> p] \in ParserRecord
    BY DEF ParserRecord
  <2> QED
    BY <1>1, <1>2, <2>1, <2>2 DEF IsHeap
<1>6. v.heap = h /\ v.parse_results = w.parse_results /\ v.scripts = w.scripts
  BY <1>3
<1> HIDE DEF h
<1>7. \A x \in PathSet : /\ w.parse_results[x] # Null => w.parse_results[x] \in DOMAIN w.heap
                         /\ w.scripts[x] # Null => w.scripts[x] \in DOMAIN w.heap
  BY <1>1 DEF Alive
<1>8. \A x \in PathSet : w.parse_results[x] # new /\ w.scripts[x] # new
  BY <1>2, <1>7 DEF Parsers
<1>9. Alive(w.parse_results, h) /\ Alive(w.scripts, h)
  BY <1>1, <1>4 DEF Alive
<1>10. LastGood(w.parse_results, w.scripts, h)
  BY <1>1, <1>4, <1>7 DEF LastGood
<1>11. Tables(w.parse_results, w.scripts, h)
  BY <1>1, <1>5, <1>9, <1>10 DEF Tables, Typed
<1>12. v.spoiled = FALSE /\ v.initialized = w.initialized /\ v.notes = w.notes
  BY <1>3
<1>13. IsWorkspace(v)
  BY <1>3, <1>6, <1>12, Zenon DEF IsWorkspace
<1> QED
  BY <1>1, <1>2, <1>4, <1>6, <1>8, <1>11, <1>12, <1>13 DEF Sound

(* A heap without parsers that only one path had keeps what others have.   *)
LEMMA OthersKept ==
  ASSUME NEW results, NEW scripts, NEW heap, Tables(results, scripts, heap),
         NEW p \in PathSet, NEW gone, gone \subseteq {results[p], scripts[p]},
         NEW left, left = [q \in DOMAIN heap \ gone |-> heap[q]]
  PROVE  \A x \in PathSet \ {p} :
           /\ results[x] # Null => results[x] \in DOMAIN left
                                   /\ left[results[x]] = heap[results[x]]
           /\ scripts[x] # Null => scripts[x] \in DOMAIN left
                                   /\ left[scripts[x]] = heap[scripts[x]]
<1>1. Alive(results, heap) /\ Alive(scripts, heap)
  BY DEF Tables
<1>2. \A q \in DOMAIN heap \ gone : q \in DOMAIN left /\ left[q] = heap[q]
  OBVIOUS
<1>3. ASSUME NEW x \in PathSet \ {p}, NEW q \in DOMAIN heap, heap[q].path = x
      PROVE  q \notin gone \/ q = Null
  BY <1>1, <1>3 DEF Alive
<1> SUFFICES ASSUME NEW x \in PathSet \ {p}
             PROVE  /\ results[x] # Null => results[x] \in DOMAIN left
                                   /\ left[results[x]] = heap[results[x]]
                    /\ scripts[x] # Null => scripts[x] \in DOMAIN left
                                   /\ left[scripts[x]] = heap[scripts[x]]
  OBVIOUS
<1>4. results[x] # Null => results[x] \in DOMAIN heap /\ heap[results[x]].path = x
  BY <1>1 DEF Alive
<1>5. scripts[x] # Null => scripts[x] \in DOMAIN heap /\ heap[scripts[x]].path = x
  BY <1>1 DEF Alive
<1> QED
  BY <1>2, <1>3, <1>4, <1>5

(* parse_script, for a text with errors as for one without.                *)
LEMMA Parses ==
  ASSUME NEW w, Sound(w), NEW p \in PathSet, NEW text \in Texts
  PROVE  /\ Sound(parse_script(w, p, text))
         /\ \A x \in PathSet \ {p} :
              parse_script(w, p, text).parse_results[x] = w.parse_results[x]
<1> DEFINE new == memnew(w)
           v == Parsed(w, new, p, text)
           a == v.parse_results[p]
           b == v.scripts[p]
           results == [v.parse_results EXCEPT ![p] = new]
           good == [v.scripts EXCEPT ![p] = new]
           Left(gone) == [q \in DOMAIN v.heap \ gone |-> v.heap[q]]
           W(scr, heap) ==
             [ parse_results |-> results, scripts |-> scr, heap |-> heap,
               spoiled |-> FALSE, initialized |-> v.initialized, notes |-> v.notes ]
<1>1. /\ Sound(v)
      /\ new \in Parsers /\ new \in DOMAIN v.heap
      /\ v.heap[new] = [text |-> text, path |-> p]
      /\ \A x \in PathSet : v.parse_results[x] # new /\ v.scripts[x] # new
      /\ v.parse_results = w.parse_results
  BY Allocates
<1>2. parse_script(w, p, text) = publish_diagnostics(Stored(v, p, new, text), p)
  BY DEF parse_script
<1> HIDE DEF v, new
<1>3. /\ IsWorkspace(v) /\ v.spoiled = FALSE /\ v.initialized \in BOOLEAN
      /\ Tables(v.parse_results, v.scripts, v.heap)
      /\ Typed(v.parse_results, v.scripts, v.heap)
      /\ Alive(v.parse_results, v.heap) /\ Alive(v.scripts, v.heap)
      /\ LastGood(v.parse_results, v.scripts, v.heap)
      /\ IsHeap(v.heap) /\ v.notes \in Seq(Notice)
      /\ v.parse_results \in [PathSet -> Parsers \cup {Null}]
      /\ v.scripts \in [PathSet -> Parsers \cup {Null}]
      /\ new # Null
  BY <1>1 DEF Sound, Tables, Typed, Parsers
<1>4. ASSUME NEW scr, NEW heap, Tables(results, scr, heap),
             Stored(v, p, new, text) = W(scr, heap)
      PROVE  /\ Sound(parse_script(w, p, text))
             /\ \A x \in PathSet \ {p} :
                  parse_script(w, p, text).parse_results[x] = w.parse_results[x]
  <2>1. results[p] = new /\ new \in DOMAIN heap
    BY <1>3, <1>4 DEF Tables, Alive
  <2>2. publish_diagnostics(W(scr, heap), p)
          = Note(W(scr, heap), [type |-> "diagnostics", about |-> p])
    BY <2>1 DEF publish_diagnostics, Live
  <2>3. parse_script(w, p, text)
          = Note(W(scr, heap), [type |-> "diagnostics", about |-> p])
    BY <1>2, <1>4, <2>2
  <2>4. parse_script(w, p, text).parse_results = results
    BY <2>3 DEF Note
  <2>5. \A x \in PathSet \ {p} : results[x] = w.parse_results[x]
    BY <1>1, <1>3
  <2> DEFINE n == Append(v.notes, [type |-> "diagnostics", about |-> p])
             u == [ parse_results |-> results, scripts |-> scr, heap |-> heap,
                    spoiled |-> FALSE, initialized |-> v.initialized, notes |-> n ]
  <2>6. n \in Seq(Notice)
    BY <1>3 DEF Notice
  <2>7. parse_script(w, p, text) = u
    BY <2>3 DEF Note
  <2> HIDE DEF n, results
  <2>8. Sound(u)
    BY <1>3, <1>4, <2>6 DEF Sound, IsWorkspace
  <2> QED
    BY <2>4, <2>5, <2>7, <2>8
<1>5. ASSUME NEW gone, gone \subseteq {a, b}, new \notin gone
      PROVE  /\ IsHeap(Left(gone))
             /\ new \in DOMAIN Left(gone)
             /\ Left(gone)[new] = [text |-> text, path |-> p]
             /\ \A x \in PathSet \ {p} :
                  /\ v.parse_results[x] # Null =>
                       /\ v.parse_results[x] \in DOMAIN Left(gone)
                       /\ Left(gone)[v.parse_results[x]] = v.heap[v.parse_results[x]]
                  /\ v.scripts[x] # Null =>
                       /\ v.scripts[x] \in DOMAIN Left(gone)
                       /\ Left(gone)[v.scripts[x]] = v.heap[v.scripts[x]]
  <2>1. IsHeap(Left(gone))
    BY <1>3, SmallerHeap
  <2>2. \A x \in PathSet \ {p} :
           /\ v.parse_results[x] # Null =>
                /\ v.parse_results[x] \in DOMAIN Left(gone)
                /\ Left(gone)[v.parse_results[x]] = v.heap[v.parse_results[x]]
           /\ v.scripts[x] # Null =>
                /\ v.scripts[x] \in DOMAIN Left(gone)
                /\ Left(gone)[v.scripts[x]] = v.heap[v.scripts[x]]
    <3>1. Tables(v.parse_results, v.scripts, v.heap) /\ gone \subseteq {a, b}
      BY <1>3, <1>5
    <3> QED
      BY <3>1, OthersKept
  <2>3. new \in DOMAIN Left(gone) /\ Left(gone)[new] = v.heap[new]
    BY <1>1, <1>5
  <2> QED
    BY <1>1, <2>1, <2>2, <2>3, ZenonT(60)
<1> HIDE DEF W
<1>6. /\ \A x \in PathSet \ {p} : results[x] = v.parse_results[x]
      /\ results[p] = new
      /\ results \in [PathSet -> Parsers \cup {Null}]
      /\ \A x \in PathSet \ {p} : good[x] = v.scripts[x]
      /\ good[p] = new
      /\ good \in [PathSet -> Parsers \cup {Null}]
  BY <1>1, <1>3
<1>7. CASE text = "good"
  <2> DEFINE heap == Left({a, b})
  <2>1. new \notin {a, b}
    BY <1>1
  <2>2. Stored(v, p, new, text) = W(good, heap)
    <3> DEFINE noResult == [v.parse_results EXCEPT ![p] = Null]
               noScript == [v.scripts EXCEPT ![p] = Null]
    <3>1. remove_cache_parser(v, p) =
           [ parse_results |-> noResult,
             scripts       |-> noScript,
             heap          |-> heap, spoiled |-> FALSE,
             initialized   |-> v.initialized, notes |-> v.notes ]
      BY <1>1, Removes
    <3>2. Stored(v, p, new, text)
            = [remove_cache_parser(v, p) EXCEPT !.parse_results[p] = new,
                                                !.scripts[p] = new]
      BY <1>7 DEF Stored
    <3>3. /\ [noResult EXCEPT ![p] = new] = results
          /\ [noScript EXCEPT ![p] = new] = good
      BY <1>3
    <3> HIDE DEF heap, results, good, noResult, noScript
    <3> DEFINE u == remove_cache_parser(v, p)
    <3>4. /\ IsWorkspace(u) /\ u.parse_results = noResult /\ u.scripts = noScript
          /\ u.heap = heap /\ u.spoiled = FALSE
          /\ u.initialized = v.initialized /\ u.notes = v.notes
      BY <3>1 DEF IsWorkspace
    <3> HIDE DEF u
    <3> DEFINE t == [u EXCEPT !.parse_results[p] = new]
    <3>5. [u EXCEPT !.parse_results[p] = new, !.scripts[p] = new]
            = [ parse_results |-> [u.parse_results EXCEPT ![p] = new],
                scripts       |-> [u.scripts EXCEPT ![p] = new],
                heap          |-> u.heap, spoiled |-> u.spoiled,
                initialized   |-> u.initialized, notes |-> u.notes ]
      <4>1. t = [ parse_results |-> [u.parse_results EXCEPT ![p] = new],
                  scripts |-> u.scripts, heap |-> u.heap, spoiled |-> u.spoiled,
                  initialized |-> u.initialized, notes |-> u.notes ]
        BY <3>4 DEF IsWorkspace
      <4>2. [u EXCEPT !.parse_results[p] = new, !.scripts[p] = new]
              = [t EXCEPT !.scripts[p] = new]
        OBVIOUS
      <4> DEFINE r == [u.parse_results EXCEPT ![p] = new]
      <4> HIDE DEF t, r
      <4>3. [t EXCEPT !.scripts[p] = new]
              = [ parse_results |-> r, scripts |-> [u.scripts EXCEPT ![p] = new],
                  heap |-> u.heap, spoiled |-> u.spoiled,
                  initialized |-> u.initialized, notes |-> u.notes ]
        BY <4>1 DEF r
      <4> QED
        BY <4>2, <4>3 DEF r
    <3>6. Stored(v, p, new, text) = [u EXCEPT !.parse_results[p] = new, !.scripts[p] = new]
      BY <3>2 DEF u
    <3> QED
      BY <3>3, <3>4, <3>5, <3>6 DEF W
  <2>3. /\ IsHeap(heap) /\ new \in DOMAIN heap
        /\ heap[new] = [text |-> text, path |-> p]
        /\ \A x \in PathSet \ {p} :
             /\ v.parse_results[x] # Null =>
                  /\ v.parse_results[x] \in DOMAIN heap
                  /\ heap[v.parse_results[x]] = v.heap[v.parse_results[x]]
             /\ v.scripts[x] # Null =>
                  /\ v.scripts[x] \in DOMAIN heap
                  /\ heap[v.scripts[x]] = v.heap[v.scripts[x]]
    BY <1>5, <2>1
  <2> HIDE DEF heap, results, good
  <2>4. Alive(results, heap) /\ Alive(good, heap)
    BY <1>3, <1>6, <2>3 DEF Alive
  <2>5. LastGood(results, good, heap)
    BY <1>3, <1>6, <1>7, <2>3 DEF LastGood
  <2> QED
    BY <1>4, <1>6, <2>2, <2>3, <2>4, <2>5 DEF Tables, Typed
<1>8. CASE text # "good"
  <2> DEFINE gone == IF Superseded(v, p) THEN {a} ELSE {}
             heap == Left(gone)
  <2>1. gone \subseteq {a, b} /\ new \notin gone
    BY <1>1
  <2>2. Stored(v, p, new, text) = W(v.scripts, heap)
    <3>1. CASE Superseded(v, p)
      <4>1. a \in DOMAIN v.heap
        BY <1>3, <3>1 DEF Superseded, Alive
      <4>2. Stored(v, p, new, text) = [memdelete(v, a) EXCEPT !.parse_results[p] = new]
        BY <1>8, <3>1 DEF Stored
      <4>3. memdelete(v, a) = [v EXCEPT !.heap = heap]
        BY <3>1, <4>1 DEF memdelete, Live
      <4> HIDE DEF heap
      <4> QED
        BY <1>3, <4>2, <4>3 DEF W, IsWorkspace
    <3>2. CASE ~ Superseded(v, p)
      <4>1. Stored(v, p, new, text) = [v EXCEPT !.parse_results[p] = new]
        BY <1>8, <3>2 DEF Stored
      <4>2. heap = v.heap
        BY <1>3, <3>2 DEF IsHeap
      <4> HIDE DEF heap
      <4> QED
        BY <1>3, <4>1, <4>2 DEF W, IsWorkspace
    <3> QED
      BY <3>1, <3>2
  <2>3. /\ IsHeap(heap) /\ new \in DOMAIN heap
        /\ heap[new] = [text |-> text, path |-> p]
        /\ \A x \in PathSet \ {p} :
             /\ v.parse_results[x] # Null =>
                  /\ v.parse_results[x] \in DOMAIN heap
                  /\ heap[v.parse_results[x]] = v.heap[v.parse_results[x]]
             /\ v.scripts[x] # Null =>
                  /\ v.scripts[x] \in DOMAIN heap
                  /\ heap[v.scripts[x]] = v.heap[v.scripts[x]]
    BY <1>5, <2>1
  <2>4. b # Null => b \in DOMAIN heap /\ heap[b] = v.heap[b] /\ v.heap[b].path = p
                    /\ v.heap[b].text = "good"
    BY <1>3 DEF Superseded, Alive, LastGood
  <2> HIDE DEF heap, results, gone
  <2>5. Alive(results, heap) /\ Alive(v.scripts, heap)
    BY <1>3, <1>6, <2>3, <2>4 DEF Alive
  <2>6. LastGood(results, v.scripts, heap)
    BY <1>3, <1>6, <1>8, <2>3, <2>4 DEF LastGood
  <2> QED
    BY <1>3, <1>4, <1>6, <2>2, <2>3, <2>5, <2>6 DEF Tables, Typed
<1> QED
  BY <1>7, <1>8

LEMMA ParsesLocal ==
  ASSUME NEW w, Sound(w), DiskTyped, NEW p \in PathSet
  PROVE  /\ Sound(parse_local_script(w, p))
         /\ \A x \in PathSet \ {p} :
              parse_local_script(w, p).parse_results[x] = w.parse_results[x]
BY Parses DEF parse_local_script, DiskTyped

LEMMA GetsResult ==
  ASSUME NEW w, Sound(w), DiskTyped, NEW p \in PathSet
  PROVE  Sound(get_parse_result(w, p)) /\ Kept(w, get_parse_result(w, p))
BY ParsesLocal DEF get_parse_result, Kept

LEMMA GetsScript ==
  ASSUME NEW w, Sound(w), DiskTyped, NEW p \in PathSet
  PROVE  Sound(get_parse_successed_script(w, p))
BY ParsesLocal DEF get_parse_successed_script

(* The loops over the scripts of the project.                              *)
LEMMA Sweeps ==
  ASSUME NEW w, Sound(w), DiskTyped, NEW again \in BOOLEAN
  PROVE  /\ Sound(OverPaths(w, again)[Len(Paths)])
         /\ ~ again => Kept(w, OverPaths(w, again)[Len(Paths)])
<1> DEFINE N == Len(Paths)
           Step(u, i) == IF again THEN parse_local_script(u, Paths[i])
                         ELSE get_parse_result(u, Paths[i])
           UpTo(f, k) == f = [i \in 0..k |-> IF i = 0 THEN w ELSE Step(f[i - 1], i)]
           after == OverPaths(w, again)
<1>1. N \in Nat /\ \A i \in 1..N : Paths[i] \in PathSet
  BY WorkspaceAssumption DEF PathSet
<1>2. \A u : \A i \in 1..N : Sound(u) =>
        Sound(Step(u, i)) /\ (~ again => Kept(u, Step(u, i)))
  BY <1>1, ParsesLocal, GetsResult
<1>3. after = CHOOSE f : UpTo(f, N)
  BY DEF OverPaths
<1> HIDE DEF Step, N, after
<1>4. \A k \in Nat : \E f : UpTo(f, k)
  <2> DEFINE T == {k \in Nat : \E f : UpTo(f, k)}
  <2>1. 0 \in T
    <3> DEFINE f == [i \in 0..0 |-> w]
    <3>1. UpTo(f, 0)
      OBVIOUS
    <3> QED
      BY <3>1
  <2>2. ASSUME NEW k \in Nat, k \in T
        PROVE  k + 1 \in T
    <3>1. PICK f : UpTo(f, k)
      BY <2>2
    <3> DEFINE g == [i \in 0..k + 1 |-> IF i = k + 1 THEN Step(f[k], k + 1) ELSE f[i]]
    <3>2. \A i \in 0..k : g[i] = f[i]
      OBVIOUS
    <3>3. ASSUME NEW i \in 0..k + 1
          PROVE  g[i] = IF i = 0 THEN w ELSE Step(g[i - 1], i)
      <4>1. CASE i = k + 1
        <5>1. g[i] = Step(f[k], k + 1) /\ i # 0 /\ i - 1 = k /\ k \in 0..k
          BY <4>1
        <5>2. g[i - 1] = f[k]
          BY <3>2, <5>1
        <5> QED
          BY <4>1, <5>1, <5>2
      <4>2. CASE i # k + 1
        <5>1. i \in 0..k
          BY <4>2
        <5>2. g[i] = f[i] /\ f[i] = IF i = 0 THEN w ELSE Step(f[i - 1], i)
          BY <3>1, <3>2, <5>1
        <5>3. i # 0 => g[i - 1] = f[i - 1]
          BY <3>2, <5>1
        <5> HIDE DEF g
        <5> QED
          BY <5>2, <5>3
      <4> QED
        BY <4>1, <4>2
    <3>4. g = [i \in 0..k + 1 |-> IF i = 0 THEN w ELSE Step(g[i - 1], i)]
      <4> DEFINE h == [i \in 0..k + 1 |-> IF i = 0 THEN w ELSE Step(g[i - 1], i)]
      <4>1. DOMAIN g = DOMAIN h /\ \A i \in 0..k + 1 : h[i] = g[i]
        BY <3>3
      <4>2. g = [i \in 0..k + 1 |-> g[i]] /\ h = [i \in 0..k + 1 |-> h[i]]
        OBVIOUS
      <4> HIDE DEF g, h
      <4>3. g = h
        BY <4>1, <4>2
      <4> QED
        BY <4>3 DEF h
    <3> HIDE DEF g
    <3> QED
      BY <3>4
  <2> HIDE DEF T
  <2>3. Nat \subseteq T
    BY <2>1, <2>2, Steps
  <2> QED
    BY <2>3 DEF T
<1>5. UpTo(after, N)
  BY <1>1, <1>3, <1>4
<1> DEFINE Good(u) == Sound(u) /\ (~ again => Kept(w, u))
<1>6. \A k \in Nat : k <= N => Good(after[k])
  <2> DEFINE T == {k \in Nat : k <= N => Good(after[k])}
  <2>1. 0 \in T
    <3>1. after[0] = w
      BY <1>1, <1>5
    <3> QED
      BY <3>1 DEF Kept
  <2>2. ASSUME NEW k \in Nat, k \in T
        PROVE  k + 1 \in T
    <3>1. SUFFICES ASSUME k + 1 <= N PROVE Good(after[k + 1])
      OBVIOUS
    <3>2. k <= N /\ k + 1 \in 1..N /\ k + 1 \in 0..N /\ k + 1 # 0 /\ k + 1 - 1 = k
      BY <1>1, <3>1
    <3>3. Good(after[k])
      BY <2>2, <3>2
    <3>4. after[k + 1] = Step(after[k], k + 1)
      BY <1>5, <3>2
    <3>5. \A u, v : Kept(w, u) /\ Kept(u, v) => Kept(w, v)
      BY DEF Kept
    <3> QED
      BY <1>2, <3>2, <3>3, <3>4, <3>5
  <2> HIDE DEF T
  <2>3. Nat \subseteq T
    BY <2>1, <2>2, Steps
  <2> QED
    BY <2>3 DEF T
<1> QED
  BY <1>1, <1>6 DEF after, N

(* What a message to the workspace may name.                               *)
LEMMA Handles ==
  ASSUME NEW w, Sound(w), DiskTyped, 
         NEW m, m.method \in Handlers, m.path \in PathSet, m.text \in Texts
  PROVE  Sound(Handled(w, m))
<1>1. ASSUME NEW u, Sound(u), NEW p \in PathSet
      PROVE  Read(u, u.scripts[p]) = u /\ Read(u, u.parse_results[p]) = u
  BY <1>1 DEF Sound, Tables, Alive, Read, Live
<1>2. m.method = "initialize" => Sound(initialize(w))
  <2>1. Sound(reload_all_workspace_scripts(w))
    BY Sweeps DEF reload_all_workspace_scripts
  <2> DEFINE u == reload_all_workspace_scripts(w)
  <2> HIDE DEF u
  <2>2. Sound(u) /\ IsWorkspace(u)
    BY <2>1 DEF u, Sound
  <2> DEFINE Flagged(b) == [u EXCEPT !.initialized = b]
             t == Flagged(TRUE)
  <2>3. \A b : Flagged(b)
          = [ parse_results |-> u.parse_results, scripts |-> u.scripts,
              heap |-> u.heap, spoiled |-> u.spoiled, initialized |-> b,
              notes |-> u.notes ]
    BY <2>2 DEF IsWorkspace
  <2>4. initialize(w) = IF w.initialized THEN w ELSE t
    BY Zenon DEF initialize, u
  <2> HIDE DEF Flagged
  <2>5. Sound(t)
    BY <2>2, <2>3 DEF Sound, IsWorkspace
  <2> QED
    BY <2>4, <2>5
<1>3. Sound(sync_script_content(w, m)) /\ Sound(didDeleteFiles(w, m))
  BY Parses DEF sync_script_content, didDeleteFiles, Texts
<1>4. Sound(documentSymbol(w, m))
  BY <1>1 DEF documentSymbol
<1>5. Sound(documentLink(w, m))
  BY <1>1, GetsScript DEF documentLink
<1>6. Sound(hover(w, m))
  BY <1>1, GetsResult DEF hover
<1>7. Sound(references(w, m))
  <2> DEFINE v == hover(w, m)
             searched == OverPaths(v, FALSE)[Len(Paths)]
  <2>1. references(w, m) = Read(searched, v.parse_results[m.path])
    BY DEF references
  <2> HIDE DEF v
  <2>2. Sound(v)
    BY <1>6 DEF v
  <2>3. Sound(searched) /\ Kept(v, searched)
    BY <2>2, Sweeps
  <2>4. Read(searched, v.parse_results[m.path]) = searched
    BY <1>1, <2>3 DEF Kept, Read
  <2> QED
    BY <2>1, <2>3, <2>4
<1> QED
  BY <1>2, <1>3, <1>4, <1>5, <1>6, <1>7 DEF Handled, Handlers

(* What is to be told is no matter of the tables.                          *)
LEMMA Notes ==
  ASSUME NEW w, Sound(w), NEW n \in Seq(Notice)
  PROVE  Sound([w EXCEPT !.notes = n])
<1> DEFINE t == [w EXCEPT !.notes = n]
<1>1. t = [ parse_results |-> w.parse_results, scripts |-> w.scripts,
            heap |-> w.heap, spoiled |-> w.spoiled,
            initialized |-> w.initialized, notes |-> n ]
  BY DEF Sound, IsWorkspace
<1> HIDE DEF t
<1>2. Sound(t)
  BY <1>1 DEF Sound, IsWorkspace
<1> QED
  BY <1>2 DEF t

LEMMA NothingParsed == Sound(EmptyWorkspace)
<1>1. IsFiniteSet({})
  BY FS_EmptySet
<1> QED
  BY <1>1 DEF EmptyWorkspace, Sound, IsWorkspace, Tables, Typed, IsHeap,
              Alive, LastGood, Parsers, Null

(* The tables the run's invariants are about.                              *)
LEMMA SoundMeans ==
  ASSUME Sound(ws), DiskTyped
  PROVE  WorkspaceTypeOK /\ ParsersAlive /\ LastGoodScript
<1>1. WorkspaceTypeOK
  BY DEF Sound, Tables, Typed, DiskTyped, WorkspaceTypeOK
<1>2. ParsersAlive
  BY DEF Sound, Tables, Alive, ParsersAlive, Live
<1>3. LastGoodScript
  BY DEF Sound, Tables, LastGood, LastGoodScript
<1> QED
  BY <1>1, <1>2, <1>3

-----------------------------------------------------------------------------
(***************************************************************************)
(* The server.                                                             *)
(***************************************************************************)
IsPeer(p) ==
  {"up", "inq", "arrived", "req_buf", "has_header", "content_length",
   "res_queue", "res_sent", "wrote", "unread"} \subseteq DOMAIN p

PeerSound(p) ==
  /\ IsPeer(p)
  /\ p.up \in BOOLEAN
  /\ p.inq \in Seq(Unit)
  /\ p.arrived \in 0..Len(p.inq)
  /\ p.req_buf \in Seq(Unit)
  /\ Len(p.req_buf) <= LSP_MAX_BUFFER_SIZE
  /\ p.res_sent \in 0..OutUnits - 1
  /\ p.unread \in 0..Room

PeersSound ==
  /\ DOMAIN peer = Ids
  /\ \A id \in Ids : PeerSound(peer[id])

Stages == {"idle", "visit", "header", "content", "send"}

(* A poll is at a client of the table.                                     *)
PollSound(cs, pl) ==
  /\ {"at", "id"} \subseteq DOMAIN pl
  /\ pl.at \in Stages
  /\ pl.at # "idle" => pl.id \in cs

ClientsSound ==
  /\ next_client_id \in Nat /\ pending \in Nat
  /\ next_client_id + pending <= MaxConnections
  /\ clients \subseteq 0..next_client_id - 1
  /\ latest_client_id \in Ids
  /\ PollSound(clients, poll)

(* How the members of the server agree with each other: who is started     *)
(* listens; the thread is there while the server is set to use it, and     *)
(* told to go on unless the main thread waits for its end; else the frames *)
(* poll.  A poll is under way only while someone polls.                    *)
ServerTyped ==
  /\ main \in {"free", "joining", "gone"}
  /\ {started, start_attempted, use_thread, thread, thread_running,
      process_internal, listening} \subseteq BOOLEAN
  /\ restart \in [wanted : BOOLEAN, threaded : BOOLEAN, free : BOOLEAN]
  /\ events \in Nat

Polled ==
  /\ listening = started
  /\ thread => started /\ use_thread
  /\ thread_running => thread
  /\ main = "joining" => started /\ use_thread /\ ~ thread_running
  /\ main # "joining" => (thread => thread_running)
  /\ started /\ use_thread => main = "joining" \/ thread
  /\ started /\ ~ use_thread => process_internal
  /\ ~ start_attempted /\ events = 0 => ~ started
  /\ poll.at # "idle" => started /\ (thread \/ (~ use_thread /\ main = "free"))

(* After stop.                                                             *)
Closed ==
  ~ started => pending = 0 /\ \A id \in clients : ~ peer[id].up

AskedTyped == asked \in Seq([id : Ids, request : BOOLEAN])

IInv ==
  /\ Sound(ws) /\ DiskTyped /\ AskedTyped
  /\ PeersSound /\ ClientsSound
  /\ ServerTyped /\ Polled /\ Closed

-----------------------------------------------------------------------------
(* A set of numbers that is not empty has a least one.                     *)
LEMMA Least ==
  ASSUME NEW S, S \subseteq Nat, S # {}
  PROVE  \E i \in S : \A j \in S : i <= j
<1> DEFINE R == OpToRel(<, Nat)
<1>1. IsWellFoundedOn(R, Nat)
  BY NatLessThanWellFounded
<1>2. \A x, y \in Nat : <<x, y>> \in R <=> x < y
  BY DEF OpToRel
<1> HIDE DEF R
<1>3. PICK i \in S : \A j \in S : ~ (<<j, i>> \in R)
  BY <1>1, WFMin
<1>4. ASSUME NEW j \in S
      PROVE  i <= j
  <2>1. i \in Nat /\ j \in Nat /\ ~ (j < i)
    BY <1>2, <1>3
  <2> QED
    BY <2>1
<1> QED
  BY <1>4

LEMMA Numbers ==
  /\ LSP_MAX_BUFFER_SIZE \in Nat /\ LSP_MAX_BUFFER_SIZE > 0
  /\ LSP_MAX_CLIENTS \in Nat
  /\ MaxConnections \in Nat /\ MaxConnections > 0
  /\ Room \in Nat /\ Room > 0
  /\ Ids \subseteq Nat /\ 0 \in Ids
<1>1. /\ LSP_MAX_BUFFER_SIZE \in Nat \ {0}
      /\ LSP_MAX_CLIENTS \in Nat \ {0}
      /\ MaxConnections \in Nat \ {0} /\ Room \in Nat \ {0}
  BY ProtocolAssumption
<1> QED
  BY <1>1 DEF Ids

(* The next client of a poll is one of the table.                          *)
LEMMA FirstSound ==
  ASSUME NEW cs, cs \subseteq Nat, NEW S, S \subseteq cs
  PROVE  PollSound(cs, FirstOf(S))
<1>1. CASE S = {}
  BY <1>1 DEF FirstOf, Idle, PollSound, Stages
<1>2. CASE S # {}
  <2>1. \E i \in S : \A j \in S : i <= j
    BY <1>2, Least
  <2> DEFINE least == CHOOSE i \in S : \A j \in S : i <= j
  <2>2. least \in S
    BY <2>1
  <2>3. FirstOf(S) = [at |-> "visit", id |-> least]
    BY <1>2 DEF FirstOf
  <2> HIDE DEF least
  <2> QED
    BY <2>2, <2>3 DEF PollSound, Stages
<1> QED
  BY <1>1, <1>2

LEMMA SendingSound ==
  ASSUME ClientsSound, NEW id \in clients, NEW p
  PROVE  PollSound(clients, Sending(id, p))
<1>1. clients \subseteq Nat
  BY DEF ClientsSound
<1>2. PollSound(clients, After(id))
  BY <1>1, FirstSound DEF After
<1>3. PollSound(clients, [at |-> "send", id |-> id])
  BY DEF PollSound, Stages
<1> QED
  BY <1>2, <1>3 DEF Sending

-----------------------------------------------------------------------------
(***************************************************************************)
(* What a step does to a peer.                                             *)
(***************************************************************************)

(* A peer that differs in what is not counted.                             *)
Like(q, p) ==
  /\ IsPeer(q)
  /\ q.up = p.up /\ q.inq = p.inq /\ q.arrived = p.arrived
  /\ q.req_buf = p.req_buf /\ q.res_sent = p.res_sent /\ q.unread = p.unread

LEMMA WithBuffer ==
  ASSUME NEW p, PeerSound(p), NEW buf \in Seq(Unit),
         Len(buf) <= LSP_MAX_BUFFER_SIZE,
         NEW q, IsPeer(q), q.up = p.up, q.inq = p.inq, q.arrived = p.arrived,
         q.req_buf = buf, q.res_sent = p.res_sent, q.unread = p.unread
  PROVE  PeerSound(q)
BY DEF PeerSound

LEMMA ReadySound ==
  ASSUME NEW p, PeerSound(p)
  PROVE  /\ PeerSound(ReadyAgain(p)) /\ ReadyAgain(p).up = p.up
         /\ ReadyAgain(p).req_buf = <<>> /\ ReadyAgain(p).arrived = p.arrived
<1>1. IsPeer(p)
  BY DEF PeerSound
<1> DEFINE q == ReadyAgain(p)
<1>2. /\ IsPeer(q) /\ q.up = p.up /\ q.inq = p.inq /\ q.arrived = p.arrived
      /\ q.req_buf = <<>> /\ q.res_sent = p.res_sent /\ q.unread = p.unread
  BY <1>1, Zenon DEF ReadyAgain, IsPeer
<1>3. <<>> \in Seq(Unit) /\ Len(<<>>) <= LSP_MAX_BUFFER_SIZE
  BY Numbers
<1> HIDE DEF q
<1>4. PeerSound(q)
  BY <1>2, <1>3, WithBuffer
<1> QED
  BY <1>2, <1>4 DEF q

LEMMA HeaderSound ==
  ASSUME NEW p, PeerSound(p), NEW n
  PROVE  PeerSound(HeaderRead(p, n))
<1>1. IsPeer(p)
  BY DEF PeerSound
<1> DEFINE q == HeaderRead(p, n)
<1>2. /\ IsPeer(q) /\ q.up = p.up /\ q.inq = p.inq /\ q.arrived = p.arrived
      /\ q.req_buf = <<>> /\ q.res_sent = p.res_sent /\ q.unread = p.unread
  BY <1>1, Zenon DEF IsPeer, HeaderRead
<1>3. <<>> \in Seq(Unit) /\ Len(<<>>) <= LSP_MAX_BUFFER_SIZE
  BY Numbers
<1> HIDE DEF q
<1>4. PeerSound(q)
  BY <1>2, <1>3, WithBuffer
<1> QED
  BY <1>4 DEF q

LEMMA BufferedSound ==
  ASSUME NEW p, PeerSound(p), p.arrived # 0, Len(p.req_buf) < LSP_MAX_BUFFER_SIZE
  PROVE  PeerSound(Buffered(p)) /\ Buffered(p).req_buf # <<>>
<1>1. /\ IsPeer(p) /\ p.up \in BOOLEAN
      /\ p.inq \in Seq(Unit) /\ p.req_buf \in Seq(Unit) /\ p.arrived \in 1..Len(p.inq)
      /\ p.res_sent \in 0..OutUnits - 1 /\ p.unread \in 0..Room
  BY DEF PeerSound
<1>2. p.inq # <<>> /\ Len(p.inq) \in Nat
  BY <1>1
<1> DEFINE tail == Tail(p.inq)
           buf == Append(p.req_buf, Head(p.inq))
           q == Buffered(p)
<1>3. /\ Head(p.inq) \in Unit /\ tail \in Seq(Unit) /\ Len(tail) = Len(p.inq) - 1
      /\ buf \in Seq(Unit) /\ Len(buf) = Len(p.req_buf) + 1 /\ buf # <<>>
  <2>1. Head(p.inq) \in Unit /\ tail \in Seq(Unit) /\ Len(tail) = Len(p.inq) - 1
    BY <1>1, <1>2, HeadTailProperties
  <2>2. buf \in Seq(Unit) /\ Len(buf) = Len(p.req_buf) + 1
    BY <1>1, <2>1, AppendProperties
  <2>3. buf # <<>>
    BY <1>1, <2>1, AppendProperties
  <2> QED
    BY <2>1, <2>2, <2>3
<1>4. /\ IsPeer(q) /\ q.up = p.up /\ q.inq = tail /\ q.arrived = p.arrived - 1
      /\ q.req_buf = buf /\ q.res_sent = p.res_sent /\ q.unread = p.unread
  BY <1>1, Zenon DEF Buffered, IsPeer
<1> HIDE DEF q, tail, buf
<1>5. Len(p.req_buf) \in Nat /\ Len(tail) \in Nat
  BY <1>1, <1>3
<1>6. q.arrived \in 0..Len(q.inq) /\ Len(q.req_buf) <= LSP_MAX_BUFFER_SIZE
  BY <1>1, <1>2, <1>3, <1>4, <1>5, Numbers, SMTT(40)
<1>7. PeerSound(q)
  BY <1>1, <1>3, <1>4, <1>6 DEF PeerSound
<1> QED
  BY <1>3, <1>4, <1>7 DEF q

(* What is queued for a client, and what its socket takes.                 *)
LEMMA QueuedSound ==
  ASSUME NEW p, PeerSound(p), NEW out
  PROVE  PeerSound(Queued(p, out)) /\ Queued(p, out).up = p.up
<1>1. IsPeer(p)
  BY DEF PeerSound
<1> DEFINE q == Queued(p, out)
<1>2. Like(q, p)
  BY <1>1, Zenon DEF IsPeer, Like, Queued
<1> HIDE DEF q
<1>3. PeerSound(q) /\ q.up = p.up
  BY <1>2 DEF PeerSound, Like
<1> QED
  BY <1>3 DEF q

LEMMA PutSound ==
  ASSUME NEW p, PeerSound(p), NEW k \in 1..OutUnits - p.res_sent, p.unread + k <= Room
  PROVE  LET q == Put(p, k)
         IN  PeerSound(IF q.res_sent >= OutUnits THEN Shifted(q) ELSE q)
<1>1. /\ IsPeer(p) /\ p.up \in BOOLEAN
      /\ p.inq \in Seq(Unit) /\ p.req_buf \in Seq(Unit) /\ p.arrived \in 0..Len(p.inq)
      /\ Len(p.req_buf) <= LSP_MAX_BUFFER_SIZE
      /\ p.res_sent \in 0..OutUnits - 1 /\ p.unread \in 0..Room
  BY DEF PeerSound
<1> DEFINE q == Put(p, k)
           left == Shifted(q)
<1>2. /\ IsPeer(q) /\ q.up = p.up /\ q.inq = p.inq /\ q.arrived = p.arrived
      /\ q.req_buf = p.req_buf /\ q.res_sent = p.res_sent + k /\ q.unread = p.unread + k
  BY <1>1, Zenon DEF Put, IsPeer
<1> HIDE DEF q
<1>3. /\ IsPeer(left) /\ left.up = q.up /\ left.inq = q.inq /\ left.arrived = q.arrived
      /\ left.req_buf = q.req_buf /\ left.res_sent = 0 /\ left.unread = q.unread
  BY <1>2, Zenon DEF Shifted, IsPeer
<1> HIDE DEF left
<1>4. /\ p.res_sent + k \in 0..OutUnits /\ p.unread + k \in 0..Room
      /\ p.res_sent \in Nat /\ k \in Nat
  BY <1>1, Numbers DEF OutUnits
<1>5. q.unread \in 0..Room /\ (~ (q.res_sent >= OutUnits) => q.res_sent \in 0..OutUnits - 1)
  BY <1>2, <1>4 DEF OutUnits
<1>6. CASE q.res_sent >= OutUnits
  <2>1. left.res_sent \in 0..OutUnits - 1
    BY <1>3 DEF OutUnits
  <2>2. PeerSound(left)
    BY <1>1, <1>2, <1>3, <1>5, <2>1 DEF PeerSound
  <2> QED
    BY <1>6, <2>2 DEF left, q
<1>7. CASE ~ (q.res_sent >= OutUnits)
  <2>1. PeerSound(q)
    BY <1>1, <1>2, <1>5, <1>7 DEF PeerSound
  <2> QED
    BY <1>7, <2>1 DEF q
<1> QED
  BY <1>6, <1>7

-----------------------------------------------------------------------------
(***************************************************************************)
(* The steps of a poll.                                                    *)
(***************************************************************************)
Before == Sound(ws) /\ DiskTyped /\ PeersSound /\ ClientsSound

LEMMA ClientIds ==
  ASSUME ClientsSound
  PROVE  clients \subseteq Ids /\ clients \subseteq Nat
BY Numbers DEF ClientsSound, Ids

LEMMA ChangedPeer ==
  ASSUME PeersSound, NEW id \in Ids, NEW p, PeerSound(p),
         peer' = [peer EXCEPT ![id] = p]
  PROVE  PeersSound' /\ peer'[id] = p /\ \A j \in Ids \ {id} : peer'[j] = peer[j]
<1>1. DOMAIN peer = Ids
  BY DEF PeersSound
<1>2. peer' = [j \in Ids |-> IF j = id THEN p ELSE peer[j]]
  BY <1>1
<1>3. peer'[id] = p /\ \A j \in Ids \ {id} : peer'[j] = peer[j]
  BY <1>2
<1>4. \A j \in Ids : PeerSound(peer'[j])
  BY <1>3 DEF PeersSound
<1>5. DOMAIN peer' = Ids
  BY <1>2
<1> QED
  BY <1>3, <1>4, <1>5 DEF PeersSound

LEMMA DisconnectsSound ==
  ASSUME ClientsSound, NEW id, Disconnects(id),
         UNCHANGED <<next_client_id, pending>>
  PROVE  ClientsSound'
<1>1. clients' \subseteq clients /\ clients' \subseteq Nat
  BY ClientIds DEF Disconnects
<1>2. PollSound(clients', poll')
  BY <1>1, FirstSound DEF Disconnects
<1> QED
  BY <1>1, <1>2 DEF Disconnects, ClientsSound

LEMMA EntersSound ==
  ASSUME ClientsSound, NEW id \in clients, NEW p, EntersHandleData(id, p),
         UNCHANGED <<clients, next_client_id, pending>>
  PROVE  ClientsSound'
<1>1. id \in Ids
  BY ClientIds
<1>2. PollSound(clients, Sending(id, p))
  BY SendingSound
<1>3. \A stage \in Stages : PollSound(clients, [at |-> stage, id |-> id])
  BY DEF PollSound
<1>4. PollSound(clients, poll') /\ latest_client_id' \in Ids
  BY <1>1, <1>2, <1>3 DEF EntersHandleData, Stages, ClientsSound
<1> QED
  BY <1>4 DEF ClientsSound

LEMMA PollBeginsSound ==
  ASSUME Before, PollBegins
  PROVE  Before' /\ clients' \subseteq clients \cup {next_client_id} /\ pending' <= pending
<1> USE DEF Before
<1>1. /\ next_client_id \in Nat /\ pending \in Nat
      /\ next_client_id + pending <= MaxConnections
      /\ clients \subseteq 0..next_client_id - 1
      /\ latest_client_id \in Ids
  BY DEF ClientsSound
<1>2. /\ next_client_id' \in Nat /\ pending' \in Nat /\ pending' <= pending
      /\ next_client_id' + pending' <= MaxConnections
      /\ clients' \subseteq 0..next_client_id' - 1
      /\ latest_client_id' \in Ids
      /\ clients' \subseteq clients \cup {next_client_id}
  BY <1>1, Numbers DEF PollBegins
<1>3. clients' \subseteq Nat
  <2>1. \A n \in Nat : 0..n - 1 \subseteq Nat
    OBVIOUS
  <2> QED
    BY <1>2, <2>1
<1>4. PollSound(clients', poll')
  BY <1>3, FirstSound DEF PollBegins
<1>5. ClientsSound'
  BY <1>2, <1>4 DEF ClientsSound
<1>6. Sound(ws)' /\ DiskTyped' /\ PeersSound'
  BY DEF PollBegins, DiskTyped, PeersSound
<1> QED
  BY <1>2, <1>5, <1>6

LEMMA NoByteSound ==
  ASSUME Before, NEW id \in clients, NEW p, PeerSound(p), NoByte(id, p),
         UNCHANGED ws, UNCHANGED Unpolled
  PROVE  Before'
<1> USE DEF Before
<1>1. id \in Ids
  BY ClientIds
<1>2. CASE p.up
  <2>1. PeersSound'
    BY <1>1, <1>2, ChangedPeer DEF NoByte
  <2>2. PollSound(clients, poll')
    BY <1>2, SendingSound DEF NoByte
  <2> QED
    BY <1>2, <2>1, <2>2 DEF NoByte, Unpolled, ClientsSound, DiskTyped
<1>3. CASE ~ p.up
  <2>1. ClientsSound'
    BY <1>3, DisconnectsSound DEF NoByte, Unpolled
  <2> QED
    BY <1>3, <2>1 DEF NoByte, Disconnects, Unpolled, PeersSound, DiskTyped
<1> QED
  BY <1>2, <1>3

LEMMA AtClient ==
  ASSUME ClientsSound, ~ At("idle")
  PROVE  poll.id \in clients /\ poll.id \in Ids
BY ClientIds DEF ClientsSound, PollSound, At

LEMMA VisitSound ==
  ASSUME Before, PollVisit
  PROVE  Before'
<1> DEFINE id == poll.id
<1>1. id \in clients /\ ClientsSound
  BY AtClient DEF PollVisit, At, Before
<1>2. CASE peer[id].up
  <2>1. EntersHandleData(id, peer[id]) /\ UNCHANGED <<clients, peer, ws>> /\ UNCHANGED Unpolled
    BY <1>2 DEF PollVisit
  <2>2. ClientsSound'
    BY <1>1, <2>1, EntersSound DEF Unpolled
  <2> QED
    BY <2>1, <2>2 DEF Before, Unpolled, PeersSound, DiskTyped
<1>3. CASE ~ peer[id].up
  <2>1. Disconnects(id) /\ UNCHANGED ws /\ UNCHANGED Unpolled
    BY <1>3 DEF PollVisit
  <2>2. ClientsSound'
    BY <1>1, <2>1, DisconnectsSound DEF Unpolled
  <2> QED
    BY <2>1, <2>2 DEF Before, Disconnects, Unpolled, PeersSound, DiskTyped
<1> QED
  BY <1>2, <1>3

LEMMA HeaderStepSound ==
  ASSUME Before, HandleHeader
  PROVE  Before'
<1> DEFINE id == poll.id
           p == peer[id]
           q == Buffered(p)
<1>1. id \in clients /\ id \in Ids /\ ClientsSound /\ PeersSound
  BY AtClient DEF HandleHeader, At, Before
<1>2. PeerSound(p) /\ UNCHANGED ws /\ UNCHANGED Unpolled
  BY <1>1 DEF PeersSound, HandleHeader
<1>3. Len(p.req_buf) \in Nat /\ LSP_MAX_BUFFER_SIZE \in Nat
  BY <1>2, Numbers DEF PeerSound
<1>4. CASE Len(p.req_buf) >= LSP_MAX_BUFFER_SIZE
  <2>1. Disconnects(id)
    BY <1>3, <1>4 DEF HandleHeader
  <2>2. ClientsSound'
    BY <1>1, <1>2, <2>1, DisconnectsSound DEF Unpolled
  <2> QED
    BY <1>2, <2>1, <2>2 DEF Before, Disconnects, Unpolled, PeersSound, DiskTyped
<1>5. CASE Len(p.req_buf) < LSP_MAX_BUFFER_SIZE /\ p.arrived = 0
  <2>1. NoByte(id, p)
    BY <1>3, <1>5 DEF HandleHeader, KeptPlace
  <2> QED
    BY <1>1, <1>2, <2>1, NoByteSound
<1>6. CASE Len(p.req_buf) < LSP_MAX_BUFFER_SIZE /\ p.arrived # 0
  <2>1. PeerSound(q) /\ \A n : PeerSound(HeaderRead(q, n))
    BY <1>2, <1>6, BufferedSound, HeaderSound
  <2>2. UNCHANGED <<clients, latest_client_id>>
    BY <1>3, <1>6 DEF HandleHeader
  <2>3. \/ /\ \E n : peer' = [peer EXCEPT ![id] = HeaderRead(q, n)]
           /\ poll' = [at |-> "content", id |-> id]
        \/ peer' = [peer EXCEPT ![id] = q] /\ UNCHANGED poll
    BY <1>3, <1>6 DEF HandleHeader
  <2> HIDE DEF q
  <2>4. PeersSound'
    BY <1>1, <2>1, <2>3, ChangedPeer
  <2>5. PollSound(clients, poll')
    <3>1. PollSound(clients, poll)
      BY <1>1 DEF ClientsSound
    <3>2. PollSound(clients, [at |-> "content", id |-> id])
      BY <1>1 DEF PollSound, Stages
    <3> QED
      BY <2>3, <3>1, <3>2
  <2> QED
    BY <1>1, <1>2, <2>2, <2>4, <2>5 DEF Before, ClientsSound, Unpolled, DiskTyped
<1> QED
  BY <1>3, <1>4, <1>5, <1>6

LEMMA ContentStepSound ==
  ASSUME Before, HandleContent
  PROVE  Before'
<1> DEFINE id == poll.id
           full == Len(peer[id].req_buf) >= LSP_MAX_BUFFER_SIZE
           p == IF full THEN ReadyAgain(peer[id]) ELSE peer[id]
<1>1. id \in clients /\ id \in Ids /\ ClientsSound /\ PeersSound
  BY AtClient DEF HandleContent, At, Before
<1>2. PeerSound(peer[id]) /\ UNCHANGED ws /\ UNCHANGED Unpolled
  BY <1>1 DEF PeersSound, HandleContent
<1>3. /\ PeerSound(p)
      /\ Len(p.req_buf) < LSP_MAX_BUFFER_SIZE
  <2>1. CASE full
    BY <1>2, <2>1, ReadySound, Numbers
  <2>2. CASE ~ full
    <3>1. Len(peer[id].req_buf) \in Nat
      BY <1>2 DEF PeerSound
    <3> QED
      BY <1>2, <2>2, <3>1, Numbers
  <2> QED
    BY <2>1, <2>2
<1>4. IF p.arrived = 0 THEN NoByte(id, p)
      ELSE peer' = [peer EXCEPT ![id] = Buffered(p)]
           /\ UNCHANGED <<clients, latest_client_id, poll>>
  BY DEF HandleContent, ReadyAgain, KeptPlace
<1> HIDE DEF p
<1>5. CASE p.arrived = 0
  BY <1>1, <1>2, <1>3, <1>4, <1>5, NoByteSound
<1>6. CASE p.arrived # 0
  <2>1. PeerSound(Buffered(p))
    BY <1>3, <1>6, BufferedSound
  <2>2. PeersSound'
    BY <1>1, <1>4, <1>6, <2>1, ChangedPeer
  <2>3. ClientsSound'
    BY <1>1, <1>2, <1>4, <1>6 DEF ClientsSound, Unpolled
  <2> QED
    BY <1>2, <2>2, <2>3 DEF Before, Unpolled, DiskTyped
<1> QED
  BY <1>5, <1>6

(* What initialize says before its handler runs.                           *)
LEMMA GreetsSound ==
  ASSUME NEW w, Sound(w), NEW m
  PROVE  Sound(Greeted(w, m))
<1> DEFINE n == Append(w.notes, [type |-> "changeWorkspace", about |-> "root"])
<1>1. n \in Seq(Notice)
  BY DEF Sound, Notice
<1>2. Greeted(w, m) = w \/ Greeted(w, m) = [w EXCEPT !.notes = n]
  BY DEF Greeted, Note
<1> HIDE DEF n
<1> QED
  BY <1>1, <1>2, Notes

LEMMA MessageStepSound ==
  ASSUME Before, HandleMessage
  PROVE  Before'
<1> DEFINE id == poll.id
           p == ReadyAgain(peer[id])
           buf == peer[id].req_buf
           m == buf[1].m
           w == IF Whole(buf) THEN Handled(Greeted(ws, m), m) ELSE ws
           out == IF Whole(buf) THEN Replies(w, m)
                  ELSE IF buf = <<>> THEN <<>> ELSE <<Response(0)>>
           told == Queued(p, out)
<1>1. id \in clients /\ id \in Ids /\ ClientsSound /\ PeersSound /\ Sound(ws) /\ DiskTyped
  BY AtClient DEF HandleMessage, At, Before
<1>2. PeerSound(peer[id])
  BY <1>1 DEF PeersSound
<1>3. Sound(w)
  <2>1. CASE Whole(buf)
    <3>1. buf \in Seq(Unit) /\ buf # <<>>
      BY <1>2, <2>1 DEF PeerSound, Whole
    <3>2. buf[1] \in Unit
      BY <3>1
    <3>3. m.method \in Handlers /\ m.path \in PathSet /\ m.text \in Texts
      BY <3>2 DEF Unit, MessageRecord
    <3> HIDE DEF m
    <3>4. Sound(Greeted(ws, m))
      BY <1>1, GreetsSound
    <3> QED
      BY <1>1, <2>1, <3>3, <3>4, Handles
  <2>2. CASE ~ Whole(buf)
    BY <1>1, <2>2
  <2> QED
    BY <2>1, <2>2
<1>4. /\ ws' = [w EXCEPT !.notes = <<>>]
      /\ peer' = [peer EXCEPT ![id] = told]
      /\ \/ EntersHandleData(id, told)
         \/ poll' = Sending(id, told) /\ UNCHANGED latest_client_id
      /\ UNCHANGED clients /\ UNCHANGED Unpolled
  BY DEF HandleMessage
<1>5. PeerSound(told)
  BY <1>2, ReadySound, QueuedSound
<1> HIDE DEF told, w
<1>6. Sound(ws')
  <2>1. <<>> \in Seq(Notice)
    OBVIOUS
  <2> QED
    BY <1>3, <1>4, <2>1, Notes
<1>7. PeersSound'
  BY <1>1, <1>4, <1>5, ChangedPeer
<1>8. ClientsSound'
  <2>1. CASE EntersHandleData(id, told)
    BY <1>1, <1>4, <2>1, EntersSound DEF Unpolled
  <2>2. CASE poll' = Sending(id, told) /\ UNCHANGED latest_client_id
    <3>1. PollSound(clients, Sending(id, told))
      BY <1>1, SendingSound
    <3> QED
      BY <1>1, <1>4, <2>2, <3>1 DEF ClientsSound, Unpolled
  <2> QED
    BY <1>4, <2>1, <2>2
<1> QED
  BY <1>1, <1>4, <1>6, <1>7, <1>8 DEF Before, Unpolled, DiskTyped

LEMMA SendStepSound ==
  ASSUME Before, SendData
  PROVE  Before'
<1> DEFINE id == poll.id
           p == peer[id]
           Left(k) == LET q == Put(p, k)
                      IN  IF q.res_sent >= OutUnits THEN Shifted(q) ELSE q
<1>1. id \in clients /\ id \in Ids /\ ClientsSound /\ PeersSound
  BY AtClient DEF SendData, At, Before
<1>2. PeerSound(p) /\ UNCHANGED ws /\ UNCHANGED Unpolled
  BY <1>1 DEF PeersSound, SendData
<1>3. CASE p.up
  <2>1. PICK k \in 1..OutUnits - p.res_sent :
           /\ p.unread + k <= Room
           /\ peer' = [peer EXCEPT ![id] = Left(k)]
           /\ poll' = Sending(id, Left(k))
    BY <1>3 DEF SendData
  <2>2. PeerSound(Left(k))
    BY <1>2, <2>1, PutSound
  <2> HIDE DEF Left
  <2>3. PeersSound'
    BY <1>1, <2>1, <2>2, ChangedPeer
  <2>4. PollSound(clients, Sending(id, Left(k)))
    BY <1>1, SendingSound
  <2>5. UNCHANGED <<clients, latest_client_id>>
    BY <1>3 DEF SendData
  <2>6. ClientsSound'
    BY <1>1, <1>2, <2>1, <2>4, <2>5 DEF ClientsSound, Unpolled
  <2> QED
    BY <1>2, <2>3, <2>6 DEF Before, Unpolled, DiskTyped
<1>4. CASE ~ p.up
  <2>1. Disconnects(id)
    BY <1>4 DEF SendData
  <2>2. ClientsSound'
    BY <1>1, <1>2, <2>1, DisconnectsSound DEF Unpolled
  <2> QED
    BY <1>2, <2>1, <2>2 DEF Before, Disconnects, Unpolled, PeersSound, DiskTyped
<1> QED
  BY <1>3, <1>4

LEMMA PollStepSound ==
  ASSUME Before, PollStep
  PROVE  Before' /\ poll.at # "idle" /\ UNCHANGED <<listening, pending, events, asked>>
<1>1. Before'
  BY VisitSound, HeaderStepSound, ContentStepSound, MessageStepSound, SendStepSound
  DEF PollStep
<1>2. poll.at # "idle"
  BY DEF PollStep, PollVisit, HandleHeader, HandleContent, HandleMessage, SendData, At
<1>3. UNCHANGED Unpolled
  BY DEF PollStep, PollVisit, HandleHeader, HandleContent, HandleMessage, SendData
<1> QED
  BY <1>1, <1>2, <1>3 DEF Unpolled

-----------------------------------------------------------------------------
(***************************************************************************)
(* What happens at the other ends, and in the editor.  Closed clients stay *)
(* closed.                                                                 *)
(***************************************************************************)
StayClosed == \A id \in clients' : id \in clients /\ (~ peer[id].up => ~ peer'[id].up)

LEMMA UnitsTyped ==
  ASSUME NEW m \in MessageRecord
  PROVE  Units(m) \in Seq(Unit)
<1>1. m.header - 1 \in Nat /\ m.content \in Nat
  BY DEF MessageRecord
<1> DEFINE a == [i \in 1..m.header - 1 |-> -1]
           b == [i \in 1..m.content |-> i]
<1>2. a \in Seq(Int) /\ b \in Seq(Int) /\ <<0>> \in Seq(Int)
  BY <1>1
<1> HIDE DEF a, b
<1>3. a \o <<0>> \o b \in Seq(Int)
  BY <1>2
<1>4. Parts(m) \in Seq(Int)
  BY <1>3 DEF Parts, a, b
<1> DEFINE s == Parts(m)
<1> HIDE DEF s
<1>5. s \in Seq(Int) /\ Units(m) = [i \in DOMAIN s |-> [m |-> m, part |-> s[i]]]
  BY <1>4 DEF Units, s
<1>6. DOMAIN s = 1..Len(s) /\ Len(s) \in Nat
  BY <1>5
<1>7. \A i \in DOMAIN s : [m |-> m, part |-> s[i]] \in Unit
  BY <1>5, <1>6 DEF Unit
<1> QED
  BY <1>5, <1>6, <1>7

LEMMA ConnectSound ==
  ASSUME Before, Connect
  PROVE  Before' /\ StayClosed /\ UNCHANGED <<poll, listening>>
<1>1. ClientsSound'
  BY Numbers DEF Before, Connect, ClientsSound
<1> QED
  BY <1>1 DEF Before, Connect, StayClosed, PeersSound, DiskTyped

LEMMA OnePeerChanges ==
  ASSUME Before, NEW id \in Ids, NEW p, PeerSound(p), ~ peer[id].up => ~ p.up,
         peer' = [peer EXCEPT ![id] = p],
         UNCHANGED <<ws, disk, clients, next_client_id, latest_client_id, pending, poll>>
  PROVE  Before' /\ StayClosed
<1>1. PeersSound' /\ peer'[id] = p /\ \A j \in Ids \ {id} : peer'[j] = peer[j]
  BY ChangedPeer DEF Before
<1>2. ClientsSound' /\ clients \subseteq Ids
  BY ClientIds DEF Before, ClientsSound
<1> QED
  BY <1>1, <1>2 DEF Before, StayClosed, DiskTyped

Sent(p, m) == [p EXCEPT !.inq = @ \o Units(m)]

LEMMA SentSound ==
  ASSUME NEW p, PeerSound(p), NEW m \in MessageRecord
  PROVE  PeerSound(Sent(p, m)) /\ Sent(p, m).up = p.up
<1>1. /\ IsPeer(p) /\ p.up \in BOOLEAN
      /\ p.inq \in Seq(Unit) /\ p.req_buf \in Seq(Unit) /\ p.arrived \in 0..Len(p.inq)
      /\ Len(p.req_buf) <= LSP_MAX_BUFFER_SIZE
      /\ p.res_sent \in 0..OutUnits - 1 /\ p.unread \in 0..Room
  BY DEF PeerSound
<1> DEFINE q == Sent(p, m)
           u == Units(m)
           inq == p.inq \o u
<1>2. /\ IsPeer(q) /\ q.up = p.up /\ q.inq = inq /\ q.arrived = p.arrived
      /\ q.req_buf = p.req_buf /\ q.res_sent = p.res_sent /\ q.unread = p.unread
  BY <1>1, Zenon DEF Sent, IsPeer
<1>3. u \in Seq(Unit)
  BY UnitsTyped
<1> HIDE DEF q, u
<1>4. inq \in Seq(Unit) /\ Len(inq) = Len(p.inq) + Len(u)
  BY <1>1, <1>3, ConcatProperties
<1>5. Len(p.inq) \in Nat /\ Len(u) \in Nat
  BY <1>1, <1>3
<1> HIDE DEF inq
<1>6. q.arrived \in 0..Len(q.inq)
  BY <1>1, <1>2, <1>4, <1>5
<1>7. PeerSound(q)
  BY <1>1, <1>2, <1>4, <1>6 DEF PeerSound
<1> QED
  BY <1>2, <1>7 DEF q

LEMMA SubmitSound ==
  ASSUME Before, NEW id \in Ids, Submit(id), AskedTyped
  PROVE  /\ Before' /\ StayClosed /\ UNCHANGED <<poll, listening, pending>>
         /\ AskedTyped'
<1> DEFINE m(t) == [n |-> Len(asked) + 1, method |-> t.method, path |-> t.path,
                    text |-> t.text, header |-> t.header, content |-> t.content]
<1>1. PICK t \in Methods[id] :
        /\ peer' = [peer EXCEPT ![id].inq = @ \o Units(m(t))]
        /\ asked' = Append(asked, [id |-> id, request |-> IsRequest(m(t))])
  BY DEF Submit
<1>2. t \in Template
  BY ProtocolAssumption
<1>3. m(t) \in MessageRecord
  BY <1>2 DEF MessageRecord, Template, AskedTyped
<1> HIDE DEF m
<1>4. PeerSound(peer[id])
  BY DEF Before, PeersSound
<1>5. peer' = [peer EXCEPT ![id] = Sent(peer[id], m(t))]
  BY <1>1 DEF Sent
<1>6. PeerSound(Sent(peer[id], m(t))) /\ (~ peer[id].up => ~ Sent(peer[id], m(t)).up)
  BY <1>3, <1>4, SentSound
<1>7. UNCHANGED <<ws, disk, clients, next_client_id, latest_client_id, pending, poll, listening>>
  BY DEF Submit
<1>8. Before' /\ StayClosed
  BY <1>5, <1>6, <1>7, OnePeerChanges
<1>9. [id |-> id, request |-> IsRequest(m(t))] \in [id : Ids, request : BOOLEAN]
  BY DEF IsRequest
<1>10. AskedTyped'
  BY <1>1, <1>9, AppendProperties DEF AskedTyped
<1> QED
  BY <1>7, <1>8, <1>10

Arrived(p) == [p EXCEPT !.arrived = @ + 1]
HasRead(p) == [p EXCEPT !.unread = 0]
HasClosed(p) == [p EXCEPT !.up = FALSE]

LEMMA ArriveSound ==
  ASSUME Before, NEW id \in Ids, Arrive(id)
  PROVE  Before' /\ StayClosed /\ UNCHANGED <<poll, listening, pending>>
<1> DEFINE p == peer[id]
           q == Arrived(p)
<1>1. PeerSound(p) /\ p.arrived < Len(p.inq)
  BY DEF Before, PeersSound, Arrive
<1>2. /\ IsPeer(p) /\ p.up \in BOOLEAN
      /\ p.inq \in Seq(Unit) /\ p.req_buf \in Seq(Unit) /\ p.arrived \in 0..Len(p.inq)
      /\ Len(p.req_buf) <= LSP_MAX_BUFFER_SIZE
      /\ p.res_sent \in 0..OutUnits - 1 /\ p.unread \in 0..Room
  BY <1>1 DEF PeerSound
<1>3. /\ peer' = [peer EXCEPT ![id] = q]
      /\ UNCHANGED <<ws, disk, clients, next_client_id, latest_client_id, pending, poll, listening>>
  BY Zenon DEF Arrive, ChangesPeer, Arrived
<1>4. /\ IsPeer(q) /\ q.up = p.up /\ q.inq = p.inq /\ q.arrived = p.arrived + 1
      /\ q.req_buf = p.req_buf /\ q.res_sent = p.res_sent /\ q.unread = p.unread
  BY <1>2, Zenon DEF Arrived, IsPeer
<1> HIDE DEF q
<1>5. Len(p.inq) \in Nat /\ q.arrived \in 0..Len(q.inq)
  BY <1>1, <1>2, <1>4
<1>6. PeerSound(q)
  BY <1>2, <1>4, <1>5 DEF PeerSound
<1>7. Before' /\ StayClosed
  BY <1>3, <1>4, <1>6, OnePeerChanges
<1> QED
  BY <1>3, <1>7

LEMMA ReadsSound ==
  ASSUME Before, NEW id \in Ids, ClientReads(id)
  PROVE  Before' /\ StayClosed /\ UNCHANGED <<poll, listening, pending>>
<1> DEFINE p == peer[id]
           q == HasRead(p)
<1>1. PeerSound(p) /\ IsPeer(p)
  BY DEF Before, PeersSound, PeerSound
<1>2. /\ peer' = [peer EXCEPT ![id] = q]
      /\ UNCHANGED <<ws, disk, clients, next_client_id, latest_client_id, pending, poll, listening>>
  BY Zenon DEF ClientReads, ChangesPeer, HasRead
<1>3. /\ IsPeer(q) /\ q.up = p.up /\ q.inq = p.inq /\ q.arrived = p.arrived
      /\ q.req_buf = p.req_buf /\ q.res_sent = p.res_sent /\ q.unread = 0
  BY <1>1, Zenon DEF HasRead, IsPeer
<1> HIDE DEF q
<1>4. PeerSound(q)
  BY <1>1, <1>3, Numbers DEF PeerSound
<1>5. Before' /\ StayClosed
  BY <1>2, <1>3, <1>4, OnePeerChanges
<1> QED
  BY <1>2, <1>5

LEMMA ClosesSound ==
  ASSUME Before, NEW id \in Ids, ClientCloses(id)
  PROVE  Before' /\ StayClosed /\ UNCHANGED <<poll, listening, pending>>
<1> DEFINE p == peer[id]
           q == HasClosed(p)
<1>1. PeerSound(p) /\ IsPeer(p)
  BY DEF Before, PeersSound, PeerSound
<1>2. /\ peer' = [peer EXCEPT ![id] = q]
      /\ UNCHANGED <<ws, disk, clients, next_client_id, latest_client_id, pending, poll, listening>>
  BY Zenon DEF ClientCloses, ChangesPeer, HasClosed
<1>3. /\ IsPeer(q) /\ q.up = FALSE /\ q.inq = p.inq /\ q.arrived = p.arrived
      /\ q.req_buf = p.req_buf /\ q.res_sent = p.res_sent /\ q.unread = p.unread
  BY <1>1, Zenon DEF HasClosed, IsPeer
<1> HIDE DEF q
<1>4. PeerSound(q)
  BY <1>1, <1>3 DEF PeerSound
<1>5. Before' /\ StayClosed
  BY <1>2, <1>3, <1>4, OnePeerChanges
<1> QED
  BY <1>2, <1>5

LEMMA RequestSound ==
  ASSUME Before, EditorRequest
  PROVE  Before' /\ StayClosed /\ UNCHANGED <<poll, listening, pending>>
<1> DEFINE id == latest_client_id
           ask == <<[type |-> "applyEdit", about |-> "edit"]>>
           Asked(p) == [p EXCEPT !.res_queue = Append(@, [type |-> "applyEdit", about |-> "edit"])]
<1>1. /\ UNCHANGED <<ws, disk, clients, next_client_id, latest_client_id, pending, poll, listening>>
      /\ id \in Ids
  BY DEF EditorRequest, Before, ClientsSound
<1>2. CASE id \in clients
  <2>1. PeerSound(peer[id]) /\ IsPeer(peer[id])
    BY <1>1 DEF Before, PeersSound, PeerSound
  <2>2. Like(Asked(peer[id]), peer[id])
    BY <2>1, Zenon DEF IsPeer, Like
  <2>3. peer' = [peer EXCEPT ![id] = Asked(peer[id])]
    BY <1>2 DEF EditorRequest
  <2> HIDE DEF Asked
  <2>4. PeerSound(Asked(peer[id])) /\ (~ peer[id].up => ~ Asked(peer[id]).up)
    BY <2>1, <2>2 DEF PeerSound, Like
  <2> QED
    BY <1>1, <2>3, <2>4, OnePeerChanges
<1>3. CASE id \notin clients
  <2>1. UNCHANGED peer
    BY <1>3 DEF EditorRequest
  <2> QED
    BY <1>1, <2>1 DEF Before, PeersSound, ClientsSound, DiskTyped, StayClosed
<1> QED
  BY <1>2, <1>3

-----------------------------------------------------------------------------
(***************************************************************************)
(* The server's members.                                                   *)
(***************************************************************************)
LEMMA DisconnectedSound ==
  ASSUME PeersSound, clients \subseteq Ids, peer' = Disconnected
  PROVE  PeersSound' /\ \A id \in clients : ~ peer'[id].up
<1>1. DOMAIN peer' = Ids
  BY DEF Disconnected
<1>2. \A id \in Ids : peer'[id] = IF id \in clients THEN HasClosed(peer[id]) ELSE peer[id]
  BY DEF Disconnected, HasClosed
<1>3. ASSUME NEW id \in Ids
      PROVE  PeerSound(HasClosed(peer[id])) /\ HasClosed(peer[id]).up = FALSE
  <2> DEFINE p == peer[id]
             q == HasClosed(p)
  <2>1. PeerSound(p) /\ IsPeer(p)
    BY DEF PeersSound, PeerSound
  <2>2. /\ IsPeer(q) /\ q.up = FALSE /\ q.inq = p.inq /\ q.arrived = p.arrived
        /\ q.req_buf = p.req_buf /\ q.res_sent = p.res_sent /\ q.unread = p.unread
    BY <2>1, Zenon DEF HasClosed, IsPeer
  <2> HIDE DEF q
  <2>3. PeerSound(q)
    BY <2>1, <2>2 DEF PeerSound
  <2> QED
    BY <2>2, <2>3 DEF q
<1> QED
  BY <1>1, <1>2, <1>3 DEF PeersSound

Restarts == [wanted : BOOLEAN, threaded : BOOLEAN, free : BOOLEAN]

(* stop() with what follows it, once the thread has ended.                 *)
LEMMA StopsThenSound ==
  ASSUME IInv, poll.at = "idle", NEW next \in Restarts, StopsThen(next),
         main' = IF next.wanted THEN "free" ELSE "gone",
         restart' \in Restarts, start_attempted' \in BOOLEAN, events' \in Nat,
         next.wanted => start_attempted' \/ events' # 0
  PROVE  IInv'
<1>1. protocol_stop(next.wanted /\ Listens(next.free, TRUE))
  BY DEF StopsThen
<1>2. PeersSound /\ ClientsSound /\ clients \subseteq Ids
  BY ClientIds DEF IInv
<1>3. PeersSound' /\ \A id \in clients : ~ peer'[id].up
  BY <1>1, <1>2, DisconnectedSound DEF protocol_stop
<1>4. UNCHANGED <<ws, disk, clients, next_client_id, latest_client_id, poll, asked>>
      /\ pending' = 0
  BY <1>1 DEF protocol_stop
<1>5. Sound(ws)' /\ DiskTyped' /\ AskedTyped'
  BY <1>4 DEF IInv, DiskTyped, AskedTyped
<1>6. ClientsSound'
  BY <1>2, <1>4, Numbers DEF ClientsSound
<1> DEFINE ok == next.wanted /\ next.free
<1>7. listening' = ok /\ ok \in BOOLEAN
  BY <1>1 DEF protocol_stop, Listens, Restarts
<1>8. /\ started' = ok
      /\ use_thread' \in BOOLEAN /\ process_internal' \in BOOLEAN
      /\ thread' = (ok /\ use_thread') /\ thread_running' = thread'
      /\ ok /\ ~ use_thread' => process_internal'
  <2>1. CASE next.wanted
    <3>1. /\ use_thread' = next.threaded /\ started' = ok
          /\ process_internal' = IF ok THEN ~ next.threaded ELSE process_internal
          /\ thread' = (ok /\ next.threaded)
          /\ thread_running' = (ok /\ next.threaded)
      BY <2>1 DEF StopsThen, Listens, FramesWanted
    <3>2. next.threaded \in BOOLEAN /\ process_internal \in BOOLEAN
      BY DEF Restarts, IInv, ServerTyped
    <3> QED
      BY <3>1, <3>2
  <2>2. CASE ~ next.wanted
    <3>1. started' = FALSE /\ thread' = FALSE /\ thread_running' = FALSE
          /\ UNCHANGED <<use_thread, process_internal>>
      BY <2>2 DEF StopsThen
    <3>2. use_thread \in BOOLEAN /\ process_internal \in BOOLEAN
      BY DEF IInv, ServerTyped
    <3> QED
      BY <2>2, <3>1, <3>2
  <2> QED
    BY <2>1, <2>2
<1> HIDE DEF ok
<1>9. ServerTyped'
  BY <1>7, <1>8 DEF ServerTyped, Restarts
<1>10. Polled'
  <2>1. ok => next.wanted
    BY DEF ok
  <2> QED
    BY <1>4, <1>7, <1>8, <2>1 DEF Polled
<1>11. Closed'
  BY <1>3, <1>4 DEF Closed
<1> QED
  BY <1>3, <1>5, <1>6, <1>9, <1>10, <1>11 DEF IInv

(* start() where the server does not listen, or fails.                     *)
LEMMA StartsSound ==
  ASSUME IInv, poll.at = "idle" \/ thread, main = "free",
         NEW threaded \in BOOLEAN, NEW free \in BOOLEAN,
         Starts(threaded, Listens(free, FALSE)), listening' = (listening \/ free),
         started => threaded = use_thread,
         UNCHANGED <<ws, disk, clients, peer, next_client_id, latest_client_id,
                     pending, poll, asked>>,
         main' = "free", restart' \in Restarts,
         start_attempted' \in BOOLEAN, events' \in Nat,
         start_attempted' \/ events' # 0
  PROVE  IInv'
<1>1. /\ Sound(ws)' /\ DiskTyped' /\ AskedTyped' /\ PeersSound' /\ ClientsSound'
  BY DEF IInv, DiskTyped, AskedTyped, PeersSound, ClientsSound
<1>2. ServerTyped /\ Polled /\ Closed
  BY DEF IInv
<1>3. {started, use_thread, thread, thread_running, process_internal, listening}
        \subseteq BOOLEAN
  BY <1>2 DEF ServerTyped
<1>4. CASE free /\ ~ listening
  <2>1. ~ started /\ ~ thread /\ ~ thread_running /\ poll.at = "idle"
    BY <1>2, <1>4 DEF Polled
  <2>2. /\ use_thread' = threaded /\ started' = TRUE /\ listening' = TRUE
        /\ process_internal' = ~ threaded
        /\ thread' = IF threaded THEN TRUE ELSE thread
        /\ thread_running' = IF threaded THEN TRUE ELSE thread_running
    BY <1>4 DEF Starts, Listens, FramesWanted
  <2>3. ServerTyped'
    BY <1>3, <2>2 DEF ServerTyped, Restarts
  <2>4. Polled'
    BY <1>3, <2>1, <2>2 DEF Polled
  <2>5. Closed'
    BY <2>2 DEF Closed
  <2> QED
    BY <1>1, <2>3, <2>4, <2>5 DEF IInv
<1>5. CASE ~ (free /\ ~ listening)
  <2>1. /\ use_thread' = threaded
        /\ UNCHANGED <<started, process_internal, thread, thread_running>>
    BY <1>5 DEF Starts, Listens
  <2>2. listening' = listening
    BY <1>3, <1>5
  <2>3. ServerTyped'
    BY <1>3, <2>1, <2>2 DEF ServerTyped, Restarts
  <2>4. Polled'
    BY <1>2, <1>3, <2>1, <2>2 DEF Polled
  <2>5. Closed'
    BY <1>2, <2>1 DEF Closed
  <2> QED
    BY <1>1, <2>3, <2>4, <2>5 DEF IInv
<1> QED
  BY <1>4, <1>5

(* stop(): the thread is told to end, or there is none.                    *)
LEMMA StopSound ==
  ASSUME IInv, MainFree, NEW next \in Restarts, Stop(next),
         start_attempted' = start_attempted, events' \in Nat,
         events' = 0 => events = 0,
         next.wanted => events' # 0
  PROVE  IInv'
<1>1. /\ ServerTyped /\ Polled /\ Closed
      /\ start_attempted' \in BOOLEAN /\ restart \in Restarts
      /\ main = "free" /\ (poll.at = "idle" \/ thread)
  BY DEF IInv, ServerTyped, MainFree, At, Restarts
<1>2. CASE Joins
  <2>1. /\ thread_running' = FALSE /\ main' = "joining" /\ restart' = next
        /\ UNCHANGED <<ws, disk, clients, peer, next_client_id, latest_client_id,
                       pending, listening, poll, asked>>
        /\ UNCHANGED <<started, use_thread, thread, process_internal>>
    BY <1>2 DEF Stop
  <2>2. Sound(ws)' /\ DiskTyped' /\ AskedTyped' /\ PeersSound' /\ ClientsSound'
    BY <2>1 DEF IInv, DiskTyped, AskedTyped, PeersSound, ClientsSound
  <2>3. ServerTyped'
    BY <1>1, <2>1 DEF ServerTyped, Restarts
  <2>4. Polled'
    BY <1>1, <1>2, <2>1 DEF Polled, Joins
  <2>5. Closed'
    BY <1>1, <2>1 DEF Closed
  <2> QED
    BY <2>2, <2>3, <2>4, <2>5 DEF IInv
<1>3. CASE ~ Joins /\ use_thread /\ ~ thread
  <2>1. /\ IF next.wanted
           THEN /\ Starts(next.threaded, Listens(next.free, FALSE))
                /\ listening' = (listening \/ next.free)
           ELSE UNCHANGED <<started, use_thread, thread_running, thread,
                            process_internal, listening>>
        /\ main' = IF next.wanted THEN "free" ELSE "gone"
        /\ UNCHANGED <<ws, disk, clients, peer, next_client_id, latest_client_id,
                       pending, poll, asked, restart>>
    BY <1>3 DEF Stop
  <2>2. CASE next.wanted
    <3>1. ~ started /\ next.threaded \in BOOLEAN /\ next.free \in BOOLEAN
      BY <1>1, <1>3 DEF Polled, Restarts
    <3> QED
      BY <1>1, <2>1, <2>2, <3>1, StartsSound
  <2>3. CASE ~ next.wanted
    <3>1. Sound(ws)' /\ DiskTyped' /\ AskedTyped' /\ PeersSound' /\ ClientsSound'
      BY <2>1 DEF IInv, DiskTyped, AskedTyped, PeersSound, ClientsSound
    <3>2. ServerTyped'
      BY <1>1, <2>1, <2>3 DEF ServerTyped, Restarts
    <3>3. Polled'
      BY <1>1, <2>1, <2>3 DEF Polled
    <3>4. Closed'
      BY <1>1, <2>1, <2>3 DEF Closed
    <3> QED
      BY <3>1, <3>2, <3>3, <3>4 DEF IInv
  <2> QED
    BY <2>2, <2>3
<1>4. CASE ~ Joins /\ ~ (use_thread /\ ~ thread)
  <2>1. /\ StopsThen(next)
        /\ main' = IF next.wanted THEN "free" ELSE "gone"
        /\ restart' = restart
    BY <1>4 DEF Stop
  <2>2. poll.at = "idle"
    BY <1>1, <1>4 DEF Joins, Polled
  <2> QED
    BY <1>1, <2>1, <2>2, StopsThenSound
<1> QED
  BY <1>2, <1>3, <1>4

(* The server's members do not change while a poll goes on, or anything    *)
(* happens outside.                                                        *)
LEMMA OutsideSound ==
  ASSUME IInv, Before', AskedTyped', StayClosed, UNCHANGED serverVars,
         UNCHANGED <<poll, listening>>, events' \in Nat, events' = 0 => events = 0,
         pending' = pending \/ started
  PROVE  IInv'
<1>1. UNCHANGED <<started, start_attempted, use_thread, thread_running, thread,
                  process_internal, main, restart>>
  BY DEF serverVars
<1>2. ServerTyped'
  BY <1>1 DEF IInv, ServerTyped
<1>3. Polled'
  BY <1>1 DEF IInv, Polled
<1>4. Closed'
  BY <1>1 DEF IInv, Closed, StayClosed
<1> QED
  BY <1>2, <1>3, <1>4 DEF IInv, Before

LEMMA PollSoundServer ==
  ASSUME IInv, Before', UNCHANGED asked, UNCHANGED serverVars, UNCHANGED <<listening, events>>,
         started /\ (thread \/ (~ use_thread /\ main = "free"))
  PROVE  IInv'
<1>1. UNCHANGED <<started, start_attempted, use_thread, thread_running, thread,
                  process_internal, main, restart>>
  BY DEF serverVars
<1>2. ServerTyped'
  BY <1>1 DEF IInv, ServerTyped
<1>3. Polled'
  BY <1>1 DEF IInv, Polled
<1>4. Closed' /\ AskedTyped'
  BY <1>1 DEF IInv, Closed, AskedTyped
<1> QED
  BY <1>2, <1>3, <1>4 DEF IInv, Before

-----------------------------------------------------------------------------
LEMMA InitIInv == Init => IInv
<1> SUFFICES ASSUME Init PROVE IInv
  OBVIOUS
<1> USE DEF Init, ProtocolInit
<1>1. Sound(ws)
  BY NothingParsed
<1>2. DiskTyped
  BY WorkspaceAssumption DEF DiskTyped
<1>3. AskedTyped
  BY DEF AskedTyped
<1>4. PeersSound
  <2>1. PeerSound(NewPeer)
    BY Numbers DEF NewPeer, PeerSound, IsPeer, OutUnits
  <2> QED
    BY <2>1 DEF PeersSound
<1>5. ClientsSound
  BY Numbers DEF ClientsSound, PollSound, Idle, Stages
<1>6. ServerTyped
  BY DEF ServerTyped, NoRestart
<1>7. Polled /\ Closed
  BY DEF Polled, Closed, Idle
<1> QED
  BY <1>1, <1>2, <1>3, <1>4, <1>5, <1>6, <1>7 DEF IInv

LEMMA NextIInv == IInv /\ [Next]_vars => IInv'
<1> SUFFICES ASSUME IInv, [Next]_vars PROVE IInv'
  OBVIOUS
<1>1. Before /\ AskedTyped /\ ServerTyped /\ Polled /\ Closed
  BY DEF IInv, Before
<1>2. /\ events \in Nat /\ start_attempted \in BOOLEAN /\ restart \in Restarts
      /\ use_thread \in BOOLEAN
  BY <1>1 DEF ServerTyped, Restarts
<1>3. CASE FirstStart
  <2>1. /\ MainFree /\ start_attempted' = TRUE /\ UNCHANGED <<main, restart>>
        /\ UNCHANGED <<ws, disk, clients, peer, next_client_id, latest_client_id,
                       pending, poll, asked, events>>
        /\ ~ start_attempted
    BY <1>3 DEF FirstStart
  <2>2. PICK free \in BOOLEAN, threaded \in IF events = 0 THEN BOOLEAN ELSE {use_thread} :
          Starts(threaded, Listens(free, FALSE)) /\ listening' = (listening \/ free)
    BY <1>3 DEF FirstStart
  <2>3. threaded \in BOOLEAN /\ (started => threaded = use_thread)
    BY <1>1, <1>2, <2>1 DEF Polled
  <2> QED
    BY <1>2, <2>1, <2>2, <2>3, StartsSound DEF MainFree, At
<1>4. CASE Frame
  <2>1. /\ MainFree /\ started /\ ~ use_thread /\ PollBegins /\ UNCHANGED serverVars
    BY <1>4 DEF Frame
  <2>2. UNCHANGED <<asked, listening, events>> /\ main = "free"
    BY <2>1 DEF PollBegins, MainFree
  <2>3. Before'
    BY <1>1, <2>1, PollBeginsSound
  <2> QED
    BY <2>1, <2>2, <2>3, PollSoundServer
<1>5. CASE SettingsChange
  <2>1. /\ MainFree /\ events' = events + 1 /\ start_attempted' = start_attempted
    BY <1>5 DEF SettingsChange
  <2>2. PICK threaded \in BOOLEAN, free \in BOOLEAN :
          Stop([wanted |-> TRUE, threaded |-> threaded, free |-> free])
    BY <1>5 DEF SettingsChange
  <2>3. [wanted |-> TRUE, threaded |-> threaded, free |-> free] \in Restarts
    BY DEF Restarts
  <2>4. events' \in Nat /\ events' # 0
    BY <1>2, <2>1
  <2> QED
    BY <2>1, <2>2, <2>3, <2>4, StopSound
<1>6. CASE ExitTree
  <2>1. MainFree /\ Stop(NoRestart) /\ UNCHANGED <<start_attempted, events>>
    BY <1>6 DEF ExitTree
  <2>2. NoRestart \in Restarts /\ ~ NoRestart.wanted
    BY DEF NoRestart, Restarts
  <2> QED
    BY <1>2, <2>1, <2>2, StopSound
<1>7. CASE Joined
  <2>1. /\ main = "joining" /\ ~ thread /\ StopsThen(restart)
        /\ main' = IF restart.wanted THEN "free" ELSE "gone"
        /\ restart' = NoRestart /\ UNCHANGED <<start_attempted, events>>
    BY <1>7 DEF Joined
  <2>2. NoRestart \in Restarts
    BY DEF NoRestart, Restarts
  <2>3. poll.at = "idle" /\ (start_attempted \/ events # 0)
    BY <1>1, <2>1 DEF Polled
  <2> QED
    BY <1>2, <2>1, <2>2, <2>3, StopsThenSound
<1>8. CASE ThreadPolls
  <2>1. thread /\ PollBegins /\ UNCHANGED serverVars
    BY <1>8 DEF ThreadPolls
  <2>2. UNCHANGED <<asked, listening, events>> /\ started
    BY <1>1, <2>1 DEF PollBegins, Polled
  <2>3. Before'
    BY <1>1, <2>1, PollBeginsSound
  <2> QED
    BY <2>1, <2>2, <2>3, PollSoundServer
<1>9. CASE ThreadEnds
  <2>1. /\ thread /\ ~ thread_running /\ poll.at = "idle" /\ thread' = FALSE
        /\ UNCHANGED protocolVars
        /\ UNCHANGED <<started, start_attempted, use_thread, thread_running,
                       process_internal, main, restart>>
    BY <1>9 DEF ThreadEnds, At
  <2>2. Sound(ws)' /\ DiskTyped' /\ AskedTyped' /\ PeersSound' /\ ClientsSound' /\ Closed'
    BY <1>1, <2>1 DEF protocolVars, Before, DiskTyped, AskedTyped, PeersSound,
                      ClientsSound, Closed
  <2>3. ServerTyped'
    BY <1>1, <2>1 DEF protocolVars, ServerTyped
  <2>4. Polled'
    BY <1>1, <2>1 DEF protocolVars, Polled
  <2> QED
    BY <2>2, <2>3, <2>4 DEF IInv
<1>10. CASE Polling
  <2>1. PollStep /\ UNCHANGED serverVars
    BY <1>10 DEF Polling
  <2>2. Before' /\ poll.at # "idle" /\ UNCHANGED <<listening, events, asked>>
    BY <1>1, <2>1, PollStepSound
  <2>3. started /\ (thread \/ (~ use_thread /\ main = "free"))
    BY <1>1, <2>2 DEF Polled
  <2> QED
    BY <2>1, <2>2, <2>3, PollSoundServer
<1>11. CASE Request
  <2>1. EditorRequest /\ UNCHANGED serverVars
    BY <1>11 DEF Request
  <2>2. Before' /\ StayClosed /\ UNCHANGED <<poll, listening, pending>>
    BY <1>1, <2>1, RequestSound
  <2>3. events' = events + 1 /\ UNCHANGED asked
    BY <2>1 DEF EditorRequest
  <2>4. AskedTyped' /\ events' \in Nat /\ events' # 0
    BY <1>1, <1>2, <2>3 DEF AskedTyped
  <2> QED
    BY <2>1, <2>2, <2>4, OutsideSound
<1>12. CASE Remote
  <2>1. UNCHANGED serverVars
    BY <1>12 DEF Remote
  <2>2. CASE Connect
    <3>1. Before' /\ StayClosed /\ UNCHANGED <<poll, listening>>
      BY <1>1, <2>2, ConnectSound
    <3>2. events' = events + 1 /\ UNCHANGED asked /\ started
      BY <1>1, <2>2 DEF Connect, Polled
    <3>3. AskedTyped' /\ events' \in Nat /\ events' # 0
      BY <1>1, <1>2, <3>2 DEF AskedTyped
    <3> QED
      BY <2>1, <3>1, <3>2, <3>3, OutsideSound
  <2>3. ASSUME NEW id \in Ids, Submit(id) PROVE IInv'
    <3>1. Before' /\ StayClosed /\ UNCHANGED <<poll, listening, pending>> /\ AskedTyped'
      BY <1>1, <2>3, SubmitSound
    <3>2. events' = events + 1
      BY <2>3 DEF Submit
    <3>3. events' \in Nat /\ events' # 0
      BY <1>2, <3>2
    <3> QED
      BY <2>1, <3>1, <3>3, OutsideSound
  <2>4. ASSUME NEW id \in Ids, Arrive(id) PROVE IInv'
    <3>1. Before' /\ StayClosed /\ UNCHANGED <<poll, listening, pending>>
      BY <1>1, <2>4, ArriveSound
    <3>2. UNCHANGED <<events, asked>>
      BY <2>4 DEF Arrive, ChangesPeer
    <3> QED
      BY <1>1, <1>2, <2>1, <3>1, <3>2, OutsideSound DEF AskedTyped
  <2>5. ASSUME NEW id \in Ids, ClientReads(id) PROVE IInv'
    <3>1. Before' /\ StayClosed /\ UNCHANGED <<poll, listening, pending>>
      BY <1>1, <2>5, ReadsSound
    <3>2. UNCHANGED <<events, asked>>
      BY <2>5 DEF ClientReads, ChangesPeer
    <3> QED
      BY <1>1, <1>2, <2>1, <3>1, <3>2, OutsideSound DEF AskedTyped
  <2>6. ASSUME NEW id \in Ids, ClientCloses(id) PROVE IInv'
    <3>1. Before' /\ StayClosed /\ UNCHANGED <<poll, listening, pending>>
      BY <1>1, <2>6, ClosesSound
    <3>2. events' = events + 1 /\ UNCHANGED asked
      BY <2>6 DEF ClientCloses, ChangesPeer
    <3>3. AskedTyped' /\ events' \in Nat /\ events' # 0
      BY <1>1, <1>2, <3>2 DEF AskedTyped
    <3> QED
      BY <2>1, <3>1, <3>3, OutsideSound
  <2> QED
    BY <1>12, <2>2, <2>3, <2>4, <2>5, <2>6 DEF Remote
<1>13. CASE Gone \/ UNCHANGED vars
  <2>1. UNCHANGED protocolVars /\ UNCHANGED serverVars
    BY <1>13 DEF Gone, vars
  <2>2. /\ UNCHANGED <<ws, disk, clients, peer, next_client_id, latest_client_id,
                  pending, listening, poll, asked, events>>
        /\ UNCHANGED <<started, start_attempted, use_thread, thread_running, thread,
                process_internal, main, restart>>
    BY <2>1 DEF protocolVars, serverVars
  <2>3. Sound(ws)' /\ DiskTyped' /\ AskedTyped' /\ PeersSound' /\ ClientsSound' /\ Closed'
    BY <1>1, <2>2 DEF Before, DiskTyped, AskedTyped, PeersSound, ClientsSound, Closed
  <2>4. ServerTyped' /\ Polled'
    BY <1>1, <2>2 DEF ServerTyped, Polled
  <2> QED
    BY <2>3, <2>4 DEF IInv
<1> QED
  BY <1>3, <1>4, <1>5, <1>6, <1>7, <1>8, <1>9, <1>10, <1>11, <1>12, <1>13 DEF Next

(* The invariant that the others follow from.                              *)
THEOREM SpecIInv == Spec => []IInv
<1>1. Init => IInv
  BY InitIInv
<1>2. IInv /\ [Next]_vars => IInv'
  BY NextIInv
<1> QED
  BY <1>1, <1>2, PTL DEF Spec

(* Type correctness: the workspace's tables, what each client has sent and *)
(* been sent, and a poll that is at a client of the table.                 *)
THEOREM TypeCorrect == Spec => []TypeOK
<1>1. IInv => TypeOK
  <2> SUFFICES ASSUME IInv PROVE TypeOK
    OBVIOUS
  <2>1. WorkspaceTypeOK
    BY SoundMeans DEF IInv
  <2>2. clients \subseteq 0..next_client_id - 1 /\ latest_client_id \in Ids
        /\ next_client_id + pending \in 0..MaxConnections
    BY Numbers DEF IInv, ClientsSound
  <2>3. poll.at \in Stages /\ (poll.at # "idle" => poll.id \in clients)
    BY DEF IInv, ClientsSound, PollSound
  <2>4. ASSUME NEW id \in Ids
        PROVE  /\ {peer[id].inq, peer[id].req_buf} \subseteq Seq(Unit)
               /\ peer[id].arrived \in 0..Len(peer[id].inq)
               /\ Len(peer[id].req_buf) \in 0..LSP_MAX_BUFFER_SIZE
               /\ peer[id].res_sent \in 0..OutUnits - 1
               /\ peer[id].unread \in 0..Room
    <3>1. PeerSound(peer[id])
      BY DEF IInv, PeersSound
    <3>2. Len(peer[id].req_buf) \in Nat
      BY <3>1 DEF PeerSound
    <3> QED
      BY <3>1, <3>2, Numbers DEF PeerSound
  <2>5. DOMAIN peer = Ids
    BY DEF IInv, PeersSound
  <2>6. /\ main \in {"free", "joining", "gone"}
        /\ {started, use_thread, thread, thread_running, process_internal, listening}
              \subseteq BOOLEAN
    BY DEF IInv, ServerTyped
  <2> QED
    BY <2>1, <2>2, <2>3, <2>4, <2>5, <2>6 DEF TypeOK, Stages
<1> QED
  BY <1>1, SpecIInv, PTL

(* No handler frees a parser of the workspace twice or reads a freed one,  *)
(* whatever the texts, the files and the order of the messages.            *)
THEOREM NothingDangles == Spec => []ParsersAlive
<1>1. IInv => ParsersAlive
  BY SoundMeans DEF IInv
<1> QED
  BY <1>1, SpecIInv, PTL

(* scripts has the last text without errors of each path.                  *)
THEOREM KeepsLastGood == Spec => []LastGoodScript
<1>1. IInv => LastGoodScript
  BY SoundMeans DEF IInv
<1> QED
  BY <1>1, SpecIInv, PTL

(* Who is started listens and is polled, whatever was changed or failed.   *)
THEOREM AlwaysPolled == Spec => []StartedIsPolled
<1>1. IInv => StartedIsPolled
  BY DEF IInv, ServerTyped, Polled, StartedIsPolled
<1> QED
  BY <1>1, SpecIInv, PTL

(* After stop no poll is under way and every client is closed.             *)
THEOREM StopIsQuiet == Spec => []QuietWhenStopped
<1>1. IInv => QuietWhenStopped
  BY DEF IInv, ServerTyped, Polled, Closed, QuietWhenStopped, At
<1> QED
  BY <1>1, SpecIInv, PTL
=============================================================================
