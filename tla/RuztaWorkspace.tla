---------------------------- MODULE RuztaWorkspace ----------------------------
(***************************************************************************)
(* The parser tables of the language server's workspace                    *)
(* (language_server/ruzta_workspace.cpp) and the handlers of               *)
(* ruzta_text_document.cpp that use them.  parse_results has the parser of *)
(* the last text of a path, scripts that of the last text without errors;  *)
(* both hold plain pointers, often to the same object, which memdelete     *)
(* frees.  A text is "good", "bad" (it has errors) or, on disk, "absent".  *)
(***************************************************************************)
EXTENDS Integers, Sequences, SequencesExt, FiniteSets

CONSTANTS Paths,     \* sequence of the scripts of the project
          Disks      \* what the project's files may be, by path

PathSet == {Paths[i] : i \in DOMAIN Paths}
Texts == {"good", "bad"}

ASSUME WorkspaceAssumption ==
    /\ Paths \in Seq(PathSet)
    /\ Disks \subseteq [PathSet -> Texts \union {"absent"}]

(* A pointer to an ExtendRuztaParser. *)
Null == 0
Parsers == Nat \ {Null}

VARIABLES
    ws,   \* the tables, and the heap of parsers
    disk  \* the project's files

(* An object: which text it has parsed, and of which file. *)
ParserRecord == [text : Texts, path : PathSet]

(* The heap has the objects that exist.  To free a parser that is gone, or to
   use one, spoils it. *)
EmptyWorkspace ==
    [ parse_results |-> [p \in PathSet |-> Null],
      scripts       |-> [p \in PathSet |-> Null],
      heap          |-> [q \in {} |-> Null],
      spoiled       |-> FALSE,
      initialized   |-> FALSE,
      notes         |-> <<>> ]

Live(w, q) == q \in DOMAIN w.heap

(* Some address that is not in use: one that was may be used again. *)
memnew(w) == CHOOSE q \in 1..Cardinality(DOMAIN w.heap) + 1 : ~Live(w, q)

memdelete(w, q) ==
    IF Live(w, q) THEN [w EXCEPT !.heap = [r \in DOMAIN w.heap \ {q} |-> w.heap[r]]]
    ELSE [w EXCEPT !.spoiled = TRUE]

(* What a handler tells the client with notify_client while it runs. *)
Note(w, note) == [w EXCEPT !.notes = Append(@, note)]

-----------------------------------------------------------------------------
(* Mistake: memdelete is called for each of the two entries. *)
FreedEntriesIfTwice(w, p) ==
    memdelete(memdelete(w, w.scripts[p]), w.parse_results[p])

FreedEntries(w, p) ==
    LET scr == w.scripts[p]
        parser == w.parse_results[p]
    IN  CASE scr # Null /\ parser # Null ->
               IF scr = parser THEN memdelete(w, scr)
               ELSE memdelete(memdelete(w, scr), parser)
          [] parser # Null /\ scr = Null -> memdelete(w, parser)
          [] scr # Null /\ parser = Null -> memdelete(w, scr)
          [] OTHER -> w

remove_cache_parser(w, p) ==
    [FreedEntries(w, p) EXCEPT !.parse_results[p] = Null, !.scripts[p] = Null]

(* The parser a failed parse replaces is freed unless scripts still has it. *)
Superseded(w, p) ==
    /\ w.parse_results[p] # Null
    /\ w.scripts[p] # Null
    /\ w.parse_results[p] # w.scripts[p]

(* Mistake: a text with errors replaces the script as well. *)
StoredIfAlways(w, p, parser, text) ==
    [w EXCEPT !.parse_results[p] = parser, !.scripts[p] = parser]

Stored(w, p, parser, text) ==
    IF text = "good"
    THEN [remove_cache_parser(w, p) EXCEPT !.parse_results[p] = parser,
                                           !.scripts[p] = parser]
    ELSE [(IF Superseded(w, p) THEN memdelete(w, w.parse_results[p]) ELSE w)
             EXCEPT !.parse_results[p] = parser]

publish_diagnostics(w, p) ==
    IF w.parse_results[p] # Null /\ ~Live(w, w.parse_results[p])
    THEN [w EXCEPT !.spoiled = TRUE]
    ELSE Note(w, [type |-> "diagnostics", about |-> p])

Parsed(w, parser, p, text) ==
    [w EXCEPT !.heap = [q \in DOMAIN w.heap \union {parser} |->
        IF q = parser THEN [text |-> text, path |-> p] ELSE w.heap[q]]]

(* memnew(ExtendRuztaParser), its parse, the tables, the diagnostics. *)
parse_script(w, p, text) ==
    LET parser == memnew(w)
    IN  publish_diagnostics(Stored(Parsed(w, parser, p, text), p, parser, text), p)

parse_local_script(w, p) ==
    IF disk[p] = "absent" THEN w ELSE parse_script(w, p, disk[p])

get_parse_result(w, p) ==
    IF w.parse_results[p] = Null THEN parse_local_script(w, p) ELSE w

get_parse_successed_script(w, p) ==
    IF w.scripts[p] = Null THEN parse_local_script(w, p) ELSE w

(* The workspace after each script of the project has been parsed, or each
   that was not. *)
OverPaths(w, again) ==
    LET after[i \in 0..Len(Paths)] ==
            IF i = 0 THEN w
            ELSE IF again THEN parse_local_script(after[i - 1], Paths[i])
            ELSE get_parse_result(after[i - 1], Paths[i])
    IN  after

reload_all_workspace_scripts(w) == OverPaths(w, TRUE)[Len(Paths)]

(* Reading a parser that was freed spoils the heap. *)
Read(w, q) == IF q = Null \/ Live(w, q) THEN w ELSE [w EXCEPT !.spoiled = TRUE]

(* RuztaLanguageProtocol::initialize; the flag belongs to the protocol, so
   only the first client's call loads the scripts. *)
initialize(w) ==
    IF w.initialized THEN w
    ELSE [reload_all_workspace_scripts(w) EXCEPT !.initialized = TRUE]

-----------------------------------------------------------------------------
(* The handlers.  m.path is the document, m.text what the client sends. *)
sync_script_content(w, m) == parse_script(w, m.path, m.text)

didDeleteFiles(w, m) == parse_script(w, m.path, "good")

documentSymbol(w, m) == Read(w, w.scripts[m.path])

documentLink(w, m) ==
    LET v == get_parse_successed_script(w, m.path)
    IN  Read(v, v.scripts[m.path])

(* resolve_symbol, then for references and rename every file is searched
   with the symbol, which belongs to a parser, still in use. *)
hover(w, m) ==
    LET v == get_parse_result(w, m.path)
    IN  Read(v, v.parse_results[m.path])

references(w, m) ==
    LET v == hover(w, m)
        searched == OverPaths(v, FALSE)[Len(Paths)]
    IN  Read(searched, v.parse_results[m.path])

Handlers == {"initialize", "didChange", "didDeleteFiles", "documentSymbol",
             "documentLink", "hover", "references"}

Handled(w, m) ==
    CASE m.method = "initialize"     -> initialize(w)
      [] m.method = "didChange"      -> sync_script_content(w, m)
      [] m.method = "didDeleteFiles" -> didDeleteFiles(w, m)
      [] m.method = "documentSymbol" -> documentSymbol(w, m)
      [] m.method = "documentLink"   -> documentLink(w, m)
      [] m.method = "hover"          -> hover(w, m)
      [] m.method = "references"     -> references(w, m)

(* A notification of JSON-RPC has no id and gets no response. *)
IsRequest(m) == m.method \notin {"didChange", "didDeleteFiles"}

IsHeap(heap) ==
    /\ DOMAIN heap \subseteq Parsers
    /\ IsFiniteSet(DOMAIN heap)
    /\ heap \in [DOMAIN heap -> ParserRecord]

WorkspaceTypeOK ==
    /\ ws.parse_results \in [PathSet -> Parsers \union {Null}]
    /\ ws.scripts \in [PathSet -> Parsers \union {Null}]
    /\ IsHeap(ws.heap)
    /\ ws.initialized \in BOOLEAN
    /\ disk \in [PathSet -> Texts \union {"absent"}]

(* No handler frees a parser twice or reads one that was freed, although the
   two tables share objects and are replaced apart (parse_script and
   remove_cache_parser): what they have is alive and is of their path. *)
ParsersAlive ==
    /\ ~ws.spoiled
    /\ \A p \in PathSet : \A q \in {ws.parse_results[p], ws.scripts[p]} :
          q # Null => Live(ws, q) /\ ws.heap[q].path = p

(* While the user types, symbols come from the last text that was right:
   scripts has only parsers of good texts, never lacks the good text that
   parse_results has, and a path known there is known here as well, on which
   get_parse_result relies when it does not look at scripts. *)
LastGoodScript ==
    \A p \in PathSet :
        /\ ws.scripts[p] # Null =>
              /\ ws.heap[ws.scripts[p]].text = "good"
              /\ ws.parse_results[p] # Null
        /\ ws.parse_results[p] # Null /\ ws.heap[ws.parse_results[p]].text = "good" =>
              ws.scripts[p] = ws.parse_results[p]
=============================================================================
