----------------------------- MODULE RuztaCache -----------------------------
(***************************************************************************)
(* Loading scripts: RuztaCache (ruzta_cache.cpp) with the status machine   *)
(* of RuztaParserRef::raise_status, Ruzta::_reload (ruzta.cpp) and the     *)
(* calls by which the analyzer and the compiler come back to the cache for *)
(* other, possibly cyclic, scripts.                                        *)
(*                                                                         *)
(* Every thread has an explicit stack of the C++ activations that matter;  *)
(* an action is what the activation on top does up to its next call or to  *)
(* the next lock it takes.  The cache mutex is recursive: a thread holds   *)
(* it while get_full_script, finish_compiling or get_parser is on its      *)
(* stack.  Ruzta::reload called directly (editor, hot reload) runs without *)
(* it and only takes it inside each function of the cache that it calls.   *)
(***************************************************************************)
EXTENDS RuztaParserRegistry, Naturals, Sequences

CONSTANTS
  Threads,
  Objs,       \* identities of Ruzta objects
  Content,    \* what a file may contain, see ContentAssumption
  Null,       \* a null Ref<Ruzta> stored in a map, as opposed to no entry
  MaxEvents   \* bound: how many requests and file changes there are

(* A file names the script it extends and the scripts its body uses; it is *)
(* "ok", does not parse, or has an error in its body.                      *)
ASSUME ContentAssumption ==
  /\ Content \subseteq [ext : Scripts \cup {Nil}, uses : SUBSET Scripts,
                        health : {"ok", "parse_error", "body_error"}]
  /\ Nil \notin Content /\ Nil \notin Objs /\ Null \notin Objs \cup {Nil}
  /\ MaxEvents \in Nat

VARIABLES
  disk,          \* path -> content of the file, or Nil
  events,        \* how many requests and file changes there were
  kept,          \* Ruzta objects the game still holds after their removal
  stage,         \* reference -> what raise_status and the analyzer left there
  scr,           \* Ruzta objects
  shallow_ruzta_cache, full_ruzta_cache, dependencies,
  stack,         \* thread -> its activations, the innermost first
  ret            \* thread -> TRUE when the last activation returned OK

scripts == <<scr, kept, shallow_ruzta_cache, full_ruzta_cache, dependencies>>
files   == <<disk, events>>
cvars   == <<reg, pins, stage, scripts, files, stack, ret>>

(* RuztaParserRef::Status *)
EMPTY == 0
PARSED == 1
INHERITANCE_SOLVED == 2
INTERFACE_SOLVED == 3
FULLY_SOLVED == 4

NoTree == [status |-> EMPTY, ok |-> TRUE, tree |-> Nil, base |-> Nil]
NoScript == [path |-> Nil, source |-> Nil, valid |-> FALSE,
             reloading |-> FALSE, initialized |-> FALSE]

(* What get_source_code yields when the file cannot be opened: "". *)
EmptySource == [ext |-> Nil, uses |-> {}, health |-> "ok"]
SourceOf(p) == IF disk[p] = Nil THEN EmptySource ELSE disk[p]

Frame(op) == [op |-> op, pc |-> "start", path |-> Nil, ref |-> Nil,
              obj |-> Nil, target |-> EMPTY, todo |-> {}, cur |-> Nil,
              err |-> FALSE, fromDisk |-> FALSE]

-----------------------------------------------------------------------------
(* The stacks. *)
Idle(t)    == stack[t] = <<>>
Top(t)     == stack[t][1]
Running(t, op, pc) == ~ Idle(t) /\ Top(t).op = op /\ Top(t).pc = pc

Become(t, f)  == stack' = [stack EXCEPT ![t] = <<f>> \o Tail(@)]
Call(t, f, g) == stack' = [stack EXCEPT ![t] = <<g, f>> \o Tail(@)]
Start(t, f)   == stack' = [stack EXCEPT ![t] = <<f>>]
Return(t, ok) == /\ stack' = [stack EXCEPT ![t] = Tail(@)]
                 /\ ret' = [ret EXCEPT ![t] = ok]

Activations(st) == UNION {{st[t][i] : i \in 1..Len(st[t])} : t \in Threads}

(* The recursive mutex of the cache. *)
Locks(f) == f.op = "query" \/ (f.op \in {"full", "finish"} /\ f.pc # "start")
MayLock(t) == \A u \in Threads \ {t} :
                \A i \in 1..Len(stack[u]) : ~ Locks(stack[u][i])

(***************************************************************************)
(* Every step ends with the destructors of what it released: references of *)
(* returned activations, then Ruzta objects nobody holds.  (The bound      *)
(* variables have TLC evaluate the tables once.)                           *)
(***************************************************************************)
CommitParsers(tables, trees) ==
  \E g \in {tables}, st \in {trees}, held \in {{f.ref : f \in Activations(stack')} \ {Nil}} :
  \E alive \in {Survivors(g, held)} :
    /\ Settle(g, held)
    /\ stage' = [r \in RefIds |-> IF r \in alive THEN st[r] ELSE NoTree]

CommitKeeping(keep, sc, shallow, full) ==
  LET held == {shallow[p] : p \in Scripts} \cup {full[p] : p \in Scripts}
                \cup {f.obj : f \in Activations(stack')} \cup keep
  IN /\ kept' = keep
     /\ shallow_ruzta_cache' = shallow
     /\ full_ruzta_cache' = full
     /\ scr' = [o \in Objs |-> IF o \in held THEN sc[o] ELSE NoScript]

CommitScripts(sc, shallow, full) == CommitKeeping(kept, sc, shallow, full)

KeepParsers == CommitParsers(reg, stage)
KeepScripts == /\ CommitScripts(scr, shallow_ruzta_cache, full_ruzta_cache)
               /\ UNCHANGED dependencies

FreshRef == CHOOSE r \in RefIds : reg.ref[r].kind = "dead"
SpareRef == \E r \in RefIds : reg.ref[r].kind = "dead"
FreshObj == CHOOSE o \in Objs : scr[o] = NoScript
SpareObj == \E o \in Objs : scr[o] = NoScript

(* raise_status on an EMPTY reference reads and parses the file. *)
Parsed(p) == [status |-> PARSED, ok |-> SourceOf(p).health # "parse_error",
              tree |-> SourceOf(p), base |-> Nil]

-----------------------------------------------------------------------------
(***************************************************************************)
(* get_shallow_script(p): the cached object or a new one, which makes sure *)
(* the path has a parsed reference.  Yields the tables afterwards, the     *)
(* object (Nil if the file cannot be loaded, nothing is cached then).      *)
(***************************************************************************)
CachedScript(p) ==
  IF full_ruzta_cache[p] # Nil THEN full_ruzta_cache[p]
  ELSE shallow_ruzta_cache[p]

ShallowNeedsFresh(p) == CachedScript(p) = Nil /\ disk[p] # Nil

GetShallowScript(p, g, st) ==
  IF ~ ShallowNeedsFresh(p)
  THEN [g |-> g, st |-> st, scr |-> scr, shallow |-> shallow_ruzta_cache,
        obj |-> CachedScript(p)]
  ELSE LET r == Answer(g, p, FreshRef)
           o == FreshObj
       IN [g   |-> GetParser(g, p, Nil, FreshRef),
           st  |-> IF st[r].status = EMPTY THEN [st EXCEPT ![r] = Parsed(p)]
                   ELSE st,
           scr |-> [scr EXCEPT ![o] = [NoScript EXCEPT !.path = p,
                                                 !.source = disk[p]]],
           shallow |-> [shallow_ruzta_cache EXCEPT ![p] = o],
           obj |-> o]

-----------------------------------------------------------------------------
(***************************************************************************)
(* RuztaParserRef::raise_status and the analyzer stages it runs.  The      *)
(* status is raised before the stage runs, so a cycle of scripts that      *)
(* comes back to this reference finds the stage already taken.             *)
(* What the stage has found wrong (err) is the result only when it ends.   *)
(* The same activation stands for the stages of RuztaAnalyzer::analyze on  *)
(* the parser local to Ruzta::reload.                                      *)
(***************************************************************************)
RaiseFrame(r, target) == [Frame("raise") EXCEPT !.ref = r, !.target = target]

(* The other scripts a stage asks for, apart from the script itself. *)
Wanted(tree, status, own) ==
  CASE status = INHERITANCE_SOLVED -> {tree.ext} \ {Nil}
    [] status = FULLY_SOLVED -> tree.uses \ {own}
    [] OTHER -> {}

(* Mistake: only the direct base was looked at. *)
BaseChainIfDirect(st, e) == {e}

(* The references on the chain of base classes that starts at e. *)
BaseChain(st, e) ==
  {r \in RefIds : \A S \in SUBSET RefIds :
     e \in S /\ (\A x \in S : st[x].base \in S \cup {Nil}) => r \in S}

(* Mistake: the loop of raise_status went on at the status asked for. *)
StageDueIfAtLeast(f, s) == s.ok /\ f.target >= s.status

StageDue(f, s) == s.ok /\ f.target > s.status

(* Mistake: the status was left for the end of the stage. *)
StageEnteredIfLate(r, now) == stage

StageEntered(r, now) == [stage EXCEPT ![r].status = now]

RaiseStage(t) ==
  /\ Running(t, "raise", "start")
  /\ LET f == Top(t)
         s == stage[f.ref]
         own == reg.ref[f.ref].path
     IN /\ StageDue(f, s)
        /\ IF s.status = EMPTY
           THEN /\ Become(t, f)
                /\ CommitParsers(reg, [stage EXCEPT ![f.ref] = Parsed(own)])
           ELSE LET now == s.status + 1
                    bad == now = FULLY_SOLVED /\ s.tree.health = "body_error"
                IN /\ Become(t, [f EXCEPT !.pc = "stage", !.err = bad,
                                   !.todo = Wanted(s.tree, now, own)])
                   /\ CommitParsers(reg, StageEntered(f.ref, now))
  /\ UNCHANGED <<ret, files>> /\ KeepScripts

(* Mistake: the owner was not handed to get_parser. *)
AcquiredIfUnowned(r, q) ==
  WithDependency(GetParser(reg, q, Nil, FreshRef), r, Answer(reg, q, FreshRef))

(* get_depended_parser_for(q) by the parser of reference r. *)
Acquired(r, q) ==
  WithDependency(GetParser(reg, q, reg.ref[r].path, FreshRef), r,
                 Answer(reg, q, FreshRef))

(* The stage asks for another script: get_depended_parser_for and raise    *)
(* that parser to INHERITANCE_SOLVED.                                      *)
RaiseVisit(t) ==
  /\ Running(t, "raise", "stage") /\ MayLock(t)
  /\ LET f == Top(t)
         own == reg.ref[f.ref].path
     IN /\ f.cur = Nil
        /\ \E q \in f.todo :
           LET known == {d \in reg.ref[f.ref].deps : reg.ref[d].path = q}
               missing == known = {} /\ reg.parser_map[q] = Nil /\ disk[q] = Nil
               d == IF known # {} THEN CHOOSE d \in known : TRUE
                    ELSE Answer(reg, q, FreshRef)
               visiting == [f EXCEPT !.cur = q, !.todo = @ \ {q}]
           IN /\ known # {} \/ reg.parser_map[q] # Nil \/ missing \/ SpareRef
              /\ dependencies' = IF known # {} THEN dependencies
                                 ELSE [dependencies EXCEPT ![own] = @ \cup {q}]
              /\ IF missing
                 THEN /\ Become(t, [visiting EXCEPT !.cur = Nil, !.err = TRUE])
                      /\ CommitParsers(Noted(reg, q, own), stage)
                 ELSE /\ Call(t, visiting, RaiseFrame(d, INHERITANCE_SOLVED))
                      /\ CommitParsers(
                           IF known # {} THEN reg ELSE Acquired(f.ref, q), stage)
  /\ UNCHANGED <<ret, files>>
  /\ CommitScripts(scr, shallow_ruzta_cache, full_ruzta_cache)

(***************************************************************************)
(* The other script is there.  resolve_class_inheritance refuses a base    *)
(* whose own chain leads back here; a body also asks for the shallow       *)
(* script (get_depended_shallow_script).                                   *)
(***************************************************************************)
RaiseResume(t) ==
  /\ Running(t, "raise", "stage") /\ Top(t).cur # Nil
  /\ LET f == Top(t)
         q == f.cur
         own == reg.ref[f.ref].path
         d == CHOOSE d \in reg.ref[f.ref].deps : reg.ref[d].path = q
         inherits == stage[f.ref].status = INHERITANCE_SOLVED
         cyclic == \E b \in BaseChain(stage, d) : reg.ref[b].path = own
         found == ret[t] /\ ~ cyclic
     IN IF inherits \/ ~ ret[t]
        THEN /\ Become(t, [f EXCEPT !.cur = Nil, !.err = @ \/ ~ found])
             /\ CommitParsers(reg, IF found THEN [stage EXCEPT ![f.ref].base = d]
                                   ELSE stage)
             /\ UNCHANGED <<ret, files>> /\ KeepScripts
        ELSE /\ MayLock(t)
             /\ ShallowNeedsFresh(q) => SpareRef /\ SpareObj
             /\ LET s == GetShallowScript(q, reg, stage)
                IN /\ Become(t, [f EXCEPT !.cur = Nil, !.err = @ \/ s.obj \notin Objs])
                   /\ CommitParsers(s.g, s.st)
                   /\ CommitScripts(s.scr, s.shallow, full_ruzta_cache)
             /\ dependencies' = [dependencies EXCEPT ![own] = @ \cup {q}]
             /\ UNCHANGED <<ret, files>>

RaiseEndStage(t) ==
  /\ Running(t, "raise", "stage") /\ Top(t).cur = Nil /\ Top(t).todo = {}
  /\ Become(t, [Top(t) EXCEPT !.pc = "start", !.err = FALSE])
  /\ CommitParsers(reg, [stage EXCEPT ![Top(t).ref].ok = ~ Top(t).err])
  /\ UNCHANGED <<ret, files>> /\ KeepScripts

RaiseReturn(t) ==
  /\ ~ Idle(t) /\ Top(t).op = "raise" /\ Top(t).pc \in {"start", "lost"}
  /\ LET f == Top(t)
         s == stage[f.ref]
     IN /\ f.pc = "lost" \/ ~ StageDue(f, s)
        /\ Return(t, f.pc # "lost" /\ s.ok)
  /\ UNCHANGED files /\ KeepParsers /\ KeepScripts

-----------------------------------------------------------------------------
(***************************************************************************)
(* Ruzta::_reload on object o.  It does not take the cache mutex itself;   *)
(* the functions of the cache it calls take it, each for its own duration, *)
(* so other threads come in between any two of its steps.  The reloading   *)
(* flag stops a cycle of scripts from reloading o again; it is a plain     *)
(* member, read in one step and set in the next.                           *)
(***************************************************************************)
ReloadFrame(o) == [Frame("reload") EXCEPT !.obj = o]

ReloadBusy(t) ==
  /\ Running(t, "reload", "start") /\ scr[Top(t).obj].reloading
  /\ Return(t, TRUE)
  /\ UNCHANGED files /\ KeepParsers /\ KeepScripts

(* The reload goes on at pc. *)
GoOn(t, pc) ==
  /\ Become(t, [Top(t) EXCEPT !.pc = pc])
  /\ UNCHANGED <<files, ret>> /\ KeepParsers /\ KeepScripts

ReloadFree(t) ==
  /\ Running(t, "reload", "start") /\ ~ scr[Top(t).obj].reloading
  /\ GoOn(t, "flag")

(* The flag is set, and source_path is the path of the script by now. *)
ReloadFlag(t) ==
  /\ Running(t, "reload", "flag")
  /\ LET f == Top(t)
     IN /\ Become(t, [f EXCEPT !.pc = "look", !.path = scr[f.obj].path])
        /\ CommitScripts([scr EXCEPT ![f.obj].reloading = TRUE],
                         shallow_ruzta_cache, full_ruzta_cache)
  /\ UNCHANGED <<files, ret, dependencies>> /\ KeepParsers

(* get_cached_script: is there an object for the path? *)
ReloadLook(t) ==
  /\ Running(t, "reload", "look") /\ MayLock(t)
  /\ GoOn(t, IF CachedScript(Top(t).path) \in Objs THEN "has" ELSE "announce")

(* Mistake: an object the cache does not know was not put into it. *)
AnnouncedIfNever(p, o) == shallow_ruzta_cache

(* The store is unconditional; it relies on the answer of ReloadLook. *)
Announced(p, o) == [shallow_ruzta_cache EXCEPT ![p] = o]

(* An object that is reloaded is in the cache, at least as a shallow one. *)
ReloadAnnounce(t) ==
  /\ Running(t, "reload", "announce") /\ MayLock(t)
  /\ LET f == Top(t)
     IN /\ Become(t, [f EXCEPT !.pc = "has"])
        /\ CommitScripts(scr, Announced(f.path, f.obj), full_ruzta_cache)
  /\ UNCHANGED <<files, ret, dependencies>> /\ KeepParsers

ReloadHas(t) ==
  /\ Running(t, "reload", "has") /\ MayLock(t)
  /\ GoOn(t, IF reg.parser_map[Top(t).path] = Nil THEN "parse" ELSE "get")

(* get_parser, which makes a new reference if the one that was there has   *)
(* gone in the meantime and the file exists.                               *)
ReloadGet(t) ==
  /\ Running(t, "reload", "get") /\ MayLock(t)
  /\ LET f == Top(t)
         p == f.path
         missing == reg.parser_map[p] = Nil /\ disk[p] = Nil
     IN /\ reg.parser_map[p] # Nil \/ missing \/ SpareRef
        /\ IF missing
           THEN /\ Become(t, [f EXCEPT !.pc = "parse"])
                /\ KeepParsers
           ELSE /\ Become(t, [f EXCEPT !.pc = "compare",
                                      !.ref = Answer(reg, p, FreshRef)])
                /\ CommitParsers(GetParser(reg, p, Nil, FreshRef), stage)
  /\ UNCHANGED <<files, ret>> /\ KeepScripts

(* Whether that parser has the text of this script, by their hashes. *)
ReloadCompare(t) ==
  /\ Running(t, "reload", "compare")
  /\ GoOn(t, IF stage[Top(t).ref].tree = scr[Top(t).obj].source
             THEN "release" ELSE "remove")

(* A cached parser of another text than the one of this script goes, with  *)
(* everything analysed against it.                                         *)
ReloadRemove(t) ==
  /\ Running(t, "reload", "remove") /\ MayLock(t)
  /\ Become(t, [Top(t) EXCEPT !.pc = "release"])
  /\ CommitParsers(RemoveParser(reg, Top(t).path), stage)
  /\ UNCHANGED <<files, ret>> /\ KeepScripts

(* The reference get_parser answered leaves its scope. *)
ReloadRelease(t) ==
  /\ Running(t, "reload", "release")
  /\ Become(t, [Top(t) EXCEPT !.pc = "parse", !.ref = Nil])
  /\ UNCHANGED <<files, ret>> /\ KeepParsers /\ KeepScripts

(* The script's own text is parsed, by a parser that is not in the cache. *)
ReloadParse(t) ==
  /\ Running(t, "reload", "parse") /\ SpareRef
  /\ LET f == Top(t)
         s == scr[f.obj]
         parses == s.source.health # "parse_error"
     IN /\ IF parses
           THEN /\ Call(t, [f EXCEPT !.pc = "analyzed", !.ref = FreshRef],
                        RaiseFrame(FreshRef, FULLY_SOLVED))
                /\ UNCHANGED ret
                /\ CommitParsers(
                     [reg EXCEPT !.ref[FreshRef] =
                        [kind |-> "local", path |-> s.path,
                         deps |-> {}, abandoned |-> FALSE]],
                     [stage EXCEPT ![FreshRef] =
                        [NoTree EXCEPT !.status = PARSED, !.tree = s.source]])
           ELSE /\ Return(t, FALSE)
                /\ KeepParsers
        /\ CommitScripts([scr EXCEPT ![f.obj].valid = FALSE,
                                     ![f.obj].initialized = FALSE,
                                     ![f.obj].reloading = parses],
                         shallow_ruzta_cache, full_ruzta_cache)
  /\ UNCHANGED <<files, dependencies>>

(***************************************************************************)
(* The analysis is done.  The compiler asks for the shallow script of the  *)
(* base, makes the object valid and finishes with finish_compiling.        *)
(***************************************************************************)
ReloadCompile(t) ==
  /\ Running(t, "reload", "analyzed") /\ MayLock(t)
  /\ LET f == Top(t)
         p == scr[f.obj].path
         base == scr[f.obj].source.ext
         asks == ret[t] /\ base # Nil
         s == IF asks THEN GetShallowScript(base, reg, stage)
              ELSE [g |-> reg, st |-> stage, scr |-> scr,
                    shallow |-> shallow_ruzta_cache, obj |-> f.obj]
         compiles == ret[t] /\ s.obj \in Objs
     IN /\ (asks /\ ShallowNeedsFresh(base)) => SpareRef /\ SpareObj
        /\ IF compiles
           THEN /\ Call(t, [f EXCEPT !.pc = "compiled"],
                        [Frame("finish") EXCEPT !.path = p])
                /\ UNCHANGED ret
           ELSE Return(t, FALSE)
        /\ CommitParsers(s.g, s.st)
        /\ CommitScripts([s.scr EXCEPT ![f.obj].valid = compiles,
                                       ![f.obj].reloading = compiles],
                         s.shallow, full_ruzta_cache)
        /\ dependencies' = IF asks THEN [dependencies EXCEPT ![p] = @ \cup {base}]
                           ELSE dependencies
  /\ UNCHANGED files

(* Last, the static initializers run and the flag is reset. *)
ReloadReturn(t) ==
  /\ Running(t, "reload", "compiled")
  /\ Return(t, ret[t])
  /\ LET o == Top(t).obj
     IN CommitScripts([scr EXCEPT ![o].reloading = FALSE,
                                  ![o].initialized = ret[t]],
                      shallow_ruzta_cache, full_ruzta_cache)
  /\ UNCHANGED <<files, dependencies>> /\ KeepParsers

-----------------------------------------------------------------------------
(* Mistake: the shallow entry was kept. *)
PromotedIfShallowKept(p, o) ==
  CommitScripts(scr, shallow_ruzta_cache, [full_ruzta_cache EXCEPT ![p] = o])

(* The object of path p goes from the shallow to the full scripts. *)
Promoted(p, o) == CommitScripts(scr, [shallow_ruzta_cache EXCEPT ![p] = Nil],
                                [full_ruzta_cache EXCEPT ![p] = o])

(***************************************************************************)
(* finish_compiling(p): p is full from here on, before the scripts it      *)
(* depends on are compiled, so a cycle ends at p.                          *)
(***************************************************************************)
FinishMark(t) ==
  /\ Running(t, "finish", "start") /\ MayLock(t)
  /\ LET f == Top(t)
         p == f.path
         o == IF CachedScript(p) = Nil THEN Null ELSE CachedScript(p)
     IN /\ Become(t, [f EXCEPT !.pc = "depends", !.todo = dependencies[p]])
        /\ Promoted(p, o)
  /\ UNCHANGED <<files, ret, dependencies>> /\ KeepParsers

FullFrame(p, fromDisk) ==
  [Frame("full") EXCEPT !.path = p, !.fromDisk = fromDisk]

FinishNext(t) ==
  /\ Running(t, "finish", "depends")
  /\ LET f == Top(t)
     IN \E q \in f.todo : Call(t, [f EXCEPT !.pc = "compiling", !.todo = @ \ {q}],
                               FullFrame(q, FALSE))
  /\ UNCHANGED <<files, ret>> /\ KeepParsers /\ KeepScripts

(* Mistake: the wrong outcome was remembered. *)
FinishCompiledIfInverted(t) ==
  /\ Running(t, "finish", "compiling")
  /\ Become(t, [Top(t) EXCEPT !.pc = "depends", !.err = @ \/ ret[t]])
  /\ UNCHANGED <<files, ret>> /\ KeepParsers /\ KeepScripts

(* Mistake: the loop over the dependencies began anew after each of them. *)
FinishCompiledIfRestarted(t) ==
  /\ Running(t, "finish", "compiling")
  /\ Become(t, [Top(t) EXCEPT !.pc = "depends", !.todo = dependencies[Top(t).path]])
  /\ UNCHANGED <<files, ret>> /\ KeepParsers /\ KeepScripts

FinishCompiled(t) ==
  /\ Running(t, "finish", "compiling")
  /\ Become(t, [Top(t) EXCEPT !.pc = "depends", !.err = @ \/ ~ ret[t]])
  /\ UNCHANGED <<files, ret>> /\ KeepParsers /\ KeepScripts

FinishReturn(t) ==
  /\ Running(t, "finish", "depends") /\ Top(t).todo = {}
  /\ Return(t, ~ Top(t).err)
  /\ dependencies' = [dependencies EXCEPT ![Top(t).path] = {}]
  /\ CommitScripts(scr, shallow_ruzta_cache, full_ruzta_cache)
  /\ UNCHANGED files /\ KeepParsers

-----------------------------------------------------------------------------
(***************************************************************************)
(* get_full_script(p, fromDisk).                                           *)
(***************************************************************************)
FullCached(t) ==
  /\ Running(t, "full", "start") /\ MayLock(t)
  /\ full_ruzta_cache[Top(t).path] # Nil
  /\ ~ Top(t).fromDisk \/ full_ruzta_cache[Top(t).path] = Null
  /\ Return(t, TRUE)
  /\ UNCHANGED files /\ KeepParsers /\ KeepScripts

FullReload(t) ==
  /\ Running(t, "full", "start") /\ MayLock(t)
  /\ LET f == Top(t)
         p == f.path
         s == GetShallowScript(p, reg, stage)
         full == full_ruzta_cache[p]
         o == IF full = Nil THEN s.obj ELSE full
         unreadable == f.fromDisk /\ disk[p] = Nil
         updated == IF f.fromDisk THEN [s.scr EXCEPT ![o].source = disk[p]]
                    ELSE s.scr
     IN /\ full = Nil \/ (f.fromDisk /\ full # Null)
        /\ ShallowNeedsFresh(p) => SpareRef /\ SpareObj
        /\ IF o \notin Objs \/ unreadable
           THEN Return(t, FALSE) /\ KeepParsers
                /\ CommitScripts(scr, shallow_ruzta_cache, full_ruzta_cache)
           ELSE /\ Call(t, [f EXCEPT !.pc = "reloaded", !.obj = o], ReloadFrame(o))
                /\ UNCHANGED ret
                /\ CommitParsers(s.g, s.st)
                /\ CommitScripts(updated, s.shallow, full_ruzta_cache)
  /\ UNCHANGED <<files, dependencies>>

FullReturn(t) ==
  /\ Running(t, "full", "reloaded")
  /\ Return(t, ret[t])
  /\ LET f == Top(t)
     IN IF ret[t]
        THEN Promoted(f.path, f.obj)
        ELSE CommitScripts(scr, shallow_ruzta_cache, full_ruzta_cache)
  /\ UNCHANGED <<files, dependencies>> /\ KeepParsers

-----------------------------------------------------------------------------
(***************************************************************************)
(* What happens from outside: a resource is loaded (cache mode ignore      *)
(* reads the file again), an object is hot-reloaded from its file, the     *)
(* editor asks for an analysed parser, a script is removed or moved in the *)
(* cache, a file changes.                                                  *)
(***************************************************************************)
Load(t, p, fromDisk) ==
  /\ Idle(t) /\ Start(t, FullFrame(p, fromDisk))
  /\ UNCHANGED <<disk, ret>> /\ KeepParsers /\ KeepScripts

(* load_source_code, then reload, without the mutex. *)
HotReload(t, o) ==
  /\ Idle(t) /\ scr[o].path # Nil
  /\ Start(t, ReloadFrame(o))
  /\ CommitScripts(IF disk[scr[o].path] = Nil THEN scr
                   ELSE [scr EXCEPT ![o].source = disk[scr[o].path]],
                   shallow_ruzta_cache, full_ruzta_cache)
  /\ UNCHANGED <<disk, ret, dependencies>> /\ KeepParsers

QueryParser(t, p, target) ==
  /\ Idle(t) /\ MayLock(t)
  /\ reg.parser_map[p] # Nil \/ (disk[p] # Nil /\ SpareRef)
  /\ LET d == Answer(reg, p, FreshRef)
     IN stack' = [stack EXCEPT ![t] =
          <<RaiseFrame(d, target), [Frame("query") EXCEPT !.ref = d]>>]
  /\ CommitParsers(GetParser(reg, p, Nil, FreshRef), stage)
  /\ UNCHANGED <<disk, ret>> /\ KeepScripts

QueryReturn(t) ==
  /\ Running(t, "query", "start")
  /\ Return(t, ret[t])
  /\ UNCHANGED files /\ KeepParsers /\ KeepScripts

(* A stage of another thread may be running in a parser that is cleared.   *)
(* The code then runs in a deleted analyzer; the model ends the stage.     *)
Deprived(f, R) ==
  IF f.op = "raise" /\ f.pc = "stage" /\ f.ref \in R
  THEN [f EXCEPT !.pc = "lost", !.todo = {}, !.cur = Nil] ELSE f

RemoveCached(t, p) ==
  /\ Idle(t) /\ MayLock(t) /\ UNCHANGED <<disk, ret>>
  /\ stack' = [u \in Threads |-> [i \in 1..Len(stack[u]) |->
                  Deprived(stack[u][i], ClearedBy(reg, p))]]
  /\ CommitParsers(RemoveScriptParsers(reg, p),
       [r \in RefIds |-> IF r \in ClearedBy(reg, p) THEN NoTree ELSE stage[r]])
  /\ dependencies' = [dependencies EXCEPT ![p] = {}]
  /\ \E k \in SUBSET ({CachedScript(p)} \cap Objs) :
       CommitKeeping(kept \cup k, scr, [shallow_ruzta_cache EXCEPT ![p] = Nil],
                     [full_ruzta_cache EXCEPT ![p] = Nil])

(* Ruzta::set_path of the object cached at from.  An entry of the new path *)
(* stays, unless from has one in the same table; the game may still hold   *)
(* an object that is replaced.                                             *)
MoveCached(t, from, to) ==
  /\ Idle(t) /\ MayLock(t) /\ CachedScript(from) \in Objs /\ from # to
  /\ UNCHANGED <<disk, ret, stack, dependencies>>
  /\ CommitParsers(RemoveParser(reg, from), stage)
  /\ LET moved(m) == [m EXCEPT ![to] = IF m[from] # Nil THEN m[from] ELSE @,
                               ![from] = Nil]
         replaced == {m[to] : m \in {x \in {shallow_ruzta_cache, full_ruzta_cache} :
                                       x[from] # Nil}}
     IN \E k \in SUBSET (replaced \cap Objs) :
          CommitKeeping(kept \cup k, [scr EXCEPT ![CachedScript(from)].path = to],
                        moved(shallow_ruzta_cache), moved(full_ruzta_cache))

EditFile(p, c) ==
  /\ disk[p] # c
  /\ disk' = [disk EXCEPT ![p] = c]
  /\ UNCHANGED <<reg, pins, stage, scripts, stack, ret>>

Step(t) ==
  \/ RaiseStage(t) \/ RaiseVisit(t) \/ RaiseResume(t)
  \/ RaiseEndStage(t) \/ RaiseReturn(t)
  \/ ReloadBusy(t) \/ ReloadFree(t) \/ ReloadFlag(t) \/ ReloadLook(t) \/ ReloadAnnounce(t)
  \/ ReloadHas(t) \/ ReloadGet(t) \/ ReloadCompare(t) \/ ReloadRemove(t) \/ ReloadRelease(t)
  \/ ReloadParse(t) \/ ReloadCompile(t) \/ ReloadReturn(t)
  \/ FinishMark(t) \/ FinishNext(t) \/ FinishCompiled(t) \/ FinishReturn(t)
  \/ FullCached(t) \/ FullReload(t) \/ FullReturn(t)
  \/ QueryReturn(t)

Outside(t) ==
  \/ \E p \in Scripts, fromDisk \in BOOLEAN : Load(t, p, fromDisk)
  \/ \E o \in Objs : HotReload(t, o)
  \/ \E p \in Scripts, target \in {INTERFACE_SOLVED, FULLY_SOLVED} :
       QueryParser(t, p, target)
  \/ \E p \in Scripts : RemoveCached(t, p)
  \/ \E from, to \in Scripts : MoveCached(t, from, to)

CacheInit ==
  /\ Init
  /\ disk \in [Scripts -> Content \cup {Nil}] /\ events = 0 /\ kept = {}
  /\ stage = [r \in RefIds |-> NoTree]
  /\ scr = [o \in Objs |-> NoScript]
  /\ shallow_ruzta_cache = [p \in Scripts |-> Nil]
  /\ full_ruzta_cache = [p \in Scripts |-> Nil]
  /\ dependencies = [p \in Scripts |-> {}]
  /\ stack = [t \in Threads |-> <<>>]
  /\ ret = [t \in Threads |-> TRUE]

(* Every request is over and the bound on them is reached. *)
Finished == events = MaxEvents /\ (\A t \in Threads : Idle(t)) /\ UNCHANGED cvars

CacheNext ==
  \/ \E t \in Threads : Step(t)
  \/ Finished
  \/ /\ events < MaxEvents /\ events' = events + 1
     /\ \/ \E t \in Threads : Outside(t)
        \/ \E p \in Scripts, c \in Content \cup {Nil} : EditFile(p, c)

CacheSafety == CacheInit /\ [][CacheNext]_cvars

AllIdle == \A t \in Threads : Idle(t)

(* While calls are under way one of them goes on: the weak fairness of     *)
(* \E t \in Threads : Step(t), which are the steps that count no event,    *)
(* without ENABLED, for some thread always can (or the run deadlocks).     *)
CallsGoOn == []<>AllIdle \/ []<><<events' = events>>_cvars

CacheSpec == CacheSafety /\ CallsGoOn

-----------------------------------------------------------------------------
(* The tables, statuses and flags hold what the code can put there; no     *)
(* status goes beyond FULLY_SOLVED (ruzta_cache.cpp:81-107).               *)
CacheTypeOK ==
  /\ TypeOK
  /\ disk \in [Scripts -> Content \cup {Nil}] /\ events \in 0..MaxEvents
  /\ kept \subseteq Objs
  /\ stage \in [RefIds -> [status : EMPTY..FULLY_SOLVED, ok : BOOLEAN,
                           tree : Content \cup {EmptySource, Nil},
                           base : RefIds \cup {Nil}]]
  /\ scr \in [Objs -> [path : Scripts \cup {Nil}, source : Content \cup {Nil},
                       valid : BOOLEAN, reloading : BOOLEAN,
                       initialized : BOOLEAN]]
  /\ shallow_ruzta_cache \in [Scripts -> Objs \cup {Nil}]
  /\ full_ruzta_cache \in [Scripts -> Objs \cup {Nil, Null}]
  /\ dependencies \in [Scripts -> SUBSET Scripts]
  /\ ret \in [Threads -> BOOLEAN]

(***************************************************************************)
(* A cycle of scripts never makes the analyzer enter a stage of a parser   *)
(* whose stage is still running further down the same chain of calls: the  *)
(* status is taken before the stage runs (ruzta_cache.cpp:81-101).         *)
(***************************************************************************)
NoStageReentered ==
  \A t \in Threads : \A i, j \in 1..Len(stack[t]) :
    (i < j /\ stack[t][i].op = "raise" /\ stack[t][j].op = "raise"
           /\ stack[t][i].ref = stack[t][j].ref /\ stack[t][j].pc = "stage")
      => stack[t][i].pc = "start"

(***************************************************************************)
(* The base classes the analyzer records never form a loop, however the    *)
(* scripts of a cycle were reached; every loop over base_type.class_type   *)
(* relies on it (ruzta_analyzer.cpp:616-624).                              *)
(***************************************************************************)
NoInheritanceLoop ==
  \A S \in SUBSET Live(reg) : S # {} => \E r \in S : stage[r].base \notin S

ShallowBesideFull(p) ==
  shallow_ruzta_cache[p] # Nil /\ full_ruzta_cache[p] \in Objs

ShallowXorFull == \A p \in Scripts : ~ ShallowBesideFull(p)

(***************************************************************************)
(* A script has one object in the cache: a step never leaves one that is   *)
(* still shallow next to one that is full, unless it moves a script onto a *)
(* path that is in use (ruzta_cache.cpp:165-173), moves two such objects   *)
(* on, or is the store of a reload that another thread may have overtaken  *)
(* since get_cached_script answered it (ruzta.cpp:981-984).                *)
(***************************************************************************)
OneObjectPerPath ==
  [][\A p \in Scripts : ShallowBesideFull(p)' =>
       \/ ShallowBesideFull(p)
       \/ \E t \in Threads, from \in Scripts :
            /\ MoveCached(t, from, p)
            /\ CachedScript(p) # Nil \/ ShallowBesideFull(from)
       \/ \E t, u \in Threads : t # u /\ ReloadAnnounce(t) /\ Top(t).path = p]_cvars

(* finish_compiling never caches a null script, which every later load of  *)
(* the path would be given without an error (ruzta_cache.cpp:407-409).     *)
FullNeverNull == \A p \in Scripts : full_ruzta_cache[p] # Null

FullScriptReady(p) ==
  full_ruzta_cache[p] \in Objs =>
    scr[full_ruzta_cache[p]].valid /\ scr[full_ruzta_cache[p]].initialized

(***************************************************************************)
(* README.md:116, "Full scripts, on the other hand, have been analyzed and *)
(* compiled and are ready to use."                                         *)
(***************************************************************************)
FullScriptsReady == AllIdle => \A p \in Scripts : FullScriptReady(p)

(* The texts of path p the loader may come to use: the file, and what the  *)
(* script and the parsers of p still have of it, maybe an earlier version. *)
Texts(p) ==
  ({disk[p]} \cup {scr[o].source : o \in {x \in Objs : scr[x].path = p}}
     \cup {stage[r].tree : r \in {x \in Live(reg) : reg.ref[x].path = p}}) \ {Nil}

(* Files exist, and their texts have no errors and no cycle of extends.    *)
Healthy ==
  /\ \A p \in Scripts : disk[p] # Nil /\ \A c \in Texts(p) : c.health = "ok"
  /\ \A S \in SUBSET Scripts :
       S # {} => \E p \in S : \A c \in Texts(p) : c.ext \notin S

(***************************************************************************)
(* As long as the texts in play are in order, no script in use is removed  *)
(* or replaced and none moves next to another one, the promise of the      *)
(* README holds whenever no request runs, for scripts that use each other  *)
(* in any cycle (ruzta_cache.cpp:399-424 marks a script full before those  *)
(* it depends on are compiled).  Stated for one thread.                    *)
(***************************************************************************)
HealthyScriptsReady ==
  [](Healthy /\ kept = {} /\ ShallowXorFull) => []FullScriptsReady

(* Every request comes to an end, whatever cycles the scripts form. *)
RequestsEnd == \A t \in Threads : ~ Idle(t) ~> Idle(t)

(***************************************************************************)
(* ruzta_cache.cpp:250, "Can't clear the parser because some other parser  *)
(* might be currently using it in the chain of calls": no parser is        *)
(* cleared while a stage of it runs.                                       *)
(***************************************************************************)
NeverClearedInUse ==
  [][\A t \in Threads : \A i \in 1..Len(stack[t]) :
       stack[t][i].op = "raise" /\ stack[t][i].pc = "stage"
         => stage'[stack[t][i].ref].status >= stage[stack[t][i].ref].status]_cvars

=============================================================================
