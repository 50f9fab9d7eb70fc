----------------------- MODULE RuztaCacheScriptsProofs -----------------------
(***************************************************************************)
(* Proofs about the tables of scripts of RuztaCache: which steps may leave *)
(* a shallow object next to a full one of the same path, that the full     *)
(* table never gets a null reference as long as nothing is removed while a *)
(* request runs, and that full scripts are ready to use, on one thread, as *)
(* long as the texts they come from are in order.                          *)
(***************************************************************************)
EXTENDS RuztaCacheProofs

-----------------------------------------------------------------------------
(***************************************************************************)
(* What a step does to the two tables.                                     *)
(***************************************************************************)
Untouched == UNCHANGED <<shallow_ruzta_cache, full_ruzta_cache>>

Stored(p, o) ==
  /\ shallow_ruzta_cache' = [shallow_ruzta_cache EXCEPT ![p] = o]
  /\ UNCHANGED full_ruzta_cache

Entered(p, o) == CachedScript(p) \notin Objs /\ Stored(p, o)

Filled(p, o) ==
  /\ shallow_ruzta_cache' = [shallow_ruzta_cache EXCEPT ![p] = Nil]
  /\ full_ruzta_cache' = [full_ruzta_cache EXCEPT ![p] = o]

TablesMoved ==
  \/ Untouched
  \/ \E p \in Scripts, o \in Objs : Entered(p, o)
  \/ \E p \in Scripts, o \in Objs \cup {Null} : Filled(p, o)

(* get_shallow_script enters at most the new object.                       *)
LEMMA ShallowEnters ==
  ASSUME Core, NEW p \in Scripts, ShallowNeedsFresh(p) => SpareObj,
         shallow_ruzta_cache' = GetShallowScript(p, reg, stage).shallow,
         UNCHANGED full_ruzta_cache
  PROVE  Untouched \/ \E o \in Objs : Entered(p, o)
<1>1. CASE ~ ShallowNeedsFresh(p)
  BY <1>1 DEF GetShallowScript, Untouched
<1>2. CASE ShallowNeedsFresh(p)
  <2>1. FreshObj \in Objs
    BY <1>2 DEF SpareObj, FreshObj
  <2>2. CachedScript(p) \notin Objs
    BY <1>2, ContentAssumption DEF ShallowNeedsFresh
  <2>3. shallow_ruzta_cache' = [shallow_ruzta_cache EXCEPT ![p] = FreshObj]
    BY <1>2 DEF GetShallowScript
  <2> QED
    BY <2>1, <2>2, <2>3 DEF Entered, Stored
<1> QED
  BY <1>1, <1>2

LEMMA KeepScriptsMoves ==
  ASSUME NEW sc, CommitScripts(sc, shallow_ruzta_cache, full_ruzta_cache)
  PROVE  Untouched
BY DEF CommitScripts, CommitKeeping, Untouched

LEMMA PromotedFills ==
  ASSUME NEW p, NEW o, Promoted(p, o)
  PROVE  Filled(p, o)
BY DEF Promoted, CommitScripts, CommitKeeping, Filled

LEMMA RaiseResumeMoves ==
  ASSUME Core, NEW t \in Threads, RaiseResume(t)
  PROVE  TablesMoved
<1> DEFINE q == Top(t).cur
           s == GetShallowScript(q, reg, stage)
<1>1. q # Nil /\ ~ Idle(t)
  BY DEF RaiseResume, Running
<1>2. q \in Scripts
  BY <1>1, TopSound DEF FrameRecord
<1>3. \/ KeepScripts
      \/ /\ ShallowNeedsFresh(q) => SpareObj
         /\ CommitScripts(s.scr, s.shallow, full_ruzta_cache)
  BY DEF RaiseResume
<1>4. CASE KeepScripts
  BY <1>4, KeepScriptsMoves DEF KeepScripts, TablesMoved
<1>5. CASE /\ ShallowNeedsFresh(q) => SpareObj
           /\ CommitScripts(s.scr, s.shallow, full_ruzta_cache)
  <2>1. shallow_ruzta_cache' = s.shallow /\ UNCHANGED full_ruzta_cache
    BY <1>5 DEF CommitScripts, CommitKeeping
  <2> QED
    BY <1>2, <1>5, <2>1, ShallowEnters DEF TablesMoved
<1> QED
  BY <1>3, <1>4, <1>5

(* The store of a reload asks nothing of the tables.                       *)
LEMMA ReloadAnnounceStores ==
  ASSUME Core, NEW t \in Threads, ReloadAnnounce(t)
  PROVE  /\ Top(t).path \in Scripts /\ Top(t).obj \in Objs
         /\ Stored(Top(t).path, Top(t).obj)
<1>1. ~ Idle(t) /\ Top(t).op = "reload" /\ Top(t).pc = "announce"
  BY DEF ReloadAnnounce, Running
<1>2. Top(t).path \in Scripts /\ Top(t).obj \in Objs
  BY <1>1, ReloadFacts DEF Checking
<1>3. CommitScripts(scr, Announced(Top(t).path, Top(t).obj), full_ruzta_cache)
  BY DEF ReloadAnnounce
<1> QED
  BY <1>2, <1>3 DEF CommitScripts, CommitKeeping, Announced, Stored

LEMMA ReloadCompileMoves ==
  ASSUME Core, NEW t \in Threads, ReloadCompile(t)
  PROVE  TablesMoved
<1> DEFINE o == Top(t).obj
           base == scr[o].source.ext
           asks == ret[t] /\ base # Nil
           s == GetShallowScript(base, reg, stage)
<1>1. ~ Idle(t) /\ Top(t).op = "reload"
  BY DEF ReloadCompile, Running
<1>2. asks => base \in Scripts
  BY <1>1, ReloadFacts, ScriptFacts, TreesTyped
<1>3. /\ asks /\ ShallowNeedsFresh(base) => SpareObj
      /\ UNCHANGED full_ruzta_cache
      /\ shallow_ruzta_cache' = IF asks THEN s.shallow ELSE shallow_ruzta_cache
  BY DEF ReloadCompile, CommitScripts, CommitKeeping
<1>4. CASE asks
  BY <1>2, <1>3, <1>4, ShallowEnters DEF TablesMoved
<1>5. CASE ~ asks
  BY <1>3, <1>5 DEF Untouched, TablesMoved
<1> QED
  BY <1>4, <1>5

LEMMA FullReloadMoves ==
  ASSUME Core, NEW t \in Threads, FullReload(t)
  PROVE  TablesMoved
<1> DEFINE p == Top(t).path
           s == GetShallowScript(p, reg, stage)
<1>1. ~ Idle(t) /\ Top(t).op = "full" /\ UNCHANGED full_ruzta_cache
      /\ (ShallowNeedsFresh(p) => SpareObj)
      /\ shallow_ruzta_cache' \in {s.shallow, shallow_ruzta_cache}
  BY DEF FullReload, Running, CommitScripts, CommitKeeping
<1>2. p \in Scripts
  BY <1>1, PathFacts
<1> QED
  BY <1>1, <1>2, ShallowEnters DEF Untouched, TablesMoved

LEMMA FinishMarkMoves ==
  ASSUME Core, NEW t \in Threads, FinishMark(t)
  PROVE  TablesMoved
<1> DEFINE p == Top(t).path
           o == IF CachedScript(p) = Nil THEN Null ELSE CachedScript(p)
<1>1. ~ Idle(t) /\ Top(t).op = "finish" /\ Promoted(p, o)
  BY DEF FinishMark, Running
<1>2. p \in Scripts
  BY <1>1, PathFacts
<1>3. o \in Objs \cup {Null}
  BY <1>2, CoreFacts DEF CachedScript, ScriptsSound
<1> QED
  BY <1>1, <1>2, <1>3, PromotedFills DEF TablesMoved

LEMMA FullReturnMoves ==
  ASSUME Core, NEW t \in Threads, FullReturn(t)
  PROVE  TablesMoved
<1> DEFINE f == Top(t)
<1>1. /\ ~ Idle(t) /\ f.op = "full" /\ f.pc = "reloaded"
      /\ IF ret[t] THEN Promoted(f.path, f.obj)
         ELSE CommitScripts(scr, shallow_ruzta_cache, full_ruzta_cache)
  BY DEF FullReturn, Running
<1>2. f.path \in Scripts /\ f.obj \in Objs
  BY <1>1, PathFacts DEF FrameSound, FrameRecord
<1> QED
  BY <1>1, <1>2, PromotedFills, KeepScriptsMoves DEF TablesMoved

LEMMA StepMoves ==
  ASSUME Core, NEW t \in Threads, Step(t)
  PROVE  TablesMoved \/ ReloadAnnounce(t)
<1>1. CASE RaiseStage(t) \/ RaiseVisit(t) \/ RaiseEndStage(t) \/ RaiseReturn(t)
  <2>1. \E sc \in {scr} : CommitScripts(sc, shallow_ruzta_cache, full_ruzta_cache)
    BY <1>1 DEF RaiseStage, RaiseVisit, RaiseEndStage, RaiseReturn, KeepScripts
  <2> QED
    BY <2>1, KeepScriptsMoves DEF TablesMoved
<1>2. CASE ReloadBusy(t) \/ FinishNext(t) \/ FinishCompiled(t) \/ FinishReturn(t)
           \/ FullCached(t) \/ QueryReturn(t)
  <2>1. CommitScripts(scr, shallow_ruzta_cache, full_ruzta_cache)
    BY <1>2 DEF ReloadBusy, FinishNext, FinishCompiled, FinishReturn, FullCached,
                QueryReturn, KeepScripts
  <2> QED
    BY <2>1, KeepScriptsMoves DEF TablesMoved
<1>3. CASE ReloadParse(t) \/ ReloadReturn(t) \/ ReloadFlag(t)
  BY <1>3 DEF ReloadParse, ReloadReturn, ReloadFlag, CommitScripts, CommitKeeping,
              Untouched, TablesMoved
<1>4. CASE ReloadFree(t) \/ ReloadLook(t) \/ ReloadHas(t) \/ ReloadGet(t)
           \/ ReloadCompare(t) \/ ReloadRemove(t) \/ ReloadRelease(t)
  <2>1. CommitScripts(scr, shallow_ruzta_cache, full_ruzta_cache)
    BY <1>4 DEF ReloadFree, ReloadLook, ReloadHas, ReloadGet, ReloadCompare,
                ReloadRemove, ReloadRelease, GoOn, KeepScripts
  <2> QED
    BY <2>1, KeepScriptsMoves DEF TablesMoved
<1> QED
  BY <1>1, <1>2, <1>3, <1>4, RaiseResumeMoves, ReloadCompileMoves,
     FullReloadMoves, FinishMarkMoves, FullReturnMoves DEF Step

-----------------------------------------------------------------------------
(***************************************************************************)
(* The activations after a step.                                           *)
(***************************************************************************)
(* Every frame was there before or is one of F.                            *)
NewFrames(F) ==
  \A u \in Threads : \A i \in 1..Len(stack'[u]) :
    stack'[u][i] \in F \/ \E j \in 1..Len(stack[u]) : stack'[u][i] = stack[u][j]

(* The frames of a step.                                                   *)
LEMMA WiderSeq ==
  ASSUME NEW S, NEW s \in Seq(S), NEW T, S \subseteq T
  PROVE  s \in Seq(T)
<1>1. Len(s) \in Nat /\ \A i \in 1..Len(s) : s[i] \in T
  BY ElementOfSeq
<1> QED
  BY <1>1

LEMMA BecomesAt ==
  ASSUME Core, NEW t \in Threads, ~ Idle(t), NEW f, Become(t, f)
  PROVE  /\ Len(stack[t]) \in Nat \ {0} /\ Len(stack'[t]) = Len(stack[t])
         /\ stack'[t][1] = f /\ \A i \in 2..Len(stack[t]) : stack'[t][i] = stack[t][i]
         /\ \A u \in Threads \ {t} : stack'[u] = stack[u]
<1> DEFINE S == FrameRecord \cup {f}
           n == <<f>> \o Tail(stack[t])
<1>1. stack' = [stack EXCEPT ![t] = n] /\ stack \in [Threads -> Seq(FrameRecord)]
  BY CoreFacts DEF Become
<1>2. stack[t] \in Seq(S) /\ stack[t] # <<>> /\ f \in S
  BY TopSound, WiderSeq
<1> HIDE DEF S
<1>3. /\ Len(stack[t]) \in Nat \ {0} /\ Len(n) = Len(stack[t])
      /\ n[1] = f /\ \A i \in 2..Len(stack[t]) : n[i] = stack[t][i]
  BY <1>2, TopReplaced
<1> HIDE DEF n
<1> QED
  BY <1>1, <1>3

LEMMA BecomesNew ==
  ASSUME Core, NEW t \in Threads, ~ Idle(t), NEW f, Become(t, f)
  PROVE  NewFrames({f})
<1>1. /\ Len(stack[t]) \in Nat \ {0} /\ Len(stack'[t]) = Len(stack[t])
      /\ stack'[t][1] = f /\ \A i \in 2..Len(stack[t]) : stack'[t][i] = stack[t][i]
      /\ \A u \in Threads \ {t} : stack'[u] = stack[u]
  BY BecomesAt
<1>2. \A i \in 1..Len(stack'[t]) :
        stack'[t][i] \in {f} \/ \E j \in 1..Len(stack[t]) : stack'[t][i] = stack[t][j]
  <2> TAKE i \in 1..Len(stack'[t])
  <2>1. i = 1 \/ (i \in 2..Len(stack[t]) /\ i \in 1..Len(stack[t]))
    BY <1>1
  <2> QED
    BY <1>1, <2>1
<1> QED
  BY <1>1, <1>2 DEF NewFrames

LEMMA CallsNew ==
  ASSUME Core, NEW t \in Threads, ~ Idle(t), NEW f, NEW e, Call(t, f, e)
  PROVE  NewFrames({f, e})
<1> DEFINE S == FrameRecord \cup {f, e}
           m == <<f>> \o Tail(stack[t])
           n == <<e>> \o m
<1>1. stack[t] \in Seq(S) /\ stack[t] # <<>> /\ f \in S /\ e \in S
  BY TopSound, WiderSeq
<1> HIDE DEF S
<1>2. Tail(stack[t]) \in Seq(S)
  BY <1>1, TakenOff
<1>3. <<e, f>> \o Tail(stack[t]) = n
  BY <1>1, <1>2, TwoOnTop
<1>4. stack' = [stack EXCEPT ![t] = n] /\ stack \in [Threads -> Seq(FrameRecord)]
  BY <1>3, CoreFacts DEF Call
<1>5. /\ m \in Seq(S) /\ Len(m) = Len(stack[t]) /\ m[1] = f
      /\ \A i \in 2..Len(stack[t]) : m[i] = stack[t][i]
  BY <1>1, TopReplaced
<1> HIDE DEF m
<1>6. /\ Len(n) = Len(m) + 1 /\ n[1] = e
      /\ \A j \in 1..Len(m) + 1 : j # 1 => j - 1 \in 1..Len(m) /\ n[j] = m[j - 1]
  BY <1>1, <1>5, PutOnTop
<1> HIDE DEF n
<1>7. Len(stack[t]) \in Nat
  BY <1>1
<1>8. \A i \in 1..Len(n) : n[i] \in {e, f} \/ \E j \in 1..Len(stack[t]) : n[i] = stack[t][j]
  <2> TAKE i \in 1..Len(n)
  <2>1. CASE i = 1
    BY <1>6, <2>1
  <2>2. CASE i = 2
    BY <1>5, <1>6, <1>7, <2>2
  <2>3. CASE i # 1 /\ i # 2
    <3>1. i - 1 \in 2..Len(stack[t]) /\ i - 1 \in 1..Len(stack[t]) /\ n[i] = m[i - 1]
      BY <1>5, <1>6, <1>7, <2>3
    <3> QED
      BY <1>5, <3>1
  <2> QED
    BY <2>1, <2>2, <2>3
<1> QED
  BY <1>4, <1>8 DEF NewFrames

LEMMA ReturnsNew ==
  ASSUME Core, NEW t \in Threads, ~ Idle(t), NEW ok, Return(t, ok)
  PROVE  NewFrames({})
<1> DEFINE n == Tail(stack[t])
<1>1. stack' = [stack EXCEPT ![t] = n] /\ stack \in [Threads -> Seq(FrameRecord)]
  BY CoreFacts DEF Return
<1>2. stack[t] \in Seq(FrameRecord) /\ stack[t] # <<>>
  BY TopSound
<1>3. /\ Len(n) = Len(stack[t]) - 1
      /\ \A i \in 1..Len(stack[t]) - 1 : i + 1 \in 1..Len(stack[t]) /\ n[i] = stack[t][i + 1]
  BY <1>2, TakenOff
<1> HIDE DEF n
<1>4. \A i \in 1..Len(n) : \E j \in 1..Len(stack[t]) : n[i] = stack[t][j]
  BY <1>3
<1> QED
  BY <1>1, <1>4 DEF NewFrames

LEMMA StartsNew ==
  ASSUME Core, NEW t \in Threads, NEW f, Start(t, f)
  PROVE  NewFrames({f})
<1>1. stack' = [stack EXCEPT ![t] = <<f>>] /\ stack \in [Threads -> Seq(FrameRecord)]
  BY CoreFacts DEF Start
<1>2. Len(<<f>>) = 1 /\ <<f>>[1] = f
  OBVIOUS
<1> QED
  BY <1>1, <1>2 DEF NewFrames

(* A frame that asks for no entry and puts none in. *)
Silent(f) == f.op # "finish" /\ (f.op = "reload" => f.pc \in {"start", "flag"})

(* New frames that ask for no entry.                                       *)
Quietly == \A u \in Threads : \A i \in 1..Len(stack'[u]) :
  Silent(stack'[u][i]) \/ \E j \in 1..Len(stack[u]) : stack'[u][i] = stack[u][j]

LEMMA QuietFrames ==
  ASSUME NEW F, NewFrames(F), \A f \in F : Silent(f)
  PROVE  Quietly
BY DEF NewFrames, Quietly

LEMMA QuietBecome ==
  ASSUME Core, NEW t \in Threads, ~ Idle(t), NEW f, Become(t, f), Silent(f)
  PROVE  Quietly
<1>1. NewFrames({f})
  BY BecomesNew
<1> QED
  BY <1>1, QuietFrames

LEMMA QuietCall ==
  ASSUME Core, NEW t \in Threads, ~ Idle(t), NEW f, NEW e, Call(t, f, e),
         Silent(f), Silent(e)
  PROVE  Quietly
<1>1. NewFrames({f, e})
  BY CallsNew
<1> QED
  BY <1>1, QuietFrames

LEMMA QuietReturn ==
  ASSUME Core, NEW t \in Threads, ~ Idle(t), NEW ok, Return(t, ok)
  PROVE  Quietly
<1>1. NewFrames({})
  BY ReturnsNew
<1> QED
  BY <1>1, QuietFrames

LEMMA QuietStart ==
  ASSUME Core, NEW t \in Threads, NEW f, Start(t, f), Silent(f)
  PROVE  Quietly
<1>1. NewFrames({f})
  BY StartsNew
<1> QED
  BY <1>1, QuietFrames

(* The stages of an analysis.                                              *)
LEMMA RaiseQuiet ==
  ASSUME Core, NEW t \in Threads,
         RaiseStage(t) \/ RaiseVisit(t) \/ RaiseResume(t) \/ RaiseEndStage(t)
           \/ RaiseReturn(t)
  PROVE  Quietly
<1> DEFINE f == Top(t)
<1>1. ~ Idle(t) /\ f \in FrameRecord /\ f.op = "raise"
  <2>1. ~ Idle(t) /\ f.op = "raise"
    BY DEF RaiseStage, RaiseVisit, RaiseResume, RaiseEndStage, RaiseReturn, Running
  <2> QED
    BY <2>1, TopSound
<1>2. CASE RaiseStage(t)
  <2> DEFINE s == stage[f.ref]
             now == s.status + 1
             bad == now = FULLY_SOLVED /\ s.tree.health = "body_error"
             h == [f EXCEPT !.pc = "stage", !.err = bad,
                            !.todo = Wanted(s.tree, now, reg.ref[f.ref].path)]
  <2>1. Become(t, f) \/ Become(t, h)
    BY <1>2 DEF RaiseStage
  <2>2. Silent(f) /\ Silent(h)
    BY <1>1 DEF Silent, FrameRecord
  <2> HIDE DEF f, h
  <2> QED
    BY <1>1, <2>1, <2>2, QuietBecome
<1>3. CASE RaiseVisit(t)
  <2>1. PICK q : \E d :
          \/ Become(t, [[f EXCEPT !.cur = q, !.todo = @ \ {q}]
                            EXCEPT !.cur = Nil, !.err = TRUE])
          \/ Call(t, [f EXCEPT !.cur = q, !.todo = @ \ {q}],
                  RaiseFrame(d, INHERITANCE_SOLVED))
    BY <1>3 DEF RaiseVisit
  <2> DEFINE h == [f EXCEPT !.cur = q, !.todo = @ \ {q}]
             b == [h EXCEPT !.cur = Nil, !.err = TRUE]
  <2>2. PICK d : Become(t, b) \/ Call(t, h, RaiseFrame(d, INHERITANCE_SOLVED))
    BY <2>1
  <2> DEFINE e == RaiseFrame(d, INHERITANCE_SOLVED)
  <2>3. h.op = "raise" /\ b.op = "raise"
    BY <1>1 DEF FrameRecord
  <2>4. e.op = "raise"
    BY DEF RaiseFrame, Frame
  <2>5. Silent(h) /\ Silent(b) /\ Silent(e)
    BY <2>3, <2>4 DEF Silent
  <2> HIDE DEF h, b, e
  <2>6. CASE Become(t, b)
    BY <1>1, <2>5, <2>6, QuietBecome
  <2>7. CASE Call(t, h, e)
    BY <1>1, <2>5, <2>7, QuietCall
  <2> QED
    BY <2>2, <2>6, <2>7 DEF e
<1>4. CASE RaiseResume(t)
  <2>1. PICK x : Become(t, [f EXCEPT !.cur = Nil, !.err = @ \/ x])
    BY <1>4 DEF RaiseResume
  <2> DEFINE h == [f EXCEPT !.cur = Nil, !.err = @ \/ x]
  <2>2. Silent(h)
    BY <1>1 DEF Silent, FrameRecord
  <2>3. Become(t, h)
    BY <2>1
  <2> HIDE DEF h
  <2> QED
    BY <1>1, <2>2, <2>3, QuietBecome
<1>5. CASE RaiseEndStage(t)
  <2> DEFINE h == [f EXCEPT !.pc = "start", !.err = FALSE]
  <2>1. Become(t, h)
    BY <1>5 DEF RaiseEndStage
  <2>2. Silent(h)
    BY <1>1 DEF Silent, FrameRecord
  <2> HIDE DEF h
  <2> QED
    BY <1>1, <2>1, <2>2, QuietBecome
<1>6. CASE RaiseReturn(t)
  <2>1. PICK ok : Return(t, ok)
    BY <1>6 DEF RaiseReturn
  <2> QED
    BY <1>1, <2>1, QuietReturn
<1> QED
  BY <1>2, <1>3, <1>4, <1>5, <1>6

(* The requests.                                                           *)
LEMMA RequestQuiet ==
  ASSUME Core, NEW t \in Threads,
         \/ \E p \in Scripts, fromDisk \in BOOLEAN : Load(t, p, fromDisk)
         \/ \E o \in Objs : HotReload(t, o)
         \/ \E p \in Scripts, target \in {INTERFACE_SOLVED, FULLY_SOLVED} :
              QueryParser(t, p, target)
  PROVE  Quietly
<1>1. ASSUME NEW p \in Scripts, NEW fromDisk \in BOOLEAN, Load(t, p, fromDisk)
      PROVE  Quietly
  <2> DEFINE e == FullFrame(p, fromDisk)
  <2>1. Start(t, e)
    BY <1>1 DEF Load
  <2>2. Silent(e)
    BY DEF Silent, FullFrame, Frame
  <2> HIDE DEF e
  <2> QED
    BY <2>1, <2>2, QuietStart
<1>2. ASSUME NEW o \in Objs, HotReload(t, o)
      PROVE  Quietly
  <2> DEFINE e == ReloadFrame(o)
  <2>1. Start(t, e)
    BY <1>2 DEF HotReload
  <2>2. Silent(e)
    BY DEF Silent, ReloadFrame, Frame
  <2> HIDE DEF e
  <2> QED
    BY <2>1, <2>2, QuietStart
<1>3. ASSUME NEW p \in Scripts, NEW target, QueryParser(t, p, target)
      PROVE  Quietly
  <2> DEFINE d == Answer(reg, p, FreshRef)
             e == RaiseFrame(d, target)
             q == [Frame("query") EXCEPT !.ref = d]
  <2>1. stack' = [stack EXCEPT ![t] = <<e, q>>]
    BY <1>3 DEF QueryParser
  <2>2. Silent(e) /\ Silent(q)
    BY DEF Silent, RaiseFrame, Frame
  <2> HIDE DEF d, e, q
  <2>3. Len(<<e, q>>) = 2 /\ <<e, q>>[1] = e /\ <<e, q>>[2] = q
    OBVIOUS
  <2> QED
    BY <2>1, <2>2, <2>3, CoreFacts DEF Quietly
<1> QED
  BY <1>1, <1>2, <1>3

(* Nothing is cleared under a stage when no request runs.                  *)
LEMMA RemovedIdle ==
  ASSUME AllIdle, NEW t \in Threads, NEW p \in Scripts, RemoveCached(t, p)
  PROVE  \A u \in Threads : 1..Len(stack'[u]) = {}
<1>1. \A u \in Threads : Len(stack[u]) = 0
  BY DEF AllIdle, Idle
<1>2. stack' = [u \in Threads |-> [i \in 1..Len(stack[u]) |->
                  Deprived(stack[u][i], ClearedBy(reg, p))]]
  BY DEF RemoveCached
<1>3. TAKE u \in Threads
<1>4. stack'[u] = [i \in 1..0 |-> Deprived(stack[u][i], ClearedBy(reg, p))]
  BY <1>1, <1>2
<1>5. stack'[u] = << >>
  BY <1>4
<1> QED
  BY <1>5

-----------------------------------------------------------------------------
(***************************************************************************)
(* One object for each path.  The store of a reload is unconditional: that *)
(* it meets no full object is known on one thread only, on which nothing   *)
(* happens between the look for a cached object and the store.             *)
(***************************************************************************)
Announces(f) == f.op = "reload" /\ f.pc = "announce"

AnnounceSound ==
  \A u \in Threads : \A i \in 1..Len(stack[u]) : Announces(stack[u][i]) =>
    i = 1 /\ CachedScript(stack[u][i].path) \notin Objs

(* No activation is new at the store.                                      *)
PlainFrames ==
  \A u \in Threads : \A i \in 1..Len(stack'[u]) :
    ~ Announces(stack'[u][i]) \/ \E j \in 1..Len(stack[u]) : stack'[u][i] = stack[u][j]

LEMMA QuietPlain ==
  ASSUME Quietly
  PROVE  PlainFrames
BY DEF Quietly, PlainFrames, Silent, Announces

LEMMA PlainStep ==
  ASSUME Core, NEW t \in Threads, ~ Idle(t), NEW f, NEW e,
         ~ Announces(f), ~ Announces(e),
         Become(t, f) \/ Call(t, f, e) \/ \E ok : Return(t, ok)
  PROVE  PlainFrames
<1>1. NewFrames({f, e})
  <2>1. CASE Become(t, f)
    <3>1. NewFrames({f})
      BY <2>1, BecomesNew
    <3> QED
      BY <3>1 DEF NewFrames
  <2>2. CASE Call(t, f, e)
    BY <2>2, CallsNew
  <2>3. ASSUME NEW ok, Return(t, ok) PROVE NewFrames({f, e})
    <3>1. NewFrames({})
      BY <2>3, ReturnsNew
    <3> QED
      BY <3>1 DEF NewFrames
  <2> QED
    BY <2>1, <2>2, <2>3
<1> QED
  BY <1>1 DEF NewFrames, PlainFrames

LEMMA ReloadPlain ==
  ASSUME Core, NEW t \in Threads,
         \/ ReloadFree(t) \/ ReloadFlag(t) \/ ReloadAnnounce(t) \/ ReloadHas(t)
         \/ ReloadGet(t) \/ ReloadCompare(t) \/ ReloadRemove(t) \/ ReloadRelease(t)
         \/ ReloadParse(t) \/ ReloadCompile(t)
  PROVE  PlainFrames
<1> DEFINE f == Top(t)
<1>1. ~ Idle(t) /\ f.op = "reload"
  BY DEF ReloadFree, ReloadFlag, ReloadAnnounce, ReloadHas, ReloadGet, ReloadCompare,
         ReloadRemove, ReloadRelease, ReloadParse, ReloadCompile, Running
<1>2. f \in FrameRecord
  BY <1>1, ReloadFacts
<1>3. CASE ReloadFree(t) \/ ReloadHas(t) \/ ReloadCompare(t)
  <2>1. PICK pc \in {"flag", "parse", "get", "release", "remove"} :
          Become(t, [f EXCEPT !.pc = pc])
    BY <1>3 DEF ReloadFree, ReloadHas, ReloadCompare, GoOn
  <2> DEFINE h == [f EXCEPT !.pc = pc]
  <2>2. Become(t, h) /\ ~ Announces(h)
    BY <1>2, <2>1 DEF Announces, FrameRecord
  <2> HIDE DEF h
  <2> QED
    BY <1>1, <2>2, PlainStep
<1>4. CASE ReloadFlag(t)
  <2> DEFINE h == [f EXCEPT !.pc = "look", !.path = scr[f.obj].path]
  <2>1. Become(t, h) /\ ~ Announces(h)
    BY <1>2, <1>4 DEF ReloadFlag, Announces, FrameRecord
  <2> HIDE DEF h
  <2> QED
    BY <1>1, <2>1, PlainStep
<1>5. CASE ReloadAnnounce(t) \/ ReloadRemove(t)
  <2>1. PICK pc \in {"has", "release"} : Become(t, [f EXCEPT !.pc = pc])
    BY <1>5 DEF ReloadAnnounce, ReloadRemove
  <2> DEFINE h == [f EXCEPT !.pc = pc]
  <2>2. Become(t, h) /\ ~ Announces(h)
    BY <1>2, <2>1 DEF Announces, FrameRecord
  <2> HIDE DEF h
  <2> QED
    BY <1>1, <2>2, PlainStep
<1>6. CASE ReloadGet(t) \/ ReloadRelease(t)
  <2>1. PICK r : \/ Become(t, [f EXCEPT !.pc = "parse"])
                 \/ Become(t, [f EXCEPT !.pc = "compare", !.ref = r])
                 \/ Become(t, [f EXCEPT !.pc = "parse", !.ref = Nil])
    BY <1>6 DEF ReloadGet, ReloadRelease
  <2> DEFINE a == [f EXCEPT !.pc = "parse"]
             b == [f EXCEPT !.pc = "compare", !.ref = r]
             c == [f EXCEPT !.pc = "parse", !.ref = Nil]
  <2>2. Become(t, a) \/ Become(t, b) \/ Become(t, c)
    BY <2>1
  <2>3. ~ Announces(a) /\ ~ Announces(b) /\ ~ Announces(c)
    BY <1>2 DEF Announces, FrameRecord
  <2> HIDE DEF a, b, c
  <2> QED
    BY <1>1, <2>2, <2>3, PlainStep
<1>7. CASE ReloadParse(t)
  <2> DEFINE h == [f EXCEPT !.pc = "analyzed", !.ref = FreshRef]
             e == RaiseFrame(FreshRef, FULLY_SOLVED)
  <2>1. Call(t, h, e) \/ Return(t, FALSE)
    BY <1>7 DEF ReloadParse
  <2>2. ~ Announces(h) /\ ~ Announces(e)
    BY <1>2 DEF Announces, FrameRecord, RaiseFrame, Frame
  <2> HIDE DEF h, e
  <2> QED
    BY <1>1, <2>1, <2>2, PlainStep
<1>8. CASE ReloadCompile(t)
  <2> DEFINE h == [f EXCEPT !.pc = "compiled"]
             e == [Frame("finish") EXCEPT !.path = scr[f.obj].path]
  <2>1. Call(t, h, e) \/ Return(t, FALSE)
    BY <1>8 DEF ReloadCompile
  <2>2. ~ Announces(h) /\ ~ Announces(e)
    BY <1>2 DEF Announces, FrameRecord, Frame
  <2> HIDE DEF h, e
  <2> QED
    BY <1>1, <2>1, <2>2, PlainStep
<1> QED
  BY <1>3, <1>4, <1>5, <1>6, <1>7, <1>8

LEMMA FinishPlain ==
  ASSUME Core, NEW t \in Threads,
         FinishMark(t) \/ FinishNext(t) \/ FinishCompiled(t) \/ FullReload(t)
  PROVE  PlainFrames
<1> DEFINE f == Top(t)
<1>1. ~ Idle(t) /\ f.op \in {"finish", "full"}
  BY DEF FinishMark, FinishNext, FinishCompiled, FullReload, Running
<1>2. f \in FrameRecord
  BY <1>1, TopSound
<1>3. CASE FinishMark(t)
  <2> DEFINE h == [f EXCEPT !.pc = "depends", !.todo = dependencies[f.path]]
  <2>1. Become(t, h) /\ ~ Announces(h)
    BY <1>2, <1>3 DEF FinishMark, Announces, FrameRecord
  <2> HIDE DEF h
  <2> QED
    BY <1>1, <2>1, PlainStep
<1>4. CASE FinishNext(t)
  <2>1. PICK q : Call(t, [f EXCEPT !.pc = "compiling", !.todo = @ \ {q}], FullFrame(q, FALSE))
    BY <1>4 DEF FinishNext
  <2> DEFINE h == [f EXCEPT !.pc = "compiling", !.todo = @ \ {q}]
             e == FullFrame(q, FALSE)
  <2>2. Call(t, h, e) /\ ~ Announces(h) /\ ~ Announces(e)
    BY <1>2, <2>1 DEF Announces, FrameRecord, FullFrame, Frame
  <2> HIDE DEF h, e
  <2> QED
    BY <1>1, <2>2, PlainStep
<1>5. CASE FinishCompiled(t)
  <2> DEFINE h == [f EXCEPT !.pc = "depends", !.err = @ \/ ~ ret[t]]
  <2>1. Become(t, h) /\ ~ Announces(h)
    BY <1>2, <1>5 DEF FinishCompiled, Announces, FrameRecord
  <2> HIDE DEF h
  <2> QED
    BY <1>1, <2>1, PlainStep
<1>6. CASE FullReload(t)
  <2>1. PICK o : Call(t, [f EXCEPT !.pc = "reloaded", !.obj = o], ReloadFrame(o))
                 \/ Return(t, FALSE)
    BY <1>6 DEF FullReload
  <2> DEFINE h == [f EXCEPT !.pc = "reloaded", !.obj = o]
             e == ReloadFrame(o)
  <2>2. ~ Announces(h) /\ ~ Announces(e)
    BY <1>2 DEF Announces, FrameRecord, ReloadFrame, Frame
  <2>3. Call(t, h, e) \/ Return(t, FALSE)
    BY <2>1
  <2> HIDE DEF h, e
  <2> QED
    BY <1>1, <2>2, <2>3, PlainStep
<1> QED
  BY <1>3, <1>4, <1>5, <1>6

LEMMA StepPlain ==
  ASSUME Core, NEW t \in Threads, Step(t), ~ ReloadLook(t)
  PROVE  PlainFrames
<1>1. CASE RaiseStage(t) \/ RaiseVisit(t) \/ RaiseResume(t) \/ RaiseEndStage(t)
             \/ RaiseReturn(t)
  BY <1>1, RaiseQuiet, QuietPlain
<1>2. CASE ReloadBusy(t) \/ ReloadReturn(t) \/ FinishReturn(t) \/ FullCached(t)
             \/ FullReturn(t) \/ QueryReturn(t)
  <2>1. ~ Idle(t) /\ \E ok : Return(t, ok)
    BY <1>2 DEF ReloadBusy, ReloadReturn, FinishReturn, FullCached, FullReturn,
                QueryReturn, Running
  <2>2. Quietly
    BY <2>1, QuietReturn
  <2> QED
    BY <2>2, QuietPlain
<1> QED
  BY <1>1, <1>2, ReloadPlain, FinishPlain DEF Step

(* At the store, a reload can do nothing else.                             *)
LEMMA OnlyAnnounces ==
  ASSUME NEW t \in Threads, Step(t), ~ Idle(t), Announces(Top(t))
  PROVE  ReloadAnnounce(t)
<1>1. Top(t).op = "reload" /\ Top(t).pc = "announce"
  BY DEF Announces
<1>2. ~ (RaiseStage(t) \/ RaiseVisit(t) \/ RaiseResume(t) \/ RaiseEndStage(t)
           \/ RaiseReturn(t))
  BY <1>1 DEF RaiseStage, RaiseVisit, RaiseResume, RaiseEndStage, RaiseReturn, Running
<1>3. ~ (ReloadBusy(t) \/ ReloadFree(t) \/ ReloadFlag(t) \/ ReloadLook(t) \/ ReloadHas(t)
           \/ ReloadGet(t) \/ ReloadCompare(t) \/ ReloadRemove(t) \/ ReloadRelease(t))
  BY <1>1 DEF ReloadBusy, ReloadFree, ReloadFlag, ReloadLook, ReloadHas, ReloadGet,
              ReloadCompare, ReloadRemove, ReloadRelease, Running
<1>4. ~ (ReloadParse(t) \/ ReloadCompile(t) \/ ReloadReturn(t) \/ FullCached(t)
           \/ FullReload(t) \/ FullReturn(t) \/ QueryReturn(t))
  BY <1>1 DEF ReloadParse, ReloadCompile, ReloadReturn, FullCached, FullReload,
              FullReturn, QueryReturn, Running
<1>5. ~ (FinishMark(t) \/ FinishNext(t) \/ FinishCompiled(t) \/ FinishReturn(t))
  BY <1>1 DEF FinishMark, FinishNext, FinishCompiled, FinishReturn, Running
<1> QED
  BY <1>2, <1>3, <1>4, <1>5 DEF Step

(* As long as no activation is at the store, the next step finds none.     *)
LEMMA NonePlain ==
  ASSUME PlainFrames, \A u \in Threads : \A i \in 1..Len(stack[u]) : ~ Announces(stack[u][i])
  PROVE  AnnounceSound'
BY DEF PlainFrames, AnnounceSound

Alone == \A u, v \in Threads : u = v

LEMMA StepAnnounces ==
  ASSUME Alone, Core, AnnounceSound, NEW t \in Threads, Step(t)
  PROVE  AnnounceSound'
<1>1. \A u \in Threads : u = t
  BY DEF Alone
<1>2. CASE ~ Idle(t) /\ Announces(Top(t))
  <2> DEFINE h == [Top(t) EXCEPT !.pc = "has"]
  <2>1. Become(t, h)
    BY <1>2, OnlyAnnounces DEF ReloadAnnounce
  <2>2. ~ Announces(h)
    BY <1>2, TopSound DEF Announces, FrameRecord
  <2> HIDE DEF h
  <2>3. /\ Len(stack[t]) \in Nat \ {0} /\ Len(stack'[t]) = Len(stack[t])
        /\ stack'[t][1] = h /\ \A i \in 2..Len(stack[t]) : stack'[t][i] = stack[t][i]
    BY <1>2, <2>1, BecomesAt
  <2>4. \A i \in 1..Len(stack'[t]) : ~ Announces(stack'[t][i])
    <3> TAKE i \in 1..Len(stack'[t])
    <3>1. i = 1 \/ (i \in 2..Len(stack[t]) /\ i \in 1..Len(stack[t]) /\ i # 1)
      BY <2>3
    <3> QED
      BY <2>2, <2>3, <3>1 DEF AnnounceSound
  <2> QED
    BY <1>1, <2>4 DEF AnnounceSound
<1>3. CASE Idle(t) \/ ~ Announces(Top(t))
  <2>1. \A u \in Threads : \A i \in 1..Len(stack[u]) : ~ Announces(stack[u][i])
    BY <1>1, <1>3 DEF AnnounceSound, Idle, Top
  <2>2. CASE ~ ReloadLook(t)
    BY <2>1, <2>2, StepPlain, NonePlain
  <2>3. CASE ReloadLook(t)
    <3> DEFINE p == Top(t).path
               pc == IF CachedScript(p) \in Objs THEN "has" ELSE "announce"
               h == [Top(t) EXCEPT !.pc = pc]
    <3>1. ~ Idle(t) /\ Become(t, h) /\ CommitScripts(scr, shallow_ruzta_cache, full_ruzta_cache)
      BY <2>3 DEF ReloadLook, Running, GoOn, KeepScripts
    <3>2. h.path = p /\ h.pc = pc
      BY <3>1, TopSound DEF FrameRecord
    <3>3. Announces(h) => CachedScript(p) \notin Objs
      BY <3>2 DEF Announces
    <3>4. UNCHANGED <<shallow_ruzta_cache, full_ruzta_cache>>
      BY <3>1 DEF CommitScripts, CommitKeeping
    <3> HIDE DEF h
    <3>5. /\ Len(stack[t]) \in Nat \ {0} /\ Len(stack'[t]) = Len(stack[t])
          /\ stack'[t][1] = h /\ \A i \in 2..Len(stack[t]) : stack'[t][i] = stack[t][i]
      BY <3>1, BecomesAt
    <3>6. \A i \in 1..Len(stack'[t]) : Announces(stack'[t][i]) =>
            i = 1 /\ CachedScript(stack'[t][i].path) \notin Objs
      <4> TAKE i \in 1..Len(stack'[t])
      <4>1. i = 1 \/ (i \in 2..Len(stack[t]) /\ i \in 1..Len(stack[t]))
        BY <3>5
      <4> QED
        BY <2>1, <3>2, <3>3, <3>5, <4>1
    <3> QED
      BY <1>1, <3>4, <3>6 DEF AnnounceSound, CachedScript
  <2> QED
    BY <2>2, <2>3
<1> QED
  BY <1>2, <1>3

LEMMA OutsideAnnounces ==
  ASSUME Alone, Core, NEW t \in Threads, Outside(t)
  PROVE  AnnounceSound'
<1>1. AllIdle
  BY DEF Alone, AllIdle, Outside, Load, HotReload, QueryParser, RemoveCached, MoveCached
<1>2. \A u \in Threads : 1..Len(stack[u]) = {}
  BY <1>1 DEF AllIdle, Idle
<1>3. CASE \/ \E p \in Scripts, fromDisk \in BOOLEAN : Load(t, p, fromDisk)
           \/ \E o \in Objs : HotReload(t, o)
           \/ \E p \in Scripts, target \in {INTERFACE_SOLVED, FULLY_SOLVED} :
                QueryParser(t, p, target)
  BY <1>2, <1>3, RequestQuiet, QuietPlain, NonePlain
<1>4. ASSUME NEW p \in Scripts, RemoveCached(t, p) PROVE AnnounceSound'
  BY <1>1, <1>4, RemovedIdle DEF AnnounceSound
<1>5. ASSUME NEW from \in Scripts, NEW to \in Scripts, MoveCached(t, from, to)
      PROVE  AnnounceSound'
  BY <1>2, <1>5 DEF MoveCached, AnnounceSound
<1> QED
  BY <1>3, <1>4, <1>5 DEF Outside

LEMMA NextAnnounces ==
  ASSUME Alone
  PROVE  CacheIInv /\ AnnounceSound /\ [CacheNext]_cvars => AnnounceSound'
<1> SUFFICES ASSUME Core, AnnounceSound, [CacheNext]_cvars PROVE AnnounceSound'
  BY DEF CacheIInv
<1>1. ASSUME NEW t \in Threads, Step(t) PROVE AnnounceSound'
  BY <1>1, StepAnnounces
<1>2. ASSUME NEW t \in Threads, Outside(t) PROVE AnnounceSound'
  BY <1>2, OutsideAnnounces
<1>3. ASSUME NEW p \in Scripts, NEW c \in Content \cup {Nil}, EditFile(p, c)
      PROVE  AnnounceSound'
  BY <1>3 DEF EditFile, scripts, AnnounceSound, CachedScript
<1>4. CASE UNCHANGED cvars
  BY <1>4 DEF cvars, scripts, AnnounceSound, CachedScript
<1> QED
  BY <1>1, <1>2, <1>3, <1>4 DEF CacheNext, Finished

LEMMA AnnouncesAlone ==
  ASSUME Alone
  PROVE  CacheSafety => []AnnounceSound
<1>1. CacheInit => AnnounceSound
  BY DEF CacheInit, AnnounceSound
<1> QED
  BY <1>1, NextAnnounces, SpecCacheIInv, PTL DEF CacheSafety

(* What leaves two objects at a path that did not have them.               *)
Doubles(p) ==
  \/ \E t \in Threads, from \in Scripts :
       /\ MoveCached(t, from, p)
       /\ CachedScript(p) # Nil \/ ShallowBesideFull(from)
  \/ \E t, u \in Threads : t # u /\ ReloadAnnounce(t) /\ Top(t).path = p

LEMMA MovedXor ==
  ASSUME Core, NEW p \in Scripts, TablesMoved, ShallowBesideFull(p)'
  PROVE  ShallowBesideFull(p)
<1>1. /\ shallow_ruzta_cache \in [Scripts -> Objs \cup {Nil}]
      /\ full_ruzta_cache \in [Scripts -> Objs \cup {Nil, Null}]
  BY CoreFacts DEF ScriptsSound
<1>2. CASE Untouched
  BY <1>2 DEF Untouched, ShallowBesideFull
<1>3. ASSUME NEW q \in Scripts, NEW o \in Objs, Entered(q, o)
      PROVE  ShallowBesideFull(p)
  <2>1. full_ruzta_cache[q] \notin Objs
    BY <1>3, ContentAssumption DEF Entered, CachedScript
  <2> QED
    BY <1>1, <1>3, <2>1 DEF Entered, Stored, ShallowBesideFull
<1>4. ASSUME NEW q \in Scripts, NEW o \in Objs \cup {Null}, Filled(q, o)
      PROVE  ShallowBesideFull(p)
  BY <1>1, <1>4 DEF Filled, ShallowBesideFull
<1> QED
  BY <1>2, <1>3, <1>4 DEF TablesMoved

(* The store itself, when no other thread was there to come in between.    *)
LEMMA AnnouncedXor ==
  ASSUME Core, NEW t \in Threads, ReloadAnnounce(t), AnnounceSound,
         NEW p \in Scripts, ShallowBesideFull(p)'
  PROVE  ShallowBesideFull(p)
<1>1. ~ Idle(t) /\ Announces(Top(t))
  BY DEF ReloadAnnounce, Running, Announces
<1>2. CachedScript(Top(t).path) \notin Objs
  <2>1. Top(t) = stack[t][1] /\ 1 \in 1..Len(stack[t])
    BY <1>1, TopSound
  <2> QED
    BY <1>1, <2>1 DEF AnnounceSound
<1>3. TablesMoved
  BY <1>2, ReloadAnnounceStores DEF Entered, TablesMoved
<1> QED
  BY <1>3, MovedXor

LEMMA OutsideXor ==
  ASSUME Core, NEW t \in Threads, Outside(t), NEW p \in Scripts, ShallowBesideFull(p)'
  PROVE  ShallowBesideFull(p) \/ Doubles(p)
<1>1. /\ shallow_ruzta_cache \in [Scripts -> Objs \cup {Nil}]
      /\ full_ruzta_cache \in [Scripts -> Objs \cup {Nil, Null}]
  BY CoreFacts DEF ScriptsSound
<1>2. CASE \/ \E q \in Scripts, fromDisk \in BOOLEAN : Load(t, q, fromDisk)
           \/ \E q \in Scripts, target \in {INTERFACE_SOLVED, FULLY_SOLVED} :
                QueryParser(t, q, target)
  <2>1. CommitScripts(scr, shallow_ruzta_cache, full_ruzta_cache)
    BY <1>2 DEF Load, QueryParser, KeepScripts
  <2> QED
    BY <2>1, KeepScriptsMoves, MovedXor DEF TablesMoved
<1>3. ASSUME NEW o \in Objs, HotReload(t, o)
      PROVE  ShallowBesideFull(p)
  <2>1. Untouched
    BY <1>3 DEF HotReload, CommitScripts, CommitKeeping, Untouched
  <2> QED
    BY <2>1, MovedXor DEF TablesMoved
<1>4. ASSUME NEW q \in Scripts, RemoveCached(t, q)
      PROVE  ShallowBesideFull(p)
  <2>1. /\ shallow_ruzta_cache' = [shallow_ruzta_cache EXCEPT ![q] = Nil]
        /\ full_ruzta_cache' = [full_ruzta_cache EXCEPT ![q] = Nil]
    BY <1>4 DEF RemoveCached, CommitKeeping
  <2> QED
    BY <1>1, <2>1 DEF ShallowBesideFull
<1>5. ASSUME NEW from \in Scripts, NEW to \in Scripts, MoveCached(t, from, to)
      PROVE  ShallowBesideFull(p) \/ Doubles(p)
  <2> DEFINE sh == shallow_ruzta_cache
             fu == full_ruzta_cache
  <2>1. /\ from # to
        /\ shallow_ruzta_cache' = [sh EXCEPT ![to] = IF sh[from] # Nil THEN sh[from] ELSE sh[to],
                                             ![from] = Nil]
        /\ full_ruzta_cache' = [fu EXCEPT ![to] = IF fu[from] # Nil THEN fu[from] ELSE fu[to],
                                          ![from] = Nil]
    BY <1>5 DEF MoveCached, CommitKeeping
  <2>2. CASE p # to
    BY <1>1, <2>1, <2>2 DEF ShallowBesideFull
  <2>3. CASE p = to /\ CachedScript(to) # Nil
    BY <1>5, <2>3 DEF Doubles
  <2>4. CASE p = to /\ CachedScript(to) = Nil
    <3>1. sh[to] = Nil /\ fu[to] = Nil
      BY <2>4 DEF CachedScript
    <3>2. shallow_ruzta_cache'[to] = sh[from] /\ full_ruzta_cache'[to] = fu[from]
      BY <1>1, <2>1, <3>1
    <3>3. ShallowBesideFull(from)
      BY <2>4, <3>2 DEF ShallowBesideFull
    <3> QED
      BY <1>5, <2>4, <3>3 DEF Doubles
  <2> QED
    BY <2>2, <2>3, <2>4
<1> QED
  BY <1>2, <1>3, <1>4, <1>5 DEF Outside

LEMMA NextXor ==
  ASSUME NEW p \in Scripts
  PROVE  Core /\ (Alone => AnnounceSound) /\ [CacheNext]_cvars /\ ShallowBesideFull(p)'
           => ShallowBesideFull(p) \/ Doubles(p)
<1> SUFFICES ASSUME Core, Alone => AnnounceSound, [CacheNext]_cvars, ShallowBesideFull(p)'
             PROVE  ShallowBesideFull(p) \/ Doubles(p)
  OBVIOUS
<1>1. ASSUME NEW t \in Threads, Step(t)
      PROVE  ShallowBesideFull(p) \/ Doubles(p)
  <2>1. CASE TablesMoved
    BY <2>1, MovedXor
  <2>2. CASE ReloadAnnounce(t) /\ Alone
    BY <2>2, AnnouncedXor
  <2>3. CASE ReloadAnnounce(t) /\ ~ Alone
    <3>1. \E u \in Threads : t # u
      BY <2>3 DEF Alone
    <3>2. CASE p = Top(t).path
      BY <2>3, <3>1, <3>2 DEF Doubles
    <3>3. CASE p # Top(t).path
      BY <2>3, <3>3, ReloadAnnounceStores, CoreFacts
         DEF Stored, ShallowBesideFull, ScriptsSound
    <3> QED
      BY <3>2, <3>3
  <2> QED
    BY <1>1, <2>1, <2>2, <2>3, StepMoves
<1>2. ASSUME NEW t \in Threads, Outside(t)
      PROVE  ShallowBesideFull(p) \/ Doubles(p)
  BY <1>2, OutsideXor
<1>3. ASSUME NEW q \in Scripts, NEW c \in Content \cup {Nil}, EditFile(q, c)
      PROVE  ShallowBesideFull(p)
  BY <1>3 DEF EditFile, scripts, ShallowBesideFull
<1>4. CASE UNCHANGED cvars
  BY <1>4 DEF cvars, scripts, ShallowBesideFull
<1> QED
  BY <1>1, <1>2, <1>3, <1>4 DEF CacheNext, Finished

(***************************************************************************)
(* No step leaves a script that is still shallow next to a full one of the *)
(* same path, for any number of threads, other than a move and, with more  *)
(* than one thread, the store of a reload.  On one thread the store never  *)
(* does (ruzta.cpp:981-984 looks before it stores).                        *)
(***************************************************************************)
THEOREM OneObject == CacheSafety => OneObjectPerPath
<1> DEFINE A == \A p \in Scripts : ShallowBesideFull(p)' => ShallowBesideFull(p) \/ Doubles(p)
<1>1. Core /\ (Alone => AnnounceSound) /\ [CacheNext]_cvars => A
  BY NextXor
<1>2. A => \A p \in Scripts : ShallowBesideFull(p)' =>
       \/ ShallowBesideFull(p)
       \/ \E t \in Threads, from \in Scripts :
            /\ MoveCached(t, from, p)
            /\ CachedScript(p) # Nil \/ ShallowBesideFull(from)
       \/ \E t, u \in Threads : t # u /\ ReloadAnnounce(t) /\ Top(t).path = p
  BY DEF Doubles
<1> HIDE DEF A
<1>3. CacheIInv => Core
  BY DEF CacheIInv
<1>4. CASE Alone
  <2>1. CacheSafety => []AnnounceSound
    BY <1>4, AnnouncesAlone
  <2>2. Core /\ AnnounceSound /\ [CacheNext]_cvars => A
    BY <1>1
  <2> QED
    BY <1>2, <1>3, <2>1, <2>2, SpecCacheIInv, PTL DEF CacheSafety, OneObjectPerPath
<1>5. CASE ~ Alone
  <2>1. Core /\ [CacheNext]_cvars => A
    BY <1>1, <1>5
  <2> QED
    BY <1>2, <1>3, <2>1, SpecCacheIInv, PTL DEF CacheSafety, OneObjectPerPath
<1> QED
  BY <1>4, <1>5

-----------------------------------------------------------------------------
(***************************************************************************)
(* No null script.  A script that is being reloaded has an entry in one of *)
(* the tables once it was looked for and stored, and so has the path of    *)
(* every finish_compiling, unless someone takes it out.                    *)
(***************************************************************************)
Entry(p, sh, fu) == sh[p] # Nil \/ fu[p] # Nil

Unstored == {"start", "flag", "look", "announce"}

KnownFrame(f, sc, sh, fu) ==
  /\ f.op = "reload" =>
       /\ f.pc \in Checking => f.path = sc[f.obj].path
       /\ f.pc \notin Unstored => Entry(sc[f.obj].path, sh, fu)
  /\ f.op = "finish" => Entry(f.path, sh, fu)

Known(k, sc, sh, fu) ==
  \A u \in Threads : \A i \in 1..Len(k[u]) : KnownFrame(k[u][i], sc, sh, fu)

NoNull(fu) == \A p \in Scripts : fu[p] # Null

EntriesSound ==
  /\ NoNull(full_ruzta_cache)
  /\ Known(stack, scr, shallow_ruzta_cache, full_ruzta_cache)

EntriesStay ==
  \A p \in Scripts : Entry(p, shallow_ruzta_cache, full_ruzta_cache)
                       => Entry(p, shallow_ruzta_cache', full_ruzta_cache')

PathsSame(sc) == \A o \in Objs : scr[o].path # Nil => sc[o].path = scr[o].path

LEMMA MovedStay ==
  ASSUME Core, TablesMoved \/ \E p \in Scripts, o \in Objs : Stored(p, o)
  PROVE  EntriesStay
<1>1. /\ shallow_ruzta_cache \in [Scripts -> Objs \cup {Nil}]
      /\ full_ruzta_cache \in [Scripts -> Objs \cup {Nil, Null}]
  BY CoreFacts DEF ScriptsSound
<1>2. CASE Untouched
  BY <1>2 DEF Untouched, EntriesStay, Entry
<1>3. ASSUME NEW p \in Scripts, NEW o \in Objs, Stored(p, o)
      PROVE  EntriesStay
  BY <1>1, <1>3, ContentAssumption DEF Stored, EntriesStay, Entry
<1>4. ASSUME NEW p \in Scripts, NEW o \in Objs \cup {Null}, Filled(p, o)
      PROVE  EntriesStay
  BY <1>1, <1>4, ContentAssumption DEF Filled, EntriesStay, Entry
<1> QED
  BY <1>2, <1>3, <1>4 DEF TablesMoved, Entered

(* The tables keep their entries and the objects on the stacks their       *)
(* paths: every frame that was known still is.                             *)
LEMMA StillKnown ==
  ASSUME Core, EntriesSound, StepSound, EntriesStay, NoNull(full_ruzta_cache'),
         NEW sc, PathsSame(sc), NEW sh, NEW fu, CommitScripts(sc, sh, fu),
         NEW F, NewFrames(F), \A f \in F : KnownFrame(f, sc, sh, fu)
  PROVE  EntriesSound'
<1> DEFINE held == {sh[p] : p \in Scripts} \cup {fu[p] : p \in Scripts}
                     \cup {f.obj : f \in Activations(stack')} \cup kept
<1>1. /\ shallow_ruzta_cache' = sh /\ full_ruzta_cache' = fu
      /\ scr' = [o \in Objs |-> IF o \in held THEN sc[o] ELSE NoScript]
  BY DEF CommitScripts, CommitKeeping
<1>2. \A u \in Threads : \A i \in 1..Len(stack'[u]) :
        /\ stack'[u][i] \in FrameRecord /\ stack'[u][i].obj \in held
        /\ stack'[u][i].op = "reload" => stack'[u][i].obj \in Objs
  <2> TAKE u \in Threads
  <2> TAKE i \in 1..Len(stack'[u])
  <2>1. /\ stack'[u] \in Seq(FrameRecord)
        /\ FrameSound(stack'[u][i], reg', stage', scr')
    BY DEF StepSound, CoreSound, StacksSound, StackSound
  <2>2. stack'[u][i] \in FrameRecord
    BY <2>1, ElementOfSeq
  <2>3. stack'[u][i].obj \in held
    BY DEF Activations
  <2> HIDE DEF held
  <2> QED
    BY <2>1, <2>2, <2>3 DEF FrameSound, ReloadSound, FrameRecord
<1> HIDE DEF held
<1>3. \A p \in Scripts : Entry(p, shallow_ruzta_cache, full_ruzta_cache) => Entry(p, sh, fu)
  BY <1>1 DEF EntriesStay, Entry
<1>4. ASSUME NEW u \in Threads, NEW i \in 1..Len(stack'[u])
      PROVE  KnownFrame(stack'[u][i], scr', sh, fu)
  <2> DEFINE e == stack'[u][i]
  <2>1. e \in FrameRecord /\ (e.op = "reload" => e.obj \in Objs /\ scr'[e.obj] = sc[e.obj])
    BY <1>1, <1>2
  <2>2. CASE e \in F
    BY <2>1, <2>2 DEF KnownFrame
  <2>3. CASE \E j \in 1..Len(stack[u]) : e = stack[u][j]
    <3>1. /\ KnownFrame(e, scr, shallow_ruzta_cache, full_ruzta_cache)
          /\ FrameSound(e, reg, stage, scr)
      BY <2>3, CoreFacts DEF EntriesSound, Known, StacksSound, StackSound
    <3> SUFFICES KnownFrame(e, scr', sh, fu)
      OBVIOUS
    <3> HIDE DEF e
    <3>2. CASE e.op = "reload"
      <4>1. e.obj \in Objs /\ scr[e.obj].path # Nil /\ sc[e.obj].path = scr[e.obj].path
        BY <2>1, <3>1, <3>2, ContentAssumption DEF FrameSound, PathsSame
      <4>2. scr[e.obj].path \in Scripts
        BY <4>1, ScriptFacts
      <4>3. e.pc \notin Unstored => Entry(scr[e.obj].path, sh, fu)
        BY <1>3, <3>1, <3>2, <4>2 DEF KnownFrame
      <4>4. e.pc \in Checking => e.path = scr[e.obj].path
        BY <3>1, <3>2 DEF KnownFrame
      <4> QED
        BY <2>1, <3>2, <4>1, <4>3, <4>4 DEF KnownFrame
    <3>3. CASE e.op = "finish"
      <4>1. e.path \in Scripts
        BY <2>1, <3>1, <3>3 DEF FrameSound, FrameRecord
      <4> QED
        BY <1>3, <3>1, <3>3, <4>1 DEF KnownFrame
    <3> QED
      BY <3>2, <3>3 DEF KnownFrame
  <2> QED
    BY <2>2, <2>3 DEF NewFrames
<1> QED
  BY <1>1, <1>4 DEF EntriesSound, Known

(* A step that stores nothing in the full table.                           *)
LEMMA SilentStep ==
  ASSUME Core, EntriesSound, StepSound, TablesMoved, UNCHANGED full_ruzta_cache,
         NEW sc, PathsSame(sc), NEW sh, NEW fu, CommitScripts(sc, sh, fu), Quietly
  PROVE  EntriesSound'
<1> DEFINE F == {f \in FrameRecord : Silent(f)}
<1>1. EntriesStay
  BY MovedStay
<1>2. NoNull(full_ruzta_cache')
  BY DEF EntriesSound, NoNull
<1>3. \A f \in F : KnownFrame(f, sc, sh, fu)
  BY DEF Silent, KnownFrame, Unstored, Checking
<1>4. NewFrames(F)
  <2>1. \A u \in Threads : \A i \in 1..Len(stack'[u]) : stack'[u][i] \in FrameRecord
    BY ElementOfSeq DEF StepSound, CoreSound, StacksSound, StackSound
  <2> QED
    BY <2>1 DEF Quietly, NewFrames
<1> HIDE DEF F
<1> QED
  BY <1>1, <1>2, <1>3, <1>4, StillKnown

LEMMA SameScripts ==
  ASSUME CommitScripts(scr, shallow_ruzta_cache, full_ruzta_cache)
  PROVE  PathsSame(scr) /\ TablesMoved /\ UNCHANGED full_ruzta_cache
BY KeepScriptsMoves DEF PathsSame, TablesMoved, Untouched

(* Only one field of an object changes, and not its path.                  *)
LEMMA ObjectChanged ==
  ASSUME Core, NEW sc, sc \in [Objs -> ScriptRecord], PathsSame(sc), NEW o \in Objs,
         NEW x, x.path = sc[o].path
  PROVE  PathsSame([sc EXCEPT ![o] = x])
BY DEF PathsSame

LEMMA ShallowPaths ==
  ASSUME Core, TablesTyped(disk, dependencies, ret), NEW p \in Scripts,
         ShallowNeedsFresh(p) => SpareRef /\ SpareObj
  PROVE  /\ PathsSame(GetShallowScript(p, reg, stage).scr)
         /\ GetShallowScript(p, reg, stage).scr \in [Objs -> ScriptRecord]
BY ShallowSound DEF PathsSame, ScriptsSound

LEMMA RaiseKnown ==
  ASSUME Core, TablesTyped(disk, dependencies, ret), EntriesSound, StepSound, NEW t \in Threads,
         RaiseStage(t) \/ RaiseVisit(t) \/ RaiseResume(t) \/ RaiseEndStage(t)
           \/ RaiseReturn(t)
  PROVE  EntriesSound'
<1> DEFINE f == Top(t)
<1>1. ~ Idle(t) /\ f \in FrameRecord /\ f.op = "raise"
  <2>1. ~ Idle(t) /\ f.op = "raise"
    BY DEF RaiseStage, RaiseVisit, RaiseResume, RaiseEndStage, RaiseReturn, Running
  <2> QED
    BY <2>1, TopSound
<1>2. Quietly
  BY RaiseQuiet
<1> HIDE DEF f
<1>3. CASE CommitScripts(scr, shallow_ruzta_cache, full_ruzta_cache)
  BY <1>2, <1>3, SameScripts, SilentStep
<1>4. CASE RaiseResume(t) /\ ~ KeepScripts
  <2> DEFINE q == Top(t).cur
             s == GetShallowScript(q, reg, stage)
  <2>1. /\ q # Nil
        /\ ShallowNeedsFresh(q) => SpareRef /\ SpareObj
        /\ CommitScripts(s.scr, s.shallow, full_ruzta_cache)
    BY <1>4 DEF RaiseResume
  <2>2. q \in Scripts
    BY <1>1, <1>4, TopSound DEF FrameRecord, f, RaiseResume
  <2>3. PathsSame(s.scr)
    BY <2>1, <2>2, ShallowPaths
  <2>4. UNCHANGED full_ruzta_cache
    BY <2>1 DEF CommitScripts, CommitKeeping
  <2> HIDE DEF s
  <2> QED
    BY <1>2, <1>4, <2>1, <2>3, <2>4, RaiseResumeMoves, SilentStep
<1> QED
  BY <1>3, <1>4 DEF RaiseStage, RaiseVisit, RaiseEndStage, RaiseReturn, KeepScripts

LEMMA TopKnown ==
  ASSUME Core, EntriesSound, NEW t \in Threads, ~ Idle(t)
  PROVE  KnownFrame(Top(t), scr, shallow_ruzta_cache, full_ruzta_cache)
<1>1. Top(t) = stack[t][1] /\ 1 \in 1..Len(stack[t])
  BY TopSound
<1> QED
  BY <1>1 DEF EntriesSound, Known

LEMMA StayedNoNull ==
  ASSUME EntriesSound, UNCHANGED full_ruzta_cache
  PROVE  NoNull(full_ruzta_cache')
BY DEF EntriesSound, NoNull

(* A reload takes the path of its object, looks for an object there and    *)
(* stores its own if there is none; the entry stays.                       *)
LEMMA ReloadFlagKnown ==
  ASSUME Core, EntriesSound, StepSound, NEW t \in Threads, ReloadFlag(t)
  PROVE  EntriesSound'
<1> DEFINE f == Top(t)
           p == scr[f.obj].path
           h == [f EXCEPT !.pc = "look", !.path = p]
           sc == [scr EXCEPT ![f.obj].reloading = TRUE]
<1>1. ~ Idle(t) /\ f.op = "reload"
  BY DEF ReloadFlag, Running
<1>2. f \in FrameRecord /\ f.obj \in Objs
  BY <1>1, ReloadFacts
<1>3. Become(t, h) /\ CommitScripts(sc, shallow_ruzta_cache, full_ruzta_cache)
  BY DEF ReloadFlag
<1>4. PathsSame(sc) /\ sc[f.obj].path = p
  BY <1>2, CoreFacts DEF PathsSame, ScriptsSound, ScriptRecord
<1>5. h.op = "reload" /\ h.pc = "look" /\ h.path = p /\ h.obj = f.obj
  BY <1>1, <1>2 DEF FrameRecord
<1> HIDE DEF f, h, p, sc
<1>6. KnownFrame(h, sc, shallow_ruzta_cache, full_ruzta_cache)
  BY <1>4, <1>5 DEF KnownFrame, Unstored
<1>7. EntriesStay /\ UNCHANGED full_ruzta_cache
  BY <1>3 DEF CommitScripts, CommitKeeping, EntriesStay, Entry
<1>8. NewFrames({h})
  BY <1>1, <1>3, BecomesNew
<1> QED
  BY <1>3, <1>4, <1>6, <1>7, <1>8, StayedNoNull, StillKnown

LEMMA ReloadLookKnown ==
  ASSUME Core, EntriesSound, StepSound, NEW t \in Threads, ReloadLook(t)
  PROVE  EntriesSound'
<1> DEFINE f == Top(t)
           found == CachedScript(f.path) \in Objs
           h == [f EXCEPT !.pc = IF found THEN "has" ELSE "announce"]
           sh == shallow_ruzta_cache
           fu == full_ruzta_cache
<1>1. ~ Idle(t) /\ f.op = "reload" /\ f.pc = "look"
  BY DEF ReloadLook, Running
<1>2. f \in FrameRecord
  BY <1>1, ReloadFacts
<1>3. Become(t, h) /\ CommitScripts(scr, sh, fu)
  BY DEF ReloadLook, GoOn, KeepScripts
<1>4. KnownFrame(f, scr, sh, fu)
  BY <1>1, TopKnown
<1>5. found => Entry(f.path, sh, fu)
  BY ContentAssumption DEF CachedScript, Entry
<1>6. /\ h.op = "reload" /\ h.path = f.path /\ h.obj = f.obj
      /\ h.pc = IF found THEN "has" ELSE "announce"
  BY <1>1, <1>2 DEF FrameRecord
<1> HIDE DEF f, h, found, sh, fu
<1>7. KnownFrame(h, scr, sh, fu)
  BY <1>1, <1>4, <1>5, <1>6 DEF KnownFrame, Unstored, Checking
<1>8. EntriesStay /\ UNCHANGED full_ruzta_cache /\ PathsSame(scr)
  BY <1>3 DEF CommitScripts, CommitKeeping, EntriesStay, Entry, PathsSame, sh, fu
<1>9. NewFrames({h})
  BY <1>1, <1>3, BecomesNew DEF f
<1> QED
  BY <1>3, <1>7, <1>8, <1>9, StayedNoNull, StillKnown

LEMMA ReloadAnnounceKnown ==
  ASSUME Core, EntriesSound, StepSound, NEW t \in Threads, ReloadAnnounce(t)
  PROVE  EntriesSound'
<1> DEFINE f == Top(t)
           h == [f EXCEPT !.pc = "has"]
           sh == [shallow_ruzta_cache EXCEPT ![f.path] = f.obj]
<1>1. ~ Idle(t) /\ f.op = "reload" /\ f.pc = "announce"
  BY DEF ReloadAnnounce, Running
<1>2. f \in FrameRecord /\ f.obj \in Objs /\ f.path \in Scripts
  BY <1>1, ReloadFacts DEF Checking
<1>3. Become(t, h) /\ CommitScripts(scr, sh, full_ruzta_cache)
  BY DEF ReloadAnnounce, Announced
<1>4. f.path = scr[f.obj].path
  BY <1>1, TopKnown DEF KnownFrame, Checking
<1>5. Entry(f.path, sh, full_ruzta_cache)
  BY <1>2, CoreFacts, ContentAssumption DEF ScriptsSound, Entry
<1>6. h.op = "reload" /\ h.pc = "has" /\ h.path = f.path /\ h.obj = f.obj
  BY <1>1, <1>2 DEF FrameRecord
<1>7. EntriesStay /\ UNCHANGED full_ruzta_cache /\ PathsSame(scr)
  <2>1. \E p \in Scripts, o \in Objs : Stored(p, o)
    BY ReloadAnnounceStores
  <2> QED
    BY <1>3, <2>1, MovedStay DEF CommitScripts, CommitKeeping, PathsSame
<1> HIDE DEF f, h, sh
<1>8. KnownFrame(h, scr, sh, full_ruzta_cache)
  BY <1>4, <1>5, <1>6 DEF KnownFrame, Unstored
<1>9. NewFrames({h})
  BY <1>1, <1>3, BecomesNew
<1> QED
  BY <1>3, <1>7, <1>8, <1>9, StayedNoNull, StillKnown

(* The steps of a reload that leave the tables alone.                      *)
LEMMA ReloadGoesKnown ==
  ASSUME Core, EntriesSound, StepSound, NEW t \in Threads,
         ReloadHas(t) \/ ReloadGet(t) \/ ReloadCompare(t) \/ ReloadRemove(t)
           \/ ReloadRelease(t)
  PROVE  EntriesSound'
<1> DEFINE f == Top(t)
           Later == {"get", "compare", "remove", "release", "parse"}
           sh == shallow_ruzta_cache
           fu == full_ruzta_cache
<1>1. /\ ~ Idle(t) /\ f.op = "reload"
      /\ f.pc \in {"has", "get", "compare", "remove", "release"}
  BY DEF ReloadHas, ReloadGet, ReloadCompare, ReloadRemove, ReloadRelease, Running
<1>2. f \in FrameRecord
  BY <1>1, ReloadFacts
<1>3. CommitScripts(scr, sh, fu)
  BY DEF ReloadHas, ReloadGet, ReloadCompare, ReloadRemove, ReloadRelease, GoOn, KeepScripts
<1>4. PICK pc \in Later : \E r :
        Become(t, [f EXCEPT !.pc = pc]) \/ Become(t, [f EXCEPT !.pc = pc, !.ref = r])
  BY DEF ReloadHas, ReloadGet, ReloadCompare, ReloadRemove, ReloadRelease, GoOn
<1>0. PICK r : Become(t, [f EXCEPT !.pc = pc]) \/ Become(t, [f EXCEPT !.pc = pc, !.ref = r])
  BY <1>4
<1> DEFINE a == [f EXCEPT !.pc = pc]
           b == [f EXCEPT !.pc = pc, !.ref = r]
<1>5. KnownFrame(f, scr, sh, fu)
  BY <1>1, TopKnown
<1>6. /\ a.op = "reload" /\ a.path = f.path /\ a.obj = f.obj /\ a.pc = pc
      /\ b.op = "reload" /\ b.path = f.path /\ b.obj = f.obj /\ b.pc = pc
  BY <1>1, <1>2 DEF FrameRecord
<1>7. Become(t, a) \/ Become(t, b)
  BY <1>0
<1>8. EntriesStay /\ UNCHANGED full_ruzta_cache /\ PathsSame(scr)
  BY <1>3 DEF CommitScripts, CommitKeeping, EntriesStay, Entry, PathsSame
<1> HIDE DEF a, b
<1>9. KnownFrame(a, scr, sh, fu) /\ KnownFrame(b, scr, sh, fu)
  BY <1>1, <1>5, <1>6 DEF KnownFrame, Unstored, Checking
<1>10. CASE Become(t, a)
  <2>1. NewFrames({a})
    BY <1>1, <1>10, BecomesNew
  <2> QED
    BY <1>3, <1>8, <1>9, <2>1, StayedNoNull, StillKnown
<1>11. CASE Become(t, b)
  <2>1. NewFrames({b})
    BY <1>1, <1>11, BecomesNew
  <2> QED
    BY <1>3, <1>8, <1>9, <2>1, StayedNoNull, StillKnown
<1> QED
  BY <1>7, <1>10, <1>11

LEMMA ReloadFreeKnown ==
  ASSUME Core, EntriesSound, StepSound, NEW t \in Threads, ReloadFree(t)
  PROVE  EntriesSound'
<1> DEFINE h == [Top(t) EXCEPT !.pc = "flag"]
<1>1. /\ ~ Idle(t) /\ Top(t).op = "reload" /\ Become(t, h)
      /\ CommitScripts(scr, shallow_ruzta_cache, full_ruzta_cache)
  BY DEF ReloadFree, Running, GoOn, KeepScripts
<1>2. Silent(h)
  BY <1>1, ReloadFacts DEF Silent, FrameRecord
<1> HIDE DEF h
<1>3. Quietly
  BY <1>1, <1>2, QuietBecome
<1> QED
  BY <1>1, <1>3, SameScripts, SilentStep

LEMMA ReloadParseKnown ==
  ASSUME Core, EntriesSound, StepSound, NEW t \in Threads, ReloadParse(t)
  PROVE  EntriesSound'
<1> DEFINE f == Top(t)
           h == [f EXCEPT !.pc = "analyzed", !.ref = FreshRef]
           e == RaiseFrame(FreshRef, FULLY_SOLVED)
           b == scr[f.obj].source.health # "parse_error"
           sc == [scr EXCEPT ![f.obj].valid = FALSE, ![f.obj].initialized = FALSE,
                             ![f.obj].reloading = b]
           sh == shallow_ruzta_cache
           fu == full_ruzta_cache
<1>1. ~ Idle(t) /\ f.op = "reload" /\ f.pc = "parse"
  BY DEF ReloadParse, Running
<1>2. f \in FrameRecord /\ f.obj \in Objs /\ scr[f.obj].path \in Scripts
  BY <1>1, ReloadFacts, ScriptFacts
<1>3. CommitScripts(sc, sh, fu) /\ (Call(t, h, e) \/ Return(t, FALSE))
  BY DEF ReloadParse
<1>4. PathsSame(sc) /\ sc[f.obj].path = scr[f.obj].path
  BY <1>2, CoreFacts DEF PathsSame, ScriptsSound, ScriptRecord
<1>5. Entry(scr[f.obj].path, sh, fu)
  BY <1>1, TopKnown DEF KnownFrame, Unstored
<1>6. h.op = "reload" /\ h.obj = f.obj /\ h.pc = "analyzed" /\ e.op = "raise"
  BY <1>1, <1>2 DEF FrameRecord, RaiseFrame, Frame
<1>7. KnownFrame(h, sc, sh, fu) /\ KnownFrame(e, sc, sh, fu)
  BY <1>4, <1>5, <1>6 DEF KnownFrame, Checking
<1>8. EntriesStay /\ UNCHANGED full_ruzta_cache
  BY <1>3 DEF CommitScripts, CommitKeeping, EntriesStay, Entry
<1> HIDE DEF f, h, e, b, sc, sh, fu
<1>9. NewFrames({h, e})
  <2>1. CASE Call(t, h, e)
    BY <1>1, <2>1, CallsNew
  <2>2. CASE Return(t, FALSE)
    <3>1. NewFrames({})
      BY <1>1, <2>2, ReturnsNew
    <3> QED
      BY <3>1 DEF NewFrames
  <2> QED
    BY <1>3, <2>1, <2>2
<1> QED
  BY <1>3, <1>4, <1>7, <1>8, <1>9, StayedNoNull, StillKnown

LEMMA ReloadCompileKnown ==
  ASSUME Core, TablesTyped(disk, dependencies, ret), EntriesSound, StepSound,
         NEW t \in Threads, ReloadCompile(t)
  PROVE  EntriesSound'
<1> DEFINE f == Top(t)
           h == [f EXCEPT !.pc = "compiled"]
           p == scr[f.obj].path
           e == [Frame("finish") EXCEPT !.path = p]
           base == scr[f.obj].source.ext
           asks == ret[t] /\ base # Nil
           s == IF asks THEN GetShallowScript(base, reg, stage)
                ELSE [g |-> reg, st |-> stage, scr |-> scr,
                      shallow |-> shallow_ruzta_cache, obj |-> f.obj]
           b == ret[t] /\ s.obj \in Objs
           sc == [s.scr EXCEPT ![f.obj].valid = b, ![f.obj].reloading = b]
           fu == full_ruzta_cache
<1>1. ~ Idle(t) /\ f.op = "reload" /\ f.pc = "analyzed"
  BY DEF ReloadCompile, Running
<1>2. f \in FrameRecord /\ f.obj \in Objs /\ p \in Scripts
  BY <1>1, ReloadFacts, ScriptFacts
<1>3. /\ CommitScripts(sc, s.shallow, fu)
      /\ asks /\ ShallowNeedsFresh(base) => SpareRef /\ SpareObj
  BY DEF ReloadCompile
<1>4. Call(t, h, e) \/ Return(t, FALSE)
  BY DEF ReloadCompile
<1>5. PathsSame(s.scr) /\ s.scr \in [Objs -> ScriptRecord]
  <2>1. CASE asks
    <3>1. base \in Scripts
      BY <1>1, <1>2, <2>1, ReloadFacts, ScriptFacts, TreesTyped
    <3> QED
      BY <1>3, <2>1, <3>1, ShallowPaths
  <2>2. CASE ~ asks
    BY <2>2, CoreFacts DEF PathsSame, ScriptsSound
  <2> QED
    BY <2>1, <2>2
<1>6. s.scr[f.obj].path = p /\ p # Nil
  BY <1>1, <1>2, <1>5, ReloadFacts DEF PathsSame
<1>7. EntriesStay /\ UNCHANGED full_ruzta_cache
  BY <1>3, ReloadCompileMoves, MovedStay DEF CommitScripts, CommitKeeping
<1>8. Entry(p, shallow_ruzta_cache, fu)
  BY <1>1, TopKnown DEF KnownFrame, Unstored
<1>9. Entry(p, s.shallow, fu)
  BY <1>2, <1>3, <1>7, <1>8 DEF EntriesStay, CommitScripts, CommitKeeping
<1>10. /\ h.op = "reload" /\ h.obj = f.obj /\ h.pc = "compiled"
       /\ e.op = "finish" /\ e.path = p
  BY <1>1, <1>2 DEF FrameRecord, Frame
<1> HIDE DEF f, h, p, e, base, asks, s, b, fu
<1>11. PathsSame(sc) /\ sc[f.obj].path = p
  BY <1>2, <1>5, <1>6 DEF PathsSame, ScriptRecord
<1> HIDE DEF sc
<1>12. KnownFrame(h, sc, s.shallow, fu) /\ KnownFrame(e, sc, s.shallow, fu)
  BY <1>9, <1>10, <1>11 DEF KnownFrame, Checking
<1>13. NewFrames({h, e})
  <2>1. CASE Call(t, h, e)
    BY <1>1, <2>1, CallsNew DEF f
  <2>2. CASE Return(t, FALSE)
    <3>1. NewFrames({})
      BY <1>1, <2>2, ReturnsNew
    <3> QED
      BY <3>1 DEF NewFrames
  <2> QED
    BY <1>4, <2>1, <2>2
<1> QED
  BY <1>3, <1>7, <1>11, <1>12, <1>13, StayedNoNull, StillKnown

LEMMA ReloadReturnKnown ==
  ASSUME Core, EntriesSound, StepSound, NEW t \in Threads, ReloadReturn(t)
  PROVE  EntriesSound'
<1> DEFINE o == Top(t).obj
           b == ret[t]
           sc == [scr EXCEPT ![o].reloading = FALSE, ![o].initialized = b]
<1>1. ~ Idle(t) /\ Top(t).op = "reload"
  BY DEF ReloadReturn, Running
<1>2. o \in Objs
  BY <1>1, ReloadFacts
<1>3. Return(t, b) /\ CommitScripts(sc, shallow_ruzta_cache, full_ruzta_cache)
  BY DEF ReloadReturn
<1>4. PathsSame(sc)
  BY <1>2, CoreFacts DEF PathsSame, ScriptsSound, ScriptRecord
<1> HIDE DEF o, b, sc
<1>5. TablesMoved /\ UNCHANGED full_ruzta_cache
  BY <1>3, KeepScriptsMoves DEF TablesMoved, Untouched
<1>6. Quietly
  BY <1>1, <1>3, QuietReturn
<1> QED
  BY <1>3, <1>4, <1>5, <1>6, SilentStep

(* finish_compiling finds the script it makes full, and so does not cache  *)
(* a null one.                                                             *)
LEMMA FinishMarkKnown ==
  ASSUME Core, EntriesSound, StepSound, NEW t \in Threads, FinishMark(t)
  PROVE  EntriesSound'
<1> DEFINE f == Top(t)
           p == f.path
           o == IF CachedScript(p) = Nil THEN Null ELSE CachedScript(p)
           h == [f EXCEPT !.pc = "depends", !.todo = dependencies[p]]
           sh == [shallow_ruzta_cache EXCEPT ![p] = Nil]
           fu == [full_ruzta_cache EXCEPT ![p] = o]
<1>1. ~ Idle(t) /\ f.op = "finish"
  BY DEF FinishMark, Running
<1>2. f \in FrameRecord /\ p \in Scripts
  BY <1>1, PathFacts
<1>3. Become(t, h) /\ CommitScripts(scr, sh, fu)
  BY DEF FinishMark, Promoted
<1>4. o \in Objs
  <2>1. Entry(p, shallow_ruzta_cache, full_ruzta_cache) /\ full_ruzta_cache[p] # Null
    BY <1>1, <1>2, TopKnown DEF KnownFrame, EntriesSound, NoNull
  <2>2. /\ shallow_ruzta_cache[p] \in Objs \cup {Nil}
        /\ full_ruzta_cache[p] \in Objs \cup {Nil, Null}
    BY <1>2, CoreFacts DEF ScriptsSound
  <2> QED
    BY <2>1, <2>2 DEF Entry, CachedScript
<1>5. full_ruzta_cache \in [Scripts -> Objs \cup {Nil, Null}]
  BY CoreFacts DEF ScriptsSound
<1>6. o # Nil /\ o # Null
  BY <1>4, ContentAssumption
<1>7. h.op = "finish" /\ h.path = p
  BY <1>1, <1>2 DEF FrameRecord
<1> HIDE DEF f, p, o, h
<1>8. NoNull(fu) /\ Entry(p, sh, fu)
  BY <1>2, <1>5, <1>6 DEF EntriesSound, NoNull, Entry
<1> HIDE DEF sh, fu
<1>9. KnownFrame(h, scr, sh, fu)
  BY <1>7, <1>8 DEF KnownFrame
<1>10. EntriesStay
  BY FinishMarkMoves, MovedStay
<1>11. NoNull(full_ruzta_cache')
  BY <1>3, <1>8 DEF CommitScripts, CommitKeeping
<1>12. NewFrames({h})
  BY <1>1, <1>3, BecomesNew DEF f
<1>13. PathsSame(scr)
  BY DEF PathsSame
<1> QED
  BY <1>3, <1>9, <1>10, <1>11, <1>12, <1>13, StillKnown

LEMMA FinishNextKnown ==
  ASSUME Core, EntriesSound, StepSound, NEW t \in Threads,
         FinishNext(t) \/ FinishCompiled(t)
  PROVE  EntriesSound'
<1> DEFINE f == Top(t)
<1>1. ~ Idle(t) /\ f.op = "finish"
      /\ CommitScripts(scr, shallow_ruzta_cache, full_ruzta_cache)
  BY DEF FinishNext, FinishCompiled, Running, KeepScripts
<1>2. f \in FrameRecord
  BY <1>1, PathFacts
<1>3. Entry(f.path, shallow_ruzta_cache, full_ruzta_cache)
  BY <1>1, TopKnown DEF KnownFrame
<1>4. EntriesStay /\ UNCHANGED full_ruzta_cache
  BY <1>1 DEF CommitScripts, CommitKeeping, EntriesStay, Entry
<1>5. PathsSame(scr)
  BY DEF PathsSame
<1>6. CASE FinishNext(t)
  <2>1. PICK q : Call(t, [f EXCEPT !.pc = "compiling", !.todo = @ \ {q}], FullFrame(q, FALSE))
    BY <1>6 DEF FinishNext
  <2> DEFINE h == [f EXCEPT !.pc = "compiling", !.todo = @ \ {q}]
             e == FullFrame(q, FALSE)
  <2>2. h.op = "finish" /\ h.path = f.path /\ e.op = "full"
    BY <1>1, <1>2 DEF FrameRecord, FullFrame, Frame
  <2> HIDE DEF f, h, e
  <2>3. /\ KnownFrame(h, scr, shallow_ruzta_cache, full_ruzta_cache)
        /\ KnownFrame(e, scr, shallow_ruzta_cache, full_ruzta_cache)
    BY <1>3, <2>2 DEF KnownFrame
  <2>4. NewFrames({h, e})
    BY <1>1, <2>1, CallsNew DEF f, h, e
  <2> QED
    BY <1>1, <1>4, <1>5, <2>3, <2>4, StayedNoNull, StillKnown
<1>7. CASE FinishCompiled(t)
  <2> DEFINE h == [f EXCEPT !.pc = "depends", !.err = @ \/ ~ ret[t]]
  <2>1. Become(t, h)
    BY <1>7 DEF FinishCompiled
  <2>2. h.op = "finish" /\ h.path = f.path
    BY <1>1, <1>2 DEF FrameRecord
  <2> HIDE DEF f, h
  <2>3. KnownFrame(h, scr, shallow_ruzta_cache, full_ruzta_cache)
    BY <1>3, <2>2 DEF KnownFrame
  <2>4. NewFrames({h})
    BY <1>1, <2>1, BecomesNew DEF f
  <2> QED
    BY <1>1, <1>4, <1>5, <2>3, <2>4, StayedNoNull, StillKnown
<1> QED
  BY <1>6, <1>7

(* Activations that end, and load nothing.                                 *)
LEMMA ReturnKnown ==
  ASSUME Core, EntriesSound, StepSound, NEW t \in Threads,
         ReloadBusy(t) \/ FinishReturn(t) \/ FullCached(t) \/ QueryReturn(t)
  PROVE  EntriesSound'
<1>1. ~ Idle(t) /\ CommitScripts(scr, shallow_ruzta_cache, full_ruzta_cache)
  BY DEF ReloadBusy, FinishReturn, FullCached, QueryReturn, Running, KeepScripts
<1>2. \E ok : Return(t, ok)
  BY DEF ReloadBusy, FinishReturn, FullCached, QueryReturn
<1>3. Quietly
  BY <1>1, <1>2, QuietReturn
<1> QED
  BY <1>1, <1>3, SameScripts, SilentStep

LEMMA FullReloadKnown ==
  ASSUME Core, TablesTyped(disk, dependencies, ret), EntriesSound, StepSound,
         NEW t \in Threads, FullReload(t)
  PROVE  EntriesSound'
<1> DEFINE f == Top(t)
           p == f.path
           s == GetShallowScript(p, reg, stage)
           o == IF full_ruzta_cache[p] = Nil THEN s.obj ELSE full_ruzta_cache[p]
           sc == IF f.fromDisk THEN [s.scr EXCEPT ![o].source = disk[p]] ELSE s.scr
           h == [f EXCEPT !.pc = "reloaded", !.obj = o]
           e == ReloadFrame(o)
<1>1. ~ Idle(t) /\ f.op = "full" /\ (ShallowNeedsFresh(p) => SpareRef /\ SpareObj)
  BY DEF FullReload, Running
<1>2. f \in FrameRecord /\ p \in Scripts
  BY <1>1, PathFacts
<1>3. \/ Return(t, FALSE) /\ CommitScripts(scr, shallow_ruzta_cache, full_ruzta_cache)
      \/ o \in Objs /\ Call(t, h, e) /\ CommitScripts(sc, s.shallow, full_ruzta_cache)
  BY DEF FullReload
<1>4. PathsSame(s.scr) /\ s.scr \in [Objs -> ScriptRecord]
  BY <1>1, <1>2, ShallowPaths
<1>5. TablesMoved
  BY FullReloadMoves
<1>6. Silent(h) /\ Silent(e)
  BY <1>1, <1>2 DEF Silent, FrameRecord, ReloadFrame, Frame
<1> HIDE DEF p, s, o, h, e
<1>7. CASE Return(t, FALSE) /\ CommitScripts(scr, shallow_ruzta_cache, full_ruzta_cache)
  <2>1. Quietly
    BY <1>1, <1>7, QuietReturn
  <2> QED
    BY <1>7, <2>1, SameScripts, SilentStep
<1>8. CASE o \in Objs /\ Call(t, h, e) /\ CommitScripts(sc, s.shallow, full_ruzta_cache)
  <2>1. PathsSame(sc)
    BY <1>4, <1>8 DEF PathsSame, ScriptRecord
  <2>2. Quietly
    BY <1>1, <1>6, <1>8, QuietCall
  <2>3. UNCHANGED full_ruzta_cache
    BY <1>8 DEF CommitScripts, CommitKeeping
  <2> HIDE DEF sc
  <2> QED
    BY <1>5, <1>8, <2>1, <2>2, <2>3, SilentStep
<1> QED
  BY <1>3, <1>7, <1>8

LEMMA FullReturnKnown ==
  ASSUME Core, EntriesSound, StepSound, NEW t \in Threads, FullReturn(t)
  PROVE  EntriesSound'
<1> DEFINE f == Top(t)
           sh == IF ret[t] THEN [shallow_ruzta_cache EXCEPT ![f.path] = Nil]
                 ELSE shallow_ruzta_cache
           fu == IF ret[t] THEN [full_ruzta_cache EXCEPT ![f.path] = f.obj]
                 ELSE full_ruzta_cache
<1>1. ~ Idle(t) /\ f.op = "full" /\ f.pc = "reloaded" /\ \E ok : Return(t, ok)
  BY DEF FullReturn, Running
<1>2. f.path \in Scripts /\ f.obj \in Objs
  BY <1>1, PathFacts DEF FrameSound, FrameRecord
<1>3. CommitScripts(scr, sh, fu)
  BY DEF FullReturn, Promoted
<1>4. NoNull(fu)
  <2>1. full_ruzta_cache \in [Scripts -> Objs \cup {Nil, Null}] /\ f.obj # Null
    BY <1>2, CoreFacts, ContentAssumption DEF ScriptsSound
  <2> QED
    BY <1>2, <2>1 DEF EntriesSound, NoNull
<1>5. EntriesStay
  BY FullReturnMoves, MovedStay
<1>6. NewFrames({})
  BY <1>1, ReturnsNew
<1> HIDE DEF sh, fu
<1>7. NoNull(full_ruzta_cache') /\ PathsSame(scr)
  BY <1>3, <1>4 DEF CommitScripts, CommitKeeping, PathsSame
<1> QED
  BY <1>3, <1>5, <1>6, <1>7, StillKnown

LEMMA StepKnown ==
  ASSUME Core, TablesTyped(disk, dependencies, ret), EntriesSound, StepSound,
         NEW t \in Threads, Step(t)
  PROVE  EntriesSound'
BY RaiseKnown, ReloadFreeKnown, ReloadFlagKnown, ReloadLookKnown, ReloadAnnounceKnown,
   ReloadGoesKnown, ReloadParseKnown, ReloadCompileKnown, ReloadReturnKnown,
   FinishMarkKnown, FinishNextKnown, ReturnKnown, FullReloadKnown, FullReturnKnown DEF Step

LEMMA RequestKnown ==
  ASSUME Core, EntriesSound, StepSound, NEW t \in Threads,
         \/ \E p \in Scripts, fromDisk \in BOOLEAN : Load(t, p, fromDisk)
         \/ \E o \in Objs : HotReload(t, o)
         \/ \E p \in Scripts, target \in {INTERFACE_SOLVED, FULLY_SOLVED} :
              QueryParser(t, p, target)
  PROVE  EntriesSound'
<1>1. Quietly
  BY RequestQuiet
<1>2. CASE \/ \E p \in Scripts, fromDisk \in BOOLEAN : Load(t, p, fromDisk)
           \/ \E p \in Scripts, target \in {INTERFACE_SOLVED, FULLY_SOLVED} :
                QueryParser(t, p, target)
  <2>1. CommitScripts(scr, shallow_ruzta_cache, full_ruzta_cache)
    BY <1>2 DEF Load, QueryParser, KeepScripts
  <2> QED
    BY <1>1, <2>1, SameScripts, SilentStep
<1>3. ASSUME NEW o \in Objs, HotReload(t, o)
      PROVE  EntriesSound'
  <2> DEFINE c == disk[scr[o].path]
             sc == IF c = Nil THEN scr ELSE [scr EXCEPT ![o].source = c]
  <2>1. CommitScripts(sc, shallow_ruzta_cache, full_ruzta_cache)
    BY <1>3 DEF HotReload
  <2>2. PathsSame(sc)
    BY CoreFacts DEF PathsSame, ScriptsSound, ScriptRecord
  <2>3. TablesMoved /\ UNCHANGED full_ruzta_cache
    BY <2>1 DEF CommitScripts, CommitKeeping, TablesMoved, Untouched
  <2> HIDE DEF sc
  <2> QED
    BY <1>1, <2>1, <2>2, <2>3, SilentStep
<1> QED
  BY <1>2, <1>3

(* A script is removed or moved while no request runs.                     *)
RemovesAlone ==
  \A t \in Threads :
    ((\E p \in Scripts : RemoveCached(t, p))
       \/ \E from, to \in Scripts : MoveCached(t, from, to)) => AllIdle

LEMMA RemovalKnown ==
  ASSUME Core, EntriesSound, AllIdle, NEW t \in Threads,
         \/ \E p \in Scripts : RemoveCached(t, p)
         \/ \E from, to \in Scripts : MoveCached(t, from, to)
  PROVE  EntriesSound'
<1>1. full_ruzta_cache \in [Scripts -> Objs \cup {Nil, Null}]
  BY CoreFacts DEF ScriptsSound
<1>2. \A u \in Threads : Len(stack[u]) = 0
  BY DEF AllIdle, Idle
<1>3. ASSUME NEW p \in Scripts, RemoveCached(t, p)
      PROVE  EntriesSound'
  <2>1. full_ruzta_cache' = [full_ruzta_cache EXCEPT ![p] = Nil]
    BY <1>3 DEF RemoveCached, CommitKeeping
  <2>2. \A u \in Threads : 1..Len(stack'[u]) = {}
    BY <1>3, RemovedIdle
  <2> QED
    BY <1>1, <2>1, <2>2, ContentAssumption DEF EntriesSound, NoNull, Known
<1>4. ASSUME NEW from \in Scripts, NEW to \in Scripts, MoveCached(t, from, to)
      PROVE  EntriesSound'
  <2> DEFINE fu == full_ruzta_cache
  <2>1. /\ fu' = [fu EXCEPT ![to] = IF fu[from] # Nil THEN fu[from] ELSE fu[to],
                            ![from] = Nil]
        /\ UNCHANGED stack
    BY <1>4 DEF MoveCached, CommitKeeping
  <2> QED
    BY <1>1, <1>2, <2>1, ContentAssumption DEF EntriesSound, NoNull, Known
<1> QED
  BY <1>3, <1>4

LEMMA NextKnown ==
  CacheIInv /\ EntriesSound /\ [CacheNext]_cvars /\ [RemovesAlone]_cvars => EntriesSound'
<1> SUFFICES ASSUME Core, TablesTyped(disk, dependencies, ret), EntriesSound,
                    [CacheNext]_cvars, [RemovesAlone]_cvars
             PROVE  EntriesSound'
  BY DEF CacheIInv
<1>1. ASSUME NEW t \in Threads, Step(t) PROVE EntriesSound'
  BY <1>1, StepOfThread, StepKnown
<1>2. ASSUME NEW t \in Threads, Outside(t) PROVE EntriesSound'
  <2>1. StepSound
    BY <1>2, StepFromOutside
  <2>2. CASE \/ \E p \in Scripts : RemoveCached(t, p)
             \/ \E from, to \in Scripts : MoveCached(t, from, to)
    <3>1. CASE UNCHANGED cvars
      BY <3>1 DEF cvars, scripts, EntriesSound, NoNull, Known, KnownFrame, Entry
    <3>2. CASE RemovesAlone
      BY <2>2, <3>2, RemovalKnown DEF RemovesAlone
    <3> QED
      BY <3>1, <3>2
  <2> QED
    BY <1>2, <2>1, <2>2, RequestKnown DEF Outside
<1>3. ASSUME NEW p \in Scripts, NEW c \in Content \cup {Nil}, EditFile(p, c)
      PROVE  EntriesSound'
  BY <1>3 DEF EditFile, scripts, EntriesSound, NoNull, Known, KnownFrame, Entry
<1>4. CASE UNCHANGED cvars
  BY <1>4 DEF cvars, scripts, EntriesSound, NoNull, Known, KnownFrame, Entry
<1> QED
  BY <1>1, <1>2, <1>3, <1>4 DEF CacheNext, Finished

(***************************************************************************)
(* The full table never gets a null script from which every later load of  *)
(* the path would be answered, if scripts are removed and moved only while *)
(* no request runs.  A removal during the reload of another thread breaks  *)
(* it: finish_compiling then looks for an entry that is gone.              *)
(***************************************************************************)
THEOREM NeverNull == CacheSafety /\ [][RemovesAlone]_cvars => []FullNeverNull
<1>1. CacheInit => EntriesSound
  BY ContentAssumption DEF CacheInit, EntriesSound, NoNull, Known
<1>2. EntriesSound => FullNeverNull
  BY DEF EntriesSound, NoNull, FullNeverNull
<1> QED
  BY <1>1, <1>2, NextKnown, SpecCacheIInv, PTL DEF CacheSafety

(* One thread runs one request at a time and removes scripts in between,   *)
(* so it never caches a null script.                                       *)
THEOREM NeverNullAlone ==
  ASSUME \A t, u \in Threads : t = u
  PROVE  CacheSafety => []FullNeverNull
<1>1. CacheNext => RemovesAlone
  BY DEF RemovesAlone, AllIdle, RemoveCached, MoveCached
<1> QED
  BY <1>1, NeverNull, PTL DEF CacheSafety

-----------------------------------------------------------------------------
(***************************************************************************)
(* Full scripts are ready.  A cycle of scripts makes an object full before *)
(* it is compiled (finish_compiling), so readiness is no invariant of the  *)
(* tables alone: an unfinished object must be one that a reload further    *)
(* down the chain of calls is at work on.                                  *)
(***************************************************************************)
(* A reload that has set the reloading flag, and the objects of the stacks *)
(* k that have one.                                                        *)
Works(f) == f.op = "reload" /\ f.pc \notin {"start", "flag"}

WorkedOn(k) ==
  {o \in Objs : \E u \in Threads : \E i \in 1..Len(k[u]) : Works(k[u][i]) /\ k[u][i].obj = o}

(* Ready, or to be finished by the reload that is at work on it.           *)
Settled(sc, o) == sc[o].reloading \/ (sc[o].valid /\ sc[o].initialized)

(* No stage has failed, and a recorded base class is the one of the text.  *)
StagesRight(g, st) ==
  \A r \in RefIds :
    /\ st[r].ok
    /\ st[r].base # Nil =>
         st[r].tree \in Trees /\ g.ref[st[r].base].path = st[r].tree.ext

(* The objects with a path are those in the tables, each under its path.   *)
Shelved(sc, sh, fu) ==
  /\ \A p \in Scripts : fu[p] # Null /\ (sh[p] = Nil \/ fu[p] = Nil)
  /\ \A p \in Scripts, o \in Objs : o \in {sh[p], fu[p]} => sc[o].path = p
  /\ \A o \in Objs : sc[o].path # Nil => o \in {sh[sc[o].path], fu[sc[o].path]}

AllSettled(sc, fu) == \A p \in Scripts : fu[p] \in Objs => Settled(sc, fu[p])

(* What an activation has to be for the object it is at work on to get     *)
(* ready: nothing has failed, a stage that looks for the base class asks   *)
(* for no other script, and a reload finds its object in the cache.        *)
FrameRight(f, sc, st) ==
  /\ f.pc \notin {"lost", "announce"} /\ ~ f.err
  /\ f.op = "raise" /\ f.pc = "stage" /\ st[f.ref].status = INHERITANCE_SOLVED
       => f.todo \cup {f.cur} \subseteq {st[f.ref].tree.ext, Nil}
  /\ f.op = "full" /\ f.obj # Nil => sc[f.obj].path = f.path
  /\ f.op = "reload" /\ f.pc = "look" => sc[f.obj].path = f.path
  /\ Works(f) => sc[f.obj].reloading /\ (f.pc = "compiled" => sc[f.obj].valid)

(* The activation e was called by f.                                       *)
Link(e, f, sc) ==
  /\ e.op = "finish" => f.op = "reload" /\ f.pc = "compiled" /\ sc[f.obj].path = e.path
  /\ f.op = "full" => f.pc = "reloaded" /\ e.op = "reload" /\ e.obj = f.obj
  /\ f.op = "reload" => f.pc \in {"analyzed", "compiled"}

(* Only one activation of a chain is at work on an object.                 *)
Linked(s, sc) ==
  /\ \A i \in 1..Len(s) : i + 1 \in 1..Len(s) => Link(s[i], s[i + 1], sc)
  /\ s # <<>> => s[Len(s)].op # "finish"
  /\ \A i, j \in 1..Len(s) : Works(s[i]) /\ Works(s[j]) /\ s[i].obj = s[j].obj => i = j

(* A load that goes on finds the object it had reloaded settled; a reload  *)
(* sets the flag of an object that nobody is at work on.                   *)
TopSettled(s, sc) == s # <<>> =>
  /\ s[1].op = "full" /\ s[1].pc = "reloaded" => Settled(sc, s[1].obj)
  /\ s[1].op = "reload" /\ s[1].pc = "flag" => ~ sc[s[1].obj].reloading

StackRight(s, sc, st) ==
  /\ \A i \in 1..Len(s) : FrameRight(s[i], sc, st)
  /\ Linked(s, sc) /\ TopSettled(s, sc)

(* The inductive invariant, while the texts are in order.                  *)
HealthyIInv ==
  /\ \A t \in Threads : ret[t] /\ StackRight(stack[t], scr, stage)
  /\ StagesRight(reg, stage)
  /\ Shelved(scr, shallow_ruzta_cache, full_ruzta_cache)
  /\ AllSettled(scr, full_ruzta_cache)
  /\ \A o \in Objs : scr[o].reloading => o \in WorkedOn(stack)

(* What a step may do to the objects and parsers of frames that stay.      *)
Milder(sc, o) ==
  \A x \in Objs : scr[x].path # Nil =>
    /\ sc[x].path = scr[x].path
    /\ x # o => /\ scr[x].reloading => sc[x].reloading
                /\ scr[x].valid => sc[x].valid

Calmer(st) ==
  \A r \in Live(reg) : stage[r].status >= INHERITANCE_SOLVED =>
    st[r].status >= stage[r].status /\ st[r].tree = stage[r].tree

LEMMA FrameStays ==
  ASSUME Core, NEW e \in FrameRecord, FrameSound(e, reg, stage, scr),
         FrameRight(e, scr, stage), NEW sc, NEW o, Milder(sc, o), Works(e) => e.obj # o,
         NEW st, st \in [RefIds -> StageRecord], Calmer(st)
  PROVE  FrameRight(e, sc, st)
<1>1. e.obj # Nil => e.obj \in Objs /\ scr[e.obj].path # Nil
  BY DEF FrameSound, FrameRecord
<1>2. e.op = "reload" => e.obj # Nil
  BY DEF FrameSound, ReloadSound
<1>3. ASSUME e.op = "raise", e.pc = "stage", st[e.ref].status = INHERITANCE_SOLVED
      PROVE  e.todo \cup {e.cur} \subseteq {st[e.ref].tree.ext, Nil}
  <2>1. e.ref \in Live(reg) /\ e.ref \in RefIds /\ stage[e.ref].status >= INHERITANCE_SOLVED
    BY <1>3 DEF FrameSound, RaiseSound, Live
  <2>2. st[e.ref].status >= stage[e.ref].status /\ st[e.ref].tree = stage[e.ref].tree
    BY <2>1 DEF Calmer
  <2>3. stage[e.ref].status \in Nat
    BY <2>1, CoreFacts DEF StagesSound, StageRecord, EMPTY, FULLY_SOLVED
  <2>4. stage[e.ref].status = INHERITANCE_SOLVED
    BY <1>3, <2>1, <2>2, <2>3 DEF INHERITANCE_SOLVED
  <2> QED
    BY <1>3, <2>2, <2>4 DEF FrameRight
<1>4. e.op = "full" /\ e.obj # Nil => sc[e.obj].path = e.path
  BY <1>1 DEF FrameRight, Milder
<1>5. Works(e) => sc[e.obj].reloading /\ (e.pc = "compiled" => sc[e.obj].valid)
  BY <1>1, <1>2 DEF FrameRight, Milder, Works
<1>6. e.op = "reload" /\ e.pc = "look" => sc[e.obj].path = e.path
  BY <1>1, <1>2 DEF FrameRight, Milder
<1> QED
  BY <1>3, <1>4, <1>5, <1>6 DEF FrameRight

LEMMA LinkStays ==
  ASSUME Core, NEW f \in FrameRecord, FrameSound(f, reg, stage, scr), NEW e,
         Link(e, f, scr), NEW sc, NEW o, Milder(sc, o)
  PROVE  Link(e, f, sc)
BY DEF Link, Milder, FrameSound, ReloadSound, FrameRecord

(* The stack of the thread that steps.                                     *)
LEMMA BecomesStack ==
  ASSUME Core, NEW t \in Threads, ~ Idle(t), NEW f \in FrameRecord, Become(t, f)
  PROVE  /\ Len(stack[t]) \in Nat \ {0} /\ Len(stack'[t]) = Len(stack[t])
         /\ stack'[t][1] = f /\ \A i \in 2..Len(stack[t]) : stack'[t][i] = stack[t][i]
         /\ stack'[t] # <<>>
<1>1. stack[t] \in Seq(FrameRecord) /\ stack[t] # <<>>
  BY TopSound
<1>2. stack'[t] = <<f>> \o Tail(stack[t])
  BY CoreFacts DEF Become
<1> QED
  BY <1>1, <1>2, TopReplaced

LEMMA CallsStack ==
  ASSUME Core, NEW t \in Threads, ~ Idle(t), NEW f \in FrameRecord, NEW e \in FrameRecord,
         Call(t, f, e)
  PROVE  /\ Len(stack[t]) \in Nat \ {0} /\ Len(stack'[t]) = Len(stack[t]) + 1
         /\ stack'[t][1] = e /\ stack'[t][2] = f
         /\ \A i \in 2..Len(stack[t]) : stack'[t][i + 1] = stack[t][i]
         /\ stack'[t] # <<>>
<1> DEFINE m == <<f>> \o Tail(stack[t])
           n == <<e>> \o m
<1>1. stack[t] \in Seq(FrameRecord) /\ stack[t] # <<>>
  BY TopSound
<1>2. Tail(stack[t]) \in Seq(FrameRecord)
  BY <1>1, TakenOff
<1>3. stack'[t] = n
  BY <1>2, TwoOnTop, CoreFacts DEF Call
<1>4. /\ m \in Seq(FrameRecord) /\ Len(m) = Len(stack[t]) /\ m[1] = f
      /\ \A i \in 2..Len(stack[t]) : m[i] = stack[t][i]
  BY <1>1, TopReplaced
<1> HIDE DEF m
<1>5. /\ n \in Seq(FrameRecord) /\ Len(n) = Len(m) + 1 /\ n[1] = e
      /\ \A j \in 1..Len(m) + 1 : j # 1 => j - 1 \in 1..Len(m) /\ n[j] = m[j - 1]
  BY <1>4, PutOnTop
<1> HIDE DEF n
<1>6. Len(stack[t]) \in Nat \ {0}
  BY <1>1
<1>7. \A i \in 1..Len(stack[t]) : n[i + 1] = m[i]
  <2> TAKE i \in 1..Len(stack[t])
  <2>1. i + 1 \in 1..Len(m) + 1 /\ i + 1 # 1 /\ (i + 1) - 1 = i
    BY <1>4, <1>6
  <2> QED
    BY <1>5, <2>1
<1>8. n[2] = f
  <2>1. 1 \in 1..Len(stack[t]) /\ 1 + 1 = 2
    BY <1>6
  <2> QED
    BY <1>4, <1>7, <2>1
<1>9. n # <<>>
  BY <1>4, <1>5, <1>6
<1> QED
  BY <1>3, <1>4, <1>5, <1>6, <1>7, <1>8, <1>9

LEMMA ReturnsStack ==
  ASSUME Core, NEW t \in Threads, ~ Idle(t), NEW ok, Return(t, ok)
  PROVE  /\ Len(stack[t]) \in Nat \ {0} /\ Len(stack'[t]) = Len(stack[t]) - 1
         /\ \A i \in 1..Len(stack'[t]) : i + 1 \in 1..Len(stack[t])
                                            /\ stack'[t][i] = stack[t][i + 1]
         /\ stack'[t] # <<>> => Len(stack'[t]) \in Nat \ {0}
<1> DEFINE n == Tail(stack[t])
<1>1. stack[t] \in Seq(FrameRecord) /\ stack[t] # <<>>
  BY TopSound
<1>2. stack'[t] = n
  BY CoreFacts DEF Return
<1>3. /\ Len(stack[t]) \in Nat \ {0} /\ n \in Seq(FrameRecord) /\ Len(n) = Len(stack[t]) - 1
      /\ \A i \in 1..Len(stack[t]) - 1 : i + 1 \in 1..Len(stack[t]) /\ n[i] = stack[t][i + 1]
  BY <1>1, TakenOff
<1> HIDE DEF n
<1>4. n # <<>> => Len(n) \in Nat \ {0}
  BY <1>3
<1> QED
  BY <1>2, <1>3, <1>4

(* What is known of the frames of a thread that is at work.                *)
LEMMA OnStack ==
  ASSUME Core, HealthyIInv, NEW t \in Threads
  PROVE  /\ \A i \in 1..Len(stack[t]) :
              /\ stack[t][i] \in FrameRecord
              /\ FrameSound(stack[t][i], reg, stage, scr)
              /\ FrameRight(stack[t][i], scr, stage)
         /\ Linked(stack[t], scr) /\ TopSettled(stack[t], scr) /\ ret[t]
<1>1. stack[t] \in Seq(FrameRecord)
      /\ \A i \in 1..Len(stack[t]) : FrameSound(stack[t][i], reg, stage, scr)
  BY CoreFacts DEF StacksSound, StackSound
<1> QED
  BY <1>1, ElementOfSeq DEF HealthyIInv, StackRight

(* The frames below the one on top, while only the object it works on may  *)
(* change.                                                                 *)
Own(t, o) == o = Nil \/ (Works(Top(t)) /\ Top(t).obj = o)

LEMMA BelowRight ==
  ASSUME Core, HealthyIInv, NEW t \in Threads, ~ Idle(t), NEW sc, NEW o,
         Own(t, o), Milder(sc, o), NEW st, st \in [RefIds -> StageRecord], Calmer(st)
  PROVE  \A i \in 2..Len(stack[t]) :
           /\ stack[t][i] \in FrameRecord
           /\ FrameRight(stack[t][i], sc, st)
           /\ Link(stack[t][i - 1], stack[t][i], sc)
<1>1. /\ Len(stack[t]) \in Nat \ {0} /\ Top(t) = stack[t][1]
      /\ Top(t).op \in {"raise", "reload", "finish", "full", "query"}
  BY TopSound DEF FrameRecord
<1> TAKE i \in 2..Len(stack[t])
<1>2. i \in 1..Len(stack[t]) /\ i - 1 \in 1..Len(stack[t]) /\ 1 \in 1..Len(stack[t])
      /\ (i - 1) + 1 = i /\ i # 1
  BY <1>1
<1> DEFINE e == stack[t][i]
<1>3. e \in FrameRecord /\ FrameSound(e, reg, stage, scr) /\ FrameRight(e, scr, stage)
  BY <1>2, OnStack
<1>4. Linked(stack[t], scr)
  BY OnStack
<1>5. Works(e) => e.obj # o
  <2> SUFFICES ASSUME Works(e), e.obj = o PROVE FALSE
    OBVIOUS
  <2>1. o # Nil
    BY <1>3 DEF FrameSound, ReloadSound, Works
  <2>2. Works(stack[t][1]) /\ stack[t][1].obj = o
    BY <1>1, <2>1 DEF Own
  <2> QED
    BY <1>2, <1>4, <2>2 DEF Linked
<1>6. Link(stack[t][i - 1], e, scr)
  BY <1>2, <1>4 DEF Linked
<1> HIDE DEF e
<1>7. FrameRight(e, sc, st)
  BY <1>3, <1>5, FrameStays
<1>8. Link(stack[t][i - 1], e, sc)
  BY <1>3, <1>6, LinkStays
<1> QED
  BY <1>3, <1>7, <1>8 DEF e

(* The top goes on: as what it was, for the object it was for.             *)
LEMMA BecomeRight ==
  ASSUME Core, HealthyIInv, NEW t \in Threads, ~ Idle(t), NEW sc, NEW o,
         Own(t, o), Milder(sc, o), NEW st, st \in [RefIds -> StageRecord], Calmer(st),
         NEW f \in FrameRecord, FrameRight(f, sc, st), Become(t, f),
         f.op = Top(t).op, f.op # "full", f.op = "reload" => f.obj = Top(t).obj,
         f.op = "finish" => f.path = Top(t).path, Works(Top(t)) => Works(f),
         Works(f) => Works(Top(t)) \/ ~ scr[f.obj].reloading,
         f.op = "reload" /\ f.pc = "flag" => ~ sc[f.obj].reloading
  PROVE  StackRight(stack'[t], sc, st)
<1> DEFINE n == stack'[t]
           s == stack[t]
<1>1. /\ Len(s) \in Nat \ {0} /\ Len(n) = Len(s) /\ n[1] = f
      /\ \A i \in 2..Len(s) : n[i] = s[i]
      /\ n # <<>> /\ Top(t) = s[1] /\ s # <<>>
  BY BecomesStack, TopSound
<1>2. \A i \in 2..Len(s) : /\ s[i] \in FrameRecord /\ FrameRight(s[i], sc, st)
                           /\ Link(s[i - 1], s[i], sc)
  BY BelowRight
<1>3. Linked(s, scr) /\ \A i \in 1..Len(s) : FrameRight(s[i], scr, stage)
  BY OnStack
<1>4. /\ f.op = s[1].op /\ (f.op = "reload" => f.obj = s[1].obj)
      /\ f.op = "finish" => f.path = s[1].path
  BY <1>1
<1>5. Works(f) => Works(s[1]) \/ ~ scr[f.obj].reloading
  BY <1>1
<1> HIDE DEF n, s
<1>6. \A i \in 1..Len(n) : FrameRight(n[i], sc, st)
  <2> TAKE i \in 1..Len(n)
  <2>1. i = 1 \/ i \in 2..Len(s)
    BY <1>1
  <2> QED
    BY <1>1, <1>2, <2>1
<1>7. \A i \in 1..Len(n) : i + 1 \in 1..Len(n) => Link(n[i], n[i + 1], sc)
  <2> SUFFICES ASSUME NEW i \in 1..Len(n), i + 1 \in 1..Len(n) PROVE Link(n[i], n[i + 1], sc)
    OBVIOUS
  <2>1. i + 1 \in 2..Len(s) /\ (i + 1) - 1 = i /\ n[i + 1] = s[i + 1]
    BY <1>1
  <2>2. Link(s[i], s[i + 1], sc)
    BY <1>2, <2>1
  <2>3. CASE i = 1
    BY <1>1, <1>4, <2>1, <2>2, <2>3 DEF Link
  <2>4. CASE i # 1
    <3>1. n[i] = s[i]
      BY <1>1, <2>4
    <3> QED
      BY <2>1, <2>2, <3>1
  <2> QED
    BY <2>3, <2>4
<1>8. n[Len(n)].op # "finish"
  <2>1. CASE Len(n) = 1
    BY <1>1, <1>3, <1>4, <2>1 DEF Linked
  <2>2. CASE Len(n) # 1
    <3>1. Len(n) \in 2..Len(s)
      BY <1>1, <2>2
    <3> QED
      BY <1>1, <1>3, <3>1 DEF Linked
  <2> QED
    BY <2>1, <2>2
<1>9. ASSUME NEW i \in 2..Len(s), Works(f), Works(s[i]), s[i].obj = f.obj
      PROVE  FALSE
  <2>1. i \in 1..Len(s) /\ 1 \in 1..Len(s) /\ i # 1
    BY <1>1
  <2>2. CASE Works(s[1])
    <3>1. s[1].obj = f.obj
      BY <1>4, <1>9 DEF Works
    <3> QED
      BY <1>3, <1>9, <2>1, <2>2, <3>1 DEF Linked
  <2>3. CASE ~ scr[f.obj].reloading
    BY <1>3, <1>9, <2>1, <2>3 DEF FrameRight
  <2> QED
    BY <1>5, <1>9, <2>2, <2>3
<1>10. ASSUME NEW i \in 1..Len(n), NEW j \in 1..Len(n), Works(n[i]), Works(n[j]),
              n[i].obj = n[j].obj
       PROVE  i = j
  <2>1. (i = 1 \/ i \in 2..Len(s)) /\ (j = 1 \/ j \in 2..Len(s))
    BY <1>1
  <2>2. CASE i \in 2..Len(s) /\ j \in 2..Len(s)
    BY <1>1, <1>3, <1>10, <2>2 DEF Linked
  <2> QED
    BY <1>1, <1>9, <1>10, <2>1, <2>2
<1>11. Linked(n, sc)
  BY <1>7, <1>8, <1>10 DEF Linked
<1>12. TopSettled(n, sc)
  BY <1>1 DEF TopSettled
<1> QED
  BY <1>6, <1>11, <1>12 DEF StackRight, n

(* The top calls e.                                                        *)
LEMMA CallRight ==
  ASSUME Core, HealthyIInv, NEW t \in Threads, ~ Idle(t), NEW sc, NEW o,
         Own(t, o), Milder(sc, o), NEW st, st \in [RefIds -> StageRecord], Calmer(st),
         NEW f \in FrameRecord, FrameRight(f, sc, st),
         NEW e \in FrameRecord, FrameRight(e, sc, st), Call(t, f, e),
         f.op = Top(t).op, f.op = "reload" => f.obj = Top(t).obj,
         f.path = Top(t).path, Works(f) => Works(Top(t)),
         Link(e, f, sc), e.pc = "start"
  PROVE  StackRight(stack'[t], sc, st)
<1> DEFINE n == stack'[t]
           s == stack[t]
<1>0. Len(s) \in Nat \ {0} /\ Len(n) = Len(s) + 1
  BY CallsStack
<1>1. /\ Len(s) \in Nat \ {0} /\ Len(n) = Len(s) + 1 /\ n[1] = e /\ n[2] = f
      /\ \A i \in 2..Len(s) : n[i + 1] = s[i]
      /\ n # <<>> /\ s # <<>>
  BY CallsStack, TopSound
<1>2. \A i \in 2..Len(s) : /\ s[i] \in FrameRecord /\ FrameRight(s[i], sc, st)
                           /\ Link(s[i - 1], s[i], sc)
  BY BelowRight
<1>3. Linked(s, scr)
  BY OnStack
<1>4. f.op = s[1].op /\ (f.op = "reload" => f.obj = s[1].obj) /\ f.path = s[1].path
  BY TopSound
<1>5. (Works(f) => Works(s[1])) /\ ~ Works(e)
  BY TopSound DEF Works
<1> HIDE DEF n, s
<1>6. \A i \in 1..Len(n) : i = 1 \/ i = 2 \/ (i - 1 \in 2..Len(s) /\ n[i] = s[i - 1])
  <2> TAKE i \in 1..Len(n)
  <2> SUFFICES ASSUME i # 1, i # 2 PROVE i - 1 \in 2..Len(s) /\ n[i] = s[i - 1]
    OBVIOUS
  <2>1. i - 1 \in 2..Len(s) /\ (i - 1) + 1 = i
    BY <1>1
  <2>2. n[(i - 1) + 1] = s[i - 1]
    BY <1>1, <2>1
  <2> QED
    BY <2>1, <2>2
<1>7. \A i \in 1..Len(n) : FrameRight(n[i], sc, st)
  BY <1>1, <1>2, <1>6
<1>8. \A i \in 1..Len(n) : i + 1 \in 1..Len(n) => Link(n[i], n[i + 1], sc)
  <2> SUFFICES ASSUME NEW i \in 1..Len(n), i + 1 \in 1..Len(n) PROVE Link(n[i], n[i + 1], sc)
    OBVIOUS
  <2>1. CASE i = 1
    BY <1>1, <2>1
  <2>2. CASE i # 1
    <3>1. i \in 2..Len(s) /\ n[i + 1] = s[i] /\ Link(s[i - 1], s[i], sc)
      BY <1>1, <1>2, <2>2
    <3>2. CASE i = 2
      BY <1>1, <1>4, <3>1, <3>2 DEF Link
    <3>3. CASE i # 2
      BY <1>6, <2>2, <3>1, <3>3
    <3> QED
      BY <3>2, <3>3
  <2> QED
    BY <2>1, <2>2
<1>9. n[Len(n)].op # "finish"
  <2>1. CASE Len(s) = 1
    BY <1>1, <1>3, <1>4, <2>1 DEF Linked
  <2>2. CASE Len(s) # 1
    <3>1. \A l \in Nat \ {0} : l # 1 => l \in 2..l
      OBVIOUS
    <3>2. Len(s) \in 2..Len(s)
      BY <1>0, <2>2, <3>1
    <3>3. n[Len(n)] = s[Len(s)]
      BY <1>1, <3>2
    <3> QED
      BY <1>1, <1>3, <3>3 DEF Linked
  <2> QED
    BY <2>1, <2>2
<1>10. ASSUME NEW i \in 2..Len(s), Works(f), Works(s[i]), s[i].obj = f.obj
       PROVE  FALSE
  <2>1. i \in 1..Len(s) /\ 1 \in 1..Len(s) /\ i # 1
    BY <1>1
  <2>2. Works(s[1]) /\ s[1].obj = f.obj
    BY <1>4, <1>5, <1>10 DEF Works
  <2> QED
    BY <1>3, <1>10, <2>1, <2>2 DEF Linked
<1>11. ASSUME NEW i \in 1..Len(n), NEW j \in 1..Len(n), Works(n[i]), Works(n[j]),
              n[i].obj = n[j].obj
       PROVE  i = j
  <2>1. i # 1 /\ j # 1
    BY <1>1, <1>5, <1>11
  <2>2. CASE i # 2 /\ j # 2
    <3>1. i - 1 \in 1..Len(s) /\ j - 1 \in 1..Len(s) /\ n[i] = s[i - 1] /\ n[j] = s[j - 1]
      BY <1>1, <1>6, <2>1, <2>2
    <3>2. i - 1 = j - 1
      BY <1>3, <1>11, <3>1 DEF Linked
    <3> QED
      BY <3>2
  <2> QED
    BY <1>1, <1>6, <1>10, <1>11, <2>1, <2>2
<1>12. Linked(n, sc)
  BY <1>8, <1>9, <1>11 DEF Linked
<1>13. TopSettled(n, sc)
  BY <1>1 DEF TopSettled
<1> QED
  BY <1>7, <1>12, <1>13 DEF StackRight, n

(* The top returns.  Whoever asked for a reload finds the object settled.  *)
LEMMA ReturnRight ==
  ASSUME Core, HealthyIInv, NEW t \in Threads, ~ Idle(t), NEW sc, NEW o,
         Own(t, o), Milder(sc, o), NEW st, st \in [RefIds -> StageRecord], Calmer(st),
         NEW ok, Return(t, ok), Top(t).op = "reload" => Settled(sc, Top(t).obj)
  PROVE  StackRight(stack'[t], sc, st)
<1> DEFINE n == stack'[t]
           s == stack[t]
<1>1. /\ Len(s) \in Nat \ {0} /\ Len(n) = Len(s) - 1
      /\ \A i \in 1..Len(n) : i + 1 \in 1..Len(s) /\ n[i] = s[i + 1]
      /\ n # <<>> => Len(n) \in Nat \ {0}
      /\ Top(t) = s[1] /\ s # <<>>
  BY ReturnsStack, TopSound
<1>2. \A i \in 2..Len(s) : /\ s[i] \in FrameRecord /\ FrameRight(s[i], sc, st)
                           /\ Link(s[i - 1], s[i], sc)
  BY BelowRight
<1>3. Linked(s, scr)
  BY OnStack
<1>4. s[1].op = "reload" => Settled(sc, s[1].obj)
  BY <1>1
<1> HIDE DEF n, s
<1>5. \A i \in 1..Len(n) : FrameRight(n[i], sc, st)
  BY <1>1, <1>2
<1>6. \A i \in 1..Len(n) : i + 1 \in 1..Len(n) => Link(n[i], n[i + 1], sc)
  <2> SUFFICES ASSUME NEW i \in 1..Len(n), i + 1 \in 1..Len(n) PROVE Link(n[i], n[i + 1], sc)
    OBVIOUS
  <2>1. (i + 1) + 1 \in 2..Len(s) /\ ((i + 1) + 1) - 1 = i + 1
        /\ n[i] = s[i + 1] /\ n[i + 1] = s[(i + 1) + 1]
    BY <1>1
  <2>2. Link(s[((i + 1) + 1) - 1], s[(i + 1) + 1], sc)
    BY <1>2, <2>1
  <2> QED
    BY <2>1, <2>2
<1>7. n # <<>> => n[Len(n)].op # "finish"
  <2> SUFFICES ASSUME n # <<>> PROVE n[Len(n)].op # "finish"
    OBVIOUS
  <2>1. Len(n) \in 1..Len(n) /\ Len(n) + 1 = Len(s)
    BY <1>1
  <2>2. n[Len(n)] = s[Len(s)]
    BY <1>1, <2>1
  <2> QED
    BY <1>1, <1>3, <2>2 DEF Linked
<1>8. ASSUME NEW i \in 1..Len(n), NEW j \in 1..Len(n), Works(n[i]), Works(n[j]),
             n[i].obj = n[j].obj
      PROVE  i = j
  <2>1. i + 1 \in 1..Len(s) /\ j + 1 \in 1..Len(s) /\ n[i] = s[i + 1] /\ n[j] = s[j + 1]
    BY <1>1
  <2>2. i + 1 = j + 1
    BY <1>3, <1>8, <2>1 DEF Linked
  <2> QED
    BY <2>2
<1>9. Linked(n, sc)
  BY <1>6, <1>7, <1>8 DEF Linked
<1>10. TopSettled(n, sc)
  <2> SUFFICES ASSUME n # <<>>
               PROVE  /\ n[1].op = "full" => Settled(sc, n[1].obj)
                      /\ n[1].op = "reload" => n[1].pc # "flag"
    BY DEF TopSettled
  <2>1. n[1] = s[2] /\ 2 \in 2..Len(s) /\ 2 - 1 = 1
    BY <1>1
  <2>2. Link(s[1], s[2], sc)
    BY <1>2, <2>1
  <2> QED
    BY <1>4, <2>1, <2>2 DEF Link
<1> QED
  BY <1>5, <1>9, <1>10 DEF StackRight, n

(* A request begins.                                                       *)
LEMMA StartRight ==
  ASSUME NEW s, Len(s) = 1, NEW sc, NEW st, FrameRight(s[1], sc, st),
         s[1].op # "finish", s[1].pc = "start"
  PROVE  StackRight(s, sc, st)
<1>1. \A i \in 1..Len(s) : i = 1
  OBVIOUS
<1> QED
  BY <1>1 DEF StackRight, Linked, TopSettled

-----------------------------------------------------------------------------
(* Who is at work on an object.                                            *)
LEMMA BecomeWorks ==
  ASSUME Core, Alone, NEW t \in Threads, ~ Idle(t), NEW f \in FrameRecord, Become(t, f),
         Works(Top(t)) => Works(f) /\ f.obj = Top(t).obj
  PROVE  /\ WorkedOn(stack) \subseteq WorkedOn(stack')
         /\ Works(f) /\ f.obj \in Objs => f.obj \in WorkedOn(stack')
<1>1. /\ Len(stack[t]) \in Nat \ {0} /\ Len(stack'[t]) = Len(stack[t])
      /\ stack'[t][1] = f /\ \A i \in 2..Len(stack[t]) : stack'[t][i] = stack[t][i]
      /\ Top(t) = stack[t][1]
  BY BecomesStack, TopSound
<1>2. ASSUME NEW o \in WorkedOn(stack)
      PROVE  o \in WorkedOn(stack')
  <2>1. PICK i \in 1..Len(stack[t]) : Works(stack[t][i]) /\ stack[t][i].obj = o
    BY <1>2 DEF WorkedOn, Alone
  <2>2. Works(stack'[t][i]) /\ stack'[t][i].obj = o
    <3>1. CASE i = 1
      BY <1>1, <2>1, <3>1
    <3>2. CASE i # 1
      BY <1>1, <2>1, <3>2
    <3> QED
      BY <3>1, <3>2
  <2> QED
    BY <1>1, <1>2, <2>1, <2>2 DEF WorkedOn
<1>3. 1 \in 1..Len(stack'[t])
  BY <1>1
<1>4. Works(f) /\ f.obj \in Objs => f.obj \in WorkedOn(stack')
  BY <1>1, <1>3 DEF WorkedOn
<1> QED
  BY <1>2, <1>4

LEMMA CallWorks ==
  ASSUME Core, Alone, NEW t \in Threads, ~ Idle(t), NEW f \in FrameRecord,
         NEW e \in FrameRecord, Call(t, f, e),
         Works(Top(t)) => Works(f) /\ f.obj = Top(t).obj
  PROVE  WorkedOn(stack) \subseteq WorkedOn(stack')
<1>1. /\ Len(stack[t]) \in Nat \ {0} /\ Len(stack'[t]) = Len(stack[t]) + 1
      /\ stack'[t][2] = f /\ \A i \in 2..Len(stack[t]) : stack'[t][i + 1] = stack[t][i]
      /\ Top(t) = stack[t][1]
  BY CallsStack, TopSound
<1> SUFFICES ASSUME NEW o \in WorkedOn(stack) PROVE o \in WorkedOn(stack')
  OBVIOUS
<1>2. PICK i \in 1..Len(stack[t]) : Works(stack[t][i]) /\ stack[t][i].obj = o
  BY DEF WorkedOn, Alone
<1>3. i + 1 \in 1..Len(stack'[t])
  BY <1>1
<1>4. Works(stack'[t][i + 1]) /\ stack'[t][i + 1].obj = o
  <2>1. CASE i = 1
    BY <1>1, <1>2, <2>1
  <2>2. CASE i # 1
    BY <1>1, <1>2, <2>2
  <2> QED
    BY <2>1, <2>2
<1> QED
  BY <1>3, <1>4 DEF WorkedOn

LEMMA ReturnWorks ==
  ASSUME Core, Alone, NEW t \in Threads, ~ Idle(t), NEW ok, Return(t, ok)
  PROVE  \A o \in WorkedOn(stack) :
           o \in WorkedOn(stack') \/ (Works(Top(t)) /\ o = Top(t).obj)
<1>1. /\ Len(stack[t]) \in Nat \ {0} /\ Len(stack'[t]) = Len(stack[t]) - 1
      /\ \A i \in 1..Len(stack'[t]) : stack'[t][i] = stack[t][i + 1]
      /\ Top(t) = stack[t][1]
  BY ReturnsStack, TopSound
<1> TAKE o \in WorkedOn(stack)
<1>2. PICK i \in 1..Len(stack[t]) : Works(stack[t][i]) /\ stack[t][i].obj = o
  BY DEF WorkedOn, Alone
<1>3. CASE i = 1
  BY <1>1, <1>2, <1>3
<1>4. CASE i # 1
  <2>1. i - 1 \in 1..Len(stack'[t]) /\ (i - 1) + 1 = i
    BY <1>1, <1>4
  <2>2. stack'[t][i - 1] = stack[t][i]
    BY <1>1, <2>1
  <2> QED
    BY <1>2, <2>1, <2>2 DEF WorkedOn
<1> QED
  BY <1>3, <1>4

(* The end of a step.  No object a script has is lost by its destructors.  *)
LEMMA HealthyAfter ==
  ASSUME Alone, StepSound, NEW t \in Threads, NEW g, NEW st,
         CommitParsers(g, st), StagesRight(g, st),
         NEW sc, NEW sh, NEW fu, CommitScripts(sc, sh, fu), sc \in [Objs -> ScriptRecord],
         \A o \in Objs : sc[o] # NoScript => sc[o].path \in Scripts,
         Shelved(sc, sh, fu), AllSettled(sc, fu),
         \A o \in Objs : sc[o].reloading => o \in WorkedOn(stack'),
         StackRight(stack'[t], sc, st), ret'[t]
  PROVE  HealthyIInv'
<1> DEFINE held == {f.ref : f \in Activations(stack')} \ {Nil}
           kpt == {sh[p] : p \in Scripts} \cup {fu[p] : p \in Scripts}
                     \cup {f.obj : f \in Activations(stack')} \cup kept
           S == Survivors(g, held)
<1>1. /\ Sound(reg') /\ StagesSound(reg', stage')
      /\ StacksSound(stack', reg', stage', scr')
  BY DEF StepSound, CoreSound
<1>2. /\ reg' = Collected(g, held)
      /\ stage' = [r \in RefIds |-> IF r \in S THEN st[r] ELSE NoTree]
  BY DEF CommitParsers, Settle
<1>3. /\ shallow_ruzta_cache' = sh /\ full_ruzta_cache' = fu
      /\ scr' = [o \in Objs |-> IF o \in kpt THEN sc[o] ELSE NoScript]
  BY DEF CommitScripts, CommitKeeping
<1>4. \A p \in Scripts : sh[p] \in kpt /\ fu[p] \in kpt
  OBVIOUS
<1> HIDE DEF held, kpt
<1>5. scr' = sc
  <2>1. ASSUME NEW o \in Objs, o \notin kpt PROVE sc[o] = NoScript
    <3> SUFFICES ASSUME sc[o] # NoScript PROVE FALSE
      OBVIOUS
    <3>1. sc[o].path \in Scripts
      OBVIOUS
    <3>2. sc[o].path # Nil
      BY <3>1, RegistryAssumption
    <3>3. o \in {sh[sc[o].path], fu[sc[o].path]}
      BY <3>2 DEF Shelved
    <3> QED
      BY <1>4, <2>1, <3>1, <3>3
  <2> QED
    BY <1>3, <2>1
<1>6. \A r \in Live(reg') : /\ r \in RefIds /\ r \in S
                           /\ reg'.ref[r] = g.ref[r] /\ stage'[r] = st[r]
  <2>1. reg'.ref = [r \in RefIds |-> IF r \in S THEN g.ref[r] ELSE Dead]
    BY <1>2 DEF Collected
  <2> HIDE DEF S
  <2> QED
    BY <1>2, <2>1 DEF Live, Dead
<1> HIDE DEF S
<1>7. StagesRight(reg', stage')
  <2> SUFFICES ASSUME NEW r \in RefIds
               PROVE  /\ stage'[r].ok
                      /\ stage'[r].base # Nil =>
                           /\ stage'[r].tree \in Trees
                           /\ reg'.ref[stage'[r].base].path = stage'[r].tree.ext
    BY DEF StagesRight
  <2>1. stage'[r] = st[r] \/ stage'[r] = NoTree
    BY <1>2
  <2>2. stage'[r].ok
    BY <2>1 DEF StagesRight, NoTree
  <2>3. ASSUME stage'[r].base # Nil
        PROVE  /\ stage'[r].tree \in Trees
               /\ reg'.ref[stage'[r].base].path = stage'[r].tree.ext
    <3>1. stage'[r] = st[r]
      BY <2>1, <2>3 DEF NoTree
    <3>2. stage'[r].base \in reg'.ref[r].deps
      BY <1>1, <2>3 DEF StagesSound
    <3>3. reg'.ref[r].deps \subseteq RefIds
      BY <1>1 DEF Sound, Registry, RefRecord
    <3>4. stage'[r].base \in Live(reg')
      BY <1>1, <3>2, <3>3 DEF Sound, DepsAreRefs, Live
    <3>5. reg'.ref[stage'[r].base] = g.ref[st[r].base]
      BY <1>6, <3>1, <3>4
    <3> QED
      BY <2>3, <3>1, <3>5 DEF StagesRight
  <2> QED
    BY <2>2, <2>3
<1>8. StackRight(stack'[t], scr', stage')
  <2>1. ASSUME NEW i \in 1..Len(stack'[t])
        PROVE  FrameRight(stack'[t][i], scr', stage')
    <3>1. FrameRight(stack'[t][i], sc, st) /\ FrameSound(stack'[t][i], reg', stage', scr')
      BY <1>1, <2>1 DEF StackRight, StacksSound, StackSound
    <3>2. stack'[t][i].op = "raise" => stage'[stack'[t][i].ref] = st[stack'[t][i].ref]
      BY <1>6, <3>1 DEF FrameSound, RaiseSound
    <3> QED
      BY <1>5, <3>1, <3>2 DEF FrameRight
  <2> QED
    BY <1>5, <2>1 DEF StackRight
<1>9. \A u \in Threads : ret'[u] /\ StackRight(stack'[u], scr', stage')
  BY <1>8 DEF Alone
<1> QED
  BY <1>3, <1>5, <1>7, <1>9 DEF HealthyIInv

-----------------------------------------------------------------------------
(***************************************************************************)
(* What it means that the texts are in order.                              *)
(***************************************************************************)
LEMMA TextsFine ==
  ASSUME Healthy
  PROVE  /\ \A p \in Scripts : disk[p] # Nil /\ disk[p].health = "ok"
         /\ \A o \in Objs : scr[o].path \in Scripts /\ scr[o].source # Nil
                            => scr[o].source.health = "ok"
         /\ \A r \in Live(reg) : reg.ref[r].path \in Scripts /\ stage[r].tree \in Trees
                                 => stage[r].tree.health = "ok"
<1>1. \A p \in Scripts : disk[p] \in Texts(p) /\ disk[p] # Nil
  BY DEF Healthy, Texts
<1>2. \A o \in Objs : scr[o].path \in Scripts /\ scr[o].source # Nil
                       => scr[o].source \in Texts(scr[o].path)
  BY DEF Texts
<1>3. \A r \in Live(reg) : reg.ref[r].path \in Scripts /\ stage[r].tree # Nil
                            => stage[r].tree \in Texts(reg.ref[r].path)
  BY DEF Texts
<1>4. \A tree \in Trees : tree = Nil => tree.health = "ok"
  BY ContentAssumption DEF Trees, EmptySource
<1> QED
  BY <1>1, <1>2, <1>3, <1>4 DEF Healthy

(* A base class that is being recorded does not lead back to the script.   *)
LEMMA NoWayBack ==
  ASSUME Core, Healthy, StagesRight(reg, stage), NEW r \in Live(reg),
         stage[r].tree \in Trees, NEW d \in RefIds, d \in reg.ref[r].deps,
         reg.ref[d].path = stage[r].tree.ext,
         NEW b \in BaseChain(stage, d), reg.ref[b].path = reg.ref[r].path
  PROVE  FALSE
<1> DEFINE T == {x \in RefIds : b \in BaseChain(stage, x)}
           S == {reg.ref[x].path : x \in T}
<1>1. /\ Sound(reg) /\ StagesSound(reg, stage)
  BY CoreFacts
<1>2. \A x \in Live(reg) : x \in RefIds /\ reg.ref[x].path \in Scripts
  BY <1>1 DEF Sound, Placed, Live
<1>3. \A x \in RefIds : \A y \in reg.ref[x].deps : y \in Live(reg)
  BY <1>1 DEF Sound, DepsAreRefs, Live, Registry, RefRecord
<1>4. b \in RefIds /\ b \in T
  BY DEF BaseChain
<1>5. d \in T
  OBVIOUS
<1>6. ASSUME NEW x \in T, x # b
      PROVE  /\ stage[x].base \in T /\ stage[x].base \in Live(reg) /\ x \in Live(reg)
             /\ stage[x].base # Nil
  <2>1. x \in RefIds /\ b \in BaseChain(stage, x)
    OBVIOUS
  <2>2. stage[x].base # Nil
    <3> SUFFICES ASSUME stage[x].base = Nil PROVE FALSE
      OBVIOUS
    <3>1. {x} \in SUBSET RefIds /\ x \in {x} /\ \A y \in {x} : stage[y].base \in {x} \cup {Nil}
      BY <2>1
    <3>2. b \in {x}
      BY <2>1, <3>1 DEF BaseChain
    <3> QED
      BY <1>6, <3>2
  <2>3. x \in Live(reg) /\ stage[x].base \in reg.ref[x].deps
    BY <1>1, <2>1, <2>2 DEF StagesSound
  <2>4. stage[x].base \in Live(reg) /\ stage[x].base \in RefIds
    BY <1>2, <1>3, <2>1, <2>3
  <2>5. b \in BaseChain(stage, stage[x].base)
    <3> SUFFICES ASSUME NEW U \in SUBSET RefIds, stage[x].base \in U,
                        \A y \in U : stage[y].base \in U \cup {Nil}
                 PROVE  b \in U
      BY <1>4 DEF BaseChain
    <3> DEFINE V == U \cup {x}
    <3>1. V \in SUBSET RefIds /\ x \in V /\ \A y \in V : stage[y].base \in V \cup {Nil}
      BY <2>1
    <3> HIDE DEF V
    <3>2. b \in V
      BY <2>1, <3>1 DEF BaseChain
    <3> QED
      BY <1>6, <3>2 DEF V
  <2> QED
    BY <2>2, <2>3, <2>4, <2>5
<1>7. reg.ref[r].path \in Scripts /\ reg.ref[d].path \in Scripts /\ d \in Live(reg)
  BY <1>2, <1>3
<1>8. S \in SUBSET Scripts /\ reg.ref[d].path \in S /\ S # {}
  <2>1. \A x \in T : reg.ref[x].path \in Scripts
    BY <1>2, <1>6, <1>7
  <2> QED
    BY <1>5, <2>1
<1> HIDE DEF T
<1>9. PICK p \in S : \A c \in Texts(p) : c.ext \notin S
  BY <1>8 DEF Healthy
<1>10. PICK x \in T : p = reg.ref[x].path
  OBVIOUS
<1>11. \A tree \in Trees : tree.ext \in Scripts => tree # Nil
  BY ContentAssumption, RegistryAssumption DEF Trees, EmptySource
<1>12. \A y \in Live(reg) : stage[y].tree \in Trees /\ stage[y].tree.ext \in Scripts
                              => stage[y].tree \in Texts(reg.ref[y].path)
  BY <1>2, <1>11 DEF Texts
<1>13. CASE x = b
  <2>1. stage[r].tree \in Texts(p)
    BY <1>7, <1>10, <1>12, <1>13
  <2> QED
    BY <1>8, <1>9, <2>1
<1>14. CASE x # b
  <2>1. /\ stage[x].base \in T /\ stage[x].base \in Live(reg) /\ x \in Live(reg)
        /\ stage[x].base # Nil
    BY <1>6, <1>14
  <2>2. stage[x].tree \in Trees /\ reg.ref[stage[x].base].path = stage[x].tree.ext
    BY <1>2, <2>1 DEF StagesRight
  <2>3. stage[x].tree.ext \in Scripts /\ stage[x].tree.ext \in S
    BY <1>2, <2>1, <2>2
  <2>4. stage[x].tree \in Texts(p)
    BY <1>10, <1>12, <2>1, <2>2, <2>3
  <2> QED
    BY <1>9, <2>3, <2>4
<1> QED
  BY <1>13, <1>14

(* The stages after an operation of the registry, and of one more parser.  *)
LEMMA StagesRightKept ==
  ASSUME Core, StagesRight(reg, stage), NEW g, Keeps(reg, g)
  PROVE  StagesRight(g, stage)
<1> SUFFICES ASSUME NEW r \in RefIds, stage[r].base # Nil
             PROVE  g.ref[stage[r].base].path = stage[r].tree.ext
  BY DEF StagesRight
<1>1. stage[r].base \in reg.ref[r].deps /\ r \in Live(reg)
  BY CoreFacts DEF StagesSound
<1>2. stage[r].base \in Live(reg)
  BY <1>1, CoreFacts DEF Sound, DepsAreRefs, Live, Registry, RefRecord
<1> QED
  BY <1>2 DEF StagesRight, Keeps

LEMMA StagesRightUpdated ==
  ASSUME NEW g, NEW st, StagesRight(g, st), st \in [RefIds -> StageRecord],
         NEW r \in RefIds, NEW e, e.ok,
         e.base # Nil => e.tree \in Trees /\ g.ref[e.base].path = e.tree.ext
  PROVE  StagesRight(g, Updated(st, r, e))
BY DEF StagesRight, Updated

LEMMA CalmerUpdated ==
  ASSUME Core, NEW r \in RefIds, NEW e,
         stage[r].status >= INHERITANCE_SOLVED =>
           e.status >= stage[r].status /\ e.tree = stage[r].tree
  PROVE  Calmer(stage) /\ Calmer(Updated(stage, r, e))
<1>1. \A x \in RefIds : stage[x].status \in Nat
  BY CoreFacts DEF StagesSound, StageRecord, EMPTY, FULLY_SOLVED
<1> QED
  BY <1>1, CoreFacts DEF Calmer, Updated, StagesSound, Live

(* get_shallow_script finds a script or makes one.                         *)
LEMMA ShallowRight ==
  ASSUME Core, TablesTyped(disk, dependencies, ret), HealthyIInv, Healthy,
         NEW p \in Scripts, ShallowNeedsFresh(p) => SpareRef /\ SpareObj
  PROVE  LET s == GetShallowScript(p, reg, stage)
         IN /\ s.obj \in Objs /\ s.scr[s.obj].path = p
            /\ full_ruzta_cache[p] # Nil => s.obj = full_ruzta_cache[p]
            /\ StagesRight(s.g, s.st) /\ Calmer(s.st) /\ s.st \in [RefIds -> StageRecord]
            /\ s.scr \in [Objs -> ScriptRecord]
            /\ \A o \in Objs : s.scr[o] # NoScript => s.scr[o].path \in Scripts
            /\ Shelved(s.scr, s.shallow, full_ruzta_cache)
            /\ AllSettled(s.scr, full_ruzta_cache)
            /\ \A o \in Objs : scr[o].path # Nil => s.scr[o] = scr[o]
            /\ \A o \in Objs : s.scr[o].reloading => scr[o].reloading
            /\ Milder(s.scr, Nil)
<1> DEFINE s == GetShallowScript(p, reg, stage)
           sh == shallow_ruzta_cache
           fu == full_ruzta_cache
<1>1. /\ StagesRight(reg, stage) /\ Shelved(scr, sh, fu) /\ AllSettled(scr, fu)
  BY DEF HealthyIInv
<1>2. /\ scr \in [Objs -> ScriptRecord] /\ stage \in [RefIds -> StageRecord]
      /\ sh \in [Scripts -> Objs \cup {Nil}] /\ fu \in [Scripts -> Objs \cup {Nil, Null}]
      /\ \A o \in Objs : scr[o] # NoScript => scr[o].path # Nil
      /\ \A q \in Scripts, o \in Objs : o \in {sh[q], fu[q]} => scr[o].path # Nil
      /\ Sound(reg)
  BY CoreFacts DEF ScriptsSound, StagesSound
<1>3. \A o \in Objs : scr[o] # NoScript => scr[o].path \in Scripts
  BY <1>2 DEF ScriptRecord
<1>4. Calmer(stage)
  <2>1. \A x \in RefIds : stage[x].status \in Nat
    BY <1>2 DEF StageRecord, EMPTY, FULLY_SOLVED
  <2> QED
    BY <2>1 DEF Calmer, Live
<1>5. disk[p] # Nil /\ disk[p].health = "ok" /\ disk[p] \in Content
  BY TextsFine DEF TablesTyped
<1>6. CASE ~ ShallowNeedsFresh(p)
  <2>1. s = [g |-> reg, st |-> stage, scr |-> scr, shallow |-> sh, obj |-> CachedScript(p)]
    BY <1>6 DEF GetShallowScript
  <2>2. CachedScript(p) \in Objs /\ CachedScript(p) \in {sh[p], fu[p]}
        /\ (fu[p] # Nil => CachedScript(p) = fu[p])
    BY <1>1, <1>2, <1>5, <1>6 DEF ShallowNeedsFresh, CachedScript, Shelved
  <2>3. scr[CachedScript(p)].path = p
    BY <1>1, <2>2 DEF Shelved
  <2>4. Milder(scr, Nil)
    BY DEF Milder
  <2> HIDE DEF s
  <2> QED
    BY <1>1, <1>2, <1>3, <1>4, <2>1, <2>2, <2>3, <2>4 DEF s
<1>7. CASE ShallowNeedsFresh(p)
  <2> DEFINE r == Answer(reg, p, FreshRef)
             o == FreshObj
             g == GetParser(reg, p, Nil, FreshRef)
             e == Parsed(p)
             st == IF stage[r].status = EMPTY THEN Updated(stage, r, e) ELSE stage
             x == [NoScript EXCEPT !.path = p, !.source = disk[p]]
             sc == Updated(scr, o, x)
             nsh == Updated(sh, p, o)
  <2>1. s = [g |-> g, st |-> st, scr |-> sc, shallow |-> nsh, obj |-> o]
    BY <1>7 DEF GetShallowScript, Updated
  <2>2. /\ FreshRef \in RefIds /\ reg.ref[FreshRef].kind = "dead"
        /\ o \in Objs /\ scr[o] = NoScript
    BY <1>7 DEF SpareRef, SpareObj, FreshRef, FreshObj
  <2>3. Keeps(reg, g) /\ r \in RefIds
    BY <1>2, <2>2, GetParserKeeps
  <2>4. e \in StageRecord /\ e.base = Nil /\ e.ok
    BY <1>5, ParsedTyped DEF Parsed, SourceOf
  <2> HIDE DEF g, r, e
  <2>5. StagesRight(g, stage)
    BY <1>1, <2>3, StagesRightKept
  <2>6. StagesRight(g, Updated(stage, r, e))
    BY <1>2, <2>3, <2>4, <2>5, StagesRightUpdated
  <2>7. Updated(stage, r, e) \in [RefIds -> StageRecord]
    BY <1>2, <2>3, <2>4 DEF Updated
  <2>8. stage[r].status = EMPTY => Calmer(Updated(stage, r, e))
    <3>1. EMPTY < INHERITANCE_SOLVED
      BY DEF EMPTY, INHERITANCE_SOLVED
    <3>2. stage[r].status = EMPTY => ~ (stage[r].status >= INHERITANCE_SOLVED)
      BY DEF EMPTY, INHERITANCE_SOLVED
    <3> QED
      BY <2>3, <3>2, CalmerUpdated
  <2>9. StagesRight(g, st) /\ Calmer(st) /\ st \in [RefIds -> StageRecord]
    BY <1>2, <1>4, <2>5, <2>6, <2>7, <2>8
  <2> HIDE DEF st
  <2>10. /\ x \in ScriptRecord /\ x.path = p /\ x.path # Nil /\ ~ x.reloading
    BY <1>5, RegistryAssumption DEF NoScript, ScriptRecord
  <2> HIDE DEF o, x
  <2>11. /\ sc \in [Objs -> ScriptRecord] /\ sc[o] = x
         /\ \A y \in Objs \ {o} : sc[y] = scr[y]
    BY <1>2, <2>2, <2>10 DEF Updated
  <2>12. scr[o].path = Nil
    BY <2>2 DEF NoScript
  <2>13. \A q \in Scripts : sh[q] # o /\ fu[q] # o
    BY <1>2, <2>2, <2>12
  <2>14. sh[p] = Nil /\ fu[p] = Nil
    BY <1>7 DEF ShallowNeedsFresh, CachedScript
  <2>15. nsh[p] = o /\ \A q \in Scripts \ {p} : nsh[q] = sh[q]
    BY <1>2 DEF Updated
  <2> HIDE DEF sc, nsh
  <2>16. \A y \in Objs : sc[y] # NoScript => sc[y].path \in Scripts
    BY <1>3, <2>10, <2>11
  <2>17. Shelved(sc, nsh, fu)
    <3>1. \A q \in Scripts : fu[q] # Null /\ (nsh[q] = Nil \/ fu[q] = Nil)
      BY <1>1, <2>14, <2>15 DEF Shelved
    <3>2. ASSUME NEW q \in Scripts, NEW y \in Objs, y \in {nsh[q], fu[q]}
          PROVE  sc[y].path = q
      <4>1. CASE q = p
        BY <2>10, <2>11, <2>14, <2>15, <3>2, <4>1, ContentAssumption
      <4>2. CASE q # p
        BY <1>1, <2>11, <2>13, <2>15, <3>2, <4>2 DEF Shelved
      <4> QED
        BY <4>1, <4>2
    <3>3. ASSUME NEW y \in Objs, sc[y].path # Nil
          PROVE  y \in {nsh[sc[y].path], fu[sc[y].path]}
      <4>1. CASE y = o
        BY <2>10, <2>11, <2>15, <4>1
      <4>2. CASE y # o
        <5>1. sc[y] = scr[y] /\ scr[y].path # Nil /\ scr[y].path \in Scripts
          BY <1>2, <2>11, <3>3, <4>2 DEF ScriptRecord
        <5>2. y \in {sh[scr[y].path], fu[scr[y].path]}
          BY <1>1, <5>1 DEF Shelved
        <5>3. scr[y].path # p
          BY <2>14, <5>2, ContentAssumption
        <5> QED
          BY <2>15, <5>1, <5>2, <5>3
      <4> QED
        BY <4>1, <4>2
    <3> QED
      BY <3>1, <3>2, <3>3 DEF Shelved
  <2>18. AllSettled(sc, fu)
    BY <1>1, <2>11, <2>13 DEF AllSettled, Settled
  <2>19. \A y \in Objs : scr[y].path # Nil => sc[y] = scr[y]
    BY <2>11, <2>12
  <2>20. \A y \in Objs : sc[y].reloading => scr[y].reloading
    BY <2>10, <2>11
  <2>21. Milder(sc, Nil)
    BY <2>19 DEF Milder
  <2> HIDE DEF s
  <2> QED
    BY <2>1, <2>2, <2>9, <2>10, <2>11, <2>14, <2>16, <2>17, <2>18, <2>19, <2>20, <2>21 DEF s
<1> QED
  BY <1>6, <1>7
-----------------------------------------------------------------------------
(***************************************************************************)
(* Every action of a thread at work.                                       *)
(***************************************************************************)
Sane == Core /\ TablesTyped(disk, dependencies, ret) /\ HealthyIInv /\ Healthy /\ Alone

LEMMA SaneFacts ==
  ASSUME Sane
  PROVE  /\ scr \in [Objs -> ScriptRecord] /\ stage \in [RefIds -> StageRecord]
         /\ \A o \in Objs : scr[o] # NoScript => scr[o].path \in Scripts
         /\ \A o \in Objs : scr[o].path # Nil => scr[o].path \in Scripts
                              /\ scr[o].source # Nil /\ scr[o].source \in Content
                              /\ scr[o].source.health = "ok"
         /\ StagesRight(reg, stage) /\ Calmer(stage)
         /\ Shelved(scr, shallow_ruzta_cache, full_ruzta_cache)
         /\ AllSettled(scr, full_ruzta_cache)
         /\ \A o \in Objs : scr[o].reloading => o \in WorkedOn(stack)
         /\ Milder(scr, Nil) /\ \A t \in Threads : Own(t, Nil)
         /\ Core /\ TablesTyped(disk, dependencies, ret) /\ HealthyIInv /\ Healthy /\ Alone
         /\ Sound(reg) /\ StagesSound(reg, stage) /\ \A t \in Threads : ret[t]
<1>1. /\ scr \in [Objs -> ScriptRecord] /\ stage \in [RefIds -> StageRecord]
      /\ Sound(reg) /\ StagesSound(reg, stage)
      /\ \A o \in Objs : scr[o] # NoScript => scr[o].path # Nil /\ scr[o].source # Nil
  BY CoreFacts DEF Sane, StagesSound, ScriptsSound
<1>2. \A o \in Objs : scr[o].path \in Scripts \cup {Nil} /\ scr[o].source \in Content \cup {Nil}
  BY <1>1 DEF ScriptRecord
<1>3. NoScript.path = Nil
  BY DEF NoScript
<1>4. \A o \in Objs : scr[o].path # Nil => scr[o].path \in Scripts
                              /\ scr[o].source # Nil /\ scr[o].source \in Content
                              /\ scr[o].source.health = "ok"
  BY <1>1, <1>2, <1>3, TextsFine DEF Sane
<1>5. Calmer(stage)
  <2>1. \A x \in RefIds : stage[x].status \in Nat
    BY <1>1 DEF StageRecord, EMPTY, FULLY_SOLVED
  <2> QED
    BY <2>1 DEF Calmer, Live
<1>6. Milder(scr, Nil) /\ \A t \in Threads : Own(t, Nil)
  BY DEF Milder, Own
<1> QED
  BY <1>1, <1>2, <1>4, <1>5, <1>6 DEF Sane, HealthyIInv

(* No script changes.                                                      *)
LEMMA ScriptsSame ==
  ASSUME Sane, StepSound, NEW t \in Threads, NEW g, NEW st,
         CommitParsers(g, st), StagesRight(g, st),
         CommitScripts(scr, shallow_ruzta_cache, full_ruzta_cache),
         WorkedOn(stack) \subseteq WorkedOn(stack'),
         StackRight(stack'[t], scr, st), ret'[t]
  PROVE  HealthyIInv'
BY SaneFacts, HealthyAfter

(* The activation on top goes on, and no script changes.                   *)
LEMMA BecomeGoes ==
  ASSUME Sane, StepSound, NEW t \in Threads, ~ Idle(t), Top(t).op \in {"raise", "finish"},
         NEW g, NEW st, st \in [RefIds -> StageRecord], Calmer(st), StagesRight(g, st),
         CommitParsers(g, st),
         CommitScripts(scr, shallow_ruzta_cache, full_ruzta_cache), UNCHANGED ret,
         NEW f \in FrameRecord, f.op = Top(t).op, f.path = Top(t).path,
         FrameRight(f, scr, st), Become(t, f)
  PROVE  HealthyIInv'
<1>1. ~ Works(Top(t)) /\ ~ Works(f)
  BY DEF Works
<1>2. StackRight(stack'[t], scr, st)
  BY <1>1, SaneFacts, BecomeRight
<1>3. WorkedOn(stack) \subseteq WorkedOn(stack')
  BY <1>1, SaneFacts, BecomeWorks
<1>4. ret'[t]
  BY SaneFacts
<1> QED
  BY <1>2, <1>3, <1>4, ScriptsSame

LEMMA TopRight ==
  ASSUME Sane, NEW t \in Threads, ~ Idle(t)
  PROVE  /\ Top(t) \in FrameRecord /\ FrameRight(Top(t), scr, stage)
         /\ FrameSound(Top(t), reg, stage, scr)
         /\ Linked(stack[t], scr) /\ TopSettled(stack[t], scr) /\ ret[t]
         /\ Top(t) = stack[t][1] /\ Len(stack[t]) \in Nat \ {0} /\ stack[t] # <<>>
<1>1. /\ stack[t] \in Seq(FrameRecord) /\ stack[t] # <<>> /\ Top(t) = stack[t][1]
  BY SaneFacts, TopSound
<1>2. Len(stack[t]) \in Nat \ {0} /\ 1 \in 1..Len(stack[t])
  BY <1>1
<1> QED
  BY <1>1, <1>2, SaneFacts, OnStack

LEMMA WantedBase ==
  ASSUME NEW tree, NEW own
  PROVE  Wanted(tree, INHERITANCE_SOLVED, own) \subseteq {tree.ext}
<1>1. INHERITANCE_SOLVED # FULLY_SOLVED
  BY DEF INHERITANCE_SOLVED, FULLY_SOLVED
<1>2. Wanted(tree, INHERITANCE_SOLVED, own) = {tree.ext} \ {Nil}
  BY <1>1 DEF Wanted
<1> QED
  BY <1>2

LEMMA RaiseStageHealthy ==
  ASSUME Sane, StepSound, NEW t \in Threads, RaiseStage(t)
  PROVE  HealthyIInv'
<1> DEFINE f == Top(t)
           s == stage[f.ref]
           own == reg.ref[f.ref].path
<1>1. /\ ~ Idle(t) /\ f.op = "raise" /\ f.pc = "start" /\ StageDue(f, s)
      /\ CommitScripts(scr, shallow_ruzta_cache, full_ruzta_cache) /\ UNCHANGED ret
  BY DEF RaiseStage, Running, KeepScripts
<1>2. /\ f \in FrameRecord /\ RaiseSound(f, reg, stage) /\ f.ref \in RefIds
      /\ f.ref \in Live(reg) /\ own \in Scripts /\ s \in StageRecord
  BY <1>1, RaiseFacts, SaneFacts
<1>3. /\ stage \in [RefIds -> StageRecord] /\ StagesRight(reg, stage)
      /\ FrameRight(f, scr, stage) /\ StagesSound(reg, stage)
      /\ TablesTyped(disk, dependencies, ret)
  BY <1>1, SaneFacts, TopRight
<1>4. CASE s.status = EMPTY
  <2> DEFINE e == Parsed(own)
             new == [stage EXCEPT ![f.ref] = e]
  <2>1. Become(t, f) /\ CommitParsers(reg, new)
    BY <1>4 DEF RaiseStage
  <2>2. e \in StageRecord /\ e.base = Nil
    BY <1>2, <1>3, ParsedTyped
  <2>3. e.ok
    BY <1>2, SaneFacts, TextsFine DEF Parsed, SourceOf
  <2> HIDE DEF e
  <2>4. new = Updated(stage, f.ref, e)
    BY DEF Updated
  <2>5. ~ (s.status >= INHERITANCE_SOLVED)
    BY <1>4 DEF EMPTY, INHERITANCE_SOLVED
  <2> HIDE DEF new
  <2>6. Calmer(new)
    BY <1>2, <2>4, <2>5, SaneFacts, CalmerUpdated
  <2>7. StagesRight(reg, new) /\ new \in [RefIds -> StageRecord]
    <3>1. new \in [RefIds -> StageRecord]
      BY <1>2, <1>3, <2>2, <2>4 DEF Updated
    <3>2. StagesRight(reg, new)
      BY <1>2, <1>3, <2>2, <2>3, <2>4, StagesRightUpdated
    <3> QED
      BY <3>1, <3>2
  <2>8. FrameRight(f, scr, new)
    BY <1>1, <1>3 DEF FrameRight
  <2> QED
    BY <1>1, <1>2, <2>1, <2>6, <2>7, <2>8, BecomeGoes
<1>5. CASE s.status # EMPTY
  <2> DEFINE now == s.status + 1
             bad == now = FULLY_SOLVED /\ s.tree.health = "body_error"
             wanted == Wanted(s.tree, now, own)
             h == [f EXCEPT !.pc = "stage", !.err = bad, !.todo = wanted]
             new == StageEntered(f.ref, now)
  <2>1. Become(t, h) /\ CommitParsers(reg, new)
    BY <1>5 DEF RaiseStage
  <2>2. s.tree \in Trees /\ wanted \in SUBSET Scripts
    BY <1>2, <1>3, <1>5, WantedTyped DEF StagesSound
  <2>3. ~ bad
    BY <1>2, <2>2, SaneFacts, TextsFine
  <2>4. now = INHERITANCE_SOLVED => wanted \subseteq {s.tree.ext}
    BY WantedBase
  <2>5. now \in EMPTY..FULLY_SOLVED /\ s.status <= now /\ s.status \in Nat
    BY <1>1, <1>2, <1>5
       DEF StageDue, StageRecord, FrameRecord, EMPTY, FULLY_SOLVED
  <2>6. f.cur = Nil
    BY <1>1, <1>2 DEF RaiseSound
  <2>13. bad \in BOOLEAN
    OBVIOUS
  <2> HIDE DEF wanted, bad, now
  <2> DEFINE e == [s EXCEPT !.status = now]
  <2>7. /\ e \in StageRecord /\ e.base = s.base /\ e.status = now /\ e.tree = s.tree
        /\ e.ok = s.ok
    BY <1>2, <2>5 DEF StageRecord
  <2>8. new = Updated(stage, f.ref, e)
    BY <1>2, <1>3 DEF StageEntered, Updated
  <2> HIDE DEF e, new
  <2>9. new \in [RefIds -> StageRecord] /\ new[f.ref] = e
    BY <1>2, <1>3, <2>7, <2>8 DEF Updated
  <2>10. StagesRight(reg, new)
    <3>1. e.ok /\ (e.base # Nil => e.tree \in Trees /\ reg.ref[e.base].path = e.tree.ext)
      BY <1>2, <1>3, <2>7 DEF StagesRight
    <3> QED
      BY <1>2, <1>3, <2>7, <2>8, <3>1, StagesRightUpdated
  <2>11. Calmer(new)
    BY <1>2, <2>5, <2>7, <2>8, SaneFacts, CalmerUpdated
  <2>12. /\ h \in FrameRecord /\ h.op = "raise" /\ h.ref = f.ref /\ h.obj = f.obj
         /\ h.cur = Nil /\ h.pc = "stage" /\ h.todo = wanted /\ h.path = f.path
         /\ ~ h.err
    BY <1>1, <1>2, <2>2, <2>3, <2>6, <2>13 DEF FrameRecord
  <2> HIDE DEF h
  <2>14. FrameRight(h, scr, new)
    BY <1>3, <2>4, <2>7, <2>9, <2>12 DEF FrameRight, Works
  <2> QED
    BY <1>1, <1>2, <2>1, <2>9, <2>10, <2>11, <2>12, <2>14, BecomeGoes
<1> QED
  BY <1>4, <1>5

LEMMA RaiseEndStageHealthy ==
  ASSUME Sane, StepSound, NEW t \in Threads, RaiseEndStage(t)
  PROVE  HealthyIInv'
<1> DEFINE f == Top(t)
           h == [f EXCEPT !.pc = "start", !.err = FALSE]
           e == [stage[f.ref] EXCEPT !.ok = TRUE]
           new == Updated(stage, f.ref, e)
<1>1. /\ ~ Idle(t) /\ f.op = "raise"
      /\ Become(t, h) /\ CommitParsers(reg, [stage EXCEPT ![f.ref].ok = ~ f.err])
      /\ CommitScripts(scr, shallow_ruzta_cache, full_ruzta_cache) /\ UNCHANGED ret
  BY DEF RaiseEndStage, Running, KeepScripts
<1>2. /\ f \in FrameRecord /\ FrameRight(f, scr, stage) /\ f.ref \in RefIds
      /\ stage[f.ref] \in StageRecord
  BY <1>1, TopRight, RaiseFacts, SaneFacts
<1>3. /\ h \in FrameRecord /\ h.op = "raise" /\ h.path = f.path /\ h.pc = "start"
      /\ ~ h.err
  BY <1>1, <1>2 DEF FrameRecord
<1>4. CommitParsers(reg, new)
  <2>1. (~ f.err) = TRUE
    BY <1>2 DEF FrameRight
  <2>2. new = [stage EXCEPT ![f.ref].ok = TRUE]
    BY <1>2, SaneFacts DEF Updated
  <2> QED
    BY <1>1, <2>1, <2>2
<1> HIDE DEF h
<1>5. /\ e \in StageRecord /\ e.ok /\ e.base = stage[f.ref].base
      /\ e.tree = stage[f.ref].tree /\ e.status = stage[f.ref].status
  BY <1>2 DEF StageRecord
<1> HIDE DEF e
<1>6. new \in [RefIds -> StageRecord]
  BY <1>2, <1>5, SaneFacts DEF Updated
<1>7. StagesRight(reg, new)
  <2>1. e.base # Nil => e.tree \in Trees /\ reg.ref[e.base].path = e.tree.ext
    BY <1>2, <1>5, SaneFacts DEF StagesRight
  <2> QED
    BY <1>2, <1>5, <2>1, SaneFacts, StagesRightUpdated
<1>8. Calmer(new)
  <2>1. stage[f.ref].status \in Nat
    BY <1>2 DEF StageRecord, EMPTY, FULLY_SOLVED
  <2> QED
    BY <1>2, <1>5, <2>1, SaneFacts, CalmerUpdated
<1> HIDE DEF new
<1>9. FrameRight(h, scr, new)
  BY <1>2, <1>3 DEF FrameRight, Works
<1> QED
  BY <1>1, <1>3, <1>4, <1>6, <1>7, <1>8, <1>9, BecomeGoes

(* The activation on top returns, and no script changes.                   *)
LEMMA ReturnGoes ==
  ASSUME Sane, StepSound, NEW t \in Threads, ~ Idle(t), ~ Works(Top(t)),
         Top(t).op = "reload" => Settled(scr, Top(t).obj),
         NEW ok, ok, Return(t, ok), KeepParsers,
         CommitScripts(scr, shallow_ruzta_cache, full_ruzta_cache)
  PROVE  HealthyIInv'
<1>1. StackRight(stack'[t], scr, stage)
  BY SaneFacts, ReturnRight
<1>2. WorkedOn(stack) \subseteq WorkedOn(stack')
  BY SaneFacts, ReturnWorks
<1>3. ret'[t]
  <2>1. ret \in [Threads -> BOOLEAN]
    BY SaneFacts DEF TablesTyped
  <2> QED
    BY <2>1 DEF Return
<1> QED
  BY <1>1, <1>2, <1>3, SaneFacts, ScriptsSame DEF KeepParsers

LEMMA RaiseReturnHealthy ==
  ASSUME Sane, StepSound, NEW t \in Threads, RaiseReturn(t)
  PROVE  HealthyIInv'
<1> DEFINE ok == Top(t).pc # "lost" /\ stage[Top(t).ref].ok
<1>1. /\ ~ Idle(t) /\ Top(t).op = "raise" /\ Return(t, ok) /\ KeepParsers
      /\ CommitScripts(scr, shallow_ruzta_cache, full_ruzta_cache)
  BY DEF RaiseReturn, KeepScripts
<1>2. Top(t).ref \in RefIds /\ FrameRight(Top(t), scr, stage)
  BY <1>1, RaiseFacts, SaneFacts, TopRight
<1>3. ok
  BY <1>2, SaneFacts DEF FrameRight, StagesRight
<1> HIDE DEF ok
<1>4. ~ Works(Top(t)) /\ (Top(t).op = "reload" => Settled(scr, Top(t).obj))
  BY <1>1 DEF Works
<1> QED
  BY <1>1, <1>3, <1>4, ReturnGoes

(* An activation calls another one, and no script changes.                 *)
LEMMA CallGoes ==
  ASSUME Sane, StepSound, NEW t \in Threads, ~ Idle(t),
         NEW g, NEW st, st \in [RefIds -> StageRecord], Calmer(st), StagesRight(g, st),
         CommitParsers(g, st),
         CommitScripts(scr, shallow_ruzta_cache, full_ruzta_cache), UNCHANGED ret,
         NEW f \in FrameRecord, FrameRight(f, scr, st),
         NEW e \in FrameRecord, FrameRight(e, scr, st), Call(t, f, e),
         f.op = Top(t).op, ~ Works(Top(t)), ~ Works(f),
         f.op = "reload" => f.obj = Top(t).obj,
         f.path = Top(t).path, Link(e, f, scr), e.pc = "start"
  PROVE  HealthyIInv'
<1>1. StackRight(stack'[t], scr, st)
  BY SaneFacts, CallRight
<1>2. WorkedOn(stack) \subseteq WorkedOn(stack')
  BY SaneFacts, CallWorks
<1>3. ret'[t]
  BY SaneFacts
<1> QED
  BY <1>1, <1>2, <1>3, ScriptsSame

(* The frames of calls that begin.                                         *)
Begins(e, op, sc, st) == FrameRight(e, sc, st) /\ ~ Works(e) /\ e.pc = "start" /\ e.op = op

LEMMA NewCalls ==
  ASSUME NEW sc, NEW st
  PROVE  /\ \A d, target : Begins(RaiseFrame(d, target), "raise", sc, st)
         /\ \A o : Begins(ReloadFrame(o), "reload", sc, st) /\ ReloadFrame(o).obj = o
         /\ \A p : LET e == [Frame("finish") EXCEPT !.path = p]
                  IN Begins(e, "finish", sc, st) /\ e.path = p
         /\ \A p, b : Begins(FullFrame(p, b), "full", sc, st) /\ FullFrame(p, b).path = p
BY DEF Begins, RaiseFrame, ReloadFrame, FullFrame, Frame, FrameRight, Works

LEMMA RaiseVisitHealthy ==
  ASSUME Sane, StepSound, NEW t \in Threads, RaiseVisit(t)
  PROVE  HealthyIInv'
<1> DEFINE f == Top(t)
           r == f.ref
           own == reg.ref[r].path
           known(q) == {d \in reg.ref[r].deps : reg.ref[d].path = q}
           missing(q) == known(q) = {} /\ reg.parser_map[q] = Nil /\ disk[q] = Nil
           found(q) == IF known(q) # {} THEN CHOOSE d \in known(q) : TRUE
                       ELSE Answer(reg, q, FreshRef)
           visiting(q) == [f EXCEPT !.cur = q, !.todo = f.todo \ {q}]
           g(q) == IF known(q) # {} THEN reg ELSE Acquired(r, q)
<1>1. /\ ~ Idle(t) /\ f.op = "raise" /\ f.pc = "stage" /\ f.cur = Nil
      /\ CommitScripts(scr, shallow_ruzta_cache, full_ruzta_cache)
      /\ UNCHANGED ret
  BY DEF RaiseVisit, Running
<1>2. /\ f \in FrameRecord /\ r \in RefIds /\ r \in Live(reg) /\ own \in Scripts
      /\ FrameRight(f, scr, stage)
  BY <1>1, RaiseFacts, SaneFacts, TopRight
<1>3. PICK q \in f.todo :
        /\ known(q) # {} \/ reg.parser_map[q] # Nil \/ missing(q) \/ SpareRef
        /\ IF missing(q)
           THEN /\ Become(t, [visiting(q) EXCEPT !.cur = Nil, !.err = TRUE])
                /\ CommitParsers(Noted(reg, q, own), stage)
           ELSE /\ Call(t, visiting(q), RaiseFrame(found(q), INHERITANCE_SOLVED))
                /\ CommitParsers(g(q), stage)
  BY DEF RaiseVisit
<1>4. q \in Scripts
  BY <1>2 DEF FrameRecord
<1>5. ~ missing(q)
  BY <1>4, SaneFacts, TextsFine
<1> DEFINE h == visiting(q)
           d == found(q)
           e == RaiseFrame(d, INHERITANCE_SOLVED)
<1>6. Call(t, h, e) /\ CommitParsers(g(q), stage)
  BY <1>3, <1>5
<1>7. Keeps(reg, g(q)) /\ d \in RefIds
  <2>1. CASE known(q) # {}
    <3>1. d \in known(q) /\ g(q) = reg
      BY <2>1
    <3>2. reg.ref[r].deps \subseteq RefIds
      BY <1>2, SaneFacts DEF Sound, Registry, RefRecord
    <3>3. Keeps(reg, reg)
      BY SaneFacts, CoreFacts DEF Allowed
    <3> QED
      BY <3>1, <3>2, <3>3
  <2>2. CASE known(q) = {}
    <3>1. reg.parser_map[q] # Nil \/ SpareRef
      BY <1>3, <1>5, <2>2
    <3>2. \A x \in reg.ref[r].deps : reg.ref[x].path # q
      BY <2>2
    <3>3. d = Answer(reg, q, FreshRef) /\ g(q) = Acquired(r, q)
      BY <2>2
    <3> HIDE DEF d, g
    <3>4. Keeps(reg, Acquired(r, q)) /\ Answer(reg, q, FreshRef) \in Live(Acquired(r, q))
      BY <1>2, <1>4, <3>1, <3>2, SaneFacts, AcquiredSound
    <3> QED
      BY <3>3, <3>4 DEF Live
  <2> QED
    BY <2>1, <2>2
<1>8. /\ h \in FrameRecord /\ h.op = "raise" /\ h.ref = r /\ h.obj = f.obj
      /\ h.cur = q /\ h.pc = "stage" /\ h.path = f.path /\ h.err = f.err
      /\ h.todo \subseteq f.todo
  BY <1>1, <1>2, <1>4 DEF FrameRecord
<1> HIDE DEF known, missing, found, visiting, g, h, d
<1>9. e \in FrameRecord
  <2>1. INHERITANCE_SOLVED \in EMPTY..FULLY_SOLVED
    BY DEF INHERITANCE_SOLVED, EMPTY, FULLY_SOLVED
  <2>2. Frame("raise") \in FrameRecord
    BY DEF Frame, FrameRecord, EMPTY, FULLY_SOLVED
  <2> QED
    BY <1>7, <2>1, <2>2 DEF RaiseFrame, FrameRecord
<1>10. FrameRight(h, scr, stage) /\ ~ Works(h) /\ ~ Works(f)
  BY <1>1, <1>2, <1>8 DEF FrameRight, Works
<1>11. Begins(e, "raise", scr, stage)
  BY NewCalls
<1> HIDE DEF e
<1>12. Link(e, h, scr) /\ FrameRight(e, scr, stage) /\ e.pc = "start"
  BY <1>8, <1>11 DEF Link, Begins
<1>13. StagesRight(g(q), stage)
  BY <1>7, SaneFacts, StagesRightKept
<1> QED
  BY <1>1, <1>6, <1>8, <1>9, <1>10, <1>12, <1>13, SaneFacts, CallGoes

LEMMA RaiseResumeHealthy ==
  ASSUME Sane, StepSound, NEW t \in Threads, RaiseResume(t)
  PROVE  HealthyIInv'
<1> DEFINE f == Top(t)
           r == f.ref
           q == f.cur
           own == reg.ref[r].path
           d == CHOOSE d \in reg.ref[r].deps : reg.ref[d].path = q
           inherits == stage[r].status = INHERITANCE_SOLVED
           cyclic == \E b \in BaseChain(stage, d) : reg.ref[b].path = own
           found == ret[t] /\ ~ cyclic
           back(bad) == [f EXCEPT !.cur = Nil, !.err = f.err \/ bad]
           calm == [f EXCEPT !.cur = Nil, !.err = FALSE]
<1>1. /\ ~ Idle(t) /\ f.op = "raise" /\ f.pc = "stage" /\ q # Nil
      /\ UNCHANGED ret
  BY DEF RaiseResume, Running
<1>2. /\ f \in FrameRecord /\ RaiseSound(f, reg, stage) /\ r \in RefIds /\ r \in Live(reg)
      /\ own \in Scripts /\ stage[r] \in StageRecord /\ q \in Scripts
      /\ FrameRight(f, scr, stage) /\ ret[t]
  BY <1>1, RaiseFacts, SaneFacts, TopRight DEF FrameRecord
<1>3. d \in reg.ref[r].deps /\ d \in RefIds /\ reg.ref[d].path = q
  BY <1>1, SaneFacts, Found
<1>4. /\ calm \in FrameRecord /\ calm.op = "raise" /\ calm.ref = r /\ calm.path = f.path
      /\ calm.cur = Nil /\ calm.pc = "stage" /\ ~ calm.err /\ calm.todo = f.todo
  BY <1>1, <1>2 DEF FrameRecord
<1>9. ASSUME NEW bad, ~ bad PROVE back(bad) = calm
  <2>1. (f.err \/ bad) = FALSE
    BY <1>2, <1>9 DEF FrameRight
  <2> QED
    BY <2>1
<1> HIDE DEF d, calm
<1>5. /\ stage[r].status >= INHERITANCE_SOLVED /\ stage[r].status # EMPTY
      /\ stage[r].status \in Nat
  BY <1>1, <1>2 DEF RaiseSound, StageRecord, EMPTY, INHERITANCE_SOLVED, FULLY_SOLVED
<1>6. stage[r].tree \in Trees
  BY <1>2, <1>5, SaneFacts DEF StagesSound
<1>7. CASE inherits
  <2>1. q = stage[r].tree.ext
    BY <1>1, <1>2, <1>7 DEF FrameRight
  <2>2. ~ cyclic
    BY <1>2, <1>3, <1>6, <2>1, SaneFacts, NoWayBack
  <2> DEFINE e == [stage[r] EXCEPT !.base = d]
             st == Updated(stage, r, e)
  <2>3. /\ CommitParsers(reg, st) /\ Become(t, calm)
        /\ CommitScripts(scr, shallow_ruzta_cache, full_ruzta_cache)
    <3>1. st = [stage EXCEPT ![r].base = d]
      BY <1>2, SaneFacts DEF Updated
    <3>2. /\ Become(t, back(~ found))
          /\ CommitParsers(reg, IF found THEN [stage EXCEPT ![r].base = d] ELSE stage)
          /\ CommitScripts(scr, shallow_ruzta_cache, full_ruzta_cache)
      BY <1>7 DEF RaiseResume, KeepScripts, d
    <3>3. found
      BY <1>2, <2>2
    <3>4. back(~ found) = calm
      BY <1>9, <3>3
    <3> HIDE DEF st, e, back, found
    <3> QED
      BY <3>1, <3>2, <3>3, <3>4
  <2>4. /\ e \in StageRecord /\ e.base = d /\ e.tree = stage[r].tree
        /\ e.status = stage[r].status /\ e.ok
    BY <1>2, <1>3, SaneFacts DEF StageRecord, StagesRight
  <2> HIDE DEF e
  <2>5. StagesRight(reg, st)
    BY <1>2, <1>3, <1>6, <2>1, <2>4, SaneFacts, StagesRightUpdated
  <2>6. Calmer(st)
    BY <1>2, <1>5, <2>4, SaneFacts, CalmerUpdated
  <2>7. st \in [RefIds -> StageRecord] /\ st[r] = e
    BY <1>2, <2>4, SaneFacts DEF Updated
  <2> HIDE DEF st
  <2>8. FrameRight(calm, scr, st)
    BY <1>1, <1>2, <1>4, <2>4, <2>7 DEF FrameRight, Works
  <2> QED
    BY <1>1, <1>4, <2>3, <2>5, <2>6, <2>7, <2>8, BecomeGoes
<1>8. CASE ~ inherits
  <2> DEFINE s == GetShallowScript(q, reg, stage)
             unmade == s.obj \notin Objs
  <2>1. /\ ShallowNeedsFresh(q) => SpareRef /\ SpareObj
        /\ Become(t, back(unmade)) /\ CommitParsers(s.g, s.st)
        /\ CommitScripts(s.scr, s.shallow, full_ruzta_cache)
    BY <1>2, <1>8 DEF RaiseResume
  <2>2. /\ s.obj \in Objs
        /\ StagesRight(s.g, s.st) /\ Calmer(s.st) /\ s.st \in [RefIds -> StageRecord]
        /\ s.scr \in [Objs -> ScriptRecord]
        /\ \A o \in Objs : s.scr[o] # NoScript => s.scr[o].path \in Scripts
        /\ Shelved(s.scr, s.shallow, full_ruzta_cache)
        /\ AllSettled(s.scr, full_ruzta_cache)
        /\ \A o \in Objs : s.scr[o].reloading => scr[o].reloading
        /\ Milder(s.scr, Nil)
    BY <1>2, <2>1, SaneFacts, ShallowRight
  <2>3. Become(t, calm)
    <3>1. ~ unmade
      BY <2>2
    <3> HIDE DEF unmade
    <3>2. back(unmade) = calm
      BY <1>9, <3>1
    <3> QED
      BY <2>1, <3>2
  <2> DEFINE g == s.g
             t2 == s.st
             sc == s.scr
             sh == s.shallow
  <2>4. /\ CommitParsers(g, t2) /\ CommitScripts(sc, sh, full_ruzta_cache)
        /\ StagesRight(g, t2) /\ Calmer(t2) /\ t2 \in [RefIds -> StageRecord]
        /\ sc \in [Objs -> ScriptRecord]
        /\ \A o \in Objs : sc[o] # NoScript => sc[o].path \in Scripts
        /\ Shelved(sc, sh, full_ruzta_cache)
        /\ AllSettled(sc, full_ruzta_cache)
        /\ \A o \in Objs : sc[o].reloading => scr[o].reloading
        /\ Milder(sc, Nil)
    BY <2>1, <2>2
  <2> HIDE DEF s, g, t2, sc, sh, back
  <2>5. t2[r].status > INHERITANCE_SOLVED
    <3>1. t2[r].status >= stage[r].status /\ t2[r].status \in Nat
      BY <1>2, <1>5, <2>4 DEF Calmer, StageRecord, EMPTY, FULLY_SOLVED
    <3> QED
      BY <1>5, <1>8, <3>1 DEF INHERITANCE_SOLVED
  <2>6. FrameRight(calm, sc, t2)
    <3>1. t2[r].status # INHERITANCE_SOLVED
      BY <2>5 DEF INHERITANCE_SOLVED
    <3> QED
      BY <1>2, <1>4, <3>1 DEF FrameRight, Works
  <2>7. ~ Works(f) /\ ~ Works(calm)
    BY <1>1, <1>4 DEF Works
  <2>8. StackRight(stack'[t], sc, t2)
    BY <1>1, <1>4, <2>3, <2>4, <2>6, <2>7, SaneFacts, BecomeRight
  <2>9. \A o \in Objs : sc[o].reloading => o \in WorkedOn(stack')
    <3>1. WorkedOn(stack) \subseteq WorkedOn(stack')
      BY <1>1, <1>4, <2>3, <2>7, SaneFacts, BecomeWorks
    <3> QED
      BY <2>4, <3>1, SaneFacts
  <2>10. ret'[t]
    BY <1>1, <1>2
  <2> QED
    BY <2>4, <2>8, <2>9, <2>10, SaneFacts, HealthyAfter
<1> QED
  BY <1>7, <1>8

-----------------------------------------------------------------------------
(* An object with a path is what the cache has for it.                     *)
LEMMA InItsPlace ==
  ASSUME Sane, NEW o \in Objs, scr[o].path # Nil
  PROVE  /\ CachedScript(scr[o].path) = o /\ scr[o].path \in Scripts
         /\ scr[o] \in ScriptRecord /\ o # Nil
<1>1. /\ scr[o].path \in Scripts /\ Shelved(scr, shallow_ruzta_cache, full_ruzta_cache)
      /\ scr[o] \in ScriptRecord
  BY SaneFacts
<1>2. o # Nil
  BY ContentAssumption
<1> QED
  BY <1>1, <1>2 DEF Shelved, CachedScript

(* One object gets another record.                                         *)
LEMMA OneChanged ==
  ASSUME Sane, NEW sc, sc \in [Objs -> ScriptRecord],
         \A x \in Objs : sc[x] # NoScript => sc[x].path \in Scripts, Milder(sc, Nil),
         NEW sh, NEW fu, Shelved(sc, sh, fu), AllSettled(sc, fu),
         NEW o \in Objs, NEW e \in ScriptRecord, sc[o].path # Nil, e.path = sc[o].path,
         \/ e.reloading \/ (e.valid /\ e.initialized)
         \/ /\ e.reloading = sc[o].reloading /\ e.valid = sc[o].valid
            /\ e.initialized = sc[o].initialized
  PROVE  LET n == Updated(sc, o, e)
         IN /\ n \in [Objs -> ScriptRecord] /\ n[o] = e
            /\ \A x \in Objs \ {o} : n[x] = sc[x]
            /\ \A x \in Objs : n[x] # NoScript => n[x].path \in Scripts
            /\ Shelved(n, sh, fu) /\ AllSettled(n, fu) /\ Milder(n, o)
<1> DEFINE n == Updated(sc, o, e)
<1>1. /\ n \in [Objs -> ScriptRecord] /\ n[o] = e
      /\ \A x \in Objs \ {o} : n[x] = sc[x]
  BY DEF Updated
<1> HIDE DEF n
<1>2. e.path \in Scripts
  BY DEF ScriptRecord
<1>3. \A x \in Objs : n[x].path = sc[x].path
  BY <1>1
<1>4. Shelved(n, sh, fu)
  BY <1>3 DEF Shelved
<1>5. AllSettled(n, fu)
  BY <1>1 DEF AllSettled, Settled
<1>6. Milder(n, o)
  BY <1>1, <1>3, ContentAssumption DEF Milder
<1>7. \A x \in Objs : n[x] # NoScript => n[x].path \in Scripts
  BY <1>1, <1>2
<1> QED
  BY <1>1, <1>4, <1>5, <1>6, <1>7 DEF n

(* The reload on top.                                                      *)
LEMMA ReloadAtWork ==
  ASSUME Sane, NEW t \in Threads, ~ Idle(t), Top(t).op = "reload"
  PROVE  /\ Top(t) \in FrameRecord /\ FrameRight(Top(t), scr, stage)
         /\ Top(t).obj \in Objs /\ scr[Top(t).obj].path # Nil
         /\ Top(t).pc \notin {"start", "flag"} =>
              /\ Works(Top(t)) /\ Own(t, Top(t).obj) /\ scr[Top(t).obj].reloading
              /\ Top(t).obj \in WorkedOn(stack)
<1>1. /\ Top(t) \in FrameRecord /\ Top(t).obj \in Objs /\ scr[Top(t).obj].path # Nil
  BY SaneFacts, ReloadFacts
<1>2. FrameRight(Top(t), scr, stage)
  BY TopRight
<1>3. ASSUME Top(t).pc \notin {"start", "flag"}
      PROVE  /\ Works(Top(t)) /\ Own(t, Top(t).obj) /\ scr[Top(t).obj].reloading
  BY <1>2, <1>3 DEF Works, Own, FrameRight
<1> QED
  BY <1>1, <1>2, <1>3, SaneFacts

LEMMA ReloadBusyHealthy ==
  ASSUME Sane, StepSound, NEW t \in Threads, ReloadBusy(t)
  PROVE  HealthyIInv'
<1>1. /\ ~ Idle(t) /\ Top(t).op = "reload" /\ Top(t).pc = "start"
      /\ scr[Top(t).obj].reloading /\ Return(t, TRUE)
      /\ KeepParsers /\ CommitScripts(scr, shallow_ruzta_cache, full_ruzta_cache)
  BY DEF ReloadBusy, Running, KeepScripts
<1>2. ~ Works(Top(t)) /\ Settled(scr, Top(t).obj)
  BY <1>1 DEF Works, Settled
<1> QED
  BY <1>1, <1>2, ReturnGoes

(* A reload goes on, and no script changes.                                *)
LEMMA ReloadGoes ==
  ASSUME Sane, StepSound, NEW t \in Threads, ~ Idle(t), Top(t).op = "reload",
         NEW g, Keeps(reg, g), CommitParsers(g, stage),
         CommitScripts(scr, shallow_ruzta_cache, full_ruzta_cache), UNCHANGED ret,
         NEW f \in FrameRecord, f.op = "reload", f.obj = Top(t).obj, f.err = Top(t).err,
         Works(f) <=> Works(Top(t)),
         f.pc \notin {"lost", "announce", "look", "compiled"},
         f.pc = "flag" => ~ scr[f.obj].reloading, Become(t, f)
  PROVE  HealthyIInv'
<1>1. FrameRight(Top(t), scr, stage)
  BY ReloadAtWork
<1>2. FrameRight(f, scr, stage)
  BY <1>1 DEF FrameRight
<1>3. StackRight(stack'[t], scr, stage)
  BY <1>2, SaneFacts, BecomeRight
<1>4. WorkedOn(stack) \subseteq WorkedOn(stack')
  BY SaneFacts, BecomeWorks
<1>5. StagesRight(g, stage) /\ ret'[t]
  BY SaneFacts, StagesRightKept
<1> QED
  BY <1>3, <1>4, <1>5, ScriptsSame

(* The same for a step of it that only goes to pc.                         *)
LEMMA ReloadPasses ==
  ASSUME Sane, StepSound, NEW t \in Threads, ~ Idle(t), Top(t).op = "reload",
         NEW pc, GoOn(t, pc),
         pc \in {"flag", "has", "get", "remove", "release", "parse"},
         pc = "flag" <=> Top(t).pc = "start", Top(t).pc # "flag",
         pc = "flag" => ~ scr[Top(t).obj].reloading
  PROVE  HealthyIInv'
<1> DEFINE h == [Top(t) EXCEPT !.pc = pc]
<1>1. /\ Become(t, h) /\ CommitParsers(reg, stage) /\ UNCHANGED ret
      /\ CommitScripts(scr, shallow_ruzta_cache, full_ruzta_cache)
  BY DEF GoOn, KeepParsers, KeepScripts
<1>2. Top(t) \in FrameRecord
  BY ReloadAtWork
<1>3. /\ h \in FrameRecord /\ h.op = "reload" /\ h.obj = Top(t).obj /\ h.pc = pc
      /\ h.err = Top(t).err
  BY <1>2 DEF FrameRecord
<1> HIDE DEF h
<1>4. Works(h) <=> Works(Top(t))
  BY <1>3 DEF Works
<1>5. Keeps(reg, reg)
  BY SaneFacts, CoreFacts DEF Allowed
<1>6. h.pc \notin {"lost", "announce", "look", "compiled"}
  BY <1>3
<1> QED
  BY <1>1, <1>3, <1>4, <1>5, <1>6, ReloadGoes

LEMMA ReloadFreeHealthy ==
  ASSUME Sane, StepSound, NEW t \in Threads, ReloadFree(t)
  PROVE  HealthyIInv'
BY ReloadPasses DEF ReloadFree, Running

LEMMA ReloadFlagHealthy ==
  ASSUME Sane, StepSound, NEW t \in Threads, ReloadFlag(t)
  PROVE  HealthyIInv'
<1> DEFINE f == Top(t)
           o == f.obj
           p == scr[o].path
           h == [f EXCEPT !.pc = "look", !.path = p]
           x == [scr[o] EXCEPT !.reloading = TRUE]
           sc == Updated(scr, o, x)
           sh == shallow_ruzta_cache
           fu == full_ruzta_cache
<1>1. /\ ~ Idle(t) /\ f.op = "reload" /\ f.pc = "flag" /\ Become(t, h)
      /\ CommitParsers(reg, stage) /\ UNCHANGED ret
      /\ CommitScripts([scr EXCEPT ![o].reloading = TRUE], sh, fu)
  BY DEF ReloadFlag, Running, KeepParsers
<1>2. f \in FrameRecord /\ FrameRight(f, scr, stage) /\ o \in Objs /\ p # Nil
  BY <1>1, ReloadAtWork
<1>3. p \in Scripts /\ scr[o] \in ScriptRecord
  BY <1>2, InItsPlace
<1>4. ~ scr[o].reloading
  BY <1>1, TopRight DEF TopSettled
<1>5. /\ x \in ScriptRecord /\ x.path = p /\ x.reloading /\ x.valid = scr[o].valid
  BY <1>3 DEF ScriptRecord
<1>6. CommitScripts(sc, sh, fu)
  BY <1>1, <1>2, SaneFacts DEF Updated
<1>7. /\ h \in FrameRecord /\ h.op = "reload" /\ h.obj = o /\ h.path = p
      /\ h.pc = "look" /\ h.err = f.err
  BY <1>1, <1>2, <1>3 DEF FrameRecord
<1> HIDE DEF h, x
<1>8. /\ sc \in [Objs -> ScriptRecord] /\ sc[o] = x
      /\ \A y \in Objs \ {o} : sc[y] = scr[y]
      /\ \A y \in Objs : sc[y] # NoScript => sc[y].path \in Scripts
      /\ Shelved(sc, sh, fu) /\ AllSettled(sc, fu)
  BY <1>2, <1>5, SaneFacts, OneChanged
<1> HIDE DEF sc
<1>9. Milder(sc, Nil)
  BY <1>2, <1>5, <1>8 DEF Milder
<1>10. FrameRight(h, sc, stage)
  BY <1>2, <1>5, <1>7, <1>8 DEF FrameRight
<1>11. ~ Works(f) /\ Works(h)
  BY <1>1, <1>7 DEF Works
<1>12. StackRight(stack'[t], sc, stage)
  BY <1>1, <1>4, <1>7, <1>9, <1>10, <1>11, SaneFacts, BecomeRight
<1>13. WorkedOn(stack) \subseteq WorkedOn(stack') /\ o \in WorkedOn(stack')
  BY <1>1, <1>2, <1>7, <1>11, SaneFacts, BecomeWorks
<1>14. \A y \in Objs : sc[y].reloading => y \in WorkedOn(stack')
  BY <1>8, <1>13, SaneFacts
<1>15. ret'[t]
  BY <1>1, SaneFacts
<1> QED
  BY <1>1, <1>6, <1>8, <1>12, <1>14, <1>15, SaneFacts, HealthyAfter

LEMMA ReloadLookHealthy ==
  ASSUME Sane, StepSound, NEW t \in Threads, ReloadLook(t)
  PROVE  HealthyIInv'
<1>1. ~ Idle(t) /\ Top(t).op = "reload" /\ Top(t).pc = "look"
  BY DEF ReloadLook, Running
<1>2. scr[Top(t).obj].path = Top(t).path /\ Top(t).obj \in Objs
      /\ scr[Top(t).obj].path # Nil
  BY <1>1, ReloadAtWork DEF FrameRight
<1>3. CachedScript(Top(t).path) \in Objs
  BY <1>2, InItsPlace
<1>4. GoOn(t, "has")
  BY <1>3 DEF ReloadLook
<1> QED
  BY <1>1, <1>4, ReloadPasses

(* On one thread the object of a reload is in the cache.                   *)
LEMMA NothingToAnnounce ==
  ASSUME Sane, NEW t \in Threads, ReloadAnnounce(t)
  PROVE  FALSE
BY TopRight DEF ReloadAnnounce, Running, FrameRight

LEMMA ReloadHasHealthy ==
  ASSUME Sane, StepSound, NEW t \in Threads, ReloadHas(t)
  PROVE  HealthyIInv'
<1>1. ~ Idle(t) /\ Top(t).op = "reload" /\ Top(t).pc = "has"
  BY DEF ReloadHas, Running
<1>2. GoOn(t, "parse") \/ GoOn(t, "get")
  BY DEF ReloadHas
<1> QED
  BY <1>1, <1>2, ReloadPasses

LEMMA ReloadCompareHealthy ==
  ASSUME Sane, StepSound, NEW t \in Threads, ReloadCompare(t)
  PROVE  HealthyIInv'
<1>1. ~ Idle(t) /\ Top(t).op = "reload" /\ Top(t).pc = "compare"
  BY DEF ReloadCompare, Running
<1>2. GoOn(t, "release") \/ GoOn(t, "remove")
  BY DEF ReloadCompare
<1> QED
  BY <1>1, <1>2, ReloadPasses

LEMMA ReloadGetHealthy ==
  ASSUME Sane, StepSound, NEW t \in Threads, ReloadGet(t)
  PROVE  HealthyIInv'
<1> DEFINE f == Top(t)
           p == f.path
           d == Answer(reg, p, FreshRef)
           g == GetParser(reg, p, Nil, FreshRef)
           h == [f EXCEPT !.pc = "compare", !.ref = d]
           missing == reg.parser_map[p] = Nil /\ disk[p] = Nil
<1>1. /\ ~ Idle(t) /\ f.op = "reload" /\ f.pc = "get" /\ UNCHANGED ret
      /\ CommitScripts(scr, shallow_ruzta_cache, full_ruzta_cache)
      /\ reg.parser_map[p] # Nil \/ missing \/ SpareRef
      /\ IF missing THEN TRUE ELSE Become(t, h) /\ CommitParsers(g, stage)
  BY DEF ReloadGet, Running, KeepScripts
<1>2. f \in FrameRecord /\ p \in Scripts
  BY <1>1, SaneFacts, ReloadFacts DEF Checking
<1>3. ~ missing
  BY <1>2, SaneFacts, TextsFine
<1>4. Become(t, h) /\ CommitParsers(g, stage) /\ (reg.parser_map[p] # Nil \/ SpareRef)
  BY <1>1, <1>3
<1>5. Keeps(reg, g) /\ d \in RefIds
  BY <1>2, <1>4, SaneFacts, GotParser
<1> HIDE DEF d, g
<1>6. /\ h \in FrameRecord /\ h.op = "reload" /\ h.obj = f.obj /\ h.pc = "compare"
      /\ h.err = f.err
  BY <1>1, <1>2, <1>5 DEF FrameRecord
<1> HIDE DEF h
<1>7. Works(h) <=> Works(f)
  BY <1>1, <1>6 DEF Works
<1> QED
  BY <1>1, <1>4, <1>5, <1>6, <1>7, ReloadGoes

LEMMA ReloadRemoveHealthy ==
  ASSUME Sane, StepSound, NEW t \in Threads, ReloadRemove(t)
  PROVE  HealthyIInv'
<1> DEFINE f == Top(t)
           g == RemoveParser(reg, f.path)
           h == [f EXCEPT !.pc = "release"]
<1>1. /\ ~ Idle(t) /\ f.op = "reload" /\ f.pc = "remove" /\ UNCHANGED ret
      /\ CommitScripts(scr, shallow_ruzta_cache, full_ruzta_cache)
      /\ Become(t, h) /\ CommitParsers(g, stage)
  BY DEF ReloadRemove, Running, KeepScripts
<1>2. f \in FrameRecord
  BY <1>1, ReloadAtWork
<1>3. Keeps(reg, g)
  BY SaneFacts, RemoveKeeps
<1> HIDE DEF g
<1>4. /\ h \in FrameRecord /\ h.op = "reload" /\ h.obj = f.obj /\ h.pc = "release"
      /\ h.err = f.err
  BY <1>1, <1>2 DEF FrameRecord
<1> HIDE DEF h
<1>5. Works(h) <=> Works(f)
  BY <1>1, <1>4 DEF Works
<1> QED
  BY <1>1, <1>3, <1>4, <1>5, ReloadGoes

LEMMA ReloadReleaseHealthy ==
  ASSUME Sane, StepSound, NEW t \in Threads, ReloadRelease(t)
  PROVE  HealthyIInv'
<1> DEFINE f == Top(t)
           h == [f EXCEPT !.pc = "parse", !.ref = Nil]
<1>1. /\ ~ Idle(t) /\ f.op = "reload" /\ f.pc = "release" /\ UNCHANGED ret
      /\ CommitScripts(scr, shallow_ruzta_cache, full_ruzta_cache)
      /\ Become(t, h) /\ CommitParsers(reg, stage)
  BY DEF ReloadRelease, Running, KeepScripts, KeepParsers
<1>2. f \in FrameRecord
  BY <1>1, ReloadAtWork
<1>3. Keeps(reg, reg)
  BY SaneFacts, CoreFacts DEF Allowed
<1>4. /\ h \in FrameRecord /\ h.op = "reload" /\ h.obj = f.obj /\ h.pc = "parse"
      /\ h.err = f.err
  BY <1>1, <1>2 DEF FrameRecord
<1> HIDE DEF h
<1>5. Works(h) <=> Works(f)
  BY <1>1, <1>4 DEF Works
<1> QED
  BY <1>1, <1>3, <1>4, <1>5, ReloadGoes

(* What the destructors need to find, and what becomes of it.              *)
Fits(sc, sh) ==
  /\ sc \in [Objs -> ScriptRecord]
  /\ \A x \in Objs : sc[x] # NoScript => sc[x].path \in Scripts
  /\ Shelved(sc, sh, full_ruzta_cache) /\ AllSettled(sc, full_ruzta_cache)

Quieter(sc) == Milder(sc, Nil) /\ \A x \in Objs : sc[x].reloading => scr[x].reloading

(* The object that is worked on by the activation on top gets another      *)
(* record, and another activation is called.                               *)
LEMMA WorkGoesInto ==
  ASSUME Sane, StepSound, NEW t \in Threads, ~ Idle(t), Top(t).op = "reload",
         Top(t).pc \notin {"start", "flag"},
         NEW g, NEW st, st \in [RefIds -> StageRecord], Calmer(st), StagesRight(g, st),
         CommitParsers(g, st),
         NEW sc, NEW sh, Fits(sc, sh), Quieter(sc), sc[Top(t).obj].path # Nil,
         NEW x \in ScriptRecord, x.path = sc[Top(t).obj].path, x.reloading,
         NEW n, n = Updated(sc, Top(t).obj, x),
         CommitScripts(n, sh, full_ruzta_cache), ret' = ret,
         NEW h \in FrameRecord, h.op = "reload", h.obj = Top(t).obj, h.path = Top(t).path,
         h.err = Top(t).err, h.pc \in {"analyzed", "compiled"}, h.pc = "compiled" => x.valid,
         NEW e \in FrameRecord, FrameRight(e, n, st), e.pc = "start", Call(t, h, e),
         e.op = "finish" => h.pc = "compiled" /\ e.path = x.path
  PROVE  HealthyIInv'
<1> DEFINE o == Top(t).obj
<1>1. /\ Top(t) \in FrameRecord /\ FrameRight(Top(t), scr, stage) /\ o \in Objs
      /\ Works(Top(t)) /\ Own(t, o) /\ scr[o].reloading /\ o \in WorkedOn(stack)
  BY ReloadAtWork
<1>2. /\ n \in [Objs -> ScriptRecord] /\ n[o] = x
      /\ \A y \in Objs \ {o} : n[y] = sc[y]
      /\ \A y \in Objs : n[y] # NoScript => n[y].path \in Scripts
      /\ Shelved(n, sh, full_ruzta_cache) /\ AllSettled(n, full_ruzta_cache) /\ Milder(n, o)
  <2> DEFINE fu == full_ruzta_cache
  <2>1. /\ sc[o].path # Nil /\ x.path = sc[o].path /\ n = Updated(sc, o, x)
        /\ sc \in [Objs -> ScriptRecord] /\ Milder(sc, Nil)
        /\ \A y \in Objs : sc[y] # NoScript => sc[y].path \in Scripts
        /\ Shelved(sc, sh, fu) /\ AllSettled(sc, fu)
    BY DEF Fits, Quieter
  <2> HIDE DEF o, fu
  <2>2. /\ n \in [Objs -> ScriptRecord] /\ n[o] = x
        /\ \A y \in Objs \ {o} : n[y] = sc[y]
        /\ \A y \in Objs : n[y] # NoScript => n[y].path \in Scripts
        /\ Shelved(n, sh, fu) /\ AllSettled(n, fu) /\ Milder(n, o)
    BY <1>1, <2>1, OneChanged
  <2> QED
    BY <2>2 DEF fu
<1>3. FrameRight(h, n, st)
  BY <1>1, <1>2 DEF FrameRight
<1>4. Works(h)
  BY DEF Works
<1>5. Link(e, h, n)
  BY <1>2 DEF Link
<1>6. StackRight(stack'[t], n, st)
  BY <1>1, <1>2, <1>3, <1>4, <1>5, SaneFacts, CallRight
<1>7. WorkedOn(stack) \subseteq WorkedOn(stack')
  BY <1>4, SaneFacts, CallWorks
<1>8. \A y \in Objs : n[y].reloading => y \in WorkedOn(stack')
  BY <1>1, <1>2, <1>7, SaneFacts DEF Quieter
<1>9. ret'[t]
  BY SaneFacts
<1> QED
  BY <1>2, <1>6, <1>8, <1>9, SaneFacts, HealthyAfter

LEMMA ReloadParseHealthy ==
  ASSUME Sane, StepSound, NEW t \in Threads, ReloadParse(t)
  PROVE  HealthyIInv'
<1> DEFINE f == Top(t)
           o == f.obj
           p == scr[o].path
           n == FreshRef
           h == [f EXCEPT !.pc = "analyzed", !.ref = n]
           e == RaiseFrame(n, FULLY_SOLVED)
           x == [scr[o] EXCEPT !.valid = FALSE, !.initialized = FALSE, !.reloading = TRUE]
           sc == Updated(scr, o, x)
           g == [reg EXCEPT !.ref[n] =
                   [kind |-> "local", path |-> p, deps |-> {}, abandoned |-> FALSE]]
           y == [NoTree EXCEPT !.status = PARSED, !.tree = scr[o].source]
           st == Updated(stage, n, y)
<1>1. ~ Idle(t) /\ f.op = "reload" /\ f.pc = "parse" /\ SpareRef
  BY DEF ReloadParse, Running
<1>2. /\ f \in FrameRecord /\ o \in Objs /\ p # Nil
  BY <1>1, ReloadAtWork
<1>3. /\ p \in Scripts /\ scr[o].source.health = "ok" /\ scr[o].source \in Content
      /\ scr[o] \in ScriptRecord
  BY <1>2, SaneFacts
<1>4. /\ Call(t, h, e) /\ UNCHANGED ret
      /\ CommitParsers(g, [stage EXCEPT ![n] = y])
      /\ CommitScripts([scr EXCEPT ![o].valid = FALSE, ![o].initialized = FALSE,
                                   ![o].reloading = TRUE],
                       shallow_ruzta_cache, full_ruzta_cache)
  <2>1. (scr[o].source.health # "parse_error") = TRUE
    BY <1>3
  <2> QED
    BY <2>1 DEF ReloadParse
<1>5. /\ x \in ScriptRecord /\ x.path = scr[o].path /\ x.reloading
  BY <1>3 DEF ScriptRecord
<1>6. CommitScripts(sc, shallow_ruzta_cache, full_ruzta_cache)
  <2>1. sc = [scr EXCEPT ![o].valid = FALSE, ![o].initialized = FALSE, ![o].reloading = TRUE]
    BY <1>2, SaneFacts DEF Updated
  <2> QED
    BY <1>4, <2>1
<1>7. CommitParsers(g, st)
  BY <1>4 DEF Updated
<1>8. n \in RefIds /\ Keeps(reg, g) /\ n \notin Live(reg)
  <2>1. /\ Keeps(reg, g) /\ n \in Live(g) /\ n \notin Live(reg)
    BY <1>1, <1>3, SaneFacts, NewLocalSound
  <2> HIDE DEF g, n
  <2> QED
    BY <2>1 DEF Live
<1>9. y \in StageRecord /\ y.base = Nil /\ y.ok
  <2>1. NoTree \in StageRecord /\ NoTree.base = Nil /\ NoTree.ok
    BY DEF NoTree, StageRecord, EMPTY, FULLY_SOLVED
  <2>2. PARSED \in EMPTY..FULLY_SOLVED /\ scr[o].source \in Content \cup {EmptySource, Nil}
    BY <1>3 DEF PARSED, EMPTY, FULLY_SOLVED
  <2> QED
    BY <2>1, <2>2 DEF StageRecord
<1>10. e \in FrameRecord
  <2>1. FULLY_SOLVED \in EMPTY..FULLY_SOLVED
    BY DEF EMPTY, FULLY_SOLVED
  <2> QED
    BY <1>8, <2>1, FrameTyped DEF RaiseFrame, FrameRecord
<1>11. Begins(e, "raise", sc, st)
  BY NewCalls
<1>12. /\ h \in FrameRecord /\ h.pc = "analyzed" /\ h.op = "reload" /\ h.obj = o
       /\ h.path = f.path /\ h.err = f.err
  BY <1>1, <1>2, <1>8 DEF FrameRecord
<1> HIDE DEF n, x, g, y, e, h
<1>13. StagesRight(g, st)
  <2>1. StagesRight(g, stage)
    BY <1>8, SaneFacts, StagesRightKept
  <2> QED
    BY <1>8, <1>9, <2>1, SaneFacts, StagesRightUpdated
<1>14. st \in [RefIds -> StageRecord] /\ Calmer(st)
  <2>1. /\ st \in [RefIds -> StageRecord]
        /\ \A s \in Live(reg) : st[s] = stage[s]
    BY <1>8, <1>9, SaneFacts DEF Updated, Live
  <2> HIDE DEF st
  <2> QED
    BY <2>1, SaneFacts DEF Calmer
<1> HIDE DEF st
<1>15. Fits(scr, shallow_ruzta_cache) /\ Quieter(scr)
  BY SaneFacts DEF Fits, Quieter
<1>16. FrameRight(e, sc, st) /\ e.pc = "start" /\ e.op = "raise"
  BY <1>11 DEF Begins
<1>17. Call(t, h, e) /\ ret' = ret
  BY <1>4 DEF h, e
<1> DEFINE m == sc
<1>18. m = Updated(scr, Top(t).obj, x) /\ CommitScripts(m, shallow_ruzta_cache, full_ruzta_cache)
       /\ FrameRight(e, m, st)
  BY <1>6, <1>16
<1> HIDE DEF m
<1> QED
  BY <1>1, <1>2, <1>5, <1>7, <1>10, <1>12, <1>13, <1>14, <1>15, <1>16, <1>17, <1>18,
     WorkGoesInto

LEMMA ReloadCompileHealthy ==
  ASSUME Sane, StepSound, NEW t \in Threads, ReloadCompile(t)
  PROVE  HealthyIInv'
<1> DEFINE f == Top(t)
           o == f.obj
           p == scr[o].path
           base == scr[o].source.ext
           asks == base # Nil
           s == IF asks THEN GetShallowScript(base, reg, stage)
                ELSE [g |-> reg, st |-> stage, scr |-> scr,
                      shallow |-> shallow_ruzta_cache, obj |-> o]
           h == [f EXCEPT !.pc = "compiled"]
           e == FinishFrame(p)
           x == [s.scr[o] EXCEPT !.valid = TRUE, !.reloading = TRUE]
           fu == full_ruzta_cache
<1>1. ~ Idle(t) /\ f.op = "reload" /\ f.pc = "analyzed"
  BY DEF ReloadCompile, Running
<1>2. /\ f \in FrameRecord /\ o \in Objs /\ p # Nil /\ scr[o].reloading
  BY <1>1, ReloadAtWork
<1>3. /\ p \in Scripts /\ scr[o] \in ScriptRecord /\ scr[o].source \in Trees
  BY <1>2, SaneFacts DEF Trees
<1>4. ret[t] = TRUE
  BY SaneFacts DEF TablesTyped
<1>5. /\ asks /\ ShallowNeedsFresh(base) => SpareRef /\ SpareObj
      /\ IF s.obj \in Objs THEN Call(t, h, e) /\ UNCHANGED ret ELSE Return(t, FALSE)
      /\ CommitParsers(s.g, s.st)
      /\ CommitScripts([s.scr EXCEPT ![o].valid = s.obj \in Objs,
                                     ![o].reloading = s.obj \in Objs], s.shallow, fu)
  <2> DEFINE called == ret[t] /\ base # Nil
             u == IF called THEN GetShallowScript(base, reg, stage)
                  ELSE [g |-> reg, st |-> stage, scr |-> scr,
                        shallow |-> shallow_ruzta_cache, obj |-> o]
             compiles == ret[t] /\ u.obj \in Objs
  <2>1. /\ called /\ ShallowNeedsFresh(base) => SpareRef /\ SpareObj
        /\ IF compiles THEN Call(t, h, e) /\ UNCHANGED ret ELSE Return(t, FALSE)
        /\ CommitParsers(u.g, u.st)
        /\ CommitScripts([u.scr EXCEPT ![o].valid = compiles, ![o].reloading = compiles],
                         u.shallow, fu)
    BY DEF ReloadCompile, FinishFrame
  <2>2. called = asks
    BY <1>4
  <2>3. u = s
    BY <2>2
  <2> HIDE DEF u, s, called, asks
  <2>4. compiles = (s.obj \in Objs)
    BY <1>4, <2>3
  <2> HIDE DEF compiles
  <2> QED
    BY <2>1, <2>2, <2>3, <2>4
<1>6. /\ s.obj \in Objs
      /\ StagesRight(s.g, s.st) /\ Calmer(s.st) /\ s.st \in [RefIds -> StageRecord]
      /\ s.scr \in [Objs -> ScriptRecord]
      /\ \A z \in Objs : s.scr[z] # NoScript => s.scr[z].path \in Scripts
      /\ Shelved(s.scr, s.shallow, fu) /\ AllSettled(s.scr, fu)
      /\ s.scr[o] = scr[o]
      /\ \A z \in Objs : s.scr[z].reloading => scr[z].reloading
      /\ Milder(s.scr, Nil)
  <2>1. CASE asks
    <3>1. s = GetShallowScript(base, reg, stage)
      BY <2>1
    <3>2. base \in Scripts
      BY <1>3, <2>1, TreesTyped
    <3> HIDE DEF s
    <3>3. ShallowNeedsFresh(base) => SpareRef /\ SpareObj
      BY <1>5, <2>1
    <3> DEFINE w == GetShallowScript(base, reg, stage)
    <3>4. scr[o].path # Nil
      BY <1>2
    <3> HIDE DEF base
    <3>5. /\ w.obj \in Objs
          /\ StagesRight(w.g, w.st) /\ Calmer(w.st) /\ w.st \in [RefIds -> StageRecord]
          /\ w.scr \in [Objs -> ScriptRecord]
          /\ \A z \in Objs : w.scr[z] # NoScript => w.scr[z].path \in Scripts
          /\ Shelved(w.scr, w.shallow, fu) /\ AllSettled(w.scr, fu)
          /\ \A z \in Objs : scr[z].path # Nil => w.scr[z] = scr[z]
          /\ \A z \in Objs : w.scr[z].reloading => scr[z].reloading
          /\ Milder(w.scr, Nil)
      BY <3>2, <3>3, SaneFacts, ShallowRight
    <3> HIDE DEF w
    <3> QED
      BY <1>2, <3>1, <3>4, <3>5 DEF w
  <2>2. CASE ~ asks
    <3>1. /\ s.g = reg /\ s.st = stage /\ s.scr = scr /\ s.shallow = shallow_ruzta_cache
          /\ s.obj = o
      BY <2>2
    <3> HIDE DEF s
    <3> QED
      BY <1>2, <3>1, SaneFacts
  <2> QED
    BY <2>1, <2>2
<1> HIDE DEF s
<1>7. /\ Call(t, h, e) /\ UNCHANGED ret
      /\ CommitScripts([s.scr EXCEPT ![o].valid = TRUE, ![o].reloading = TRUE],
                       s.shallow, fu)
  <2>1. (s.obj \in Objs) = TRUE
    BY <1>6
  <2> QED
    BY <1>5, <2>1
<1> DEFINE g == s.g
           st == s.st
           sc == s.scr
           sh == s.shallow
<1>8. /\ x \in ScriptRecord /\ x.path = p /\ x.reloading /\ x.valid
  BY <1>3, <1>6 DEF ScriptRecord
<1>9. CommitScripts(Updated(sc, o, x), sh, fu)
  <2>1. Updated(sc, o, x) = [s.scr EXCEPT ![o].valid = TRUE, ![o].reloading = TRUE]
    BY <1>2, <1>6 DEF Updated
  <2> QED
    BY <1>7, <2>1
<1> HIDE DEF x
<1>10. /\ CommitParsers(g, st)
       /\ StagesRight(g, st) /\ Calmer(st) /\ st \in [RefIds -> StageRecord]
       /\ Fits(sc, sh) /\ Quieter(sc) /\ sc[o].path = p
  BY <1>5, <1>6 DEF Fits, Quieter
<1> DEFINE n == Updated(sc, o, x)
<1>11. e \in FrameRecord
  BY <1>3, FinishFrameSound
<1>12. Begins(e, "finish", n, st) /\ e.path = p
  BY NewCalls DEF FinishFrame
<1>13. /\ h \in FrameRecord /\ h.pc = "compiled" /\ h.op = "reload" /\ h.obj = o
       /\ h.path = f.path /\ h.err = f.err
  BY <1>1, <1>2 DEF FrameRecord
<1>14. Call(t, h, e) /\ ret' = ret
  BY <1>7
<1> HIDE DEF g, st, sc, sh, e, h
<1>15. n = Updated(sc, Top(t).obj, x) /\ CommitScripts(n, sh, full_ruzta_cache)
  BY <1>9
<1> HIDE DEF n
<1>16. FrameRight(e, n, st) /\ e.pc = "start"
  BY <1>12 DEF Begins
<1> QED
  BY <1>1, <1>2, <1>8, <1>10, <1>11, <1>12, <1>13, <1>14, <1>15, <1>16, WorkGoesInto

LEMMA ReloadReturnHealthy ==
  ASSUME Sane, StepSound, NEW t \in Threads, ReloadReturn(t)
  PROVE  HealthyIInv'
<1> DEFINE o == Top(t).obj
           x == [scr[o] EXCEPT !.reloading = FALSE, !.initialized = TRUE]
           sc == Updated(scr, o, x)
           sh == shallow_ruzta_cache
           fu == full_ruzta_cache
<1>1. /\ ~ Idle(t) /\ Top(t).op = "reload" /\ Top(t).pc = "compiled" /\ ret[t] = TRUE
  BY SaneFacts DEF ReloadReturn, Running, TablesTyped
<1>2. /\ Return(t, TRUE) /\ KeepParsers
      /\ CommitScripts([scr EXCEPT ![o].reloading = FALSE, ![o].initialized = TRUE], sh, fu)
  BY <1>1 DEF ReloadReturn
<1>3. /\ o \in Objs /\ scr[o].path # Nil /\ Own(t, o) /\ Works(Top(t))
      /\ FrameRight(Top(t), scr, stage)
  BY <1>1, ReloadAtWork
<1>4. scr[o].valid /\ scr[o] \in ScriptRecord
  BY <1>1, <1>3, SaneFacts DEF FrameRight
<1>5. /\ x \in ScriptRecord /\ x.path = scr[o].path /\ x.valid /\ x.initialized
      /\ ~ x.reloading
  BY <1>4 DEF ScriptRecord
<1>6. CommitScripts(sc, sh, fu)
  <2>1. sc = [scr EXCEPT ![o].reloading = FALSE, ![o].initialized = TRUE]
    BY <1>3, SaneFacts DEF Updated
  <2> QED
    BY <1>2, <2>1
<1> HIDE DEF x
<1>7. /\ sc \in [Objs -> ScriptRecord] /\ sc[o] = x
      /\ \A y \in Objs \ {o} : sc[y] = scr[y]
      /\ \A y \in Objs : sc[y] # NoScript => sc[y].path \in Scripts
      /\ Shelved(sc, sh, fu) /\ AllSettled(sc, fu) /\ Milder(sc, o)
  BY <1>3, <1>5, SaneFacts, OneChanged
<1> HIDE DEF sc
<1>8. Settled(sc, o)
  BY <1>5, <1>7 DEF Settled
<1>9. StackRight(stack'[t], sc, stage)
  BY <1>1, <1>2, <1>3, <1>7, <1>8, SaneFacts, ReturnRight
<1>10. \A y \in Objs : sc[y].reloading => y \in WorkedOn(stack')
  BY <1>1, <1>2, <1>5, <1>7, SaneFacts, ReturnWorks
<1>11. ret'[t]
  <2>1. ret \in [Threads -> BOOLEAN]
    BY SaneFacts DEF TablesTyped
  <2> QED
    BY <1>2, <2>1 DEF Return
<1> QED
  BY <1>2, <1>6, <1>7, <1>9, <1>10, <1>11, SaneFacts, HealthyAfter DEF KeepParsers

-----------------------------------------------------------------------------
(* What is settled may become full.                                        *)
LEMMA PromotedRight ==
  ASSUME Sane, NEW o \in Objs, NEW p, scr[o].path = p, p # Nil, Settled(scr, o)
  PROVE  LET sh == [shallow_ruzta_cache EXCEPT ![p] = Nil]
             fu == [full_ruzta_cache EXCEPT ![p] = o]
         IN Shelved(scr, sh, fu) /\ AllSettled(scr, fu)
<1> DEFINE sh == [shallow_ruzta_cache EXCEPT ![p] = Nil]
           fu == [full_ruzta_cache EXCEPT ![p] = o]
<1>1. /\ \A x \in Objs : scr[x].path # Nil => scr[x].path \in Scripts
                                               /\ CachedScript(scr[x].path) = x
      /\ p \in Scripts /\ o # Nil /\ o # Null
  BY InItsPlace, ContentAssumption
<1>2. \A x \in Objs : scr[x].path = p => x = o
  <2> SUFFICES ASSUME NEW x \in Objs, scr[x].path = p PROVE x = o
    OBVIOUS
  <2>1. CachedScript(p) = x /\ CachedScript(p) = o
    BY <1>1
  <2> QED
    BY <2>1
<1>3. /\ sh[p] = Nil /\ fu[p] = o
      /\ \A q \in Scripts \ {p} : sh[q] = shallow_ruzta_cache[q] /\ fu[q] = full_ruzta_cache[q]
  BY <1>1, SaneFacts, CoreFacts DEF ScriptsSound
<1> HIDE DEF sh, fu
<1>4. /\ Shelved(scr, shallow_ruzta_cache, full_ruzta_cache)
      /\ AllSettled(scr, full_ruzta_cache)
  BY SaneFacts
<1>5. Shelved(scr, sh, fu)
  <2>1. \A q \in Scripts : fu[q] # Null /\ (sh[q] = Nil \/ fu[q] = Nil)
    BY <1>1, <1>3, <1>4 DEF Shelved
  <2>2. ASSUME NEW q \in Scripts, NEW x \in Objs, x \in {sh[q], fu[q]}
        PROVE  scr[x].path = q
    <3>1. CASE q = p
      BY <1>3, <2>2, <3>1, ContentAssumption
    <3>2. CASE q # p
      BY <1>3, <1>4, <2>2, <3>2 DEF Shelved
    <3> QED
      BY <3>1, <3>2
  <2>3. ASSUME NEW x \in Objs, scr[x].path # Nil
        PROVE  x \in {sh[scr[x].path], fu[scr[x].path]}
    <3>1. CASE scr[x].path = p
      BY <1>2, <1>3, <3>1
    <3>2. CASE scr[x].path # p
      BY <1>1, <1>3, <1>4, <2>3, <3>2 DEF Shelved
    <3> QED
      BY <3>1, <3>2
  <2> QED
    BY <2>1, <2>2, <2>3 DEF Shelved
<1>6. AllSettled(scr, fu)
  <2> SUFFICES ASSUME NEW q \in Scripts, fu[q] \in Objs PROVE Settled(scr, fu[q])
    BY DEF AllSettled
  <2>1. CASE q = p
    BY <1>3, <2>1
  <2>2. CASE q # p
    BY <1>3, <1>4, <2>2 DEF AllSettled
  <2> QED
    BY <2>1, <2>2
<1> QED
  BY <1>5, <1>6 DEF sh, fu

(* The reload that finish_compiling is called from.                        *)
LEMMA FinishFor ==
  ASSUME Sane, NEW t \in Threads, ~ Idle(t), Top(t).op = "finish"
  PROVE  \E o \in Objs : scr[o].path = Top(t).path /\ scr[o].path # Nil /\ Settled(scr, o)
<1>1. /\ Linked(stack[t], scr) /\ Top(t) = stack[t][1] /\ Len(stack[t]) \in Nat \ {0}
      /\ stack[t] # <<>>
  BY TopRight
<1>2. Len(stack[t]) # 1
  BY <1>1 DEF Linked
<1>3. 1 \in 1..Len(stack[t]) /\ 1 + 1 \in 1..Len(stack[t]) /\ 1 + 1 = 2
  <2>1. \A l \in Nat \ {0} : l # 1 => 1 \in 1..l /\ 1 + 1 \in 1..l /\ 1 + 1 = 2
    OBVIOUS
  <2>2. Len(stack[t]) \in Nat \ {0}
    BY <1>1
  <2> QED
    BY <1>2, <2>1, <2>2
<1> DEFINE b == stack[t][2]
<1>4. Link(stack[t][1], b, scr)
  BY <1>1, <1>3 DEF Linked
<1>5. b \in FrameRecord /\ FrameSound(b, reg, stage, scr) /\ FrameRight(b, scr, stage)
  BY <1>3, SaneFacts, OnStack
<1> HIDE DEF b
<1>6. b.op = "reload" /\ b.pc = "compiled" /\ scr[b.obj].path = Top(t).path
  BY <1>1, <1>4 DEF Link
<1>7. b.obj \in Objs /\ scr[b.obj].path # Nil
  BY <1>5, <1>6 DEF FrameSound, ReloadSound, FrameRecord
<1>8. Settled(scr, b.obj)
  BY <1>5, <1>6 DEF FrameRight, Works, Settled
<1> QED
  BY <1>6, <1>7, <1>8

LEMMA FinishMarkHealthy ==
  ASSUME Sane, StepSound, NEW t \in Threads, FinishMark(t)
  PROVE  HealthyIInv'
<1> DEFINE f == Top(t)
           p == f.path
           c == IF CachedScript(p) = Nil THEN Null ELSE CachedScript(p)
           h == [f EXCEPT !.pc = "depends", !.todo = dependencies[p]]
<1>1. /\ ~ Idle(t) /\ f.op = "finish" /\ Become(t, h) /\ Promoted(p, c)
      /\ UNCHANGED ret /\ CommitParsers(reg, stage)
  BY DEF FinishMark, Running, KeepParsers
<1>2. /\ f \in FrameRecord /\ FrameRight(f, scr, stage) /\ p \in Scripts
  BY <1>1, TopRight, SaneFacts, PathFacts
<1>3. PICK o \in Objs : scr[o].path = p /\ scr[o].path # Nil /\ Settled(scr, o)
  BY <1>1, FinishFor
<1>4. CachedScript(p) = o /\ o # Nil
  BY <1>3, InItsPlace
<1>5. c = o
  BY <1>4
<1>6. dependencies[p] \in SUBSET Scripts
  BY <1>2, SaneFacts DEF TablesTyped
<1>7. /\ h \in FrameRecord /\ h.op = "finish" /\ h.path = p /\ h.pc = "depends"
      /\ h.err = f.err
  BY <1>1, <1>2, <1>6 DEF FrameRecord
<1> HIDE DEF h, c
<1> DEFINE sh == [shallow_ruzta_cache EXCEPT ![p] = Nil]
           fu == [full_ruzta_cache EXCEPT ![p] = o]
<1>8. Shelved(scr, sh, fu) /\ AllSettled(scr, fu)
  <2> HIDE DEF p
  <2> QED
    BY <1>3, PromotedRight
<1>9. CommitScripts(scr, sh, fu)
  BY <1>1, <1>5 DEF Promoted
<1> HIDE DEF sh, fu
<1>10. FrameRight(h, scr, stage) /\ ~ Works(h) /\ ~ Works(f)
  BY <1>1, <1>2, <1>7 DEF FrameRight, Works
<1>11. StackRight(stack'[t], scr, stage)
  BY <1>1, <1>7, <1>10, SaneFacts, BecomeRight
<1>12. WorkedOn(stack) \subseteq WorkedOn(stack')
  BY <1>1, <1>7, <1>10, SaneFacts, BecomeWorks
<1>13. ret'[t] /\ \A y \in Objs : scr[y].reloading => y \in WorkedOn(stack')
  BY <1>1, <1>12, SaneFacts
<1> QED
  BY <1>1, <1>8, <1>9, <1>11, <1>13, SaneFacts, HealthyAfter

LEMMA FinishNextHealthy ==
  ASSUME Sane, StepSound, NEW t \in Threads, FinishNext(t)
  PROVE  HealthyIInv'
<1> DEFINE f == Top(t)
<1>1. /\ ~ Idle(t) /\ f.op = "finish" /\ UNCHANGED ret /\ CommitParsers(reg, stage)
      /\ CommitScripts(scr, shallow_ruzta_cache, full_ruzta_cache)
  BY DEF FinishNext, Running, KeepParsers, KeepScripts
<1>2. PICK q \in f.todo : Call(t, [f EXCEPT !.pc = "compiling", !.todo = f.todo \ {q}],
                               FullFrame(q, FALSE))
  BY DEF FinishNext
<1>3. f \in FrameRecord /\ FrameRight(f, scr, stage)
  BY <1>1, TopRight
<1> DEFINE h == [f EXCEPT !.pc = "compiling", !.todo = f.todo \ {q}]
           e == FullFrame(q, FALSE)
<1>4. /\ h \in FrameRecord /\ h.op = "finish" /\ h.path = f.path /\ h.pc = "compiling"
      /\ h.err = f.err
  BY <1>1, <1>3 DEF FrameRecord
<1>5. e \in FrameRecord
  BY <1>3, FullFrameSound DEF FrameRecord
<1>6. Begins(e, "full", scr, stage)
  BY NewCalls
<1>7. Call(t, h, e)
  BY <1>2
<1> HIDE DEF h, e
<1>8. FrameRight(h, scr, stage) /\ ~ Works(h) /\ ~ Works(f)
  BY <1>1, <1>3, <1>4 DEF FrameRight, Works
<1>9. FrameRight(e, scr, stage) /\ e.pc = "start" /\ Link(e, h, scr)
  BY <1>4, <1>6 DEF Begins, Link
<1> QED
  BY <1>1, <1>4, <1>5, <1>7, <1>8, <1>9, SaneFacts, CallGoes

LEMMA FinishCompiledHealthy ==
  ASSUME Sane, StepSound, NEW t \in Threads, FinishCompiled(t)
  PROVE  HealthyIInv'
<1> DEFINE f == Top(t)
           h == [f EXCEPT !.pc = "depends", !.err = f.err \/ ~ ret[t]]
<1>1. /\ ~ Idle(t) /\ f.op = "finish" /\ Become(t, h)
      /\ UNCHANGED ret /\ CommitParsers(reg, stage)
      /\ CommitScripts(scr, shallow_ruzta_cache, full_ruzta_cache)
  BY DEF FinishCompiled, Running, KeepParsers, KeepScripts
<1>2. f \in FrameRecord /\ FrameRight(f, scr, stage) /\ ret[t]
  BY <1>1, TopRight
<1>3. ~ (f.err \/ ~ ret[t])
  BY <1>2 DEF FrameRight
<1>4. /\ h \in FrameRecord /\ h.op = "finish" /\ h.path = f.path /\ h.pc = "depends"
      /\ ~ h.err
  BY <1>1, <1>2, <1>3 DEF FrameRecord
<1> HIDE DEF h
<1>5. FrameRight(h, scr, stage)
  BY <1>4 DEF FrameRight, Works
<1> QED
  BY <1>1, <1>4, <1>5, SaneFacts, BecomeGoes

LEMMA FinishReturnHealthy ==
  ASSUME Sane, StepSound, NEW t \in Threads, FinishReturn(t)
  PROVE  HealthyIInv'
<1> DEFINE ok == ~ Top(t).err
<1>1. /\ ~ Idle(t) /\ Top(t).op = "finish" /\ Return(t, ok) /\ KeepParsers
      /\ CommitScripts(scr, shallow_ruzta_cache, full_ruzta_cache)
  BY DEF FinishReturn, Running
<1>2. ok
  BY <1>1, TopRight DEF FrameRight
<1> HIDE DEF ok
<1>3. ~ Works(Top(t)) /\ Top(t).op # "reload"
  BY <1>1 DEF Works
<1> QED
  BY <1>1, <1>2, <1>3, ReturnGoes

LEMMA FullCachedHealthy ==
  ASSUME Sane, StepSound, NEW t \in Threads, FullCached(t)
  PROVE  HealthyIInv'
<1> DEFINE ok == TRUE
<1>1. /\ ~ Idle(t) /\ Top(t).op = "full" /\ Return(t, ok) /\ KeepParsers /\ ok
      /\ CommitScripts(scr, shallow_ruzta_cache, full_ruzta_cache)
  BY DEF FullCached, Running, KeepScripts
<1> HIDE DEF ok
<1>2. ~ Works(Top(t)) /\ Top(t).op # "reload"
  BY <1>1 DEF Works
<1> QED
  BY <1>1, <1>2, ReturnGoes

LEMMA QueryReturnHealthy ==
  ASSUME Sane, StepSound, NEW t \in Threads, QueryReturn(t)
  PROVE  HealthyIInv'
<1>1. /\ ~ Idle(t) /\ Top(t).op = "query" /\ Return(t, ret[t]) /\ KeepParsers
      /\ CommitScripts(scr, shallow_ruzta_cache, full_ruzta_cache)
  BY DEF QueryReturn, Running, KeepScripts
<1>2. ~ Works(Top(t)) /\ Top(t).op # "reload" /\ ret[t]
  BY <1>1, SaneFacts DEF Works
<1> QED
  BY <1>1, <1>2, ReturnGoes

LEMMA FullReturnHealthy ==
  ASSUME Sane, StepSound, NEW t \in Threads, FullReturn(t)
  PROVE  HealthyIInv'
<1> DEFINE f == Top(t)
           p == f.path
           o == f.obj
           sh == [shallow_ruzta_cache EXCEPT ![p] = Nil]
           fu == [full_ruzta_cache EXCEPT ![p] = o]
<1>1. /\ ~ Idle(t) /\ f.op = "full" /\ f.pc = "reloaded" /\ ret[t]
  BY SaneFacts DEF FullReturn, Running
<1>2. Return(t, ret[t]) /\ Promoted(p, o) /\ CommitParsers(reg, stage)
  BY <1>1 DEF FullReturn, KeepParsers
<1>3. /\ f \in FrameRecord /\ FrameRight(f, scr, stage) /\ FrameSound(f, reg, stage, scr)
      /\ TopSettled(stack[t], scr) /\ f = stack[t][1] /\ stack[t] # <<>>
  BY <1>1, TopRight
<1>4. /\ o \in Objs /\ scr[o].path = p /\ p # Nil /\ Settled(scr, o)
  BY <1>1, <1>3 DEF FrameSound, FrameRecord, FrameRight, TopSettled
<1>5. Shelved(scr, sh, fu) /\ AllSettled(scr, fu)
  BY <1>4, PromotedRight
<1>6. CommitScripts(scr, sh, fu)
  BY <1>2 DEF Promoted
<1> HIDE DEF sh, fu
<1>7. ~ Works(f) /\ f.op # "reload"
  BY <1>1 DEF Works
<1>8. StackRight(stack'[t], scr, stage)
  BY <1>1, <1>2, <1>7, SaneFacts, ReturnRight
<1>9. \A y \in Objs : scr[y].reloading => y \in WorkedOn(stack')
  BY <1>1, <1>2, <1>7, SaneFacts, ReturnWorks
<1>10. ret'[t]
  <2>1. ret \in [Threads -> BOOLEAN]
    BY SaneFacts DEF TablesTyped
  <2> QED
    BY <1>1, <1>2, <2>1 DEF Return
<1> QED
  BY <1>2, <1>5, <1>6, <1>8, <1>9, <1>10, SaneFacts, HealthyAfter

LEMMA FullReloadHealthy ==
  ASSUME Sane, StepSound, NEW t \in Threads, FullReload(t)
  PROVE  HealthyIInv'
<1> DEFINE f == Top(t)
           p == f.path
           s == GetShallowScript(p, reg, stage)
           full == full_ruzta_cache[p]
           o == IF full = Nil THEN s.obj ELSE full
           updated == IF f.fromDisk THEN [s.scr EXCEPT ![o].source = disk[p]] ELSE s.scr
<1>0. ~ Idle(t) /\ f.op = "full"
  BY DEF FullReload, Running
<1>1. /\ ShallowNeedsFresh(p) => SpareRef /\ SpareObj
      /\ IF o \notin Objs \/ (f.fromDisk /\ disk[p] = Nil)
         THEN Return(t, FALSE) /\ KeepParsers
              /\ CommitScripts(scr, shallow_ruzta_cache, full_ruzta_cache)
         ELSE /\ Call(t, [f EXCEPT !.pc = "reloaded", !.obj = o], ReloadFrame(o))
              /\ UNCHANGED ret
              /\ CommitParsers(s.g, s.st)
              /\ CommitScripts(updated, s.shallow, full_ruzta_cache)
  BY DEF FullReload
<1>2. /\ f \in FrameRecord /\ FrameRight(f, scr, stage) /\ p \in Scripts
  BY <1>0, TopRight, SaneFacts, PathFacts
<1>3. /\ s.obj \in Objs /\ s.scr[s.obj].path = p
      /\ full # Nil => s.obj = full
      /\ StagesRight(s.g, s.st) /\ Calmer(s.st) /\ s.st \in [RefIds -> StageRecord]
      /\ s.scr \in [Objs -> ScriptRecord]
      /\ \A z \in Objs : s.scr[z] # NoScript => s.scr[z].path \in Scripts
      /\ Shelved(s.scr, s.shallow, full_ruzta_cache)
      /\ AllSettled(s.scr, full_ruzta_cache)
      /\ \A z \in Objs : s.scr[z].reloading => scr[z].reloading
      /\ Milder(s.scr, Nil)
  <2>1. ShallowNeedsFresh(p) => SpareRef /\ SpareObj
    BY DEF FullReload
  <2> HIDE DEF p
  <2> QED
    BY <1>2, <2>1, SaneFacts, ShallowRight
<1>4. o = s.obj /\ disk[p] # Nil /\ disk[p] \in Content
  BY <1>2, <1>3, SaneFacts, TextsFine DEF TablesTyped
<1> HIDE DEF s, o
<1>5. /\ Call(t, [f EXCEPT !.pc = "reloaded", !.obj = o], ReloadFrame(o))
      /\ UNCHANGED ret /\ CommitParsers(s.g, s.st)
      /\ CommitScripts(updated, s.shallow, full_ruzta_cache)
  BY <1>1, <1>3, <1>4
<1> DEFINE g == s.g
           st == s.st
           sh == s.shallow
           n == updated
           fu == full_ruzta_cache
           h == [f EXCEPT !.pc = "reloaded", !.obj = o]
           e == ReloadFrame(o)
<1>6. /\ n \in [Objs -> ScriptRecord]
      /\ \A z \in Objs : n[z] # NoScript => n[z].path \in Scripts
      /\ Shelved(n, sh, fu) /\ AllSettled(n, fu) /\ Milder(n, Nil)
      /\ \A z \in Objs : n[z].reloading => scr[z].reloading
      /\ n[o].path = p
  <2> DEFINE sc == s.scr
             x == [sc[o] EXCEPT !.source = disk[p]]
  <2>1. /\ sc \in [Objs -> ScriptRecord] /\ o \in Objs /\ sc[o].path = p
        /\ \A z \in Objs : sc[z] # NoScript => sc[z].path \in Scripts
        /\ Shelved(sc, sh, fu) /\ AllSettled(sc, fu) /\ Milder(sc, Nil)
        /\ \A z \in Objs : sc[z].reloading => scr[z].reloading
    BY <1>3, <1>4
  <2>2. CASE f.fromDisk
    <3>1. /\ x \in ScriptRecord /\ x.path = sc[o].path /\ x.reloading = sc[o].reloading
          /\ x.valid = sc[o].valid /\ x.initialized = sc[o].initialized
      BY <1>4, <2>1 DEF ScriptRecord
    <3>2. n = Updated(sc, o, x)
      BY <2>1, <2>2 DEF Updated
    <3>3. sc[o].path # Nil
      BY <1>2, <2>1, RegistryAssumption
    <3> HIDE DEF sc, x, n, sh, fu, p
    <3>4. /\ n \in [Objs -> ScriptRecord] /\ n[o] = x
          /\ \A y \in Objs \ {o} : n[y] = sc[y]
          /\ \A y \in Objs : n[y] # NoScript => n[y].path \in Scripts
          /\ Shelved(n, sh, fu) /\ AllSettled(n, fu)
      BY <2>1, <3>1, <3>2, <3>3, OneChanged
    <3>5. Milder(n, Nil)
      BY <2>1, <3>1, <3>4 DEF Milder
    <3>6. \A z \in Objs : n[z].reloading => scr[z].reloading
      BY <2>1, <3>1, <3>4
    <3> QED
      BY <2>1, <3>1, <3>4, <3>5, <3>6
  <2>3. CASE ~ f.fromDisk
    <3>1. n = sc
      BY <2>3
    <3> HIDE DEF n, sc, sh, fu
    <3> QED
      BY <2>1, <3>1
  <2> QED
    BY <2>2, <2>3
<1>7. /\ CommitParsers(g, st) /\ CommitScripts(n, sh, fu) /\ Call(t, h, e)
      /\ StagesRight(g, st) /\ Calmer(st) /\ st \in [RefIds -> StageRecord]
      /\ o \in Objs
  BY <1>3, <1>4, <1>5
<1>8. e \in FrameRecord
  <2>1. n[o].path # Nil
    BY <1>2, <1>6, RegistryAssumption
  <2> HIDE DEF n
  <2> QED
    BY <1>7, <2>1, ReloadFrameSound
<1>9. Begins(e, "reload", n, st) /\ e.obj = o
  BY NewCalls
<1>10. /\ h \in FrameRecord /\ h.op = "full" /\ h.obj = o /\ h.path = p
       /\ h.pc = "reloaded" /\ h.err = f.err
  BY <1>0, <1>2, <1>7 DEF FrameRecord
<1> HIDE DEF g, st, sh, n, h, e
<1>11. FrameRight(h, n, st) /\ ~ Works(h) /\ ~ Works(f)
  BY <1>0, <1>2, <1>6, <1>10 DEF FrameRight, Works
<1>12. FrameRight(e, n, st) /\ e.pc = "start" /\ Link(e, h, n)
  BY <1>9, <1>10 DEF Begins, Link
<1>13. StackRight(stack'[t], n, st)
  BY <1>0, <1>6, <1>7, <1>8, <1>10, <1>11, <1>12, SaneFacts, CallRight
<1>14. WorkedOn(stack) \subseteq WorkedOn(stack')
  BY <1>0, <1>7, <1>8, <1>10, <1>11, SaneFacts, CallWorks
<1>15. ret'[t] /\ \A y \in Objs : n[y].reloading => y \in WorkedOn(stack')
  BY <1>5, <1>6, <1>14, SaneFacts
<1> QED
  BY <1>6, <1>7, <1>13, <1>15, SaneFacts, HealthyAfter
-----------------------------------------------------------------------------
(***************************************************************************)
(* Every request from outside.  The one thread is idle then.               *)
(***************************************************************************)
LEMMA NothingAtWork ==
  ASSUME Sane, NEW t \in Threads, Idle(t)
  PROVE  /\ \A u \in Threads : u = t /\ stack[u] = <<>>
         /\ WorkedOn(stack) = {} /\ \A o \in Objs : ~ scr[o].reloading
<1>1. \A u \in Threads : u = t /\ stack[u] = <<>>
  BY DEF Sane, Alone, Idle
<1>2. \A i \in 1..Len(<<>>) : FALSE
  OBVIOUS
<1>3. WorkedOn(stack) = {}
  BY <1>1, <1>2 DEF WorkedOn
<1> QED
  BY <1>1, <1>3, SaneFacts

LEMMA EmptyRight ==
  ASSUME NEW s, s = <<>>, NEW sc, NEW st
  PROVE  StackRight(s, sc, st)
<1>1. Len(s) = 0 /\ \A i \in 1..Len(s) : FALSE
  OBVIOUS
<1> QED
  BY <1>1 DEF StackRight, Linked, TopSettled

LEMMA StartedStack ==
  ASSUME Core, NEW t \in Threads, NEW f, Start(t, f)
  PROVE  stack'[t] = <<f>> /\ Len(stack'[t]) = 1 /\ stack'[t][1] = f
<1>1. stack'[t] = <<f>>
  BY CoreFacts DEF Start
<1> QED
  BY <1>1

LEMMA LoadHealthy ==
  ASSUME Sane, StepSound, NEW t \in Threads, NEW p \in Scripts, NEW b \in BOOLEAN,
         Load(t, p, b)
  PROVE  HealthyIInv'
<1> DEFINE f == FullFrame(p, b)
<1>1. /\ Idle(t) /\ Start(t, f) /\ UNCHANGED ret /\ CommitParsers(reg, stage)
      /\ CommitScripts(scr, shallow_ruzta_cache, full_ruzta_cache)
  BY DEF Load, KeepParsers, KeepScripts
<1>2. Begins(f, "full", scr, stage)
  BY NewCalls
<1> HIDE DEF f
<1>3. StackRight(stack'[t], scr, stage)
  BY <1>1, <1>2, SaneFacts, StartedStack, StartRight DEF Begins
<1>4. WorkedOn(stack) \subseteq WorkedOn(stack') /\ ret'[t]
  BY <1>1, SaneFacts, NothingAtWork
<1> QED
  BY <1>1, <1>3, <1>4, SaneFacts, ScriptsSame

LEMMA HotReloadHealthy ==
  ASSUME Sane, StepSound, NEW t \in Threads, NEW o \in Objs, HotReload(t, o)
  PROVE  HealthyIInv'
<1> DEFINE p == scr[o].path
           f == ReloadFrame(o)
           x == [scr[o] EXCEPT !.source = disk[p]]
           sc == Updated(scr, o, x)
<1>1. /\ Idle(t) /\ scr[o].path # Nil /\ Start(t, f)
      /\ CommitScripts(IF disk[p] = Nil THEN scr ELSE [scr EXCEPT ![o].source = disk[p]],
                       shallow_ruzta_cache, full_ruzta_cache)
      /\ UNCHANGED ret /\ CommitParsers(reg, stage)
  BY DEF HotReload, KeepParsers
<1>2. p \in Scripts /\ disk[p] # Nil /\ disk[p] \in Content /\ scr[o] \in ScriptRecord
  BY <1>1, SaneFacts, TextsFine DEF TablesTyped
<1>3. CommitScripts(sc, shallow_ruzta_cache, full_ruzta_cache)
  <2>1. sc = [scr EXCEPT ![o].source = disk[p]]
    BY SaneFacts DEF Updated
  <2> QED
    BY <1>1, <1>2, <2>1
<1>4. /\ x \in ScriptRecord /\ x.path = scr[o].path /\ x.reloading = scr[o].reloading
      /\ x.valid = scr[o].valid /\ x.initialized = scr[o].initialized
  BY <1>2 DEF ScriptRecord
<1> HIDE DEF x
<1>5. /\ sc \in [Objs -> ScriptRecord] /\ sc[o] = x /\ \A y \in Objs \ {o} : sc[y] = scr[y]
      /\ \A y \in Objs : sc[y] # NoScript => sc[y].path \in Scripts
      /\ Shelved(sc, shallow_ruzta_cache, full_ruzta_cache)
      /\ AllSettled(sc, full_ruzta_cache)
  BY <1>1, <1>4, SaneFacts, OneChanged
<1> HIDE DEF sc
<1>6. Begins(f, "reload", sc, stage)
  BY NewCalls
<1> HIDE DEF f
<1>7. StackRight(stack'[t], sc, stage)
  BY <1>1, <1>6, SaneFacts, StartedStack, StartRight DEF Begins
<1>8. \A y \in Objs : ~ sc[y].reloading
  BY <1>1, <1>4, <1>5, NothingAtWork
<1>9. ret'[t]
  BY <1>1, SaneFacts
<1> QED
  BY <1>1, <1>3, <1>5, <1>7, <1>8, <1>9, SaneFacts, HealthyAfter

LEMMA QueryParserHealthy ==
  ASSUME Sane, StepSound, NEW t \in Threads, NEW p \in Scripts,
         NEW target \in {INTERFACE_SOLVED, FULLY_SOLVED}, QueryParser(t, p, target)
  PROVE  HealthyIInv'
<1> DEFINE d == Answer(reg, p, FreshRef)
           g == GetParser(reg, p, Nil, FreshRef)
           f == [Frame("query") EXCEPT !.ref = d]
           e == RaiseFrame(d, target)
<1>1. /\ Idle(t) /\ (reg.parser_map[p] # Nil \/ SpareRef)
      /\ stack' = [stack EXCEPT ![t] = <<e, f>>] /\ CommitParsers(g, stage)
      /\ UNCHANGED ret
      /\ CommitScripts(scr, shallow_ruzta_cache, full_ruzta_cache)
  BY DEF QueryParser, KeepScripts
<1>2. reg.parser_map[p] = Nil => FreshRef \in RefIds /\ reg.ref[FreshRef].kind = "dead"
  BY <1>1 DEF SpareRef, FreshRef
<1>3. Keeps(reg, g)
  BY <1>2, SaneFacts, GetParserKeeps
<1> HIDE DEF g
<1>4. StagesRight(g, stage)
  BY <1>3, SaneFacts, StagesRightKept
<1>5. Begins(e, "raise", scr, stage)
  BY NewCalls
<1>6. FrameRight(f, scr, stage) /\ ~ Works(f) /\ f.op = "query"
  BY DEF Frame, FrameRight, Works
<1> HIDE DEF e, f
<1>7. /\ Len(stack'[t]) = 2 /\ stack'[t][1] = e /\ stack'[t][2] = f /\ stack'[t] # <<>>
  <2>1. stack'[t] = <<e, f>>
    BY <1>1, SaneFacts, CoreFacts
  <2> QED
    BY <2>1
<1>8. StackRight(stack'[t], scr, stage)
  <2> DEFINE s == stack'[t]
  <2> HIDE DEF s
  <2>1. Len(s) = 2 /\ s[1] = e /\ s[2] = f /\ s # <<>>
    BY <1>7 DEF s
  <2>2. \A i \in 1..Len(s) : i = 1 \/ i = 2
    BY <2>1
  <2>3. \A i \in 1..Len(s) : FrameRight(s[i], scr, stage) /\ ~ Works(s[i])
    BY <1>5, <1>6, <2>1, <2>2 DEF Begins
  <2>4. \A i \in 1..Len(s) : i + 1 \in 1..Len(s) => i = 1 /\ i + 1 = 2
    BY <2>1
  <2>5. Link(e, f, scr)
    BY <1>5, <1>6 DEF Begins, Link
  <2>6. Linked(s, scr)
    <3>1. \A i \in 1..Len(s) : i + 1 \in 1..Len(s) => Link(s[i], s[i + 1], scr)
      BY <2>1, <2>4, <2>5
    <3>2. s[Len(s)].op # "finish"
      BY <1>6, <2>1
    <3> QED
      BY <2>3, <3>1, <3>2 DEF Linked
  <2>7. TopSettled(s, scr)
    BY <1>5, <2>1 DEF TopSettled, Begins
  <2> QED
    BY <2>3, <2>6, <2>7 DEF StackRight, s
<1>9. WorkedOn(stack) \subseteq WorkedOn(stack') /\ ret'[t]
  BY <1>1, SaneFacts, NothingAtWork
<1> QED
  BY <1>1, <1>4, <1>8, <1>9, ScriptsSame

LEMMA EditFileHealthy ==
  ASSUME Sane, NEW p \in Scripts, NEW c \in Content \cup {Nil}, EditFile(p, c)
  PROVE  HealthyIInv'
<1>1. UNCHANGED <<reg, stage, scr, shallow_ruzta_cache, full_ruzta_cache, stack, ret>>
  BY DEF EditFile, scripts
<1>2. WorkedOn(stack') = WorkedOn(stack)
  BY <1>1
<1> QED
  BY <1>1, <1>2, SaneFacts DEF HealthyIInv

(* The objects of the other paths are where they were.                     *)
LEMMA RemoveCachedHealthy ==
  ASSUME Sane, StepSound, NEW t \in Threads, NEW p \in Scripts, RemoveCached(t, p),
         kept' = {}
  PROVE  HealthyIInv'
<1> DEFINE R == ClearedBy(reg, p)
           g == RemoveScriptParsers(reg, p)
           st == StagesLeft(stage, R)
           sh == [shallow_ruzta_cache EXCEPT ![p] = Nil]
           fu == [full_ruzta_cache EXCEPT ![p] = Nil]
           sc == [o \in Objs |-> IF scr[o].path = p THEN NoScript ELSE scr[o]]
<1>1. /\ Idle(t) /\ stack' = [u \in Threads |-> StackLeft(stack[u], R)]
      /\ CommitParsers(g, st) /\ UNCHANGED ret
      /\ \E k \in SUBSET ({CachedScript(p)} \cap Objs) : CommitKeeping(kept \cup k, scr, sh, fu)
  BY DEF RemoveCached, StagesLeft, StackLeft
<1>2. CommitKeeping({}, scr, sh, fu) /\ kept = {}
  <2>1. PICK k \in SUBSET ({CachedScript(p)} \cap Objs) : CommitKeeping(kept \cup k, scr, sh, fu)
    BY <1>1
  <2>2. kept' = kept \cup k
    BY <2>1 DEF CommitKeeping
  <2>3. kept = {} /\ kept \cup k = {}
    BY <2>2
  <2> QED
    BY <2>1, <2>3
<1>3. \A u \in Threads : stack'[u] = <<>>
  <2> SUFFICES ASSUME NEW u \in Threads PROVE stack'[u] = <<>>
    OBVIOUS
  <2>1. stack[u] = <<>> /\ Len(<<>>) = 0
    BY <1>1, NothingAtWork
  <2>2. stack'[u] = [i \in 1..0 |-> Deprived(stack[u][i], R)]
    BY <1>1, <2>1 DEF StackLeft
  <2> QED
    BY <2>2
<1>4. Activations(stack') = {}
  <2>1. \A i \in 1..Len(<<>>) : FALSE
    OBVIOUS
  <2> QED
    BY <1>3, <2>1 DEF Activations
<1>5. \A r \in RefIds : g.ref[r].path = reg.ref[r].path
  BY SaneFacts, RemoveScriptSound
<1> HIDE DEF R, g
<1>6. StagesRight(g, st)
  <2>1. \A r \in RefIds : st[r] = NoTree \/ st[r] = stage[r]
    BY DEF StagesLeft
  <2>2. NoTree.ok /\ NoTree.base = Nil
    BY DEF NoTree
  <2>3. \A r \in RefIds : stage[r].base # Nil => stage[r].base \in RefIds
    BY SaneFacts DEF StageRecord
  <2> HIDE DEF st
  <2> QED
    BY <1>5, <2>1, <2>2, <2>3, SaneFacts DEF StagesRight
<1> HIDE DEF st
<1>7. /\ \A q \in Scripts : sh[q] = (IF q = p THEN Nil ELSE shallow_ruzta_cache[q])
      /\ \A q \in Scripts : fu[q] = (IF q = p THEN Nil ELSE full_ruzta_cache[q])
  BY SaneFacts, CoreFacts DEF ScriptsSound
<1>8. /\ \A o \in Objs : sc[o] = (IF scr[o].path = p THEN NoScript ELSE scr[o])
      /\ sc = [o \in Objs |-> sc[o]]
  OBVIOUS
<1> HIDE DEF sh, fu, sc
<1>9. /\ sc \in [Objs -> ScriptRecord]
      /\ \A o \in Objs : sc[o] # NoScript => sc[o].path \in Scripts
  <2>1. NoScript \in ScriptRecord
    BY DEF NoScript, ScriptRecord
  <2>2. \A o \in Objs : sc[o] \in ScriptRecord
    BY <1>8, <2>1, SaneFacts
  <2> QED
    BY <1>8, <2>2, SaneFacts
<1>10. Shelved(sc, sh, fu)
  <2>1. Shelved(scr, shallow_ruzta_cache, full_ruzta_cache) /\ NoScript.path = Nil
    BY SaneFacts DEF NoScript
  <2>2. \A q \in Scripts : fu[q] # Null /\ (sh[q] = Nil \/ fu[q] = Nil)
    BY <1>7, <2>1, ContentAssumption DEF Shelved
  <2>3. ASSUME NEW q \in Scripts, NEW o \in Objs, o \in {sh[q], fu[q]}
        PROVE  sc[o].path = q
    <3>1. q # p
      BY <1>7, <2>3, ContentAssumption
    <3>2. scr[o].path = q
      BY <1>7, <2>1, <2>3, <3>1 DEF Shelved
    <3> QED
      BY <1>8, <3>1, <3>2
  <2>4. ASSUME NEW o \in Objs, sc[o].path # Nil
        PROVE  o \in {sh[sc[o].path], fu[sc[o].path]}
    <3>1. sc[o] = scr[o] /\ scr[o].path # p /\ scr[o].path # Nil
      BY <1>8, <2>1, <2>4
    <3>2. scr[o].path \in Scripts /\ o \in {shallow_ruzta_cache[scr[o].path],
                                            full_ruzta_cache[scr[o].path]}
      BY <2>1, <3>1, SaneFacts DEF Shelved
    <3> QED
      BY <1>7, <3>1, <3>2
  <2> QED
    BY <2>2, <2>3, <2>4 DEF Shelved
<1>11. AllSettled(sc, fu)
  <2> SUFFICES ASSUME NEW q \in Scripts, fu[q] \in Objs PROVE Settled(sc, fu[q])
    BY DEF AllSettled
  <2>1. q # p /\ fu[q] = full_ruzta_cache[q]
    BY <1>7, ContentAssumption
  <2>2. scr[fu[q]].path = q /\ Settled(scr, fu[q])
    BY <2>1, SaneFacts DEF Shelved, AllSettled
  <2>3. sc[fu[q]] = scr[fu[q]]
    BY <1>8, <2>1, <2>2
  <2> QED
    BY <2>2, <2>3 DEF Settled
<1>12. CommitScripts(sc, sh, fu)
  <2> DEFINE held == {sh[q] : q \in Scripts} \cup {fu[q] : q \in Scripts}
                       \cup {f.obj : f \in Activations(stack')} \cup {}
  <2>1. /\ kept' = {} /\ shallow_ruzta_cache' = sh /\ full_ruzta_cache' = fu
        /\ scr' = [o \in Objs |-> IF o \in held THEN scr[o] ELSE NoScript]
    BY <1>2 DEF CommitKeeping
  <2>2. \A o \in Objs : o \in held => sc[o] = scr[o]
    <3> SUFFICES ASSUME NEW o \in Objs, o \in held PROVE sc[o] = scr[o]
      OBVIOUS
    <3>1. PICK q \in Scripts : o \in {sh[q], fu[q]}
      BY <1>4
    <3>2. q # p
      BY <1>7, <3>1, ContentAssumption
    <3>3. scr[o].path = q
      BY <1>7, <3>1, <3>2, SaneFacts DEF Shelved
    <3> QED
      BY <1>8, <3>2, <3>3
  <2> HIDE DEF held
  <2>3. scr' = [o \in Objs |-> IF o \in held THEN sc[o] ELSE NoScript]
    BY <2>1, <2>2
  <2> QED
    BY <1>2, <2>1, <2>3 DEF CommitScripts, CommitKeeping, held
<1>13. \A o \in Objs : ~ sc[o].reloading
  BY <1>1, <1>8, NothingAtWork DEF NoScript
<1>14. StackRight(stack'[t], sc, st) /\ ret'[t]
  BY <1>1, <1>3, EmptyRight, SaneFacts
<1> QED
  BY <1>1, <1>6, <1>9, <1>10, <1>11, <1>12, <1>13, <1>14, SaneFacts, HealthyAfter

(* Ruzta::set_path: the object goes to its new path, and nothing runs.     *)
(* What was cached there is replaced and nobody holds it.                  *)
LEMMA MoveCachedHealthy ==
  ASSUME Sane, StepSound, NEW t \in Threads, NEW from \in Scripts, NEW to \in Scripts,
         MoveCached(t, from, to), kept' = {}, ShallowXorFull'
  PROVE  HealthyIInv'
<1> DEFINE o == CachedScript(from)
           g == RemoveParser(reg, from)
           moved(m) == [m EXCEPT ![to] = IF m[from] # Nil THEN m[from] ELSE m[to],
                                 ![from] = Nil]
           x == [scr[o] EXCEPT !.path = to]
           n == Updated(scr, o, x)
           sc == [y \in Objs |-> IF y # o /\ scr[y].path = to THEN NoScript ELSE n[y]]
           sh == moved(shallow_ruzta_cache)
           fu == moved(full_ruzta_cache)
<1>1. /\ Idle(t) /\ o \in Objs /\ from # to /\ UNCHANGED <<ret, stack>>
      /\ CommitParsers(g, stage)
      /\ CommitKeeping({}, [scr EXCEPT ![o].path = to], sh, fu) /\ kept = {}
  <2>1. PICK k : CommitKeeping(kept \cup k, [scr EXCEPT ![o].path = to], sh, fu)
    BY DEF MoveCached
  <2>2. kept' = kept \cup k
    BY <2>1 DEF CommitKeeping
  <2>3. kept = {} /\ kept \cup k = {}
    BY <2>2
  <2> QED
    BY <2>1, <2>3 DEF MoveCached
<1>2. /\ Shelved(scr, shallow_ruzta_cache, full_ruzta_cache)
      /\ AllSettled(scr, full_ruzta_cache)
      /\ shallow_ruzta_cache \in [Scripts -> Objs \cup {Nil}]
      /\ full_ruzta_cache \in [Scripts -> Objs \cup {Nil, Null}]
      /\ \A q \in Scripts : full_ruzta_cache[q] # Null
  BY SaneFacts, CoreFacts DEF ScriptsSound, Shelved
<1>3. /\ scr[o].path = from
      /\ \/ shallow_ruzta_cache[from] = o /\ full_ruzta_cache[from] = Nil
         \/ shallow_ruzta_cache[from] = Nil /\ full_ruzta_cache[from] = o
  <2>1. \/ shallow_ruzta_cache[from] = o /\ full_ruzta_cache[from] = Nil
        \/ shallow_ruzta_cache[from] = Nil /\ full_ruzta_cache[from] = o
    BY <1>1, <1>2 DEF CachedScript, Shelved
  <2> QED
    BY <1>1, <1>2, <2>1 DEF Shelved
<1>4. Keeps(reg, g)
  BY SaneFacts, RemoveKeeps
<1> HIDE DEF o, g
<1>5. x \in ScriptRecord /\ x.path = to /\ ~ x.reloading
      /\ x.valid = scr[o].valid /\ x.initialized = scr[o].initialized
  <2>1. scr[o] \in ScriptRecord /\ ~ scr[o].reloading
    BY <1>1, SaneFacts, NothingAtWork
  <2> QED
    BY <2>1 DEF ScriptRecord
<1>6. n = [scr EXCEPT ![o].path = to]
  BY <1>1, SaneFacts DEF Updated
<1>7. CommitKeeping({}, n, sh, fu)
  BY <1>1, <1>6
<1> HIDE DEF x
<1>8. /\ n \in [Objs -> ScriptRecord] /\ n[o] = x /\ \A y \in Objs \ {o} : n[y] = scr[y]
  BY <1>1, <1>5, SaneFacts DEF Updated
<1> HIDE DEF n
<1>9. /\ sc = [y \in Objs |-> sc[y]] /\ sc[o] = x
      /\ \A y \in Objs \ {o} : sc[y] = IF scr[y].path = to THEN NoScript ELSE scr[y]
  BY <1>1, <1>8
<1>10. /\ sh[from] = Nil /\ fu[from] = Nil
       /\ \A q \in Scripts \ {from, to} : sh[q] = shallow_ruzta_cache[q]
                                           /\ fu[q] = full_ruzta_cache[q]
       /\ sh[to] = IF shallow_ruzta_cache[from] # Nil THEN shallow_ruzta_cache[from]
                   ELSE shallow_ruzta_cache[to]
       /\ fu[to] = IF full_ruzta_cache[from] # Nil THEN full_ruzta_cache[from]
                   ELSE full_ruzta_cache[to]
  BY <1>1, <1>2
<1> HIDE DEF sc, sh, fu
<1>11. \/ sh[to] = o /\ fu[to] = Nil
       \/ sh[to] = Nil /\ fu[to] = o /\ full_ruzta_cache[from] = o
  <2>1. sh = shallow_ruzta_cache' /\ fu = full_ruzta_cache'
    BY <1>7 DEF CommitKeeping
  <2>2. sh[to] = Nil \/ fu[to] \notin Objs
    BY <2>1 DEF ShallowXorFull, ShallowBesideFull
  <2>3. o # Nil
    BY <1>1, ContentAssumption
  <2> QED
    BY <1>1, <1>2, <1>3, <1>10, <2>2, <2>3
<1>12. /\ sc \in [Objs -> ScriptRecord] /\ NoScript.path = Nil /\ ~ NoScript.reloading
       /\ \A y \in Objs : sc[y] # NoScript => sc[y].path \in Scripts
  <2>1. NoScript \in ScriptRecord /\ NoScript.path = Nil /\ ~ NoScript.reloading
    BY DEF NoScript, ScriptRecord
  <2>2. \A y \in Objs : /\ sc[y] \in ScriptRecord
                        /\ sc[y] # NoScript => sc[y].path \in Scripts
    BY <1>5, <1>9, <2>1, SaneFacts
  <2> QED
    BY <1>9, <2>1, <2>2
<1>13. \A y \in Objs \ {o} : scr[y].path # from
  <2> SUFFICES ASSUME NEW y \in Objs, y # o, scr[y].path = from PROVE FALSE
    OBVIOUS
  <2>1. y \in {shallow_ruzta_cache[from], full_ruzta_cache[from]}
    BY <1>2, RegistryAssumption DEF Shelved
  <2> QED
    BY <1>3, <2>1, ContentAssumption
<1>14. ASSUME NEW q \in Scripts, NEW y \in Objs, y \in {sh[q], fu[q]}
       PROVE  /\ sc[y].path = q
              /\ q # to => q # from /\ y # o /\ sc[y] = scr[y]
  <2>1. q # from
    BY <1>10, <1>14, ContentAssumption
  <2>2. CASE q = to
    <3>1. y = o
      BY <1>11, <1>14, <2>2, ContentAssumption
    <3> QED
      BY <1>5, <1>9, <2>2, <3>1
  <2>3. CASE q # to
    <3>1. scr[y].path = q
      BY <1>2, <1>10, <1>14, <2>1, <2>3 DEF Shelved
    <3> QED
      BY <1>3, <1>9, <2>1, <2>3, <3>1
  <2> QED
    BY <2>2, <2>3
<1>15. Shelved(sc, sh, fu)
  <2>1. ASSUME NEW q \in Scripts PROVE fu[q] # Null /\ (sh[q] = Nil \/ fu[q] = Nil)
    BY <1>1, <1>2, <1>10, <1>11, ContentAssumption DEF Shelved
  <2>2. ASSUME NEW y \in Objs, sc[y].path # Nil
        PROVE  y \in {sh[sc[y].path], fu[sc[y].path]}
    <3>1. CASE y = o
      BY <1>5, <1>9, <1>11, <3>1
    <3>2. CASE y # o
      <4>1. /\ sc[y] = scr[y] /\ scr[y].path # Nil
            /\ scr[y].path \in Scripts \ {from, to}
        BY <1>9, <1>12, <1>13, <2>2, <3>2, SaneFacts
      <4>2. y \in {shallow_ruzta_cache[scr[y].path], full_ruzta_cache[scr[y].path]}
        BY <1>2, <4>1 DEF Shelved
      <4> QED
        BY <1>10, <4>1, <4>2
    <3> QED
      BY <3>1, <3>2
  <2> QED
    BY <1>14, <2>1, <2>2 DEF Shelved
<1>16. AllSettled(sc, fu)
  <2> SUFFICES ASSUME NEW q \in Scripts, fu[q] \in Objs PROVE Settled(sc, fu[q])
    BY DEF AllSettled
  <2>1. CASE q = to
    <3>1. fu[q] = o /\ full_ruzta_cache[from] = o
      BY <1>11, <2>1, ContentAssumption
    <3>2. Settled(scr, o) /\ ~ scr[o].reloading
      BY <1>1, <1>2, <3>1, NothingAtWork DEF AllSettled
    <3> QED
      BY <1>5, <1>9, <3>1, <3>2 DEF Settled
  <2>2. CASE q # to
    <3>1. q # from /\ sc[fu[q]] = scr[fu[q]]
      BY <1>14, <2>2
    <3>2. fu[q] = full_ruzta_cache[q]
      BY <1>10, <2>2, <3>1
    <3> QED
      BY <1>2, <3>1, <3>2 DEF AllSettled, Settled
  <2> QED
    BY <2>1, <2>2
<1>17. Activations(stack') = {}
  <2>1. \A i \in 1..Len(<<>>) : FALSE
    OBVIOUS
  <2>2. \A u \in Threads : stack'[u] = <<>>
    BY <1>1, NothingAtWork
  <2> QED
    BY <2>1, <2>2 DEF Activations
<1>18. CommitScripts(sc, sh, fu)
  <2> DEFINE held == {sh[q] : q \in Scripts} \cup {fu[q] : q \in Scripts}
                       \cup {f.obj : f \in Activations(stack')} \cup {}
  <2>1. /\ kept' = {} /\ shallow_ruzta_cache' = sh /\ full_ruzta_cache' = fu
        /\ scr' = [y \in Objs |-> IF y \in held THEN n[y] ELSE NoScript]
    BY <1>7 DEF CommitKeeping
  <2>2. \A y \in Objs : y \in held => sc[y] = n[y]
    <3> SUFFICES ASSUME NEW y \in Objs, y \in held PROVE sc[y] = n[y]
      OBVIOUS
    <3>1. PICK q \in Scripts : y \in {sh[q], fu[q]}
      BY <1>17
    <3>2. sc[y].path = q /\ q # Nil
      BY <1>14, <3>1, RegistryAssumption
    <3> QED
      BY <1>8, <1>9, <1>12, <3>2
  <2> HIDE DEF held
  <2>3. scr' = [y \in Objs |-> IF y \in held THEN sc[y] ELSE NoScript]
    BY <2>1, <2>2
  <2> QED
    BY <1>1, <2>1, <2>3 DEF CommitScripts, CommitKeeping, held
<1>19. \A y \in Objs : ~ sc[y].reloading
  BY <1>1, <1>5, <1>9, <1>12, NothingAtWork
<1>20. StackRight(stack'[t], sc, stage) /\ ret'[t] /\ StagesRight(g, stage)
  BY <1>1, <1>4, NothingAtWork, EmptyRight, SaneFacts, StagesRightKept
<1> QED
  BY <1>1, <1>12, <1>15, <1>16, <1>18, <1>19, <1>20, SaneFacts, HealthyAfter

-----------------------------------------------------------------------------
LEMMA HealthyFromInit == CacheInit => HealthyIInv
<1> SUFFICES ASSUME CacheInit PROVE HealthyIInv
  OBVIOUS
<1>1. /\ stage = [r \in RefIds |-> NoTree] /\ scr = [o \in Objs |-> NoScript]
      /\ shallow_ruzta_cache = [p \in Scripts |-> Nil]
      /\ full_ruzta_cache = [p \in Scripts |-> Nil]
      /\ stack = [t \in Threads |-> <<>>] /\ ret = [t \in Threads |-> TRUE]
  BY DEF CacheInit
<1>2. \A t \in Threads : ret[t] /\ StackRight(stack[t], scr, stage)
  BY <1>1, EmptyRight
<1>3. StagesRight(reg, stage)
  BY <1>1 DEF StagesRight, NoTree
<1>4. \A o \in Objs : scr[o].path = Nil /\ ~ scr[o].reloading
  BY <1>1 DEF NoScript
<1>5. /\ Shelved(scr, shallow_ruzta_cache, full_ruzta_cache)
      /\ AllSettled(scr, full_ruzta_cache)
  BY <1>1, <1>4, ContentAssumption DEF Shelved, AllSettled
<1> QED
  BY <1>2, <1>3, <1>4, <1>5 DEF HealthyIInv

LEMMA HealthyThread ==
  ASSUME Sane, StepSound, NEW t \in Threads, Step(t)
  PROVE  HealthyIInv'
<1>1. CASE RaiseStage(t) \/ RaiseVisit(t) \/ RaiseResume(t)
           \/ RaiseEndStage(t) \/ RaiseReturn(t)
  BY <1>1, RaiseStageHealthy, RaiseVisitHealthy, RaiseResumeHealthy,
     RaiseEndStageHealthy, RaiseReturnHealthy
<1>2. CASE ReloadBusy(t) \/ ReloadFlag(t) \/ ReloadAnnounce(t) \/ ReloadParse(t)
           \/ ReloadCompile(t) \/ ReloadReturn(t)
  BY <1>2, ReloadBusyHealthy, ReloadFlagHealthy, NothingToAnnounce, ReloadParseHealthy,
     ReloadCompileHealthy, ReloadReturnHealthy
<1>3. CASE ReloadFree(t) \/ ReloadLook(t) \/ ReloadHas(t) \/ ReloadGet(t)
           \/ ReloadCompare(t) \/ ReloadRemove(t) \/ ReloadRelease(t)
  BY <1>3, ReloadFreeHealthy, ReloadLookHealthy, ReloadHasHealthy, ReloadGetHealthy,
     ReloadCompareHealthy, ReloadRemoveHealthy, ReloadReleaseHealthy
<1>4. CASE FinishMark(t) \/ FinishNext(t) \/ FinishCompiled(t) \/ FinishReturn(t)
  BY <1>4, FinishMarkHealthy, FinishNextHealthy, FinishCompiledHealthy, FinishReturnHealthy
<1>5. CASE FullCached(t) \/ FullReload(t) \/ FullReturn(t) \/ QueryReturn(t)
  BY <1>5, FullCachedHealthy, FullReloadHealthy, FullReturnHealthy, QueryReturnHealthy
<1> QED
  BY <1>1, <1>2, <1>3, <1>4, <1>5 DEF Step

LEMMA HealthyOutside ==
  ASSUME Sane, StepSound, NEW t \in Threads, Outside(t), kept' = {},
         ShallowXorFull'
  PROVE  HealthyIInv'
<1>1. CASE \E p \in Scripts, fromDisk \in BOOLEAN : Load(t, p, fromDisk)
  BY <1>1, LoadHealthy
<1>2. CASE \E o \in Objs : HotReload(t, o)
  BY <1>2, HotReloadHealthy
<1>3. CASE \E p \in Scripts, target \in {INTERFACE_SOLVED, FULLY_SOLVED} :
             QueryParser(t, p, target)
  BY <1>3, QueryParserHealthy
<1>4. CASE \E p \in Scripts : RemoveCached(t, p)
  BY <1>4, RemoveCachedHealthy
<1>5. CASE \E from, to \in Scripts : MoveCached(t, from, to)
  BY <1>5, MoveCachedHealthy
<1> QED
  BY <1>1, <1>2, <1>3, <1>4, <1>5 DEF Outside

LEMMA HealthyStep ==
  ASSUME Alone, CacheIInv, HealthyIInv, Healthy, kept' = {}, ShallowXorFull',
         [CacheNext]_cvars
  PROVE  HealthyIInv'
<1>1. Sane
  BY DEF Sane, CacheIInv
<1>2. CASE \E t \in Threads : Step(t)
  <2>1. PICK t \in Threads : Step(t)
    BY <1>2
  <2>2. StepSound
    BY <1>1, <2>1, StepOfThread DEF Sane
  <2> QED
    BY <1>1, <2>1, <2>2, HealthyThread
<1>3. CASE UNCHANGED cvars
  <2>1. UNCHANGED <<reg, stage, scr, shallow_ruzta_cache, full_ruzta_cache, stack, ret>>
    BY <1>3 DEF cvars, scripts
  <2>2. WorkedOn(stack') = WorkedOn(stack)
    BY <2>1
  <2> QED
    BY <2>1, <2>2 DEF HealthyIInv
<1>4. CASE \E t \in Threads : Outside(t)
  <2>1. PICK t \in Threads : Outside(t)
    BY <1>4
  <2>2. StepSound
    BY <1>1, <2>1, StepFromOutside DEF Sane
  <2> QED
    BY <1>1, <2>1, <2>2, HealthyOutside
<1>5. CASE \E p \in Scripts, c \in Content \cup {Nil} : EditFile(p, c)
  BY <1>1, <1>5, EditFileHealthy
<1> QED
  BY <1>2, <1>3, <1>4, <1>5 DEF CacheNext, Finished

(***************************************************************************)
(* README.md:116, for every number of scripts that extend and use each     *)
(* other in any cycle, and every history of loads, hot reloads, removals,  *)
(* moves and edits: on one thread, as long as the texts in play have no    *)
(* errors and no cycle of extends, no script in use is removed or replaced *)
(* and none moves next to another one, a full script is analysed, compiled *)
(* and initialized whenever no request runs.                               *)
(***************************************************************************)
THEOREM ReadyAlone ==
  ASSUME \A t, u \in Threads : t = u
  PROVE  CacheSafety => HealthyScriptsReady
<1>0. Alone
  BY DEF Alone
<1>1. CacheInit => HealthyIInv
  BY HealthyFromInit
<1>2. CacheIInv /\ HealthyIInv /\ Healthy /\ (kept = {})' /\ ShallowXorFull'
        /\ [CacheNext]_cvars => HealthyIInv'
  BY <1>0, HealthyStep
<1>3. HealthyIInv => FullScriptsReady
  <2> SUFFICES ASSUME HealthyIInv, AllIdle, NEW p \in Scripts PROVE FullScriptReady(p)
    BY DEF FullScriptsReady
  <2>1. WorkedOn(stack) = {}
    <3>1. \A i \in 1..Len(<<>>) : FALSE
      OBVIOUS
    <3>2. \A t \in Threads : stack[t] = <<>>
      BY DEF AllIdle, Idle
    <3> QED
      BY <3>1, <3>2 DEF WorkedOn
  <2> QED
    BY <2>1 DEF HealthyIInv, AllSettled, Settled, FullScriptReady
<1> QED
  BY <1>1, <1>2, <1>3, SpecCacheIInv, PTL DEF CacheSafety, HealthyScriptsReady

=============================================================================
