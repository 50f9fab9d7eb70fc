-------------------------- MODULE RuztaLanguageServer --------------------------
(***************************************************************************)
(* The language server's life (language_server/ruzta_language_server.cpp): *)
(* the editor's main thread polls the clients each frame, or a thread of   *)
(* the server does; a change of settings stops the server and starts it    *)
(* again, perhaps the other way; listening may fail, for the port may be   *)
(* in use.                                                                 *)
(***************************************************************************)
EXTENDS RuztaLanguageProtocol

VARIABLES
    started,          \* the members of RuztaLanguageServer
    start_attempted,
    use_thread,
    thread_running,
    thread,           \* whether the thread is started
    process_internal, \* the main thread gets NOTIFICATION_INTERNAL_PROCESS
    main,             \* what the main thread does: "free", "joining" or "gone"
    restart           \* while it joins: what comes after the stop

serverVars == <<started, start_attempted, use_thread, thread_running, thread,
                process_internal, main, restart>>
vars == <<protocolVars, serverVars>>

NoRestart == [wanted |-> FALSE, threaded |-> FALSE, free |-> FALSE]

Init ==
    /\ ProtocolInit
    /\ started = FALSE
    /\ start_attempted = FALSE
    /\ use_thread = FALSE
    /\ thread_running = FALSE
    /\ thread = FALSE
    /\ process_internal = TRUE
    /\ main = "free"
    /\ restart = NoRestart

(* The main thread is in a poll unless the server's thread is. *)
MainFree == main = "free" /\ (At("idle") \/ thread)

(* Mistake: the member is read before it has the new setting. *)
FramesWantedIfOld(threaded) == ~use_thread

(* set_process_internal(!use_thread) *)
FramesWanted(threaded) == ~threaded

Listens(free, stopped) == free /\ (stopped \/ ~listening)

(* start() with the settings' use_thread; the port is free or not. *)
Starts(threaded, ok) ==
    /\ use_thread' = threaded
    /\ IF ok
       THEN /\ started' = TRUE
            /\ process_internal' = FramesWanted(threaded)
            /\ thread' = IF threaded THEN TRUE ELSE thread
            /\ thread_running' = IF threaded THEN TRUE ELSE thread_running
       ELSE UNCHANGED <<started, process_internal, thread, thread_running>>

(* protocol.stop(): the clients stay in the table, their connections do not. *)
Disconnected == [id \in Ids |-> IF id \in clients THEN [peer[id] EXCEPT !.up = FALSE] ELSE peer[id]]

protocol_stop(listens) ==
    /\ peer' = Disconnected
    /\ pending' = 0
    /\ listening' = listens
    /\ UNCHANGED <<ws, disk, clients, next_client_id, latest_client_id, poll, asked>>

(* What stop() and then start(), or only stop(), end with. *)
StopsThen(next) ==
    LET ok == next.wanted /\ Listens(next.free, TRUE) IN
    /\ protocol_stop(ok)
    /\ IF next.wanted
       THEN /\ use_thread' = next.threaded
            /\ started' = ok
            /\ process_internal' = IF ok THEN FramesWanted(next.threaded) ELSE process_internal
            /\ thread' = (ok /\ next.threaded)
            /\ thread_running' = (ok /\ next.threaded)
       ELSE /\ started' = FALSE
            /\ thread' = FALSE
            /\ thread_running' = FALSE
            /\ UNCHANGED <<use_thread, process_internal>>

(* Mistake: stop does not wait for the thread. *)
JoinsIfDetached == FALSE

Joins == use_thread /\ thread

(* stop() and what follows.  A server set to use a thread that has none, for
   it could not listen, fails at once; its connections are as they were. *)
Stop(next) ==
    \/ /\ Joins
       /\ thread_running' = FALSE
       /\ main' = "joining"
       /\ restart' = next
       /\ UNCHANGED <<ws, disk, clients, peer, next_client_id, latest_client_id,
                      pending, listening, poll, asked>>
       /\ UNCHANGED <<started, use_thread, thread, process_internal>>
    \/ /\ ~Joins
       /\ use_thread /\ ~thread
       /\ IF next.wanted
          THEN /\ Starts(next.threaded, Listens(next.free, FALSE))
               /\ listening' = (listening \/ next.free)
          ELSE UNCHANGED <<started, use_thread, thread_running, thread,
                           process_internal, listening>>
       /\ main' = IF next.wanted THEN "free" ELSE "gone"
       /\ UNCHANGED <<ws, disk, clients, peer, next_client_id, latest_client_id,
                      pending, poll, asked, restart>>
    \/ /\ ~Joins
       /\ ~(use_thread /\ ~thread)
       /\ StopsThen(next)
       /\ main' = IF next.wanted THEN "free" ELSE "gone"
       /\ UNCHANGED restart

(* wait_to_finish returns. *)
Joined ==
    /\ main = "joining"
    /\ ~thread
    /\ StopsThen(restart)
    /\ main' = IF restart.wanted THEN "free" ELSE "gone"
    /\ restart' = NoRestart
    /\ UNCHANGED <<start_attempted, events>>

(* A frame: the first attempt to start, then the poll of this frame. *)
FirstStart ==
    /\ MainFree
    /\ process_internal
    /\ ~start_attempted
    /\ start_attempted' = TRUE
    /\ \E free \in BOOLEAN :
          /\ \E threaded \in IF events = 0 THEN BOOLEAN ELSE {use_thread} :
                Starts(threaded, Listens(free, FALSE))
          /\ listening' = (listening \/ free)
    /\ UNCHANGED <<ws, disk, clients, peer, next_client_id, latest_client_id,
                   pending, poll, asked, events>>
    /\ UNCHANGED <<main, restart>>

Frame ==
    /\ MainFree
    /\ process_internal
    /\ start_attempted
    /\ started
    /\ ~use_thread
    /\ PollBegins
    /\ UNCHANGED serverVars

SettingsChange ==
    /\ MainFree
    /\ events < MaxEvents
    /\ events' = events + 1
    /\ \E threaded, free \in BOOLEAN :
          Stop([wanted |-> TRUE, threaded |-> threaded, free |-> free])
    /\ UNCHANGED start_attempted

ExitTree ==
    /\ MainFree
    /\ Stop(NoRestart)
    /\ UNCHANGED <<start_attempted, events>>

(* thread_main between two polls. *)
ThreadPolls ==
    /\ thread
    /\ thread_running
    /\ At("idle")
    /\ PollBegins
    /\ UNCHANGED serverVars

ThreadEnds ==
    /\ thread
    /\ ~thread_running
    /\ At("idle")
    /\ thread' = FALSE
    /\ UNCHANGED protocolVars
    /\ UNCHANGED <<started, start_attempted, use_thread, thread_running,
                   process_internal, main, restart>>

(* The poll under way, and what happens at the other ends. *)
Polling == PollStep /\ UNCHANGED serverVars

Request == MainFree /\ EditorRequest /\ UNCHANGED serverVars

Remote ==
    /\ \/ Connect
       \/ \E id \in Ids : Submit(id) \/ Arrive(id) \/ ClientReads(id) \/ ClientCloses(id)
    /\ UNCHANGED serverVars

Gone == main = "gone" /\ UNCHANGED vars

Next ==
    \/ FirstStart \/ Frame \/ SettingsChange \/ ExitTree \/ Joined
    \/ ThreadPolls \/ ThreadEnds \/ Polling \/ Request \/ Remote \/ Gone

(* What the server does by itself: frames are drawn, the thread runs, a poll
   goes on once it has begun.  Bytes that were sent arrive, and clients read
   what they are sent, else send_data never returns. *)
Schedule == FirstStart \/ Frame \/ Joined \/ ThreadPolls \/ ThreadEnds

Transport ==
    /\ \E id \in Ids : Arrive(id) \/ ClientReads(id)
    /\ UNCHANGED serverVars

(* ENABLED Polling, written out. *)
PollCanGoOn ==
    /\ ~At("idle")
    /\ LET p == peer[poll.id]
       IN  At("send") /\ p.up => p.unread < Room

WeakFairnessOfPolling == []<>~PollCanGoOn \/ []<><<Polling>>_vars

Fairness == WF_vars(Schedule) /\ WF_vars(Transport) /\ WeakFairnessOfPolling

Spec == Init /\ [][Next]_vars /\ Fairness
-----------------------------------------------------------------------------
(* The tables and records keep their types. *)
TypeOK ==
    /\ WorkspaceTypeOK
    /\ clients \subseteq 0..next_client_id - 1
    /\ next_client_id + pending \in 0..MaxConnections
    /\ latest_client_id \in Ids
    /\ poll.at \in {"idle", "visit", "header", "content", "send"}
    /\ poll.at # "idle" => poll.id \in clients
    /\ DOMAIN peer = Ids
    /\ \A id \in Ids :
          /\ {peer[id].inq, peer[id].req_buf} \subseteq Seq(Unit)
          /\ peer[id].arrived \in 0..Len(peer[id].inq)
          /\ Len(peer[id].req_buf) \in 0..LSP_MAX_BUFFER_SIZE
          /\ peer[id].res_sent \in 0..OutUnits - 1
          /\ peer[id].unread \in 0..Room
    /\ main \in {"free", "joining", "gone"}
    /\ {started, use_thread, thread, thread_running, process_internal, listening}
          \subseteq BOOLEAN

(* Whatever settings were changed and however often listening failed, before
   and after the first attempt: a server that is started listens, and its
   thread or the frames poll it, never neither (start and stop share the
   members use_thread and started, which a failed start sets in part). *)
StartedIsPolled ==
    started =>
        /\ listening
        /\ IF use_thread THEN main = "joining" \/ (thread /\ thread_running)
           ELSE process_internal

(* After stop nothing polls: no poll is under way, no thread will begin one,
   no connection is taken, and every client left in the table is closed
   (RuztaLanguageServer::stop joins the thread before protocol.stop). *)
QuietWhenStopped ==
    ~started =>
        /\ At("idle")
        /\ ~thread
        /\ ~listening
        /\ \A id \in clients : ~peer[id].up

(* Every request is answered, over any cut of the bytes into arrivals and
   partial writes, whichever thread polls and however often that changes,
   unless its client closes or is dropped (handle_data, send_data, poll). *)
Requested(n) == n <= Len(asked) /\ asked[n].request

Settled(n) ==
    LET id == asked[n].id
    IN  \/ [o |-> Response(n), part |-> OutUnits] \in ToSet(peer[id].wrote)
        \/ id \notin clients
        \/ ~peer[id].up

EveryRequestAnswered ==
    \A n \in 1..MaxMessages : Requested(n) ~> (Requested(n) /\ Settled(n))

(* What the server promises each client (RuztaLspChannel): messages served
   one at a time in the order sent, one response to each request, to the
   client that made it, none torn or doubled. *)
ChannelSpec == Channel!Spec
=============================================================================
