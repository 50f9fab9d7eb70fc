------------------------- MODULE RuztaLanguageProtocol -------------------------
(***************************************************************************)
(* The clients of the language server and its poll                         *)
(* (language_server/ruzta_language_protocol.cpp).  A client's bytes arrive *)
(* when they like; handle_data takes them one get_partial_data at a time,  *)
(* header then content, and keeps its place between polls.  A unit stands  *)
(* for a run of bytes: part -1 is within the header, 0 ends it, and        *)
(* 1..n are the content.  A response is OutUnits units, of which the       *)
(* socket takes some at a time.                                            *)
(***************************************************************************)
EXTENDS RuztaWorkspace

CONSTANTS
    Methods,             \* messages each client may send, without their number
    LSP_MAX_BUFFER_SIZE, \* units that fit into req_buf
    LSP_MAX_CLIENTS,
    MaxConnections,      \* bound on connections ever made
    MaxMessages,         \* bound on messages clients send
    MaxEvents,           \* bound on connections, messages, closes,
                         \* editor requests and changes of settings
    Room                 \* units a socket takes before the client reads

Ids == 0..MaxConnections - 1
OutUnits == 2

(* A message without its number: what handle_data can tell of it is the
   length of its header and of its content. *)
Template ==
    [method : Handlers, path : PathSet, text : Texts, header : Nat \ {0}, content : Nat]

ASSUME ProtocolAssumption ==
    /\ Methods \in [Ids -> SUBSET Template]
    /\ LSP_MAX_BUFFER_SIZE \in Nat \ {0}
    /\ LSP_MAX_CLIENTS \in Nat \ {0}
    /\ {MaxConnections, Room} \subseteq Nat \ {0}

VARIABLES
    clients,           \* ids in the HashMap; it iterates in order of insertion
    peer,              \* LSPeer and both ends of its connection, by id
    next_client_id,
    latest_client_id,
    pending,           \* connections the listening socket has not handed out
    listening,
    poll,              \* where the running poll is
    asked,             \* history: the client of each message
    events

protocolVars == <<ws, disk, clients, peer, next_client_id, latest_client_id,
                  pending, listening, poll, asked, events>>

(* inq are units the client has sent, arrived those of them that have come;
   wrote are units the socket took, unread those the client has not read. *)
NewPeer ==
    [ up |-> TRUE, inq |-> <<>>, arrived |-> 0,
      req_buf |-> <<>>, has_header |-> FALSE, content_length |-> 0,
      res_queue |-> <<>>, res_sent |-> 0, wrote |-> <<>>, unread |-> 0 ]

Idle == [at |-> "idle", id |-> 0]

Parts(m) ==
    [i \in 1..m.header - 1 |-> -1] \o <<0>> \o [i \in 1..m.content |-> i]
Units(m) == [i \in DOMAIN Parts(m) |-> [m |-> m, part |-> Parts(m)[i]]]
IsLast(u) == u.part = u.m.content

MessageRecord ==
    [n : Nat, method : Handlers, path : PathSet, text : Texts,
     header : Nat \ {0}, content : Nat]
Unit == [m : MessageRecord, part : Int]

ProtocolInit ==
    /\ ws = EmptyWorkspace
    /\ disk \in Disks
    /\ clients = {}
    /\ peer = [id \in Ids |-> NewPeer]
    /\ next_client_id = 0
    /\ latest_client_id = 0
    /\ pending = 0
    /\ listening = FALSE
    /\ poll = Idle
    /\ asked = <<>>
    /\ events = 0

-----------------------------------------------------------------------------
(* The other ends of the connections. *)
Connect ==
    /\ listening
    /\ next_client_id + pending < MaxConnections
    /\ events < MaxEvents
    /\ events' = events + 1
    /\ pending' = pending + 1
    /\ UNCHANGED <<ws, disk, clients, peer, next_client_id, latest_client_id,
                   listening, poll, asked>>

Submit(id) ==
    /\ id \in clients
    /\ peer[id].up
    /\ Len(asked) < MaxMessages
    /\ events < MaxEvents
    /\ events' = events + 1
    /\ \E t \in Methods[id] :
          LET m == [n |-> Len(asked) + 1, method |-> t.method, path |-> t.path,
                    text |-> t.text, header |-> t.header, content |-> t.content]
          IN  /\ peer' = [peer EXCEPT ![id].inq = @ \o Units(m)]
              /\ asked' = Append(asked, [id |-> id, request |-> IsRequest(m)])
    /\ UNCHANGED <<ws, disk, clients, next_client_id, latest_client_id,
                   pending, listening, poll>>

ChangesPeer(id, new) ==
    /\ peer' = [peer EXCEPT ![id] = new]
    /\ UNCHANGED <<ws, disk, clients, next_client_id, latest_client_id,
                   pending, listening, poll, asked>>

Arrive(id) ==
    /\ peer[id].arrived < Len(peer[id].inq)
    /\ ChangesPeer(id, [peer[id] EXCEPT !.arrived = @ + 1])
    /\ UNCHANGED events

ClientReads(id) ==
    /\ peer[id].unread > 0
    /\ ChangesPeer(id, [peer[id] EXCEPT !.unread = 0])
    /\ UNCHANGED events

ClientCloses(id) ==
    /\ id \in clients
    /\ peer[id].up
    /\ events < MaxEvents
    /\ events' = events + 1
    /\ ChangesPeer(id, [peer[id] EXCEPT !.up = FALSE])

-----------------------------------------------------------------------------
(* poll *)
At(stage) == poll.at = stage
FirstOf(S) ==
    IF S = {} THEN Idle
    ELSE [at |-> "visit", id |-> CHOOSE i \in S : \A j \in S : i <= j]

(* ++E *)
After(id) == FirstOf({i \in clients : i > id})

(* send_data, unless there is nothing to send. *)
Sending(id, p) == IF p.res_queue = <<>> THEN After(id) ELSE [at |-> "send", id |-> id]

(* on_client_connected, then clients.begin().  A connection too many has
   been taken from the server already: it is closed. *)
PollBegins ==
    LET taken == pending > 0
        fits == Cardinality(clients) < LSP_MAX_CLIENTS
    IN  /\ At("idle")
        /\ pending' = IF taken THEN pending - 1 ELSE pending
        /\ clients' = IF taken /\ fits THEN clients \union {next_client_id} ELSE clients
        /\ next_client_id' = IF taken /\ fits THEN next_client_id + 1 ELSE next_client_id
        /\ poll' = FirstOf(clients')
        /\ UNCHANGED <<ws, disk, peer, latest_client_id, listening, asked,
                       events>>

(* on_client_disconnected, and from the beginning again. *)
Disconnects(id) ==
    /\ clients' = clients \ {id}
    /\ poll' = FirstOf(clients')
    /\ UNCHANGED <<peer, latest_client_id>>

Unpolled == <<disk, next_client_id, pending, listening, asked, events>>

(* The condition of the inner loop, and the entry of handle_data. *)
EntersHandleData(id, new) ==
    IF new.arrived > 0
    THEN /\ latest_client_id' = id
         /\ poll' = [at |-> IF new.has_header THEN "content" ELSE "header", id |-> id]
    ELSE /\ poll' = Sending(id, new)
         /\ UNCHANGED latest_client_id

PollVisit ==
    LET id == poll.id IN
    /\ At("visit")
    /\ IF peer[id].up
       THEN EntersHandleData(id, peer[id]) /\ UNCHANGED <<clients, peer>>
       ELSE Disconnects(id)
    /\ UNCHANGED ws
    /\ UNCHANGED Unpolled

Buffered(p) == [p EXCEPT !.inq = Tail(@), !.arrived = @ - 1, !.req_buf = Append(@, Head(p.inq))]

(* get_partial_data found no byte: wait for the next poll, or the connection
   is closed. *)
NoByte(id, p) ==
    IF p.up
    THEN /\ peer' = [peer EXCEPT ![id] = p]
         /\ poll' = Sending(id, p)
         /\ UNCHANGED <<clients, latest_client_id>>
    ELSE Disconnects(id)

(* String::to_int of what stands after "Content-Length: "; of a header that
   does not begin with it some number comes out. *)
Lengths(buf) ==
    IF \A i \in DOMAIN buf : buf[i].m = Last(buf).m /\ buf[i].part <= 0
    THEN {Last(buf).m.content} ELSE {0, LSP_MAX_BUFFER_SIZE}

(* Mistake: waiting for the next poll forgets the place in the message. *)
KeptPlaceIfReset(p) == [p EXCEPT !.req_buf = <<>>]

KeptPlace(p) == p

HeaderRead(p, n) ==
    [p EXCEPT !.req_buf = <<>>, !.has_header = TRUE, !.content_length = n]

HandleHeader ==
    LET id == poll.id
        p == peer[id]
        q == Buffered(p)
    IN  /\ At("header")
        /\ CASE Len(p.req_buf) >= LSP_MAX_BUFFER_SIZE -> Disconnects(id)
             [] Len(p.req_buf) < LSP_MAX_BUFFER_SIZE /\ p.arrived = 0 ->
                   NoByte(id, KeptPlace(p))
             [] OTHER ->
                   /\ IF Last(q.req_buf).part = 0
                      THEN \E n \in Lengths(q.req_buf) :
                              /\ peer' = [peer EXCEPT ![id] = HeaderRead(q, n)]
                              /\ poll' = [at |-> "content", id |-> id]
                      ELSE peer' = [peer EXCEPT ![id] = q] /\ UNCHANGED poll
                   /\ UNCHANGED <<clients, latest_client_id>>
        /\ UNCHANGED ws
        /\ UNCHANGED Unpolled

(* The loop over the content.  When the buffer is full the check that follows
   the reset of req_pos tests the value just reset, so it does not return. *)
HandleContent ==
    LET id == poll.id
        full == Len(peer[id].req_buf) >= LSP_MAX_BUFFER_SIZE
        p == IF full THEN [peer[id] EXCEPT !.req_buf = <<>>, !.has_header = FALSE]
             ELSE peer[id]
    IN  /\ At("content")
        /\ Len(peer[id].req_buf) < peer[id].content_length
        /\ IF p.arrived = 0 THEN NoByte(id, KeptPlace(p))
           ELSE /\ peer' = [peer EXCEPT ![id] = Buffered(p)]
                /\ UNCHANGED <<clients, latest_client_id, poll>>
        /\ UNCHANGED ws
        /\ UNCHANGED Unpolled

(* What process_message queues for the client whose message it is: what the
   handler told the client, then the response, if the message is a request.
   A text that is no message gets an error. *)
Whole(buf) ==
    /\ buf # <<>>
    /\ \A i \in DOMAIN buf : buf[i].m = buf[1].m /\ buf[i].part = i

Response(n) == [type |-> "response", about |-> n]

Replies(w, m) == IF IsRequest(m) THEN Append(w.notes, Response(m.n)) ELSE w.notes

(* initialize tells a client with another root first; then its handler. *)
Greeted(w, m) ==
    IF m.method = "initialize" THEN Note(w, [type |-> "changeWorkspace", about |-> "root"])
    ELSE w

(* Mistake: has_header is left as it was. *)
ReadyAgainIfHeaderKept(p) == [p EXCEPT !.req_buf = <<>>]

ReadyAgain(p) == [p EXCEPT !.req_buf = <<>>, !.has_header = FALSE]

Queued(p, out) == [p EXCEPT !.res_queue = @ \o out]

(* The end of handle_data, and whether the time of the poll is up. *)
HandleMessage ==
    LET id == poll.id
        p == ReadyAgain(peer[id])
        buf == peer[id].req_buf
        m == buf[1].m
        w == IF Whole(buf) THEN Handled(Greeted(ws, m), m) ELSE ws
        out == IF Whole(buf) THEN Replies(w, m)
               ELSE IF buf = <<>> THEN <<>> ELSE <<Response(0)>>
        told == Queued(p, out)
    IN  /\ At("content")
        /\ Len(buf) >= peer[id].content_length
        /\ ws' = [w EXCEPT !.notes = <<>>]
        /\ peer' = [peer EXCEPT ![id] = told]
        /\ \/ EntersHandleData(id, told)
           \/ /\ poll' = Sending(id, told)
              /\ UNCHANGED latest_client_id
        /\ UNCHANGED clients
        /\ UNCHANGED Unpolled

(* Mistake: the next response begins where this one's place was. *)
ShiftedIfPlaceKept(p) == [p EXCEPT !.res_queue = Tail(@)]

Shifted(p) == [p EXCEPT !.res_queue = Tail(@), !.res_sent = 0]

Put(p, k) ==
    [p EXCEPT !.res_sent = @ + k,
              !.unread = @ + k,
              !.wrote = @ \o [i \in 1..k |-> [o |-> Head(p.res_queue), part |-> p.res_sent + i]]]

(* One put_partial_data of send_data.  While the socket takes nothing the
   loop spins, for it has no way out but an error: no step. *)
SendData ==
    LET id == poll.id
        p == peer[id]
    IN  /\ At("send")
        /\ IF p.up
           THEN /\ \E k \in 1..OutUnits - p.res_sent :
                      /\ p.unread + k <= Room
                      /\ LET q == Put(p, k)
                             left == IF q.res_sent >= OutUnits THEN Shifted(q) ELSE q
                         IN  /\ peer' = [peer EXCEPT ![id] = left]
                             /\ poll' = Sending(id, left)
                /\ UNCHANGED <<clients, latest_client_id>>
           ELSE Disconnects(id)
        /\ UNCHANGED ws
        /\ UNCHANGED Unpolled

PollStep == PollVisit \/ HandleHeader \/ HandleContent \/ HandleMessage \/ SendData

(* RuztaWorkspace::apply_new_signal: the editor asks the latest client to
   change a document; request_client fails if that client has gone. *)
EditorRequest ==
    /\ ws.initialized
    /\ events < MaxEvents
    /\ events' = events + 1
    /\ peer' = IF latest_client_id \in clients
               THEN [peer EXCEPT ![latest_client_id].res_queue =
                        Append(@, [type |-> "applyEdit", about |-> "edit"])]
               ELSE peer
    /\ UNCHANGED <<ws, disk, clients, next_client_id, latest_client_id,
                   pending, listening, poll, asked>>

-----------------------------------------------------------------------------
(* The channel of each client: a message waits until its last unit has been
   handled. *)
Ends(units) ==
    LET ends[i \in 0..Len(units)] ==
            IF i = 0 THEN <<>>
            ELSE IF IsLast(units[i]) THEN Append(ends[i - 1], units[i].m)
            ELSE ends[i - 1]
    IN  ends

Messages(units) == Ends(units)[Len(units)]

(* The responses a client can make out, if their units are in order and
   those of a response of one piece. *)
InOrder(units) ==
    \A i \in DOMAIN units :
        /\ units[i].part = ((i - 1) % OutUnits) + 1
        /\ units[i].part # 1 => units[i].o = units[i - 1].o
Heard(units) ==
    IF InOrder(units)
    THEN [i \in 1..Len(units) \div OutUnits |-> units[i * OutUnits].o]
    ELSE <<"garbled">>

Inbox == [id \in Ids |-> IF id \in clients THEN Messages(peer[id].req_buf \o peer[id].inq) ELSE <<>>]
Outbox == [id \in Ids |-> IF id \in clients THEN peer[id].res_queue ELSE <<>>]

Channel == INSTANCE RuztaLspChannel WITH
    Clients <- Ids,
    open <- clients,
    inbox <- Inbox,
    outbox <- Outbox,
    heard <- [id \in Ids |-> Heard(peer[id].wrote)]
=============================================================================
