---------------------------- MODULE RuztaLspChannel ----------------------------
(***************************************************************************)
(* What the language server promises a client, without sockets, buffers or *)
(* polls: a client's messages are served one at a time in the order it     *)
(* sent them; serving one appends notifications to that client's outbox    *)
(* and, last, the response, exactly if the message is a request; what is   *)
(* heard is the outbox, whole messages in order.  A client may be dropped  *)
(* at any time, and nothing is said to it after that.                      *)
(***************************************************************************)
EXTENDS Naturals, Sequences, SequencesExt

CONSTANTS Clients, IsRequest(_)

VARIABLES open, inbox, outbox, heard

vars == <<open, inbox, outbox, heard>>

Init ==
    /\ open = {}
    /\ inbox = [c \in Clients |-> <<>>]
    /\ outbox = [c \in Clients |-> <<>>]
    /\ heard = [c \in Clients |-> <<>>]

Open(c) ==
    /\ c \notin open
    /\ open' = open \union {c}
    /\ UNCHANGED <<inbox, outbox, heard>>

Submit(c) ==
    /\ c \in open
    /\ Len(inbox'[c]) = Len(inbox[c]) + 1
    /\ IsPrefix(inbox[c], inbox'[c])
    /\ inbox' = [inbox EXCEPT ![c] = inbox'[c]]
    /\ UNCHANGED <<open, outbox, heard>>

IsNote(o) == o.type # "response"

Answers(m, out) ==
    IF IsRequest(m)
    THEN /\ out # <<>>
         /\ Last(out) = [type |-> "response", about |-> m.n]
         /\ \A i \in 1..Len(out) - 1 : IsNote(out[i])
    ELSE \A i \in DOMAIN out : IsNote(out[i])

Serve(c) ==
    /\ c \in open
    /\ inbox[c] # <<>>
    /\ inbox' = [inbox EXCEPT ![c] = Tail(@)]
    /\ IsPrefix(outbox[c], outbox'[c])
    /\ Answers(Head(inbox[c]),
               SubSeq(outbox'[c], Len(outbox[c]) + 1, Len(outbox'[c])))
    /\ outbox' = [outbox EXCEPT ![c] = outbox'[c]]
    /\ UNCHANGED <<open, heard>>

Push(c) ==
    /\ c \in open
    /\ Len(outbox'[c]) = Len(outbox[c]) + 1
    /\ IsPrefix(outbox[c], outbox'[c])
    /\ IsNote(Last(outbox'[c]))
    /\ outbox' = [outbox EXCEPT ![c] = outbox'[c]]
    /\ UNCHANGED <<open, inbox, heard>>

Deliver(c) ==
    /\ outbox[c] # <<>>
    /\ outbox' = [outbox EXCEPT ![c] = Tail(@)]
    /\ heard' = [heard EXCEPT ![c] = Append(@, Head(outbox[c]))]
    /\ UNCHANGED <<open, inbox>>

Drop(c) ==
    /\ c \in open
    /\ open' = open \ {c}
    /\ inbox' = [inbox EXCEPT ![c] = <<>>]
    /\ outbox' = [outbox EXCEPT ![c] = <<>>]
    /\ UNCHANGED heard

Next == \E c \in Clients : Open(c) \/ Submit(c) \/ Serve(c) \/ Push(c) \/ Deliver(c) \/ Drop(c)

Spec == Init /\ [][Next]_vars
=============================================================================
