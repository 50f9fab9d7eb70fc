------------------------- MODULE RuztaLspChannelProofs -------------------------
(***************************************************************************)
(* The language server of RuztaLanguageServer keeps what RuztaLspChannel   *)
(* promises a client, over any cut of the bytes, on any thread and through *)
(* any changes of settings: no message is served twice or out of order,    *)
(* serving a request queues one response, the last of what it queues, and  *)
(* what the client can make out is what was queued for it, in order.       *)
(* The first lemmas are about sequences of units, Framed and Told about    *)
(* one client, and the last about the steps of the server.                 *)
(***************************************************************************)
EXTENDS RuztaLanguageServerProofs

-----------------------------------------------------------------------------
(***************************************************************************)
(* The messages whose last unit is in a sequence of units.                 *)
(***************************************************************************)
LEMMA EndsStep ==
  ASSUME NEW u \in Seq(Unit)
  PROVE  /\ Ends(u)[0] = <<>>
         /\ \A i \in 1..Len(u) :
              Ends(u)[i] = IF IsLast(u[i]) THEN Append(Ends(u)[i - 1], u[i].m)
                           ELSE Ends(u)[i - 1]
<1> DEFINE N == Len(u)
           Step(s, i) == IF IsLast(u[i]) THEN Append(s, u[i].m) ELSE s
           UpTo(f, k) == f = [i \in 0..k |-> IF i = 0 THEN <<>> ELSE Step(f[i - 1], i)]
           ends == Ends(u)
<1>1. N \in Nat
  OBVIOUS
<1>2. ends = CHOOSE f : UpTo(f, N)
  BY DEF Ends
<1> SUFFICES /\ ends[0] = <<>>
             /\ \A i \in 1..N : ends[i] = Step(ends[i - 1], i)
  OBVIOUS
<1> HIDE DEF Step, N, ends
<1>3. \A k \in Nat : \E f : UpTo(f, k)
  <2> DEFINE T == {k \in Nat : \E f : UpTo(f, k)}
  <2>1. 0 \in T
    <3> DEFINE f == [i \in 0..0 |-> <<>>]
    <3>1. UpTo(f, 0)
      OBVIOUS
    <3> QED
      BY <3>1
  <2>2. ASSUME NEW k \in Nat, k \in T
        PROVE  k + 1 \in T
    <3>1. PICK f : UpTo(f, k)
      BY <2>2
    <3> DEFINE g == [i \in 0..k + 1 |-> IF i = k + 1 THEN Step(f[k], k + 1) ELSE f[i]]
    <3>2. \A i \in 0..k : g[i] = f[i]
      OBVIOUS
    <3>3. ASSUME NEW i \in 0..k + 1
          PROVE  g[i] = IF i = 0 THEN <<>> ELSE Step(g[i - 1], i)
      <4>1. CASE i = k + 1
        <5>1. g[i] = Step(f[k], k + 1) /\ i # 0 /\ i - 1 = k /\ k \in 0..k
          BY <4>1
        <5>2. g[i - 1] = f[k]
          BY <3>2, <5>1
        <5> QED
          BY <4>1, <5>1, <5>2
      <4>2. CASE i # k + 1
        <5>1. i \in 0..k
          BY <4>2
        <5>2. g[i] = f[i] /\ f[i] = IF i = 0 THEN <<>> ELSE Step(f[i - 1], i)
          BY <3>1, <3>2, <5>1
        <5>3. i # 0 => g[i - 1] = f[i - 1]
          BY <3>2, <5>1
        <5> HIDE DEF g
        <5> QED
          BY <5>2, <5>3
      <4> QED
        BY <4>1, <4>2
    <3>4. g = [i \in 0..k + 1 |-> IF i = 0 THEN <<>> ELSE Step(g[i - 1], i)]
      <4> DEFINE h == [i \in 0..k + 1 |-> IF i = 0 THEN <<>> ELSE Step(g[i - 1], i)]
      <4>1. DOMAIN g = DOMAIN h /\ \A i \in 0..k + 1 : h[i] = g[i]
        BY <3>3
      <4>2. g = [i \in 0..k + 1 |-> g[i]] /\ h = [i \in 0..k + 1 |-> h[i]]
        OBVIOUS
      <4> HIDE DEF g, h
      <4>3. g = h
        BY <4>1, <4>2
      <4> QED
        BY <4>3 DEF h
    <3> HIDE DEF g
    <3> QED
      BY <3>4
  <2> HIDE DEF T
  <2>3. Nat \subseteq T
    BY <2>1, <2>2, Steps
  <2> QED
    BY <2>3 DEF T
<1>4. UpTo(ends, N)
  BY <1>1, <1>2, <1>3
<1>5. \A i \in 0..N : ends[i] = IF i = 0 THEN <<>> ELSE Step(ends[i - 1], i)
  BY <1>4
<1> QED
  BY <1>1, <1>5

LEMMA EndsTyped ==
  ASSUME NEW u \in Seq(Unit)
  PROVE  \A i \in 0..Len(u) : Ends(u)[i] \in Seq(MessageRecord)
<1> DEFINE T == {k \in Nat : k <= Len(u) => Ends(u)[k] \in Seq(MessageRecord)}
<1>1. 0 \in T
  <2>1. Ends(u)[0] = <<>> /\ <<>> \in Seq(MessageRecord)
    BY EndsStep, EmptySeq
  <2> QED
    BY <2>1
<1>2. ASSUME NEW k \in Nat, k \in T
      PROVE  k + 1 \in T
  <2>1. SUFFICES ASSUME k + 1 <= Len(u) PROVE Ends(u)[k + 1] \in Seq(MessageRecord)
    OBVIOUS
  <2>2. k + 1 \in 1..Len(u) /\ k <= Len(u) /\ k + 1 - 1 = k
    BY <2>1
  <2>3. u[k + 1] \in Unit /\ Ends(u)[k] \in Seq(MessageRecord)
    BY <1>2, <2>2
  <2>4. u[k + 1].m \in MessageRecord
    BY <2>3 DEF Unit
  <2>5. Ends(u)[k + 1] = IF IsLast(u[k + 1]) THEN Append(Ends(u)[k], u[k + 1].m)
                         ELSE Ends(u)[k]
    BY <2>2, EndsStep
  <2>6. Append(Ends(u)[k], u[k + 1].m) \in Seq(MessageRecord)
    BY <2>3, <2>4, AppendProperties
  <2> QED
    BY <2>3, <2>5, <2>6
<1> HIDE DEF T
<1>3. Nat \subseteq T
  BY <1>1, <1>2, Steps
<1> QED
  BY <1>3 DEF T

LEMMA MessagesTyped ==
  ASSUME NEW u \in Seq(Unit)
  PROVE  Messages(u) \in Seq(MessageRecord)
<1>1. Len(u) \in 0..Len(u)
  BY LenProperties
<1> QED
  BY <1>1, EndsTyped DEF Messages

LEMMA AppendToConcat ==
  ASSUME NEW s \in Seq(MessageRecord), NEW t \in Seq(MessageRecord), NEW e \in MessageRecord
  PROVE  Append(s \o t, e) = s \o Append(t, e)
<1>1. <<e>> \in Seq(MessageRecord) /\ s \o t \in Seq(MessageRecord)
  BY ConcatProperties
<1>2. Append(s \o t, e) = (s \o t) \o <<e>> /\ Append(t, e) = t \o <<e>>
  BY <1>1, AppendIsConcat
<1> QED
  BY <1>1, <1>2, ConcatAssociative

LEMMA EndsBefore ==
  ASSUME NEW u \in Seq(Unit), NEW v \in Seq(Unit)
  PROVE  \A i \in 0..Len(u) : Ends(u \o v)[i] = Ends(u)[i]
<1> DEFINE w == u \o v
           T == {k \in Nat : k <= Len(u) => Ends(w)[k] = Ends(u)[k]}
<1>1. /\ w \in Seq(Unit) /\ Len(w) = Len(u) + Len(v)
      /\ Len(u) \in Nat /\ Len(v) \in Nat
      /\ \A i \in 1..Len(u) : w[i] = u[i]
  BY ConcatProperties
<1> HIDE DEF w
<1>2. 0 \in T
  BY <1>1, EndsStep
<1>3. ASSUME NEW k \in Nat, k \in T
      PROVE  k + 1 \in T
  <2>1. SUFFICES ASSUME k + 1 <= Len(u) PROVE Ends(w)[k + 1] = Ends(u)[k + 1]
    OBVIOUS
  <2>2. /\ k + 1 \in 1..Len(u) /\ k + 1 \in 1..Len(w) /\ k <= Len(u) /\ k + 1 - 1 = k
        /\ w[k + 1] = u[k + 1]
    BY <1>1, <2>1
  <2>3. Ends(w)[k] = Ends(u)[k]
    BY <1>3, <2>2
  <2>4. Ends(w)[k + 1] = IF IsLast(w[k + 1]) THEN Append(Ends(w)[k], w[k + 1].m)
                         ELSE Ends(w)[k]
    BY <1>1, <2>2, EndsStep
  <2>5. Ends(u)[k + 1] = IF IsLast(u[k + 1]) THEN Append(Ends(u)[k], u[k + 1].m)
                         ELSE Ends(u)[k]
    BY <2>2, EndsStep
  <2> QED
    BY <2>2, <2>3, <2>4, <2>5
<1> HIDE DEF T
<1>4. Nat \subseteq T
  BY <1>2, <1>3, Steps
<1> QED
  BY <1>1, <1>4 DEF T, w

LEMMA MessagesConcat ==
  ASSUME NEW u \in Seq(Unit), NEW v \in Seq(Unit)
  PROVE  Messages(u \o v) = Messages(u) \o Messages(v)
<1> DEFINE w == u \o v
           n == Len(u)
           T == {k \in Nat : k <= Len(v) => Ends(w)[n + k] = Messages(u) \o Ends(v)[k]}
<1>1. /\ w \in Seq(Unit) /\ Len(w) = n + Len(v)
      /\ n \in Nat /\ Len(v) \in Nat
      /\ \A i \in 1..Len(v) : w[n + i] = v[i]
  BY ConcatProperties
<1>2. Ends(w)[n] = Messages(u)
  BY EndsBefore DEF Messages
<1>3. Messages(u) \in Seq(MessageRecord)
  BY MessagesTyped
<1> HIDE DEF w, n
<1>4. 0 \in T
  <2>1. Messages(u) \o <<>> = Messages(u)
    BY <1>3, ConcatEmptySeq
  <2>2. Ends(v)[0] = <<>> /\ n + 0 = n
    BY <1>1, EndsStep
  <2> QED
    BY <1>2, <2>1, <2>2
<1>5. ASSUME NEW k \in Nat, k \in T
      PROVE  k + 1 \in T
  <2>1. SUFFICES ASSUME k + 1 <= Len(v)
                 PROVE  Ends(w)[n + (k + 1)] = Messages(u) \o Ends(v)[k + 1]
    OBVIOUS
  <2> DEFINE i == n + (k + 1)
  <2>2. /\ k + 1 \in 1..Len(v) /\ k \in 0..Len(v) /\ k <= Len(v) /\ k + 1 - 1 = k
        /\ i \in 1..Len(w) /\ i - 1 = n + k
    BY <1>1, <2>1
  <2>8. w[i] = v[k + 1]
    BY <1>1, <2>2
  <2> HIDE DEF i
  <2>3. Ends(w)[n + k] = Messages(u) \o Ends(v)[k]
    BY <1>5, <2>2
  <2>4. Ends(w)[i] = IF IsLast(w[i]) THEN Append(Ends(w)[n + k], w[i].m) ELSE Ends(w)[n + k]
    BY <1>1, <2>2, EndsStep
  <2>5. Ends(v)[k + 1] = IF IsLast(v[k + 1]) THEN Append(Ends(v)[k], v[k + 1].m)
                         ELSE Ends(v)[k]
    BY <2>2, EndsStep
  <2>6. Ends(v)[k] \in Seq(MessageRecord) /\ v[k + 1].m \in MessageRecord
    <3>1. v[k + 1] \in Unit
      BY <2>2, ElementOfSeq
    <3> QED
      BY <2>2, <3>1, EndsTyped DEF Unit
  <2>7. Append(Messages(u) \o Ends(v)[k], v[k + 1].m)
          = Messages(u) \o Append(Ends(v)[k], v[k + 1].m)
    <3> DEFINE s == Messages(u)
               t == Ends(v)[k]
               e == v[k + 1].m
    <3>1. s \in Seq(MessageRecord) /\ t \in Seq(MessageRecord) /\ e \in MessageRecord
      BY <1>3, <2>6
    <3> HIDE DEF s, t, e
    <3>2. Append(s \o t, e) = s \o Append(t, e)
      BY <3>1, AppendToConcat
    <3> QED
      BY <3>2 DEF s, t, e
  <2> QED
    BY <2>3, <2>4, <2>5, <2>7, <2>8 DEF i
<1> HIDE DEF T
<1>6. Nat \subseteq T
  BY <1>4, <1>5, Steps
<1>7. Ends(w)[n + Len(v)] = Messages(u) \o Messages(v)
  <2>1. \A k \in Nat : k <= Len(v) => Ends(w)[n + k] = Messages(u) \o Ends(v)[k]
    BY <1>6 DEF T
  <2>2. Ends(w)[n + Len(v)] = Messages(u) \o Ends(v)[Len(v)]
    BY <1>1, <2>1
  <2> QED
    BY <2>2 DEF Messages
<1> QED
  BY <1>1, <1>7 DEF Messages, w

(* Units without the end of a message, and a message's last part.          *)
LEMMA NoEnds ==
  ASSUME NEW u \in Seq(Unit), \A i \in 1..Len(u) : ~ IsLast(u[i])
  PROVE  Messages(u) = <<>>
<1> DEFINE T == {k \in Nat : k <= Len(u) => Ends(u)[k] = <<>>}
<1>1. 0 \in T
  BY EndsStep
<1>2. ASSUME NEW k \in Nat, k \in T
      PROVE  k + 1 \in T
  <2>1. SUFFICES ASSUME k + 1 <= Len(u) PROVE Ends(u)[k + 1] = <<>>
    OBVIOUS
  <2>2. k + 1 \in 1..Len(u) /\ k <= Len(u) /\ k + 1 - 1 = k
    BY <2>1
  <2> QED
    BY <1>2, <2>2, EndsStep
<1> HIDE DEF T
<1>3. Nat \subseteq T
  BY <1>1, <1>2, Steps
<1>4. Len(u) \in Nat
  OBVIOUS
<1> QED
  BY <1>3, <1>4 DEF T, Messages

LEMMA OneEnd ==
  ASSUME NEW u \in Seq(Unit), u # <<>>, IsLast(u[Len(u)]),
         \A i \in 1..Len(u) - 1 : ~ IsLast(u[i])
  PROVE  Messages(u) = <<u[Len(u)].m>>
<1> DEFINE n == Len(u)
           T == {k \in Nat : k < n => Ends(u)[k] = <<>>}
<1>1. n \in Nat /\ n # 0 /\ n - 1 \in Nat /\ n \in 1..n
  BY EmptySeq
<1>2. 0 \in T
  BY EndsStep
<1>3. ASSUME NEW k \in Nat, k \in T
      PROVE  k + 1 \in T
  <2>1. SUFFICES ASSUME k + 1 < n PROVE Ends(u)[k + 1] = <<>>
    OBVIOUS
  <2>2. k + 1 \in 1..n /\ k + 1 \in 1..n - 1 /\ k < n /\ k + 1 - 1 = k
    BY <1>1, <2>1
  <2> QED
    BY <1>3, <2>2, EndsStep
<1> HIDE DEF T
<1>4. Nat \subseteq T
  BY <1>2, <1>3, Steps
<1>5. Ends(u)[n - 1] = <<>>
  BY <1>1, <1>4 DEF T
<1>6. Ends(u)[n] = Append(<<>>, u[n].m)
  BY <1>1, <1>5, EndsStep
<1> QED
  BY <1>6 DEF Messages

-----------------------------------------------------------------------------
(***************************************************************************)
(* What a client can make out of the units its socket took.                *)
(***************************************************************************)
Said == [type : {"diagnostics", "changeWorkspace", "applyEdit", "response"},
         about : PathSet \cup {"root", "edit"} \cup Nat]
Piece == [o : Said, part : Int]

LEMMA Halves ==
  ASSUME NEW n \in Nat
  PROVE  /\ n % 2 \in {0, 1}
         /\ n % 2 = 0 => (n + 1) % 2 = 1
         /\ n % 2 = 1 => (n + 1) % 2 = 0
         /\ n \div 2 \in Nat
         /\ n % 2 = 0 => (n + 1) \div 2 = n \div 2
         /\ n % 2 = 1 => (n + 1) \div 2 = n \div 2 + 1 /\ ((n \div 2) + 1) * 2 = n + 1
         /\ \A i \in 1..n \div 2 : i * 2 \in 1..n
OBVIOUS

LEMMA OneMore ==
  ASSUME NEW w \in Seq(Piece), InOrder(w), NEW e \in Piece,
         e.part = (Len(w) % OutUnits) + 1,
         e.part # 1 => e.o = w[Len(w)].o
  PROVE  /\ InOrder(Append(w, e))
         /\ Heard(Append(w, e)) = IF e.part = 1 THEN Heard(w) ELSE Append(Heard(w), e.o)
<1> DEFINE n == Len(w)
           v == Append(w, e)
<1>1. /\ n \in Nat /\ v \in Seq(Piece) /\ Len(v) = n + 1
      /\ DOMAIN w = 1..n /\ DOMAIN v = 1..n + 1
      /\ v[n + 1] = e /\ \A i \in 1..n : v[i] = w[i]
  BY AppendProperties
<1>2. n % 2 \in {0, 1}
  BY <1>1, Halves
<1>3. e.part = (n % 2) + 1
  BY DEF OutUnits
<1> HIDE DEF n, v
<1>4. InOrder(v)
  <2>1. SUFFICES ASSUME NEW i \in 1..n + 1
                 PROVE  /\ v[i].part = ((i - 1) % 2) + 1
                        /\ v[i].part # 1 => v[i].o = v[i - 1].o
    BY <1>1 DEF InOrder, OutUnits
  <2>2. CASE i = n + 1
    <3>1. i - 1 = n /\ v[i] = e
      BY <1>1, <2>2
    <3>2. e.part # 1 => n # 0
      BY <1>1, <1>3
    <3>3. n # 0 => v[n] = w[n]
      BY <1>1
    <3> QED
      BY <1>3, <3>1, <3>2, <3>3 DEF n
  <2>3. CASE i # n + 1
    <3>1. i \in 1..n /\ v[i] = w[i]
      BY <1>1, <2>3
    <3>2. w[i].part = ((i - 1) % 2) + 1 /\ (w[i].part # 1 => w[i].o = w[i - 1].o)
      BY <1>1, <3>1 DEF InOrder, OutUnits
    <3>3. i # 1 => v[i - 1] = w[i - 1]
      BY <1>1, <3>1
    <3>4. i = 1 => w[i].part = 1
      BY <3>2
    <3> QED
      BY <3>1, <3>2, <3>3, <3>4
  <2> QED
    BY <2>2, <2>3
<1>5. Heard(w) = [i \in 1..n \div 2 |-> w[i * 2].o]
  BY DEF Heard, OutUnits, n
<1>6. Heard(v) = [i \in 1..(n + 1) \div 2 |-> v[i * 2].o]
  BY <1>1, <1>4 DEF Heard, OutUnits
<1>7. \A i \in 1..n \div 2 : v[i * 2] = w[i * 2]
  BY <1>1, Halves
<1>8. CASE e.part = 1
  <2>1. (n + 1) \div 2 = n \div 2
    <3>1. n % 2 = 0
      BY <1>2, <1>3, <1>8
    <3> QED
      BY <1>1, <3>1, Halves
  <2> QED
    BY <1>4, <1>5, <1>6, <1>7, <1>8, <2>1 DEF v
<1>9. CASE e.part # 1
  <2> DEFINE h == n \div 2
             s == [i \in 1..h |-> w[i * 2].o]
             t == [i \in 1..h + 1 |-> v[i * 2].o]
  <2>1. h \in Nat /\ (n + 1) \div 2 = h + 1 /\ (h + 1) * 2 = n + 1
    <3>1. n % 2 = 1
      BY <1>2, <1>3, <1>9
    <3> QED
      BY <1>1, <3>1, Halves
  <2>2. \A i \in 1..h : w[i * 2].o \in Said
    <3>1. \A i \in 1..n : w[i] \in Piece
      BY <1>1, ElementOfSeq DEF n
    <3> QED
      BY <1>1, <3>1, Halves DEF Piece
  <2>3. t[h + 1] = e.o /\ \A i \in 1..h : t[i] = s[i]
    BY <1>1, <1>7, <2>1
  <2>4. e.o \in Said
    BY DEF Piece
  <2> HIDE DEF h
  <2>5. s \in Seq(Said) /\ Len(s) = h
    BY <2>1, <2>2
  <2>6. t \in Seq(Said) /\ Len(t) = h + 1
    <3>1. ASSUME NEW i \in 1..h + 1
          PROVE  t[i] \in Said
      <4>1. i = h + 1 \/ i \in 1..h
        BY <2>1
      <4>2. i \in 1..h => t[i] = w[i * 2].o
        BY <2>3
      <4> HIDE DEF t, s
      <4> QED
        BY <2>2, <2>3, <2>4, <4>1, <4>2
    <3> QED
      BY <2>1, <3>1
  <2> HIDE DEF s, t
  <2>7. t = Append(s, e.o)
    BY <2>1, <2>3, <2>4, <2>5, <2>6
  <2>8. Heard(v) = t /\ Heard(w) = s
    BY <1>5, <1>6, <2>1 DEF s, t, h
  <2> QED
    BY <1>4, <1>9, <2>7, <2>8 DEF v
<1> QED
  BY <1>8, <1>9

(* What is queued for a client, and how much of it its socket took.        *)
Told(p) ==
  /\ p.res_queue \in Seq(Said)
  /\ p.wrote \in Seq(Piece)
  /\ InOrder(p.wrote)
  /\ p.res_sent = Len(p.wrote) % OutUnits
  /\ p.res_sent # 0 => p.res_queue # <<>> /\ p.wrote[Len(p.wrote)].o = Head(p.res_queue)

SameIn(q, p) ==
  /\ q.inq = p.inq /\ q.req_buf = p.req_buf
  /\ q.has_header = p.has_header /\ q.content_length = p.content_length

SameOut(q, p) ==
  q.res_queue = p.res_queue /\ q.res_sent = p.res_sent /\ q.wrote = p.wrote

LEMMA SameTold ==
  ASSUME NEW p, Told(p), NEW q, SameOut(q, p)
  PROVE  Told(q)
BY DEF Told, SameOut

LEMMA PiecesTaken ==
  ASSUME NEW w \in Seq(Piece), NEW o \in Said, NEW s \in Nat, NEW k,
         NEW v, v = w \o [i \in 1..k |-> [o |-> o, part |-> s + i]]
  PROVE  /\ k = 1 => v = Append(w, [o |-> o, part |-> s + 1])
         /\ k = 2 => v = Append(Append(w, [o |-> o, part |-> s + 1]), [o |-> o, part |-> s + 2])
<1> DEFINE a == [o |-> o, part |-> s + 1]
           b == [o |-> o, part |-> s + 2]
           f == [i \in 1..k |-> [o |-> o, part |-> s + i]]
<1>1. a \in Piece /\ b \in Piece
  BY DEF Piece
<1>2. ASSUME k \in {1, 2}
      PROVE  f \in Seq(Piece) /\ Len(f) = k /\ f[1] = a /\ (k = 2 => f[2] = b)
  BY <1>2 DEF Piece
<1> HIDE DEF a, b, f
<1>3. <<a>> \in Seq(Piece) /\ <<b>> \in Seq(Piece)
  BY <1>1
<1>4. Append(w, a) = w \o <<a>> /\ Append(w, a) \in Seq(Piece)
  BY <1>1, AppendIsConcat, AppendProperties
<1>5. v = w \o f
  BY DEF f
<1>6. CASE k = 1
  <2>1. f = <<a>>
    BY <1>1, <1>2, <1>6
  <2> QED
    BY <1>4, <1>5, <1>6, <2>1 DEF a
<1>7. CASE k = 2
  <2> DEFINE h == <<a>> \o <<b>>
  <2>1. h \in Seq(Piece) /\ Len(h) = 2 /\ h[1] = a /\ h[2] = b
    BY <1>1, <1>3
  <2> HIDE DEF h
  <2>2. \A i \in 1..Len(f) : f[i] = h[i]
    <3>1. \A i \in 1..2 : i = 1 \/ i = 2
      OBVIOUS
    <3> QED
      BY <1>2, <1>7, <2>1, <3>1
  <2>3. f = h
    BY <1>2, <1>7, <2>1, <2>2, SeqEqual
  <2>4. w \o f = (w \o <<a>>) \o <<b>>
    BY <1>3, <2>3, ConcatAssociative DEF h
  <2>5. Append(Append(w, a), b) = Append(w, a) \o <<b>>
    BY <1>1, <1>4, AppendIsConcat
  <2> QED
    BY <1>4, <1>5, <1>7, <2>4, <2>5 DEF a, b
<1> QED
  BY <1>6, <1>7

(* The first and the second unit of something said, and both at once.      *)
LEMMA FirstHalf ==
  ASSUME NEW w \in Seq(Piece), InOrder(w), Len(w) % OutUnits = 0, NEW o \in Said,
         NEW v, v = Append(w, [o |-> o, part |-> 1])
  PROVE  /\ v \in Seq(Piece) /\ InOrder(v) /\ Len(v) % OutUnits = 1 /\ v[Len(v)].o = o
         /\ Heard(v) = Heard(w)
<1> DEFINE e == [o |-> o, part |-> 1]
<1>1. e \in Piece /\ e.part = 1 /\ e.o = o
  BY DEF Piece
<1> HIDE DEF e
<1>2. v = Append(w, e)
  BY DEF e
<1>3. v \in Seq(Piece) /\ Len(v) = Len(w) + 1 /\ v[Len(w) + 1] = e /\ Len(w) \in Nat
  BY <1>1, <1>2, AppendProperties
<1>4. Len(v) % OutUnits = 1
  BY <1>3, Halves DEF OutUnits
<1>5. e.part = (Len(w) % OutUnits) + 1
  BY <1>1
<1>6. InOrder(v) /\ Heard(v) = Heard(w)
  BY <1>1, <1>2, <1>5, OneMore
<1> QED
  BY <1>1, <1>3, <1>4, <1>6

LEMMA SecondHalf ==
  ASSUME NEW w \in Seq(Piece), InOrder(w), Len(w) % OutUnits = 1, NEW o \in Said,
         w[Len(w)].o = o, NEW v, v = Append(w, [o |-> o, part |-> 2])
  PROVE  /\ v \in Seq(Piece) /\ InOrder(v) /\ Len(v) % OutUnits = 0
         /\ Heard(v) = Append(Heard(w), o)
<1> DEFINE e == [o |-> o, part |-> 2]
<1>1. e \in Piece /\ e.part = 2 /\ e.o = o /\ e.part # 1
  BY DEF Piece
<1> HIDE DEF e
<1>2. v = Append(w, e)
  BY DEF e
<1>3. v \in Seq(Piece) /\ Len(v) = Len(w) + 1 /\ Len(w) \in Nat
  BY <1>1, <1>2, AppendProperties
<1>4. Len(v) % OutUnits = 0
  BY <1>3, Halves DEF OutUnits
<1>5. e.part = (Len(w) % OutUnits) + 1
  BY <1>1
<1>6. InOrder(v) /\ Heard(v) = Append(Heard(w), o)
  BY <1>1, <1>2, <1>5, OneMore
<1> QED
  BY <1>3, <1>4, <1>6

LEMMA BothHalves ==
  ASSUME NEW w \in Seq(Piece), InOrder(w), Len(w) % OutUnits = 0, NEW o \in Said,
         NEW v, v = Append(Append(w, [o |-> o, part |-> 1]), [o |-> o, part |-> 2])
  PROVE  /\ v \in Seq(Piece) /\ InOrder(v) /\ Len(v) % OutUnits = 0
         /\ Heard(v) = Append(Heard(w), o)
<1> DEFINE d == [o |-> o, part |-> 1]
           e == [o |-> o, part |-> 2]
           u == Append(w, d)
<1>1. /\ d \in Piece /\ d.part = 1 /\ d.o = o
      /\ e \in Piece /\ e.part = 2 /\ e.o = o /\ e.part # 1
  BY DEF Piece
<1> HIDE DEF d, e
<1>2. v = Append(u, e)
  BY DEF d, e
<1>3. u \in Seq(Piece) /\ Len(u) = Len(w) + 1 /\ u[Len(w) + 1] = d /\ Len(w) \in Nat
  BY <1>1, AppendProperties
<1>4. Len(u) % OutUnits = 1
  BY <1>3, Halves DEF OutUnits
<1>5. d.part = (Len(w) % OutUnits) + 1
  BY <1>1
<1>6. InOrder(u) /\ Heard(u) = Heard(w)
  BY <1>1, <1>5, OneMore
<1> HIDE DEF u
<1>7. v \in Seq(Piece) /\ Len(v) = Len(u) + 1
  BY <1>1, <1>2, <1>3, AppendProperties
<1>8. Len(v) % OutUnits = 0
  BY <1>3, <1>4, <1>7, Halves DEF OutUnits
<1>9. e.part = (Len(u) % OutUnits) + 1 /\ e.o = u[Len(u)].o
  BY <1>1, <1>3, <1>4
<1>10. InOrder(v) /\ Heard(v) = Append(Heard(u), o)
  BY <1>1, <1>2, <1>3, <1>6, <1>9, OneMore
<1> QED
  BY <1>6, <1>7, <1>8, <1>10

LEMMA PutTold ==
  ASSUME NEW p, IsPeer(p), Told(p), p.res_queue # <<>>, NEW k \in 1..OutUnits - p.res_sent
  PROVE  LET q == Put(p, k)
             left == IF q.res_sent >= OutUnits THEN Shifted(q) ELSE q
         IN  /\ Told(left) /\ SameIn(left, p)
             /\ \/ left.res_queue = p.res_queue /\ Heard(left.wrote) = Heard(p.wrote)
                \/ /\ left.res_queue = Tail(p.res_queue)
                   /\ Heard(left.wrote) = Append(Heard(p.wrote), Head(p.res_queue))
<1> DEFINE q == Put(p, k)
           left == Shifted(q)
<1>1. /\ SameIn(q, p) /\ q.res_sent = p.res_sent + k /\ q.res_queue = p.res_queue
      /\ IsPeer(q)
      /\ q.wrote = p.wrote
                     \o [i \in 1..k |-> [o |-> Head(p.res_queue), part |-> p.res_sent + i]]
  BY Zenon DEF Put, IsPeer, SameIn
<1> HIDE DEF q
<1>2. /\ SameIn(left, q) /\ left.res_sent = 0 /\ left.wrote = q.wrote
      /\ left.res_queue = Tail(q.res_queue)
  BY <1>1, Zenon DEF Shifted, IsPeer, SameIn
<1> HIDE DEF left
<1>3. SameIn(left, p) /\ SameIn(q, p)
  BY <1>1, <1>2 DEF SameIn
<1>4. PICK w, o, s : w = p.wrote /\ o = Head(p.res_queue) /\ s = p.res_sent
  OBVIOUS
<1>5. /\ p.res_queue \in Seq(Said) /\ Tail(p.res_queue) \in Seq(Said) /\ o \in Said
      /\ w \in Seq(Piece) /\ InOrder(w) /\ s = Len(w) % OutUnits
      /\ s # 0 => w[Len(w)].o = o
  BY <1>4, HeadTailProperties DEF Told
<1>6. s \in {0, 1}
  <2>1. Len(w) \in Nat
    BY <1>5
  <2> QED
    BY <1>5, <2>1, Halves DEF OutUnits
<1>7. (k = 1 /\ s = 0) \/ (k = 1 /\ s = 1) \/ (k = 2 /\ s = 0)
  BY <1>4, <1>6 DEF OutUnits
<1>8. q.wrote = w \o [i \in 1..k |-> [o |-> o, part |-> s + i]] /\ q.res_sent = s + k
  BY <1>1, <1>4
<1>9. CASE k = 1 /\ s = 0
  <2>1. q.wrote = Append(w, [o |-> o, part |-> 1]) /\ q.res_sent = 1
    <3>1. q.wrote = Append(w, [o |-> o, part |-> s + 1]) /\ s + 1 = 1
      BY <1>5, <1>8, <1>9, PiecesTaken
    <3> QED
      BY <1>8, <1>9, <3>1
  <2>2. /\ q.wrote \in Seq(Piece) /\ InOrder(q.wrote) /\ Len(q.wrote) % OutUnits = 1
        /\ q.wrote[Len(q.wrote)].o = o /\ Heard(q.wrote) = Heard(w)
    <3>1. Len(w) % OutUnits = 0
      BY <1>5, <1>9
    <3> QED
      BY <1>5, <2>1, <3>1, FirstHalf
  <2>3. Told(q)
    BY <1>1, <1>4, <1>5, <2>1, <2>2 DEF Told
  <2>4. ~ (q.res_sent >= OutUnits)
    BY <2>1 DEF OutUnits
  <2> QED
    BY <1>1, <1>3, <1>4, <2>2, <2>3, <2>4 DEF q
<1>10. CASE k = 1 /\ s = 1
  <2>1. q.wrote = Append(w, [o |-> o, part |-> 2]) /\ q.res_sent = 2
    <3>1. q.wrote = Append(w, [o |-> o, part |-> s + 1]) /\ s + 1 = 2
      BY <1>5, <1>8, <1>10, PiecesTaken
    <3> QED
      BY <1>8, <1>10, <3>1
  <2>2. /\ q.wrote \in Seq(Piece) /\ InOrder(q.wrote) /\ Len(q.wrote) % OutUnits = 0
        /\ Heard(q.wrote) = Append(Heard(w), o)
    <3>1. Len(w) % OutUnits = 1 /\ w[Len(w)].o = o
      BY <1>5, <1>10
    <3> QED
      BY <1>5, <2>1, <3>1, SecondHalf
  <2>3. Told(left)
    BY <1>1, <1>2, <1>5, <2>2 DEF Told
  <2>4. q.res_sent >= OutUnits
    BY <2>1 DEF OutUnits
  <2> QED
    BY <1>1, <1>2, <1>3, <1>4, <2>2, <2>3, <2>4 DEF left, q
<1>11. CASE k = 2 /\ s = 0
  <2>1. /\ q.wrote = Append(Append(w, [o |-> o, part |-> 1]), [o |-> o, part |-> 2])
        /\ q.res_sent = 2
    <3>1. s \in Nat /\ s + 1 = 1 /\ s + 2 = 2
      BY <1>11
    <3>2. q.wrote = w \o [i \in 1..k |-> [o |-> o, part |-> s + i]] /\ k = 2
      BY <1>8, <1>11
    <3>3. w \in Seq(Piece) /\ o \in Said
      BY <1>5
    <3>4. q.wrote = Append(Append(w, [o |-> o, part |-> s + 1]), [o |-> o, part |-> s + 2])
      BY <3>1, <3>2, <3>3, PiecesTaken, ZenonT(40)
    <3> QED
      BY <1>8, <1>11, <3>1, <3>4
  <2>2. /\ q.wrote \in Seq(Piece) /\ InOrder(q.wrote) /\ Len(q.wrote) % OutUnits = 0
        /\ Heard(q.wrote) = Append(Heard(w), o)
    <3>1. Len(w) % OutUnits = 0
      BY <1>5, <1>11
    <3> QED
      BY <1>5, <2>1, <3>1, BothHalves
  <2>3. Told(left)
    BY <1>1, <1>2, <1>5, <2>2 DEF Told
  <2>4. q.res_sent >= OutUnits
    BY <2>1 DEF OutUnits
  <2> QED
    BY <1>1, <1>2, <1>3, <1>4, <2>2, <2>3, <2>4 DEF left, q
<1> QED
  BY <1>7, <1>9, <1>10, <1>11

-----------------------------------------------------------------------------
(***************************************************************************)
(* The units of a connection that no message has been made of: whole       *)
(* messages, but for what is gone of the first.                            *)
(***************************************************************************)
Follows(a, b) ==
  IF IsLast(a) THEN b.part <= 0
  ELSE b.m = a.m /\ IF a.part = -1 THEN b.part \in {-1, 0} ELSE b.part = a.part + 1

Stream(u) ==
  /\ u \in Seq(Unit)
  /\ \A i \in 1..Len(u) :
       u[i].m.content \in 1..LSP_MAX_BUFFER_SIZE /\ u[i].part \in -1..u[i].m.content
  /\ \A i \in 1..Len(u) - 1 : Follows(u[i], u[i + 1])
  /\ u # <<>> => IsLast(u[Len(u)])

LEMMA StreamConcat ==
  ASSUME NEW a, Stream(a), NEW b, Stream(b), b # <<>> => b[1].part <= 0
  PROVE  Stream(a \o b)
<1> DEFINE u == a \o b
           n == Len(a)
<1>1. /\ a \in Seq(Unit) /\ b \in Seq(Unit) /\ u \in Seq(Unit)
      /\ n \in Nat /\ Len(b) \in Nat /\ Len(u) = n + Len(b)
      /\ \A i \in 1..n : u[i] = a[i]
      /\ \A i \in 1..Len(b) : u[n + i] = b[i]
  <2>1. a \in Seq(Unit) /\ b \in Seq(Unit)
    BY DEF Stream
  <2> QED
    BY <2>1, ConcatProperties
<1> HIDE DEF u, n
<1>2. ASSUME NEW i \in 1..Len(u)
      PROVE  i \in 1..n \/ (i - n \in 1..Len(b) /\ u[i] = b[i - n])
  <2>1. i \in 1..n \/ (i - n \in 1..Len(b) /\ i = n + (i - n))
    BY <1>1
  <2> QED
    BY <1>1, <2>1
<1>3. ASSUME NEW i \in 1..Len(u)
      PROVE  u[i].m.content \in 1..LSP_MAX_BUFFER_SIZE /\ u[i].part \in -1..u[i].m.content
  BY <1>1, <1>2 DEF Stream, n
<1>4. ASSUME NEW i \in 1..Len(u) - 1
      PROVE  Follows(u[i], u[i + 1])
  <2>1. i \in 1..n - 1 \/ i = n \/ i - n \in 1..Len(b) - 1
    BY <1>1
  <2>2. CASE i \in 1..n - 1
    <3>1. u[i] = a[i] /\ u[i + 1] = a[i + 1]
      BY <1>1, <2>2
    <3> QED
      BY <2>2, <3>1 DEF Stream, n
  <2>3. CASE i = n
    <3>1. n # 0 /\ Len(b) # 0 /\ u[i] = a[n] /\ u[i + 1] = b[1]
      <4>1. n \in 1..n /\ 1 \in 1..Len(b) /\ n # 0 /\ Len(b) # 0
        BY <1>1, <2>3
      <4>2. u[n] = a[n] /\ u[n + 1] = b[1]
        BY <1>1, <4>1
      <4> QED
        BY <2>3, <4>1, <4>2
    <3>2. IsLast(a[n]) /\ b[1].part <= 0
      BY <1>1, <3>1, EmptySeq DEF Stream, n
    <3> QED
      BY <3>1, <3>2 DEF Follows
  <2>4. CASE i - n \in 1..Len(b) - 1
    <3> DEFINE j == i - n
    <3>1. j \in 1..Len(b) /\ j + 1 \in 1..Len(b) /\ i = n + j /\ i + 1 = n + (j + 1)
      BY <1>1, <2>4
    <3> HIDE DEF j
    <3>2. u[i] = b[j] /\ u[i + 1] = b[j + 1]
      BY <1>1, <3>1
    <3> QED
      BY <2>4, <3>2 DEF Stream, j
  <2> QED
    BY <2>1, <2>2, <2>3, <2>4
<1>5. ASSUME u # <<>>
      PROVE  IsLast(u[Len(u)])
  <2>1. CASE Len(b) # 0
    <3>1. u[Len(u)] = b[Len(b)]
      BY <1>1, <2>1
    <3> QED
      BY <2>1, <3>1, EmptySeq DEF Stream
  <2>2. CASE Len(b) = 0
    <3>1. Len(u) = n /\ n # 0
      BY <1>1, <1>5, <2>2, EmptySeq
    <3>2. u[Len(u)] = a[n] /\ a # <<>>
      BY <1>1, <3>1, EmptySeq DEF n
    <3> QED
      BY <3>2 DEF Stream, n
  <2> QED
    BY <2>1, <2>2
<1> QED
  BY <1>1, <1>3, <1>4, <1>5 DEF Stream, u

LEMMA StreamRest ==
  ASSUME NEW a \in Seq(Unit), NEW b \in Seq(Unit), Stream(a \o b)
  PROVE  /\ Stream(b)
         /\ a # <<>> /\ b # <<>> => Follows(a[Len(a)], b[1])
<1> DEFINE u == a \o b
           n == Len(a)
<1>1. /\ u \in Seq(Unit)
      /\ n \in Nat /\ Len(b) \in Nat /\ Len(u) = n + Len(b)
      /\ \A i \in 1..n : u[i] = a[i]
      /\ \A i \in 1..Len(b) : u[n + i] = b[i]
  BY ConcatProperties
<1>2. Stream(u)
  OBVIOUS
<1> HIDE DEF u, n
<1>3. ASSUME NEW i \in 1..Len(b)
      PROVE  b[i].m.content \in 1..LSP_MAX_BUFFER_SIZE /\ b[i].part \in -1..b[i].m.content
  <2>1. n + i \in 1..Len(u) /\ u[n + i] = b[i]
    BY <1>1
  <2> QED
    BY <1>2, <2>1 DEF Stream
<1>4. ASSUME NEW i \in 1..Len(b) - 1
      PROVE  Follows(b[i], b[i + 1])
  <2>1. /\ n + i \in 1..Len(u) - 1 /\ i \in 1..Len(b) /\ i + 1 \in 1..Len(b)
        /\ n + (i + 1) = (n + i) + 1
    BY <1>1
  <2>2. u[n + i] = b[i] /\ u[(n + i) + 1] = b[i + 1]
    BY <1>1, <2>1
  <2> QED
    BY <1>2, <2>1, <2>2 DEF Stream
<1>5. ASSUME b # <<>>
      PROVE  IsLast(b[Len(b)])
  <2>1. Len(b) # 0 /\ Len(u) # 0 /\ u[Len(u)] = b[Len(b)]
    BY <1>1, <1>5, EmptySeq
  <2> QED
    BY <1>1, <1>2, <2>1 DEF Stream
<1>6. ASSUME a # <<>>, b # <<>>
      PROVE  Follows(a[n], b[1])
  <2>1. n # 0 /\ Len(b) # 0
    BY <1>6, EmptySeq DEF n
  <2>2. n \in 1..Len(u) - 1 /\ u[n] = a[n] /\ u[n + 1] = b[1]
    BY <1>1, <2>1
  <2> QED
    BY <1>2, <2>2 DEF Stream
<1> QED
  BY <1>3, <1>4, <1>5, <1>6 DEF Stream, n

LEMMA PartsOf ==
  ASSUME NEW m \in MessageRecord
  PROVE  LET s == Parts(m)
         IN  /\ s \in Seq(Int) /\ Len(s) = m.header + m.content
             /\ \A i \in 1..Len(s) : s[i] = IF i < m.header THEN -1 ELSE i - m.header
<1> DEFINE h == m.header
           c == m.content
           a == [i \in 1..h - 1 |-> -1]
           b == [i \in 1..c |-> i]
           s == Parts(m)
<1>1. h \in Nat /\ h - 1 \in Nat /\ c \in Nat
  BY DEF MessageRecord
<1> HIDE DEF h, c
<1>2. /\ a \in Seq(Int) /\ Len(a) = h - 1 /\ \A i \in 1..h - 1 : a[i] = -1
      /\ b \in Seq(Int) /\ Len(b) = c /\ \A i \in 1..c : b[i] = i
  BY <1>1
<1>3. s = (a \o <<0>>) \o b
  BY DEF Parts, h, c
<1> HIDE DEF a, b, s
<1> DEFINE z == a \o <<0>>
<1>4. /\ z \in Seq(Int) /\ Len(z) = h /\ z[h] = 0
      /\ \A i \in 1..h - 1 : z[i] = -1
  BY <1>1, <1>2
<1> HIDE DEF z
<1>5. s \in Seq(Int) /\ Len(s) = h + c
  BY <1>1, <1>2, <1>3, <1>4, ConcatProperties DEF z
<1>6. ASSUME NEW i \in 1..h + c
      PROVE  s[i] = IF i < h THEN -1 ELSE i - h
  <2>1. s[i] = IF i <= h THEN z[i] ELSE b[i - h]
    BY <1>1, <1>2, <1>3, <1>4, ConcatProperties DEF z
  <2>2. CASE i < h
    BY <1>1, <1>4, <2>1, <2>2
  <2>3. CASE i = h
    BY <1>1, <1>4, <2>1, <2>3
  <2>4. CASE i > h
    <3>1. i - h \in 1..c
      BY <1>1, <2>4
    <3> QED
      BY <1>1, <1>2, <2>1, <2>4, <3>1
  <2> QED
    BY <1>1, <2>2, <2>3, <2>4
<1> QED
  BY <1>5, <1>6 DEF s, h, c

LEMMA UnitsStream ==
  ASSUME NEW m \in MessageRecord, m.content \in 1..LSP_MAX_BUFFER_SIZE
  PROVE  /\ Stream(Units(m)) /\ Units(m) # <<>> /\ Units(m)[1].part <= 0
         /\ Messages(Units(m)) = <<m>>
<1> DEFINE s == Parts(m)
           u == Units(m)
           h == m.header
           c == m.content
           n == h + c
<1>1. /\ s \in Seq(Int) /\ Len(s) = n
      /\ \A i \in 1..n : s[i] = IF i < h THEN -1 ELSE i - h
  BY PartsOf
<1>2. /\ h \in Nat /\ h >= 1 /\ c \in Nat /\ c >= 1 /\ n \in Nat
      /\ c \in 1..LSP_MAX_BUFFER_SIZE
  BY DEF MessageRecord
<1> HIDE DEF s
<1>3. u = [i \in 1..n |-> [m |-> m, part |-> s[i]]]
  BY <1>1 DEF Units, s
<1>4. u \in Seq(Unit)
  BY UnitsTyped
<1>5. Len(u) = n /\ \A i \in 1..n : u[i].m = m /\ u[i].part = IF i < h THEN -1 ELSE i - h
  BY <1>1, <1>2, <1>3
<1> HIDE DEF u, h, n
<1>6. ASSUME NEW i \in 1..n
      PROVE  IsLast(u[i]) <=> i = n
  <2>1. u[i].m.content = c /\ u[i].part = IF i < h THEN -1 ELSE i - h
    BY <1>5 DEF h
  <2>2. i - h = c <=> i = n
    BY <1>2 DEF n
  <2>3. i < h => i # n /\ c # -1
    BY <1>2 DEF n
  <2> HIDE DEF c
  <2> QED
    BY <2>1, <2>2, <2>3 DEF IsLast
<1>7. ASSUME NEW i \in 1..Len(u)
      PROVE  u[i].m.content \in 1..LSP_MAX_BUFFER_SIZE /\ u[i].part \in -1..u[i].m.content
  BY <1>2, <1>5 DEF n
<1>8. ASSUME NEW i \in 1..Len(u) - 1
      PROVE  Follows(u[i], u[i + 1])
  <2>1. i \in 1..n /\ i + 1 \in 1..n /\ i # n
    BY <1>2, <1>5
  <2>2. ~ IsLast(u[i]) /\ u[i + 1].m = u[i].m
    BY <1>5, <1>6, <2>1
  <2>3. IF u[i].part = -1 THEN u[i + 1].part \in {-1, 0} ELSE u[i + 1].part = u[i].part + 1
    BY <1>2, <1>5, <2>1
  <2> QED
    BY <2>2, <2>3 DEF Follows
<1>9. n \in 1..n /\ 1 \in 1..n /\ n # 0
  BY <1>2 DEF n
<1>10. u # <<>> /\ u[Len(u)].m = m /\ IsLast(u[Len(u)]) /\ u[1].part <= 0
  BY <1>2, <1>4, <1>5, <1>6, <1>9, EmptySeq
<1>11. Stream(u)
  BY <1>4, <1>7, <1>8, <1>10 DEF Stream
<1>12. Messages(u) = <<m>>
  <2>1. \A i \in 1..Len(u) - 1 : ~ IsLast(u[i])
    BY <1>2, <1>5, <1>6
  <2> QED
    BY <1>4, <1>10, <2>1, OneEnd
<1> QED
  BY <1>10, <1>11, <1>12 DEF u

(* Where handle_data is in a client's units, and what it will make of them. *)
AllOf(p) == p.req_buf \o p.inq
In(p) == Messages(AllOf(p))

Framed(p) ==
  /\ p.req_buf \in Seq(Unit) /\ p.inq \in Seq(Unit)
  /\ Stream(AllOf(p))
  /\ p.has_header =>
       /\ AllOf(p) # <<>>
       /\ p.content_length = AllOf(p)[1].m.content
       /\ Len(p.req_buf) <= p.content_length
       /\ AllOf(p)[1].part = 1
       /\ \A i \in 1..Len(p.req_buf) : p.req_buf[i].m = AllOf(p)[1].m /\ p.req_buf[i].part = i
  /\ ~ p.has_header =>
       /\ AllOf(p) # <<>> => AllOf(p)[1].part <= 0
       /\ \A i \in 1..Len(p.req_buf) : p.req_buf[i].m = AllOf(p)[1].m /\ p.req_buf[i].part = -1

LEMMA SameFramed ==
  ASSUME NEW p, Framed(p), NEW q, SameIn(q, p)
  PROVE  Framed(q) /\ In(q) = In(p)
<1>1. AllOf(q) = AllOf(p)
  BY DEF SameIn, AllOf
<1>2. Framed(q)
  BY <1>1 DEF Framed, SameIn
<1> QED
  BY <1>1, <1>2 DEF In

LEMMA JoinedUnits ==
  ASSUME NEW a \in Seq(Unit), NEW b \in Seq(Unit)
  PROVE  /\ a \o b \in Seq(Unit) /\ Len(a \o b) = Len(a) + Len(b)
         /\ \A i \in 1..Len(a) : (a \o b)[i] = a[i]
         /\ b # <<>> => (a \o b)[Len(a) + 1] = Head(b)
<1>1. Len(a) \in Nat /\ Len(b) \in Nat
  OBVIOUS
<1>2. b # <<>> => Len(b) # 0 /\ Head(b) = b[1]
  BY EmptySeq
<1> QED
  BY <1>1, <1>2, ConcatProperties

(* The unit that is read next.                                             *)
LEMMA NextUnit ==
  ASSUME NEW p, Framed(p), p.inq # <<>>,
         p.has_header => Len(p.req_buf) < p.content_length
  PROVE  LET u == AllOf(p)
             x == Head(p.inq)
         IN  /\ x \in Unit /\ x = u[Len(p.req_buf) + 1] /\ x.m = u[1].m
             /\ p.has_header => x.part = Len(p.req_buf) + 1
             /\ ~ p.has_header => x.part \in {-1, 0}
<1> DEFINE u == AllOf(p)
           x == Head(p.inq)
           n == Len(p.req_buf)
<1>1. p.req_buf \in Seq(Unit) /\ p.inq \in Seq(Unit) /\ Stream(u) /\ u = p.req_buf \o p.inq
  BY DEF Framed, AllOf
<1>2. n \in Nat /\ Len(p.inq) \in Nat /\ Len(p.inq) # 0 /\ x = p.inq[1] /\ x \in Unit
  BY <1>1, EmptySeq
<1> HIDE DEF u, x
<1>3. /\ u \in Seq(Unit) /\ Len(u) = n + Len(p.inq)
      /\ \A i \in 1..n : u[i] = p.req_buf[i]
      /\ u[n + 1] = x
  BY <1>1, <1>2, JoinedUnits DEF x
<1> HIDE DEF n
<1>4. n + 1 \in 1..Len(u) /\ 1 \in 1..Len(u) /\ u # <<>>
  BY <1>2, <1>3
<1>5. \A i \in 1..Len(u) : u[i].m.content \in Nat /\ u[i].m.content > 0 /\ u[i].part >= -1
                           /\ u[i].part \in Int
  <2>1. ASSUME NEW i \in 1..Len(u)
        PROVE  u[i].m.content \in 1..LSP_MAX_BUFFER_SIZE /\ u[i].part \in -1..u[i].m.content
    BY <1>1 DEF Stream
  <2> QED
    BY <2>1, Numbers
<1>6. n # 0 => Follows(u[n], x)
  <2>1. n # 0 => n \in 1..Len(u) - 1
    BY <1>2, <1>3
  <2> QED
    BY <1>1, <1>3, <2>1 DEF Stream
<1>7. /\ p.has_header => /\ p.content_length = u[1].m.content /\ u[1].part = 1
                         /\ \A i \in 1..n : u[i].m = u[1].m /\ u[i].part = i
      /\ ~ p.has_header => /\ u[1].part <= 0
                           /\ \A i \in 1..n : u[i].m = u[1].m /\ u[i].part = -1
  BY <1>3, <1>4 DEF Framed, u, n
<1>8. CASE n = 0
  <2>1. x = u[1]
    BY <1>3, <1>8
  <2>2. ~ p.has_header => x.part \in {-1, 0}
    BY <1>4, <1>5, <1>7, <2>1
  <2> QED
    BY <1>2, <1>3, <1>7, <1>8, <2>1, <2>2 DEF u, x, n
<1>9. CASE n # 0
  <2>1. n \in 1..n /\ n \in 1..Len(u)
    BY <1>2, <1>3, <1>4, <1>9
  <2>2. u[n].m = u[1].m /\ u[n].part = IF p.has_header THEN n ELSE -1
    BY <1>7, <2>1
  <2>3. u[n].m.content > 0 /\ u[n].m.content \in Nat
    BY <1>5, <2>1
  <2>4. p.has_header => n < u[n].m.content
    BY <1>7, <2>2 DEF n
  <2>5. ~ IsLast(u[n])
    BY <1>2, <2>2, <2>3, <2>4 DEF IsLast
  <2>6. x.m = u[1].m /\ IF u[n].part = -1 THEN x.part \in {-1, 0} ELSE x.part = u[n].part + 1
    BY <1>6, <1>9, <2>2, <2>5 DEF Follows
  <2>7. p.has_header => n # -1
    BY <1>2
  <2>8. (p.has_header => x.part = n + 1) /\ (~ p.has_header => x.part \in {-1, 0})
    BY <2>2, <2>6, <2>7
  <2> QED
    BY <1>2, <1>3, <2>6, <2>8 DEF u, x, n
<1> QED
  BY <1>8, <1>9

LEMMA BufferedUnits ==
  ASSUME NEW p, IsPeer(p), p.req_buf \in Seq(Unit), p.inq \in Seq(Unit), p.inq # <<>>
  PROVE  LET q == Buffered(p)
         IN  /\ IsPeer(q) /\ AllOf(q) = AllOf(p) /\ SameOut(q, p)
             /\ q.has_header = p.has_header /\ q.content_length = p.content_length
             /\ q.req_buf = Append(p.req_buf, Head(p.inq)) /\ q.inq = Tail(p.inq)
             /\ q.req_buf \in Seq(Unit) /\ q.inq \in Seq(Unit)
             /\ Len(q.req_buf) = Len(p.req_buf) + 1
             /\ \A i \in 1..Len(p.req_buf) : q.req_buf[i] = p.req_buf[i]
             /\ q.req_buf[Len(p.req_buf) + 1] = Head(p.inq)
<1> DEFINE q == Buffered(p)
<1>1. /\ IsPeer(q) /\ SameOut(q, p)
      /\ q.has_header = p.has_header /\ q.content_length = p.content_length
      /\ q.req_buf = Append(p.req_buf, Head(p.inq)) /\ q.inq = Tail(p.inq)
  BY Zenon DEF Buffered, IsPeer, SameOut
<1> HIDE DEF q
<1>2. PICK a, b, x, t : a = p.req_buf /\ b = p.inq /\ x = Head(b) /\ t = Tail(b)
  OBVIOUS
<1>3. a \in Seq(Unit) /\ b \in Seq(Unit) /\ x \in Unit /\ t \in Seq(Unit) /\ b = <<x>> \o t
  <2>1. a \in Seq(Unit) /\ b \in Seq(Unit) /\ b # <<>>
    BY <1>2
  <2>2. x \in Unit /\ t \in Seq(Unit) /\ Len(t) = Len(b) - 1 /\ x = b[1]
        /\ (\A i \in 1..Len(t) : t[i] = b[i + 1]) /\ Len(b) \in Nat /\ Len(b) # 0
    BY <1>2, <2>1, HeadTailProperties, EmptySeq
  <2> DEFINE z == <<x>> \o t
  <2>3. <<x>> \in Seq(Unit) /\ Len(<<x>>) = 1 /\ <<x>>[1] = x
    BY <2>2
  <2>4. z \in Seq(Unit) /\ Len(z) = Len(b) /\ \A i \in 1..Len(b) : z[i] = IF i <= 1 THEN x ELSE t[i - 1]
    <3>1. z \in Seq(Unit) /\ Len(z) = 1 + Len(t)
      BY <2>2, <2>3, ConcatProperties
    <3>2. ASSUME NEW i \in 1..Len(b)
          PROVE  z[i] = IF i <= 1 THEN x ELSE t[i - 1]
      <4>1. i \in 1..1 + Len(t)
        BY <2>2
      <4> QED
        BY <2>2, <2>3, <4>1, ConcatProperties
    <3> QED
      BY <2>2, <3>1, <3>2
  <2> HIDE DEF z
  <2>5. \A i \in 1..Len(b) : b[i] = z[i]
    <3> SUFFICES ASSUME NEW i \in 1..Len(b) PROVE b[i] = z[i]
      OBVIOUS
    <3>1. CASE i = 1
      BY <2>2, <2>4, <3>1
    <3>2. CASE i # 1
      <4>1. i - 1 \in 1..Len(t) /\ (i - 1) + 1 = i /\ ~ (i <= 1)
        BY <2>2, <3>2
      <4> QED
        BY <2>2, <2>4, <4>1
    <3> QED
      BY <3>1, <3>2
  <2>6. b = z
    BY <2>1, <2>4, <2>5, SeqEqual
  <2> QED
    BY <2>1, <2>2, <2>6 DEF z
<1>4. Append(a, x) = a \o <<x>> /\ Append(a, x) \in Seq(Unit) /\ Len(Append(a, x)) = Len(a) + 1
      /\ (\A i \in 1..Len(a) : Append(a, x)[i] = a[i]) /\ Append(a, x)[Len(a) + 1] = x
  BY <1>3, AppendIsConcat, AppendProperties
<1>5. (a \o <<x>>) \o t = a \o (<<x>> \o t)
  <2>1. <<x>> \in Seq(Unit)
    BY <1>3
  <2> QED
    BY <1>3, <2>1, ConcatAssociative
<1>6. AllOf(q) = AllOf(p)
  BY <1>1, <1>2, <1>3, <1>4, <1>5 DEF AllOf
<1> QED
  BY <1>1, <1>2, <1>3, <1>4, <1>6 DEF q

(* A unit of the header that does not end it, and one of the content.      *)
LEMMA BufferedFramed ==
  ASSUME NEW p, IsPeer(p), Framed(p), p.inq # <<>>,
         p.has_header => Len(p.req_buf) < p.content_length,
         ~ p.has_header => Head(p.inq).part # 0
  PROVE  Framed(Buffered(p)) /\ In(Buffered(p)) = In(p) /\ SameOut(Buffered(p), p)
<1> DEFINE q == Buffered(p)
           n == Len(p.req_buf)
           x == Head(p.inq)
<1>1. p.req_buf \in Seq(Unit) /\ p.inq \in Seq(Unit) /\ n \in Nat
  BY DEF Framed
<1>2. /\ AllOf(q) = AllOf(p) /\ SameOut(q, p)
      /\ q.has_header = p.has_header /\ q.content_length = p.content_length
      /\ q.req_buf \in Seq(Unit) /\ q.inq \in Seq(Unit)
      /\ Len(q.req_buf) = n + 1
      /\ \A i \in 1..n : q.req_buf[i] = p.req_buf[i]
      /\ q.req_buf[n + 1] = x
  BY <1>1, BufferedUnits
<1>3. /\ x.m = AllOf(p)[1].m
      /\ p.has_header => x.part = n + 1
      /\ ~ p.has_header => x.part = -1
  <2>1. p.has_header => Len(p.req_buf) < p.content_length
    OBVIOUS
  <2> QED
    BY <2>1, NextUnit
<1> HIDE DEF q, x, n
<1>4. \A i \in 1..n + 1 : i \in 1..n \/ i = n + 1
  BY <1>1
<1>5. CASE p.has_header
  <2>1. \A i \in 1..n : p.req_buf[i].m = AllOf(p)[1].m /\ p.req_buf[i].part = i
    BY <1>5 DEF Framed, n
  <2>2. \A i \in 1..n + 1 : q.req_buf[i].m = AllOf(p)[1].m /\ q.req_buf[i].part = i
    BY <1>2, <1>3, <1>4, <1>5, <2>1
  <2>3. /\ Stream(AllOf(p)) /\ AllOf(p) # <<>> /\ AllOf(p)[1].part = 1
        /\ p.content_length = AllOf(p)[1].m.content
    BY <1>5 DEF Framed
  <2>4. n + 1 <= p.content_length
    <3>1. 1 \in 1..Len(AllOf(p)) /\ AllOf(p) \in Seq(Unit)
      BY <2>3, EmptySeq DEF Stream
    <3>2. p.content_length \in Nat
      BY <2>3, <3>1, Numbers DEF Stream
    <3> QED
      BY <1>1, <1>5, <3>2 DEF n
  <2>5. Framed(q)
    BY <1>2, <1>5, <2>2, <2>3, <2>4 DEF Framed
  <2> QED
    BY <1>2, <2>5 DEF In, q
<1>6. CASE ~ p.has_header
  <2>1. \A i \in 1..n : p.req_buf[i].m = AllOf(p)[1].m /\ p.req_buf[i].part = -1
    BY <1>6 DEF Framed, n
  <2>2. \A i \in 1..n + 1 : q.req_buf[i].m = AllOf(p)[1].m /\ q.req_buf[i].part = -1
    BY <1>2, <1>3, <1>4, <1>6, <2>1
  <2>3. Stream(AllOf(p)) /\ (AllOf(p) # <<>> => AllOf(p)[1].part <= 0)
    BY <1>6 DEF Framed
  <2>4. Framed(q)
    BY <1>2, <1>6, <2>2, <2>3 DEF Framed
  <2> QED
    BY <1>2, <2>4 DEF In, q
<1> QED
  BY <1>5, <1>6

(* The end of the header: what follows is the content it announced.        *)
LEMMA HeaderFramed ==
  ASSUME NEW p, IsPeer(p), Framed(p), p.inq # <<>>, ~ p.has_header, Head(p.inq).part = 0
  PROVE  LET q == Buffered(p)
             n == Head(p.inq).m.content
         IN  /\ Lengths(q.req_buf) = {n}
             /\ Framed(HeaderRead(q, n)) /\ In(HeaderRead(q, n)) = In(p)
             /\ SameOut(HeaderRead(q, n), p)
<1> DEFINE q == Buffered(p)
           x == Head(p.inq)
           n == x.m.content
           k == Len(p.req_buf)
           r == HeaderRead(q, n)
           u == AllOf(p)
<1>1. p.req_buf \in Seq(Unit) /\ p.inq \in Seq(Unit) /\ k \in Nat /\ Stream(u)
  BY DEF Framed
<1>2. /\ IsPeer(q) /\ AllOf(q) = u /\ SameOut(q, p) /\ q.inq = Tail(p.inq)
      /\ q.req_buf \in Seq(Unit) /\ q.inq \in Seq(Unit) /\ Len(q.req_buf) = k + 1
      /\ \A i \in 1..k : q.req_buf[i] = p.req_buf[i]
      /\ q.req_buf[k + 1] = x
  BY <1>1, BufferedUnits
<1>3. x.m = u[1].m /\ x = u[k + 1] /\ x.part = 0
  BY NextUnit
<1>4. \A i \in 1..k : p.req_buf[i].m = u[1].m /\ p.req_buf[i].part = -1
  BY DEF Framed
<1> HIDE DEF q
<1>5. /\ IsPeer(r) /\ r.req_buf = <<>> /\ r.inq = q.inq /\ r.has_header = TRUE
      /\ r.content_length = n /\ SameOut(r, q)
  BY <1>2, Zenon DEF HeaderRead, IsPeer, SameOut
<1> HIDE DEF r, u, x, k
<1>6. q.req_buf # <<>> /\ Last(q.req_buf) = x
  BY <1>1, <1>2, EmptySeq DEF Last
<1>7. ASSUME NEW i \in 1..k + 1
      PROVE  q.req_buf[i].m = x.m /\ q.req_buf[i].part <= 0 /\ q.req_buf[i].part \in Int
  <2>1. i \in 1..k \/ i = k + 1
    BY <1>1
  <2> QED
    BY <1>2, <1>3, <1>4, <2>1
<1>8. Lengths(q.req_buf) = {n}
  <2>1. DOMAIN q.req_buf = 1..k + 1
    BY <1>2
  <2> QED
    BY <1>6, <1>7, <2>1 DEF Lengths
<1>9. AllOf(r) = q.inq /\ u = q.req_buf \o q.inq
  <2>1. <<>> \o q.inq = q.inq
    BY <1>2, ConcatEmptySeq
  <2> QED
    BY <1>2, <1>5, <2>1 DEF AllOf
<1>10. x.m.content \in 1..LSP_MAX_BUFFER_SIZE /\ n \in Nat /\ n > 0
  <2>1. PICK a, b : a = q.req_buf /\ b = q.inq
    OBVIOUS
  <2>2. a \in Seq(Unit) /\ b \in Seq(Unit) /\ u = a \o b /\ Len(a) = k + 1
    BY <1>2, <1>9, <2>1
  <2>3. Len(u) = k + 1 + Len(b) /\ Len(b) \in Nat /\ k \in Nat
    <3>1. Len(a \o b) = Len(a) + Len(b)
      BY <2>2, JoinedUnits
    <3>2. Len(b) \in Nat
      BY <2>2
    <3> QED
      BY <1>1, <2>2, <3>1, <3>2
  <2>4. k + 1 \in 1..Len(u)
    BY <2>3
  <2> QED
    BY <1>1, <1>3, <2>4, Numbers DEF Stream
<1>11. q.inq # <<>>
  <2>1. SUFFICES ASSUME q.inq = <<>> PROVE FALSE
    OBVIOUS
  <2>2. u = q.req_buf
    BY <1>2, <1>9, <2>1, ConcatEmptySeq
  <2>3. u # <<>> /\ u[Len(u)] = x
    BY <1>2, <1>6, <2>2
  <2>4. IsLast(x)
    BY <1>1, <2>3 DEF Stream
  <2> QED
    BY <1>3, <1>10, <2>4 DEF IsLast
<1>12. Stream(q.inq) /\ Follows(x, q.inq[1])
  <2>1. Stream(q.inq) /\ Follows(q.req_buf[Len(q.req_buf)], q.inq[1])
    BY <1>1, <1>2, <1>6, <1>9, <1>11, StreamRest
  <2> QED
    BY <1>2, <2>1
<1>13. q.inq[1].m = x.m /\ q.inq[1].part = 1
  <2>1. ~ IsLast(x) /\ x.part # -1
    BY <1>3, <1>10 DEF IsLast
  <2> QED
    BY <1>3, <1>12, <2>1 DEF Follows
<1>14. Framed(r)
  <2>1. <<>> \in Seq(Unit) /\ Len(<<>>) = 0 /\ 1..0 = {}
    OBVIOUS
  <2>2. /\ r.req_buf \in Seq(Unit) /\ r.inq \in Seq(Unit) /\ r.has_header
        /\ r.content_length = n /\ Len(r.req_buf) <= n
        /\ \A i \in 1..Len(r.req_buf) : FALSE
    BY <1>2, <1>5, <1>10, <2>1
  <2>3. /\ Stream(AllOf(r)) /\ AllOf(r) # <<>> /\ AllOf(r)[1].part = 1
        /\ AllOf(r)[1].m.content = n
    BY <1>9, <1>11, <1>12, <1>13
  <2> HIDE DEF n
  <2> QED
    BY <2>2, <2>3 DEF Framed
<1>15. In(r) = In(p)
  <2>1. ASSUME NEW i \in 1..Len(q.req_buf)
        PROVE  ~ IsLast(q.req_buf[i])
    <3>1. q.req_buf[i].m = x.m /\ q.req_buf[i].part <= 0 /\ q.req_buf[i].part \in Int
      BY <1>2, <1>7
    <3> QED
      BY <1>10, <3>1 DEF IsLast
  <2>2. Messages(q.req_buf) = <<>>
    <3>1. PICK b : b = q.req_buf
      OBVIOUS
    <3>2. b \in Seq(Unit) /\ \A i \in 1..Len(b) : ~ IsLast(b[i])
      BY <1>2, <2>1, <3>1
    <3> QED
      BY <3>1, <3>2, NoEnds
  <2>3. Messages(u) = Messages(q.req_buf) \o Messages(q.inq)
    BY <1>2, <1>9, MessagesConcat
  <2>4. Messages(q.inq) \in Seq(MessageRecord)
    BY <1>2, MessagesTyped
  <2>5. <<>> \o Messages(q.inq) = Messages(q.inq)
    BY <2>4, ConcatEmptySeq
  <2> QED
    BY <1>9, <2>2, <2>3, <2>5 DEF In, u
<1>16. SameOut(r, p)
  BY <1>2, <1>5 DEF SameOut
<1> QED
  BY <1>8, <1>14, <1>15, <1>16 DEF q, r, x

LEMMA FirstOfConcat ==
  ASSUME NEW S, NEW x \in S, NEW t \in Seq(S)
  PROVE  LET s == <<x>> \o t IN s # <<>> /\ Head(s) = x /\ Tail(s) = t /\ s \in Seq(S)
<1> DEFINE s == <<x>> \o t
           r == Tail(s)
<1>1. /\ <<x>> \in Seq(S) /\ s \in Seq(S) /\ Len(s) = 1 + Len(t) /\ Len(t) \in Nat
      /\ s[1] = x /\ \A i \in 1..Len(t) : s[i + 1] = t[i]
  <2>1. <<x>> \in Seq(S) /\ Len(<<x>>) = 1 /\ <<x>>[1] = x /\ Len(t) \in Nat
    OBVIOUS
  <2>2. s \in Seq(S) /\ Len(s) = 1 + Len(t)
    BY <2>1, ConcatProperties
  <2>3. s[1] = x
    BY <2>1, ConcatProperties
  <2>4. ASSUME NEW i \in 1..Len(t) PROVE s[i + 1] = t[i]
    <3>1. i + 1 \in 1..1 + Len(t) /\ ~ (i + 1 <= 1) /\ i + 1 - 1 = i
      BY <2>1
    <3> QED
      BY <2>1, <3>1, ConcatProperties
  <2> QED
    BY <2>1, <2>2, <2>3, <2>4
<1> HIDE DEF s
<1>2. s # <<>> /\ Head(s) = x
  BY <1>1
<1>3. r \in Seq(S) /\ Len(r) = Len(t) /\ \A i \in 1..Len(t) : r[i] = s[i + 1]
  BY <1>1, <1>2, HeadTailProperties
<1> HIDE DEF r
<1>4. r = t
  BY <1>1, <1>3, SeqEqual
<1> QED
  BY <1>1, <1>2, <1>4 DEF s, r

(* The last unit of the content: the message is whole, and is the first.   *)
LEMMA MessageFramed ==
  ASSUME NEW p, IsPeer(p), Framed(p), p.has_header, Len(p.req_buf) >= p.content_length
  PROVE  LET q == ReadyAgain(p)
             m == p.req_buf[1].m
         IN  /\ Whole(p.req_buf) /\ m \in MessageRecord
             /\ In(p) # <<>> /\ Head(In(p)) = m /\ In(q) = Tail(In(p))
             /\ IsPeer(q) /\ Framed(q) /\ SameOut(q, p)
<1> DEFINE q == ReadyAgain(p)
           u == AllOf(p)
<1>1. PICK a, b, c, m : a = p.req_buf /\ b = p.inq /\ c = p.content_length /\ m = u[1].m
  OBVIOUS
<1>2. /\ a \in Seq(Unit) /\ b \in Seq(Unit) /\ u = a \o b /\ Stream(u) /\ u # <<>>
      /\ c = m.content /\ Len(a) <= c /\ Len(a) >= c
      /\ \A i \in 1..Len(a) : a[i].m = m /\ a[i].part = i
  BY <1>1 DEF Framed, AllOf
<1>3. /\ IsPeer(q) /\ q.req_buf = <<>> /\ q.inq = b /\ q.has_header = FALSE /\ SameOut(q, p)
  BY <1>1, Zenon DEF ReadyAgain, IsPeer, SameOut
<1> HIDE DEF q, u
<1>4. Len(a) \in Nat /\ c \in Nat /\ c > 0
  <2>1. 1 \in 1..Len(u)
    BY <1>2, EmptySeq DEF Stream
  <2>2. u[1].m.content \in 1..LSP_MAX_BUFFER_SIZE
    BY <1>2, <2>1 DEF Stream
  <2>3. c \in 1..LSP_MAX_BUFFER_SIZE
    BY <1>1, <1>2, <2>2
  <2>4. Len(a) \in Nat
    BY <1>2
  <2> QED
    BY <2>3, <2>4, Numbers
<1>5. Len(a) = c /\ a # <<>> /\ 1 \in 1..Len(a) /\ Len(a) \in 1..Len(a) /\ DOMAIN a = 1..Len(a)
  BY <1>2, <1>4, EmptySeq
<1>6. a[1].m = m /\ m \in MessageRecord
  <2>1. a[1] \in Unit
    BY <1>2, <1>5, ElementOfSeq
  <2> QED
    BY <1>2, <1>5, <2>1 DEF Unit
<1>7. Whole(a)
  BY <1>2, <1>5, <1>6 DEF Whole
<1>8. IsLast(a[Len(a)]) /\ a[Len(a)].m = m
  BY <1>2, <1>5 DEF IsLast
<1>9. \A i \in 1..Len(a) - 1 : ~ IsLast(a[i])
  BY <1>2, <1>4, <1>5 DEF IsLast
<1>10. Messages(a) = <<m>>
  BY <1>2, <1>5, <1>8, <1>9, OneEnd
<1>11. Messages(u) = <<m>> \o Messages(b) /\ Messages(b) \in Seq(MessageRecord)
  BY <1>2, <1>10, MessagesConcat, MessagesTyped
<1>12. Stream(b) /\ (b # <<>> => b[1].part <= 0)
  BY <1>2, <1>5, <1>8, StreamRest DEF Follows
<1>13. AllOf(q) = b
  BY <1>2, <1>3, ConcatEmptySeq DEF AllOf
<1>14. Framed(q)
  <2>1. <<>> \in Seq(Unit) /\ Len(<<>>) = 0 /\ 1..0 = {}
    OBVIOUS
  <2> QED
    BY <1>2, <1>3, <1>12, <1>13, <2>1 DEF Framed
<1>15. Messages(u) # <<>> /\ Head(Messages(u)) = m /\ Tail(Messages(u)) = Messages(b)
  BY <1>6, <1>11, FirstOfConcat
<1> QED
  BY <1>1, <1>3, <1>6, <1>7, <1>13, <1>14, <1>15 DEF In, q, u

(* A client sends a message.                                               *)
LEMMA SentFramed ==
  ASSUME NEW p, IsPeer(p), Framed(p), NEW m \in MessageRecord,
         m.content \in 1..LSP_MAX_BUFFER_SIZE
  PROVE  /\ Framed(Sent(p, m)) /\ SameOut(Sent(p, m), p)
         /\ In(Sent(p, m)) = In(p) \o <<m>>
<1> DEFINE q == Sent(p, m)
           u == AllOf(p)
           v == AllOf(q)
<1>1. PICK a, b, z : a = p.req_buf /\ b = p.inq /\ z = Units(m)
  OBVIOUS
<1>2. a \in Seq(Unit) /\ b \in Seq(Unit) /\ u = a \o b /\ Stream(u) /\ u \in Seq(Unit)
  BY <1>1 DEF Framed, AllOf, Stream
<1>3. Stream(z) /\ z # <<>> /\ z[1].part <= 0 /\ Messages(z) = <<m>> /\ z \in Seq(Unit)
  BY <1>1, UnitsStream DEF Stream
<1>4. /\ q.req_buf = a /\ q.inq = b \o z /\ q.has_header = p.has_header
      /\ q.content_length = p.content_length /\ SameOut(q, p)
  BY <1>1, Zenon DEF Sent, IsPeer, SameOut
<1> HIDE DEF q
<1>5. v = u \o z
  <2>1. AllOf(q) = q.req_buf \o q.inq
    BY DEF AllOf
  <2>2. AllOf(q) = a \o (b \o z)
    BY <1>4, <2>1
  <2>3. a \in Seq(Unit) /\ b \in Seq(Unit) /\ z \in Seq(Unit) /\ u = a \o b
    BY <1>2, <1>3
  <2> HIDE DEF u, v
  <2>4. (a \o b) \o z = a \o (b \o z)
    BY <2>3, ConcatAssociative, SMTT(40)
  <2>5. AllOf(q) = u \o z
    BY <2>2, <2>3, <2>4
  <2> QED
    BY <2>5 DEF v
<1> HIDE DEF u, v
<1>6. Stream(v)
  BY <1>2, <1>3, <1>5, StreamConcat
<1>7. u # <<>> => v # <<>> /\ v[1] = u[1]
  <2>1. u # <<>> => 1 \in 1..Len(u)
    BY <1>2, EmptySeq
  <2>2. \A i \in 1..Len(u) : v[i] = u[i]
    BY <1>2, <1>3, <1>5, JoinedUnits
  <2>3. v # <<>>
    <3>1. u \o z # <<>>
      BY <1>2, <1>3, ConcatEqualIffEmpty
    <3> QED
      BY <1>5, <3>1
  <2> QED
    BY <2>1, <2>2, <2>3
<1>8. u = <<>> => v = z /\ a = <<>>
  <2>1. u = <<>> => a = <<>>
    <3>1. a \o b = <<>> => a = <<>>
      BY <1>2, ConcatEqualIffEmpty
    <3> QED
      BY <1>2, <3>1
  <2>2. u = <<>> => v = z
    <3>1. <<>> \o z = z
      BY <1>3, ConcatEmptySeq
    <3> QED
      BY <1>5, <3>1
  <2> QED
    BY <2>1, <2>2
<1>9. b \o z \in Seq(Unit)
  BY <1>2, <1>3, ConcatProperties
<1>10. Framed(q)
  <2>1. CASE u # <<>>
    <3>1. Stream(AllOf(q)) /\ AllOf(q) # <<>> /\ AllOf(q)[1] = AllOf(p)[1] /\ AllOf(p) # <<>>
      BY <1>6, <1>7, <2>1 DEF u, v
    <3>2. /\ q.req_buf = p.req_buf /\ q.req_buf \in Seq(Unit) /\ q.inq \in Seq(Unit)
          /\ q.has_header = p.has_header /\ q.content_length = p.content_length
      BY <1>1, <1>2, <1>4, <1>9
    <3> QED
      BY <3>1, <3>2 DEF Framed
  <2>2. CASE u = <<>>
    <3>1. ~ p.has_header
      BY <2>2 DEF Framed, u
    <3>2. \A i \in 1..Len(a) : FALSE
      BY <1>8, <2>2
    <3> QED
      BY <1>2, <1>3, <1>4, <1>6, <1>8, <1>9, <2>2, <3>1, <3>2 DEF Framed, v
  <2> QED
    BY <2>1, <2>2
<1>11. In(q) = In(p) \o <<m>>
  BY <1>2, <1>3, <1>5, MessagesConcat DEF In, u, v
<1> QED
  BY <1>4, <1>10, <1>11 DEF q

-----------------------------------------------------------------------------
(***************************************************************************)
(* What is said to a client.                                               *)
(***************************************************************************)
LEMMA Suffix ==
  ASSUME NEW S, NEW s \in Seq(S), NEW t \in Seq(S)
  PROVE  /\ Channel!IsPrefix(s, s \o t)
         /\ Len(s \o t) = Len(s) + Len(t)
         /\ SubSeq(s \o t, Len(s) + 1, Len(s \o t)) = t
<1> DEFINE u == s \o t
           n == Len(s)
           k == Len(t)
<1>1. n \in Nat /\ k \in Nat /\ u \in Seq(S) /\ Len(u) = n + k
      /\ (\A i \in 1..n : u[i] = s[i]) /\ (\A i \in 1..k : u[n + i] = t[i])
  BY ConcatProperties
<1> HIDE DEF u
<1>2. SubSeq(s, 1, n) = SubSeq(u, 1, n)
  <2>1. \A i \in 1..n : s[i] \in S /\ u[i] \in S
    BY <1>1, ElementOfSeq
  <2>2. /\ SubSeq(s, 1, n) \in Seq(S) /\ Len(SubSeq(s, 1, n)) = n
        /\ \A i \in 1..n : SubSeq(s, 1, n)[i] = s[i]
    BY <1>1, <2>1, SubSeqProperties
  <2>3. /\ SubSeq(u, 1, n) \in Seq(S) /\ Len(SubSeq(u, 1, n)) = n
        /\ \A i \in 1..n : SubSeq(u, 1, n)[i] = u[i]
    BY <1>1, <2>1, SubSeqProperties
  <2> DEFINE a == SubSeq(s, 1, n)
             b == SubSeq(u, 1, n)
  <2>4. a \in Seq(S) /\ b \in Seq(S) /\ Len(a) = Len(b) /\ \A i \in 1..Len(a) : a[i] = b[i]
    BY <1>1, <2>2, <2>3
  <2> HIDE DEF a, b
  <2>5. a = b
    BY <2>4, SeqEqual
  <2> QED
    BY <2>5 DEF a, b
<1>3. Channel!IsPrefix(s, u)
  BY <1>1, <1>2 DEF Channel!IsPrefix
<1>4. SubSeq(u, n + 1, Len(u)) = t
  <2> DEFINE a == SubSeq(u, n + 1, n + k)
  <2>1. \A i \in n + 1..n + k : u[i] \in S
    BY <1>1, ElementOfSeq
  <2>2. a \in Seq(S) /\ Len(a) = k /\ \A i \in 1..k : a[i] = u[n + i]
    <3>1. PICK f, l : f = n + 1 /\ l = n + k
      OBVIOUS
    <3>2. f \in Int /\ l \in Int /\ a = SubSeq(u, f, l) /\ \A i \in f..l : u[i] \in S
      BY <1>1, <2>1, <3>1
    <3> HIDE DEF a
    <3>3. /\ a \in Seq(S) /\ Len(a) = IF f <= l THEN l - f + 1 ELSE 0
          /\ \A i \in 1..l - f + 1 : a[i] = u[f + i - 1]
      BY <3>2, SubSeqProperties
    <3>4. l - f + 1 = k /\ (f <= l <=> k # 0) /\ \A i \in 1..k : f + i - 1 = n + i
      BY <1>1, <3>1
    <3> QED
      BY <1>1, <3>3, <3>4
  <2>3. a = t
    <3> HIDE DEF a
    <3> QED
      BY <1>1, <2>2, SeqEqual
  <2> QED
    BY <1>1, <2>3
<1> QED
  BY <1>1, <1>3, <1>4 DEF u

LEMMA QueuedTold ==
  ASSUME NEW p, IsPeer(p), Told(p), NEW out \in Seq(Said)
  PROVE  /\ Told(Queued(p, out)) /\ SameIn(Queued(p, out), p)
         /\ Queued(p, out).res_queue = p.res_queue \o out
         /\ Queued(p, out).wrote = p.wrote
<1> DEFINE q == Queued(p, out)
<1>1. /\ SameIn(q, p) /\ q.res_queue = p.res_queue \o out
      /\ q.res_sent = p.res_sent /\ q.wrote = p.wrote
  BY Zenon DEF Queued, IsPeer, SameIn
<1> HIDE DEF q
<1>2. PICK a, b : a = p.res_queue /\ b = a \o out
  OBVIOUS
<1>3. a \in Seq(Said)
  BY <1>2 DEF Told
<1>4. b \in Seq(Said)
  BY <1>2, <1>3, ConcatProperties
<1>5. a # <<>> => b # <<>> /\ Head(b) = Head(a)
  <2> SUFFICES ASSUME a # <<>> PROVE b # <<>> /\ Head(b) = Head(a)
    OBVIOUS
  <2>1. Len(a) \in Nat /\ Len(a) # 0 /\ Len(out) \in Nat /\ Len(b) = Len(a) + Len(out)
    BY <1>2, <1>3, ConcatProperties, EmptySeq
  <2>2. b[1] = a[1]
    BY <1>2, <1>3, <2>1, ConcatProperties
  <2>3. b # <<>>
    BY <1>4, <2>1
  <2> QED
    BY <1>3, <1>4, <2>2, <2>3
<1>6. Told(q)
  BY <1>1, <1>2, <1>4, <1>5 DEF Told
<1> QED
  BY <1>1, <1>6 DEF q

(* A handler's notes, and the response if there is one.                    *)
LEMMA RepliesAnswer ==
  ASSUME NEW w, Sound(w), NEW m \in MessageRecord
  PROVE  Replies(w, m) \in Seq(Said) /\ Channel!Answers(m, Replies(w, m))
<1> DEFINE notes == w.notes
           r == Response(m.n)
<1>1. notes \in Seq(Notice) /\ Len(notes) \in Nat
  BY DEF Sound
<1>2. \A i \in 1..Len(notes) : notes[i] \in Said /\ Channel!IsNote(notes[i])
  <2>1. \A i \in 1..Len(notes) : notes[i] \in Notice
    BY <1>1, ElementOfSeq
  <2> QED
    BY <2>1 DEF Notice, Said, Channel!IsNote
<1>3. notes \in Seq(Said)
  BY <1>1, <1>2
<1>4. r \in Said
  BY DEF Response, Said, MessageRecord
<1> HIDE DEF notes
<1>5. CASE IsRequest(m)
  <2> DEFINE s == Append(notes, r)
  <2>1. /\ s \in Seq(Said) /\ Len(s) = Len(notes) + 1 /\ s # <<>>
        /\ (\A i \in 1..Len(notes) : s[i] = notes[i]) /\ s[Len(notes) + 1] = r
    BY <1>1, <1>3, <1>4, AppendProperties
  <2> HIDE DEF s
  <2>2. Replies(w, m) = s
    BY <1>5 DEF Replies, s, notes
  <2>3. s[Len(s)] = [type |-> "response", about |-> m.n]
    BY <2>1 DEF Response
  <2>4. \A i \in 1..Len(s) - 1 : Channel!IsNote(s[i])
    BY <1>1, <1>2, <2>1
  <2>5. Channel!Answers(m, s)
    BY <1>5, <2>1, <2>3, <2>4 DEF Channel!Answers, Channel!Last
  <2> QED
    BY <2>1, <2>2, <2>5
<1>6. CASE ~ IsRequest(m)
  <2>1. Replies(w, m) = notes
    BY <1>6 DEF Replies, notes
  <2> QED
    BY <1>1, <1>2, <1>3, <1>6, <2>1 DEF Channel!Answers
<1> QED
  BY <1>5, <1>6

-----------------------------------------------------------------------------
(***************************************************************************)
(* The invariant that the refinement needs, and what a step that does not  *)
(* concern a client shows of it: nothing.                                  *)
(***************************************************************************)

(* Every message a client sends has a content that fits the buffer: others *)
(* are not served as they are.                                             *)
ContentsFit ==
  \A id \in Ids : \A t \in Methods[id] : t.content \in 1..LSP_MAX_BUFFER_SIZE

Good(p) == Framed(p) /\ Told(p)

Unused(p) == p.req_buf = <<>> /\ p.inq = <<>> /\ p.res_queue = <<>>

(* Where the poll is, and what handle_data and send_data rely on there.    *)
PlaceOK(at, p) ==
  /\ at = "header" => ~ p.has_header
  /\ at = "content" => p.has_header
  /\ at = "send" => p.res_queue # <<>>

CInv ==
  /\ \A id \in Ids : Good(peer[id])
  /\ \A id \in Ids : id \notin 0..next_client_id - 1 => Unused(peer[id])
  /\ poll.at # "idle" => PlaceOK(poll.at, peer[poll.id])

HeardBy == [id \in Ids |-> Heard(peer[id].wrote)]

ChannelStep == Channel!Next \/ UNCHANGED Channel!vars

Alike(q, p) == SameIn(q, p) /\ SameOut(q, p)

LEMMA AlikeGood ==
  ASSUME NEW p, NEW q, Alike(q, p)
  PROVE  /\ Good(p) => Good(q) /\ In(q) = In(p)
         /\ Unused(p) => Unused(q)
         /\ \A at : PlaceOK(at, p) => PlaceOK(at, q)
<1>1. Good(p) => Good(q) /\ In(q) = In(p)
  BY SameFramed, SameTold DEF Good, Alike
<1> QED
  BY <1>1 DEF Alike, SameIn, SameOut, Unused, PlaceOK

LEMMA Unseen ==
  ASSUME clients' = clients,
         \A id \in Ids : /\ In(peer'[id]) = In(peer[id])
                         /\ peer'[id].res_queue = peer[id].res_queue
                         /\ Heard(peer'[id].wrote) = Heard(peer[id].wrote)
  PROVE  UNCHANGED Channel!vars
<1>1. Inbox' = Inbox
  BY DEF Inbox, In, AllOf
<1>2. Outbox' = Outbox
  BY DEF Outbox
<1>3. HeardBy' = HeardBy
  BY DEF HeardBy
<1> QED
  BY <1>1, <1>2, <1>3 DEF Channel!vars, HeardBy

(* A step outside of every client's messages.                              *)
LEMMA ElsewhereStutters ==
  ASSUME IInv, CInv, clients' = clients, poll' = poll, next_client_id' = next_client_id,
         \A id \in Ids : Alike(peer'[id], peer[id])
  PROVE  CInv' /\ ChannelStep
<1>1. \A id \in Ids : Good(peer[id])
  BY DEF CInv
<1>2. \A id \in Ids : Good(peer'[id]) /\ In(peer'[id]) = In(peer[id])
                      /\ (Unused(peer[id]) => Unused(peer'[id]))
                      /\ \A at : PlaceOK(at, peer[id]) => PlaceOK(at, peer'[id])
  BY <1>1, AlikeGood
<1>3. poll.at # "idle" => poll.id \in Ids
  BY ClientIds DEF IInv, ClientsSound, PollSound
<1>4. CInv'
  BY <1>2, <1>3 DEF CInv
<1>5. UNCHANGED Channel!vars
  BY <1>2, Unseen DEF Alike, SameOut
<1> QED
  BY <1>4, <1>5 DEF ChannelStep

(* What one client's inbox, outbox and hearing are after a step.           *)
LEMMA OneClient ==
  ASSUME NEW id \in Ids, id \in clients, clients' = clients,
         \A j \in Ids \ {id} : peer'[j] = peer[j]
  PROVE  /\ Inbox[id] = In(peer[id]) /\ Inbox'[id] = In(peer'[id])
         /\ Inbox' = [Inbox EXCEPT ![id] = In(peer'[id])]
         /\ Outbox[id] = peer[id].res_queue /\ Outbox'[id] = peer'[id].res_queue
         /\ Outbox' = [Outbox EXCEPT ![id] = peer'[id].res_queue]
         /\ HeardBy[id] = Heard(peer[id].wrote)
         /\ HeardBy' = [HeardBy EXCEPT ![id] = Heard(peer'[id].wrote)]
<1>1. /\ Inbox[id] = In(peer[id]) /\ Inbox'[id] = In(peer'[id])
      /\ Inbox' = [Inbox EXCEPT ![id] = In(peer'[id])]
  BY DEF Inbox, In, AllOf
<1>2. /\ Outbox[id] = peer[id].res_queue /\ Outbox'[id] = peer'[id].res_queue
      /\ Outbox' = [Outbox EXCEPT ![id] = peer'[id].res_queue]
  BY DEF Outbox
<1>3. /\ HeardBy[id] = Heard(peer[id].wrote)
      /\ HeardBy' = [HeardBy EXCEPT ![id] = Heard(peer'[id].wrote)]
  BY DEF HeardBy
<1> QED
  BY <1>1, <1>2, <1>3

(* A client's peer changes, and the poll goes to where it may be.          *)
LEMMA OneGood ==
  ASSUME IInv, CInv, NEW id \in clients, NEW p, peer' = [peer EXCEPT ![id] = p], Good(p),
         next_client_id' = next_client_id,
         \/ poll' = poll /\ (poll.at # "idle" /\ poll.id = id => PlaceOK(poll.at, p))
         \/ poll'.at \in {"idle", "visit"}
         \/ poll'.id = id /\ PlaceOK(poll'.at, p)
  PROVE  /\ CInv' /\ id \in Ids /\ peer'[id] = p
         /\ \A j \in Ids \ {id} : peer'[j] = peer[j]
<1>1. /\ id \in Ids /\ id \in 0..next_client_id - 1 /\ PeersSound
      /\ poll.at # "idle" => poll.id \in Ids
  BY ClientIds DEF IInv, ClientsSound, PollSound
<1>2. DOMAIN peer = Ids
  BY <1>1 DEF PeersSound
<1>3. peer'[id] = p /\ \A j \in Ids \ {id} : peer'[j] = peer[j]
  BY <1>1, <1>2
<1>4. \A j \in Ids : Good(peer'[j])
  BY <1>3 DEF CInv
<1>5. \A j \in Ids : j \notin 0..next_client_id' - 1 => Unused(peer'[j])
  BY <1>1, <1>3 DEF CInv
<1>6. poll'.at # "idle" => PlaceOK(poll'.at, peer'[poll'.id])
  <2>1. CASE poll' = poll /\ (poll.at # "idle" /\ poll.id = id => PlaceOK(poll.at, p))
    BY <1>1, <1>3, <2>1 DEF CInv
  <2>2. CASE poll'.at \in {"idle", "visit"}
    BY <2>2 DEF PlaceOK
  <2>3. CASE poll'.id = id /\ PlaceOK(poll'.at, p)
    BY <1>3, <2>3
  <2> QED
    BY <2>1, <2>2, <2>3
<1>7. CInv'
  BY <1>4, <1>5, <1>6 DEF CInv
<1> QED
  BY <1>1, <1>3, <1>7

-----------------------------------------------------------------------------
(***************************************************************************)
(* The steps of a poll.                                                    *)
(***************************************************************************)
LEMMA FirstPlace ==
  ASSUME NEW S
  PROVE  FirstOf(S).at \in {"idle", "visit"}
BY DEF FirstOf, Idle

LEMMA SendingPlace ==
  ASSUME NEW id, NEW p
  PROVE  \/ Sending(id, p).at \in {"idle", "visit"}
         \/ Sending(id, p).id = id /\ PlaceOK(Sending(id, p).at, p)
<1>1. After(id).at \in {"idle", "visit"}
  BY FirstPlace DEF After
<1>2. CASE p.res_queue = <<>>
  BY <1>1, <1>2 DEF Sending
<1>3. CASE p.res_queue # <<>>
  BY <1>3 DEF Sending, PlaceOK
<1> QED
  BY <1>2, <1>3

LEMMA EnteringPlace ==
  ASSUME NEW id, NEW p, EntersHandleData(id, p)
  PROVE  poll'.at \in {"idle", "visit"} \/ (poll'.id = id /\ PlaceOK(poll'.at, p))
<1>1. CASE p.arrived > 0
  BY <1>1 DEF EntersHandleData, PlaceOK
<1>2. CASE ~ (p.arrived > 0)
  BY <1>2, SendingPlace DEF EntersHandleData
<1> QED
  BY <1>1, <1>2

(* A poll that only moves on.                                              *)
LEMMA PollMovesOn ==
  ASSUME IInv, CInv, NEW id \in clients, UNCHANGED <<clients, next_client_id>>,
         \A j \in Ids : peer'[j] = peer[j],
         \/ poll'.at \in {"idle", "visit"}
         \/ poll'.id = id /\ PlaceOK(poll'.at, peer[id])
  PROVE  CInv' /\ ChannelStep
<1>1. id \in Ids
  BY ClientIds DEF IInv
<1>2. poll'.at # "idle" => PlaceOK(poll'.at, peer'[poll'.id])
  BY <1>1 DEF PlaceOK
<1>3. UNCHANGED Channel!vars
  BY Unseen
<1> QED
  BY <1>2, <1>3 DEF CInv, ChannelStep

LEMMA DropStep ==
  ASSUME IInv, CInv, NEW id \in clients, Disconnects(id), UNCHANGED next_client_id
  PROVE  CInv' /\ ChannelStep
<1>1. id \in Ids
  BY ClientIds DEF IInv
<1>2. clients' = clients \ {id} /\ UNCHANGED peer /\ poll'.at \in {"idle", "visit"}
  BY FirstPlace DEF Disconnects
<1>3. CInv'
  BY <1>2 DEF CInv, PlaceOK
<1>4. Inbox' = [Inbox EXCEPT ![id] = <<>>]
  BY <1>1, <1>2 DEF Inbox
<1>5. Outbox' = [Outbox EXCEPT ![id] = <<>>]
  BY <1>1, <1>2 DEF Outbox
<1>6. HeardBy' = HeardBy
  BY <1>2 DEF HeardBy
<1>7. Channel!Drop(id)
  BY <1>2, <1>4, <1>5, <1>6 DEF Channel!Drop, HeardBy
<1> QED
  BY <1>1, <1>3, <1>7 DEF ChannelStep, Channel!Next

LEMMA NoByteStep ==
  ASSUME IInv, CInv, NEW id \in clients, NoByte(id, peer[id]), UNCHANGED next_client_id
  PROVE  CInv' /\ ChannelStep
<1>1. id \in Ids /\ DOMAIN peer = Ids
  BY ClientIds DEF IInv, PeersSound
<1>2. CASE peer[id].up
  <2>1. /\ UNCHANGED <<clients, next_client_id>> /\ poll' = Sending(id, peer[id])
        /\ \A j \in Ids : peer'[j] = peer[j]
    BY <1>1, <1>2 DEF NoByte
  <2>2. poll'.at \in {"idle", "visit"} \/ (poll'.id = id /\ PlaceOK(poll'.at, peer[id]))
    BY <2>1, SendingPlace
  <2> QED
    BY <2>1, <2>2, PollMovesOn
<1>3. CASE ~ peer[id].up
  BY <1>3, DropStep DEF NoByte
<1> QED
  BY <1>2, <1>3

LEMMA VisitStep ==
  ASSUME IInv, CInv, PollVisit
  PROVE  CInv' /\ ChannelStep
<1> DEFINE id == poll.id
<1>1. id \in clients /\ UNCHANGED next_client_id
  BY AtClient DEF PollVisit, At, IInv, Unpolled
<1>2. CASE peer[id].up
  <2>1. EntersHandleData(id, peer[id]) /\ UNCHANGED <<clients, peer>>
    BY <1>2 DEF PollVisit
  <2>2. poll'.at \in {"idle", "visit"} \/ (poll'.id = id /\ PlaceOK(poll'.at, peer[id]))
    BY <2>1, EnteringPlace
  <2> QED
    BY <1>1, <2>1, <2>2, PollMovesOn
<1>3. CASE ~ peer[id].up
  <2>1. Disconnects(id)
    BY <1>3 DEF PollVisit
  <2> QED
    BY <1>1, <2>1, DropStep
<1> QED
  BY <1>2, <1>3

(* A unit is buffered, or the header read: the client's messages are the   *)
(* same.                                                                   *)
LEMMA ReadsOn ==
  ASSUME IInv, CInv, NEW id \in clients, NEW p, peer' = [peer EXCEPT ![id] = p],
         Good(p), In(p) = In(peer[id]), SameOut(p, peer[id]),
         UNCHANGED <<clients, next_client_id>>,
         \/ poll' = poll /\ (poll.at # "idle" /\ poll.id = id => PlaceOK(poll.at, p))
         \/ poll'.id = id /\ PlaceOK(poll'.at, p)
  PROVE  CInv' /\ ChannelStep
<1>1. CInv' /\ id \in Ids /\ peer'[id] = p /\ \A j \in Ids \ {id} : peer'[j] = peer[j]
  BY OneGood
<1>2. \A j \in Ids : /\ In(peer'[j]) = In(peer[j])
                     /\ peer'[j].res_queue = peer[j].res_queue
                     /\ Heard(peer'[j].wrote) = Heard(peer[j].wrote)
  BY <1>1 DEF SameOut
<1>3. UNCHANGED Channel!vars
  BY <1>2, Unseen
<1> QED
  BY <1>1, <1>3 DEF ChannelStep

LEMMA AtGoodClient ==
  ASSUME IInv, CInv, poll.at # "idle"
  PROVE  /\ poll.id \in clients /\ poll.id \in Ids
         /\ PeerSound(peer[poll.id]) /\ IsPeer(peer[poll.id])
         /\ Framed(peer[poll.id]) /\ Told(peer[poll.id]) /\ Good(peer[poll.id])
         /\ PlaceOK(poll.at, peer[poll.id])
         /\ peer[poll.id].arrived # 0 => peer[poll.id].inq # <<>>
<1>1. poll.id \in clients /\ poll.id \in Ids /\ PeersSound
  BY AtClient DEF At, IInv
<1>2. PeerSound(peer[poll.id])
  BY <1>1 DEF PeersSound
<1>3. peer[poll.id].arrived # 0 => peer[poll.id].inq # <<>>
  BY <1>2 DEF PeerSound
<1> QED
  BY <1>1, <1>2, <1>3 DEF CInv, Good, PeerSound

LEMMA HeaderStep ==
  ASSUME IInv, CInv, HandleHeader
  PROVE  CInv' /\ ChannelStep
<1> DEFINE id == poll.id
           p == peer[id]
           q == Buffered(p)
           x == Head(p.inq)
<1>1. poll.at = "header" /\ UNCHANGED next_client_id
  BY DEF HandleHeader, At, Unpolled
<1>2. /\ id \in clients /\ PeerSound(p) /\ IsPeer(p) /\ Framed(p) /\ Told(p)
      /\ ~ p.has_header /\ (p.arrived # 0 => p.inq # <<>>)
  BY <1>1, AtGoodClient DEF PlaceOK
<1>3. Len(p.req_buf) \in Nat /\ LSP_MAX_BUFFER_SIZE \in Nat
      /\ p.req_buf \in Seq(Unit) /\ p.inq \in Seq(Unit)
  BY <1>2, Numbers DEF PeerSound
<1>4. CASE Len(p.req_buf) >= LSP_MAX_BUFFER_SIZE
  <2>1. Disconnects(id)
    BY <1>3, <1>4 DEF HandleHeader
  <2> QED
    BY <1>1, <1>2, <2>1, DropStep
<1>5. CASE Len(p.req_buf) < LSP_MAX_BUFFER_SIZE /\ p.arrived = 0
  <2>1. NoByte(id, p)
    BY <1>3, <1>5 DEF HandleHeader, KeptPlace
  <2> QED
    BY <1>1, <1>2, <2>1, NoByteStep
<1>6. CASE Len(p.req_buf) < LSP_MAX_BUFFER_SIZE /\ p.arrived # 0
  <2>1. /\ IF Last(q.req_buf).part = 0
           THEN \E n \in Lengths(q.req_buf) :
                  /\ peer' = [peer EXCEPT ![id] = HeaderRead(q, n)]
                  /\ poll' = [at |-> "content", id |-> id]
           ELSE peer' = [peer EXCEPT ![id] = q] /\ UNCHANGED poll
        /\ UNCHANGED <<clients, latest_client_id>>
    BY <1>3, <1>6 DEF HandleHeader
  <2>2. /\ IsPeer(q) /\ q.has_header = p.has_header
        /\ Len(q.req_buf) = Len(p.req_buf) + 1
        /\ q.req_buf[Len(p.req_buf) + 1] = x
    BY <1>2, <1>3, <1>6, BufferedUnits
  <2>3. Last(q.req_buf) = x
    BY <2>2 DEF Last
  <2>4. CASE x.part = 0
    <3> DEFINE n == x.m.content
               r == HeaderRead(q, n)
    <3>1. Lengths(q.req_buf) = {n} /\ Framed(r) /\ In(r) = In(p) /\ SameOut(r, p)
      BY <1>2, <1>6, <2>4, HeaderFramed
    <3>2. r.has_header = TRUE
      BY <2>2, Zenon DEF HeaderRead, IsPeer
    <3>3. peer' = [peer EXCEPT ![id] = r] /\ poll' = [at |-> "content", id |-> id]
      BY <2>1, <2>3, <2>4, <3>1
    <3> HIDE DEF r, q
    <3>4. Good(r) /\ poll'.id = id /\ PlaceOK(poll'.at, r)
      BY <1>2, <3>1, <3>2, <3>3, SameTold DEF Good, PlaceOK
    <3> QED
      BY <1>1, <1>2, <2>1, <3>1, <3>3, <3>4, ReadsOn
  <2>5. CASE x.part # 0
    <3>1. Framed(q) /\ In(q) = In(p) /\ SameOut(q, p)
      BY <1>2, <1>6, <2>5, BufferedFramed
    <3>2. peer' = [peer EXCEPT ![id] = q] /\ poll' = poll
      BY <2>1, <2>3, <2>5
    <3> HIDE DEF q
    <3>3. Good(q) /\ PlaceOK(poll.at, q)
      BY <1>1, <1>2, <2>2, <3>1, SameTold DEF Good, PlaceOK
    <3> QED
      BY <1>1, <1>2, <2>1, <3>1, <3>2, <3>3, ReadsOn
  <2> QED
    BY <2>4, <2>5
<1> QED
  BY <1>3, <1>4, <1>5, <1>6

LEMMA ContentStep ==
  ASSUME IInv, CInv, HandleContent
  PROVE  CInv' /\ ChannelStep
<1> DEFINE id == poll.id
           p == peer[id]
           q == Buffered(p)
<1>1. poll.at = "content" /\ UNCHANGED next_client_id /\ Len(p.req_buf) < p.content_length
  BY DEF HandleContent, At, Unpolled
<1>2. /\ id \in clients /\ PeerSound(p) /\ IsPeer(p) /\ Framed(p) /\ Told(p)
      /\ p.has_header /\ (p.arrived # 0 => p.inq # <<>>)
  BY <1>1, AtGoodClient DEF PlaceOK
<1>3. p.req_buf \in Seq(Unit) /\ p.inq \in Seq(Unit) /\ Len(p.req_buf) \in Nat
  BY <1>2 DEF PeerSound
<1>4. p.content_length \in 1..LSP_MAX_BUFFER_SIZE
  <2>1. Stream(AllOf(p)) /\ AllOf(p) # <<>> /\ p.content_length = AllOf(p)[1].m.content
    BY <1>2 DEF Framed
  <2>2. 1 \in 1..Len(AllOf(p))
    BY <2>1, EmptySeq DEF Stream
  <2> QED
    BY <2>1, <2>2 DEF Stream
<1>5. ~ (Len(p.req_buf) >= LSP_MAX_BUFFER_SIZE)
  BY <1>1, <1>3, <1>4, Numbers
<1>6. IF p.arrived = 0 THEN NoByte(id, p)
      ELSE peer' = [peer EXCEPT ![id] = q] /\ UNCHANGED <<clients, latest_client_id, poll>>
  BY <1>5 DEF HandleContent, KeptPlace
<1>7. CASE p.arrived = 0
  BY <1>1, <1>2, <1>6, <1>7, NoByteStep
<1>8. CASE p.arrived # 0
  <2>1. Framed(q) /\ In(q) = In(p) /\ SameOut(q, p)
    BY <1>1, <1>2, <1>8, BufferedFramed
  <2>2. q.has_header = p.has_header
    BY <1>2, <1>3, <1>8, BufferedUnits
  <2>3. peer' = [peer EXCEPT ![id] = q] /\ poll' = poll /\ clients' = clients
    BY <1>6, <1>8
  <2> HIDE DEF q
  <2>4. Good(q) /\ PlaceOK(poll.at, q)
    BY <1>1, <1>2, <2>1, <2>2, SameTold DEF Good, PlaceOK
  <2> QED
    BY <1>1, <1>2, <2>1, <2>3, <2>4, ReadsOn
<1> QED
  BY <1>7, <1>8

(* A message is served: the client's next one, and it is answered.         *)
LEMMA MessageStep ==
  ASSUME IInv, CInv, HandleMessage
  PROVE  CInv' /\ ChannelStep
<1> DEFINE id == poll.id
           p == peer[id]
           r == ReadyAgain(p)
           m == p.req_buf[1].m
           w == Handled(Greeted(ws, m), m)
           out == Replies(w, m)
           q == Queued(r, out)
<1>1. poll.at = "content" /\ UNCHANGED <<next_client_id, clients>>
      /\ Len(p.req_buf) >= p.content_length
  BY DEF HandleMessage, At, Unpolled
<1>2. /\ id \in clients /\ id \in Ids /\ IsPeer(p) /\ Framed(p) /\ Told(p) /\ p.has_header
  BY <1>1, AtGoodClient DEF PlaceOK
<1>3. /\ Whole(p.req_buf) /\ m \in MessageRecord
      /\ In(p) # <<>> /\ Head(In(p)) = m /\ In(r) = Tail(In(p))
      /\ IsPeer(r) /\ Framed(r) /\ SameOut(r, p)
  BY <1>1, <1>2, MessageFramed
<1>4. Sound(w)
  <2>1. Sound(ws) /\ DiskTyped
    BY DEF IInv
  <2>2. m.method \in Handlers /\ m.path \in PathSet /\ m.text \in Texts
    BY <1>3 DEF MessageRecord
  <2> HIDE DEF m
  <2>3. Sound(Greeted(ws, m))
    BY <2>1, GreetsSound
  <2> QED
    BY <2>1, <2>2, <2>3, Handles
<1>5. /\ peer' = [peer EXCEPT ![id] = q]
      /\ EntersHandleData(id, q) \/ poll' = Sending(id, q)
  BY <1>3 DEF HandleMessage
<1> HIDE DEF w, m
<1>6. out \in Seq(Said) /\ Channel!Answers(m, out)
  BY <1>3, <1>4, RepliesAnswer
<1> HIDE DEF r, out
<1>7. Told(r)
  BY <1>2, <1>3, SameTold
<1>8. Told(q) /\ SameIn(q, r) /\ q.res_queue = r.res_queue \o out /\ q.wrote = r.wrote
  BY <1>3, <1>6, <1>7, QueuedTold
<1> HIDE DEF q
<1>9. Good(q) /\ In(q) = Tail(In(p)) /\ q.res_queue = p.res_queue \o out /\ q.wrote = p.wrote
  BY <1>3, <1>8, SameFramed DEF Good, SameOut
<1>10. poll'.at \in {"idle", "visit"} \/ (poll'.id = id /\ PlaceOK(poll'.at, q))
  BY <1>5, EnteringPlace, SendingPlace
<1>11. CInv' /\ peer'[id] = q /\ \A j \in Ids \ {id} : peer'[j] = peer[j]
  BY <1>1, <1>2, <1>5, <1>9, <1>10, OneGood
<1>12. /\ Inbox[id] = In(p) /\ Inbox' = [Inbox EXCEPT ![id] = In(q)]
       /\ Outbox[id] = p.res_queue /\ Outbox'[id] = q.res_queue
       /\ Outbox' = [Outbox EXCEPT ![id] = q.res_queue]
  BY <1>1, <1>2, <1>11, OneClient
<1>13. HeardBy' = HeardBy
  BY <1>9, <1>11 DEF HeardBy
<1>14. /\ Channel!IsPrefix(p.res_queue, q.res_queue)
       /\ SubSeq(q.res_queue, Len(p.res_queue) + 1, Len(q.res_queue)) = out
  BY <1>2, <1>6, <1>9, Suffix DEF Told
<1>15. Channel!Serve(id)
  BY <1>1, <1>2, <1>3, <1>6, <1>9, <1>12, <1>13, <1>14 DEF Channel!Serve, HeardBy
<1> QED
  BY <1>2, <1>11, <1>15 DEF ChannelStep, Channel!Next

(* The socket takes a part: what is said is heard when its last unit is.   *)
LEMMA SendStep ==
  ASSUME IInv, CInv, SendData
  PROVE  CInv' /\ ChannelStep
<1> DEFINE id == poll.id
           p == peer[id]
           Left(k) == LET q == Put(p, k)
                      IN  IF q.res_sent >= OutUnits THEN Shifted(q) ELSE q
<1>1. poll.at = "send" /\ UNCHANGED next_client_id
  BY DEF SendData, At, Unpolled
<1>2. /\ id \in clients /\ id \in Ids /\ IsPeer(p) /\ Framed(p) /\ Told(p)
      /\ p.res_queue # <<>>
  BY <1>1, AtGoodClient DEF PlaceOK
<1>3. CASE p.up
  <2>1. PICK k \in 1..OutUnits - p.res_sent :
           peer' = [peer EXCEPT ![id] = Left(k)] /\ poll' = Sending(id, Left(k))
    BY <1>3 DEF SendData
  <2>2. clients' = clients
    BY <1>3 DEF SendData
  <2>3. PICK q : q = Left(k)
    OBVIOUS
  <2>4. /\ Told(q) /\ SameIn(q, p)
        /\ \/ q.res_queue = p.res_queue /\ Heard(q.wrote) = Heard(p.wrote)
           \/ /\ q.res_queue = Tail(p.res_queue)
              /\ Heard(q.wrote) = Append(Heard(p.wrote), Head(p.res_queue))
    BY <1>2, <2>3, PutTold
  <2> HIDE DEF Left
  <2>5. Good(q) /\ In(q) = In(p)
    BY <1>2, <2>4, SameFramed DEF Good
  <2>6. poll'.at \in {"idle", "visit"} \/ (poll'.id = id /\ PlaceOK(poll'.at, q))
    BY <2>1, <2>3, SendingPlace
  <2>7. CInv' /\ peer'[id] = q /\ \A j \in Ids \ {id} : peer'[j] = peer[j]
    BY <1>1, <1>2, <2>1, <2>3, <2>5, <2>6, OneGood
  <2>8. CASE q.res_queue = p.res_queue /\ Heard(q.wrote) = Heard(p.wrote)
    <3>1. \A j \in Ids : /\ In(peer'[j]) = In(peer[j])
                         /\ peer'[j].res_queue = peer[j].res_queue
                         /\ Heard(peer'[j].wrote) = Heard(peer[j].wrote)
      BY <2>5, <2>7, <2>8
    <3> QED
      BY <2>2, <2>7, <3>1, Unseen DEF ChannelStep
  <2>9. CASE /\ q.res_queue = Tail(p.res_queue)
             /\ Heard(q.wrote) = Append(Heard(p.wrote), Head(p.res_queue))
    <3>1. /\ Outbox[id] = p.res_queue
          /\ Outbox' = [Outbox EXCEPT ![id] = q.res_queue]
          /\ HeardBy[id] = Heard(p.wrote)
          /\ HeardBy' = [HeardBy EXCEPT ![id] = Heard(q.wrote)]
      BY <1>2, <2>2, <2>7, OneClient
    <3>2. Inbox' = Inbox
      BY <2>2, <2>5, <2>7 DEF Inbox, In, AllOf
    <3>3. Channel!Deliver(id)
      BY <1>2, <2>2, <2>9, <3>1, <3>2 DEF Channel!Deliver, HeardBy
    <3> QED
      BY <1>2, <2>7, <3>3 DEF ChannelStep, Channel!Next
  <2> QED
    BY <2>4, <2>8, <2>9
<1>4. CASE ~ p.up
  <2>1. Disconnects(id)
    BY <1>4 DEF SendData
  <2> QED
    BY <1>1, <1>2, <2>1, DropStep
<1> QED
  BY <1>3, <1>4

-----------------------------------------------------------------------------
(***************************************************************************)
(* The steps of the other ends and of the server.                          *)
(***************************************************************************)

(* A client sends a message: it is the last of its inbox.                  *)
LEMMA SubmitStep ==
  ASSUME IInv, CInv, ContentsFit, NEW id \in Ids, Submit(id)
  PROVE  CInv' /\ ChannelStep
<1> DEFINE M(t) == [n |-> Len(asked) + 1, method |-> t.method, path |-> t.path,
                    text |-> t.text, header |-> t.header, content |-> t.content]
           p == peer[id]
<1>1. PICK t \in Methods[id] : peer' = [peer EXCEPT ![id].inq = @ \o Units(M(t))]
  BY DEF Submit
<1>2. M(t) \in MessageRecord /\ M(t).content \in 1..LSP_MAX_BUFFER_SIZE
  BY ProtocolAssumption DEF MessageRecord, Template, AskedTyped, IInv, ContentsFit
<1>3. PICK m : m = M(t)
  OBVIOUS
<1> HIDE DEF M
<1>4. m \in MessageRecord /\ m.content \in 1..LSP_MAX_BUFFER_SIZE
  BY <1>2, <1>3
<1>5. PICK q : q = Sent(p, m)
  OBVIOUS
<1>6. peer' = [peer EXCEPT ![id] = q]
  BY <1>1, <1>3, <1>5 DEF Sent
<1>7. id \in clients /\ UNCHANGED <<clients, next_client_id, poll>>
  BY DEF Submit
<1>8. IsPeer(p) /\ Framed(p) /\ Told(p)
  BY DEF IInv, PeersSound, PeerSound, CInv, Good
<1>9. Framed(q) /\ SameOut(q, p) /\ In(q) = In(p) \o <<m>>
  BY <1>4, <1>5, <1>8, SentFramed
<1>10. q.has_header = p.has_header
  BY <1>5, <1>8, Zenon DEF Sent, IsPeer
<1>11. Good(q)
  BY <1>8, <1>9, SameTold DEF Good
<1>12. poll.at # "idle" /\ poll.id = id => PlaceOK(poll.at, q)
  BY <1>9, <1>10 DEF CInv, PlaceOK, SameOut
<1>13. CInv' /\ peer'[id] = q /\ \A j \in Ids \ {id} : peer'[j] = peer[j]
  BY <1>6, <1>7, <1>11, <1>12, OneGood
<1>14. /\ Inbox[id] = In(p) /\ Inbox'[id] = In(q)
       /\ Inbox' = [Inbox EXCEPT ![id] = In(q)]
  BY <1>7, <1>13, OneClient
<1>15. UNCHANGED <<Outbox, HeardBy>>
  BY <1>7, <1>9, <1>13 DEF Outbox, HeardBy, SameOut
<1>16. Channel!IsPrefix(In(p), In(q)) /\ Len(In(q)) = Len(In(p)) + 1
  <2>1. AllOf(p) \in Seq(Unit)
    BY <1>8 DEF Framed, Stream
  <2>2. In(p) \in Seq(MessageRecord) /\ <<m>> \in Seq(MessageRecord) /\ Len(<<m>>) = 1
    BY <1>4, <2>1, MessagesTyped DEF In
  <2> QED
    BY <1>9, <2>2, Suffix
<1>17. Channel!Submit(id)
  BY <1>7, <1>14, <1>15, <1>16 DEF Channel!Submit, HeardBy
<1> QED
  BY <1>13, <1>17 DEF ChannelStep, Channel!Next

(* The editor asks the latest client: one more thing is said to it.        *)
LEMMA RequestStep ==
  ASSUME IInv, CInv, EditorRequest
  PROVE  CInv' /\ ChannelStep
<1> DEFINE id == latest_client_id
           p == peer[id]
           e == [type |-> "applyEdit", about |-> "edit"]
           q == Queued(p, <<e>>)
<1>1. UNCHANGED <<clients, next_client_id, poll>>
  BY DEF EditorRequest
<1>2. CASE id \in clients
  <2>1. id \in Ids /\ IsPeer(p) /\ Framed(p) /\ Told(p)
    BY DEF IInv, ClientsSound, PeersSound, PeerSound, CInv, Good
  <2>2. e \in Said /\ <<e>> \in Seq(Said) /\ Len(<<e>>) = 1 /\ Channel!IsNote(e)
    BY DEF Said, Channel!IsNote
  <2>3. Append(p.res_queue, e) = p.res_queue \o <<e>>
    BY <2>1, <2>2, AppendIsConcat DEF Told
  <2>4. peer' = [peer EXCEPT ![id] = q]
    BY <1>2, <2>3 DEF EditorRequest, Queued
  <2>5. /\ Told(q) /\ SameIn(q, p) /\ q.res_queue = p.res_queue \o <<e>>
        /\ q.wrote = p.wrote
    BY <2>1, <2>2, QueuedTold
  <2> HIDE DEF q
  <2>6. Good(q) /\ In(q) = In(p)
    BY <2>1, <2>5, SameFramed DEF Good
  <2>7. PICK a, b : a = p.res_queue /\ b = q.res_queue
    OBVIOUS
  <2>8. a \in Seq(Said) /\ b = a \o <<e>>
    BY <2>1, <2>5, <2>7 DEF Told
  <2> HIDE DEF e
  <2>9. Channel!IsPrefix(a, b) /\ Len(b) = Len(a) + 1
    BY <2>2, <2>8, Suffix
  <2>10. Channel!Last(b) = e /\ b # <<>>
    <3>1. b \in Seq(Said) /\ b[Len(a) + 1] = e
      BY <2>2, <2>8, AppendIsConcat, AppendProperties
    <3>2. Len(a) \in Nat
      BY <2>8
    <3> QED
      BY <2>9, <3>1, <3>2 DEF Channel!Last
  <2>11. poll.at # "idle" /\ poll.id = id => PlaceOK(poll.at, q)
    BY <2>5, <2>7, <2>10 DEF CInv, PlaceOK, SameIn
  <2>12. CInv' /\ peer'[id] = q /\ \A j \in Ids \ {id} : peer'[j] = peer[j]
    BY <1>1, <1>2, <2>4, <2>6, <2>11, OneGood
  <2>13. /\ Outbox[id] = a /\ Outbox'[id] = b /\ Outbox' = [Outbox EXCEPT ![id] = b]
    BY <1>1, <1>2, <2>1, <2>7, <2>12, OneClient
  <2>14. UNCHANGED <<Inbox, HeardBy>>
    BY <1>1, <2>5, <2>6, <2>12 DEF Inbox, In, AllOf, HeardBy
  <2>15. Channel!Push(id)
    BY <1>1, <1>2, <2>2, <2>9, <2>10, <2>13, <2>14 DEF Channel!Push, HeardBy
  <2> QED
    BY <2>1, <2>12, <2>15 DEF ChannelStep, Channel!Next
<1>3. CASE id \notin clients
  <2>1. UNCHANGED peer
    BY <1>3 DEF EditorRequest
  <2>2. \A j \in Ids : Alike(peer'[j], peer[j])
    BY <2>1 DEF Alike, SameIn, SameOut
  <2> QED
    BY <1>1, <2>2, ElsewhereStutters
<1> QED
  BY <1>2, <1>3

(* A poll begins: a connection is taken from the server, or none.          *)
LEMMA PollBeginsStep ==
  ASSUME IInv, CInv, PollBegins
  PROVE  CInv' /\ ChannelStep
<1> DEFINE id == next_client_id
<1>1. /\ UNCHANGED peer /\ poll' = FirstOf(clients')
      /\ \/ clients' = clients /\ next_client_id' = id
         \/ clients' = clients \cup {id} /\ next_client_id' = id + 1 /\ pending > 0
  BY DEF PollBegins
<1>2. poll'.at \in {"idle", "visit"}
  BY <1>1, FirstPlace
<1>3. /\ id \in Nat /\ pending \in Nat /\ id + pending <= MaxConnections
      /\ clients \subseteq 0..id - 1 /\ MaxConnections \in Nat
  BY Numbers DEF IInv, ClientsSound
<1>4. CInv'
  <2>1. \A j \in Ids : j \notin 0..next_client_id' - 1 => j \notin 0..id - 1
    BY <1>1, <1>3
  <2>2. \A j \in Ids : j \notin 0..next_client_id' - 1 => Unused(peer'[j])
    BY <1>1, <2>1 DEF CInv
  <2> QED
    BY <1>1, <1>2, <2>2 DEF CInv, PlaceOK
<1>5. CASE clients' = clients
  BY <1>1, <1>4, <1>5, Unseen DEF ChannelStep
<1>6. CASE clients' = clients \cup {id} /\ pending > 0
  <2>1. id \in Ids /\ id \notin clients /\ id \notin 0..id - 1
    BY <1>3, <1>6 DEF Ids
  <2>2. Unused(peer[id])
    BY <2>1 DEF CInv
  <2>3. In(peer[id]) = <<>>
    <3>1. <<>> \in Seq(Unit) /\ <<>> \o <<>> = <<>> /\ Len(<<>>) = 0
      BY ConcatEmptySeq
    <3>2. AllOf(peer[id]) = <<>>
      BY <2>2, <3>1 DEF Unused, AllOf
    <3>3. PICK u : u = <<>>
      OBVIOUS
    <3>4. u \in Seq(Unit) /\ \A i \in 1..Len(u) : ~ IsLast(u[i])
      BY <3>1, <3>3
    <3>5. Messages(u) = <<>>
      BY <3>4, NoEnds
    <3> QED
      BY <3>2, <3>3, <3>5 DEF In
  <2>4. Inbox' = Inbox
    BY <1>1, <1>6, <2>1, <2>3 DEF Inbox, In, AllOf
  <2>5. Outbox' = Outbox
    BY <1>1, <1>6, <2>1, <2>2 DEF Outbox, Unused
  <2>6. HeardBy' = HeardBy
    BY <1>1 DEF HeardBy
  <2>7. Channel!Open(id)
    BY <1>6, <2>1, <2>4, <2>5, <2>6 DEF Channel!Open, HeardBy
  <2> QED
    BY <1>4, <2>1, <2>7 DEF ChannelStep, Channel!Next
<1> QED
  BY <1>1, <1>5, <1>6

(* A client closes, a byte comes or is read, the server stops or starts:   *)
(* no message is changed.                                                  *)
LEMMA OtherEndSteps ==
  ASSUME IInv, CInv, NEW id \in Ids, Arrive(id) \/ ClientReads(id) \/ ClientCloses(id)
  PROVE  CInv' /\ ChannelStep
<1>1. UNCHANGED <<clients, next_client_id, poll>>
  BY DEF Arrive, ClientReads, ClientCloses, ChangesPeer
<1>2. PICK q : /\ peer' = [peer EXCEPT ![id] = q]
               /\ q \in {Arrived(peer[id]), HasRead(peer[id]), HasClosed(peer[id])}
  BY Zenon DEF Arrive, ClientReads, ClientCloses, ChangesPeer, Arrived, HasRead, HasClosed
<1>3. IsPeer(peer[id]) /\ DOMAIN peer = Ids
  BY DEF IInv, PeersSound, PeerSound
<1>4. /\ Alike(Arrived(peer[id]), peer[id]) /\ Alike(HasRead(peer[id]), peer[id])
      /\ Alike(HasClosed(peer[id]), peer[id])
  BY <1>3, Zenon DEF Arrived, HasRead, HasClosed, Alike, SameIn, SameOut, IsPeer
<1>5. \A j \in Ids : Alike(peer'[j], peer[j])
  <2>1. peer'[id] = q /\ \A j \in Ids \ {id} : peer'[j] = peer[j]
    BY <1>2, <1>3
  <2> QED
    BY <1>2, <1>4, <2>1 DEF Alike, SameIn, SameOut
<1> QED
  BY <1>1, <1>5, ElsewhereStutters

LEMMA UntouchedStutters ==
  ASSUME IInv, CInv, UNCHANGED <<clients, next_client_id, poll, peer>>
  PROVE  CInv' /\ ChannelStep
<1>1. \A j \in Ids : Alike(peer'[j], peer[j])
  BY DEF Alike, SameIn, SameOut
<1> QED
  BY <1>1, ElsewhereStutters

LEMMA StopStep ==
  ASSUME IInv, CInv, NEW next, Stop(next) \/ StopsThen(next)
  PROVE  CInv' /\ ChannelStep
<1>1. UNCHANGED <<clients, next_client_id, poll>> /\ (UNCHANGED peer \/ peer' = Disconnected)
  BY DEF Stop, StopsThen, protocol_stop
<1>2. CASE UNCHANGED peer
  BY <1>1, <1>2, UntouchedStutters
<1>3. CASE peer' = Disconnected
  <2>1. \A j \in Ids : peer'[j] = peer[j] \/ peer'[j] = HasClosed(peer[j])
    BY <1>3 DEF Disconnected, HasClosed
  <2>2. \A j \in Ids : IsPeer(peer[j])
    BY DEF IInv, PeersSound, PeerSound
  <2>3. ASSUME NEW p, IsPeer(p) PROVE Alike(HasClosed(p), p)
    BY <2>3, Zenon DEF HasClosed, Alike, SameIn, SameOut, IsPeer
  <2>4. \A j \in Ids : Alike(peer'[j], peer[j])
    BY <2>1, <2>2, <2>3 DEF Alike, SameIn, SameOut
  <2> QED
    BY <1>1, <2>4, ElsewhereStutters
<1> QED
  BY <1>1, <1>2, <1>3

(* Whoever steps, each client sees its channel take a step or none.        *)
LEMMA NextChannel ==
  ASSUME ContentsFit, IInv, CInv, [Next]_vars
  PROVE  CInv' /\ ChannelStep
<1>1. CASE FirstStart
  BY <1>1, UntouchedStutters DEF FirstStart
<1>2. CASE Frame \/ ThreadPolls
  BY <1>2, PollBeginsStep DEF Frame, ThreadPolls
<1>3. CASE SettingsChange
  BY <1>3, StopStep DEF SettingsChange
<1>4. CASE ExitTree
  BY <1>4, StopStep DEF ExitTree
<1>5. CASE Joined
  BY <1>5, StopStep DEF Joined
<1>6. CASE ThreadEnds
  BY <1>6, UntouchedStutters DEF ThreadEnds, protocolVars
<1>7. CASE Polling
  BY <1>7, VisitStep, HeaderStep, ContentStep, MessageStep, SendStep DEF Polling, PollStep
<1>8. CASE Request
  BY <1>8, RequestStep DEF Request
<1>9. CASE Remote
  <2>1. CASE Connect
    BY <2>1, UntouchedStutters DEF Connect
  <2>2. ASSUME NEW id \in Ids, Submit(id) PROVE CInv' /\ ChannelStep
    BY <2>2, SubmitStep
  <2>3. ASSUME NEW id \in Ids, Arrive(id) \/ ClientReads(id) \/ ClientCloses(id)
        PROVE  CInv' /\ ChannelStep
    BY <2>3, OtherEndSteps
  <2> QED
    BY <1>9, <2>1, <2>2, <2>3 DEF Remote
<1>10. CASE Gone \/ UNCHANGED vars
  BY <1>10, UntouchedStutters DEF Gone, vars, protocolVars
<1> QED
  BY <1>1, <1>2, <1>3, <1>4, <1>5, <1>6, <1>7, <1>8, <1>9, <1>10 DEF Next

(* At first there is no client, and nothing was said.                      *)
LEMMA InitChannel ==
  ASSUME Init
  PROVE  CInv /\ Channel!Init
<1>1. /\ clients = {} /\ poll.at = "idle" /\ next_client_id = 0
      /\ \A id \in Ids : peer[id] = NewPeer
  BY DEF Init, ProtocolInit, Idle
<1>2. <<>> \in Seq(Unit) /\ <<>> \in Seq(Said) /\ <<>> \in Seq(Piece)
      /\ <<>> \o <<>> = <<>> /\ Len(<<>>) = 0
  BY ConcatEmptySeq
<1>3. Framed(NewPeer)
  <2>1. Stream(<<>>)
    <3>1. \A i \in 1..Len(<<>>) : FALSE
      BY <1>2
    <3>2. \A i \in 1..Len(<<>>) - 1 : FALSE
      BY <1>2
    <3> QED
      BY <1>2, <3>1, <3>2 DEF Stream
  <2>2. NewPeer.req_buf = <<>> /\ NewPeer.inq = <<>> /\ NewPeer.has_header = FALSE
    BY DEF NewPeer
  <2>3. AllOf(NewPeer) = <<>>
    BY <1>2, <2>2 DEF AllOf
  <2>4. \A i \in 1..Len(NewPeer.req_buf) : FALSE
    BY <1>2, <2>2
  <2> QED
    BY <1>2, <2>1, <2>2, <2>3, <2>4 DEF Framed
<1>4. Told(NewPeer) /\ Unused(NewPeer)
  BY <1>2 DEF Told, Unused, NewPeer, InOrder, OutUnits
<1>5. CInv
  BY <1>1, <1>3, <1>4 DEF CInv, Good
<1>6. Heard(NewPeer.wrote) = <<>>
  BY <1>2 DEF Heard, NewPeer, InOrder, OutUnits
<1>7. HeardBy = [id \in Ids |-> <<>>]
  BY <1>1, <1>6 DEF HeardBy
<1>8. Inbox = [id \in Ids |-> <<>>] /\ Outbox = [id \in Ids |-> <<>>]
  BY <1>1 DEF Inbox, Outbox
<1> QED
  BY <1>1, <1>5, <1>7, <1>8 DEF Channel!Init, HeardBy

(* The server implements RuztaLspChannel: a client's messages are served   *)
(* in the order it sent them and none twice; serving a request queues its  *)
(* one response last, for that client; what the client hears is whole and  *)
(* in order, whatever the cut of the bytes, the other clients, the threads *)
(* and the changes of settings, if every content fits the buffer           *)
(* (handle_data, send_data, poll, start and stop).                         *)
THEOREM ServesChannel == ASSUME ContentsFit PROVE Spec => ChannelSpec
<1>1. Init => CInv /\ Channel!Init
  BY InitChannel
<1>2. IInv /\ CInv /\ [Next]_vars => CInv' /\ [Channel!Next]_(Channel!vars)
  BY NextChannel DEF ChannelStep
<1> QED
  BY <1>1, <1>2, SpecIInv, PTL DEF Spec, ChannelSpec, Channel!Spec
=============================================================================
