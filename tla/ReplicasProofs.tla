--------------------------- MODULE ReplicasProofs ---------------------------
(* Proofs about Replicas: what goes through Redis reaches a connection at     *)
(* most once, in the order of its sender and, if nothing is lost, completely, *)
(* for any number of servers, clients, users and events.                      *)
EXTENDS Replicas, TLAPS

\* Every id that is somewhere belongs to an event, and the envelope says where
\* the event is from.
EventsInv ==
    /\ \A p \in Replica, g \in Goroutine : \A id \in pub[p][g] :
         id \in 1 .. Len(events) /\ Sender(events[id]) = <<p, g = "handler">>
    /\ \A p \in Replica : \A i \in DOMAIN inbox[p] :
         /\ inbox[p][i].id \in 1 .. Len(events)
         /\ inbox[p][i].origin = events[inbox[p][i].id].from
    /\ \A c \in Conn : \A i \in DOMAIN got[c] :
         got[c][i] \in 1 .. Len(events) /\ c \in Addressed(events[got[c][i]])
    /\ \A c \in Conn : at[c] = {} => got[c] = <<>> /\ due[c] = {}

\* Events of one sender move in order: a connection's are older than those in
\* its replica's inbox, and these are older than the one about to be published.
InboxOrder ==
    \A p \in Replica : \A i, j \in DOMAIN inbox[p] :
        i < j /\ Sender(events[inbox[p][i].id]) = Sender(events[inbox[p][j].id]) => inbox[p][i].id < inbox[p][j].id

PubAfterInbox ==
    \A p, q \in Replica, g \in Goroutine : \A id \in pub[q][g] : \A i \in DOMAIN inbox[p] :
        Sender(events[inbox[p][i].id]) = Sender(events[id]) => inbox[p][i].id < id

InboxAfterGot ==
    \A c \in Conn, p \in Replica : at[c] = {p} =>
        \A i \in DOMAIN got[c], j \in DOMAIN inbox[p] :
            inbox[p][j].origin # p /\ Sender(events[got[c][i]]) = Sender(events[inbox[p][j].id])
                => got[c][i] < inbox[p][j].id

PubAfterGot ==
    \A c \in Conn, p, q \in Replica, g \in Goroutine : at[c] = {p} /\ p # q =>
        \A id \in pub[q][g] : \A i \in DOMAIN got[c] :
            Sender(events[got[c][i]]) = Sender(events[id]) => got[c][i] < id

OrderInv == InOrder /\ InboxOrder /\ PubAfterInbox /\ InboxAfterGot /\ PubAfterGot

\* Until something is lost, what a connection is owed and does not have is on
\* its way from another replica to its own.
UnderWay(c, id) ==
    \E p \in Replica :
        /\ at[c] = {p} /\ events[id].from # p
        /\ \/ \E i \in DOMAIN inbox[p] : inbox[p][i].id = id
           \/ \E q \in Replica, g \in Goroutine : id \in pub[q][g]

HasGot(c, id) == \E i \in DOMAIN got[c] : got[c][i] = id

OwedInv ==
    ~ lost => \A c \in Conn : \A id \in due[c] :
        /\ id \in 1 .. Len(events) /\ c \in Addressed(events[id])
        /\ HasGot(c, id) \/ UnderWay(c, id)

IInv == TypeOK /\ EventsInv /\ OrderInv /\ OwedInv

-----------------------------------------------------------------------------
\* A goroutine is about to publish one event at most.
LEMMA PubShape ==
  ASSUME TypeOK, NEW p \in Replica, NEW g \in Goroutine
  PROVE  pub[p][g] \in {{}} \cup {{id} : id \in Id}
<1>1. pub \in [Replica -> [Goroutine -> {{}} \cup {{id} : id \in Id}]]
  BY DEF TypeOK
<1> QED
  BY <1>1

LEMMA Appended ==
  ASSUME NEW T, NEW s \in Seq(T), NEW x \in T
  PROVE  /\ Append(s, x) \in Seq(T)
         /\ Len(Append(s, x)) = Len(s) + 1
         /\ DOMAIN s = 1 .. Len(s) /\ DOMAIN Append(s, x) = 1 .. (Len(s) + 1)
         /\ \A i \in DOMAIN s : i \in DOMAIN Append(s, x) /\ Append(s, x)[i] = s[i]
         /\ Append(s, x)[Len(s) + 1] = x
         /\ \A i \in DOMAIN Append(s, x) : i \in DOMAIN s \/ i = Len(s) + 1
  OBVIOUS

LEMMA TailElements ==
  ASSUME NEW T, NEW s \in Seq(T), s # <<>>
  PROVE  /\ Tail(s) \in Seq(T)
         /\ DOMAIN s = 1 .. Len(s) /\ 1 \in DOMAIN s
         /\ Head(s) = s[1]
         /\ \A i \in DOMAIN Tail(s) : i \in Nat /\ i + 1 \in DOMAIN s /\ Tail(s)[i] = s[i + 1]
         /\ \A i \in DOMAIN s : i = 1 \/ (i - 1 \in DOMAIN Tail(s) /\ Tail(s)[i - 1] = s[i])
  OBVIOUS

\* The elements of a delivered-to connection's sequence are the old ones and,
\* after them, the new one.
LEMMA Delivered ==
  ASSUME NEW conns \in SUBSET Conn, NEW id \in Id, got \in [Conn -> Seq(Id)], Deliver(conns, id)
  PROVE  /\ got' \in [Conn -> Seq(Id)]
         /\ \A c \in Conn \ conns : got'[c] = got[c]
         /\ \A c \in conns :
              /\ DOMAIN got[c] = 1 .. Len(got[c]) /\ DOMAIN got'[c] = 1 .. (Len(got[c]) + 1)
              /\ \A i \in DOMAIN got[c] : i \in DOMAIN got'[c] /\ got'[c][i] = got[c][i]
              /\ got'[c][Len(got[c]) + 1] = id
              /\ \A i \in DOMAIN got'[c] : i \in DOMAIN got[c] \/ i = Len(got[c]) + 1
<1>1. got' = [c \in Conn |-> IF c \in conns THEN Append(got[c], id) ELSE got[c]]
  BY DEF Deliver
<1>2. \A c \in Conn : got[c] \in Seq(Id)
  OBVIOUS
<1>3. \A c \in conns : got'[c] = Append(got[c], id)
  BY <1>1
<1>4. \A c \in Conn \ conns : got'[c] = got[c]
  BY <1>1
<1>5. got' \in [Conn -> Seq(Id)]
  BY <1>1, <1>2
<1> QED
  BY <1>2, <1>3, <1>4, <1>5, Appended

\* An event keeps its number and its content.
LEMMA EventsGrow ==
  ASSUME TypeOK, NEW e \in Event, events' = Append(events, e)
  PROVE  /\ Len(events') = Len(events) + 1
         /\ events'[Len(events) + 1] = e
         /\ \A id \in 1 .. Len(events) : events'[id] = events[id] /\ id \in 1 .. Len(events')
  BY Appended DEF TypeOK

-----------------------------------------------------------------------------
LEMMA InitIInv == Init => IInv
<1> SUFFICES ASSUME Init PROVE IInv
  OBVIOUS
<1>1. TypeOK
  <2>1. /\ events \in Seq(Event) /\ Len(events) <= MaxEvents
        /\ inbox \in [Replica -> Seq(Envelope)] /\ got \in [Conn -> Seq(Id)]
    BY ReplicasAssumption DEF Init
  <2> QED
    BY <2>1 DEF Init, TypeOK
<1>2. EventsInv /\ OwedInv
  BY DEF Init, EventsInv, OwedInv
<1>3. OrderInv
  BY DEF Init, OrderInv, InOrder, InboxOrder, PubAfterInbox, InboxAfterGot, PubAfterGot
<1> QED
  BY <1>1, <1>2, <1>3 DEF IInv

LEMMA ConnectStep ==
  ASSUME IInv, NEW c \in Conn, NEW p \in Replica, Connect(c, p)
  PROVE  IInv'
<1>1. /\ UNCHANGED <<told, events, pub, inbox, got, due, lost>>
      /\ got[c] = <<>> /\ due[c] = {}
      /\ at'[c] = {p} /\ \A d \in Conn \ {c} : at'[d] = at[d]
  BY DEF IInv, TypeOK, EventsInv, Connect
<1>2. TypeOK'
  BY DEF IInv, TypeOK, Connect
<1>3. EventsInv'
  BY <1>1 DEF IInv, EventsInv, Sender, Addressed
<1>4. OrderInv'
  BY <1>1 DEF IInv, OrderInv, InOrder, InboxOrder, PubAfterInbox, InboxAfterGot, PubAfterGot, Sender
<1>5. OwedInv'
  BY <1>1 DEF IInv, OwedInv, Addressed, HasGot, UnderWay
<1> QED
  BY <1>2, <1>3, <1>4, <1>5 DEF IInv

LEMMA DisconnectStep ==
  ASSUME IInv, NEW c \in Conn, Disconnect(c)
  PROVE  IInv'
<1>1. /\ UNCHANGED <<told, events, pub, inbox, lost>>
      /\ at'[c] = {} /\ got'[c] = <<>> /\ due'[c] = {}
      /\ \A d \in Conn \ {c} : at'[d] = at[d] /\ got'[d] = got[d] /\ due'[d] = due[d]
  BY DEF IInv, TypeOK, Disconnect
<1>2. TypeOK'
  <2>1. got' \in [Conn -> Seq(Id)] /\ due' \in [Conn -> SUBSET Id]
    BY DEF IInv, TypeOK, Disconnect
  <2>2. at' \in [Conn -> {{}} \cup {{p} : p \in Replica}]
    BY DEF IInv, TypeOK, Disconnect
  <2> QED
    BY <1>1, <2>1, <2>2 DEF IInv, TypeOK
<1>3. EventsInv'
  BY <1>1 DEF IInv, EventsInv, Sender, Addressed
<1>4. OrderInv'
  BY <1>1 DEF IInv, OrderInv, InOrder, InboxOrder, PubAfterInbox, InboxAfterGot, PubAfterGot, Sender
<1>5. OwedInv'
  BY <1>1 DEF IInv, OwedInv, Addressed, HasGot, UnderWay
<1> QED
  BY <1>2, <1>3, <1>4, <1>5 DEF IInv

LEMMA RestartStep ==
  ASSUME IInv, NEW p \in Replica, Restart(p)
  PROVE  IInv'
<1>1. /\ events' = events
      /\ \A c \in Conn : at[c] = {p} => at'[c] = {} /\ got'[c] = <<>> /\ due'[c] = {}
      /\ \A c \in Conn : at[c] # {p} => at'[c] = at[c] /\ got'[c] = got[c] /\ due'[c] = due[c]
      /\ \A g \in Goroutine : pub'[p][g] = {}
      /\ \A q \in Replica \ {p} : pub'[q] = pub[q] /\ inbox'[q] = inbox[q]
      /\ inbox'[p] = <<>>
  <2>1. \A c \in Conn : at[c] = {} \/ \E q \in Replica : at[c] = {q}
    BY DEF IInv, TypeOK
  <2>2. \A c \in Conn : at'[c] = at[c] \ {p}
    BY DEF Restart
  <2>3. \A c \in Conn : at[c] = {p} => at'[c] = {}
    BY <2>2
  <2>4. \A c \in Conn : at[c] # {p} => at'[c] = at[c]
    BY <2>1, <2>2
  <2>5. \A c \in Conn : at[c] = {p} => got'[c] = <<>> /\ due'[c] = {}
    BY DEF Restart, Local
  <2>6. \A c \in Conn : at[c] # {p} => got'[c] = got[c] /\ due'[c] = due[c]
    BY DEF Restart, Local
  <2>7. /\ events' = events
        /\ \A g \in Goroutine : pub'[p][g] = {}
        /\ \A q \in Replica \ {p} : pub'[q] = pub[q] /\ inbox'[q] = inbox[q]
        /\ inbox'[p] = <<>>
    BY DEF IInv, TypeOK, Restart
  <2> QED
    BY <2>3, <2>4, <2>5, <2>6, <2>7
<1>2. TypeOK'
  <2>1. got' \in [Conn -> Seq(Id)] /\ due' \in [Conn -> SUBSET Id]
    BY DEF IInv, TypeOK, Restart
  <2>2. inbox' \in [Replica -> Seq(Envelope)]
    BY DEF IInv, TypeOK, Restart
  <2>3. at' \in [Conn -> {{}} \cup {{q} : q \in Replica}]
    <3>1. at' = [c \in Conn |-> at'[c]]
      BY DEF Restart
    <3>2. \A c \in Conn : at'[c] = at[c] \/ at'[c] = {}
      BY <1>1
    <3> QED
      BY <3>1, <3>2 DEF IInv, TypeOK
  <2>4. pub' \in [Replica -> [Goroutine -> {{}} \cup {{id} : id \in Id}]]
    BY DEF IInv, TypeOK, Restart
  <2>5. told' \in [Replica -> SUBSET User] /\ lost' \in BOOLEAN
    BY DEF IInv, TypeOK, Restart
  <2> QED
    BY <1>1, <2>1, <2>2, <2>3, <2>4, <2>5 DEF IInv, TypeOK
<1>3. EventsInv'
  BY <1>1 DEF IInv, EventsInv, Sender, Addressed
<1>4. OrderInv'
  BY <1>1 DEF IInv, OrderInv, InOrder, InboxOrder, PubAfterInbox, InboxAfterGot, PubAfterGot, Sender
<1>5. OwedInv'
  <2> SUFFICES ASSUME ~ lost' PROVE OwedInv'
    BY DEF OwedInv
  <2>1. ~ lost /\ \A g \in Goroutine : pub[p][g] = {}
    BY DEF Restart
  <2> QED
    BY <1>1, <2>1 DEF IInv, OwedInv, Addressed, HasGot, UnderWay
<1> QED
  BY <1>2, <1>3, <1>4, <1>5 DEF IInv

-----------------------------------------------------------------------------
\* The number of the next event, and who gets it at once.
New == Len(events) + 1
Receivers(p, e) == Addressed(e) \cap Local(p)

\* What Originate does, place by place.
LEMMA OriginateFacts ==
  ASSUME IInv, NEW p \in Replica, NEW g \in Goroutine, NEW e \in Event, Originate(p, g, e)
  PROVE  /\ New \in Id /\ Len(events) \in Nat
         /\ /\ Len(events') = New /\ events'[New] = e
            /\ \A id \in 1 .. Len(events) : events'[id] = events[id] /\ id \in 1 .. New
         /\ /\ got' \in [Conn -> Seq(Id)]
            /\ \A c \in Conn \ Receivers(p, e) : got'[c] = got[c]
            /\ \A c \in Receivers(p, e) :
                 /\ DOMAIN got[c] = 1 .. Len(got[c]) /\ DOMAIN got'[c] = 1 .. (Len(got[c]) + 1)
                 /\ \A i \in DOMAIN got[c] : i \in DOMAIN got'[c] /\ got'[c][i] = got[c][i]
                 /\ got'[c][Len(got[c]) + 1] = New
                 /\ \A i \in DOMAIN got'[c] : i \in DOMAIN got[c] \/ i = Len(got[c]) + 1
         /\ /\ pub'[p][g] = {New}
            /\ \A q \in Replica, h \in Goroutine : q # p \/ h # g => pub'[q][h] = pub[q][h]
<1>1. /\ pub[p][g] = {}
      /\ events' = Append(events, e)
      /\ Deliver(Receivers(p, e), New)
      /\ pub' = [pub EXCEPT ![p][g] = {New}]
      /\ due' = [c \in Conn |-> IF c \in Addressed(e) /\ at[c] # {} THEN due[c] \cup {New} ELSE due[c]]
      /\ UNCHANGED <<at, told, inbox, lost>>
      /\ New \in Id /\ Len(events) \in Nat
  BY ReplicasAssumption DEF IInv, TypeOK, Originate, Id, New, Receivers
<1>2. /\ Len(events') = New /\ events'[New] = e
      /\ \A id \in 1 .. Len(events) : events'[id] = events[id] /\ id \in 1 .. New
  BY <1>1, EventsGrow DEF IInv, New
<1>3. /\ got' \in [Conn -> Seq(Id)]
      /\ \A c \in Conn \ Receivers(p, e) : got'[c] = got[c]
      /\ \A c \in Receivers(p, e) :
           /\ DOMAIN got[c] = 1 .. Len(got[c]) /\ DOMAIN got'[c] = 1 .. (Len(got[c]) + 1)
           /\ \A i \in DOMAIN got[c] : i \in DOMAIN got'[c] /\ got'[c][i] = got[c][i]
           /\ got'[c][Len(got[c]) + 1] = New
           /\ \A i \in DOMAIN got'[c] : i \in DOMAIN got[c] \/ i = Len(got[c]) + 1
  <2>1. Receivers(p, e) \in SUBSET Conn
    BY DEF Receivers, Addressed
  <2> QED
    BY <1>1, <2>1, Delivered DEF IInv, TypeOK
<1>4. /\ pub'[p][g] = {New}
      /\ \A q \in Replica, h \in Goroutine : q # p \/ h # g => pub'[q][h] = pub[q][h]
  BY <1>1 DEF IInv, TypeOK
<1> QED
  BY <1>1, <1>2, <1>3, <1>4

\* A new event has the highest number, so it comes last wherever it goes.
LEMMA OriginateStep ==
  ASSUME IInv, NEW p \in Replica, NEW g \in Goroutine, NEW e \in Event, Originate(p, g, e),
         e.from = p, (e.kind = "message") = (g = "handler")
  PROVE  IInv'
<1>1. /\ pub[p][g] = {}
      /\ events' = Append(events, e)
      /\ Deliver(Receivers(p, e), New)
      /\ pub' = [pub EXCEPT ![p][g] = {New}]
      /\ due' = [c \in Conn |-> IF c \in Addressed(e) /\ at[c] # {} THEN due[c] \cup {New} ELSE due[c]]
      /\ UNCHANGED <<at, told, inbox, lost>>
      /\ New \in Id /\ Len(events) \in Nat
  BY ReplicasAssumption DEF IInv, TypeOK, Originate, Id, New, Receivers
<1>2. /\ Len(events') = New /\ events'[New] = e
      /\ \A id \in 1 .. Len(events) : events'[id] = events[id] /\ id \in 1 .. New
  BY OriginateFacts
<1>3. /\ got' \in [Conn -> Seq(Id)]
      /\ \A c \in Conn \ Receivers(p, e) : got'[c] = got[c]
      /\ \A c \in Receivers(p, e) :
           /\ DOMAIN got[c] = 1 .. Len(got[c]) /\ DOMAIN got'[c] = 1 .. (Len(got[c]) + 1)
           /\ \A i \in DOMAIN got[c] : i \in DOMAIN got'[c] /\ got'[c][i] = got[c][i]
           /\ got'[c][Len(got[c]) + 1] = New
           /\ \A i \in DOMAIN got'[c] : i \in DOMAIN got[c] \/ i = Len(got[c]) + 1
  BY OriginateFacts
<1>4. /\ pub'[p][g] = {New}
      /\ \A q \in Replica, h \in Goroutine : q # p \/ h # g => pub'[q][h] = pub[q][h]
  BY OriginateFacts
<1>5. TypeOK'
  <2>1. events' \in Seq(Event) /\ Len(events') <= MaxEvents
    BY <1>1, <1>2, Appended, ReplicasAssumption DEF IInv, TypeOK, Id
  <2>2. pub' \in [Replica -> [Goroutine -> {{}} \cup {{id} : id \in Id}]]
    BY <1>1 DEF IInv, TypeOK
  <2>3. due' \in [Conn -> SUBSET Id]
    BY <1>1 DEF IInv, TypeOK
  <2> QED
    BY <1>1, <1>3, <2>1, <2>2, <2>3 DEF IInv, TypeOK
<1>6. \A id \in 1 .. Len(events) : Sender(events'[id]) = Sender(events[id])
  BY <1>2 DEF Sender
<1>7. Sender(events'[New]) = <<p, g = "handler">>
  BY <1>2 DEF Sender
<1>8. EventsInv'
  <2>1. \A q \in Replica, h \in Goroutine : \A id \in pub'[q][h] :
          id \in 1 .. Len(events') /\ Sender(events'[id]) = <<q, h = "handler">>
    BY <1>1, <1>2, <1>4, <1>6, <1>7 DEF IInv, EventsInv, New
  <2>2. \A q \in Replica : \A i \in DOMAIN inbox'[q] :
          /\ inbox'[q][i].id \in 1 .. Len(events')
          /\ inbox'[q][i].origin = events'[inbox'[q][i].id].from
    BY <1>1, <1>2 DEF IInv, EventsInv
  <2>3. \A c \in Conn : \A i \in DOMAIN got'[c] :
          got'[c][i] \in 1 .. Len(events') /\ c \in Addressed(events'[got'[c][i]])
    BY <1>1, <1>2, <1>3 DEF IInv, EventsInv, New, Receivers
  <2>4. \A c \in Conn : at'[c] = {} => got'[c] = <<>> /\ due'[c] = {}
    BY <1>1, <1>3 DEF IInv, EventsInv, Local, Receivers
  <2> QED
    BY <2>1, <2>2, <2>3, <2>4 DEF EventsInv, Addressed
<1>9. OrderInv'
  <2>1. InOrder'
    <3> SUFFICES ASSUME NEW c \in Conn, NEW i \in DOMAIN got'[c], NEW j \in DOMAIN got'[c],
                        i < j, Sender(events'[got'[c][i]]) = Sender(events'[got'[c][j]])
                 PROVE  got'[c][i] < got'[c][j]
      BY DEF InOrder, Sender
    <3>1. CASE c \notin Receivers(p, e)
      BY <1>3, <1>6, <3>1 DEF IInv, EventsInv, OrderInv, InOrder
    <3>2. CASE c \in Receivers(p, e) /\ j \in DOMAIN got[c]
      <4>1. i \in DOMAIN got[c]
        BY <1>3, <3>2
      <4> QED
        BY <1>3, <1>6, <3>2, <4>1 DEF IInv, EventsInv, OrderInv, InOrder
    <3>3. CASE c \in Receivers(p, e) /\ j = Len(got[c]) + 1
      <4>1. i \in DOMAIN got[c] /\ got'[c][j] = New
        BY <1>3, <3>3
      <4> QED
        BY <1>1, <1>3, <3>3, <4>1 DEF IInv, EventsInv, New
    <3> QED
      BY <1>3, <3>1, <3>2, <3>3
  <2>2. InboxOrder'
    BY <1>1, <1>6 DEF IInv, EventsInv, OrderInv, InboxOrder, Sender
  <2>3. PubAfterInbox'
    BY <1>1, <1>2, <1>4, <1>6 DEF IInv, EventsInv, OrderInv, PubAfterInbox, New, Sender
  <2>4. InboxAfterGot'
    <3> SUFFICES ASSUME NEW c \in Conn, NEW q \in Replica, at[c] = {q},
                        NEW i \in DOMAIN got'[c], NEW j \in DOMAIN inbox[q],
                        inbox[q][j].origin # q,
                        Sender(events'[got'[c][i]]) = Sender(events'[inbox[q][j].id])
                 PROVE  got'[c][i] < inbox[q][j].id
      BY <1>1 DEF InboxAfterGot, Sender
    <3>1. inbox[q][j].id \in 1 .. Len(events) /\ inbox[q][j].origin = events[inbox[q][j].id].from
      BY DEF IInv, EventsInv
    <3>2. CASE i \in DOMAIN got[c] /\ got'[c][i] = got[c][i]
      BY <1>6, <3>1, <3>2 DEF IInv, EventsInv, OrderInv, InboxAfterGot
    <3>3. CASE c \in Receivers(p, e) /\ got'[c][i] = New
      <4>1. q = p
        BY <3>3 DEF Receivers, Local
      <4> QED
        BY <1>6, <1>7, <3>1, <3>3, <4>1 DEF Sender
    <3> QED
      BY <1>3, <3>2, <3>3
  <2>5. PubAfterGot'
    <3> SUFFICES ASSUME NEW c \in Conn, NEW r \in Replica, NEW q \in Replica, NEW h \in Goroutine,
                        at[c] = {r}, r # q, NEW id \in pub'[q][h], NEW i \in DOMAIN got'[c],
                        Sender(events'[got'[c][i]]) = Sender(events'[id])
                 PROVE  got'[c][i] < id
      BY <1>1 DEF PubAfterGot, Sender
    <3>1. CASE c \in Receivers(p, e) /\ got'[c][i] = New
      <4>1. r = p
        BY <3>1 DEF Receivers, Local
      <4>2. id \in 1 .. Len(events) /\ Sender(events[id]) = <<q, h = "handler">>
        BY <1>4, <4>1 DEF IInv, EventsInv
      <4> QED
        BY <1>6, <1>7, <3>1, <4>1, <4>2
    <3>2. CASE i \in DOMAIN got[c] /\ got'[c][i] = got[c][i]
      <4>1. got[c][i] \in 1 .. Len(events)
        BY <3>2 DEF IInv, EventsInv
      <4>2. CASE id = New
        BY <1>1, <3>2, <4>1, <4>2 DEF New
      <4>3. CASE id \in pub[q][h]
        BY <1>6, <3>2, <4>1, <4>3 DEF IInv, EventsInv, OrderInv, PubAfterGot
      <4> QED
        BY <1>4, <4>2, <4>3
    <3> QED
      BY <1>3, <3>1, <3>2
  <2> QED
    BY <2>1, <2>2, <2>3, <2>4, <2>5 DEF OrderInv
<1>10. OwedInv'
  <2> SUFFICES ASSUME ~ lost, NEW c \in Conn, NEW id \in due'[c]
               PROVE  /\ id \in 1 .. Len(events') /\ c \in Addressed(events'[id])
                      /\ HasGot(c, id)' \/ UnderWay(c, id)'
    BY <1>1 DEF OwedInv, Addressed
  <2>1. CASE id \in due[c]
    <3>1. id \in 1 .. Len(events) /\ c \in Addressed(events[id]) /\ (HasGot(c, id) \/ UnderWay(c, id))
      BY <2>1 DEF IInv, OwedInv
    <3>2. HasGot(c, id) => HasGot(c, id)'
      BY <1>3 DEF HasGot
    <3>3. UnderWay(c, id) => UnderWay(c, id)'
      BY <1>1, <1>2, <1>4, <3>1 DEF UnderWay
    <3> QED
      BY <1>2, <3>1, <3>2, <3>3
  <2>2. CASE id = New /\ c \in Addressed(e) /\ at[c] # {}
    <3>1. PICK q \in Replica : at[c] = {q}
      BY <2>2 DEF IInv, TypeOK
    <3>2. ASSUME q = p PROVE HasGot(c, id)'
      <4>1. c \in Receivers(p, e)
        BY <2>2, <3>1, <3>2 DEF Receivers, Local
      <4>2. Len(got[c]) \in Nat
        BY DEF IInv, TypeOK
      <4>3. Len(got[c]) + 1 \in DOMAIN got'[c] /\ got'[c][Len(got[c]) + 1] = New
        BY <1>3, <4>1, <4>2
      <4> QED
        BY <2>2, <4>3 DEF HasGot
    <3>3. ASSUME q # p PROVE UnderWay(c, id)'
      BY <1>1, <1>2, <1>4, <2>2, <3>1, <3>3 DEF UnderWay
    <3>4. New \in 1 .. Len(events') /\ events'[New] = e
      BY <1>1, <1>2 DEF New
    <3> QED
      BY <2>2, <3>2, <3>3, <3>4
  <2> QED
    BY <1>1, <2>1, <2>2
<1> QED
  BY <1>5, <1>8, <1>9, <1>10 DEF IInv

-----------------------------------------------------------------------------
\* What is published goes to the end of the inboxes that get it.
LEMMA PublishStep ==
  ASSUME IInv, NEW p \in Replica, NEW g \in Goroutine, Publish(p, g)
  PROVE  IInv'
<1>1. PICK id \in pub[p][g], receivers \in SUBSET Replica :
        /\ ToRedis(p, id, receivers)
        /\ lost' = (lost \/ receivers # Replica)
        /\ pub' = [pub EXCEPT ![p][g] = @ \ {id}]
  BY DEF Publish
<1> DEFINE m == [origin |-> p, id |-> id]
<1>2. /\ UNCHANGED <<at, events, got, due>>
      /\ told' = IF g = "hub" THEN [told EXCEPT ![p] = Online(p)] ELSE told
  BY DEF Publish
<1>3. id \in Id /\ m \in Envelope /\ m.id = id /\ m.origin = p
  <2>1. pub[p][g] \in {{}} \cup {{i} : i \in Id}
    BY PubShape DEF IInv
  <2>2. id \in Id
    BY <2>1
  <2> QED
    BY <2>2 DEF Envelope
<1>4. /\ id \in 1 .. Len(events) /\ Sender(events[id]) = <<p, g = "handler">>
      /\ events[id].from = p
  BY DEF IInv, EventsInv, Sender
<1> HIDE DEF m
<1>5. /\ \A q \in Replica \ receivers : inbox'[q] = inbox[q]
      /\ \A q \in receivers :
           /\ DOMAIN inbox[q] = 1 .. Len(inbox[q]) /\ DOMAIN inbox'[q] = 1 .. (Len(inbox[q]) + 1)
           /\ \A i \in DOMAIN inbox[q] : i \in DOMAIN inbox'[q] /\ inbox'[q][i] = inbox[q][i]
           /\ inbox'[q][Len(inbox[q]) + 1] = m
           /\ \A i \in DOMAIN inbox'[q] : i \in DOMAIN inbox[q] \/ i = Len(inbox[q]) + 1
      /\ inbox' \in [Replica -> Seq(Envelope)]
  <2>1. \A q \in Replica : inbox[q] \in Seq(Envelope)
    BY DEF IInv, TypeOK
  <2>2. inbox' = [q \in Replica |-> IF q \in receivers THEN Append(inbox[q], m) ELSE inbox[q]]
    BY <1>1 DEF ToRedis, m
  <2>3. \A q \in receivers : inbox'[q] = Append(inbox[q], m)
    BY <2>2
  <2>4. \A q \in Replica \ receivers : inbox'[q] = inbox[q]
    BY <2>2
  <2>5. inbox' \in [Replica -> Seq(Envelope)]
    BY <1>3, <2>1, <2>2
  <2> QED
    BY <1>3, <2>1, <2>3, <2>4, <2>5, Appended
<1>6. \A q \in Replica : \A i \in DOMAIN inbox'[q] :
        \/ i \in DOMAIN inbox[q] /\ inbox'[q][i] = inbox[q][i]
        \/ q \in receivers /\ i = Len(inbox[q]) + 1 /\ inbox'[q][i] = m
  BY <1>5
<1>7. /\ pub'[p][g] = pub[p][g] \ {id} /\ pub[p][g] = {id}
      /\ \A q \in Replica, h \in Goroutine : q # p \/ h # g => pub'[q][h] = pub[q][h]
  BY <1>1 DEF IInv, TypeOK
<1>8. TypeOK'
  <2>1. told' \in [Replica -> SUBSET User]
    <3>1. Online(p) \in SUBSET User
      BY ReplicasAssumption DEF Online, Local
    <3> QED
      BY <1>2, <3>1 DEF IInv, TypeOK
  <2>2. pub' \in [Replica -> [Goroutine -> {{}} \cup {{i} : i \in Id}]]
    <3>1. pub' = [pub EXCEPT ![p][g] = {}]
      BY <1>1, <1>7
    <3> QED
      BY <3>1 DEF IInv, TypeOK
  <2>3. lost' \in BOOLEAN
    BY <1>1
  <2> QED
    BY <1>2, <1>5, <2>1, <2>2, <2>3 DEF IInv, TypeOK
<1>9. EventsInv'
  <2>1. \A q \in Replica, h \in Goroutine : \A i \in pub'[q][h] :
          i \in 1 .. Len(events) /\ Sender(events[i]) = <<q, h = "handler">>
    BY <1>7 DEF IInv, EventsInv
  <2>2. \A q \in Replica : \A i \in DOMAIN inbox'[q] :
          /\ inbox'[q][i].id \in 1 .. Len(events)
          /\ inbox'[q][i].origin = events[inbox'[q][i].id].from
    BY <1>3, <1>4, <1>6 DEF IInv, EventsInv
  <2> QED
    BY <1>2, <2>1, <2>2 DEF IInv, EventsInv, Addressed
<1>10. OrderInv'
  <2>1. InOrder'
    BY <1>2 DEF IInv, OrderInv, InOrder
  <2>2. InboxOrder'
    <3> SUFFICES ASSUME NEW q \in Replica, NEW i \in DOMAIN inbox'[q], NEW j \in DOMAIN inbox'[q],
                        i < j,
                        Sender(events[inbox'[q][i].id]) = Sender(events[inbox'[q][j].id])
                 PROVE  inbox'[q][i].id < inbox'[q][j].id
      BY <1>2 DEF InboxOrder
    <3>1. CASE j \in DOMAIN inbox[q] /\ inbox'[q][j] = inbox[q][j]
      <4>1. Len(inbox[q]) \in Nat /\ DOMAIN inbox[q] = 1 .. Len(inbox[q])
        BY DEF IInv, TypeOK
      <4>2. i \in DOMAIN inbox[q] /\ inbox'[q][i] = inbox[q][i]
        BY <1>6, <3>1, <4>1
      <4> QED
        BY <3>1, <4>2 DEF IInv, OrderInv, InboxOrder
    <3>2. CASE j = Len(inbox[q]) + 1 /\ inbox'[q][j] = m
      <4>1. i \in DOMAIN inbox[q] /\ inbox'[q][i] = inbox[q][i]
        <5>1. i # j
          BY <3>2 DEF IInv, TypeOK
        <5> QED
          BY <1>6, <3>2, <5>1
      <4> QED
        BY <1>3, <3>2, <4>1 DEF IInv, OrderInv, PubAfterInbox
    <3> QED
      BY <1>6, <3>1, <3>2
  <2>3. PubAfterInbox'
    <3> SUFFICES ASSUME NEW q \in Replica, NEW r \in Replica, NEW h \in Goroutine,
                        NEW k \in pub'[r][h], NEW i \in DOMAIN inbox'[q],
                        Sender(events[inbox'[q][i].id]) = Sender(events[k])
                 PROVE  inbox'[q][i].id < k
      BY <1>2 DEF PubAfterInbox
    <3>1. (r # p \/ h # g) /\ k \in pub[r][h] /\ Sender(events[k]) = <<r, h = "handler">>
      BY <1>7 DEF IInv, EventsInv
    <3>2. inbox'[q][i] # m
      BY <1>3, <1>4, <3>1 DEF Goroutine
    <3> QED
      BY <1>6, <3>1, <3>2 DEF IInv, OrderInv, PubAfterInbox
  <2>4. InboxAfterGot'
    <3> SUFFICES ASSUME NEW c \in Conn, NEW q \in Replica, at[c] = {q},
                        NEW i \in DOMAIN got[c], NEW j \in DOMAIN inbox'[q],
                        inbox'[q][j].origin # q,
                        Sender(events[got[c][i]]) = Sender(events[inbox'[q][j].id])
                 PROVE  got[c][i] < inbox'[q][j].id
      BY <1>2 DEF InboxAfterGot
    <3>1. CASE inbox'[q][j] = m
      BY <1>3, <3>1 DEF IInv, OrderInv, PubAfterGot
    <3>2. CASE j \in DOMAIN inbox[q] /\ inbox'[q][j] = inbox[q][j]
      BY <3>2 DEF IInv, OrderInv, InboxAfterGot
    <3> QED
      BY <1>6, <3>1, <3>2
  <2>5. PubAfterGot'
    <3>1. \A q \in Replica, h \in Goroutine : pub'[q][h] \subseteq pub[q][h]
      BY <1>7
    <3> QED
      BY <1>2, <3>1 DEF IInv, OrderInv, PubAfterGot
  <2> QED
    BY <2>1, <2>2, <2>3, <2>4, <2>5 DEF OrderInv
<1>11. OwedInv'
  <2> SUFFICES ASSUME ~ lost', NEW c \in Conn, NEW k \in due[c]
               PROVE  /\ k \in 1 .. Len(events) /\ c \in Addressed(events[k])
                      /\ HasGot(c, k)' \/ UnderWay(c, k)'
    BY <1>2 DEF OwedInv, Addressed
  <2>1. ~ lost /\ receivers = Replica
    BY <1>1 DEF IInv, TypeOK
  <2>2. /\ k \in 1 .. Len(events) /\ c \in Addressed(events[k])
        /\ HasGot(c, k) \/ UnderWay(c, k)
    BY <2>1 DEF IInv, OwedInv
  <2>3. HasGot(c, k) => HasGot(c, k)'
    BY <1>2 DEF HasGot
  <2>4. ASSUME UnderWay(c, k) PROVE UnderWay(c, k)'
    <3>1. PICK q \in Replica : /\ at[c] = {q} /\ events[k].from # q
                               /\ \/ \E i \in DOMAIN inbox[q] : inbox[q][i].id = k
                                  \/ \E r \in Replica, h \in Goroutine : k \in pub[r][h]
      BY <2>4 DEF UnderWay
    <3>2. CASE \E i \in DOMAIN inbox[q] : inbox[q][i].id = k
      BY <1>2, <1>5, <2>1, <3>1, <3>2 DEF UnderWay
    <3>3. CASE k = id
      <4>1. Len(inbox[q]) + 1 \in DOMAIN inbox'[q] /\ inbox'[q][Len(inbox[q]) + 1].id = k
        BY <1>3, <1>5, <2>1, <3>3 DEF IInv, TypeOK
      <4> QED
        BY <1>2, <3>1, <4>1 DEF UnderWay
    <3>4. CASE k # id /\ \E r \in Replica, h \in Goroutine : k \in pub[r][h]
      BY <1>2, <1>7, <3>1, <3>4 DEF UnderWay
    <3> QED
      BY <3>1, <3>2, <3>3, <3>4
  <2> QED
    BY <2>2, <2>3, <2>4
<1> QED
  BY <1>8, <1>9, <1>10, <1>11 DEF IInv

\* The head of an inbox comes after all that its addressees have of its sender.
LEMMA HandleMessageStep ==
  ASSUME IInv, NEW p \in Replica, HandleMessage(p)
  PROVE  IInv'
<1> DEFINE m == Head(inbox[p])
           conns == IF m.origin = p THEN {} ELSE Addressed(events[m.id]) \cap Local(p)
<1>1. /\ inbox[p] # <<>> /\ inbox[p] \in Seq(Envelope)
      /\ UNCHANGED <<at, told, events, pub, due, lost>>
      /\ inbox'[p] = Tail(inbox[p])
      /\ \A q \in Replica \ {p} : inbox'[q] = inbox[q]
  BY DEF IInv, TypeOK, HandleMessage
<1>2. /\ inbox'[p] \in Seq(Envelope)
      /\ 1 \in DOMAIN inbox[p] /\ m = inbox[p][1]
      /\ \A i \in DOMAIN inbox'[p] : i \in Nat /\ i + 1 \in DOMAIN inbox[p] /\ inbox'[p][i] = inbox[p][i + 1]
      /\ \A i \in DOMAIN inbox[p] : i = 1 \/ (i - 1 \in DOMAIN inbox'[p] /\ inbox'[p][i - 1] = inbox[p][i])
      /\ DOMAIN inbox[p] = 1 .. Len(inbox[p])
  BY <1>1, TailElements
<1>3. m.id \in Id /\ m.id \in 1 .. Len(events) /\ m.origin = events[m.id].from
  <2>1. inbox[p][1] \in Envelope
    BY <1>1, <1>2
  <2>2. /\ inbox[p][1].id \in 1 .. Len(events)
        /\ inbox[p][1].origin = events[inbox[p][1].id].from
    BY <1>2 DEF IInv, EventsInv
  <2>3. m.id = inbox[p][1].id /\ m.origin = inbox[p][1].origin
    BY <1>2
  <2> QED
    BY <2>1, <2>2, <2>3 DEF Envelope
<1>4. /\ got' \in [Conn -> Seq(Id)]
      /\ \A c \in Conn \ conns : got'[c] = got[c]
      /\ \A c \in conns :
           /\ DOMAIN got[c] = 1 .. Len(got[c]) /\ DOMAIN got'[c] = 1 .. (Len(got[c]) + 1)
           /\ \A i \in DOMAIN got[c] : i \in DOMAIN got'[c] /\ got'[c][i] = got[c][i]
           /\ got'[c][Len(got[c]) + 1] = m.id
           /\ \A i \in DOMAIN got'[c] : i \in DOMAIN got[c] \/ i = Len(got[c]) + 1
  <2>1. CASE m.origin = p
    BY <2>1 DEF IInv, TypeOK, HandleMessage
  <2>2. CASE m.origin # p
    <3>1. Deliver(conns, m.id) /\ conns \in SUBSET Conn
      BY <2>2 DEF HandleMessage, Addressed
    <3> HIDE DEF conns, m
    <3> QED
      BY <1>3, <3>1, Delivered DEF IInv, TypeOK
  <2> QED
    BY <2>1, <2>2
<1>5. \A c \in conns : at[c] = {p} /\ m.origin # p /\ c \in Addressed(events[m.id])
  BY DEF Local
<1>6. \A c \in Conn : c \notin conns /\ at[c] = {p} /\ m.origin # p => c \notin Addressed(events[m.id])
  BY DEF Local
<1> HIDE DEF m, conns
<1>7. \A c \in Conn : \A i \in DOMAIN got'[c] :
        \/ i \in DOMAIN got[c] /\ got'[c][i] = got[c][i]
        \/ c \in conns /\ i = Len(got[c]) + 1 /\ got'[c][i] = m.id
  BY <1>4
<1>8. \A q \in Replica : \A i \in DOMAIN inbox'[q] :
        \E j \in DOMAIN inbox[q] : inbox'[q][i] = inbox[q][j]
  <2> SUFFICES ASSUME NEW q \in Replica, NEW i \in DOMAIN inbox'[q]
               PROVE  \E j \in DOMAIN inbox[q] : inbox'[q][i] = inbox[q][j]
    OBVIOUS
  <2>1. CASE q = p
    <3>1. i + 1 \in DOMAIN inbox[q] /\ inbox'[q][i] = inbox[q][i + 1]
      BY <1>2, <2>1
    <3> QED
      BY <3>1
  <2>2. CASE q # p
    BY <1>1, <2>2
  <2> QED
    BY <2>1, <2>2
<1>9. TypeOK'
  <2>1. inbox' \in [Replica -> Seq(Envelope)]
    BY <1>1, <1>2 DEF IInv, TypeOK, HandleMessage
  <2> QED
    BY <1>1, <1>4, <2>1 DEF IInv, TypeOK
<1>10. EventsInv'
  <2>1. \A q \in Replica : \A i \in DOMAIN inbox'[q] :
          /\ inbox'[q][i].id \in 1 .. Len(events)
          /\ inbox'[q][i].origin = events[inbox'[q][i].id].from
    BY <1>8 DEF IInv, EventsInv
  <2>2. \A c \in Conn : \A i \in DOMAIN got'[c] :
          got'[c][i] \in 1 .. Len(events) /\ c \in Addressed(events[got'[c][i]])
    BY <1>3, <1>5, <1>7 DEF IInv, EventsInv
  <2>3. \A c \in Conn : at[c] = {} => got'[c] = <<>> /\ due[c] = {}
    BY <1>4, <1>5 DEF IInv, EventsInv
  <2> QED
    BY <1>1, <2>1, <2>2, <2>3 DEF IInv, EventsInv, Addressed
<1>11. OrderInv'
  <2>1. InOrder'
    <3> SUFFICES ASSUME NEW c \in Conn, NEW i \in DOMAIN got'[c], NEW j \in DOMAIN got'[c],
                        i < j, Sender(events[got'[c][i]]) = Sender(events[got'[c][j]])
                 PROVE  got'[c][i] < got'[c][j]
      BY <1>1 DEF InOrder
    <3>1. CASE j \in DOMAIN got[c] /\ got'[c][j] = got[c][j]
      <4>1. Len(got[c]) \in Nat /\ DOMAIN got[c] = 1 .. Len(got[c])
        BY DEF IInv, TypeOK
      <4>2. i \in DOMAIN got[c] /\ got'[c][i] = got[c][i]
        BY <1>7, <3>1, <4>1
      <4> QED
        BY <3>1, <4>2 DEF IInv, OrderInv, InOrder
    <3>2. CASE c \in conns /\ j = Len(got[c]) + 1 /\ got'[c][j] = m.id
      <4>1. i \in DOMAIN got[c] /\ got'[c][i] = got[c][i]
        <5>1. i # j
          BY <3>2 DEF IInv, TypeOK
        <5> QED
          BY <1>7, <3>2, <5>1
      <4>2. got[c][i] < inbox[p][1].id
        <5>1. at[c] = {p} /\ inbox[p][1].origin # p /\ 1 \in DOMAIN inbox[p]
              /\ Sender(events[got[c][i]]) = Sender(events[inbox[p][1].id])
          BY <1>2, <1>5, <3>2, <4>1
        <5> QED
          BY <4>1, <5>1 DEF IInv, OrderInv, InboxAfterGot
      <4> QED
        BY <1>2, <3>2, <4>1, <4>2
    <3> QED
      BY <1>7, <3>1, <3>2
  <2>2. InboxOrder'
    <3> SUFFICES ASSUME NEW q \in Replica, NEW i \in DOMAIN inbox'[q], NEW j \in DOMAIN inbox'[q],
                        i < j,
                        Sender(events[inbox'[q][i].id]) = Sender(events[inbox'[q][j].id])
                 PROVE  inbox'[q][i].id < inbox'[q][j].id
      BY <1>1 DEF InboxOrder
    <3>1. CASE q = p
      <4>1. i + 1 \in DOMAIN inbox[p] /\ j + 1 \in DOMAIN inbox[p] /\ i + 1 < j + 1
        BY <1>2, <3>1
      <4>2. inbox'[p][i] = inbox[p][i + 1] /\ inbox'[p][j] = inbox[p][j + 1]
        BY <1>2, <3>1
      <4>3. inbox[p][i + 1].id < inbox[p][j + 1].id
        BY <3>1, <4>1, <4>2 DEF IInv, OrderInv, InboxOrder
      <4> QED
        BY <3>1, <4>2, <4>3
    <3>2. CASE q # p
      BY <1>1, <3>2 DEF IInv, OrderInv, InboxOrder
    <3> QED
      BY <3>1, <3>2
  <2>3. PubAfterInbox'
    BY <1>1, <1>8 DEF IInv, OrderInv, PubAfterInbox
  <2>4. InboxAfterGot'
    <3> SUFFICES ASSUME NEW c \in Conn, NEW q \in Replica, at[c] = {q},
                        NEW i \in DOMAIN got'[c], NEW j \in DOMAIN inbox'[q],
                        inbox'[q][j].origin # q,
                        Sender(events[got'[c][i]]) = Sender(events[inbox'[q][j].id])
                 PROVE  got'[c][i] < inbox'[q][j].id
      BY <1>1 DEF InboxAfterGot
    <3>1. CASE i \in DOMAIN got[c] /\ got'[c][i] = got[c][i]
      BY <1>8, <3>1 DEF IInv, OrderInv, InboxAfterGot
    <3>2. CASE c \in conns /\ got'[c][i] = m.id
      <4>1. q = p
        BY <1>5, <3>2
      <4>2. j + 1 \in DOMAIN inbox[p] /\ inbox'[p][j] = inbox[p][j + 1] /\ 1 < j + 1
        <5>1. j \in DOMAIN inbox'[p]
          BY <4>1
        <5>2. DOMAIN inbox'[p] = 1 .. Len(inbox'[p])
          BY <1>2
        <5> QED
          BY <1>2, <5>1, <5>2
      <4>3. inbox[p][1].id < inbox[p][j + 1].id
        <5>1. 1 \in DOMAIN inbox[p]
              /\ Sender(events[inbox[p][1].id]) = Sender(events[inbox[p][j + 1].id])
          BY <1>2, <3>2, <4>1, <4>2
        <5> QED
          BY <4>2, <5>1 DEF IInv, OrderInv, InboxOrder
      <4> QED
        BY <1>2, <3>2, <4>1, <4>2, <4>3
    <3> QED
      BY <1>7, <3>1, <3>2
  <2>5. PubAfterGot'
    <3> SUFFICES ASSUME NEW c \in Conn, NEW r \in Replica, NEW q \in Replica, NEW h \in Goroutine,
                        at[c] = {r}, r # q, NEW id \in pub[q][h], NEW i \in DOMAIN got'[c],
                        Sender(events[got'[c][i]]) = Sender(events[id])
                 PROVE  got'[c][i] < id
      BY <1>1 DEF PubAfterGot
    <3>1. CASE i \in DOMAIN got[c] /\ got'[c][i] = got[c][i]
      BY <3>1 DEF IInv, OrderInv, PubAfterGot
    <3>2. CASE c \in conns /\ got'[c][i] = m.id
      BY <1>2, <3>2 DEF IInv, OrderInv, PubAfterInbox
    <3> QED
      BY <1>7, <3>1, <3>2
  <2> QED
    BY <2>1, <2>2, <2>3, <2>4, <2>5 DEF OrderInv
<1>12. OwedInv'
  <2> SUFFICES ASSUME ~ lost, NEW c \in Conn, NEW k \in due[c]
               PROVE  /\ k \in 1 .. Len(events) /\ c \in Addressed(events[k])
                      /\ HasGot(c, k)' \/ UnderWay(c, k)'
    BY <1>1 DEF OwedInv, Addressed
  <2>1. /\ k \in 1 .. Len(events) /\ c \in Addressed(events[k])
        /\ HasGot(c, k) \/ UnderWay(c, k)
    BY DEF IInv, OwedInv
  <2>2. HasGot(c, k) => HasGot(c, k)'
    BY <1>4 DEF HasGot
  <2>3. ASSUME UnderWay(c, k) PROVE HasGot(c, k)' \/ UnderWay(c, k)'
    <3>1. PICK q \in Replica : /\ at[c] = {q} /\ events[k].from # q
                               /\ \/ \E i \in DOMAIN inbox[q] : inbox[q][i].id = k
                                  \/ \E r \in Replica, h \in Goroutine : k \in pub[r][h]
      BY <2>3 DEF UnderWay
    <3>2. CASE \E r \in Replica, h \in Goroutine : k \in pub[r][h]
      BY <1>1, <3>1, <3>2 DEF UnderWay
    <3>3. CASE \E i \in DOMAIN inbox'[q] : inbox'[q][i].id = k
      BY <1>1, <3>1, <3>3 DEF UnderWay
    <3>4. CASE q = p /\ m.id = k
      <4>1. c \in conns
        BY <1>3, <1>6, <2>1, <3>1, <3>4
      <4>2. Len(got[c]) + 1 \in DOMAIN got'[c] /\ got'[c][Len(got[c]) + 1] = k
        BY <1>4, <3>4, <4>1 DEF IInv, TypeOK
      <4> QED
        BY <4>2 DEF HasGot
    <3>5. CASE \E i \in DOMAIN inbox[q] : inbox[q][i].id = k
      <4>1. q # p => \E i \in DOMAIN inbox'[q] : inbox'[q][i].id = k
        BY <1>1, <3>5
      <4>2. q = p => m.id = k \/ \E i \in DOMAIN inbox'[q] : inbox'[q][i].id = k
        BY <1>2, <3>5
      <4> QED
        BY <3>3, <3>4, <4>1, <4>2
    <3> QED
      BY <3>1, <3>2, <3>5
  <2> QED
    BY <2>1, <2>2, <2>3
<1> QED
  BY <1>9, <1>10, <1>11, <1>12 DEF IInv

-----------------------------------------------------------------------------
LEMMA NextIInv == IInv /\ [Next]_vars => IInv'
<1> SUFFICES ASSUME IInv, [Next]_vars PROVE IInv'
  OBVIOUS
<1>1. ASSUME NEW p \in Replica, BroadcastAll(p) PROVE IInv'
  <2>1. PICK u \in User :
          \/ Originate(p, "hub", [from |-> p, kind |-> "online", user |-> u])
          \/ Originate(p, "hub", [from |-> p, kind |-> "offline", user |-> u])
    BY <1>1 DEF BroadcastAll
  <2>2. /\ "hub" \in Goroutine
        /\ [from |-> p, kind |-> "online", user |-> u] \in Event
        /\ [from |-> p, kind |-> "offline", user |-> u] \in Event
    BY DEF Goroutine, Event
  <2> QED
    BY <2>1, <2>2, OriginateStep
<1>2. ASSUME NEW p \in Replica, NEW u \in User, Send(p, u) PROVE IInv'
  <2>1. "handler" \in Goroutine /\ [from |-> p, kind |-> "message", user |-> u] \in Event
    BY DEF Goroutine, Event
  <2> QED
    BY <1>2, <2>1, OriginateStep DEF Send
<1>3. CASE UNCHANGED vars
  <2>1. TypeOK' /\ EventsInv'
    BY <1>3 DEF vars, IInv, TypeOK, EventsInv, Addressed
  <2>2. OrderInv'
    BY <1>3 DEF vars, IInv, OrderInv, InOrder, InboxOrder, PubAfterInbox, InboxAfterGot, PubAfterGot
  <2>3. OwedInv'
    BY <1>3 DEF vars, IInv, OwedInv, HasGot, UnderWay, Addressed
  <2> QED
    BY <2>1, <2>2, <2>3 DEF IInv
<1> QED
  BY <1>1, <1>2, <1>3, ConnectStep, DisconnectStep, RestartStep, PublishStep, HandleMessageStep
     DEF Next

\* The inductive invariant: what each sender sent moves in order through
\* Publish, the inboxes and the connections (broker.go), and what a connection is
\* owed is somewhere on that way.
THEOREM ReplicasInvariant == Spec => []IInv
<1> QED
  BY InitIInv, NextIInv, PTL DEF Spec

\* Every variable keeps its type for any number of servers, clients and events.
THEOREM ReplicasTypeCorrect == Spec => []TypeOK
<1>1. IInv => TypeOK
  BY DEF IInv
<1> QED
  BY <1>1, ReplicasInvariant, PTL

\* What one goroutine publishes reaches every connection in order.
THEOREM EventsStayInOrder == Spec => []InOrder
<1>1. IInv => InOrder
  BY DEF IInv, OrderInv
<1> QED
  BY <1>1, ReplicasInvariant, PTL

\* handleMessage and SendLocal never give a connection an event twice, nor one
\* that is for somebody else: two copies would be out of order.
THEOREM EventsAtMostOnce == Spec => []AtMostOnce
<1>1. IInv => AtMostOnce
  <2> SUFFICES ASSUME IInv, NEW c \in Conn PROVE
        /\ \A i, j \in DOMAIN got[c] : got[c][i] = got[c][j] => i = j
        /\ \A i \in DOMAIN got[c] : c \in Addressed(events[got[c][i]])
    BY DEF AtMostOnce
  <2>1. \A i, j \in DOMAIN got[c] : got[c][i] = got[c][j] => ~ (i < j)
    <3>1. \A i \in DOMAIN got[c] : got[c][i] \in Nat
      <4>1. Len(events) \in Nat /\ \A i \in DOMAIN got[c] : got[c][i] \in 1 .. Len(events)
        BY DEF IInv, TypeOK, EventsInv
      <4> QED
        BY <4>1
    <3> QED
      BY <3>1 DEF IInv, OrderInv, InOrder
  <2>2. \A i \in DOMAIN got[c] : i \in Nat
    BY DEF IInv, TypeOK
  <2> QED
    BY <2>1, <2>2 DEF IInv, EventsInv
<1> QED
  BY <1>1, ReplicasInvariant, PTL

\* If Redis loses nothing and no server stops, every connection gets everything
\* that is sent to its user while it is there.
THEOREM NothingGoesMissing == Spec => []NothingMissing
<1>1. IInv => NothingMissing
  BY DEF IInv, TypeOK, OwedInv, HasGot, UnderWay, NothingMissing, Quiet
<1> QED
  BY <1>1, ReplicasInvariant, PTL

-----------------------------------------------------------------------------
(* What replicas say of presence.  While nothing is lost, a word that is no   *)
(* longer true is followed by a later one on the same way.                    *)

\* The users of a replica that are about to be announced, at most one.
Changing(q) == (told[q] \ Online(q)) \cup (Online(q) \ told[q])

ChangeInv ==
    \A q \in Replica :
        /\ \A u, v \in Changing(q) : u = v
        /\ \A id \in pub[q]["hub"] :
             /\ events[id].user \in Changing(q)
             /\ events[id].kind = IF events[id].user \in Online(q) THEN "online" ELSE "offline"

\* An event that says something of a user, and what would be right to say.
Says(e, u, q) == e.from = q /\ e.kind # "message" /\ e.user = u
Announced(q) == IF pub[q]["hub"] = {} THEN told[q] ELSE Online(q)
Word(q, u) == IF u \in Announced(q) THEN "online" ELSE "offline"

\* What is on its way to the connections of a replica.
Pipe(p, id) ==
    \/ \E i \in DOMAIN inbox[p] : inbox[p][i].id = id /\ inbox[p][i].origin # p
    \/ \E q \in Replica \ {p}, g \in Goroutine : id \in pub[q][g]

PipeTruth ==
    ~ lost => \A p, q \in Replica, u \in User, id \in Id :
        Pipe(p, id) /\ Says(events[id], u, q) /\ events[id].kind # Word(q, u)
            => \E k \in Id : id < k /\ Pipe(p, k) /\ Says(events[k], u, q)

GotTruth ==
    ~ lost => \A c \in Conn, p, q \in Replica, u \in User, id \in Id :
        at[c] = {p} /\ HasGot(c, id) /\ Says(events[id], u, q) /\ events[id].kind # Word(q, u)
            => \E k \in Id : id < k /\ Says(events[k], u, q) /\ (HasGot(c, k) \/ Pipe(p, k))

WInv == IInv /\ ChangeInv /\ PipeTruth /\ GotTruth

-----------------------------------------------------------------------------
LEMMA InitWInv == Init => WInv
<1> SUFFICES ASSUME Init PROVE WInv
  OBVIOUS
<1>1. ChangeInv
  BY DEF Init, ChangeInv, Changing, Online, Local, Goroutine
<1>2. \A p \in Replica, id \in Id : ~ Pipe(p, id)
  BY DEF Init, Pipe
<1>3. \A c \in Conn, id \in Id : ~ HasGot(c, id)
  BY DEF Init, HasGot
<1> QED
  BY InitIInv, <1>1, <1>2, <1>3 DEF WInv, PipeTruth, GotTruth

\* What is in a pipe is an event of another replica.
LEMMA PipeIds ==
  ASSUME IInv, NEW p \in Replica, NEW id, Pipe(p, id)
  PROVE  id \in 1 .. Len(events) /\ events[id].from \in Replica \ {p}
<1>1. CASE \E i \in DOMAIN inbox[p] : inbox[p][i].id = id /\ inbox[p][i].origin # p
  <2>1. PICK i \in DOMAIN inbox[p] : inbox[p][i].id = id /\ inbox[p][i].origin # p
    BY <1>1
  <2>2. inbox[p][i] \in Envelope
    BY DEF IInv, TypeOK
  <2> QED
    BY <2>1, <2>2 DEF IInv, EventsInv, Envelope
<1>2. CASE \E q \in Replica \ {p}, g \in Goroutine : id \in pub[q][g]
  BY <1>2 DEF IInv, EventsInv, Sender
<1> QED
  BY <1>1, <1>2 DEF Pipe

\* A step that leaves the events, the pipes and what is right to say alone.
LEMMA TruthFrame ==
  ASSUME PipeTruth, GotTruth, events' = events, ~ lost' => ~ lost,
         \A q \in Replica : Announced(q)' = Announced(q),
         \A p \in Replica, k \in Id : Pipe(p, k)' <=> Pipe(p, k),
         \A c \in Conn : got'[c] = <<>> \/ (got'[c] = got[c] /\ at'[c] = at[c])
  PROVE  PipeTruth' /\ GotTruth'
<1>1. \A q \in Replica, u \in User : Word(q, u)' = Word(q, u)
  BY DEF Word
<1>2. \A c \in Conn, k \in Id : HasGot(c, k)' => HasGot(c, k) /\ at'[c] = at[c]
  BY DEF HasGot
<1>3. \A c \in Conn, k, l \in Id : HasGot(c, k)' /\ HasGot(c, l) => HasGot(c, l)'
  BY DEF HasGot
<1>4. PipeTruth'
  BY <1>1 DEF PipeTruth
<1>5. GotTruth'
  <2> SUFFICES ASSUME ~ lost', NEW c \in Conn, NEW p \in Replica, NEW q \in Replica, NEW u \in User,
                      NEW id \in Id, at'[c] = {p}, HasGot(c, id)', Says(events[id], u, q),
                      events[id].kind # Word(q, u)
               PROVE  \E k \in Id : id < k /\ Says(events[k], u, q) /\ (HasGot(c, k)' \/ Pipe(p, k)')
    BY <1>1 DEF GotTruth
  <2>1. PICK k \in Id : id < k /\ Says(events[k], u, q) /\ (HasGot(c, k) \/ Pipe(p, k))
    BY <1>2 DEF GotTruth
  <2> QED
    BY <1>3, <2>1
<1> QED
  BY <1>4, <1>5

\* While somebody is about to be announced, the hub has taken nobody else.
LEMMA SettledHasNoPub ==
  ASSUME ChangeInv, NEW p \in Replica, Settled(p), pub[p]["hub"] \in {{}} \cup {{id} : id \in Id}
  PROVE  Changing(p) = {} /\ pub[p]["hub"] = {}
  BY DEF Settled, Changing, ChangeInv

LEMMA ConnectTruth ==
  ASSUME WInv, NEW c \in Conn, NEW p \in Replica, Connect(c, p)
  PROVE  ChangeInv' /\ PipeTruth' /\ GotTruth'
<1>1. /\ UNCHANGED <<told, events, pub, inbox, got, lost>>
      /\ got[c] = <<>> /\ Settled(p)
      /\ at'[c] = {p} /\ \A d \in Conn \ {c} : at'[d] = at[d]
      /\ at[c] = {}
  BY DEF WInv, IInv, TypeOK, EventsInv, Connect
<1>2. Changing(p) = {} /\ pub[p]["hub"] = {}
  <2>1. pub[p]["hub"] \in {{}} \cup {{id} : id \in Id}
    BY PubShape DEF WInv, IInv, Goroutine
  <2> QED
    BY <1>1, <2>1, SettledHasNoPub DEF WInv
<1>3. /\ \A q \in Replica \ {p} : Local(q)' = Local(q)
      /\ Local(p)' = Local(p) \cup {c}
  BY <1>1 DEF Local
<1>4. /\ \A q \in Replica \ {p} : Online(q)' = Online(q)
      /\ Online(p)' = Online(p) \cup {UserOf[c]}
  BY <1>3 DEF Online
<1>5. ChangeInv'
  <2>1. Changing(p)' \subseteq {UserOf[c]}
    BY <1>1, <1>2, <1>4 DEF Changing
  <2>2. \A q \in Replica \ {p} : Changing(q)' = Changing(q)
    BY <1>1, <1>4 DEF Changing
  <2> QED
    BY <1>1, <1>2, <1>4, <2>1, <2>2 DEF WInv, ChangeInv
<1>6. \A q \in Replica : Announced(q)' = Announced(q)
  BY <1>1, <1>2, <1>4 DEF Announced
<1>7. \A q \in Replica, k \in Id : Pipe(q, k)' <=> Pipe(q, k)
  BY <1>1 DEF Pipe
<1> QED
  BY <1>1, <1>5, <1>6, <1>7, TruthFrame DEF WInv

LEMMA DisconnectTruth ==
  ASSUME WInv, NEW c \in Conn, Disconnect(c)
  PROVE  ChangeInv' /\ PipeTruth' /\ GotTruth'
<1>1. PICK p \in at[c] : Settled(p)
  BY DEF Disconnect
<1>2. /\ UNCHANGED <<told, events, pub, inbox, lost>>
      /\ p \in Replica /\ at[c] = {p} /\ at'[c] = {} /\ got'[c] = <<>>
      /\ \A d \in Conn \ {c} : at'[d] = at[d] /\ got'[d] = got[d]
  <2>1. at[c] \in {{}} \cup {{q} : q \in Replica}
    BY DEF WInv, IInv, TypeOK
  <2>2. p \in Replica /\ at[c] = {p}
    BY <1>1, <2>1
  <2> QED
    BY <2>2 DEF WInv, IInv, TypeOK, Disconnect
<1>3. Changing(p) = {} /\ pub[p]["hub"] = {}
  <2>1. pub[p]["hub"] \in {{}} \cup {{id} : id \in Id}
    BY <1>2, PubShape DEF WInv, IInv, Goroutine
  <2> QED
    BY <1>1, <1>2, <2>1, SettledHasNoPub DEF WInv
<1>4. /\ \A q \in Replica \ {p} : Local(q)' = Local(q)
      /\ Local(p) = Local(p)' \cup {c}
  BY <1>2 DEF Local
<1>5. /\ \A q \in Replica \ {p} : Online(q)' = Online(q)
      /\ Online(p) = Online(p)' \cup {UserOf[c]}
  BY <1>4 DEF Online
<1>6. ChangeInv'
  <2>1. Changing(p)' \subseteq {UserOf[c]}
    BY <1>2, <1>3, <1>5 DEF Changing
  <2>2. \A q \in Replica \ {p} : Changing(q)' = Changing(q)
    BY <1>2, <1>5 DEF Changing
  <2> QED
    BY <1>2, <1>3, <1>5, <2>1, <2>2 DEF WInv, ChangeInv
<1>7. \A q \in Replica : Announced(q)' = Announced(q)
  BY <1>2, <1>3, <1>5 DEF Announced
<1>8. \A q \in Replica, k \in Id : Pipe(q, k)' <=> Pipe(q, k)
  BY <1>2 DEF Pipe
<1> QED
  BY <1>2, <1>6, <1>7, <1>8, TruthFrame DEF WInv

\* The publishing hub has announced what is now online; the event moves on from
\* it to the inboxes.
LEMMA PublishTruth ==
  ASSUME WInv, NEW p \in Replica, NEW g \in Goroutine, Publish(p, g)
  PROVE  ChangeInv' /\ PipeTruth' /\ GotTruth'
<1>1. PICK id \in pub[p][g], receivers \in SUBSET Replica :
        /\ ToRedis(p, id, receivers)
        /\ lost' = (lost \/ receivers # Replica)
        /\ pub' = [pub EXCEPT ![p][g] = @ \ {id}]
  BY DEF Publish
<1>2. /\ UNCHANGED <<at, events, got>>
      /\ told' = IF g = "hub" THEN [told EXCEPT ![p] = Online(p)] ELSE told
  BY DEF Publish
<1>3. /\ pub'[p][g] = {} /\ pub[p][g] = {id} /\ id \in Id
      /\ \A q \in Replica, h \in Goroutine : q # p \/ h # g => pub'[q][h] = pub[q][h]
  <2>1. pub[p][g] \in {{}} \cup {{k} : k \in Id}
    BY PubShape DEF WInv, IInv
  <2>2. pub[p][g] = {id} /\ id \in Id
    BY <2>1
  <2> QED
    BY <1>1, <2>2 DEF WInv, IInv, TypeOK
<1>4. \A q \in Replica : Online(q)' = Online(q)
  BY <1>2 DEF Online, Local
<1>5. /\ \A q \in Replica \ {p} : told'[q] = told[q]
      /\ told'[p] = IF g = "hub" THEN Online(p) ELSE told[p]
  BY <1>2 DEF WInv, IInv, TypeOK
<1>6. ChangeInv'
  <2>1. \A q \in Replica : Changing(q)' \subseteq Changing(q)
    BY <1>4, <1>5 DEF Changing
  <2>2. \A q \in Replica : pub'[q]["hub"] = pub[q]["hub"] \/ pub'[q]["hub"] = {}
    BY <1>3 DEF Goroutine
  <2>3. \A q \in Replica : pub'[q]["hub"] # {} => Changing(q)' = Changing(q)
    BY <1>3, <1>4, <1>5 DEF Changing
  <2> QED
    BY <1>2, <1>4, <2>1, <2>2, <2>3 DEF WInv, ChangeInv
<1>7. \A q \in Replica : Announced(q)' = Announced(q)
  BY <1>3, <1>4, <1>5 DEF Announced, Goroutine
<1>8. ASSUME ~ lost' PROVE \A q \in Replica, k \in Id : Pipe(q, k)' <=> Pipe(q, k)
  <2> DEFINE m == [origin |-> p, id |-> id]
  <2>1. receivers = Replica
    BY <1>1, <1>8
  <2>2. \A q \in Replica : inbox'[q] = Append(inbox[q], m)
    BY <1>1, <2>1 DEF ToRedis
  <2>3. m \in Envelope /\ m.id = id /\ m.origin = p
    BY <1>3 DEF Envelope
  <2> HIDE DEF m
  <2>4. \A q \in Replica :
          /\ \A i \in DOMAIN inbox[q] : i \in DOMAIN inbox'[q] /\ inbox'[q][i] = inbox[q][i]
          /\ \E i \in DOMAIN inbox'[q] : inbox'[q][i] = m
          /\ \A i \in DOMAIN inbox'[q] : (i \in DOMAIN inbox[q] /\ inbox'[q][i] = inbox[q][i]) \/ inbox'[q][i] = m
    <3> TAKE q \in Replica
    <3>1. inbox[q] \in Seq(Envelope)
      BY DEF WInv, IInv, TypeOK
    <3> HIDE DEF m
    <3>2. Len(inbox[q]) + 1 \in DOMAIN inbox'[q]
      BY <2>2, <2>3, <3>1
    <3> QED
      BY <2>2, <2>3, <3>1, <3>2, Appended
  <2> SUFFICES ASSUME NEW q \in Replica, NEW k \in Id PROVE Pipe(q, k)' <=> Pipe(q, k)
    OBVIOUS
  <2>5. ASSUME Pipe(q, k) PROVE Pipe(q, k)'
    <3>1. CASE \E i \in DOMAIN inbox[q] : inbox[q][i].id = k /\ inbox[q][i].origin # q
      BY <2>4, <3>1 DEF Pipe
    <3>2. CASE \E r \in Replica \ {q}, h \in Goroutine : k \in pub[r][h]
      <4>1. PICK r \in Replica \ {q}, h \in Goroutine : k \in pub[r][h]
        BY <3>2
      <4>2. CASE r = p /\ h = g
        BY <1>3, <2>3, <2>4, <4>1, <4>2 DEF Pipe
      <4>3. CASE r # p \/ h # g
        BY <1>3, <4>1, <4>3 DEF Pipe
      <4> QED
        BY <4>2, <4>3
    <3> QED
      BY <2>5, <3>1, <3>2 DEF Pipe
  <2>6. ASSUME Pipe(q, k)' PROVE Pipe(q, k)
    <3>1. CASE \E i \in DOMAIN inbox'[q] : inbox'[q][i].id = k /\ inbox'[q][i].origin # q
      BY <1>3, <2>3, <2>4, <3>1 DEF Pipe
    <3>2. CASE \E r \in Replica \ {q}, h \in Goroutine : k \in pub'[r][h]
      BY <1>3, <3>2 DEF Pipe
    <3> QED
      BY <2>6, <3>1, <3>2 DEF Pipe
  <2> QED
    BY <2>5, <2>6
<1>9. CASE lost'
  BY <1>6, <1>9 DEF PipeTruth, GotTruth
<1>10. CASE ~ lost'
  <2>1. ~ lost
    BY <1>1, <1>10 DEF WInv, IInv, TypeOK
  <2> QED
    BY <1>2, <1>6, <1>7, <1>8, <1>10, <2>1, TruthFrame DEF WInv
<1> QED
  BY <1>9, <1>10

\* What is about to be published is right.
LEMMA PubIsRight ==
  ASSUME WInv, NEW q \in Replica, NEW g \in Goroutine, NEW id \in pub[q][g],
         NEW u, NEW r, Says(events[id], u, r)
  PROVE  r = q /\ g = "hub" /\ events[id].kind = Word(r, u)
<1>1. r = q /\ g = "hub"
  BY DEF WInv, IInv, EventsInv, Sender, Says, Goroutine
<1> QED
  BY <1>1 DEF WInv, ChangeInv, Says, Word, Announced

\* A replica that stops with nothing to lose has no connection and no user.
LEMMA RestartTruth ==
  ASSUME WInv, NEW p \in Replica, Restart(p)
  PROVE  ChangeInv' /\ PipeTruth' /\ GotTruth'
<1>1. /\ events' = events /\ told'[p] = {} /\ pub'[p]["hub"] = {}
      /\ \A c \in Conn : at'[c] = at[c] \ {p}
      /\ \A q \in Replica \ {p} : pub'[q] = pub[q] /\ told'[q] = told[q] /\ inbox'[q] = inbox[q]
      /\ inbox'[p] = <<>>
  BY DEF WInv, IInv, TypeOK, Restart, Goroutine
<1>2. \A c \in Conn : at[c] = {} \/ \E q \in Replica : at[c] = {q}
  BY DEF WInv, IInv, TypeOK
<1>3. Local(p)' = {} /\ \A q \in Replica \ {p} : Local(q)' = Local(q)
  BY <1>1, <1>2 DEF Local
<1>4. Online(p)' = {} /\ \A q \in Replica \ {p} : Online(q)' = Online(q)
  BY <1>3 DEF Online
<1>5. ChangeInv'
  <2>1. Changing(p)' = {} /\ \A q \in Replica \ {p} : Changing(q)' = Changing(q)
    BY <1>1, <1>4 DEF Changing
  <2> QED
    BY <1>1, <1>4, <2>1 DEF WInv, ChangeInv
<1>6. CASE lost'
  BY <1>5, <1>6 DEF PipeTruth, GotTruth
<1>7. CASE ~ lost'
  <2>1. ~ lost /\ Online(p) = {} /\ told[p] = {} /\ \A g \in Goroutine : pub[p][g] = {}
    BY <1>7 DEF Restart
  <2>2. \A q \in Replica : Announced(q)' = Announced(q)
    BY <1>1, <1>4, <2>1 DEF Announced, Goroutine
  <2>3. \A q \in Replica, u \in User : Word(q, u)' = Word(q, u)
    BY <2>2 DEF Word
  <2>4. \A c \in Conn : at'[c] = at[c] /\ got'[c] = got[c]
    <3>1. Local(p) = {}
      BY <2>1 DEF Online
    <3> QED
      BY <1>1, <1>2, <3>1 DEF Local, Restart
  <2>5. /\ \A q \in Replica, g \in Goroutine : pub'[q][g] = pub[q][g]
        /\ \A c \in Conn, k \in Id : HasGot(c, k)' <=> HasGot(c, k)
        /\ \A c \in Conn : at'[c] # {p}
    BY <1>1, <2>1, <2>4 DEF HasGot, Restart, WInv, IInv, TypeOK
  <2>6. \A q \in Replica \ {p}, k \in Id : Pipe(q, k)' <=> Pipe(q, k)
    BY <1>1, <2>5 DEF Pipe
  <2>7. \A k \in Id : Pipe(p, k)' => \E q \in Replica, g \in Goroutine : k \in pub[q][g]
    BY <1>1, <2>5 DEF Pipe
  <2>8. PipeTruth'
    <3> SUFFICES ASSUME NEW r \in Replica, NEW q \in Replica, NEW u \in User, NEW id \in Id,
                        Pipe(r, id)', Says(events[id], u, q), events[id].kind # Word(q, u)
                 PROVE  \E k \in Id : id < k /\ Pipe(r, k)' /\ Says(events[k], u, q)
      BY <1>1, <2>3 DEF PipeTruth
    <3>1. CASE r = p
      BY <2>7, <3>1, PubIsRight
    <3>2. CASE r # p
      BY <2>1, <2>6, <3>2 DEF WInv, PipeTruth
    <3> QED
      BY <3>1, <3>2
  <2>9. GotTruth'
    <3> SUFFICES ASSUME NEW c \in Conn, NEW r \in Replica, NEW q \in Replica, NEW u \in User,
                        NEW id \in Id, at'[c] = {r}, HasGot(c, id)', Says(events[id], u, q),
                        events[id].kind # Word(q, u)
                 PROVE  \E k \in Id : id < k /\ Says(events[k], u, q) /\ (HasGot(c, k)' \/ Pipe(r, k)')
      BY <1>1, <2>3 DEF GotTruth
    <3>1. r # p /\ at[c] = {r} /\ HasGot(c, id)
      BY <2>4, <2>5
    <3>2. PICK k \in Id : id < k /\ Says(events[k], u, q) /\ (HasGot(c, k) \/ Pipe(r, k))
      BY <2>1, <3>1 DEF WInv, GotTruth
    <3> QED
      BY <2>5, <2>6, <3>1, <3>2
  <2> QED
    BY <1>5, <2>8, <2>9
<1> QED
  BY <1>6, <1>7

\* What leaves an inbox is the oldest of its sender there, and whoever is
\* connected has it then.
LEMMA HandleMessageTruth ==
  ASSUME WInv, NEW p \in Replica, HandleMessage(p)
  PROVE  ChangeInv' /\ PipeTruth' /\ GotTruth'
<1>0. PICK m : m = Head(inbox[p])
  OBVIOUS
<1>1. /\ inbox[p] # <<>> /\ inbox[p] \in Seq(Envelope)
      /\ UNCHANGED <<at, told, events, pub, lost>>
      /\ inbox'[p] = Tail(inbox[p])
      /\ \A q \in Replica \ {p} : inbox'[q] = inbox[q]
  BY DEF WInv, IInv, TypeOK, HandleMessage
<1>2. /\ inbox'[p] \in Seq(Envelope)
      /\ 1 \in DOMAIN inbox[p] /\ m = inbox[p][1]
      /\ \A i \in DOMAIN inbox'[p] : i \in Nat /\ i + 1 \in DOMAIN inbox[p] /\ inbox'[p][i] = inbox[p][i + 1]
      /\ \A i \in DOMAIN inbox[p] : i = 1 \/ (i - 1 \in DOMAIN inbox'[p] /\ inbox'[p][i - 1] = inbox[p][i])
  BY <1>0, <1>1, TailElements
<1>3. m.id \in Id /\ m.id \in 1 .. Len(events) /\ m.origin = events[m.id].from
  <2>1. inbox[p][1] \in Envelope
    BY <1>1, <1>2
  <2>2. /\ inbox[p][1].id \in 1 .. Len(events)
        /\ inbox[p][1].origin = events[inbox[p][1].id].from
    BY <1>2 DEF WInv, IInv, EventsInv
  <2>3. m.id = inbox[p][1].id /\ m.origin = inbox[p][1].origin
    BY <1>2
  <2> QED
    BY <2>1, <2>2, <2>3 DEF Envelope
<1>4. /\ \A c \in Conn : at[c] # {p} => got'[c] = got[c]
      /\ \A c \in Conn, k \in Id : HasGot(c, k) => HasGot(c, k)'
      /\ \A c \in Conn, k \in Id : HasGot(c, k)' => HasGot(c, k) \/ (k = m.id /\ m.origin # p)
      /\ \A c \in Conn : at[c] = {p} /\ m.origin # p /\ events[m.id].kind # "message" => HasGot(c, m.id)'
  <2>1. CASE m.origin = p
    BY <1>0, <2>1 DEF HandleMessage, HasGot
  <2>2. CASE m.origin # p
    <3> DEFINE conns == Addressed(events[m.id]) \cap Local(p)
    <3>1. Deliver(conns, m.id) /\ conns \in SUBSET Conn
      BY <1>0, <2>2 DEF HandleMessage, Addressed
    <3>2. \A c \in conns : at[c] = {p}
      BY DEF Local
    <3>3. \A c \in Conn : at[c] = {p} /\ events[m.id].kind # "message" => c \in conns
      BY DEF Local, Addressed
    <3> HIDE DEF conns
    <3>4. /\ \A c \in Conn \ conns : got'[c] = got[c]
          /\ \A c \in conns :
               /\ DOMAIN got[c] = 1 .. Len(got[c]) /\ DOMAIN got'[c] = 1 .. (Len(got[c]) + 1)
               /\ \A i \in DOMAIN got[c] : i \in DOMAIN got'[c] /\ got'[c][i] = got[c][i]
               /\ got'[c][Len(got[c]) + 1] = m.id
               /\ \A i \in DOMAIN got'[c] : i \in DOMAIN got[c] \/ i = Len(got[c]) + 1
      BY <1>3, <3>1, Delivered DEF WInv, IInv, TypeOK
    <3>5. \A c \in conns : HasGot(c, m.id)'
      <4>1. \A c \in conns : Len(got[c]) \in Nat
        BY <3>1 DEF WInv, IInv, TypeOK
      <4>2. \A c \in conns : Len(got[c]) + 1 \in DOMAIN got'[c]
        BY <3>4, <4>1
      <4> QED
        BY <1>3, <3>4, <4>2 DEF HasGot
    <3>6. \A c \in Conn, k \in Id : HasGot(c, k) => HasGot(c, k)'
      BY <3>4 DEF HasGot
    <3>7. \A c \in Conn, k \in Id : HasGot(c, k)' => HasGot(c, k) \/ k = m.id
      BY <3>4 DEF HasGot
    <3> QED
      BY <2>2, <3>2, <3>3, <3>4, <3>5, <3>6, <3>7
  <2> QED
    BY <2>1, <2>2
<1>5. /\ \A q \in Replica : Changing(q)' = Changing(q) /\ Online(q)' = Online(q)
      /\ \A q \in Replica : Announced(q)' = Announced(q)
      /\ \A q \in Replica, u \in User : Word(q, u)' = Word(q, u)
  BY <1>1 DEF Changing, Online, Local, Announced, Word
<1>6. ChangeInv'
  BY <1>1, <1>5 DEF WInv, ChangeInv
<1>7. \A q \in Replica \ {p}, k \in Id : Pipe(q, k)' <=> Pipe(q, k)
  BY <1>1 DEF Pipe
<1>8. m.origin # p => Pipe(p, m.id)
  BY <1>2 DEF Pipe
<1>9. \A k \in Id : Pipe(p, k)' => Pipe(p, k)
  <2> SUFFICES ASSUME NEW k \in Id, Pipe(p, k)' PROVE Pipe(p, k)
    OBVIOUS
  <2>1. CASE \E i \in DOMAIN inbox'[p] : inbox'[p][i].id = k /\ inbox'[p][i].origin # p
    BY <1>2, <2>1 DEF Pipe
  <2>2. CASE \E q \in Replica \ {p}, g \in Goroutine : k \in pub[q][g]
    BY <2>2 DEF Pipe
  <2> QED
    BY <1>1, <2>1, <2>2 DEF Pipe
<1>10. \A k \in Id : Pipe(p, k) => Pipe(p, k)' \/ (k = m.id /\ m.origin # p)
  <2> SUFFICES ASSUME NEW k \in Id, Pipe(p, k) PROVE Pipe(p, k)' \/ (k = m.id /\ m.origin # p)
    OBVIOUS
  <2>1. CASE \E i \in DOMAIN inbox[p] : inbox[p][i].id = k /\ inbox[p][i].origin # p
    BY <1>2, <2>1 DEF Pipe
  <2>2. CASE \E q \in Replica \ {p}, g \in Goroutine : k \in pub[q][g]
    BY <1>1, <2>2 DEF Pipe
  <2> QED
    BY <2>1, <2>2 DEF Pipe
<1>11. \A k \in Id : Pipe(p, k)' /\ m.origin # p /\ Sender(events[k]) = Sender(events[m.id]) => m.id < k
  <2> SUFFICES ASSUME NEW k \in Id, Pipe(p, k)', Sender(events[k]) = Sender(events[m.id])
               PROVE  m.id < k
    OBVIOUS
  <2>1. ASSUME NEW i \in DOMAIN inbox'[p], inbox'[p][i].id = k PROVE m.id < k
    <3>1. DOMAIN inbox'[p] = 1 .. Len(inbox'[p])
      BY <1>2
    <3>2. 1 < i + 1 /\ i + 1 \in DOMAIN inbox[p] /\ inbox[p][i + 1].id = k
      BY <1>2, <2>1, <3>1
    <3>3. 1 \in DOMAIN inbox[p] /\ inbox[p][1].id = m.id
      BY <1>2
    <3> QED
      BY <3>2, <3>3 DEF WInv, IInv, OrderInv, InboxOrder
  <2>2. ASSUME NEW q \in Replica, NEW g \in Goroutine, k \in pub[q][g] PROVE m.id < k
    BY <1>2, <2>2 DEF WInv, IInv, OrderInv, PubAfterInbox
  <2> QED
    BY <1>1, <2>1, <2>2 DEF Pipe
<1>12. \A e, f, u, q : Says(e, u, q) /\ Says(f, u, q) => Sender(e) = Sender(f) /\ e.kind # "message"
  BY DEF Says, Sender
\* A later word of the same sender is not the head if the earlier one is still there.
<1>13. ASSUME NEW u \in User, NEW q \in Replica, NEW id \in Id, NEW k \in Id, id < k,
              Says(events[id], u, q), Says(events[k], u, q), Pipe(p, id)' \/ id = m.id, Pipe(p, k)
       PROVE  Pipe(p, k)'
  <2>1. CASE k = m.id /\ m.origin # p
    <3>1. m.id < id \/ id = m.id
      BY <1>11, <1>12, <1>13, <2>1
    <3> QED
      BY <1>13, <2>1, <3>1 DEF Id
  <2> QED
    BY <1>10, <1>13, <2>1
<1>14. PipeTruth'
  <2> SUFFICES ASSUME ~ lost, NEW r \in Replica, NEW q \in Replica, NEW u \in User, NEW id \in Id,
                      Pipe(r, id)', Says(events[id], u, q), events[id].kind # Word(q, u)
               PROVE  \E k \in Id : id < k /\ Pipe(r, k)' /\ Says(events[k], u, q)
    BY <1>1, <1>5 DEF PipeTruth
  <2>1. Pipe(r, id)
    BY <1>7, <1>9
  <2>2. PICK k \in Id : id < k /\ Pipe(r, k) /\ Says(events[k], u, q)
    BY <2>1 DEF WInv, PipeTruth
  <2>3. CASE r = p
    BY <1>13, <2>2, <2>3
  <2>4. CASE r # p
    BY <1>7, <2>2, <2>4
  <2> QED
    BY <2>3, <2>4
<1>15. GotTruth'
  <2> SUFFICES ASSUME ~ lost, NEW c \in Conn, NEW r \in Replica, NEW q \in Replica, NEW u \in User,
                      NEW id \in Id, at[c] = {r}, HasGot(c, id)', Says(events[id], u, q),
                      events[id].kind # Word(q, u)
               PROVE  \E k \in Id : id < k /\ Says(events[k], u, q) /\ (HasGot(c, k)' \/ Pipe(r, k)')
    BY <1>1, <1>5 DEF GotTruth
  <2>1. CASE r # p
    <3>1. got'[c] = got[c]
      BY <1>4, <2>1
    <3>2. HasGot(c, id)
      BY <3>1 DEF HasGot
    <3>3. PICK k \in Id : id < k /\ Says(events[k], u, q) /\ (HasGot(c, k) \/ Pipe(r, k))
      BY <3>2 DEF WInv, GotTruth
    <3> QED
      BY <1>4, <1>7, <2>1, <3>3
  <2>2. CASE r = p /\ HasGot(c, id)
    <3>1. PICK k \in Id : id < k /\ Says(events[k], u, q) /\ (HasGot(c, k) \/ Pipe(r, k))
      BY <2>2 DEF WInv, GotTruth
    <3>2. CASE k = m.id /\ m.origin # p
      BY <1>4, <1>12, <2>2, <3>1, <3>2
    <3> QED
      BY <1>4, <1>10, <2>2, <3>1, <3>2
  <2>3. CASE r = p /\ id = m.id /\ m.origin # p
    <3>1. PICK k \in Id : id < k /\ Pipe(p, k) /\ Says(events[k], u, q)
      BY <1>8, <2>3 DEF WInv, PipeTruth
    <3>2. Pipe(p, k)'
      BY <1>13, <2>3, <3>1
    <3> QED
      BY <2>3, <3>1, <3>2
  <2> QED
    BY <1>4, <2>1, <2>2, <2>3
<1> QED
  BY <1>6, <1>14, <1>15

\* An announcement corrects what was said of its user, wherever that has come.
LEMMA OriginateTruth ==
  ASSUME WInv, NEW p \in Replica, NEW g \in Goroutine, NEW e \in Event, Originate(p, g, e),
         e.from = p, (e.kind = "message") = (g = "handler"),
         e.kind # "message" => /\ e.user \in Changing(p)
                               /\ e.kind = IF e.user \in Online(p) THEN "online" ELSE "offline"
  PROVE  ChangeInv' /\ PipeTruth' /\ GotTruth'
<1>0. PICK n \in Id : n = New
  BY OriginateFacts DEF WInv
<1>1. /\ pub[p][g] = {} /\ UNCHANGED <<at, told, inbox, lost>>
      /\ n = Len(events) + 1 /\ Len(events) \in Nat
      /\ events'[n] = e
      /\ \A id \in 1 .. Len(events) : events'[id] = events[id] /\ id < n /\ id \in Id
      /\ pub'[p][g] = {n}
      /\ \A q \in Replica, h \in Goroutine : q # p \/ h # g => pub'[q][h] = pub[q][h]
  <2>1. IInv /\ pub[p][g] = {} /\ UNCHANGED <<at, told, inbox, lost>>
    BY DEF WInv, Originate
  <2>2. \A id \in 1 .. Len(events) : id < n /\ id \in Id
    <3>1. Len(events) \in Nat /\ Len(events) <= MaxEvents
      BY <2>1 DEF IInv, TypeOK
    <3> QED
      BY <1>0, <3>1, ReplicasAssumption DEF New, Id
  <2>3. /\ Len(events) \in Nat /\ events'[New] = e
        /\ \A id \in 1 .. Len(events) : events'[id] = events[id]
        /\ pub'[p][g] = {New}
        /\ \A q \in Replica, h \in Goroutine : q # p \/ h # g => pub'[q][h] = pub[q][h]
    BY <2>1, OriginateFacts
  <2> QED
    BY <1>0, <2>1, <2>2, <2>3 DEF New
<1>2. /\ \A c \in Conn, k \in Id : HasGot(c, k) => HasGot(c, k)'
      /\ \A c \in Conn, k \in Id : HasGot(c, k)' => HasGot(c, k) \/ k = n
      /\ \A c \in Conn : at[c] = {p} /\ e.kind # "message" => HasGot(c, n)'
  <2>1. IInv
    BY DEF WInv
  <2>2. /\ \A c \in Conn \ Receivers(p, e) : got'[c] = got[c]
        /\ \A c \in Receivers(p, e) :
             /\ DOMAIN got[c] = 1 .. Len(got[c]) /\ DOMAIN got'[c] = 1 .. (Len(got[c]) + 1)
             /\ \A i \in DOMAIN got[c] : i \in DOMAIN got'[c] /\ got'[c][i] = got[c][i]
             /\ got'[c][Len(got[c]) + 1] = New
             /\ \A i \in DOMAIN got'[c] : i \in DOMAIN got[c] \/ i = Len(got[c]) + 1
    BY <2>1, OriginateFacts
  <2>3. \A c \in Conn : at[c] = {p} /\ e.kind # "message" => c \in Receivers(p, e)
    BY DEF Receivers, Addressed, Local
  <2>4. \A c \in Receivers(p, e) : c \in Conn /\ Len(got[c]) + 1 \in DOMAIN got'[c]
    <3>1. \A c \in Receivers(p, e) : c \in Conn /\ Len(got[c]) \in Nat
      BY <2>1 DEF IInv, TypeOK, Receivers, Addressed
    <3> QED
      BY <2>2, <3>1
  <2>5. \A c \in Conn, k \in Id : HasGot(c, k) => HasGot(c, k)'
    BY <2>2 DEF HasGot
  <2>6. \A c \in Conn, k \in Id : HasGot(c, k)' => HasGot(c, k) \/ k = n
    BY <1>0, <2>2 DEF HasGot
  <2>7. \A c \in Receivers(p, e) : HasGot(c, n)'
    BY <1>0, <2>2, <2>4 DEF HasGot
  <2> QED
    BY <2>3, <2>5, <2>6, <2>7
<1>3. \A c \in Conn, k \in Id : HasGot(c, k) => k \in 1 .. Len(events)
  BY DEF WInv, IInv, EventsInv, HasGot
<1>4. \A r \in Replica, k \in Id : Pipe(r, k) => k \in 1 .. Len(events) /\ events[k].from # r
  BY PipeIds DEF WInv
<1>5. /\ \A r \in Replica, k \in Id : Pipe(r, k) => Pipe(r, k)'
      /\ \A r \in Replica, k \in Id : Pipe(r, k)' => Pipe(r, k) \/ k = n
      /\ \A r \in Replica \ {p} : Pipe(r, n)'
  <2>1. \A r \in Replica, k \in Id : Pipe(r, k) => Pipe(r, k)'
    BY <1>1 DEF Pipe
  <2>2. \A r \in Replica, k \in Id : Pipe(r, k)' => Pipe(r, k) \/ k = n
    BY <1>1 DEF Pipe
  <2>3. \A r \in Replica \ {p} : Pipe(r, n)'
    BY <1>1 DEF Pipe
  <2> QED
    BY <2>1, <2>2, <2>3
<1>6. /\ \A q \in Replica : Online(q)' = Online(q) /\ Changing(q)' = Changing(q)
      /\ \A q \in Replica \ {p} : Announced(q)' = Announced(q)
      /\ e.kind = "message" => Announced(p)' = Announced(p)
      /\ e.kind # "message" => g = "hub" /\ Announced(p) = told[p] /\ Announced(p)' = Online(p)
  <2>1. \A q \in Replica : Online(q)' = Online(q) /\ Changing(q)' = Changing(q)
    BY <1>1 DEF Online, Local, Changing
  <2>2. \A q \in Replica \ {p} : Announced(q)' = Announced(q)
    BY <1>1, <2>1 DEF Announced, Goroutine
  <2>3. e.kind = "message" => Announced(p)' = Announced(p)
    BY <1>1, <2>1 DEF Announced, Goroutine
  <2>4. e.kind # "message" => g = "hub" /\ Announced(p) = told[p] /\ Announced(p)' = Online(p)
    BY <1>1, <2>1 DEF Announced, Goroutine
  <2> QED
    BY <2>1, <2>2, <2>3, <2>4
<1>7. ChangeInv'
  <2>1. CASE e.kind = "message"
    <3>1. \A q \in Replica : pub'[q]["hub"] = pub[q]["hub"]
      BY <1>1, <2>1 DEF Goroutine
    <3> QED
      BY <1>1, <1>6, <3>1 DEF WInv, IInv, EventsInv, ChangeInv, Goroutine
  <2>2. CASE e.kind # "message"
    <3>1. pub'[p]["hub"] = {n} /\ \A q \in Replica \ {p} : pub'[q]["hub"] = pub[q]["hub"]
      BY <1>1, <1>6, <2>2 DEF Goroutine
    <3> QED
      BY <1>1, <1>6, <2>2, <3>1 DEF WInv, IInv, EventsInv, ChangeInv, Goroutine
  <2> QED
    BY <2>1, <2>2
\* What is right to say changes for the announced user only.
<1>8. \A q \in Replica, u \in User :
        \/ Word(q, u)' = Word(q, u)
        \/ q = p /\ u = e.user /\ e.kind # "message"
  <2>1. \A u \in User : e.kind # "message" /\ u # e.user => u \notin Changing(p)
    BY DEF WInv, ChangeInv
  <2>2. \A u \in User : u \notin Changing(p) => (u \in told[p] <=> u \in Online(p))
    BY DEF Changing
  <2> QED
    BY <1>6, <2>1, <2>2 DEF Word
<1>9. \A q \in Replica, u \in User : Says(e, u, q) => e.kind = Word(q, u)'
  BY <1>6 DEF Says, Word
<1>10. \A q \in Replica, u \in User : q = p /\ u = e.user /\ e.kind # "message" => Says(e, u, q)
  BY DEF Says
<1>11. PipeTruth'
  <2> SUFFICES ASSUME ~ lost, NEW r \in Replica, NEW q \in Replica, NEW u \in User, NEW id \in Id,
                      Pipe(r, id)', Says(events'[id], u, q), events'[id].kind # Word(q, u)'
               PROVE  \E k \in Id : id < k /\ Pipe(r, k)' /\ Says(events'[k], u, q)
    BY <1>1 DEF PipeTruth
  <2>1. Pipe(r, id) /\ id \in 1 .. Len(events) /\ events[id].from # r /\ events'[id] = events[id]
    BY <1>1, <1>4, <1>5, <1>9
  <2>2. CASE Word(q, u)' = Word(q, u)
    <3>1. PICK k \in Id : id < k /\ Pipe(r, k) /\ Says(events[k], u, q)
      BY <2>1, <2>2 DEF WInv, PipeTruth
    <3> QED
      BY <1>1, <1>4, <1>5, <3>1
  <2>3. CASE q = p /\ u = e.user /\ e.kind # "message"
    <3>1. r # p
      BY <2>1, <2>3 DEF Says
    <3> QED
      BY <1>1, <1>5, <1>10, <2>1, <2>3, <3>1
  <2> QED
    BY <1>8, <2>2, <2>3
<1>12. GotTruth'
  <2> SUFFICES ASSUME ~ lost, NEW c \in Conn, NEW r \in Replica, NEW q \in Replica, NEW u \in User,
                      NEW id \in Id, at[c] = {r}, HasGot(c, id)', Says(events'[id], u, q),
                      events'[id].kind # Word(q, u)'
               PROVE  \E k \in Id : id < k /\ Says(events'[k], u, q) /\ (HasGot(c, k)' \/ Pipe(r, k)')
    BY <1>1 DEF GotTruth
  <2>1. HasGot(c, id) /\ id \in 1 .. Len(events) /\ events'[id] = events[id]
    BY <1>1, <1>2, <1>3, <1>9
  <2>2. CASE Word(q, u)' = Word(q, u)
    <3>1. PICK k \in Id : id < k /\ Says(events[k], u, q) /\ (HasGot(c, k) \/ Pipe(r, k))
      BY <2>1, <2>2 DEF WInv, GotTruth
    <3> QED
      BY <1>1, <1>2, <1>3, <1>4, <1>5, <3>1
  <2>3. CASE q = p /\ u = e.user /\ e.kind # "message"
    <3>1. HasGot(c, n)' \/ Pipe(r, n)'
      BY <1>2, <1>5, <2>3
    <3> QED
      BY <1>1, <1>10, <2>1, <2>3, <3>1
  <2> QED
    BY <1>8, <2>2, <2>3
<1> QED
  BY <1>7, <1>11, <1>12

-----------------------------------------------------------------------------
LEMMA NextWInv == WInv /\ [Next]_vars => WInv'
<1> SUFFICES ASSUME WInv, [Next]_vars PROVE WInv'
  OBVIOUS
<1>0. IInv'
  BY NextIInv DEF WInv
<1>1. ASSUME NEW p \in Replica, BroadcastAll(p) PROVE ChangeInv' /\ PipeTruth' /\ GotTruth'
  <2>1. PICK u \in User :
          \/ u \in Online(p) \ told[p] /\ Originate(p, "hub", [from |-> p, kind |-> "online", user |-> u])
          \/ u \in told[p] \ Online(p) /\ Originate(p, "hub", [from |-> p, kind |-> "offline", user |-> u])
    BY <1>1 DEF BroadcastAll
  <2>2. /\ "hub" \in Goroutine
        /\ [from |-> p, kind |-> "online", user |-> u] \in Event
        /\ [from |-> p, kind |-> "offline", user |-> u] \in Event
    BY DEF Goroutine, Event
  <2> QED
    BY <2>1, <2>2, OriginateTruth DEF Changing
<1>2. ASSUME NEW p \in Replica, NEW u \in User, Send(p, u)
      PROVE  ChangeInv' /\ PipeTruth' /\ GotTruth'
  <2>1. "handler" \in Goroutine /\ [from |-> p, kind |-> "message", user |-> u] \in Event
    BY DEF Goroutine, Event
  <2> QED
    BY <1>2, <2>1, OriginateTruth DEF Send
<1>3. CASE UNCHANGED vars
  <2>1. ChangeInv'
    <3>1. \A q \in Replica : Online(q)' = Online(q) /\ Changing(q)' = Changing(q)
      BY <1>3 DEF vars, Changing, Online, Local
    <3> QED
      BY <1>3, <3>1 DEF vars, WInv, ChangeInv
  <2>2. \A q \in Replica : Announced(q)' = Announced(q)
    BY <1>3 DEF vars, Announced, Online, Local
  <2>3. \A q \in Replica, k \in Id : Pipe(q, k)' <=> Pipe(q, k)
    BY <1>3 DEF vars, Pipe
  <2> QED
    BY <1>0, <1>3, <2>1, <2>2, <2>3, TruthFrame DEF vars, WInv
<1> QED
  BY <1>0, <1>1, <1>2, <1>3, ConnectTruth, DisconnectTruth, RestartTruth, PublishTruth,
     HandleMessageTruth DEF Next, WInv

\* Without a loss and with nothing under way, what each replica said last of a
\* user (BroadcastAll) is true of that replica, at every connection.
THEOREM PresenceWordsAreTrue == Spec => []LastWordIsTrue
<1>1. WInv => LastWordIsTrue
  <2> SUFFICES ASSUME WInv, Quiet, ~ lost, NEW c \in Conn, NEW u \in User, NEW q \in Replica,
                      NEW i \in SaidBy(c, u, q), \A j \in SaidBy(c, u, q) : j <= i
               PROVE  events[got[c][i]].kind = IF u \in Online(q) THEN "online" ELSE "offline"
    BY DEF LastWordIsTrue, LastWord
  <2> DEFINE id == got[c][i]
  <2>1. i \in DOMAIN got[c] /\ i \in Nat /\ id \in Id /\ Says(events[id], u, q)
    BY DEF WInv, IInv, TypeOK, SaidBy, About, Says
  <2>2. Word(q, u) = IF u \in Online(q) THEN "online" ELSE "offline"
    BY DEF Quiet, Settled, Word, Announced, Goroutine
  <2>3. PICK p \in Replica : at[c] = {p}
    <3>1. at[c] # {}
      BY <2>1 DEF WInv, IInv, EventsInv
    <3>2. at[c] \in {{}} \cup {{p} : p \in Replica}
      BY DEF WInv, IInv, TypeOK
    <3> QED
      BY <3>1, <3>2
  <2>4. \A k \in Id : ~ Pipe(p, k)
    BY DEF Quiet, Pipe
  <2>5. ASSUME NEW k \in Id, id < k, Says(events[k], u, q), HasGot(c, k) PROVE FALSE
    <3>1. PICK j \in DOMAIN got[c] : got[c][j] = k
      BY <2>5 DEF HasGot
    <3>2. j \in SaidBy(c, u, q)
      BY <2>5, <3>1 DEF SaidBy, About, Says
    <3>3. j \in Nat /\ j <= i
      BY <3>2 DEF WInv, IInv, TypeOK, SaidBy, About
    <3>4. j < i => k < id
      BY <2>1, <2>5, <3>1 DEF WInv, IInv, OrderInv, InOrder, Says, Sender
    <3> QED
      BY <2>1, <2>5, <3>1, <3>3, <3>4 DEF Id
  <2>6. HasGot(c, id)
    BY <2>1 DEF HasGot
  <2> HIDE DEF id
  <2>7. events[id].kind = Word(q, u)
    BY <2>1, <2>3, <2>4, <2>5, <2>6 DEF WInv, GotTruth
  <2> QED
    BY <2>2, <2>7 DEF id
<1> QED
  BY <1>1, InitWInv, NextWInv, PTL DEF Spec

-----------------------------------------------------------------------------
(* Each replica's part of Replicas is Presence *)

\* The users that the abstract hub counts as online are those of Replicas.
LEMMA SameOnline ==
  ASSUME NEW p \in Replica
  PROVE  HubOf(p)!Online = Online(p)
<1>1. Online(p) \subseteq User
  BY ReplicasAssumption DEF Online, Local
<1> QED
  BY <1>1 DEF HubOf!Online, Online

\* The connections of each user, as the abstract hub of a replica has them.
ClientsOf(p) == [u \in User |-> {c \in Local(p) : UserOf[c] = u}]

LEMMA ConnectJoins ==
  ASSUME TypeOK, NEW c \in Conn, NEW q \in Replica, Connect(c, q), NEW p \in Replica
  PROVE  HubStep(p)
<1> USE DEF TypeOK, Connect
<1>1. CASE p = q
  <2>1. ClientsOf(p)' = [ClientsOf(p) EXCEPT ![UserOf[c]] = @ \cup {c}]
    <3>1. Local(p)' = Local(p) \cup {c}
      BY <1>1 DEF Local
    <3> QED
      BY <3>1, ReplicasAssumption DEF ClientsOf
  <2>2. HubOf(p)!Settled
    BY <1>1, SameOnline DEF HubOf!Settled, Settled
  <2> QED
    BY <2>1, <2>2 DEF ClientsOf, HubStep, HubOf!PNext, HubOf!Join
<1>2. CASE p # q
  <2>1. Local(p)' = Local(p)
    BY <1>2 DEF Local
  <2> QED
    BY <2>1 DEF HubStep, HubOf!pvars
<1> QED
  BY <1>1, <1>2

LEMMA DisconnectLeaves ==
  ASSUME TypeOK, NEW c \in Conn, Disconnect(c), NEW p \in Replica
  PROVE  HubStep(p)
<1> USE DEF TypeOK, Disconnect
<1>1. CASE at[c] = {p}
  <2>1. ClientsOf(p)' = [ClientsOf(p) EXCEPT ![UserOf[c]] = @ \ {c}]
    <3>1. Local(p)' = Local(p) \ {c}
      BY <1>1 DEF Local
    <3> QED
      BY <3>1, ReplicasAssumption DEF ClientsOf
  <2>2. HubOf(p)!Settled /\ c \in Local(p)
    BY <1>1, SameOnline DEF HubOf!Settled, Settled, Local
  <2>3. c \in ClientsOf(p)[UserOf[c]]
    BY <2>2, ReplicasAssumption DEF ClientsOf
  <2> QED
    BY <2>1, <2>2, <2>3 DEF ClientsOf, HubStep, HubOf!PNext, HubOf!Leave
<1>2. CASE at[c] # {p}
  <2>1. Local(p)' = Local(p)
    BY <1>2 DEF Local
  <2> QED
    BY <2>1 DEF HubStep, HubOf!pvars
<1> QED
  BY <1>1, <1>2

\* The hub has something to publish only while a change is not announced.
LEMMA PublishAnnounces ==
  ASSUME TypeOK, ChangeInv, NEW q \in Replica, NEW g \in Goroutine, Publish(q, g), NEW p \in Replica
  PROVE  HubStep(p)
<1>1. at' = at /\ Local(p)' = Local(p)
  BY DEF Publish, Local
<1>2. CASE p = q /\ g = "hub"
  <2>1. pub[p]["hub"] # {}
    BY <1>2 DEF Publish
  <2>2. ~ HubOf(p)!Settled
    BY <2>1, SameOnline DEF HubOf!Settled, ChangeInv, Changing
  <2>3. told'[p] = HubOf(p)!Online
    BY <1>2, SameOnline DEF Publish, TypeOK
  <2> QED
    BY <1>1, <2>2, <2>3 DEF HubStep, HubOf!PNext, HubOf!Announce
<1>3. CASE p # q \/ g # "hub"
  <2>1. told'[p] = told[p]
    BY <1>3 DEF Publish, TypeOK
  <2> QED
    BY <1>1, <2>1 DEF HubStep, HubOf!pvars
<1> QED
  BY <1>2, <1>3

LEMMA RestartIsLocal ==
  ASSUME TypeOK, NEW q \in Replica, Restart(q), NEW p \in Replica, p # q
  PROVE  HubStep(p)
<1>1. told'[p] = told[p]
  BY DEF Restart, TypeOK
<1>2. ASSUME NEW c \in Conn
      PROVE  at'[c] = {p} <=> at[c] = {p}
  BY DEF Restart, TypeOK
<1>3. Local(p)' = Local(p)
  BY <1>2 DEF Local
<1> QED
  BY <1>1, <1>3 DEF HubStep, HubOf!pvars

\* The hub that Replicas has in every server is the one that Hub implements.
THEOREM ReplicasHubsArePresence == Spec => HubsArePresence
<1>1. Init => \A p \in Replica : HubOf(p)!PInit
  <2> SUFFICES ASSUME Init, NEW p \in Replica
               PROVE  HubOf(p)!PInit
    OBVIOUS
  <2>1. Local(p) = {} /\ told[p] = {}
    BY DEF Init, Local
  <2> QED
    BY <2>1 DEF HubOf!PInit
<1>2. WInv /\ [Next]_vars => [\A p \in Replica : HubStep(p) \/ Restart(p)]_vars
  <2> SUFFICES ASSUME WInv, Next, NEW p \in Replica
               PROVE  HubStep(p) \/ Restart(p)
    OBVIOUS
  <2> USE DEF WInv, IInv
  <2>1. ASSUME NEW c \in Conn, Disconnect(c) \/ \E q \in Replica : Connect(c, q)
        PROVE  HubStep(p)
    BY <2>1, ConnectJoins, DisconnectLeaves
  <2>2. ASSUME NEW q \in Replica, BroadcastAll(q) \/ \E u \in User : Send(q, u)
        PROVE  HubStep(p)
    BY <2>2 DEF BroadcastAll, Send, Originate, Local, HubStep, HubOf!pvars
  <2>3. ASSUME NEW q \in Replica, HandleMessage(q)
        PROVE  HubStep(p)
    BY <2>3 DEF HandleMessage, Local, HubStep, HubOf!pvars
  <2>4. ASSUME NEW q \in Replica, NEW g \in Goroutine, Publish(q, g)
        PROVE  HubStep(p)
    BY <2>4, PublishAnnounces
  <2>5. ASSUME NEW q \in Replica, Restart(q)
        PROVE  HubStep(p) \/ Restart(p)
    BY <2>5, RestartIsLocal
  <2> QED
    BY <2>1, <2>2, <2>3, <2>4, <2>5 DEF Next
<1> QED
  BY <1>1, <1>2, InitWInv, NextWInv, PTL DEF Spec, HubsArePresence
=============================================================================
