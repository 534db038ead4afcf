------------------------------ MODULE Replicas ------------------------------
(* Several servers behind one Redis channel: internal/ws/broker.go and the   *)
(* calls of it in internal/ws/hub.go.  What happens inside one hub is in     *)
(* Hub.tla, and what Hub.tla implements, Presence.tla, is how a hub appears  *)
(* here: one connection joins or leaves at a time, a change of presence is   *)
(* announced before the next.  A walk over the local connections is one step *)
(* here, and a full buffer is a connection that leaves.                      *)
EXTENDS Naturals, FiniteSets, Sequences

CONSTANTS
    Conn,           \* clients; one that comes back has a fresh connection
    User,
    UserOf,         \* the user of a client
    Replica,        \* servers; each one has an InstanceID of its own
    MaxEvents       \* bound: events sent

ASSUME ReplicasAssumption ==
    /\ UserOf \in [Conn -> User]
    /\ MaxEvents \in Nat

VARIABLES
    at,         \* [Conn -> no replica, or the one the client is connected to]
    told,       \* [Replica -> users it last announced as online]
    events,     \* every event sent so far; the index is its identity
    pub,        \* [Replica -> [Goroutine -> no id, or one]]: about to be published
    inbox,      \* [Replica -> envelopes its subscription has not handled]
    got,        \* [Conn -> ids of the events enqueued to the connection]
    due,        \* [Conn -> ids of the events sent to it while connected]
    lost        \* an event was lost between replicas (history)

vars == <<at, told, events, pub, inbox, got, due, lost>>

\* Who calls Publish: Hub.Run with presence, a request handler with the rest.
Goroutine == {"hub", "handler"}

Id == 1 .. MaxEvents
Event == [from : Replica, kind : {"online", "offline", "message"}, user : User]
Envelope == [origin : Replica, id : Id]

TypeOK ==
    /\ at \in [Conn -> {{}} \cup {{p} : p \in Replica}]
    /\ told \in [Replica -> SUBSET User]
    /\ events \in Seq(Event) /\ Len(events) <= MaxEvents
    /\ pub \in [Replica -> [Goroutine -> {{}} \cup {{id} : id \in Id}]]
    /\ inbox \in [Replica -> Seq(Envelope)]
    /\ got \in [Conn -> Seq(Id)]
    /\ due \in [Conn -> SUBSET Id]
    /\ lost \in BOOLEAN

Init ==
    /\ at = [c \in Conn |-> {}]
    /\ told = [p \in Replica |-> {}]
    /\ events = <<>>
    /\ pub = [p \in Replica |-> [g \in Goroutine |-> {}]]
    /\ inbox = [p \in Replica |-> <<>>]
    /\ got = [c \in Conn |-> <<>>]
    /\ due = [c \in Conn |-> {}]
    /\ lost = FALSE

Local(p) == {c \in Conn : at[c] = {p}}
Online(p) == {UserOf[c] : c \in Local(p)}
Settled(p) == told[p] = Online(p)

\* BroadcastAllLocal goes to every connection, SendLocal to those of the users.
Addressed(e) == {c \in Conn : e.kind = "message" => UserOf[c] = e.user}

Deliver(conns, id) ==
    got' = [c \in Conn |-> IF c \in conns THEN Append(got[c], id) ELSE got[c]]

\* Mutant of Originate: Publish is called in a goroutine of its own.
Originate_Async(p, g, e) ==
    /\ Len(events) < MaxEvents
    /\ events' = Append(events, e)
    /\ LET id == Len(events) + 1 IN
         /\ Deliver(Addressed(e) \cap Local(p), id)
         /\ pub' = [pub EXCEPT ![p][g] = @ \cup {id}]
         /\ due' = [c \in Conn |->
              IF c \in Addressed(e) /\ at[c] # {} THEN due[c] \cup {id} ELSE due[c]]
    /\ UNCHANGED <<at, told, inbox, lost>>

\* A new event: local connections get it, then it is handed to the broker.
Originate(p, g, e) ==
    /\ pub[p][g] = {}
    /\ Len(events) < MaxEvents
    /\ events' = Append(events, e)
    /\ LET id == Len(events) + 1 IN
         /\ Deliver(Addressed(e) \cap Local(p), id)
         /\ pub' = [pub EXCEPT ![p][g] = {id}]
         /\ due' = [c \in Conn |->
              IF c \in Addressed(e) /\ at[c] # {} THEN due[c] \cup {id} ELSE due[c]]
    /\ UNCHANGED <<at, told, inbox, lost>>

-----------------------------------------------------------------------------
(* One replica's hub: the actions of Presence.tla *)

\* Mutant of Connect: the hub announces in a goroutine and takes the next one.
Connect_Early(c, p) ==
    /\ at[c] = {}
    /\ at' = [at EXCEPT ![c] = {p}]
    /\ UNCHANGED <<told, events, pub, inbox, got, due, lost>>

Connect(c, p) ==
    /\ at[c] = {}
    /\ Settled(p)
    /\ at' = [at EXCEPT ![c] = {p}]
    /\ UNCHANGED <<told, events, pub, inbox, got, due, lost>>

Disconnect(c) ==
    /\ \E p \in at[c] : Settled(p)
    /\ at' = [at EXCEPT ![c] = {}]
    /\ got' = [got EXCEPT ![c] = <<>>]
    /\ due' = [due EXCEPT ![c] = {}]
    /\ UNCHANGED <<told, events, pub, inbox, lost>>

\* BroadcastAll: BroadcastAllLocal, then PublishBroadcast.
BroadcastAll(p) ==
    \E u \in User :
        \/ /\ u \in Online(p) \ told[p]
           /\ Originate(p, "hub", [from |-> p, kind |-> "online", user |-> u])
        \/ /\ u \in told[p] \ Online(p)
           /\ Originate(p, "hub", [from |-> p, kind |-> "offline", user |-> u])

\* Hub.Send: SendLocal, then Publish.
Send(p, u) == Originate(p, "handler", [from |-> p, kind |-> "message", user |-> u])

-----------------------------------------------------------------------------
(* The broker and Redis Pub/Sub *)

\* A replica whose subscription is down or overflows misses the event; if
\* Redis refuses it, all do, and the error is only logged.  The publisher's own
\* subscription receives it too.
ToRedis(p, id, receivers) ==
    inbox' = [q \in Replica |->
        IF q \in receivers THEN Append(inbox[q], [origin |-> p, id |-> id]) ELSE inbox[q]]

\* The hub goes on once its event is published.
Publish(p, g) ==
    /\ \E id \in pub[p][g], receivers \in SUBSET Replica :
         /\ ToRedis(p, id, receivers)
         /\ lost' = (lost \/ receivers # Replica)
         /\ pub' = [pub EXCEPT ![p][g] = @ \ {id}]
    /\ told' = IF g = "hub" THEN [told EXCEPT ![p] = Online(p)] ELSE told
    /\ UNCHANGED <<at, events, got, due>>

\* Mutants of HandleMessage: own events are not skipped; every message is handled
\* by a goroutine of its own; broadcasts are taken for targeted events.
HandleMessage_KeepsOwn(p) ==
    /\ inbox[p] # <<>>
    /\ inbox' = [inbox EXCEPT ![p] = Tail(@)]
    /\ Deliver(Addressed(events[Head(inbox[p]).id]) \cap Local(p), Head(inbox[p]).id)
    /\ UNCHANGED <<at, told, events, pub, due, lost>>

HandleMessage_Unordered(p) ==
    /\ \E i \in DOMAIN inbox[p] :
         LET m == inbox[p][i] IN
           /\ inbox' = [inbox EXCEPT ![p] = SubSeq(@, 1, i - 1) \o SubSeq(@, i + 1, Len(@))]
           /\ Deliver(IF m.origin = p THEN {} ELSE Addressed(events[m.id]) \cap Local(p), m.id)
    /\ UNCHANGED <<at, told, events, pub, due, lost>>

HandleMessage_TargetsAll(p) ==
    /\ inbox[p] # <<>>
    /\ inbox' = [inbox EXCEPT ![p] = Tail(@)]
    /\ LET m == Head(inbox[p])
           e == events[m.id] IN
         Deliver({c \in Local(p) : m.origin # p /\ UserOf[c] = e.user}, m.id)
    /\ UNCHANGED <<at, told, events, pub, due, lost>>

\* Broker.Run takes the next message: an event of this instance is skipped, any
\* other goes to the local connections it is addressed to.
HandleMessage(p) ==
    /\ inbox[p] # <<>>
    /\ inbox' = [inbox EXCEPT ![p] = Tail(@)]
    /\ LET m == Head(inbox[p]) IN
         \/ /\ m.origin = p
            /\ UNCHANGED got
         \/ /\ m.origin # p
            /\ Deliver(Addressed(events[m.id]) \cap Local(p), m.id)
    /\ UNCHANGED <<at, told, events, pub, due, lost>>

\* The process is stopped, by a signal or a crash, and started again: its
\* connections break, and nobody announces that their users are gone.
Restart(p) ==
    /\ at' = [c \in Conn |-> at[c] \ {p}]
    /\ got' = [c \in Conn |-> IF c \in Local(p) THEN <<>> ELSE got[c]]
    /\ due' = [c \in Conn |-> IF c \in Local(p) THEN {} ELSE due[c]]
    /\ told' = [told EXCEPT ![p] = {}]
    /\ pub' = [pub EXCEPT ![p] = [g \in Goroutine |-> {}]]
    /\ inbox' = [inbox EXCEPT ![p] = <<>>]
    /\ lost' = (lost \/ Online(p) # {} \/ told[p] # {} \/ \E g \in Goroutine : pub[p][g] # {})
    /\ UNCHANGED events

-----------------------------------------------------------------------------
Next ==
    \/ \E c \in Conn : Disconnect(c) \/ \E p \in Replica : Connect(c, p)
    \/ \E p \in Replica :
         \/ BroadcastAll(p) \/ HandleMessage(p) \/ Restart(p)
         \/ \E u \in User : Send(p, u)
         \/ \E g \in Goroutine : Publish(p, g)

Spec == Init /\ [][Next]_vars

-----------------------------------------------------------------------------
(* Properties *)

\* The connections to one replica, by user, and what it announced of them.
HubOf(p) == INSTANCE Presence WITH
    clients <- [u \in User |-> {c \in Local(p) : UserOf[c] = u}],
    told <- told[p]

HubStep(p) == UNCHANGED HubOf(p)!pvars \/ HubOf(p)!PNext

\* Between restarts each replica's part of this module is Presence, which the
\* hub of one server implements: whatever the other replicas, the handlers and
\* Redis do, every change is announced before the next connection joins or
\* leaves, and nothing is announced when nothing has changed.
HubsArePresence ==
    /\ \A p \in Replica : HubOf(p)!PInit
    /\ [][\A p \in Replica : HubStep(p) \/ Restart(p)]_vars

\* A connection receives an event at most once, and only if it is addressed to
\* it: the publisher's own subscription brings its events back, and what the
\* broker delivers is never published again.
AtMostOnce ==
    \A c \in Conn :
        /\ \A i, j \in DOMAIN got[c] : got[c][i] = got[c][j] => i = j
        /\ \A i \in DOMAIN got[c] : c \in Addressed(events[got[c][i]])

Sender(e) == <<e.from, e.kind = "message">>

\* What one goroutine sends arrives in the order it was sent, on every replica
\* and whatever is lost: no "online" overtakes the "offline" before it.
InOrder ==
    \A c \in Conn : \A i, j \in DOMAIN got[c] :
        i < j /\ Sender(events[got[c][i]]) = Sender(events[got[c][j]]) => got[c][i] < got[c][j]

\* Nothing is under way any more.
Quiet ==
    \A p \in Replica :
        /\ Settled(p)
        /\ inbox[p] = <<>>
        /\ \A g \in Goroutine : pub[p][g] = {}

\* When all is quiet and nothing was lost between replicas, every connection has
\* every event sent to it since it connected.
NothingMissing ==
    Quiet /\ ~ lost => \A c \in Conn : \A id \in due[c] : \E i \in DOMAIN got[c] : got[c][i] = id

\* The last thing a connection was told of a user by some replica, and by any.
About(c, u) ==
    {i \in DOMAIN got[c] : events[got[c][i]].kind # "message" /\ events[got[c][i]].user = u}
SaidBy(c, u, p) == {i \in About(c, u) : events[got[c][i]].from = p}
LastWord(c, S) == {events[got[c][i]].kind : i \in {i \in S : \A j \in S : j <= i}}

\* When all is quiet and nothing was lost, what each replica said last about a
\* user is true of that replica.
LastWordIsTrue ==
    Quiet /\ ~ lost =>
        \A c \in Conn, u \in User, p \in Replica :
            LastWord(c, SaidBy(c, u, p)) \subseteq {IF u \in Online(p) THEN "online" ELSE "offline"}

\* With the broker, presence reflects the users connected to every instance: a
\* user last reported offline has no connection anywhere.
PresenceReflectsAll ==
    Quiet /\ ~ lost =>
        \A c \in Conn, u \in User :
            "offline" \in LastWord(c, About(c, u)) => \A p \in Replica : u \notin Online(p)
=============================================================================
