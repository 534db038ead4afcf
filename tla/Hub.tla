-------------------------------- MODULE Hub --------------------------------
(* internal/ws/hub.go and client.go: the hub goroutine, the RWMutex that     *)
(* guards the clients map, the ReadPump and WritePump of every connection,   *)
(* and the other goroutines (REST handlers, typing timers, the broker's      *)
(* receive loop) that call Hub.Send.                                         *)
(*                                                                           *)
(* The content of a Send channel is abstracted to its length: nothing below  *)
(* depends on which event is taken first, and what a presence event tells    *)
(* its receiver is recorded in view when the event is enqueued.              *)
EXTENDS Naturals, FiniteSets

CONSTANTS
    Conn,       \* websocket connections; each one is accepted at most once
    User,
    UserOf,     \* the user a connection authenticated as
    Task,       \* goroutines other than the pumps that call Hub.Send
    SendCap     \* capacity of Client.Send (256 in the code)

ASSUME HubAssumption ==
    /\ UserOf \in [Conn -> User]
    /\ SendCap \in Nat \ {0}
    /\ Conn \cap Task = {}

VARIABLES
    clients,    \* Hub.clients; an absent key is the empty set
    hubPc,      \* where Hub.Run is
    hubConn,    \* the set holding the client Run received last
    hubTodo,    \* connections BroadcastAllLocal has still to visit
    told,       \* users whose last completed broadcast said "online"
    rlock,      \* goroutines inside SendLocal, holding mu.RLock
    todo,       \* [Conn \cup Task -> SUBSET Conn]: still to visit in SendLocal
    reader,     \* [Conn -> where ServeHTTP, then ReadPump, is]
    writer,     \* [Conn -> where WritePump is]
    buffered,   \* [Conn -> number of events in Client.Send]
    closed,     \* connections whose Client.Send is closed
    cancelled,  \* connections whose context is cancelled
    open,       \* connections whose websocket has not been closed
    peer,       \* connections whose remote end still answers
    lost,       \* connections that missed an event: their buffer was full
    view,       \* [Conn -> SUBSET User]: online users, as told to the client
    panicked    \* a goroutine used a closed channel: the process dies

vars == <<clients, hubPc, hubConn, hubTodo, told, rlock, todo, reader, writer,
          buffered, closed, cancelled, open, peer, lost, view, panicked>>

hubVars  == <<clients, hubPc, hubConn, hubTodo, told>>
lockVars == <<rlock, todo>>
chanVars == <<buffered, closed, panicked>>
connVars == <<cancelled, open, peer, lost, view>>

Sender == Conn \cup Task

HubPcs == {"select", "register", "lockRegister", "unregister",
           "lockUnregister", "onDisconnect", "broadcast"}
ReaderPcs == {"none", "register", "read", "unregister", "close", "done"}
WriterPcs == {"none", "select", "write", "done"}

TypeOK ==
    /\ clients \in [User -> SUBSET Conn]
    /\ hubPc \in HubPcs
    /\ hubConn \in SUBSET Conn
    /\ hubTodo \in SUBSET Conn
    /\ told \in SUBSET User
    /\ rlock \in SUBSET Sender
    /\ todo \in [Sender -> SUBSET Conn]
    /\ reader \in [Conn -> ReaderPcs]
    /\ writer \in [Conn -> WriterPcs]
    /\ buffered \in [Conn -> 0 .. SendCap]
    /\ closed \in SUBSET Conn
    /\ cancelled \in SUBSET Conn
    /\ open \in SUBSET Conn
    /\ peer \in SUBSET Conn
    /\ lost \in SUBSET Conn
    /\ view \in [Conn -> SUBSET User]
    /\ panicked \in BOOLEAN

\* Registered connections: what a walk over the whole map visits.
AllClients == UNION {clients[u] : u \in User}

Init ==
    /\ clients = [u \in User |-> {}]
    /\ hubPc = "select"
    /\ hubConn = {}
    /\ hubTodo = {}
    /\ told = {}
    /\ rlock = {}
    /\ todo = [s \in Sender |-> {}]
    /\ reader = [c \in Conn |-> "none"]
    /\ writer = [c \in Conn |-> "none"]
    /\ buffered = [c \in Conn |-> 0]
    /\ closed = {}
    /\ cancelled = {}
    /\ open = {}
    /\ peer = {}
    /\ lost = {}
    /\ view = [c \in Conn |-> {}]
    /\ panicked = FALSE

-----------------------------------------------------------------------------
\* Mutants of Offer: no default case, so a full buffer blocks the sender; the
\* default case forgets client.Disconnect; a buffer without a limit.
Offer_Blocks(c) ==
    /\ c \notin closed
    /\ buffered[c] < SendCap
    /\ buffered' = [buffered EXCEPT ![c] = @ + 1]
    /\ UNCHANGED <<cancelled, lost, panicked>>

Offer_DropsSilently(c) ==
    \/ Offer_Blocks(c)
    \/ /\ buffered[c] = SendCap
       /\ lost' = lost \cup {c}
       /\ UNCHANGED <<buffered, cancelled, panicked>>

Offer_Unbounded(c) ==
    /\ buffered' = [buffered EXCEPT ![c] = @ + 1]
    /\ UNCHANGED <<cancelled, lost, panicked>>

\* The select of SendLocal and BroadcastAllLocal: enqueue when there is room,
\* disconnect the client otherwise; a send on a closed channel panics.
Offer(c) ==
    \/ /\ c \in closed
       /\ panicked' = TRUE
       /\ UNCHANGED <<buffered, cancelled, lost>>
    \/ /\ c \notin closed
       /\ buffered[c] < SendCap
       /\ buffered' = [buffered EXCEPT ![c] = @ + 1]
       /\ UNCHANGED <<cancelled, lost, panicked>>
    \/ /\ c \notin closed
       /\ buffered[c] = SendCap
       /\ cancelled' = cancelled \cup {c}
       /\ lost' = lost \cup {c}
       /\ UNCHANGED <<buffered, panicked>>

-----------------------------------------------------------------------------
\* Hub.Run.  The receive and the Lock call are separate steps: a goroutine
\* may still enter SendLocal in between, none may once Lock is waiting.

RegisterRecv(c) ==
    /\ hubPc = "select"
    /\ reader[c] = "register"
    /\ hubPc' = "register"
    /\ hubConn' = {c}
    /\ reader' = [reader EXCEPT ![c] = "read"]
    /\ writer' = [writer EXCEPT ![c] = "select"]
    /\ UNCHANGED <<clients, hubTodo, told, lockVars, chanVars, connVars>>

UnregisterRecv(c) ==
    /\ hubPc = "select"
    /\ reader[c] = "unregister"
    /\ hubPc' = "unregister"
    /\ hubConn' = {c}
    /\ reader' = [reader EXCEPT ![c] = "close"]
    /\ UNCHANGED <<clients, hubTodo, told, lockVars, writer, chanVars, connVars>>

HubLock ==
    /\ \/ hubPc = "register" /\ hubPc' = "lockRegister"
       \/ hubPc = "unregister" /\ hubPc' = "lockUnregister"
    /\ UNCHANGED <<clients, hubConn, hubTodo, told, lockVars, reader, writer,
                   chanVars, connVars>>

\* Mutants of Register: the user's own connections alone are told; the first
\* connection of a user is not announced.
Register_TellsUserOnly ==
    /\ hubPc = "lockRegister"
    /\ rlock = {}
    /\ \E c \in hubConn :
         LET u == UserOf[c] IN
           /\ clients' = [clients EXCEPT ![u] = @ \cup {c}]
           /\ hubPc' = IF clients[u] = {} THEN "broadcast" ELSE "select"
           /\ hubTodo' = {c}
    /\ UNCHANGED <<hubConn, told, lockVars, reader, writer, chanVars, connVars>>

Register_Silent ==
    /\ hubPc = "lockRegister"
    /\ rlock = {}
    /\ \E c \in hubConn : clients' = [clients EXCEPT ![UserOf[c]] = @ \cup {c}]
    /\ hubPc' = "select"
    /\ UNCHANGED <<hubConn, hubTodo, told, lockVars, reader, writer, chanVars, connVars>>

\* Lock .. Unlock of the Register case, then the start of BroadcastAll.
Register ==
    /\ hubPc = "lockRegister"
    /\ rlock = {}
    /\ \E c \in hubConn :
         LET u == UserOf[c] IN
           /\ clients' = [clients EXCEPT ![u] = @ \cup {c}]
           /\ \/ /\ clients[u] = {}
                 /\ hubPc' = "broadcast"
                 /\ hubTodo' = AllClients \cup {c}
              \/ /\ clients[u] # {}
                 /\ hubPc' = "select"
                 /\ UNCHANGED hubTodo
    /\ UNCHANGED <<hubConn, told, lockVars, reader, writer, chanVars, connVars>>

\* Mutant of Unregister: it does not wait for the goroutines in SendLocal.
Unregister_NoLock ==
    /\ hubPc = "lockUnregister"
    /\ \E c \in hubConn :
         LET u == UserOf[c] IN
           /\ clients' = [clients EXCEPT ![u] = @ \ {c}]
           /\ hubPc' = IF clients[u] \ {c} = {} THEN "onDisconnect" ELSE "select"
    /\ closed' = closed \cup hubConn
    /\ UNCHANGED <<hubConn, hubTodo, told, lockVars, reader, writer, buffered, panicked, connVars>>

\* Lock .. Unlock of the Unregister case.
Unregister ==
    /\ hubPc = "lockUnregister"
    /\ rlock = {}
    /\ \E c \in hubConn :
         LET u == UserOf[c] IN
           \/ /\ clients[u] # {}
              /\ clients' = [clients EXCEPT ![u] = @ \ {c}]
              /\ closed' = closed \cup {c}
              /\ panicked' = (panicked \/ c \in closed)
              /\ hubPc' = IF clients[u] \ {c} = {} THEN "onDisconnect" ELSE "select"
           \/ /\ clients[u] = {}
              /\ hubPc' = "select"
              /\ UNCHANGED <<clients, closed, panicked>>
    /\ UNCHANGED <<hubConn, hubTodo, told, lockVars, reader, writer, buffered, connVars>>

\* The OnDisconnect callback returns (it only writes last_seen), then
\* BroadcastAll of the "offline" event starts.
OnDisconnect ==
    /\ hubPc = "onDisconnect"
    /\ hubPc' = "broadcast"
    /\ hubTodo' = AllClients
    /\ UNCHANGED <<clients, hubConn, told, lockVars, reader, writer, chanVars, connVars>>

\* The user the broadcast in progress is about, and the status it announces.
Subject == {UserOf[c] : c \in hubConn}
Status(u) == IF clients[u] # {} THEN "online" ELSE "offline"

HubOffer(c) ==
    /\ hubPc = "broadcast"
    /\ c \in hubTodo
    /\ hubTodo' = hubTodo \ {c}
    /\ Offer(c)
    /\ \E u \in Subject :
         view' = [view EXCEPT ![c] =
                    IF Status(u) = "online" THEN @ \cup {u} ELSE @ \ {u}]
    /\ UNCHANGED <<clients, hubPc, hubConn, told, lockVars, reader, writer,
                   closed, open, peer>>

\* BroadcastAllLocal returns and the broker has published the event.
HubBroadcastDone ==
    /\ hubPc = "broadcast"
    /\ hubTodo = {}
    /\ hubPc' = "select"
    /\ told' = (told \ Subject) \cup {u \in Subject : Status(u) = "online"}
    /\ UNCHANGED <<clients, hubConn, hubTodo, lockVars, reader, writer,
                   chanVars, connVars>>

HubStep ==
    \/ \E c \in Conn : RegisterRecv(c) \/ UnregisterRecv(c) \/ HubOffer(c)
    \/ HubLock \/ Register \/ Unregister \/ OnDisconnect \/ HubBroadcastDone

-----------------------------------------------------------------------------
\* Hub.SendLocal, from any goroutine: RLock, one select per connection,
\* RUnlock.  A Lock that waits keeps new readers out.

SendBegin(s, targets) ==
    /\ s \notin rlock
    /\ s \in Conn => reader[s] = "read"
    /\ hubPc \notin {"lockRegister", "lockUnregister"}
    /\ rlock' = rlock \cup {s}
    /\ todo' = [todo EXCEPT ![s] = UNION {clients[u] : u \in targets}]
    /\ UNCHANGED <<hubVars, reader, writer, chanVars, connVars>>

SendOffer(s, c) ==
    /\ s \in rlock
    /\ c \in todo[s]
    /\ todo' = [todo EXCEPT ![s] = @ \ {c}]
    /\ Offer(c)
    /\ UNCHANGED <<hubVars, rlock, reader, writer, closed, open, peer, view>>

\* Mutant of SendEnd: a return path that forgets RUnlock.
SendEnd_KeepsLock(s) ==
    /\ s \in rlock
    /\ todo[s] = {}
    /\ UNCHANGED vars

SendEnd(s) ==
    /\ s \in rlock
    /\ todo[s] = {}
    /\ rlock' = rlock \ {s}
    /\ UNCHANGED <<hubVars, todo, reader, writer, chanVars, connVars>>

SendStep(s) == SendEnd(s) \/ \E c \in Conn : SendOffer(s, c)

-----------------------------------------------------------------------------
\* ServeHTTP and ReadPump of one connection.

\* websocket.Accept and NewClient; the handler blocks on hub.Register.
Accept(c) ==
    /\ reader[c] = "none"
    /\ reader' = [reader EXCEPT ![c] = "register"]
    /\ open' = open \cup {c}
    /\ peer' = peer \cup {c}
    /\ UNCHANGED <<hubVars, lockVars, writer, chanVars, cancelled, lost, view>>

\* sendError: TrySend to the pump's own client, outside the hub's lock.  The
\* other branches of its select change nothing.
TrySend(c) ==
    /\ reader[c] = "read"
    /\ c \notin rlock
    /\ \/ /\ c \in closed
          /\ panicked' = TRUE
          /\ UNCHANGED buffered
       \/ /\ c \notin closed
          /\ buffered[c] < SendCap
          /\ buffered' = [buffered EXCEPT ![c] = @ + 1]
          /\ UNCHANGED panicked
    /\ UNCHANGED <<hubVars, lockVars, reader, writer, closed, connVars>>

\* Conn.Read fails: the context is cancelled or the websocket is closed.
ReadFails(c) ==
    /\ reader[c] = "read"
    /\ c \notin rlock
    /\ c \in cancelled \/ c \notin open
    /\ reader' = [reader EXCEPT ![c] = "unregister"]
    /\ open' = open \ {c}
    /\ UNCHANGED <<hubVars, lockVars, writer, chanVars, cancelled, peer, lost, view>>

\* The rest of the deferred function: Conn.Close and cancel.
ReaderClose(c) ==
    /\ reader[c] = "close"
    /\ reader' = [reader EXCEPT ![c] = "done"]
    /\ open' = open \ {c}
    /\ cancelled' = cancelled \cup {c}
    /\ UNCHANGED <<hubVars, lockVars, writer, chanVars, peer, lost, view>>

ReaderStep(c) == ReadFails(c) \/ ReaderClose(c)

-----------------------------------------------------------------------------
\* WritePump of one connection.

\* A closed channel still yields the events that were enqueued before.
WriterTake(c) ==
    /\ writer[c] = "select"
    /\ buffered[c] > 0
    /\ buffered' = [buffered EXCEPT ![c] = @ - 1]
    /\ writer' = [writer EXCEPT ![c] = "write"]
    /\ UNCHANGED <<hubVars, lockVars, reader, closed, panicked, connVars>>

WriteDone(c) ==
    /\ writer[c] = "write"
    /\ c \in open
    /\ writer' = [writer EXCEPT ![c] = "select"]
    /\ UNCHANGED <<hubVars, lockVars, reader, chanVars, connVars>>

\* Mutant of WriterExit: WritePump returns without closing the websocket.
WriterExit_LeavesOpen(c) ==
    /\ writer' = [writer EXCEPT ![c] = "done"]
    /\ UNCHANGED <<hubVars, lockVars, reader, chanVars, connVars>>

\* WritePump returns; its deferred Conn.Close closes the websocket.
WriterExit(c) ==
    /\ writer' = [writer EXCEPT ![c] = "done"]
    /\ open' = open \ {c}
    /\ UNCHANGED <<hubVars, lockVars, reader, chanVars, cancelled, peer, lost, view>>

\* The websocket or the context is gone, or the peer does not read.
WriteFails(c) ==
    /\ writer[c] = "write"
    /\ c \in cancelled \/ c \notin open \/ c \notin peer
    /\ WriterExit(c)

\* The ticker fires and no pong arrives within writeWait.
PingFails(c) ==
    /\ writer[c] = "select"
    /\ c \in cancelled \/ c \notin open \/ c \notin peer
    /\ WriterExit(c)

\* Send is closed and drained, or the context is done.
WriterStops(c) ==
    /\ writer[c] = "select"
    /\ c \in cancelled \/ (c \in closed /\ buffered[c] = 0)
    /\ WriterExit(c)

WriterStep(c) == WriterTake(c) \/ WriteDone(c) \/ WriteFails(c) \/ WriterStops(c)

-----------------------------------------------------------------------------
\* The network: the peer closes the websocket, or vanishes without a word.

PeerCloses(c) ==
    /\ c \in open
    /\ open' = open \ {c}
    /\ UNCHANGED <<hubVars, lockVars, reader, writer, chanVars, cancelled, peer, lost, view>>

PeerVanishes(c) ==
    /\ c \in peer
    /\ peer' = peer \ {c}
    /\ UNCHANGED <<hubVars, lockVars, reader, writer, chanVars, cancelled, open, lost, view>>

-----------------------------------------------------------------------------
ConnStep(c) ==
    \/ Accept(c) \/ TrySend(c) \/ ReaderStep(c)
    \/ WriterStep(c) \/ PingFails(c)
    \/ PeerCloses(c) \/ PeerVanishes(c)

Next ==
    /\ ~ panicked
    /\ \/ HubStep
       \/ \E s \in Sender : SendStep(s) \/ \E targets \in SUBSET User : SendBegin(s, targets)
       \/ \E c \in Conn : ConnStep(c)

Spec == Init /\ [][Next]_vars

\* Go schedules every runnable goroutine.  Read returns an error once the
\* websocket is closed or its context is done, however often the handler sends
\* in between, and select picks uniformly among ready cases: strong fairness.
Fairness ==
    /\ WF_vars(HubStep)
    /\ \A s \in Sender : WF_vars(SendStep(s))
    /\ \A c \in Conn :
         /\ SF_vars(ReadFails(c))
         /\ WF_vars(ReaderClose(c))
         /\ WF_vars(WriterStep(c))
         /\ SF_vars(PingFails(c))

FairSpec == Spec /\ Fairness

-----------------------------------------------------------------------------
(* Properties *)

\* No goroutine ever sends on, or closes, a channel that is closed: the mutex
\* keeps Hub.Run's close apart from SendLocal, and TrySend, which takes no lock,
\* is only reached before its own pump asks to be unregistered.
PanicFree == ~ panicked

\* What PanicFree rests on: a connection is unregistered, and its channel
\* closed, by one Unregister at a time, and nobody who may still send to it
\* outlives that Lock section.
RegisteredBy(c) == c \in clients[UserOf[c]]

HubInv ==
    /\ \A u \in User : \A c \in clients[u] : UserOf[c] = u /\ c \notin closed
    /\ \A s \in rlock : todo[s] \subseteq AllClients
    /\ hubPc = "broadcast" => hubTodo \subseteq AllClients
    /\ \A c \in Conn :
         /\ reader[c] \in {"none", "register"} => c \notin closed /\ ~ RegisteredBy(c)
         /\ reader[c] \in {"read", "unregister"} =>
              \/ RegisteredBy(c)
              \/ hubPc \in {"register", "lockRegister"} /\ c \in hubConn /\ c \notin closed
         /\ reader[c] \in {"close", "done"} =>
              \/ ~ RegisteredBy(c)
              \/ hubPc \in {"unregister", "lockUnregister"} /\ c \in hubConn
    /\ hubPc \in {"register", "lockRegister"} =>
         \E c \in Conn : hubConn = {c} /\ ~ RegisteredBy(c) /\ reader[c] \in {"read", "unregister"}
    /\ hubPc \in {"unregister", "lockUnregister"} =>
         \E c \in Conn : hubConn = {c} /\ RegisteredBy(c) /\ reader[c] \in {"close", "done"}
    /\ hubPc \in {"onDisconnect", "broadcast"} => \E c \in Conn : hubConn = {c}

\* Nobody is left behind: once an event was dropped, either pump gave up or the
\* channel was closed, the connection's context is cancelled or its websocket is
\* closed, which is what ReadFails, WriteFails and PingFails wait for.
Leaving(c) ==
    \/ c \in lost \cup closed
    \/ writer[c] = "done"
    \/ reader[c] \in {"unregister", "close", "done"}

NobodyLeftBehind == \A c \in Conn : Leaving(c) => c \in cancelled \/ c \notin open

\* When Hub.Run waits for the next client, every user it last announced as
\* online has a connection here and every other user has none (IsOnline agrees
\* with what was broadcast); when OnDisconnect runs, the user's last connection
\* is gone.
OnlineHere == {u \in User : clients[u] # {}}

PresenceSettled ==
    /\ hubPc \in {"select", "register", "lockRegister", "unregister", "lockUnregister"} =>
         told = OnlineHere
    /\ hubPc = "onDisconnect" => told = OnlineHere \cup Subject /\ Subject \cap OnlineHere = {}

\* When a broadcast is over, every connection that is registered then and has
\* missed no event was told the new status, the newly registered one included.
AnnouncementReachesAll ==
    [][\A u \in User : (u \in told) # (u \in told') =>
          \A c \in AllClients \ lost : (u \in view[c]) = (u \in told')]_vars

\* The hub announces every change of a user's presence before it lets another
\* connection join or leave.
P == INSTANCE Presence WITH clients <- clients, told <- told
PresenceImplemented == P!PSafety

\* ... and it does announce it, unless it is stuck.
PresenceAnnounced == (told # OnlineHere) ~> (told = OnlineHere)

\* A client whose buffer was full is unregistered, so it has to come back and
\* sync afresh: a lost event is never silent for ever.
LossForcesLeave == \A c \in Conn : (c \in lost) ~> (c \notin AllClients)

\* A peer that vanished is found by the pings and its connection leaves the hub.
DeadPeerLeaves ==
    \A c \in Conn : (c \in AllClients /\ c \notin peer) ~> (c \notin AllClients)

\* Once a client is disconnected or unregistered, both its pumps return.
PumpsReturn ==
    \A c \in Conn : (c \in cancelled \cup closed) ~> (reader[c] = "done" /\ writer[c] = "done")
=============================================================================
