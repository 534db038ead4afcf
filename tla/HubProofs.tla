----------------------------- MODULE HubProofs -----------------------------
(* Theorems about Hub, for every number of users, connections, goroutines  *)
(* and every buffer size.                                                   *)
EXTENDS Hub, TLAPS

USE DEF Sender

-----------------------------------------------------------------------------
(* Type correctness *)

LEMMA OfferType ==
    ASSUME TypeOK, NEW c \in Conn, Offer(c)
    PROVE  /\ buffered' \in [Conn -> 0 .. SendCap]
           /\ cancelled' \in SUBSET Conn
           /\ lost' \in SUBSET Conn
           /\ panicked' \in BOOLEAN
<1>1. buffered' \in [Conn -> 0 .. SendCap]
  <2>1. CASE buffered' = [buffered EXCEPT ![c] = @ + 1] /\ buffered[c] < SendCap
    BY <2>1, HubAssumption DEF TypeOK
  <2>2. CASE UNCHANGED buffered
    BY <2>2 DEF TypeOK
  <2> QED
    BY <2>1, <2>2 DEF Offer
<1>2. cancelled' \in SUBSET Conn /\ lost' \in SUBSET Conn
  BY DEF Offer, TypeOK
<1>3. panicked' \in BOOLEAN
  BY Zenon DEF Offer, TypeOK
<1> QED
  BY <1>1, <1>2, <1>3

LEMMA HubStepType ==
    ASSUME TypeOK, HubStep
    PROVE  TypeOK'
<1> USE HubAssumption DEF TypeOK, hubVars, lockVars, chanVars, connVars
<1>1. CASE \E c \in Conn : RegisterRecv(c)
  BY <1>1 DEF RegisterRecv, HubPcs, ReaderPcs, WriterPcs
<1>2. CASE \E c \in Conn : UnregisterRecv(c)
  BY <1>2 DEF UnregisterRecv, HubPcs, ReaderPcs
<1>3. ASSUME NEW c \in Conn, HubOffer(c)
      PROVE  TypeOK'
  <2>1. /\ buffered' \in [Conn -> 0 .. SendCap]
        /\ cancelled' \in SUBSET Conn
        /\ lost' \in SUBSET Conn
        /\ panicked' \in BOOLEAN
    BY <1>3, OfferType DEF HubOffer
  <2>2. view' \in [Conn -> SUBSET User]
    BY <1>3 DEF HubOffer, Subject
  <2> QED
    BY <1>3, <2>1, <2>2 DEF HubOffer
<1>4. CASE HubLock
  BY <1>4 DEF HubLock, HubPcs
<1>5. CASE Register
  <2>1. PICK c \in hubConn : clients' = [clients EXCEPT ![UserOf[c]] = @ \cup {c}]
    BY <1>5 DEF Register
  <2>2. hubPc' \in HubPcs /\ hubTodo' \in SUBSET Conn
    BY <1>5 DEF Register, HubPcs, AllClients
  <2> QED
    BY <1>5, <2>1, <2>2 DEF Register
<1>6. CASE Unregister
  <2>1. clients' \in [User -> SUBSET Conn] /\ closed' \in SUBSET Conn
    BY <1>6 DEF Unregister
  <2>3. panicked' \in BOOLEAN
    BY <1>6, Zenon DEF Unregister
  <2>2. hubPc' \in HubPcs
    BY <1>6 DEF Unregister, HubPcs
  <2> QED
    BY <1>6, <2>1, <2>2, <2>3 DEF Unregister
<1>7. CASE OnDisconnect
  BY <1>7 DEF OnDisconnect, HubPcs, AllClients
<1>8. CASE HubBroadcastDone
  BY <1>8 DEF HubBroadcastDone, HubPcs, Subject
<1> QED
  BY <1>1, <1>2, <1>3, <1>4, <1>5, <1>6, <1>7, <1>8 DEF HubStep

LEMMA SendType ==
    ASSUME TypeOK, NEW s \in Sender,
           SendStep(s) \/ \E targets \in SUBSET User : SendBegin(s, targets)
    PROVE  TypeOK'
<1> USE HubAssumption DEF TypeOK, hubVars, lockVars, chanVars, connVars
<1>1. CASE SendEnd(s)
  BY <1>1 DEF SendEnd
<1>2. ASSUME NEW c \in Conn, SendOffer(s, c)
      PROVE  TypeOK'
  <2>1. /\ buffered' \in [Conn -> 0 .. SendCap]
        /\ cancelled' \in SUBSET Conn
        /\ lost' \in SUBSET Conn
        /\ panicked' \in BOOLEAN
    BY <1>2, OfferType DEF SendOffer
  <2> QED
    BY <1>2, <2>1 DEF SendOffer
<1>3. ASSUME NEW targets \in SUBSET User, SendBegin(s, targets)
      PROVE  TypeOK'
  <2>1. UNION {clients[u] : u \in targets} \in SUBSET Conn
    OBVIOUS
  <2> QED
    BY <1>3, <2>1 DEF SendBegin
<1> QED
  BY <1>1, <1>2, <1>3 DEF SendStep

LEMMA ConnStepType ==
    ASSUME TypeOK, NEW c \in Conn, ConnStep(c)
    PROVE  TypeOK'
<1> USE HubAssumption DEF TypeOK, ReaderPcs, WriterPcs, hubVars, lockVars, chanVars, connVars
<1>1. CASE Accept(c)
  BY <1>1 DEF Accept
<1>2. CASE TrySend(c)
  <2>1. buffered' \in [Conn -> 0 .. SendCap]
    BY <1>2 DEF TrySend
  <2>2. panicked' \in BOOLEAN
    BY <1>2, Zenon DEF TrySend
  <2> QED
    BY <1>2, <2>1, <2>2 DEF TrySend
<1>3. CASE ReaderStep(c)
  BY <1>3 DEF ReaderStep, ReadFails, ReaderClose
<1>4. CASE WriterTake(c)
  BY <1>4 DEF WriterTake
<1>5. CASE WriteDone(c)
  BY <1>5 DEF WriteDone
<1>6. CASE WriterExit(c)
  BY <1>6 DEF WriterExit
<1>7. CASE PeerCloses(c)
  BY <1>7 DEF PeerCloses
<1>8. CASE PeerVanishes(c)
  BY <1>8 DEF PeerVanishes
<1> QED
  BY <1>1, <1>2, <1>3, <1>4, <1>5, <1>6, <1>7, <1>8
  DEF ConnStep, WriterStep, WriteFails, WriterStops, PingFails

\* Every variable of the hub, the pumps and the channels keeps its type; in
\* particular no Send channel ever holds more than SendCap events.
THEOREM TypeCorrect == Spec => []TypeOK
<1>1. Init => TypeOK
  <2> SUFFICES ASSUME Init
               PROVE  TypeOK
    OBVIOUS
  <2>1. buffered \in [Conn -> 0 .. SendCap]
    BY HubAssumption DEF Init
  <2>2. /\ clients \in [User -> SUBSET Conn]
        /\ todo \in [Sender -> SUBSET Conn]
        /\ view \in [Conn -> SUBSET User]
    BY DEF Init
  <2>3. reader \in [Conn -> ReaderPcs] /\ writer \in [Conn -> WriterPcs]
    BY DEF Init, ReaderPcs, WriterPcs
  <2> QED
    BY <2>1, <2>2, <2>3 DEF Init, TypeOK, HubPcs
<1>2. TypeOK /\ [Next]_vars => TypeOK'
  <2> SUFFICES ASSUME TypeOK, [Next]_vars
               PROVE  TypeOK'
    OBVIOUS
  <2>1. CASE HubStep
    BY <2>1, HubStepType
  <2>2. CASE \E s \in Sender : SendStep(s) \/ \E targets \in SUBSET User : SendBegin(s, targets)
    BY <2>2, SendType
  <2>3. CASE \E c \in Conn : ConnStep(c)
    BY <2>3, ConnStepType
  <2>4. CASE UNCHANGED vars
    BY <2>4 DEF vars, TypeOK
  <2> QED
    BY <2>1, <2>2, <2>3, <2>4 DEF Next
<1> QED
  BY <1>1, <1>2, PTL DEF Spec

-----------------------------------------------------------------------------
(* No send on, and no second close of, a closed channel *)

\* A connection that is in the map may be sent to: its channel is open.
LEMMA RegisteredIsOpen ==
    ASSUME TypeOK, HubInv, NEW c \in AllClients
    PROVE  c \in Conn /\ c \notin closed /\ RegisteredBy(c)
BY DEF TypeOK, HubInv, AllClients, RegisteredBy

\* Steps that only take connections off a list of connections still to visit,
\* and leave the map, the lock's owner and the channels alone, are harmless.
LEMMA HubInvFrame ==
    ASSUME HubInv,
           UNCHANGED <<clients, hubPc, hubConn, reader, closed>>,
           hubTodo' \subseteq hubTodo,
           rlock' \subseteq rlock,
           \A s \in rlock' : todo'[s] \subseteq todo[s]
    PROVE  HubInv'
BY DEF HubInv, AllClients, RegisteredBy

LEMMA OfferIsSafe ==
    ASSUME PanicFree, NEW c, c \notin closed, Offer(c)
    PROVE  PanicFree'
BY DEF PanicFree, Offer

LEMMA RegisterInv ==
    ASSUME TypeOK, HubInv, PanicFree, Register
    PROVE  HubInv' /\ PanicFree'
<1> USE HubAssumption DEF TypeOK, hubVars, lockVars, chanVars, connVars
<1>1. PICK c \in Conn : /\ hubConn = {c}
                        /\ ~ RegisteredBy(c)
                        /\ reader[c] \in {"read", "unregister"}
  BY DEF Register, HubInv
<1>2. c \notin closed
  BY <1>1 DEF Register, HubInv
<1>3. /\ clients' = [clients EXCEPT ![UserOf[c]] = @ \cup {c}]
      /\ hubPc' \in {"broadcast", "select"}
      /\ hubPc' = "broadcast" => hubTodo' = AllClients \cup {c}
      /\ rlock' = {}
      /\ UNCHANGED <<hubConn, reader, closed, panicked>>
  BY <1>1 DEF Register
<1>4. /\ UserOf[c] \in User
      /\ clients'[UserOf[c]] = clients[UserOf[c]] \cup {c}
      /\ \A u \in User \ {UserOf[c]} : clients'[u] = clients[u]
  BY <1>3
<1>5. AllClients' = AllClients \cup {c}
  BY <1>4 DEF AllClients
<1>6. \A d \in Conn : RegisteredBy(d)' <=> (RegisteredBy(d) \/ d = c)
  BY <1>4 DEF RegisteredBy
<1>7. \A u \in User : \A d \in clients'[u] : UserOf[d] = u /\ d \notin closed'
  BY <1>2, <1>3, <1>4 DEF HubInv
<1>8. \A d \in Conn :
         /\ reader'[d] \in {"none", "register"} => d \notin closed' /\ ~ RegisteredBy(d)'
         /\ reader'[d] \in {"read", "unregister"} => RegisteredBy(d)'
         /\ reader'[d] \in {"close", "done"} => ~ RegisteredBy(d)'
  BY <1>1, <1>3, <1>6 DEF HubInv, Register
<1>9. HubInv'
  BY <1>1, <1>3, <1>5, <1>7, <1>8 DEF HubInv
<1> QED
  BY <1>3, <1>9 DEF PanicFree

LEMMA UnregisterInv ==
    ASSUME TypeOK, HubInv, PanicFree, Unregister
    PROVE  HubInv' /\ PanicFree'
<1> USE HubAssumption DEF TypeOK, hubVars, lockVars, chanVars, connVars
<1>1. PICK c \in Conn : /\ hubConn = {c}
                        /\ RegisteredBy(c)
                        /\ reader[c] \in {"close", "done"}
  BY DEF Unregister, HubInv
<1>2. UserOf[c] \in User /\ clients[UserOf[c]] # {} /\ c \notin closed
  BY <1>1 DEF RegisteredBy, HubInv
<1>3. /\ clients' = [clients EXCEPT ![UserOf[c]] = @ \ {c}]
      /\ closed' = closed \cup {c}
      /\ panicked' = (panicked \/ c \in closed)
      /\ hubPc' \in {"onDisconnect", "select"}
      /\ rlock' = {}
      /\ UNCHANGED <<hubConn, reader>>
  <2>1. panicked' = (panicked \/ c \in closed)
    BY <1>1, <1>2, Zenon DEF Unregister
  <2> QED
    BY <1>1, <1>2, <2>1 DEF Unregister
<1>4. /\ clients'[UserOf[c]] = clients[UserOf[c]] \ {c}
      /\ \A u \in User \ {UserOf[c]} : clients'[u] = clients[u]
  BY <1>2, <1>3
<1>5. \A d \in Conn : RegisteredBy(d)' <=> (RegisteredBy(d) /\ d # c)
  BY <1>4 DEF RegisteredBy
<1>6. \A u \in User : \A d \in clients'[u] : UserOf[d] = u /\ d \notin closed'
  BY <1>3, <1>4 DEF HubInv
<1>7. \A d \in Conn :
         /\ reader'[d] \in {"none", "register"} => d \notin closed' /\ ~ RegisteredBy(d)'
         /\ reader'[d] \in {"read", "unregister"} => RegisteredBy(d)'
         /\ reader'[d] \in {"close", "done"} => ~ RegisteredBy(d)'
  BY <1>1, <1>3, <1>5 DEF HubInv, Unregister
<1>8. HubInv'
  BY <1>1, <1>3, <1>6, <1>7 DEF HubInv
<1> QED
  BY <1>2, <1>3, <1>8 DEF PanicFree

LEMMA HubStepInv ==
    ASSUME TypeOK, HubInv, PanicFree, HubStep
    PROVE  HubInv' /\ PanicFree'
<1> USE DEF hubVars, lockVars, chanVars, connVars
<1>1. ASSUME NEW c \in Conn, RegisterRecv(c)
      PROVE  HubInv' /\ PanicFree'
  BY <1>1 DEF RegisterRecv, HubInv, PanicFree, TypeOK, AllClients, RegisteredBy
<1>2. ASSUME NEW c \in Conn, UnregisterRecv(c)
      PROVE  HubInv' /\ PanicFree'
  BY <1>2 DEF UnregisterRecv, HubInv, PanicFree, TypeOK, AllClients, RegisteredBy
<1>3. ASSUME NEW c \in Conn, HubOffer(c)
      PROVE  HubInv' /\ PanicFree'
  <2>1. HubInv'
    BY <1>3, HubInvFrame DEF HubOffer
  <2>2. c \notin closed
    BY <1>3, RegisteredIsOpen DEF HubOffer, HubInv
  <2> QED
    BY <1>3, <2>1, <2>2, OfferIsSafe DEF HubOffer
<1>4. CASE HubLock
  BY <1>4 DEF HubLock, HubInv, PanicFree, AllClients, RegisteredBy
<1>5. CASE OnDisconnect
  BY <1>5 DEF OnDisconnect, HubInv, PanicFree, AllClients, RegisteredBy
<1>6. CASE HubBroadcastDone
  BY <1>6 DEF HubBroadcastDone, HubInv, PanicFree, AllClients, RegisteredBy
<1> QED
  BY <1>1, <1>2, <1>3, <1>4, <1>5, <1>6, RegisterInv, UnregisterInv DEF HubStep

LEMMA SendInv ==
    ASSUME TypeOK, HubInv, PanicFree, NEW s \in Sender,
           SendStep(s) \/ \E targets \in SUBSET User : SendBegin(s, targets)
    PROVE  HubInv' /\ PanicFree'
<1> USE DEF hubVars, lockVars, chanVars, connVars
<1>1. CASE SendEnd(s)
  BY <1>1, HubInvFrame DEF SendEnd, PanicFree
<1>2. ASSUME NEW c \in Conn, SendOffer(s, c)
      PROVE  HubInv' /\ PanicFree'
  <2>1. \A r \in rlock : todo'[r] \subseteq todo[r]
    BY <1>2 DEF SendOffer, TypeOK
  <2>2. HubInv'
    BY <1>2, <2>1, HubInvFrame DEF SendOffer
  <2>3. c \notin closed
    BY <1>2, RegisteredIsOpen DEF SendOffer, HubInv
  <2> QED
    BY <1>2, <2>2, <2>3, OfferIsSafe DEF SendOffer
<1>3. ASSUME NEW targets \in SUBSET User, SendBegin(s, targets)
      PROVE  HubInv' /\ PanicFree'
  <2>1. UNION {clients[u] : u \in targets} \subseteq AllClients
    BY DEF AllClients
  <2>2. \A r \in rlock' : todo'[r] \subseteq AllClients'
    BY <1>3, <2>1 DEF SendBegin, TypeOK, HubInv, AllClients
  <2> QED
    BY <1>3, <2>2 DEF SendBegin, HubInv, PanicFree, AllClients, RegisteredBy
<1> QED
  BY <1>1, <1>2, <1>3 DEF SendStep

LEMMA ConnStepInv ==
    ASSUME TypeOK, HubInv, PanicFree, NEW c \in Conn, ConnStep(c)
    PROVE  HubInv' /\ PanicFree'
<1> USE DEF hubVars, lockVars, chanVars, connVars
<1>1. CASE Accept(c)
  BY <1>1 DEF Accept, HubInv, PanicFree, TypeOK, AllClients, RegisteredBy
<1>2. CASE TrySend(c)
  <2>1. c \notin closed
    BY <1>2, HubAssumption DEF TrySend, HubInv, TypeOK, RegisteredBy
  <2> QED
    BY <1>2, <2>1, HubInvFrame DEF TrySend, PanicFree
<1>3. CASE ReadFails(c)
  BY <1>3 DEF ReadFails, HubInv, PanicFree, TypeOK, AllClients, RegisteredBy
<1>4. CASE ReaderClose(c)
  BY <1>4 DEF ReaderClose, HubInv, PanicFree, TypeOK, AllClients, RegisteredBy
<1>5. CASE WriterTake(c)
  BY <1>5, HubInvFrame DEF WriterTake, PanicFree
<1>6. CASE WriteDone(c)
  BY <1>6, HubInvFrame DEF WriteDone, PanicFree
<1>7. CASE WriterExit(c)
  BY <1>7, HubInvFrame DEF WriterExit, PanicFree
<1>8. CASE PeerCloses(c) \/ PeerVanishes(c)
  BY <1>8, HubInvFrame DEF PeerCloses, PeerVanishes, PanicFree
<1> QED
  BY <1>1, <1>2, <1>3, <1>4, <1>5, <1>6, <1>7, <1>8
  DEF ConnStep, ReaderStep, WriterStep, WriteFails, WriterStops, PingFails

\* The ownership discipline that every send and every close relies on.
THEOREM HubInvariant == Spec => [](HubInv /\ PanicFree)
<1>1. Init => HubInv /\ PanicFree
  BY HubAssumption DEF Init, HubInv, PanicFree, AllClients, RegisteredBy
<1>2. TypeOK /\ HubInv /\ PanicFree /\ [Next]_vars => HubInv' /\ PanicFree'
  <2> SUFFICES ASSUME TypeOK, HubInv, PanicFree, [Next]_vars
               PROVE  HubInv' /\ PanicFree'
    OBVIOUS
  <2>1. CASE HubStep
    BY <2>1, HubStepInv
  <2>2. CASE \E s \in Sender : SendStep(s) \/ \E targets \in SUBSET User : SendBegin(s, targets)
    BY <2>2, SendInv
  <2>3. CASE \E c \in Conn : ConnStep(c)
    BY <2>3, ConnStepInv
  <2>4. CASE UNCHANGED vars
    BY <2>4 DEF vars, HubInv, PanicFree, AllClients, RegisteredBy
  <2> QED
    BY <2>1, <2>2, <2>3, <2>4 DEF Next
<1> QED
  BY <1>1, <1>2, TypeCorrect, PTL DEF Spec

\* No interleaving of the hub, the pumps and the goroutines that call Hub.Send
\* makes one of them use a closed channel, so the server never dies of it.
THEOREM NeverPanics == Spec => []PanicFree
BY HubInvariant, PTL

-----------------------------------------------------------------------------
(* Presence *)

\* PresenceSettled, and what is owed while a broadcast is on its way: only the
\* user it is about may still be announced wrongly.
PresenceInv ==
    /\ PresenceSettled
    /\ hubPc = "broadcast" => told \ Subject = OnlineHere \ Subject

LEMMA PresenceFrame ==
    ASSUME PresenceInv, UNCHANGED <<clients, hubPc, hubConn, told>>
    PROVE  PresenceInv'
BY DEF PresenceInv, PresenceSettled, OnlineHere, Subject

LEMMA RegisterPresence ==
    ASSUME TypeOK, HubInv, PresenceInv, Register
    PROVE  PresenceInv' /\ \E c \in Conn : P!Join(c)
<1> USE HubAssumption DEF TypeOK
<1>1. PICK c \in Conn : hubConn = {c}
  BY DEF Register, HubInv
<1>2. /\ UserOf[c] \in User
      /\ clients' = [clients EXCEPT ![UserOf[c]] = @ \cup {c}]
      /\ \/ clients[UserOf[c]] = {} /\ hubPc' = "broadcast"
         \/ clients[UserOf[c]] # {} /\ hubPc' = "select"
      /\ UNCHANGED <<hubConn, told>>
  BY <1>1 DEF Register
<1>3. told = OnlineHere
  BY DEF Register, PresenceInv, PresenceSettled
<1>4. OnlineHere' = OnlineHere \cup {UserOf[c]} /\ Subject' = {UserOf[c]}
  BY <1>1, <1>2 DEF OnlineHere, Subject
<1>5. PresenceInv'
  BY <1>2, <1>3, <1>4 DEF PresenceInv, PresenceSettled, OnlineHere
<1>6. P!Join(c)
  BY <1>2, <1>3 DEF P!Join, P!Settled, P!Online, OnlineHere
<1> QED
  BY <1>5, <1>6

LEMMA UnregisterPresence ==
    ASSUME TypeOK, HubInv, PresenceInv, Unregister
    PROVE  PresenceInv' /\ \E c \in Conn : P!Leave(c)
<1> USE HubAssumption DEF TypeOK
<1>1. PICK c \in Conn : hubConn = {c} /\ RegisteredBy(c)
  BY DEF Unregister, HubInv
<1>2. /\ UserOf[c] \in User
      /\ clients' = [clients EXCEPT ![UserOf[c]] = @ \ {c}]
      /\ hubPc' = IF clients[UserOf[c]] \ {c} = {} THEN "onDisconnect" ELSE "select"
      /\ UNCHANGED <<hubConn, told>>
  BY <1>1 DEF Unregister, RegisteredBy
<1>3. told = OnlineHere /\ UserOf[c] \in OnlineHere
  BY <1>1, <1>2 DEF Unregister, PresenceInv, PresenceSettled, OnlineHere, RegisteredBy
<1>4. Subject' = {UserOf[c]}
  BY <1>1, <1>2 DEF Subject
<1>5. CASE clients[UserOf[c]] \ {c} = {}
  <2>1. OnlineHere' = OnlineHere \ {UserOf[c]}
    BY <1>2, <1>5 DEF OnlineHere
  <2>2. PresenceInv'
    BY <1>2, <1>3, <1>4, <1>5, <2>1 DEF PresenceInv, PresenceSettled
  <2> QED
    BY <1>1, <1>2, <1>3, <2>2 DEF P!Leave, P!Settled, P!Online, OnlineHere, RegisteredBy
<1>6. CASE clients[UserOf[c]] \ {c} # {}
  <2>1. OnlineHere' = OnlineHere
    BY <1>2, <1>6 DEF OnlineHere
  <2>2. PresenceInv'
    BY <1>2, <1>3, <1>6, <2>1 DEF PresenceInv, PresenceSettled
  <2> QED
    BY <1>1, <1>2, <1>3, <2>2 DEF P!Leave, P!Settled, P!Online, OnlineHere, RegisteredBy
<1> QED
  BY <1>5, <1>6

LEMMA BroadcastDonePresence ==
    ASSUME TypeOK, HubInv, PresenceInv, HubBroadcastDone
    PROVE  PresenceInv' /\ [P!Announce]_P!pvars
<1> USE HubAssumption DEF TypeOK
<1>1. PICK c \in Conn : hubConn = {c}
  BY DEF HubBroadcastDone, HubInv
<1>2. Subject = {UserOf[c]} /\ UserOf[c] \in User
  BY <1>1 DEF Subject
<1>3. told' = OnlineHere
  BY <1>2 DEF HubBroadcastDone, PresenceInv, OnlineHere, Status
<1>4. clients' = clients /\ hubPc' = "select" /\ OnlineHere' = OnlineHere
  BY DEF HubBroadcastDone, OnlineHere
<1>5. PresenceInv'
  BY <1>3, <1>4 DEF PresenceInv, PresenceSettled
<1>6. [P!Announce]_P!pvars
  BY <1>3, <1>4 DEF P!Announce, P!Settled, P!Online, P!pvars, OnlineHere
<1> QED
  BY <1>5, <1>6

\* Every step of the server keeps PresenceInv and is a step of Presence or
\* changes nothing that Presence speaks of.
LEMMA PresenceStep ==
    ASSUME TypeOK, HubInv, PresenceInv, [Next]_vars
    PROVE  PresenceInv' /\ [P!PNext]_P!pvars
<1> USE DEF hubVars, lockVars, chanVars, connVars, P!pvars
<1>1. CASE Register
  BY <1>1, RegisterPresence DEF P!PNext
<1>2. CASE Unregister
  BY <1>2, UnregisterPresence DEF P!PNext
<1>3. CASE HubBroadcastDone
  BY <1>3, BroadcastDonePresence DEF P!PNext
<1>4. CASE HubLock
  BY <1>4 DEF HubLock, PresenceInv, PresenceSettled, OnlineHere, Subject
<1>5. CASE OnDisconnect
  BY <1>5 DEF OnDisconnect, PresenceInv, PresenceSettled, OnlineHere, Subject
<1>6. CASE \E c \in Conn : RegisterRecv(c) \/ UnregisterRecv(c)
  BY <1>6 DEF RegisterRecv, UnregisterRecv, PresenceInv, PresenceSettled, OnlineHere, Subject
<1>7. CASE \E c \in Conn : HubOffer(c)
  BY <1>7, PresenceFrame DEF HubOffer
<1>8. CASE \E s \in Sender : SendStep(s) \/ \E targets \in SUBSET User : SendBegin(s, targets)
  BY <1>8, PresenceFrame DEF SendStep, SendEnd, SendOffer, SendBegin
<1>9. CASE \E c \in Conn : Accept(c) \/ TrySend(c) \/ ReaderStep(c)
  BY <1>9, PresenceFrame DEF Accept, TrySend, ReaderStep, ReadFails, ReaderClose
<1>10. CASE \E c \in Conn : WriterStep(c) \/ PingFails(c)
  BY <1>10, PresenceFrame
  DEF WriterStep, WriterTake, WriteDone, WriteFails, WriterStops, PingFails, WriterExit
<1>11. CASE \E c \in Conn : PeerCloses(c) \/ PeerVanishes(c)
  BY <1>11, PresenceFrame DEF PeerCloses, PeerVanishes
<1>12. CASE UNCHANGED vars
  BY <1>12, PresenceFrame DEF vars
<1> QED
  BY <1>1, <1>2, <1>3, <1>4, <1>5, <1>6, <1>7, <1>8, <1>9, <1>10, <1>11, <1>12
  DEF Next, HubStep, ConnStep

\* Whenever the hub waits for a client, it has announced as online exactly the
\* users that have a connection, and OnDisconnect is called when a user's last
\* connection has gone and at no other time.
THEOREM PresenceCorrect == Spec => []PresenceSettled
<1>1. Init => PresenceInv
  BY DEF Init, PresenceInv, PresenceSettled, OnlineHere
<1>2. TypeOK /\ HubInv /\ PresenceInv /\ [Next]_vars => PresenceInv'
  BY PresenceStep
<1>3. PresenceInv => PresenceSettled
  BY DEF PresenceInv
<1> QED
  BY <1>1, <1>2, <1>3, TypeCorrect, HubInvariant, PTL DEF Spec

\* The hub, with its lock, its queues and its pumps, implements Presence.
THEOREM HubImplementsPresence == Spec => PresenceImplemented
<1>1. Init => PresenceInv /\ P!PInit
  BY DEF Init, PresenceInv, PresenceSettled, OnlineHere, P!PInit
<1>2. TypeOK /\ HubInv /\ PresenceInv /\ [Next]_vars => PresenceInv' /\ [P!PNext]_P!pvars
  BY PresenceStep
<1> QED
  BY <1>1, <1>2, TypeCorrect, HubInvariant, PTL DEF Spec, PresenceImplemented, P!PSafety
-----------------------------------------------------------------------------
(* What the clients hear of it *)

\* During a broadcast, every registered connection that the walk has passed has
\* been told the status the broadcast is about, or missed an event.
ToldInv ==
    hubPc = "broadcast" =>
        \A u \in Subject : \A c \in AllClients \ (hubTodo \cup lost) :
            (u \in view[c]) = (Status(u) = "online")

LEMMA ToldFrame ==
    ASSUME ToldInv, UNCHANGED <<clients, hubPc, hubConn, hubTodo, view>>, lost \subseteq lost'
    PROVE  ToldInv'
BY DEF ToldInv, Subject, AllClients, Status

LEMMA OfferToldInv ==
    ASSUME TypeOK, HubInv, ToldInv, NEW c \in Conn, HubOffer(c)
    PROVE  ToldInv'
<1> USE DEF TypeOK, lockVars
<1>1. PICK d \in Conn : hubConn = {d}
  BY DEF HubOffer, HubInv
<1>2. Subject = {UserOf[d]} /\ UserOf[d] \in User
  BY <1>1, HubAssumption DEF Subject
<1>3. /\ UNCHANGED <<clients, hubPc, hubConn>>
      /\ hubTodo' = hubTodo \ {c}
      /\ lost \subseteq lost'
      /\ hubPc = "broadcast"
  BY DEF HubOffer, Offer
<1>4. /\ view'[c] = IF Status(UserOf[d]) = "online" THEN view[c] \cup {UserOf[d]}
                                                 ELSE view[c] \ {UserOf[d]}
      /\ \A e \in Conn \ {c} : view'[e] = view[e]
  BY <1>2 DEF HubOffer
<1>5. (UserOf[d] \in view'[c]) = (Status(UserOf[d]) = "online")
  BY <1>4
<1>6. AllClients' = AllClients /\ Subject' = Subject /\ AllClients \subseteq Conn
  BY <1>3 DEF AllClients, Subject
<1>7. Status(UserOf[d])' = Status(UserOf[d])
  BY <1>3 DEF Status
<1> QED
  BY <1>2, <1>3, <1>4, <1>5, <1>6, <1>7 DEF ToldInv

LEMMA ToldStep ==
    ASSUME TypeOK, HubInv, ToldInv, [Next]_vars
    PROVE  ToldInv'
<1> USE DEF hubVars, lockVars, chanVars, connVars
<1>1. CASE Register
  <2>1. PICK c \in Conn : hubConn = {c}
    BY <1>1 DEF Register, HubInv
  <2>2. CASE hubPc' = "broadcast"
    <3>1. hubTodo' = AllClients \cup {c} /\ clients' = [clients EXCEPT ![UserOf[c]] = @ \cup {c}]
      BY <1>1, <2>1, <2>2 DEF Register
    <3>2. AllClients' \subseteq hubTodo'
      BY <3>1 DEF AllClients, TypeOK
    <3> QED
      BY <3>2 DEF ToldInv
  <2>3. CASE hubPc' # "broadcast"
    BY <2>3 DEF ToldInv
  <2> QED
    BY <2>2, <2>3
<1>2. CASE OnDisconnect
  BY <1>2 DEF OnDisconnect, ToldInv, AllClients
<1>3. CASE HubLock \/ Unregister \/ HubBroadcastDone
  BY <1>3 DEF HubLock, Unregister, HubBroadcastDone, ToldInv
<1>4. CASE \E c \in Conn : RegisterRecv(c) \/ UnregisterRecv(c)
  BY <1>4 DEF RegisterRecv, UnregisterRecv, ToldInv
<1>5. CASE \E c \in Conn : HubOffer(c)
  BY <1>5, OfferToldInv
<1>6. CASE \E s \in Sender : SendStep(s) \/ \E targets \in SUBSET User : SendBegin(s, targets)
  BY <1>6, ToldFrame DEF SendStep, SendEnd, SendOffer, SendBegin, Offer
<1>7. CASE \E c \in Conn : Accept(c) \/ TrySend(c) \/ ReaderStep(c)
  BY <1>7, ToldFrame DEF Accept, TrySend, ReaderStep, ReadFails, ReaderClose
<1>8. CASE \E c \in Conn : WriterStep(c) \/ PingFails(c)
  BY <1>8, ToldFrame
  DEF WriterStep, WriterTake, WriteDone, WriteFails, WriterStops, PingFails, WriterExit
<1>9. CASE \E c \in Conn : PeerCloses(c) \/ PeerVanishes(c)
  BY <1>9, ToldFrame DEF PeerCloses, PeerVanishes
<1>10. CASE UNCHANGED vars
  BY <1>10, ToldFrame DEF vars
<1> QED
  BY <1>1, <1>2, <1>3, <1>4, <1>5, <1>6, <1>7, <1>8, <1>9, <1>10 DEF Next, HubStep, ConnStep

\* When a presence broadcast is over, every connection registered then that has
\* missed no event knows the new status, the one that just joined included.
THEOREM AnnouncementsReachAll == Spec => AnnouncementReachesAll
<1> DEFINE Reached == \A u \in User : (u \in told) # (u \in told') =>
                         \A c \in AllClients \ lost : (u \in view[c]) = (u \in told')
<1>1. Init => ToldInv
  BY DEF Init, ToldInv
<1>2. TypeOK /\ HubInv /\ ToldInv /\ [Next]_vars => ToldInv'
  BY ToldStep
<1>3. ToldInv /\ [Next]_vars => [Reached]_vars
  <2> SUFFICES ASSUME ToldInv, [Next]_vars
               PROVE  Reached
    OBVIOUS
  <2> USE DEF hubVars, lockVars, chanVars, connVars
  <2>1. CASE HubBroadcastDone
    <3> SUFFICES ASSUME NEW u \in User, (u \in told) # (u \in told'), NEW c \in AllClients \ lost
                 PROVE  (u \in view[c]) = (u \in told')
      OBVIOUS
    <3>1. u \in Subject /\ (u \in told') = (Status(u) = "online")
      BY <2>1 DEF HubBroadcastDone
    <3> QED
      BY <2>1, <3>1 DEF HubBroadcastDone, ToldInv
  <2>2. CASE UNCHANGED told
    BY <2>2
  <2>3. CASE HubLock \/ Register \/ Unregister \/ OnDisconnect
    BY <2>2, <2>3 DEF HubLock, Register, Unregister, OnDisconnect
  <2>4. CASE \E c \in Conn : RegisterRecv(c) \/ UnregisterRecv(c) \/ HubOffer(c)
    BY <2>2, <2>4 DEF RegisterRecv, UnregisterRecv, HubOffer
  <2>5. CASE \E s \in Sender : SendStep(s) \/ \E targets \in SUBSET User : SendBegin(s, targets)
    BY <2>2, <2>5 DEF SendStep, SendEnd, SendOffer, SendBegin
  <2>6. CASE \E c \in Conn : Accept(c) \/ TrySend(c) \/ ReaderStep(c)
    BY <2>2, <2>6 DEF Accept, TrySend, ReaderStep, ReadFails, ReaderClose
  <2>7. CASE \E c \in Conn : WriterStep(c) \/ PingFails(c)
    BY <2>2, <2>7
    DEF WriterStep, WriterTake, WriteDone, WriteFails, WriterStops, PingFails, WriterExit
  <2>8. CASE \E c \in Conn : PeerCloses(c) \/ PeerVanishes(c)
    BY <2>2, <2>8 DEF PeerCloses, PeerVanishes
  <2>9. CASE UNCHANGED vars
    BY <2>2, <2>9 DEF vars
  <2> QED
    BY <2>1, <2>3, <2>4, <2>5, <2>6, <2>7, <2>8, <2>9 DEF Next, HubStep, ConnStep
<1> QED
  BY <1>1, <1>2, <1>3, TypeCorrect, HubInvariant, PTL DEF Spec, AnnouncementReachesAll

-----------------------------------------------------------------------------
(* The two pumps and the hub notice each other's end *)

\* A pump closes the websocket on its way out, whoever drops an event cancels
\* the context, and no websocket is opened under a pump that runs.
PumpInv ==
    /\ lost \subseteq cancelled
    /\ \A c \in Conn :
         /\ reader[c] \in {"none", "register"} => writer[c] = "none"
         /\ writer[c] = "done" => c \notin open
         /\ reader[c] \in {"unregister", "close", "done"} => c \notin open

LEMMA OfferPump ==
    ASSUME PumpInv, NEW c, Offer(c), UNCHANGED <<reader, writer, open>>
    PROVE  PumpInv'
BY DEF Offer, PumpInv

LEMMA PumpStep ==
    ASSUME TypeOK, PumpInv, Next
    PROVE  PumpInv'
<1> USE DEF hubVars, lockVars, chanVars, connVars
<1>1. ASSUME NEW c \in Conn, HubOffer(c) \/ \E s \in Sender : SendOffer(s, c)
      PROVE  PumpInv'
  BY <1>1, OfferPump DEF HubOffer, SendOffer
<1>2. ASSUME NEW c \in Conn, RegisterRecv(c) \/ UnregisterRecv(c)
      PROVE  PumpInv'
  BY <1>2 DEF RegisterRecv, UnregisterRecv, PumpInv, TypeOK
<1>3. CASE HubLock \/ Register \/ Unregister \/ OnDisconnect \/ HubBroadcastDone
  <2>1. UNCHANGED <<reader, writer, open, lost, cancelled>>
    BY <1>3 DEF HubLock, Register, Unregister, OnDisconnect, HubBroadcastDone
  <2> QED
    BY <2>1 DEF PumpInv
<1>4. ASSUME NEW s \in Sender, SendEnd(s) \/ \E targets \in SUBSET User : SendBegin(s, targets)
      PROVE  PumpInv'
  BY <1>4 DEF SendEnd, SendBegin, PumpInv
<1>5. ASSUME NEW c \in Conn, Accept(c) \/ ReaderStep(c)
      PROVE  PumpInv'
  BY <1>5 DEF Accept, ReaderStep, ReadFails, ReaderClose, PumpInv, TypeOK
<1>6. ASSUME NEW c \in Conn, WriterTake(c) \/ WriteDone(c)
      PROVE  PumpInv'
  BY <1>6 DEF WriterTake, WriteDone, PumpInv, TypeOK
<1>7. ASSUME NEW c \in Conn, WriteFails(c) \/ WriterStops(c) \/ PingFails(c)
      PROVE  PumpInv'
  <2>1. WriterExit(c) /\ writer[c] \in {"select", "write"}
    BY <1>7 DEF WriteFails, WriterStops, PingFails
  <2> QED
    BY <2>1 DEF WriterExit, PumpInv, TypeOK
<1>8. ASSUME NEW c \in Conn, TrySend(c) \/ PeerCloses(c) \/ PeerVanishes(c)
      PROVE  PumpInv'
  BY <1>8 DEF TrySend, PeerCloses, PeerVanishes, PumpInv
<1> QED
  BY <1>1, <1>2, <1>3, <1>4, <1>5, <1>6, <1>7, <1>8
     DEF Next, HubStep, SendStep, ConnStep, WriterStep

\* No connection stays half open: what ends one of its pumps, or drops one of
\* its events, leaves the condition on which the rest of it ends.
THEOREM NobodyIsLeftBehind == Spec => []NobodyLeftBehind
<1>1. Init => PumpInv
  BY DEF Init, PumpInv
<1>2. TypeOK /\ PumpInv /\ [Next]_vars => PumpInv'
  <2>1. CASE UNCHANGED vars
    BY <2>1 DEF vars, PumpInv
  <2> QED
    BY <2>1, PumpStep
<1>3. TypeOK /\ HubInv /\ PumpInv => NobodyLeftBehind
  <2> SUFFICES ASSUME TypeOK, HubInv, PumpInv, NEW c \in Conn, Leaving(c)
               PROVE  c \in cancelled \/ c \notin open
    BY DEF NobodyLeftBehind
  <2>1. CASE c \in closed
    <3>1. reader[c] \notin {"none", "register", "read", "unregister"}
      BY <2>1, HubAssumption DEF HubInv, RegisteredBy
    <3> QED
      BY <3>1 DEF PumpInv, TypeOK, ReaderPcs
  <2>2. CASE c \notin closed
    BY <2>2 DEF Leaving, PumpInv
  <2> QED
    BY <2>1, <2>2
<1> QED
  BY <1>1, <1>2, <1>3, TypeCorrect, HubInvariant, PTL DEF Spec

\* What follows from the promise alone: the hub never has two changes to
\* announce, so that "online" and "offline" of one user alternate and each was
\* true when it was announced, however connections come and go.
THEOREM HubAnnouncesOneAtATime == Spec => []P!PresenceInv /\ P!OneAtATime
<1> USE HubAssumption DEF P!Online, P!Pending, P!Settled
<1>1. P!PInit => P!PresenceInv
  BY DEF P!PInit, P!PresenceInv
<1>2. P!PresenceInv /\ [P!PNext]_(P!pvars) => P!PresenceInv' /\ [P!Announces]_(P!pvars)
  <2> SUFFICES ASSUME P!PresenceInv, P!PNext \/ UNCHANGED P!pvars
               PROVE  P!PresenceInv' /\ (P!Announces \/ UNCHANGED P!pvars)
    OBVIOUS
  <2> USE DEF P!PresenceInv, P!Announces
  <2>1. CASE UNCHANGED P!pvars
    BY <2>1 DEF P!pvars
  <2>2. CASE P!Announce
    <3>1. told # P!Online /\ told' = P!Online /\ P!Online' = P!Online
      BY <2>2 DEF P!Announce
    <3>2. PICK u \in User : u \in P!Pending
      BY <3>1
    <3>3. P!Announces
      <4>1. CASE u \in P!Online
        <5>1. told' = told \cup {u}
          BY <3>1, <3>2, <4>1
        <5> QED
          BY <4>1, <5>1
      <4>2. CASE u \notin P!Online
        <5>1. told' = told \ {u}
          BY <3>1, <3>2, <4>2
        <5> QED
          BY <4>2, <5>1
      <4> QED
        BY <4>1, <4>2
    <3>4. P!Pending' = {}
      BY <3>1
    <3> QED
      BY <2>2, <3>3, <3>4 DEF P!Announce
  <2>3. ASSUME NEW c \in Conn, P!Join(c) \/ P!Leave(c)
        PROVE  P!PresenceInv' /\ P!Announces
    <3>1. told = P!Online /\ told' = told
      BY <2>3 DEF P!Join, P!Leave
    <3>2. \A u \in User \ {UserOf[c]} : clients'[u] = clients[u]
      BY <2>3 DEF P!Join, P!Leave
    <3>3. P!Pending' \subseteq {UserOf[c]}
      BY <3>1, <3>2
    <3> QED
      BY <2>3, <3>1, <3>3 DEF P!Join, P!Leave
  <2> QED
    BY <2>1, <2>2, <2>3 DEF P!PNext
<1> QED
  BY <1>1, <1>2, HubImplementsPresence, PTL DEF PresenceImplemented, P!PSafety, P!OneAtATime
=============================================================================
