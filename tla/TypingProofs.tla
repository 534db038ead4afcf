---------------------------- MODULE TypingProofs ----------------------------
(* Theorems about Typing, for every number of devices, timers and events.   *)
EXTENDS Typing, TLAPS

\* Every variable keeps its type.
THEOREM TypingTypeCorrect == Spec => []TypeOK
<1> USE TypingAssumption DEF TypeOK
<1>1. Init => TypeOK
  <2>1. ASSUME Init
        PROVE  /\ timer \in [Timer -> {"idle", "armed", "fire", "clear"}]
               /\ pc \in [Device -> {"idle", "query", "broadcast", "arm"}]
    BY <2>1 DEF Init
  <2>2. Init => events \in 0 .. MaxEvents
    BY DEF Init
  <2> QED
    BY <2>1, <2>2, Zenon DEF Init
<1>2. TypeOK /\ [Next]_vars => TypeOK'
  <2> SUFFICES ASSUME TypeOK, [Next]_vars
               PROVE  TypeOK'
    OBVIOUS
  <2>1. ASSUME NEW d \in Device, NEW isTyping \in BOOLEAN, Receive(d, isTyping)
        PROVE  TypeOK'
    BY <2>1 DEF Receive, Stopped
  <2>2. ASSUME NEW d \in Device, QueryMembers(d)
        PROVE  TypeOK'
    BY <2>2 DEF QueryMembers
  <2>3. ASSUME NEW d \in Device, QueryFails(d)
        PROVE  TypeOK'
    BY <2>3 DEF QueryFails
  <2>4. ASSUME NEW d \in Device, Broadcast(d)
        PROVE  TypeOK'
    <3>1. shown' \in BOOLEAN
      BY <2>4 DEF Broadcast
    <3>2. pc' \in [Device -> {"idle", "query", "broadcast", "arm"}]
      BY <2>4 DEF Broadcast
    <3> QED
      BY <2>4, <3>1, <3>2 DEF Broadcast
  <2>5. ASSUME NEW d \in Device, Arm(d)
        PROVE  TypeOK'
    BY <2>5 DEF Arm
  <2>6. ASSUME NEW t \in Timer, Expire(t)
        PROVE  TypeOK'
    BY <2>6 DEF Expire, Fire, FireBroadcast, FireClear
  <2>7. CASE UNCHANGED vars
    BY <2>7 DEF vars
  <2> QED
    BY <2>1, <2>2, <2>3, <2>4, <2>5, <2>6, <2>7 DEF Next, Handle
<1> QED
  BY <1>1, <1>2, PTL DEF Spec

\* Between the stop of one timer and the start of the next, in whatever order
\* devices and callbacks run, the indicator is never left without something
\* that will put it out, unless a query failed.
THEOREM IndicatorAlwaysCovered == Spec => []IndicatorCovered
<1> USE DEF IndicatorCovered, Renewing, Expiring
<1>1. Init => IndicatorCovered
  BY DEF Init
<1>2. TypeOK /\ IndicatorCovered /\ [Next]_vars => IndicatorCovered'
  <2> SUFFICES ASSUME TypeOK, IndicatorCovered, [Next]_vars
               PROVE  IndicatorCovered'
    OBVIOUS
  <2>1. ASSUME NEW d \in Device, NEW isTyping \in BOOLEAN, Receive(d, isTyping)
        PROVE  IndicatorCovered'
    BY <2>1 DEF Receive, TypeOK
  <2>2. ASSUME NEW d \in Device, QueryMembers(d)
        PROVE  IndicatorCovered'
    <3>1. pc'[d] # "idle"
      BY <2>2 DEF QueryMembers, TypeOK
    <3> QED
      BY <3>1
  <2>3. ASSUME NEW d \in Device, QueryFails(d)
        PROVE  IndicatorCovered'
    BY <2>3 DEF QueryFails
  <2>4. ASSUME NEW d \in Device, Broadcast(d)
        PROVE  IndicatorCovered'
    BY <2>4 DEF Broadcast, TypeOK
  <2>5. ASSUME NEW d \in Device, Arm(d)
        PROVE  IndicatorCovered'
    <3>1. PICK t \in Timer : timer' = [timer EXCEPT ![t] = "armed"]
      BY <2>5 DEF Arm
    <3>2. timer'[t] = "armed"
      BY <3>1 DEF TypeOK
    <3> QED
      BY <3>2
  <2>6. ASSUME NEW t \in Timer, Expire(t)
        PROVE  IndicatorCovered'
    <3>1. CASE Fire(t)
      BY <3>1 DEF Fire, TypeOK
    <3>2. CASE FireBroadcast(t)
      BY <3>2 DEF FireBroadcast
    <3>3. CASE FireClear(t)
      <4>1. \A u \in Timer : timer[u] \in {"armed", "fire"} => timer'[u] = timer[u]
        BY <3>3 DEF FireClear, TypeOK
      <4> QED
        BY <3>3, <4>1 DEF FireClear
    <3> QED
      BY <2>6, <3>1, <3>2, <3>3 DEF Expire
  <2>7. CASE UNCHANGED vars
    BY <2>7 DEF vars
  <2> QED
    BY <2>1, <2>2, <2>3, <2>4, <2>5, <2>6, <2>7 DEF Next, Handle
<1> QED
  BY <1>1, <1>2, TypingTypeCorrect, PTL DEF Spec

\* The timer stored in the map is never one whose callback has ended, although
\* a callback deletes the entry of whichever timer is stored by then.
THEOREM EntryAlwaysLive == Spec => []EntryIsLive
<1> USE DEF EntryIsLive
<1>1. Init => EntryIsLive
  BY DEF Init
<1>2. TypeOK /\ EntryIsLive /\ [Next]_vars => EntryIsLive'
  <2> SUFFICES ASSUME TypeOK, EntryIsLive, [Next]_vars
               PROVE  EntryIsLive'
    OBVIOUS
  <2>1. ASSUME NEW d \in Device, NEW isTyping \in BOOLEAN, Receive(d, isTyping)
        PROVE  EntryIsLive'
    BY <2>1 DEF Receive
  <2>2. ASSUME NEW d \in Device, QueryMembers(d) \/ QueryFails(d) \/ Broadcast(d)
        PROVE  EntryIsLive'
    BY <2>2 DEF QueryMembers, QueryFails, Broadcast
  <2>3. ASSUME NEW d \in Device, Arm(d)
        PROVE  EntryIsLive'
    BY <2>3 DEF Arm, TypeOK
  <2>4. ASSUME NEW t \in Timer, Expire(t)
        PROVE  EntryIsLive'
    BY <2>4 DEF Expire, Fire, FireBroadcast, FireClear, TypeOK
  <2>5. CASE UNCHANGED vars
    BY <2>5 DEF vars
  <2> QED
    BY <2>1, <2>2, <2>3, <2>4, <2>5 DEF Next, Handle
<1> QED
  BY <1>1, <1>2, TypingTypeCorrect, PTL DEF Spec
=============================================================================
