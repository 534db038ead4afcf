------------------------------- MODULE Typing -------------------------------
(* internal/ws/handler.go, handleTyping: the typing indicator of one user in  *)
(* one chat (one key of typingTimers; keys do not interact).  The user's      *)
(* devices send typing.start and typing.stop, each handled by the ReadPump of *)
(* its connection; a timer's callback runs in a goroutine of its own.  shown  *)
(* is what any other member of the chat was told last.                        *)
EXTENDS Naturals, FiniteSets

CONSTANTS
    Device,         \* connections of the user
    Timer,          \* time.Timer values
    MemberCounts,   \* how many rows GetMemberIDs may return
    MaxEvents       \* bound: typing events the devices send

ASSUME TypingAssumption ==
    /\ MemberCounts \subseteq Nat
    /\ MaxEvents \in Nat

VARIABLES
    entry,      \* typingTimers[key]: no timer, or one
    timer,      \* [Timer -> "idle" | "armed" | "fire" | "clear"]
    pc,         \* [Device -> where handleTyping is]
    start,      \* devices whose event in hand is typing.start
    shown,      \* the last typing.update sent to the other members
    failed,     \* a query failed since the last typing.update (history)
    panicked,   \* make() was given a negative capacity
    events      \* typing events received so far

vars == <<entry, timer, pc, start, shown, failed, panicked, events>>

TypeOK ==
    /\ entry \in {{}} \cup {{t} : t \in Timer}
    /\ timer \in [Timer -> {"idle", "armed", "fire", "clear"}]
    /\ pc \in [Device -> {"idle", "query", "broadcast", "arm"}]
    /\ start \in SUBSET Device
    /\ shown \in BOOLEAN
    /\ failed \in BOOLEAN
    /\ panicked \in BOOLEAN
    /\ events \in 0 .. MaxEvents

Init ==
    /\ entry = {}
    /\ timer = [t \in Timer |-> "idle"]
    /\ pc = [d \in Device |-> "idle"]
    /\ start = {}
    /\ shown = FALSE
    /\ failed = FALSE
    /\ panicked = FALSE
    /\ events = 0

\* Timer.Stop: it has no effect on a timer that has fired.
Stopped(ts) == [t \in Timer |-> IF t \in ts /\ timer[t] = "armed" THEN "idle" ELSE timer[t]]

\* The first locked section: stop and forget the timer that is in the map.
Receive(d, isTyping) ==
    /\ pc[d] = "idle"
    /\ events < MaxEvents
    /\ events' = events + 1
    /\ start' = IF isTyping THEN start \cup {d} ELSE start \ {d}
    /\ timer' = Stopped(entry)
    /\ entry' = {}
    /\ pc' = [pc EXCEPT ![d] = "query"]
    /\ UNCHANGED <<shown, failed, panicked>>

\* GetMemberIDs, then make([]int64, 0, len(memberIDs)-1).
QueryMembers(d) ==
    /\ pc[d] = "query"
    /\ \E n \in MemberCounts :
         \/ /\ n > 0
            /\ pc' = [pc EXCEPT ![d] = "broadcast"]
            /\ UNCHANGED panicked
         \/ /\ n = 0
            /\ panicked' = TRUE
            /\ UNCHANGED pc
    /\ UNCHANGED <<entry, timer, start, shown, failed, events>>

\* The early return: the timer was stopped above, and no event is sent.
QueryFails(d) ==
    /\ pc[d] = "query"
    /\ pc' = [pc EXCEPT ![d] = "idle"]
    /\ failed' = TRUE
    /\ UNCHANGED <<entry, timer, start, shown, panicked, events>>

Broadcast(d) ==
    /\ pc[d] = "broadcast"
    /\ shown' = (d \in start)
    /\ failed' = FALSE
    /\ pc' = [pc EXCEPT ![d] = IF d \in start THEN "arm" ELSE "idle"]
    /\ UNCHANGED <<entry, timer, start, panicked, events>>

\* Mutant of Arm: a timer that is still in the map is taken to be enough.
Arm_UnlessPresent(d) ==
    /\ pc[d] = "arm"
    /\ \E t \in Timer :
         /\ timer[t] = "idle"
         /\ timer' = IF entry = {} THEN [timer EXCEPT ![t] = "armed"] ELSE timer
         /\ entry' = IF entry = {} THEN {t} ELSE entry
    /\ pc' = [pc EXCEPT ![d] = "idle"]
    /\ UNCHANGED <<start, shown, failed, panicked, events>>

\* Mutant of Arm: the timers of a key are collected.
Arm_Collects(d) ==
    /\ pc[d] = "arm"
    /\ \E t \in Timer :
         /\ timer[t] = "idle"
         /\ timer' = [timer EXCEPT ![t] = "armed"]
         /\ entry' = entry \cup {t}
    /\ pc' = [pc EXCEPT ![d] = "idle"]
    /\ UNCHANGED <<start, shown, failed, panicked, events>>

\* The second locked section: AfterFunc, stored over whatever is in the map.
Arm(d) ==
    /\ pc[d] = "arm"
    /\ \E t \in Timer :
         /\ timer[t] = "idle"
         /\ timer' = [timer EXCEPT ![t] = "armed"]
         /\ entry' = {t}
    /\ pc' = [pc EXCEPT ![d] = "idle"]
    /\ UNCHANGED <<start, shown, failed, panicked, events>>

Handle(d) == QueryMembers(d) \/ QueryFails(d) \/ Broadcast(d) \/ Arm(d)

\* Five seconds have passed: the callback starts in a goroutine.
Fire(t) ==
    /\ timer[t] = "armed"
    /\ timer' = [timer EXCEPT ![t] = "fire"]
    /\ UNCHANGED <<entry, pc, start, shown, failed, panicked, events>>

FireBroadcast(t) ==
    /\ timer[t] = "fire"
    /\ shown' = FALSE
    /\ failed' = FALSE
    /\ timer' = [timer EXCEPT ![t] = "clear"]
    /\ UNCHANGED <<entry, pc, start, panicked, events>>

\* Mutant of FireClear: the callback does not delete its map entry.
FireClear_KeepsEntry(t) ==
    /\ timer[t] = "clear"
    /\ timer' = [timer EXCEPT ![t] = "idle"]
    /\ UNCHANGED <<entry, pc, start, shown, failed, panicked, events>>

\* The callback deletes the key, whichever timer is stored there by now.
FireClear(t) ==
    /\ timer[t] = "clear"
    /\ entry' = {}
    /\ timer' = [timer EXCEPT ![t] = "idle"]
    /\ UNCHANGED <<pc, start, shown, failed, panicked, events>>

Expire(t) == Fire(t) \/ FireBroadcast(t) \/ FireClear(t)

Next ==
    /\ ~ panicked
    /\ \/ \E d \in Device : Handle(d) \/ \E isTyping \in BOOLEAN : Receive(d, isTyping)
       \/ \E t \in Timer : Expire(t)

Spec == Init /\ [][Next]_vars

\* Handlers run to their end and armed timers fire.
FairSpec ==
    /\ Spec
    /\ \A d \in Device : WF_vars(Handle(d))
    /\ \A t \in Timer : WF_vars(Expire(t))

-----------------------------------------------------------------------------
(* Properties *)

\* While the others see the user typing, something is on its way that will tell
\* them otherwise or renew the timer, though the stop of a timer and the start
\* of the next one are two separate locked sections with a query in between;
\* only a query that fails in between breaks this.
Renewing == \E d \in Device : pc[d] # "idle"
Expiring == \E t \in Timer : timer[t] \in {"armed", "fire"}

IndicatorCovered == shown => Renewing \/ Expiring \/ failed

\* The timer in the map has not come to its end: the map keeps no dead timer.
EntryIsLive == \A t \in entry : timer[t] # "idle"

\* Whatever the devices send and whenever timers fire, the indicator goes out
\* once the typing events stop: "Auto-expire typing after 5s".
AutoExpires == shown ~> ~ shown

\* ... which holds as long as the queries succeed.
AutoExpiresUnlessFailed == [](~ failed /\ ~ panicked) => AutoExpires

\* The map entry goes once the typing events stop, failures or not.
EntryRemoved == <>[](entry = {} \/ panicked)
=============================================================================
