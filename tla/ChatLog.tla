------------------------------ MODULE ChatLog ------------------------------
(* What a chat promises its members: a log of messages, numbered without     *)
(* promise of order or completeness, in which a message may be edited and    *)
(* struck out but never comes back; events that say only what has happened   *)
(* to the message; answers to senders after an event; and a read position    *)
(* that never moves back and is never overstated.  It does not promise that  *)
(* events about one message come in the order of what they report.           *)
(* Messages.tla implements it with requests that interleave and fail.        *)
EXTENDS Naturals

CONSTANT MaxMsg     \* bound: the last number of a message

VARIABLES
    log,        \* [1 .. MaxMsg -> "none" | "live" | "deleted"]
    edited,     \* messages that were edited, before or after being struck out
    told,       \* [1 .. MaxMsg -> the last event the members had about it]
    answered,   \* messages whose sender was told that they are stored
    read,       \* the last message a member has read, 0 for none
    readTold    \* the position the others were told last

logVars == <<log, edited, told, answered, read, readTold>>

Stored == {m \in 1 .. MaxMsg : log[m] # "none"}
Heard == {m \in 1 .. MaxMsg : told[m] # "none"}

LInit ==
    /\ log = [m \in 1 .. MaxMsg |-> "none"]
    /\ edited = {}
    /\ told = [m \in 1 .. MaxMsg |-> "none"]
    /\ answered = {}
    /\ read = 0
    /\ readTold = 0

Append(m) ==
    /\ m \notin Stored
    /\ log' = [log EXCEPT ![m] = "live"]
    /\ UNCHANGED <<edited, told, answered, read, readTold>>

Edit(m) ==
    /\ m \in Stored
    /\ edited' = edited \cup {m}
    /\ UNCHANGED <<log, told, answered, read, readTold>>

Strike(m) ==
    /\ m \in Stored
    /\ log' = [log EXCEPT ![m] = "deleted"]
    /\ UNCHANGED <<edited, told, answered, read, readTold>>

\* What an event says of a message is so.
Says(m, event) ==
    \/ event = "new" /\ m \in Stored
    \/ event = "updated" /\ m \in edited
    \/ event = "deleted" /\ log[m] = "deleted"

Tell(m) ==
    /\ \E event \in {"new", "updated", "deleted"} :
         Says(m, event) /\ told' = [told EXCEPT ![m] = event]
    /\ UNCHANGED <<log, edited, answered, read, readTold>>

Answer(m) ==
    /\ m \in Heard
    /\ answered' = answered \cup {m}
    /\ UNCHANGED <<log, edited, told, read, readTold>>

Advance(m) ==
    /\ m \in Stored
    /\ m > read
    /\ read' = m
    /\ UNCHANGED <<log, edited, told, answered, readTold>>

TellRead(m) ==
    /\ m <= read
    /\ readTold' = m
    /\ UNCHANGED <<log, edited, told, answered, read>>

LNext == \E m \in 1 .. MaxMsg :
    \/ Append(m) \/ Edit(m) \/ Strike(m) \/ Tell(m) \/ Answer(m)
    \/ Advance(m) \/ TellRead(m)

LSpec == LInit /\ [][LNext]_logVars

\* What the steps keep together: the last event about a message is true of it, no
\* sender is answered before the members heard, and the read position is at a
\* stored message and the others are told no more than it.
LogInv ==
    /\ log \in [1 .. MaxMsg -> {"none", "live", "deleted"}]
    /\ edited \subseteq Stored
    /\ told \in [1 .. MaxMsg -> {"none", "new", "updated", "deleted"}]
    /\ \A m \in Heard : Says(m, told[m])
    /\ answered \subseteq Heard
    /\ read \in Stored \cup {0}
    /\ readTold \in 0 .. read

\* A message that was struck out stays so, whatever is edited or uploaded
\* meanwhile; what was heard, answered or read is not taken back.
Forward ==
    /\ \A m \in Stored : log[m] = "deleted" => log'[m] = "deleted"
    /\ Heard \subseteq Heard' /\ answered \subseteq answered'
    /\ read <= read'

OnlyForward == [][Forward]_logVars
=============================================================================
