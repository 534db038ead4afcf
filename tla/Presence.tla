------------------------------ MODULE Presence ------------------------------
(* What the hub promises about presence on one server: every change of a   *)
(* user between "no connection" and "some connection" is announced before  *)
(* the next connection joins or leaves, and the announcements for one user *)
(* alternate.  Hub.tla implements this specification.                      *)
EXTENDS FiniteSets

CONSTANTS Conn, User, UserOf

VARIABLES
    clients,     \* [User -> SUBSET Conn]: the connections of each user
    told         \* SUBSET User: the users last announced "online"

pvars == <<clients, told>>

Online == {u \in User : clients[u] # {}}

\* Everything that happened so far has been announced.
Settled == told = Online

PInit ==
    /\ clients = [u \in User |-> {}]
    /\ told = {}

Join(c) ==
    /\ Settled
    /\ clients' = [clients EXCEPT ![UserOf[c]] = @ \cup {c}]
    /\ UNCHANGED told

Leave(c) ==
    /\ Settled
    /\ c \in clients[UserOf[c]]
    /\ clients' = [clients EXCEPT ![UserOf[c]] = @ \ {c}]
    /\ UNCHANGED told

Announce ==
    /\ ~ Settled
    /\ told' = Online
    /\ UNCHANGED clients

PNext == Announce \/ \E c \in Conn : Join(c) \/ Leave(c)

PSafety == PInit /\ [][PNext]_pvars

\* What the steps keep together: at most one user is not announced yet.
Pending == (told \ Online) \cup (Online \ told)

PresenceInv ==
    /\ clients \in [User -> SUBSET Conn]
    /\ told \subseteq User
    /\ \A u, v \in Pending : u = v

\* An announcement is of one user, whose presence it gives as it is.
Announces == told' # told =>
    \E u \in User : told' = (IF u \in Online THEN told \cup {u} ELSE told \ {u})

OneAtATime == [][Announces]_pvars
=============================================================================
