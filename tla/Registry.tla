------------------------------ MODULE Registry ------------------------------
(* What the server promises about accounts, invites and sessions: an        *)
(* account appears whole or not at all, with a name of its own and with its  *)
(* invite spent; the first one is an administrator; a session has one        *)
(* account for ever, is opened once, and never survives its renewal.         *)
(* Accounts.tla implements it with requests that run statement by statement. *)

CONSTANTS Person, Invite, Session

VARIABLES
    name, code,     \* what a person signs up with: a name and an invite
    members,        \* the persons who have an account
    admins,         \* the administrators among them
    invites,        \* [Invite -> "absent" | "live" | "expired" | "deleted"]
    spentOn,        \* [Invite -> no member or the one it was spent on last]
    holder,         \* [Session -> no member or the one it was opened for]
    renews,         \* [Session -> no session or the one it is to replace]
    open            \* the sessions that can still be renewed

rvars == <<name, code, members, admins, invites, spentOn, holder, renews, open>>

signup   == <<name, code>>
accounts == <<members, admins, invites, spentOn>>
sessions == <<holder, renews, open>>

RInit ==
    /\ members = {} /\ admins = {} /\ open = {}
    /\ invites = [i \in Invite |-> "absent"]
    /\ spentOn = [i \in Invite |-> {}]
    /\ holder = [t \in Session |-> {}]
    /\ renews = [t \in Session |-> {}]

\* One step: the account, its role, and its invite, unless that was withdrawn.
Enrol(u) ==
    /\ u \notin members
    /\ \A v \in members : name[v] # name[u]
    /\ members' = members \cup {u}
    /\ admins' = admins \cup {u} \/ (members # {} /\ admins' = admins)
    /\ \/ invites[code[u]] \in {"live", "expired"} /\ spentOn' = [spentOn EXCEPT ![code[u]] = {u}]
       \/ invites[code[u]] = "deleted" /\ UNCHANGED spentOn
    /\ UNCHANGED <<signup, invites, sessions>>

\* An invite is issued once, may expire, and is withdrawn by an administrator.
Reissue(i, from, to) ==
    /\ invites[i] \in from
    /\ invites' = [invites EXCEPT ![i] = to]
    /\ UNCHANGED <<signup, members, admins, sessions>>

Issue(i) == Reissue(i, {"absent"}, "live") /\ UNCHANGED spentOn

Lapse(i) == Reissue(i, {"live"}, "expired") /\ UNCHANGED spentOn

Withdraw(i) ==
    /\ admins # {}
    /\ Reissue(i, {"live", "expired"}, "deleted")
    /\ spentOn' = [spentOn EXCEPT ![i] = {}]

\* A session that was opened is presented, to be replaced by another one.
Present(t, s) ==
    /\ holder[t] = {} /\ renews[t] = {}
    /\ holder[s] # {}
    /\ renews' = [renews EXCEPT ![t] = {s}]
    /\ UNCHANGED <<signup, accounts, holder, open>>

Close(t) ==
    /\ t \in open
    /\ open' = open \ {t}
    /\ UNCHANGED <<signup, accounts, holder, renews>>

\* A renewal is for the account of the session it replaces, which is closed.
Open(t, u) ==
    /\ u \in members
    /\ holder[t] = {}
    /\ \A s \in renews[t] : holder[s] = {u} /\ s \notin open
    /\ holder' = [holder EXCEPT ![t] = {u}]
    /\ open' = open \cup {t}
    /\ UNCHANGED <<signup, accounts, renews>>

RNext ==
    \/ \E u \in Person : Enrol(u)
    \/ \E i \in Invite : Issue(i) \/ Lapse(i) \/ Withdraw(i)
    \/ \E t \in Session : Close(t) \/ \E s \in Session : Present(t, s)
    \/ \E t \in Session, u \in Person : Open(t, u)

RSpec == RInit /\ [][RNext]_rvars

\* What the steps keep together: an account with its name, an administrator
\* among the accounts, and one account along a chain of renewals, of which no
\* session but the last can be renewed.
RegistryInv ==
    /\ admins \subseteq members /\ (members # {} => admins # {})
    /\ \A u, v \in members : name[u] = name[v] => u = v
    /\ spentOn \in [Invite -> SUBSET members]
    /\ holder \in [Session -> SUBSET members] /\ renews \in [Session -> SUBSET Session]
    /\ \A t \in open : t \in Session /\ holder[t] # {}
    /\ \A t \in Session : holder[t] # {} =>
         \A s \in renews[t] : holder[s] = holder[t] /\ s \notin open

\* No account goes away, no administrator becomes a plain member, and a session
\* that was closed is not opened again.
Forward ==
    /\ members \subseteq members' /\ admins \subseteq admins'
    /\ \A t \in Session : holder[t] # {} =>
         holder'[t] = holder[t] /\ (t \in open' => t \in open)

RegistryForward == [][Forward]_rvars
=============================================================================
