------------------------------ MODULE Accounts ------------------------------
(* internal/user/service.go, internal/invite/service.go and the bootstrap in *)
(* cmd/server/main.go: registration with an invite, login, token refresh.    *)
(* Every request is a goroutine; a query is one step, and a transaction      *)
(* becomes visible at its commit (PostgreSQL, READ COMMITTED).               *)
(*                                                                           *)
(* A request makes at most one account and one refresh token, so the request *)
(* is also the id of the users row and of the refresh_tokens row it creates. *)
EXTENDS Naturals, FiniteSets

CONSTANTS Req, Invite, Name, Replica

VARIABLES
    name, code,     \* [Req -> Name], [Req -> Invite]: the body of a registration
    pc,             \* [Req -> the statement the handler is about to run]
    isAdmin,        \* requests that computed isAdmin = true
    who,            \* [Req -> SUBSET Req]: the user the tokens will be made for
    given,          \* [Req -> SUBSET Req]: the refresh token of the request
    nameLock,       \* open transactions with an uncommitted users row
    inviteLock,     \* open transactions with an uncommitted update of an invite
    users,          \* committed users rows
    invites,        \* [Invite -> "absent" | "live" | "expired" | "deleted"]
    usedBy,         \* [Invite -> no user or one]: invites.used_by
    tokens,         \* rows of refresh_tokens
    boot            \* [Replica -> where main is before it serves]

vars == <<name, code, pc, isAdmin, who, given, nameLock, inviteLock,
          users, invites, usedBy, tokens, boot>>

body == <<name, code>>
db   == <<users, invites, usedBy, tokens>>

Pcs == {"idle", "check", "count", "create", "mark", "commit", "tokens",
        "lookup", "consume", "load", "done", "failed"}

AtMostOne(S) == {{}} \cup {{x} : x \in S}

TypeOK ==
    /\ name \in [Req -> Name]
    /\ code \in [Req -> Invite]
    /\ pc \in [Req -> Pcs]
    /\ isAdmin \in SUBSET Req
    /\ who \in [Req -> AtMostOne(Req)]
    /\ given \in [Req -> AtMostOne(Req)]
    /\ nameLock \in SUBSET Req
    /\ inviteLock \in SUBSET Req
    /\ users \in SUBSET Req
    /\ invites \in [Invite -> {"absent", "live", "expired", "deleted"}]
    /\ usedBy \in [Invite -> AtMostOne(Req)]
    /\ tokens \in SUBSET Req
    /\ boot \in [Replica -> {"start", "create", "up"}]

Init ==
    /\ name \in [Req -> Name]
    /\ code \in [Req -> Invite]
    /\ pc = [r \in Req |-> "idle"]
    /\ isAdmin = {}
    /\ who = [r \in Req |-> {}]
    /\ given = [r \in Req |-> {}]
    /\ nameLock = {}
    /\ inviteLock = {}
    /\ users = {}
    /\ invites = [i \in Invite |-> "absent"]
    /\ usedBy = [i \in Invite |-> {}]
    /\ tokens = {}
    /\ boot = [p \in Replica |-> "start"]

Goto(r, from, to) == pc[r] = from /\ pc' = [pc EXCEPT ![r] = to]

-----------------------------------------------------------------------------
(* Service.Register *)

StartRegister(r) ==
    /\ \E p \in Replica : boot[p] = "up"
    /\ Goto(r, "idle", "check")
    /\ who' = [who EXCEPT ![r] = {r}]
    /\ UNCHANGED <<body, isAdmin, given, nameLock, inviteLock, db, boot>>

\* GetInviteByCode and the test of used_by and expires_at.
CheckInvite(r) ==
    /\ \/ /\ invites[code[r]] = "live"
          /\ usedBy[code[r]] = {}
          /\ Goto(r, "check", "count")
       \/ /\ invites[code[r]] # "live" \/ usedBy[code[r]] # {}
          /\ Goto(r, "check", "failed")
    /\ UNCHANGED <<body, isAdmin, who, given, nameLock, inviteLock, db, boot>>

\* Mutant of CountUsers: the account being made is counted too.
CountUsers_OffByOne(r) ==
    /\ Goto(r, "count", "create")
    /\ isAdmin' = IF Cardinality(users) = 1 THEN isAdmin \cup {r} ELSE isAdmin \ {r}
    /\ UNCHANGED <<body, who, given, nameLock, inviteLock, db, boot>>

\* CountUsers, outside the transaction, sees committed rows only.
CountUsers(r) ==
    /\ Goto(r, "count", "create")
    /\ isAdmin' = IF users = {} THEN isAdmin \cup {r} ELSE isAdmin \ {r}
    /\ UNCHANGED <<body, who, given, nameLock, inviteLock, db, boot>>

\* Mutant of CreateUser: no transaction, so the row is there before the invite
\* is marked.
CreateUser_NoTx(r) ==
    /\ \A q \in users : name[q] # name[r]
    /\ Goto(r, "create", "mark")
    /\ users' = users \cup {r}
    /\ UNCHANGED <<body, isAdmin, who, given, nameLock, inviteLock, invites, usedBy, tokens, boot>>

\* Begin and INSERT INTO users: it waits for an open transaction that inserted
\* the same name, and fails when the name is taken.
CreateUser(r) ==
    /\ \A q \in nameLock : name[q] # name[r]
    /\ \/ /\ \A q \in users : name[q] # name[r]
          /\ Goto(r, "create", "mark")
          /\ nameLock' = nameLock \cup {r}
       \/ /\ \E q \in users : name[q] = name[r]
          /\ Goto(r, "create", "failed")
          /\ UNCHANGED nameLock
    /\ UNCHANGED <<body, isAdmin, who, given, inviteLock, db, boot>>

\* UPDATE invites SET used_by ... WHERE id = $2: it waits for the row's lock,
\* and does not look at used_by again; it finds no row if the invite is gone.
MarkInviteUsed(r) ==
    /\ \A q \in inviteLock : code[q] # code[r]
    /\ Goto(r, "mark", "commit")
    /\ inviteLock' = IF invites[code[r]] = "deleted" THEN inviteLock ELSE inviteLock \cup {r}
    /\ UNCHANGED <<body, isAdmin, who, given, nameLock, db, boot>>

\* The transaction's effects: its users row, and the invite it updated, if any.
Committed(r) ==
    /\ users' = users \cup {r}
    /\ usedBy' = IF r \in inviteLock THEN [usedBy EXCEPT ![code[r]] = {r}] ELSE usedBy
    /\ nameLock' = nameLock \ {r}
    /\ inviteLock' = inviteLock \ {r}
    /\ UNCHANGED <<invites, tokens>>

\* Mutant of Commit: the uses of an invite are added up.
Commit_AddsUse(r) ==
    /\ Goto(r, "commit", "tokens")
    /\ users' = users \cup {r}
    /\ usedBy' = [usedBy EXCEPT ![code[r]] = @ \cup {r}]
    /\ nameLock' = nameLock \ {r}
    /\ inviteLock' = inviteLock \ {r}
    /\ UNCHANGED <<body, isAdmin, who, given, invites, tokens, boot>>

\* Commit succeeds, or the connection breaks after the server committed.
Commit(r) ==
    /\ Goto(r, "commit", "tokens") \/ Goto(r, "commit", "failed")
    /\ Committed(r)
    /\ UNCHANGED <<body, isAdmin, who, given, boot>>

\* Mutant of Abort: the deferred Rollback is missing.
Abort_NoRollback(r) ==
    /\ pc[r] \in {"check", "count", "create", "mark", "commit", "lookup", "consume", "load", "tokens"}
    /\ pc' = [pc EXCEPT ![r] = "failed"]
    /\ UNCHANGED <<body, isAdmin, who, given, nameLock, inviteLock, db, boot>>

\* Any statement fails, the request is cancelled or its replica dies: the
\* handler returns an error and an open transaction is rolled back.
Abort(r) ==
    /\ pc[r] \in {"check", "count", "create", "mark", "commit", "lookup", "consume", "load", "tokens"}
    /\ pc' = [pc EXCEPT ![r] = "failed"]
    /\ nameLock' = nameLock \ {r}
    /\ inviteLock' = inviteLock \ {r}
    /\ UNCHANGED <<body, isAdmin, who, given, db, boot>>

-----------------------------------------------------------------------------
(* Service.Login, Service.RefreshToken, generateTokens *)

\* CreateRefreshToken; the pair goes to the client.
GenerateTokens(r) ==
    /\ Goto(r, "tokens", "done")
    /\ tokens' = tokens \cup {r}
    /\ UNCHANGED <<body, isAdmin, who, given, nameLock, inviteLock, users, invites, usedBy, boot>>

\* GetUserByUsername finds the user and the password is right.
Login(r, u) ==
    /\ u \in users
    /\ Goto(r, "idle", "tokens")
    /\ who' = [who EXCEPT ![r] = {u}]
    /\ UNCHANGED <<body, isAdmin, given, nameLock, inviteLock, db, boot>>

\* The client presents a token it was given in an earlier answer.
StartRefresh(r, t) ==
    /\ pc[t] = "done"
    /\ Goto(r, "idle", "lookup")
    /\ given' = [given EXCEPT ![r] = {t}]
    /\ UNCHANGED <<body, isAdmin, who, nameLock, inviteLock, db, boot>>

\* Mutant of LookupToken: the token is not deleted, it stays good.
LookupToken_NotConsumed(r) ==
    /\ \/ given[r] \subseteq tokens /\ Goto(r, "lookup", "load")
       \/ ~ (given[r] \subseteq tokens) /\ Goto(r, "lookup", "failed")
    /\ UNCHANGED <<body, isAdmin, who, given, nameLock, inviteLock, db, boot>>

\* GetRefreshToken finds the row or there is none.
LookupToken(r) ==
    /\ \/ given[r] \subseteq tokens /\ Goto(r, "lookup", "consume")
       \/ ~ (given[r] \subseteq tokens) /\ Goto(r, "lookup", "failed")
    /\ UNCHANGED <<body, isAdmin, who, given, nameLock, inviteLock, db, boot>>

\* DeleteRefreshToken: nobody looks at how many rows it deleted.
DeleteToken(r) ==
    /\ Goto(r, "consume", "load")
    /\ tokens' = tokens \ given[r]
    /\ UNCHANGED <<body, isAdmin, who, given, nameLock, inviteLock, users, invites, usedBy, boot>>

\* GetUserByID of the token's user.
LoadUser(r) ==
    /\ Goto(r, "load", "tokens")
    /\ who' = [who EXCEPT ![r] = UNION {who[t] : t \in given[r]}]
    /\ UNCHANGED <<body, isAdmin, given, nameLock, inviteLock, db, boot>>

-----------------------------------------------------------------------------
(* Invites: created by administrators and by main, deleted, expiring *)

CreateInvite(i) ==
    /\ \E u \in users : u \in isAdmin
    /\ invites[i] = "absent"
    /\ invites' = [invites EXCEPT ![i] = "live"]
    /\ UNCHANGED <<body, pc, isAdmin, who, given, nameLock, inviteLock, users, usedBy, tokens, boot>>

\* DELETE waits for the row's lock.
DeleteInvite(i) ==
    /\ \E u \in users : u \in isAdmin
    /\ invites[i] \in {"live", "expired"}
    /\ \A q \in inviteLock : code[q] # i
    /\ invites' = [invites EXCEPT ![i] = "deleted"]
    /\ usedBy' = [usedBy EXCEPT ![i] = {}]
    /\ UNCHANGED <<body, pc, isAdmin, who, given, nameLock, inviteLock, users, tokens, boot>>

Expire(i) ==
    /\ invites[i] = "live"
    /\ invites' = [invites EXCEPT ![i] = "expired"]
    /\ UNCHANGED <<body, pc, isAdmin, who, given, nameLock, inviteLock, users, usedBy, tokens, boot>>

\* main: count the users, then make a seed invite if there were none.
BootCount(p) ==
    /\ boot[p] = "start"
    /\ boot' = [boot EXCEPT ![p] = IF users = {} THEN "create" ELSE "up"]
    /\ UNCHANGED <<body, pc, isAdmin, who, given, nameLock, inviteLock, db>>

Bootstrap(p, i) ==
    /\ boot[p] = "create"
    /\ invites[i] = "absent"
    /\ invites' = [invites EXCEPT ![i] = "live"]
    /\ boot' = [boot EXCEPT ![p] = "up"]
    /\ UNCHANGED <<body, pc, isAdmin, who, given, nameLock, inviteLock, users, usedBy, tokens>>

Restart(p) ==
    /\ boot[p] # "start"
    /\ boot' = [boot EXCEPT ![p] = "start"]
    /\ UNCHANGED <<body, pc, isAdmin, who, given, nameLock, inviteLock, db>>

-----------------------------------------------------------------------------
Handle(r) ==
    \/ CheckInvite(r) \/ CountUsers(r) \/ CreateUser(r) \/ MarkInviteUsed(r) \/ Commit(r)
    \/ GenerateTokens(r) \/ LookupToken(r) \/ DeleteToken(r) \/ LoadUser(r)
    \/ Abort(r)

Next ==
    \/ \E r \in Req : Handle(r) \/ StartRegister(r) \/ \E q \in Req : Login(r, q) \/ StartRefresh(r, q)
    \/ \E i \in Invite : CreateInvite(i) \/ DeleteInvite(i) \/ Expire(i)
    \/ \E p \in Replica : BootCount(p) \/ Restart(p) \/ \E i \in Invite : Bootstrap(p, i)

Spec == Init /\ [][Next]_vars

-----------------------------------------------------------------------------
(* Properties *)

\* As soon as there is an account there is an administrator, so that somebody
\* can invite the next user: CountUsers runs outside the transaction, yet the
\* first account to commit always counted none.
AdminExists == users # {} => \E u \in users : u \in isAdmin

\* No account without its invite spent, whatever statement fails and whenever
\* an administrator deletes the invite: it is marked used or deleted.
AccountsConsumeInvites ==
    \A u \in users : usedBy[code[u]] # {} \/ invites[code[u]] = "deleted"

\* Two accounts never have the same name, however their transactions overlap.
NamesUnique == \A u, v \in users : name[u] = name[v] => u = v

\* Committed rows are all that anybody sees of a registration: however the
\* statements of registrations, logins, refreshes and deletions of invites
\* interleave and wherever they fail, an account appears in one step with its
\* role and its invite spent, and a refresh ends its session before it opens
\* another one for the same account.
Admins == isAdmin \cap users

Holder == [t \in Req |-> IF pc[t] = "done" THEN who[t] ELSE {}]

Registered == INSTANCE Registry WITH
    Person <- Req, Session <- Req, members <- users, admins <- Admins,
    spentOn <- usedBy, holder <- Holder, renews <- given, open <- tokens

RegistryImplemented == Registered!RSpec

\* A registration that waits for a row lock waits for one that is running: the
\* locks are taken in one order, the name first and the invite second, and each
\* way out of a handler gives them back.
Waiting(r) ==
    \/ pc[r] = "create" /\ \E q \in nameLock : name[q] = name[r]
    \/ pc[r] = "mark" /\ \E q \in inviteLock : code[q] = code[r]

WaitsForRunning ==
    \A r \in Req : Waiting(r) =>
        \E q \in nameLock \cup inviteLock : pc[q] \in {"mark", "commit"} /\ ~ Waiting(q)

\* An invite that is used makes no second account ("invite code is invalid,
\* used, or expired").
OneAccountPerInvite == \A u, v \in users : code[u] = code[v] => u = v
=============================================================================
