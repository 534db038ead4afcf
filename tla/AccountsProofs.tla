--------------------------- MODULE AccountsProofs ---------------------------
(* Theorems about Accounts, for every number of requests, names, invites and *)
(* server replicas.                                                          *)
EXTENDS Accounts, TLAPS

\* What the invariants rest on: who holds a lock is told by where it is, no two
\* holders of a lock, and no holder and no row, have the same key, and a
\* registration that is not to be an administrator saw an account.
LockInv ==
    /\ \A r \in Req : r \in nameLock <=> pc[r] \in {"mark", "commit"}
    /\ \A r \in inviteLock : pc[r] = "commit"
    /\ \A r \in Req : pc[r] = "commit" => r \in inviteLock \/ invites[code[r]] = "deleted"
    /\ \A r \in users : pc[r] \in {"tokens", "done", "failed"}

NameInv == \A q \in nameLock : \A r \in nameLock \cup users : name[q] = name[r] => q = r

AdminInv ==
    \A r \in Req : pc[r] \in {"create", "mark", "commit"} /\ r \notin isAdmin => users # {}

AccountsInv ==
    /\ LockInv
    /\ NameInv
    /\ AdminInv
    /\ AdminExists
    /\ AccountsConsumeInvites
    /\ NamesUnique

\* Every variable keeps its type; an invite has at most one user.
THEOREM AccountsTypeCorrect == Spec => []TypeOK
<1> USE DEF TypeOK, Pcs, AtMostOne, body, db, Goto
<1>1. Init => TypeOK
  BY DEF Init
<1>2. TypeOK /\ [Next]_vars => TypeOK'
  <2> SUFFICES ASSUME TypeOK, [Next]_vars
               PROVE  TypeOK'
    OBVIOUS
  <2>1. ASSUME NEW r \in Req, CheckInvite(r) \/ CountUsers(r) \/ CreateUser(r)
        PROVE  TypeOK'
    BY <2>1 DEF CheckInvite, CountUsers, CreateUser
  <2>2. ASSUME NEW r \in Req, MarkInviteUsed(r) \/ Abort(r)
        PROVE  TypeOK'
    BY <2>2 DEF MarkInviteUsed, Abort
  <2>3. ASSUME NEW r \in Req, Commit(r)
        PROVE  TypeOK'
    BY <2>3 DEF Commit, Committed
  <2>4. ASSUME NEW r \in Req, GenerateTokens(r) \/ LookupToken(r) \/ DeleteToken(r)
        PROVE  TypeOK'
    BY <2>4 DEF GenerateTokens, LookupToken, DeleteToken
  <2>5. ASSUME NEW r \in Req, LoadUser(r)
        PROVE  TypeOK'
    <3>1. UNION {who[t] : t \in given[r]} \in AtMostOne(Req)
      <4>1. CASE given[r] = {}
        BY <4>1
      <4>2. ASSUME NEW t \in Req, given[r] = {t}
            PROVE  UNION {who[u] : u \in given[r]} \in AtMostOne(Req)
        <5>1. UNION {who[u] : u \in given[r]} = who[t]
          BY <4>2
        <5> QED
          BY <5>1
      <4> QED
        BY <4>1, <4>2
    <3> QED
      BY <2>5, <3>1 DEF LoadUser
  <2>6. ASSUME NEW r \in Req, NEW q \in Req, StartRegister(r) \/ Login(r, q) \/ StartRefresh(r, q)
        PROVE  TypeOK'
    BY <2>6 DEF StartRegister, Login, StartRefresh
  <2>7. ASSUME NEW i \in Invite, CreateInvite(i) \/ DeleteInvite(i) \/ Expire(i)
        PROVE  TypeOK'
    BY <2>7 DEF CreateInvite, DeleteInvite, Expire
  <2>8. ASSUME NEW p \in Replica, BootCount(p) \/ Restart(p) \/ \E i \in Invite : Bootstrap(p, i)
        PROVE  TypeOK'
    BY <2>8 DEF BootCount, Restart, Bootstrap
  <2>9. CASE UNCHANGED vars
    BY <2>9 DEF vars
  <2> QED
    BY <2>1, <2>2, <2>3, <2>4, <2>5, <2>6, <2>7, <2>8, <2>9 DEF Next, Handle
<1> QED
  BY <1>1, <1>2, PTL DEF Spec

-----------------------------------------------------------------------------
\* Steps that leave the rows, the locks and the registrations under way alone.
LEMMA AccountsFrame ==
    ASSUME TypeOK, AccountsInv,
           UNCHANGED <<name, code, isAdmin, nameLock, inviteLock, users, invites, usedBy>>,
           \A r \in Req : \/ pc'[r] = pc[r]
                          \/ /\ pc[r] \notin {"create", "mark", "commit"}
                             /\ pc'[r] \notin {"create", "mark", "commit"}
                             /\ pc[r] \in {"tokens", "done", "failed"} =>
                                  pc'[r] \in {"tokens", "done", "failed"}
    PROVE  AccountsInv'
<1>1. LockInv'
  BY DEF AccountsInv, LockInv, TypeOK
<1>2. NameInv' /\ NamesUnique'
  BY DEF AccountsInv, NameInv, NamesUnique
<1>3. AdminInv' /\ AdminExists'
  BY DEF AccountsInv, AdminInv, AdminExists
<1>4. AccountsConsumeInvites'
  BY DEF AccountsInv, AccountsConsumeInvites
<1> QED
  BY <1>1, <1>2, <1>3, <1>4 DEF AccountsInv

LEMMA CommitInv ==
    ASSUME TypeOK, AccountsInv, NEW r \in Req, Commit(r)
    PROVE  AccountsInv'
<1> USE DEF AccountsInv, TypeOK
<1>1. /\ pc[r] = "commit" /\ r \in nameLock /\ r \notin users
      /\ r \in inviteLock \/ invites[code[r]] = "deleted"
      /\ pc'[r] \in {"tokens", "failed"}
      /\ \A q \in Req \ {r} : pc'[q] = pc[q]
      /\ users' = users \cup {r}
      /\ nameLock' = nameLock \ {r}
      /\ inviteLock' = inviteLock \ {r}
      /\ UNCHANGED <<name, code, isAdmin, invites>>
  BY DEF Commit, Committed, Goto, body, LockInv
<1>2. LockInv' /\ NameInv' /\ NamesUnique'
  BY <1>1 DEF LockInv, NameInv, NamesUnique
<1>3. AdminInv' /\ AdminExists'
  BY <1>1 DEF AdminInv, AdminExists
<1>4. AccountsConsumeInvites'
  <2>1. CASE r \notin inviteLock
    BY <1>1, <2>1 DEF AccountsConsumeInvites, Commit, Committed
  <2>2. CASE r \in inviteLock
    <3>1. usedBy' = [usedBy EXCEPT ![code[r]] = {r}]
      BY <2>2 DEF Commit, Committed
    <3> QED
      BY <1>1, <3>1 DEF AccountsConsumeInvites
  <2> QED
    BY <2>1, <2>2
<1> QED
  BY <1>2, <1>3, <1>4

LEMMA RegisterStepInv ==
    ASSUME TypeOK, AccountsInv, NEW r \in Req,
           CheckInvite(r) \/ CountUsers(r) \/ CreateUser(r) \/ MarkInviteUsed(r) \/ Abort(r)
    PROVE  AccountsInv'
<1> USE DEF TypeOK, body, db, Goto
<1>1. CASE CheckInvite(r)
  BY <1>1, AccountsFrame DEF CheckInvite
<1>2. CASE CountUsers(r)
  BY <1>2 DEF CountUsers, AccountsInv, LockInv, NameInv, AdminInv, AdminExists,
              AccountsConsumeInvites, NamesUnique
<1>3. CASE CreateUser(r)
  BY <1>3 DEF CreateUser, AccountsInv, LockInv, NameInv, AdminInv, AdminExists,
              AccountsConsumeInvites, NamesUnique
<1>4. CASE MarkInviteUsed(r)
  BY <1>4 DEF MarkInviteUsed, AccountsInv, LockInv, NameInv, AdminInv, AdminExists,
              AccountsConsumeInvites, NamesUnique
<1>5. CASE Abort(r)
  BY <1>5 DEF Abort, AccountsInv, LockInv, NameInv, AdminInv, AdminExists,
              AccountsConsumeInvites, NamesUnique
<1> QED
  BY <1>1, <1>2, <1>3, <1>4, <1>5

LEMMA OtherStepInv ==
    ASSUME TypeOK, AccountsInv, NEW r \in Req, NEW q \in Req,
           \/ GenerateTokens(r) \/ LookupToken(r) \/ DeleteToken(r) \/ LoadUser(r)
           \/ StartRegister(r) \/ Login(r, q) \/ StartRefresh(r, q)
    PROVE  AccountsInv'
<1> USE DEF TypeOK, body, db, Goto
<1>1. UNCHANGED <<name, code, isAdmin, nameLock, inviteLock, users, invites, usedBy>>
  BY DEF GenerateTokens, LookupToken, DeleteToken, LoadUser, StartRegister, Login, StartRefresh
<1>2. \A p \in Req : \/ pc'[p] = pc[p]
                     \/ /\ pc[p] \notin {"create", "mark", "commit"}
                        /\ pc'[p] \notin {"create", "mark", "commit"}
                        /\ pc[p] \in {"tokens", "done", "failed"} =>
                             pc'[p] \in {"tokens", "done", "failed"}
  BY DEF GenerateTokens, LookupToken, DeleteToken, LoadUser, StartRegister, Login, StartRefresh
<1> QED
  BY <1>1, <1>2, AccountsFrame

LEMMA InviteStepInv ==
    ASSUME TypeOK, AccountsInv, NEW i \in Invite,
           \/ CreateInvite(i) \/ DeleteInvite(i) \/ Expire(i)
           \/ \E p \in Replica : Bootstrap(p, i)
    PROVE  AccountsInv'
<1> USE DEF TypeOK, body, db
<1>1. UNCHANGED <<name, code, pc, isAdmin, nameLock, inviteLock, users>>
  BY DEF CreateInvite, DeleteInvite, Expire, Bootstrap
<1>2. AccountsConsumeInvites'
  BY <1>1 DEF CreateInvite, DeleteInvite, Expire, Bootstrap, AccountsInv, AccountsConsumeInvites
<1>3. \A k \in Invite : invites[k] = "deleted" => invites'[k] = "deleted"
  BY DEF CreateInvite, DeleteInvite, Expire, Bootstrap
<1>4. LockInv'
  BY <1>1, <1>3 DEF AccountsInv, LockInv
<1> QED
  BY <1>1, <1>2, <1>4 DEF AccountsInv, NameInv, AdminInv, AdminExists, NamesUnique

\* The inductive invariant behind the properties of accounts.
THEOREM AccountsInvariant == Spec => []AccountsInv
<1>1. Init => AccountsInv
  BY DEF Init, AccountsInv, LockInv, NameInv, AdminInv, AdminExists,
         AccountsConsumeInvites, NamesUnique
<1>2. TypeOK /\ AccountsInv /\ [Next]_vars => AccountsInv'
  <2> SUFFICES ASSUME TypeOK, AccountsInv, [Next]_vars
               PROVE  AccountsInv'
    OBVIOUS
  <2>1. ASSUME NEW r \in Req, Handle(r)
        PROVE  AccountsInv'
    BY <2>1, CommitInv, RegisterStepInv, OtherStepInv DEF Handle
  <2>2. ASSUME NEW r \in Req, NEW q \in Req, StartRegister(r) \/ Login(r, q) \/ StartRefresh(r, q)
        PROVE  AccountsInv'
    BY <2>2, OtherStepInv
  <2>3. ASSUME NEW i \in Invite,
               \/ CreateInvite(i) \/ DeleteInvite(i) \/ Expire(i)
               \/ \E p \in Replica : Bootstrap(p, i)
        PROVE  AccountsInv'
    BY <2>3, InviteStepInv
  <2>4. ASSUME NEW p \in Replica, BootCount(p) \/ Restart(p)
        PROVE  AccountsInv'
    BY <2>4, AccountsFrame DEF BootCount, Restart, body, db
  <2>5. CASE UNCHANGED vars
    BY <2>5, AccountsFrame DEF vars
  <2> QED
    BY <2>1, <2>2, <2>3, <2>4, <2>5 DEF Next
<1> QED
  BY <1>1, <1>2, AccountsTypeCorrect, PTL DEF Spec

\* Somebody can always invite: the first account to commit is an administrator.
THEOREM AdminAlwaysExists == Spec => []AdminExists
<1>1. AccountsInv => AdminExists
  BY DEF AccountsInv
<1> QED
  BY <1>1, AccountsInvariant, PTL

\* No account is made without spending its invite.
THEOREM AccountsAreSound == Spec => []AccountsConsumeInvites
<1>1. AccountsInv => AccountsConsumeInvites
  BY DEF AccountsInv
<1> QED
  BY <1>1, AccountsInvariant, PTL

\* No two registrations, however they overlap, both take one name.
THEOREM NamesAreUnique == Spec => []NamesUnique
<1>1. AccountsInv => NamesUnique
  BY DEF AccountsInv
<1> QED
  BY <1>1, AccountsInvariant, PTL

\* Registrations never wait for each other in a circle.
THEOREM RegistrationsNeverDeadlock == Spec => []WaitsForRunning
<1>1. TypeOK /\ AccountsInv => WaitsForRunning
  <2> SUFFICES ASSUME TypeOK, AccountsInv, NEW r \in Req, Waiting(r)
               PROVE  \E q \in nameLock \cup inviteLock :
                         pc[q] \in {"mark", "commit"} /\ ~ Waiting(q)
    BY DEF WaitsForRunning
  <2> USE DEF TypeOK, AccountsInv, LockInv
  <2>1. \A q \in inviteLock : pc[q] = "commit" /\ ~ Waiting(q)
    BY DEF Waiting
  <2>2. CASE pc[r] = "mark"
    <3>1. PICK q \in inviteLock : code[q] = code[r]
      BY <2>2 DEF Waiting
    <3> QED
      BY <2>1, <3>1
  <2>3. CASE pc[r] = "create"
    <3>1. PICK q \in nameLock : name[q] = name[r]
      BY <2>3 DEF Waiting
    <3>2. pc[q] \in {"mark", "commit"}
      BY <3>1
    <3>3. CASE Waiting(q)
      <4>1. PICK p \in inviteLock : code[p] = code[q]
        BY <3>2, <3>3 DEF Waiting
      <4> QED
        BY <2>1, <4>1
    <3> QED
      BY <3>1, <3>2, <3>3
  <2> QED
    BY <2>2, <2>3 DEF Waiting
<1> QED
  BY <1>1, AccountsTypeCorrect, AccountsInvariant, PTL

-----------------------------------------------------------------------------
(* Accounts implements Registry *)

\* What only the refinement needs: an invite that somebody registers with was
\* issued, and the one a transaction updated cannot be deleted before it ends.
IssuedInv ==
    \A r \in Req :
        /\ pc[r] \in {"count", "create", "mark", "commit"} => invites[code[r]] # "absent"
        /\ r \in inviteLock => invites[code[r]] # "deleted"

\* And: who answers are for. A request that is about to store a token, or that
\* stored one, is for one account; a refresh presents one token of a request
\* that was answered, and is for the account of that token, which it deleted.
ForOne(r) == pc[r] \in {"tokens", "done"} => \E u \in users : who[r] = {u}

Given(r) ==
    /\ pc[r] \in {"idle", "check", "count", "create", "mark", "commit"} => given[r] = {}
    /\ pc[r] \in {"lookup", "consume", "load"} => given[r] # {}

Renewed(r) == \A t \in given[r] :
    /\ pc[t] = "done"
    /\ pc[r] \in {"load", "tokens"} => t \notin tokens
    /\ pc[r] = "tokens" => who[r] = who[t]

SessionInv ==
    /\ \A r \in Req : ForOne(r) /\ Given(r) /\ Renewed(r)
    /\ \A r \in Req : pc[r] \in {"check", "count", "create", "mark", "commit"} => who[r] = {r}
    /\ \A t \in tokens : pc[t] = "done"

LEMMA IssuedStep ==
    ASSUME TypeOK, AccountsInv, IssuedInv, [Next]_vars
    PROVE  IssuedInv'
<1> USE DEF TypeOK, body, db, Goto, IssuedInv
<1>1. ASSUME NEW r \in Req, CheckInvite(r) \/ CountUsers(r) \/ CreateUser(r)
      PROVE  IssuedInv'
  BY <1>1 DEF CheckInvite, CountUsers, CreateUser, AccountsInv, LockInv
<1>2. ASSUME NEW r \in Req, MarkInviteUsed(r) \/ Abort(r)
      PROVE  IssuedInv'
  BY <1>2 DEF MarkInviteUsed, Abort
<1>3. ASSUME NEW r \in Req, Commit(r)
      PROVE  IssuedInv'
  BY <1>3 DEF Commit, Committed
<1>4. ASSUME NEW r \in Req, GenerateTokens(r) \/ LookupToken(r) \/ DeleteToken(r) \/ LoadUser(r)
      PROVE  IssuedInv'
  BY <1>4 DEF GenerateTokens, LookupToken, DeleteToken, LoadUser
<1>5. ASSUME NEW r \in Req, NEW q \in Req, StartRegister(r) \/ Login(r, q) \/ StartRefresh(r, q)
      PROVE  IssuedInv'
  BY <1>5 DEF StartRegister, Login, StartRefresh
<1>6. ASSUME NEW i \in Invite, CreateInvite(i) \/ DeleteInvite(i) \/ Expire(i)
      PROVE  IssuedInv'
  BY <1>6 DEF CreateInvite, DeleteInvite, Expire
<1>7. ASSUME NEW p \in Replica, BootCount(p) \/ Restart(p) \/ \E i \in Invite : Bootstrap(p, i)
      PROVE  IssuedInv'
  BY <1>7 DEF BootCount, Restart, Bootstrap
<1>8. CASE UNCHANGED vars
  BY <1>8 DEF vars
<1> QED
  BY <1>1, <1>2, <1>3, <1>4, <1>5, <1>6, <1>7, <1>8 DEF Next, Handle

\* Steps of a registration, and those that no session depends on.
LEMMA SessionFrame ==
    ASSUME TypeOK, AccountsInv, SessionInv, NEW r \in Req,
           \/ CheckInvite(r) \/ CountUsers(r) \/ CreateUser(r) \/ MarkInviteUsed(r)
           \/ Commit(r) \/ Abort(r) \/ StartRegister(r)
    PROVE  SessionInv'
<1> USE DEF TypeOK, SessionInv
<1>1. /\ \A q \in Req \ {r} : pc'[q] = pc[q] /\ who'[q] = who[q]
      /\ UNCHANGED <<given, tokens>>
      /\ users \subseteq users'
      /\ pc[r] \notin {"done"} /\ pc'[r] \notin {"done"}
  BY DEF CheckInvite, CountUsers, CreateUser, MarkInviteUsed, Commit, Committed, Abort,
         StartRegister, body, db, Goto
<1>2. pc'[r] = "failed" \/ (pc'[r] = "tokens" /\ who'[r] = {r} /\ r \in users' /\ given[r] = {})
      \/ (pc'[r] \in {"check", "count", "create", "mark", "commit"} /\ given[r] = {} /\ who'[r] = {r})
  BY DEF Given, CheckInvite, CountUsers, CreateUser, MarkInviteUsed, Commit, Committed, Abort,
         StartRegister, body, db, Goto
<1>3. \A q \in Req : ForOne(q)'
  BY <1>1, <1>2 DEF ForOne
<1>4. \A q \in Req : Given(q)'
  BY <1>1, <1>2 DEF Given
<1>5. ASSUME NEW q \in Req, NEW t \in given[q]
      PROVE  /\ pc'[t] = "done"
             /\ pc'[q] \in {"load", "tokens"} => t \notin tokens
             /\ pc'[q] = "tokens" => who'[q] = who'[t]
  <2>1. t \in Req /\ pc[t] = "done" /\ t # r
    BY <1>1, <1>5 DEF Renewed, AtMostOne
  <2> QED
    BY <1>1, <1>2, <1>5, <2>1 DEF Renewed
<1>6. \A q \in Req : Renewed(q)'
  BY <1>1, <1>5 DEF Renewed
<1> QED
  BY <1>1, <1>2, <1>3, <1>4, <1>6

LEMMA SessionStep ==
    ASSUME TypeOK, AccountsInv, SessionInv, [Next]_vars
    PROVE  SessionInv'
<1> USE DEF TypeOK, SessionInv, ForOne, Given, Renewed
<1>1. ASSUME NEW r \in Req, GenerateTokens(r)
      PROVE  SessionInv'
  BY <1>1 DEF GenerateTokens, body, Goto
<1>2. ASSUME NEW r \in Req, LookupToken(r)
      PROVE  SessionInv'
  <2>1. pc'[r] \in {"consume", "failed"} /\ pc[r] = "lookup"
        /\ UNCHANGED <<who, given, users, tokens>>
        /\ \A q \in Req \ {r} : pc'[q] = pc[q]
    BY <1>2 DEF LookupToken, body, db, Goto
  <2>2. \A q \in Req : \A t \in given[q] : t \in Req
    BY DEF AtMostOne
  <2> QED
    BY <2>1, <2>2
<1>3. ASSUME NEW r \in Req, DeleteToken(r)
      PROVE  SessionInv'
  BY <1>3 DEF DeleteToken, body, Goto
<1>4. ASSUME NEW r \in Req, LoadUser(r)
      PROVE  SessionInv'
  <2>1. PICK t \in Req : given[r] = {t}
    BY <1>4 DEF LoadUser, Goto, AtMostOne
  <2>2. pc[t] = "done" /\ t \notin tokens /\ t # r
    BY <1>4, <2>1 DEF LoadUser, Goto
  <2>3. PICK u \in users : who[t] = {u}
    BY <2>2
  <2>4. UNION {who[s] : s \in given[r]} = {u}
    BY <2>1, <2>3
  <2>5. who' = [who EXCEPT ![r] = {u}] /\ pc' = [pc EXCEPT ![r] = "tokens"]
        /\ UNCHANGED <<given, tokens, users>>
    BY <1>4, <2>4 DEF LoadUser, Goto, db
  <2>6. \A q \in Req : r \notin given[q]
    BY <1>4 DEF LoadUser, Goto
  <2>7. \A q \in Req \ {r} : pc'[q] = pc[q] /\ who'[q] = who[q]
    BY <2>5
  <2>8. pc'[r] = "tokens" /\ who'[r] = {u} /\ who'[t] = {u} /\ pc'[t] = "done"
    BY <2>2, <2>3, <2>5
  <2>9. \A q \in Req : Renewed(q)'
    BY <2>1, <2>2, <2>5, <2>6, <2>7, <2>8
  <2>10. \A q \in Req : ForOne(q)' /\ Given(q)'
    BY <2>1, <2>3, <2>5, <2>7, <2>8
  <2> QED
    BY <1>4, <2>5, <2>7, <2>8, <2>9, <2>10 DEF LoadUser, Goto
<1>5. ASSUME NEW r \in Req, NEW q \in Req, Login(r, q)
      PROVE  SessionInv'
  BY <1>5 DEF Login, body, db, Goto
<1>6. ASSUME NEW r \in Req, NEW q \in Req, StartRefresh(r, q)
      PROVE  SessionInv'
  BY <1>6 DEF StartRefresh, body, db, Goto
<1>7. ASSUME NEW i \in Invite, CreateInvite(i) \/ DeleteInvite(i) \/ Expire(i)
      PROVE  SessionInv'
  BY <1>7 DEF CreateInvite, DeleteInvite, Expire
<1>8. ASSUME NEW p \in Replica, BootCount(p) \/ Restart(p) \/ \E i \in Invite : Bootstrap(p, i)
      PROVE  SessionInv'
  BY <1>8 DEF BootCount, Restart, Bootstrap, db
<1>9. CASE UNCHANGED vars
  BY <1>9 DEF vars
<1> QED
  BY <1>1, <1>2, <1>3, <1>4, <1>5, <1>6, <1>7, <1>8, <1>9, SessionFrame DEF Next, Handle

\* A session has one account for ever: a refresh answers with a token for the
\* account of the token it was given, and has deleted that one before.
THEOREM SessionsKeepTheirAccount == Spec => [](IssuedInv /\ SessionInv)
<1>1. Init => IssuedInv /\ SessionInv
  BY DEF Init, IssuedInv, SessionInv, ForOne, Given, Renewed
<1>2. TypeOK /\ AccountsInv /\ IssuedInv /\ SessionInv /\ [Next]_vars => IssuedInv' /\ SessionInv'
  BY IssuedStep, SessionStep
<1> QED
  BY <1>1, <1>2, AccountsTypeCorrect, AccountsInvariant, PTL DEF Spec

\* Steps that store no token make no session and change none.
LEMMA HolderFrame ==
    ASSUME \A t \in Req : /\ pc'[t] = "done" <=> pc[t] = "done"
                          /\ pc[t] = "done" => who'[t] = who[t]
    PROVE  Holder' = Holder
BY DEF Holder

LEMMA EnrolStep ==
    ASSUME TypeOK, AccountsInv, IssuedInv, NEW r \in Req, Commit(r)
    PROVE  Registered!Enrol(r)
<1> USE DEF TypeOK, AccountsInv, Commit, Committed, Goto, body
<1>1. r \notin users /\ r \in nameLock /\ pc[r] = "commit"
  BY DEF LockInv
<1>2. \A v \in users : name[v] # name[r]
  BY <1>1 DEF NameInv
<1>3. Admins' = Admins \cup {r} \/ (users # {} /\ Admins' = Admins)
  <2>1. CASE r \in isAdmin
    BY <2>1 DEF Admins
  <2>2. CASE r \notin isAdmin
    BY <1>1, <2>2 DEF Admins, AdminInv
  <2> QED
    BY <2>1, <2>2
<1>4. \/ invites[code[r]] \in {"live", "expired"} /\ usedBy' = [usedBy EXCEPT ![code[r]] = {r}]
      \/ invites[code[r]] = "deleted" /\ UNCHANGED usedBy
  BY <1>1 DEF IssuedInv, LockInv
<1>5. UNCHANGED Holder
  BY HolderFrame
<1> QED
  BY <1>1, <1>2, <1>3, <1>4, <1>5
     DEF Registered!Enrol, Registered!signup, Registered!sessions

\* The statements that nobody sees the effect of.
LEMMA HiddenStep ==
    ASSUME TypeOK, AccountsInv, NEW r \in Req, NEW u \in Req,
           \/ CheckInvite(r) \/ CountUsers(r) \/ CreateUser(r) \/ MarkInviteUsed(r)
           \/ Abort(r) \/ LookupToken(r) \/ LoadUser(r) \/ StartRegister(r) \/ Login(r, u)
    PROVE  UNCHANGED Registered!rvars
<1> USE DEF TypeOK, Goto, body, db
<1>1. UNCHANGED <<name, code, users, invites, usedBy, given, tokens>>
  BY DEF CheckInvite, CountUsers, CreateUser, MarkInviteUsed, Abort, LookupToken, LoadUser,
         StartRegister, Login
<1>2. UNCHANGED Holder
  <2>1. \A t \in Req : /\ pc'[t] = "done" <=> pc[t] = "done"
                       /\ pc[t] = "done" => who'[t] = who[t]
    BY DEF CheckInvite, CountUsers, CreateUser, MarkInviteUsed, Abort, LookupToken, LoadUser,
           StartRegister, Login
  <2> QED
    BY <2>1, HolderFrame
<1>3. UNCHANGED Admins
  <2>1. CASE CountUsers(r)
    <3>1. r \notin users
      BY <2>1 DEF CountUsers, AccountsInv, LockInv
    <3> QED
      BY <1>1, <2>1, <3>1 DEF CountUsers, Admins
  <2>2. CASE ~ CountUsers(r)
    BY <1>1, <2>2 DEF Admins, CheckInvite, CreateUser, MarkInviteUsed, Abort, LookupToken,
                      LoadUser, StartRegister, Login
  <2> QED
    BY <2>1, <2>2
<1> QED
  BY <1>1, <1>2, <1>3 DEF Registered!rvars

LEMMA TokenStep ==
    ASSUME TypeOK, AccountsInv, SessionInv, NEW r \in Req, NEW t \in Req,
           GenerateTokens(r) \/ DeleteToken(r) \/ StartRefresh(r, t)
    PROVE  Registered!RNext \/ UNCHANGED Registered!rvars
<1> USE DEF TypeOK, SessionInv, Goto, body, db, Registered!signup, Registered!accounts
<1>1. CASE GenerateTokens(r)
  <2>1. PICK u \in users : who[r] = {u}
    BY <1>1 DEF GenerateTokens, ForOne
  <2>2. \A s \in given[r] : Holder[s] = {u} /\ s \notin tokens
    BY <1>1, <2>1 DEF GenerateTokens, Renewed, Holder, AtMostOne
  <2>3. Holder[r] = {} /\ Holder' = [Holder EXCEPT ![r] = {u}]
    BY <1>1, <2>1 DEF GenerateTokens, Holder
  <2>4. UNCHANGED <<name, code, users, Admins, invites, usedBy, given>> /\ tokens' = tokens \cup {r}
    BY <1>1 DEF GenerateTokens, Admins
  <2>5. Registered!Open(r, u)
    BY <2>1, <2>2, <2>3, <2>4 DEF Registered!Open
  <2> QED
    BY <2>1, <2>5 DEF Registered!RNext
<1>2. CASE DeleteToken(r)
  <2>1. PICK s \in Req : given[r] = {s}
    BY <1>2 DEF DeleteToken, Given, AtMostOne
  <2>2. UNCHANGED Holder
    BY <1>2, HolderFrame DEF DeleteToken
  <2>3. UNCHANGED <<name, code, users, Admins, invites, usedBy, given>> /\ tokens' = tokens \ {s}
    BY <1>2, <2>1 DEF DeleteToken, Admins
  <2>4. CASE s \in tokens
    BY <2>2, <2>3, <2>4 DEF Registered!RNext, Registered!Close
  <2>5. CASE s \notin tokens
    BY <2>2, <2>3, <2>5 DEF Registered!rvars
  <2> QED
    BY <2>4, <2>5
<1>3. CASE StartRefresh(r, t)
  <2>1. given[r] = {} /\ Holder[r] = {} /\ Holder[t] # {}
    BY <1>3 DEF StartRefresh, Given, ForOne, Holder
  <2>2. UNCHANGED Holder
    BY <1>3, HolderFrame DEF StartRefresh
  <2>3. UNCHANGED <<name, code, users, Admins, invites, usedBy, tokens>>
        /\ given' = [given EXCEPT ![r] = {t}]
    BY <1>3 DEF StartRefresh, Admins
  <2> QED
    BY <2>1, <2>2, <2>3 DEF Registered!RNext, Registered!Present
<1> QED
  BY <1>1, <1>2, <1>3

LEMMA InvitesStep ==
    ASSUME TypeOK, AccountsInv, NEW i \in Invite,
           \/ CreateInvite(i) \/ DeleteInvite(i) \/ Expire(i)
           \/ \E p \in Replica : Bootstrap(p, i)
    PROVE  Registered!RNext
<1> USE DEF TypeOK, body, db, Registered!signup, Registered!sessions, Registered!Reissue
<1>1. UNCHANGED <<name, code, users, Admins, Holder, given, tokens>>
  BY DEF CreateInvite, DeleteInvite, Expire, Bootstrap, Admins, Holder
<1>2. CASE CreateInvite(i) \/ \E p \in Replica : Bootstrap(p, i)
  BY <1>1, <1>2 DEF CreateInvite, Bootstrap, Registered!Issue, Registered!RNext
<1>3. CASE DeleteInvite(i)
  <2>1. Admins # {}
    BY <1>3 DEF DeleteInvite, Admins
  <2> QED
    BY <1>1, <1>3, <2>1 DEF DeleteInvite, Registered!Withdraw, Registered!RNext
<1>4. CASE Expire(i)
  BY <1>1, <1>4 DEF Expire, Registered!Lapse, Registered!RNext
<1> QED
  BY <1>2, <1>3, <1>4

\* Requests that run statement by statement, that fail anywhere and that race
\* with each other show as accounts, invites and sessions that change in single
\* steps, each as Registry says.
THEOREM AccountsImplementRegistry == Spec => RegistryImplemented
<1>1. Init => Registered!RInit
  BY DEF Init, Registered!RInit, Admins, Holder
<1>2. TypeOK /\ AccountsInv /\ IssuedInv /\ SessionInv /\ [Next]_vars
        => [Registered!RNext]_(Registered!rvars)
  <2> SUFFICES ASSUME TypeOK, AccountsInv, IssuedInv, SessionInv, [Next]_vars
               PROVE  Registered!RNext \/ UNCHANGED Registered!rvars
    OBVIOUS
  <2>1. ASSUME NEW r \in Req, Handle(r)
        PROVE  Registered!RNext \/ UNCHANGED Registered!rvars
    <3>1. CASE Commit(r)
      BY <3>1, EnrolStep DEF Registered!RNext
    <3>2. CASE GenerateTokens(r) \/ DeleteToken(r)
      BY <3>2, TokenStep
    <3>3. CASE \/ CheckInvite(r) \/ CountUsers(r) \/ CreateUser(r) \/ MarkInviteUsed(r)
               \/ Abort(r) \/ LookupToken(r) \/ LoadUser(r)
      BY <3>3, HiddenStep
    <3> QED
      BY <2>1, <3>1, <3>2, <3>3 DEF Handle
  <2>2. ASSUME NEW r \in Req, NEW q \in Req, StartRegister(r) \/ Login(r, q) \/ StartRefresh(r, q)
        PROVE  Registered!RNext \/ UNCHANGED Registered!rvars
    BY <2>2, HiddenStep, TokenStep
  <2>3. ASSUME NEW i \in Invite,
               \/ CreateInvite(i) \/ DeleteInvite(i) \/ Expire(i)
               \/ \E p \in Replica : Bootstrap(p, i)
        PROVE  Registered!RNext
    BY <2>3, InvitesStep
  <2>4. ASSUME NEW p \in Replica, BootCount(p) \/ Restart(p)
        PROVE  UNCHANGED Registered!rvars
    BY <2>4 DEF BootCount, Restart, body, db, Admins, Holder, Registered!rvars
  <2>5. CASE UNCHANGED vars
    BY <2>5 DEF vars, Admins, Holder, Registered!rvars
  <2> QED
    BY <2>1, <2>2, <2>3, <2>4, <2>5 DEF Next
<1> QED
  BY <1>1, <1>2, AccountsTypeCorrect, AccountsInvariant, SessionsKeepTheirAccount, PTL
     DEF Spec, RegistryImplemented, Registered!RSpec

\* What follows from the promise alone, for the rows that requests write: every
\* account has its name to itself, there is an administrator as soon as there is
\* an account, and in a chain of refreshes all tokens are one account's and no
\* token that was refreshed is accepted again.
THEOREM AccountsKeepTheRegistry ==
    Spec => []Registered!RegistryInv /\ Registered!RegistryForward
<1> USE DEF Registered!signup, Registered!accounts, Registered!sessions
<1>1. Registered!RInit => Registered!RegistryInv
  BY DEF Registered!RInit, Registered!RegistryInv
<1>2. Registered!RegistryInv /\ [Registered!RNext]_(Registered!rvars)
        => Registered!RegistryInv' /\ [Registered!Forward]_(Registered!rvars)
  <2> SUFFICES ASSUME Registered!RegistryInv, Registered!RNext \/ UNCHANGED Registered!rvars
               PROVE  /\ Registered!RegistryInv'
                      /\ Registered!Forward \/ UNCHANGED Registered!rvars
    OBVIOUS
  <2> USE DEF Registered!RegistryInv, Registered!Forward
  <2>1. CASE UNCHANGED Registered!rvars
    BY <2>1 DEF Registered!rvars
  <2>2. ASSUME NEW u \in Req, Registered!Enrol(u)
        PROVE  Registered!RegistryInv' /\ Registered!Forward
    BY <2>2 DEF Registered!Enrol
  <2>3. ASSUME NEW i \in Invite,
               Registered!Issue(i) \/ Registered!Lapse(i) \/ Registered!Withdraw(i)
        PROVE  Registered!RegistryInv' /\ Registered!Forward
    BY <2>3 DEF Registered!Issue, Registered!Lapse, Registered!Withdraw, Registered!Reissue
  <2>4. ASSUME NEW t \in Req, Registered!Close(t)
        PROVE  Registered!RegistryInv' /\ Registered!Forward
    BY <2>4 DEF Registered!Close
  <2>5. ASSUME NEW t \in Req, NEW s \in Req, Registered!Present(t, s)
        PROVE  Registered!RegistryInv' /\ Registered!Forward
    BY <2>5 DEF Registered!Present
  <2>6. ASSUME NEW t \in Req, NEW u \in Req, Registered!Open(t, u)
        PROVE  Registered!RegistryInv' /\ Registered!Forward
    <3>1. \A s \in Req : Holder'[s] = IF s = t THEN {u} ELSE Holder[s]
      BY <2>6 DEF Registered!Open
    <3>2. \A s \in Req \ {t} : (s \in tokens') <=> (s \in tokens)
      BY <2>6 DEF Registered!Open
    <3>3. \A q \in Req : Holder'[q] # {} =>
            \A s \in given'[q] : Holder'[s] = Holder'[q] /\ s \notin tokens'
      <4> SUFFICES ASSUME NEW q \in Req, Holder'[q] # {}, NEW s \in given[q]
                   PROVE  Holder'[s] = Holder'[q] /\ s \notin tokens'
        BY <2>6 DEF Registered!Open
      <4>1. s \in Req
        OBVIOUS
      <4>2. CASE q = t
        BY <2>6, <3>1, <3>2, <4>1, <4>2 DEF Registered!Open
      <4>3. CASE q # t
        BY <2>6, <3>1, <3>2, <4>1, <4>3 DEF Registered!Open
      <4> QED
        BY <4>2, <4>3
    <3>4. Holder' \in [Req -> SUBSET users] /\ given' \in [Req -> SUBSET Req]
      BY <2>6 DEF Registered!Open
    <3>5. UNCHANGED <<name, code, users, Admins, invites, usedBy, given>>
      BY <2>6 DEF Registered!Open
    <3>6. \A s \in tokens' : s \in Req /\ Holder'[s] # {}
      BY <2>6, <3>1 DEF Registered!Open
    <3>7. Registered!Forward
      BY <2>6, <3>1, <3>2, <3>5 DEF Registered!Open
    <3>8. Registered!RegistryInv'
      BY <3>3, <3>4, <3>5, <3>6
    <3> QED
      BY <3>7, <3>8
  <2> QED
    BY <2>1, <2>2, <2>3, <2>4, <2>5, <2>6 DEF Registered!RNext
<1> QED
  BY <1>1, <1>2, AccountsImplementRegistry, PTL
     DEF RegistryImplemented, Registered!RSpec, Registered!RegistryForward
=============================================================================
