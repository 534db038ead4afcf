------------------------------- MODULE Chats -------------------------------
(* Chats and who is in them: internal/chat, with message.read of             *)
(* internal/ws/handler.go because message_reads refers to chat_members.       *)
(* A request is one goroutine; EnsureMember, FindDirectChat and every other   *)
(* statement is a step of its own, only the creation of a chat has a          *)
(* transaction.  A chat is named by the request that creates it.  A restart   *)
(* of the server is the failure of all its requests.                          *)
EXTENDS FiniteSets

CONSTANTS User, Req

Op == {"create", "add", "remove", "update", "read"}

Args == [op : Op,
         by : User,             \* the caller
         chat : Req,            \* the id in the URL or the event; a creation's own
         whom : SUBSET User,    \* member_ids, or the user to add or remove
         kind : {"direct", "group"},
         single : BOOLEAN]      \* member_ids has length 1 (it may repeat an id)

NoArgs == <<>>

VARIABLES
    pc,         \* [Req -> the step the handler is about to make]
    args,       \* [Req -> what the request asks for]
    kind,       \* [Req -> chats.type]; "none" when there is no committed row
    role,       \* [Req -> [User -> chat_members.role]]; "none" for no row
    named,      \* chats whose name is not NULL
    reads,      \* message_reads: pairs of a chat and a user
    left,       \* history: pairs of a chat and a user who was removed
    saw         \* history: [Req -> the chats FindDirectChat looked through]

vars == <<pc, args, kind, role, named, reads, left, saw>>

Pcs == {"idle", "find", "createChat", "addCreator", "addOthers", "ensureMember",
        "add", "remove", "update", "read", "done", "failed"}

TypeOK ==
    /\ pc \in [Req -> Pcs]
    /\ args \in [Req -> Args \cup {NoArgs}]
    /\ kind \in [Req -> {"none", "direct", "group"}]
    /\ role \in [Req -> [User -> {"none", "admin", "member"}]]
    /\ named \subseteq Req
    /\ reads \subseteq Req \X User
    /\ left \subseteq Req \X User
    /\ saw \in [Req -> SUBSET Req]

Nobody == [u \in User |-> "none"]

Init ==
    /\ pc = [r \in Req |-> "idle"]
    /\ args = [r \in Req |-> NoArgs]
    /\ kind = [r \in Req |-> "none"]
    /\ role = [r \in Req |-> Nobody]
    /\ named = {}
    /\ reads = {}
    /\ left = {}
    /\ saw = [r \in Req |-> {}]

\* Committed chats.  The rows of an open transaction are in role already, but no
\* other request sees them.
Visible == {c \in Req : kind[c] # "none"}

IsChatMember(c, u) == c \in Visible /\ role[c][u] # "none"

Goto(r, from, to) == pc[r] = from /\ pc' = [pc EXCEPT ![r] = to]

\* INSERT INTO chat_members ... ON CONFLICT DO NOTHING.
AddChatMember(c, u, as) ==
    role' = [role EXCEPT ![c][u] = IF @ = "none" THEN as ELSE @]

-----------------------------------------------------------------------------
(* POST /chats *)

\* Only a direct chat with one other member is looked up first.
StartCreate(r) ==
    \E by \in User, whom \in SUBSET User, k \in {"direct", "group"}, single \in BOOLEAN :
        /\ single => k = "direct" /\ Cardinality(whom) = 1
        /\ Goto(r, "idle", IF single THEN "find" ELSE "createChat")
        /\ args' = [args EXCEPT ![r] = [op |-> "create", by |-> by, chat |-> r, whom |-> whom,
                                        kind |-> k, single |-> single]]
        /\ UNCHANGED <<kind, role, named, reads, left, saw>>

\* Mutant of DirectChat: only chats that u created are looked at.
DirectChat_ByCreator(u, v) ==
    \E c \in Visible : kind[c] = "direct" /\ role[c][u] = "admin" /\ role[c][v] # "none"

\* The rows FindDirectChat selects.  u = v finds any direct chat of u's, and a
\* third member who was added to a direct chat makes it one of theirs too.
DirectChat(u, v) ==
    \E c \in Visible : kind[c] = "direct" /\ role[c][u] # "none" /\ role[c][v] # "none"

FindDirectChat(r) ==
    /\ pc[r] = "find"
    /\ \E v \in args[r].whom :
         \/ /\ DirectChat(args[r].by, v)                                    \* 409
            /\ Goto(r, "find", "done")
            /\ UNCHANGED saw
         \/ /\ ~ DirectChat(args[r].by, v)
            /\ Goto(r, "find", "createChat")
            /\ saw' = [saw EXCEPT ![r] = Visible]
    /\ UNCHANGED <<args, kind, role, named, reads, left>>

\* BEGIN and the INSERT of the chat, which nobody sees before COMMIT.
CreateChat(r) ==
    /\ Goto(r, "createChat", "addCreator")
    /\ UNCHANGED <<args, kind, role, named, reads, left, saw>>

\* Mutant of AddCreator: a role that chat_members does not know.
AddCreator_Owner(r) ==
    /\ Goto(r, "addCreator", "addOthers")
    /\ AddChatMember(r, args[r].by, "owner")
    /\ UNCHANGED <<args, kind, named, reads, left, saw>>

AddCreator(r) ==
    /\ Goto(r, "addCreator", "addOthers")
    /\ AddChatMember(r, args[r].by, "admin")
    /\ UNCHANGED <<args, kind, named, reads, left, saw>>

\* One round of the loop over member_ids.
AddOther(r) ==
    /\ pc[r] = "addOthers"
    /\ \E u \in args[r].whom \ {args[r].by} :
         /\ role[r][u] = "none"
         /\ AddChatMember(r, u, "member")
    /\ UNCHANGED <<pc, args, kind, named, reads, left, saw>>

\* Mutant of Commit: the transaction ends before the loop does.
Commit_BeforeLoop(r) ==
    /\ Goto(r, "addOthers", "done")
    /\ kind' = [kind EXCEPT ![r] = args[r].kind]
    /\ UNCHANGED <<args, role, named, reads, left, saw>>

Commit(r) ==
    /\ Goto(r, "addOthers", "done")
    /\ \A u \in args[r].whom : role[r][u] # "none"
    /\ kind' = [kind EXCEPT ![r] = args[r].kind]
    /\ named' = named \cup {r} \/ UNCHANGED named
    /\ UNCHANGED <<args, role, reads, left, saw>>

Create(r) ==
    StartCreate(r) \/ FindDirectChat(r) \/ CreateChat(r) \/ AddCreator(r) \/ AddOther(r) \/ Commit(r)

-----------------------------------------------------------------------------
(* The other operations: EnsureMember on the chat, then one statement.  An id  *)
(* that no chat has ends in EnsureMember, so only ids of chats are tried.      *)

StartOther(r) ==
    \E op \in Op \ {"create"}, by \in User, c \in Visible, whom \in SUBSET User :
        /\ Cardinality(whom) = IF op \in {"add", "remove"} THEN 1 ELSE 0
        /\ Goto(r, "idle", "ensureMember")
        /\ args' = [args EXCEPT ![r] = [op |-> op, by |-> by, chat |-> c, whom |-> whom,
                                        kind |-> "group", single |-> FALSE]]
        /\ UNCHANGED <<kind, role, named, reads, left, saw>>

EnsureMember(r) ==
    /\ pc[r] = "ensureMember"
    /\ pc' = [pc EXCEPT ![r] = IF IsChatMember(args[r].chat, args[r].by)
                               THEN args[r].op ELSE "done"]                 \* 403
    /\ UNCHANGED <<args, kind, role, named, reads, left, saw>>

AddMember(r) ==
    /\ Goto(r, "add", "done")
    /\ \E u \in args[r].whom : AddChatMember(args[r].chat, u, "member")
    /\ UNCHANGED <<args, kind, named, reads, left, saw>>

\* DELETE FROM chat_members, which message_reads' foreign key may refuse; that
\* there is no row to delete is not an error.
RemoveMember(r) ==
    /\ Goto(r, "remove", "done")
    /\ \E u \in args[r].whom :
         /\ <<args[r].chat, u>> \notin reads
         /\ role' = [role EXCEPT ![args[r].chat][u] = "none"]
         /\ left' = left \cup {<<args[r].chat, u>>}
    /\ UNCHANGED <<args, kind, named, reads, saw>>

\* UPDATE chats SET name = COALESCE($2, name).
UpdateChat(r) ==
    /\ Goto(r, "update", "done")
    /\ named' = named \cup {args[r].chat} \/ UNCHANGED named
    /\ UNCHANGED <<args, kind, role, reads, left, saw>>

\* Mutant of UpsertRead: without the foreign key on chat_members.
UpsertRead_NoForeignKey(r) ==
    /\ Goto(r, "read", "done")
    /\ reads' = reads \cup {<<args[r].chat, args[r].by>>}
    /\ UNCHANGED <<args, kind, role, named, left, saw>>

\* INSERT INTO message_reads: a row needs its chat_members row now, whatever
\* EnsureMember has seen.
UpsertRead(r) ==
    /\ Goto(r, "read", "done")
    /\ role[args[r].chat][args[r].by] # "none"
    /\ reads' = reads \cup {<<args[r].chat, args[r].by>>}
    /\ UNCHANGED <<args, kind, role, named, left, saw>>

Operate(r) ==
    StartOther(r) \/ EnsureMember(r) \/ AddMember(r) \/ RemoveMember(r) \/ UpdateChat(r) \/ UpsertRead(r)

-----------------------------------------------------------------------------
\* Any statement may fail, a foreign key may refuse it, the server may die; an
\* open transaction is rolled back.
Fail(r) ==
    /\ pc[r] \notin {"idle", "done", "failed"}
    /\ pc' = [pc EXCEPT ![r] = "failed"]
    /\ role' = [role EXCEPT ![r] = IF kind[r] = "none" THEN Nobody ELSE @]
    /\ UNCHANGED <<args, kind, named, reads, left, saw>>

Next == \E r \in Req : Create(r) \/ Operate(r) \/ Fail(r)

Spec == Init /\ [][Next]_vars

-----------------------------------------------------------------------------
(* Properties *)

Asked(c) == {args[c].by} \cup args[c].whom

\* A chat appears with everybody its creator asked for, the creator as admin, or
\* not at all, wherever its creation fails; afterwards only a removal takes
\* anything from that: adding a member again changes no role.
ChatIsWhole ==
    \A c \in Visible : \A u \in Asked(c) :
        \/ role[c][u] = IF u = args[c].by THEN "admin" ELSE "member"
        \/ <<c, u>> \in left

\* FindDirectChat is not in the transaction, so two users can open two chats with
\* each other at once.  But a direct chat that was there when another one was
\* asked for, by either of the two, is never doubled while both stay in it.
NoLateDuplicate ==
    \A c, d \in Visible :
        /\ kind[c] = "direct" /\ args[d].single
        /\ c \in saw[d]
        /\ Asked(d) \subseteq Asked(c)
        => \E u \in Asked(d) : <<c, u>> \in left

\* Requests that check first and write later, fail half way and race with each
\* other show as chats that open whole, with exactly the members asked for, and
\* change member by member; a read position belongs to a member, though the
\* member may be removed between EnsureMember and the upsert, or the upsert come
\* just before the removal.
Rank == [c \in Req |-> IF c \in Visible THEN role[c] ELSE Nobody]

Members == INSTANCE Membership WITH
    Chat <- Req, style <- kind, rank <- Rank, titled <- named, position <- reads

MembershipImplemented == Members!MSpec

\* What the refinement says of read positions in each state.
ReadsBelongToMembers == \A p \in reads : IsChatMember(p[1], p[2])
=============================================================================
