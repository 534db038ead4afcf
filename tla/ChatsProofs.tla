---------------------------- MODULE ChatsProofs ----------------------------
(* Theorems about Chats, for every number of users and requests.           *)
EXTENDS Chats, TLAPS

\* Where a request stands tells what it has made of its chat; a request that
\* made a chat is over, and one that works on a chat has found it committed.
OnChat == {"ensureMember", "add", "remove", "update", "read"}

Request(r) ==
    /\ pc[r] # "idle" => args[r] \in Args
    /\ pc[r] \in {"idle", "find", "createChat", "addCreator"} => kind[r] = "none" /\ role[r] = Nobody
    /\ pc[r] = "addOthers" =>
         /\ kind[r] = "none"
         /\ role[r][args[r].by] = "admin"
         /\ \A u \in User \ {args[r].by} : role[r][u] \in {"none", "member"}
    /\ pc[r] \in OnChat => args[r].chat \in Visible /\ args[r].op # "create"
    /\ kind[r] # "none" => pc[r] = "done"

RequestInv == \A r \in Req : Request(r)

\* NoLateDuplicate, from the moment FindDirectChat has looked.
LookedInv ==
    /\ \A d \in Req : saw[d] \subseteq Visible
    /\ \A d \in Req : pc[d] = "idle" => saw[d] = {}
    /\ \A d \in Req : \A c \in saw[d] :
         /\ kind[c] = "direct"
         /\ Asked(d) \subseteq Asked(c)
         => \E u \in Asked(d) : <<c, u>> \in left

ChatsInv == RequestInv /\ ChatIsWhole /\ LookedInv /\ ReadsBelongToMembers

\* The statement AddChatMember, whichever member it adds, takes nobody's role.
LEMMA AddKeepsRoles ==
    ASSUME TypeOK, NEW c \in Req, NEW u \in User, NEW as \in {"admin", "member"},
           AddChatMember(c, u, as)
    PROVE  /\ role' \in [Req -> [User -> {"none", "admin", "member"}]]
           /\ \A d \in Req, v \in User : role[d][v] # "none" => role'[d][v] = role[d][v]
           /\ \A d \in Req, v \in User : <<d, v>> # <<c, u>> => role'[d][v] = role[d][v]
           /\ role[c][u] = "none" => role'[c][u] = as
BY DEF AddChatMember, TypeOK

-----------------------------------------------------------------------------
\* A request begins.  It has made nothing and seen nothing.
LEMMA StartInv ==
    ASSUME TypeOK, ChatsInv, NEW r \in Req, StartCreate(r) \/ StartOther(r)
    PROVE  TypeOK' /\ ChatsInv'
<1> USE DEF ChatsInv
<1>1. PICK a \in Args, p \in {"find", "createChat", "ensureMember"} :
        /\ args' = [args EXCEPT ![r] = a]
        /\ pc' = [pc EXCEPT ![r] = p]
        /\ pc[r] = "idle"
        /\ p = "ensureMember" => a.chat \in Visible /\ a.op # "create"
        /\ UNCHANGED <<kind, role, named, reads, left, saw>>
  <2>1. CASE StartCreate(r)
    <3>1. PICK by \in User, whom \in SUBSET User, k \in {"direct", "group"}, single \in BOOLEAN :
            /\ Goto(r, "idle", IF single THEN "find" ELSE "createChat")
            /\ args' = [args EXCEPT ![r] = [op |-> "create", by |-> by, chat |-> r, whom |-> whom,
                                            kind |-> k, single |-> single]]
      BY <2>1 DEF StartCreate
    <3>2. [op |-> "create", by |-> by, chat |-> r, whom |-> whom, kind |-> k, single |-> single] \in Args
      BY DEF Args, Op
    <3>3. (IF single THEN "find" ELSE "createChat") \in {"find", "createChat"}
      OBVIOUS
    <3> QED
      BY <2>1, <3>1, <3>2, <3>3 DEF StartCreate, Goto
  <2>2. CASE StartOther(r)
    <3>1. PICK op \in Op \ {"create"}, by \in User, c \in Visible, whom \in SUBSET User :
            /\ Goto(r, "idle", "ensureMember")
            /\ args' = [args EXCEPT ![r] = [op |-> op, by |-> by, chat |-> c, whom |-> whom,
                                            kind |-> "group", single |-> FALSE]]
      BY <2>2 DEF StartOther
    <3>2. [op |-> op, by |-> by, chat |-> c, whom |-> whom, kind |-> "group", single |-> FALSE] \in Args
      BY DEF Args, Visible
    <3> QED
      BY <2>2, <3>1, <3>2 DEF StartOther, Goto
  <2> QED
    BY <2>1, <2>2
<1>2. kind[r] = "none" /\ role[r] = Nobody /\ saw[r] = {}
  BY <1>1 DEF RequestInv, Request, LookedInv
<1>3. Visible' = Visible /\ r \notin Visible
  BY <1>1, <1>2 DEF Visible
<1>4. \A c \in Req \ {r} : args'[c] = args[c] /\ Asked(c)' = Asked(c)
  BY <1>1 DEF TypeOK, Asked
<1>5. TypeOK'
  BY <1>1 DEF TypeOK, Pcs
<1>6. RequestInv'
  BY <1>1, <1>2, <1>3, <1>4 DEF TypeOK, RequestInv, Request, OnChat
<1>7. ChatIsWhole'
  BY <1>1, <1>3, <1>4 DEF ChatIsWhole, Visible
<1>8. LookedInv'
  <2>1. \A d \in Req : pc'[d] = "idle" => saw'[d] = {}
    BY <1>1, <1>2 DEF LookedInv, TypeOK
  <2>2. ASSUME NEW d \in Req, NEW c \in saw'[d], kind'[c] = "direct", Asked(d)' \subseteq Asked(c)'
        PROVE  \E u \in Asked(d)' : <<c, u>> \in left'
    <3>1. d # r /\ c # r /\ c \in Req
      BY <1>1, <1>2, <1>3 DEF LookedInv, Visible
    <3> QED
      BY <1>1, <1>4, <2>2, <3>1 DEF LookedInv
  <2> QED
    BY <1>1, <1>3, <2>1, <2>2 DEF LookedInv
<1>9. ReadsBelongToMembers'
  BY <1>1, <1>3 DEF ReadsBelongToMembers, IsChatMember
<1> QED
  BY <1>5, <1>6, <1>7, <1>8, <1>9

\* FindDirectChat: whoever is missing from a chat that was made for both of them
\* has left it.
LEMMA FindInv ==
    ASSUME TypeOK, ChatsInv, NEW r \in Req, FindDirectChat(r)
    PROVE  TypeOK' /\ ChatsInv'
<1> USE DEF ChatsInv
<1>1. /\ pc[r] = "find"
      /\ UNCHANGED <<args, kind, role, named, reads, left>>
      /\ \A d \in Req \ {r} : saw'[d] = saw[d] /\ pc'[d] = pc[d]
      /\ pc' \in [Req -> Pcs]
      /\ pc'[r] \in {"done", "createChat"}
      /\ saw' \in [Req -> SUBSET Req]
  <2>1. CASE pc' = [pc EXCEPT ![r] = "done"] /\ UNCHANGED saw
    BY <2>1 DEF FindDirectChat, TypeOK, Pcs
  <2>2. CASE pc' = [pc EXCEPT ![r] = "createChat"] /\ saw' = [saw EXCEPT ![r] = Visible]
    BY <2>2 DEF FindDirectChat, TypeOK, Pcs, Visible
  <2> QED
    BY <2>1, <2>2 DEF FindDirectChat, Goto
<1>2. Visible' = Visible /\ r \notin Visible
  BY <1>1 DEF Visible, RequestInv, Request
<1>3. TypeOK'
  BY <1>1 DEF TypeOK
<1>4. RequestInv'
  BY <1>1, <1>2 DEF RequestInv, Request, OnChat
<1>5. ChatIsWhole'
  BY <1>1, <1>2 DEF ChatIsWhole, Asked
<1>6. LookedInv'
  <2>1. \A d \in Req : saw'[d] \subseteq Visible
    BY <1>1 DEF FindDirectChat, Goto, TypeOK, LookedInv
  <2>2. ASSUME NEW d \in Req, NEW c \in saw'[d], kind[c] = "direct", Asked(d) \subseteq Asked(c)
        PROVE  \E u \in Asked(d) : <<c, u>> \in left
    <3>1. CASE saw'[d] = saw[d]
      BY <2>2, <3>1 DEF LookedInv
    <3>2. CASE saw'[d] # saw[d]
      <4>1. d = r /\ c \in Visible
        BY <1>1, <2>1, <3>2
      <4>2. PICK v \in args[r].whom : ~ DirectChat(args[r].by, v)
        BY <3>2, <4>1 DEF FindDirectChat
      <4>3. PICK u \in {args[r].by, v} : role[c][u] = "none"
        BY <2>2, <4>1, <4>2 DEF DirectChat
      <4>4. u \in Asked(r) /\ u \in Asked(c)
        BY <2>2, <4>1, <4>2, <4>3 DEF Asked
      <4>5. <<c, u>> \in left
        BY <4>1, <4>3, <4>4 DEF ChatIsWhole
      <4> QED
        BY <4>1, <4>4, <4>5
    <3> QED
      BY <3>1, <3>2
  <2>3. \A d \in Req : pc'[d] = "idle" => saw'[d] = {}
    BY <1>1 DEF LookedInv
  <2>4. \A d \in Req : Asked(d)' = Asked(d)
    BY <1>1 DEF Asked
  <2> QED
    BY <1>1, <1>2, <2>1, <2>2, <2>3, <2>4 DEF LookedInv, Visible
<1>7. ReadsBelongToMembers'
  BY <1>1, <1>2 DEF ReadsBelongToMembers, IsChatMember
<1> QED
  BY <1>3, <1>4, <1>5, <1>6, <1>7

\* Inside the transaction only the rows of the chat to be are touched.
LEMMA TransactionInv ==
    ASSUME TypeOK, ChatsInv, NEW r \in Req, CreateChat(r) \/ AddCreator(r) \/ AddOther(r)
    PROVE  TypeOK' /\ ChatsInv'
<1> USE DEF ChatsInv
<1>1. /\ pc[r] \in {"createChat", "addCreator", "addOthers"}
      /\ UNCHANGED <<args, kind, named, reads, left, saw>>
      /\ pc' \in [Req -> Pcs]
      /\ \A d \in Req \ {r} : pc'[d] = pc[d]
      /\ pc'[r] \in {"addCreator", "addOthers"}
  BY DEF CreateChat, AddCreator, AddOther, Goto, TypeOK, Pcs
<1>2. kind[r] = "none" /\ args[r] \in Args
  BY <1>1 DEF RequestInv, Request
<1>3. args[r].by \in User /\ args[r].whom \subseteq User
  BY <1>2 DEF Args
<1>4. /\ role' \in [Req -> [User -> {"none", "admin", "member"}]]
      /\ \A d \in Req \ {r} : role'[d] = role[d]
      /\ pc'[r] = "addCreator" => role'[r] = Nobody
      /\ pc'[r] = "addOthers" =>
           /\ role'[r][args[r].by] = "admin"
           /\ \A u \in User \ {args[r].by} : role'[r][u] \in {"none", "member"}
  <2>1. CASE CreateChat(r)
    BY <2>1 DEF CreateChat, Goto, TypeOK, RequestInv, Request
  <2>2. CASE AddCreator(r)
    <3>1. AddChatMember(r, args[r].by, "admin") /\ role[r] = Nobody /\ pc'[r] = "addOthers"
      BY <2>2 DEF AddCreator, Goto, TypeOK, RequestInv, Request
    <3> QED
      BY <1>3, <3>1 DEF AddChatMember, TypeOK, Nobody
  <2>3. CASE AddOther(r)
    <3>1. PICK u \in User \ {args[r].by} : AddChatMember(r, u, "member") /\ role[r][u] = "none"
      BY <1>3, <2>3 DEF AddOther
    <3>2. pc[r] = "addOthers" /\ pc'[r] = "addOthers"
      BY <2>3 DEF AddOther
    <3> QED
      BY <1>3, <3>1, <3>2 DEF AddChatMember, TypeOK, RequestInv, Request
  <2> QED
    BY <2>1, <2>2, <2>3
<1>5. Visible' = Visible /\ r \notin Visible
  BY <1>1, <1>2 DEF Visible
<1>6. TypeOK'
  BY <1>1, <1>4 DEF TypeOK
<1>7. RequestInv'
  BY <1>1, <1>2, <1>4, <1>5 DEF RequestInv, Request, OnChat
<1>8. ChatIsWhole'
  BY <1>1, <1>4, <1>5 DEF ChatIsWhole, Asked, Visible
<1>9. LookedInv'
  BY <1>1, <1>5 DEF LookedInv, Asked
<1>10. ReadsBelongToMembers'
  BY <1>1, <1>4, <1>5 DEF ReadsBelongToMembers, IsChatMember, Visible
<1> QED
  BY <1>6, <1>7, <1>8, <1>9, <1>10

\* The chat appears, with all its members.
LEMMA CommitInv ==
    ASSUME TypeOK, ChatsInv, NEW r \in Req, Commit(r)
    PROVE  TypeOK' /\ ChatsInv'
<1> USE DEF ChatsInv
<1>1. /\ pc[r] = "addOthers"
      /\ pc' = [pc EXCEPT ![r] = "done"]
      /\ kind' = [kind EXCEPT ![r] = args[r].kind]
      /\ \A u \in args[r].whom : role[r][u] # "none"
      /\ UNCHANGED <<args, role, reads, left, saw>>
      /\ named' \subseteq Req
  BY DEF Commit, Goto, TypeOK
<1>2. /\ args[r].kind \in {"direct", "group"} /\ args[r].whom \subseteq User
      /\ kind[r] = "none"
  BY <1>1 DEF RequestInv, Request, Args
<1>3. Visible' = Visible \cup {r} /\ r \notin Visible
  BY <1>1, <1>2 DEF Visible, TypeOK
<1>4. \A d \in Req : Asked(d)' = Asked(d)
  BY <1>1 DEF Asked
<1>5. TypeOK'
  BY <1>1, <1>2 DEF TypeOK, Pcs
<1>6. RequestInv'
  BY <1>1, <1>2, <1>3 DEF RequestInv, Request, OnChat, TypeOK
<1>7. ChatIsWhole'
  <2>1. /\ role[r][args[r].by] = "admin"
        /\ \A u \in args[r].whom \ {args[r].by} : role[r][u] = "member"
    BY <1>1, <1>2 DEF RequestInv, Request
  <2> QED
    BY <1>1, <1>3, <2>1 DEF ChatIsWhole, Asked
<1>8. LookedInv'
  <2>1. \A d \in Req : \A c \in saw[d] : c # r /\ c \in Req /\ kind'[c] = kind[c]
    BY <1>1, <1>3 DEF LookedInv, Visible, TypeOK
  <2> QED
    BY <1>1, <1>3, <2>1 DEF LookedInv, Asked, TypeOK
<1>9. ReadsBelongToMembers'
  BY <1>1, <1>3 DEF ReadsBelongToMembers, IsChatMember
<1> QED
  BY <1>5, <1>6, <1>7, <1>8, <1>9

\* The statements on a chat that is there.
LEMMA OperateInv ==
    ASSUME TypeOK, ChatsInv, NEW r \in Req,
           EnsureMember(r) \/ AddMember(r) \/ RemoveMember(r) \/ UpdateChat(r) \/ UpsertRead(r)
    PROVE  TypeOK' /\ ChatsInv'
<1> USE DEF ChatsInv
<1>1. /\ pc[r] \in OnChat
      /\ \A d \in Req \ {r} : pc'[d] = pc[d]
      /\ UNCHANGED <<args, kind, saw>>
  BY DEF EnsureMember, AddMember, RemoveMember, UpdateChat, UpsertRead, Goto, TypeOK, OnChat
<1>2. args[r] \in Args /\ args[r].chat \in Visible /\ args[r].op # "create" /\ r \notin Visible
  BY <1>1 DEF RequestInv, Request, OnChat, Visible
<1>3. /\ args[r].chat \in Req /\ args[r].by \in User /\ args[r].whom \subseteq User
      /\ args[r].op \in OnChat
  BY <1>2 DEF Args, Op, OnChat
<1>4. pc' \in [Req -> Pcs] /\ pc'[r] \in {"add", "remove", "update", "read", "done"}
  <2>1. CASE EnsureMember(r)
    BY <1>2, <1>3, <2>1 DEF EnsureMember, TypeOK, Pcs, OnChat, Args, Op
  <2>2. CASE AddMember(r) \/ RemoveMember(r) \/ UpdateChat(r) \/ UpsertRead(r)
    BY <2>2 DEF AddMember, RemoveMember, UpdateChat, UpsertRead, Goto, TypeOK, Pcs
  <2> QED
    BY <2>1, <2>2
<1>5. Visible' = Visible /\ \A d \in Req : Asked(d)' = Asked(d)
  BY <1>1 DEF Visible, Asked
<1>6. /\ named' \subseteq Req
      /\ left \subseteq left' /\ left' \subseteq Req \X User
      /\ reads \subseteq reads' /\ reads' \subseteq Req \X User
      /\ role' \in [Req -> [User -> {"none", "admin", "member"}]]
      /\ \A d \in Req \ Visible : role'[d] = role[d]
      /\ \A c \in Visible, u \in User :
           role[c][u] # "none" => role'[c][u] = role[c][u] \/ <<c, u>> \in left' \ reads
      /\ \A p \in reads' : p \in reads \/ (IsChatMember(p[1], p[2]) /\ role' = role)
  <2>1. CASE EnsureMember(r)
    BY <2>1 DEF EnsureMember, TypeOK
  <2>2. CASE AddMember(r)
    <3>1. PICK u \in User : AddChatMember(args[r].chat, u, "member")
      BY <1>3, <2>2 DEF AddMember
    <3>2. UNCHANGED <<named, reads, left>>
      BY <2>2 DEF AddMember
    <3>3. \A d \in Req \ {args[r].chat} : role'[d] = role[d]
      BY <3>1 DEF AddChatMember, TypeOK
    <3> QED
      BY <1>2, <1>3, <3>1, <3>2, <3>3, AddKeepsRoles DEF TypeOK, Visible
  <2>3. CASE RemoveMember(r)
    <3>1. PICK u \in User :
            /\ <<args[r].chat, u>> \notin reads
            /\ role' = [role EXCEPT ![args[r].chat][u] = "none"]
            /\ left' = left \cup {<<args[r].chat, u>>}
            /\ UNCHANGED <<named, reads>>
      BY <1>3, <2>3 DEF RemoveMember
    <3>2. /\ role' \in [Req -> [User -> {"none", "admin", "member"}]]
          /\ \A d \in Req \ {args[r].chat} : role'[d] = role[d]
          /\ \A c \in Req, v \in User : role'[c][v] = role[c][v] \/ <<c, v>> = <<args[r].chat, u>>
      BY <1>3, <3>1 DEF TypeOK
    <3>3. left \subseteq left' /\ left' \subseteq Req \X User
      BY <1>3, <3>1 DEF TypeOK
    <3>4. \A c \in Visible, v \in User :
             role[c][v] # "none" => role'[c][v] = role[c][v] \/ <<c, v>> \in left' \ reads
      BY <3>1, <3>2 DEF Visible
    <3>5. named' \subseteq Req /\ reads' \subseteq Req \X User
      BY <3>1 DEF TypeOK
    <3> QED
      BY <1>2, <3>1, <3>2, <3>3, <3>4, <3>5
  <2>4. CASE UpdateChat(r)
    BY <1>3, <2>4 DEF UpdateChat, TypeOK
  <2>5. CASE UpsertRead(r)
    <3>1. /\ role[args[r].chat][args[r].by] # "none"
          /\ reads' = reads \cup {<<args[r].chat, args[r].by>>}
          /\ UNCHANGED <<role, named, left>>
      BY <2>5 DEF UpsertRead
    <3>2. IsChatMember(args[r].chat, args[r].by)
      BY <1>2, <3>1 DEF IsChatMember
    <3> QED
      BY <1>3, <3>1, <3>2 DEF TypeOK
  <2> QED
    BY <2>1, <2>2, <2>3, <2>4, <2>5
<1>7. TypeOK'
  BY <1>1, <1>4, <1>6 DEF TypeOK
<1>8. RequestInv'
  <2>1. \A d \in Req : pc'[d] \in {"idle", "find", "createChat", "addCreator", "addOthers"} =>
                         d # r /\ role'[d] = role[d]
    BY <1>1, <1>4, <1>6 DEF RequestInv, Request, Visible
  <2> QED
    BY <1>1, <1>2, <1>4, <1>5, <2>1 DEF RequestInv, Request, OnChat
<1>9. ChatIsWhole'
  <2> SUFFICES ASSUME NEW c \in Visible, NEW u \in Asked(c)
               PROVE  \/ role'[c][u] = IF u = args[c].by THEN "admin" ELSE "member"
                      \/ <<c, u>> \in left'
    BY <1>1, <1>5 DEF ChatIsWhole, Asked
  <2>1. u \in User
    BY DEF RequestInv, Request, Asked, Args, Visible
  <2> QED
    BY <1>6, <2>1 DEF ChatIsWhole
<1>10. LookedInv'
  <2>1. \A d \in Req : pc'[d] = "idle" => pc[d] = "idle"
    BY <1>1, <1>4
  <2> QED
    BY <1>1, <1>5, <1>6, <2>1 DEF LookedInv, Asked
<1>11. ReadsBelongToMembers'
  <2> SUFFICES ASSUME NEW p \in reads'
               PROVE  IsChatMember(p[1], p[2])'
    BY DEF ReadsBelongToMembers
  <2>1. IsChatMember(p[1], p[2]) /\ (p \in reads \/ role' = role)
    BY <1>6 DEF ReadsBelongToMembers
  <2>2. p = <<p[1], p[2]>> /\ p[1] \in Req /\ p[2] \in User
    BY <1>6
  <2> QED
    BY <1>5, <1>6, <2>1, <2>2 DEF IsChatMember, RemoveMember, AddMember
<1> QED
  BY <1>7, <1>8, <1>9, <1>10, <1>11

\* A failure: an open transaction is undone, a committed chat stays as it is.
LEMMA FailInv ==
    ASSUME TypeOK, ChatsInv, NEW r \in Req, Fail(r)
    PROVE  TypeOK' /\ ChatsInv'
<1> USE DEF ChatsInv
<1>1. /\ pc[r] \notin {"idle", "done", "failed"}
      /\ pc' = [pc EXCEPT ![r] = "failed"]
      /\ UNCHANGED <<args, kind, named, reads, left, saw>>
      /\ role' = [role EXCEPT ![r] = Nobody]
  <2>1. pc[r] # "done"
    BY DEF Fail
  <2>2. kind[r] = "none"
    BY <2>1 DEF RequestInv, Request, Visible
  <2> QED
    BY <2>2 DEF Fail, TypeOK
<1>2. Visible' = Visible /\ r \notin Visible /\ \A d \in Req : Asked(d)' = Asked(d)
  BY <1>1 DEF RequestInv, Request, Visible, Asked
<1>3. TypeOK'
  BY <1>1 DEF TypeOK, Pcs, Nobody
<1>4. RequestInv'
  BY <1>1, <1>2 DEF RequestInv, Request, OnChat, TypeOK
<1>5. ChatIsWhole'
  BY <1>1, <1>2 DEF ChatIsWhole, TypeOK, Visible
<1>6. LookedInv'
  <2>1. \A d \in Req : pc'[d] = "idle" => pc[d] = "idle"
    BY <1>1 DEF TypeOK
  <2> QED
    BY <1>1, <1>2, <2>1 DEF LookedInv, Asked
<1>7. ReadsBelongToMembers'
  BY <1>1, <1>2 DEF ReadsBelongToMembers, IsChatMember, TypeOK, Visible
<1> QED
  BY <1>3, <1>4, <1>5, <1>6, <1>7

-----------------------------------------------------------------------------
\* The inductive invariant: what a request has made of its chat, and that a
\* chat it looked at and was not told of has lost one of the pair.
THEOREM ChatsInvariant == Spec => [](TypeOK /\ ChatsInv)
<1>1. Init => TypeOK /\ ChatsInv
  <2> SUFFICES ASSUME Init
               PROVE  TypeOK /\ ChatsInv
    OBVIOUS
  <2> USE DEF Init
  <2>1. TypeOK
    BY DEF TypeOK, Pcs, Nobody
  <2>2. Visible = {} /\ RequestInv
    BY DEF Visible, RequestInv, Request, OnChat
  <2>3. ChatIsWhole /\ LookedInv /\ ReadsBelongToMembers
    BY <2>2 DEF ChatIsWhole, LookedInv, ReadsBelongToMembers
  <2> QED
    BY <2>1, <2>2, <2>3 DEF ChatsInv
<1>2. TypeOK /\ ChatsInv /\ [Next]_vars => TypeOK' /\ ChatsInv'
  <2> SUFFICES ASSUME TypeOK, ChatsInv, [Next]_vars
               PROVE  TypeOK' /\ ChatsInv'
    OBVIOUS
  <2>1. ASSUME NEW r \in Req, Create(r)
        PROVE  TypeOK' /\ ChatsInv'
    BY <2>1, StartInv, FindInv, TransactionInv, CommitInv DEF Create
  <2>2. ASSUME NEW r \in Req, Operate(r) \/ Fail(r)
        PROVE  TypeOK' /\ ChatsInv'
    BY <2>2, StartInv, OperateInv, FailInv DEF Operate
  <2>3. CASE UNCHANGED vars
    <3> USE <2>3 DEF vars, ChatsInv
    <3>1. TypeOK'
      BY DEF TypeOK
    <3>2. Visible' = Visible
      BY DEF Visible
    <3>3. RequestInv'
      BY <3>2 DEF RequestInv, Request
    <3>4. ChatIsWhole' /\ LookedInv' /\ ReadsBelongToMembers'
      BY <3>2 DEF ChatIsWhole, LookedInv, ReadsBelongToMembers, IsChatMember, Asked
    <3> QED
      BY <3>1, <3>3, <3>4
  <2> QED
    BY <2>1, <2>2, <2>3 DEF Next
<1> QED
  BY <1>1, <1>2, PTL DEF Spec

\* Every table and request keeps its type.
THEOREM ChatsTypeCorrect == Spec => []TypeOK
BY ChatsInvariant, PTL

\* Chats appear whole or not at all, wherever their creation fails.
THEOREM ChatsAreWhole == Spec => []ChatIsWhole
<1>1. ChatsInv => ChatIsWhole
  BY DEF ChatsInv
<1> QED
  BY <1>1, ChatsInvariant, PTL

\* A direct chat that FindDirectChat could have seen is not doubled.
THEOREM DirectChatsNotDoubledLate == Spec => []NoLateDuplicate
<1>1. TypeOK /\ ChatsInv => NoLateDuplicate
  BY DEF ChatsInv, LookedInv, NoLateDuplicate, Visible
<1> QED
  BY <1>1, ChatsInvariant, PTL

\* No read position outlives its membership or comes after it.
THEOREM ReadsAlwaysOfMembers == Spec => []ReadsBelongToMembers
<1>1. ChatsInv => ReadsBelongToMembers
  BY DEF ChatsInv
<1> QED
  BY <1>1, ChatsInvariant, PTL

-----------------------------------------------------------------------------
(* Chats implements Membership *)

\* What only the refinement needs: a transaction adds nobody who was not asked
\* for.  (That it adds everybody is tested by the end of the loop, in Commit.)
AskedInv ==
    \A r \in Req : pc[r] = "addOthers" =>
        \A u \in User : role[r][u] # "none" => u \in Asked(r)

LEMMA AskedFrame ==
    ASSUME TypeOK, AskedInv,
           \A r \in Req : pc'[r] = "addOthers" =>
             pc[r] = "addOthers" /\ args'[r] = args[r] /\ role'[r] = role[r]
    PROVE  AskedInv'
BY DEF AskedInv, Asked

LEMMA AskedStep ==
    ASSUME TypeOK, ChatsInv, AskedInv, NEW r \in Req, Create(r) \/ Operate(r) \/ Fail(r)
    PROVE  AskedInv'
<1> USE DEF TypeOK, ChatsInv, RequestInv
<1>1. CASE StartCreate(r) \/ FindDirectChat(r) \/ CreateChat(r) \/ Commit(r)
  <2>1. /\ \A q \in Req \ {r} : pc'[q] = pc[q] /\ args'[q] = args[q]
        /\ role' = role
        /\ pc'[r] # "addOthers"
    BY <1>1 DEF StartCreate, FindDirectChat, CreateChat, Commit, Goto
  <2> QED
    BY <2>1, AskedFrame
<1>2. CASE AddCreator(r)
  <2>1. args[r].by \in User /\ role[r] = Nobody
    BY <1>2 DEF AddCreator, Goto, Request, Args
  <2>2. /\ \A q \in Req \ {r} : pc'[q] = pc[q] /\ role'[q] = role[q]
        /\ args' = args
        /\ \A u \in User : role'[r][u] # "none" => u = args[r].by
    BY <1>2, <2>1 DEF AddCreator, Goto, AddChatMember, Nobody
  <2> QED
    BY <2>2 DEF AskedInv, Asked
<1>3. CASE AddOther(r)
  <2>1. PICK u \in args[r].whom \ {args[r].by} : AddChatMember(r, u, "member")
    BY <1>3 DEF AddOther
  <2>2. u \in User /\ pc' = pc /\ args' = args /\ pc[r] = "addOthers"
    BY <1>3, <2>1 DEF AddOther, Request, Args
  <2>3. /\ \A q \in Req \ {r} : role'[q] = role[q]
        /\ \A v \in User \ {u} : role'[r][v] = role[r][v]
    BY <2>1, <2>2 DEF AddChatMember
  <2> QED
    BY <2>1, <2>2, <2>3 DEF AskedInv, Asked
<1>4. CASE StartOther(r)
  <2>1. /\ \A q \in Req \ {r} : pc'[q] = pc[q] /\ args'[q] = args[q]
        /\ role' = role
        /\ pc'[r] # "addOthers"
    BY <1>4 DEF StartOther, Goto
  <2> QED
    BY <2>1, AskedFrame
<1>5. CASE EnsureMember(r) \/ AddMember(r) \/ RemoveMember(r) \/ UpdateChat(r) \/ UpsertRead(r)
  <2>1. /\ pc[r] \in OnChat
        /\ args[r].chat \in Visible
    BY <1>5 DEF EnsureMember, AddMember, RemoveMember, UpdateChat, UpsertRead, Goto, OnChat, Request
  <2>2. args' = args /\ \A q \in Req \ {r} : pc'[q] = pc[q]
    BY <1>5 DEF EnsureMember, AddMember, RemoveMember, UpdateChat, UpsertRead, Goto
  <2>3. pc'[r] # "addOthers"
    <3>1. args[r].op \in Op
      BY <2>1 DEF Request, OnChat, Args
    <3> QED
      BY <1>5, <3>1 DEF EnsureMember, AddMember, RemoveMember, UpdateChat, UpsertRead, Goto, Op
  <2>4. \A q \in Req \ Visible : role'[q] = role[q]
    BY <1>5, <2>1 DEF EnsureMember, AddMember, RemoveMember, UpdateChat, UpsertRead,
                      AddChatMember, Visible
  <2>5. \A q \in Req : pc[q] = "addOthers" => q \notin Visible
    BY DEF Request, Visible
  <2> QED
    BY <2>2, <2>3, <2>4, <2>5, AskedFrame
<1>6. CASE Fail(r)
  <2>1. /\ \A q \in Req \ {r} : pc'[q] = pc[q] /\ role'[q] = role[q]
        /\ args' = args
        /\ pc'[r] # "addOthers"
    BY <1>6 DEF Fail
  <2> QED
    BY <2>1, AskedFrame
<1> QED
  BY <1>1, <1>2, <1>3, <1>4, <1>5, <1>6 DEF Create, Operate

\* What other requests see is the roles in the chats that are committed.
LEMMA RankFrame ==
    ASSUME Visible' = Visible, \A c \in Visible : role'[c] = role[c]
    PROVE  Rank' = Rank
BY DEF Rank

LEMMA CommitOpens ==
    ASSUME TypeOK, ChatsInv, AskedInv, NEW r \in Req, Commit(r)
    PROVE  Members!MNext
<1> USE DEF TypeOK
<1>1. /\ pc[r] = "addOthers" /\ UNCHANGED <<role, reads>>
      /\ kind' = [kind EXCEPT ![r] = args[r].kind]
      /\ named' \in {named, named \cup {r}}
      /\ \A u \in args[r].whom : role[r][u] # "none"
  BY DEF Commit, Goto
<1>2. /\ args[r] \in Args /\ kind[r] = "none" /\ role[r][args[r].by] = "admin"
      /\ \A u \in User \ {args[r].by} : role[r][u] \in {"none", "member"}
  BY <1>1 DEF ChatsInv, RequestInv, Request
<1>3. args[r].by \in User /\ args[r].whom \in SUBSET User /\ args[r].kind \in {"direct", "group"}
  BY <1>2 DEF Args
<1>4. ASSUME NEW u \in User
      PROVE  role[r][u] = IF u = args[r].by THEN "admin" ELSE IF u \in args[r].whom THEN "member" ELSE "none"
  BY <1>1, <1>2 DEF AskedInv, Asked
<1>5. role[r] = [u \in User |-> IF u = args[r].by THEN "admin" ELSE IF u \in args[r].whom THEN "member" ELSE "none"]
  BY <1>4
<1>6. Visible' = Visible \cup {r}
  BY <1>1, <1>3 DEF Visible
<1>7. Rank' = [Rank EXCEPT ![r] = role[r]]
  BY <1>1, <1>6 DEF Rank
<1>8. Members!Open(r, args[r].by, args[r].whom)
  BY <1>1, <1>2, <1>3, <1>5, <1>7 DEF Members!Open
<1> QED
  BY <1>3, <1>8 DEF Members!MNext

LEMMA OperateMembers ==
    ASSUME TypeOK, ChatsInv, NEW r \in Req,
           AddMember(r) \/ RemoveMember(r) \/ UpdateChat(r) \/ UpsertRead(r)
    PROVE  Members!MNext \/ UNCHANGED Members!mvars
<1> USE DEF TypeOK
<1> DEFINE c == args[r].chat
<1>1. args[r] \in Args /\ c \in Visible
  BY DEF AddMember, RemoveMember, UpdateChat, UpsertRead, Goto, ChatsInv, RequestInv, Request, OnChat
<1>2. c \in Req /\ kind[c] # "none" /\ args[r].by \in User /\ args[r].whom \subseteq User
      /\ Rank[c] = role[c]
  BY <1>1 DEF Args, Visible, Rank
<1> HIDE DEF c
<1>3. CASE AddMember(r)
  <2>1. PICK u \in User : AddChatMember(c, u, "member")
    BY <1>2, <1>3 DEF AddMember, c
  <2>2. UNCHANGED <<kind, named, reads>> /\ Visible' = Visible
    BY <1>3 DEF AddMember, Visible
  <2>3. CASE role[c][u] = "none"
    <3>1. role' = [role EXCEPT ![c][u] = "member"]
      BY <1>2, <2>1, <2>3 DEF AddChatMember
    <3>2. Rank' = [Rank EXCEPT ![c][u] = "member"]
      BY <1>1, <1>2, <2>2, <3>1 DEF Rank
    <3>3. Members!Enter(c, u)
      BY <1>2, <2>2, <2>3, <3>2 DEF Members!Enter
    <3> QED
      BY <1>2, <3>3 DEF Members!MNext
  <2>4. CASE role[c][u] # "none"
    <3>1. role' = role
      BY <1>2, <2>1, <2>4 DEF AddChatMember
    <3> QED
      BY <2>2, <3>1, RankFrame DEF Members!mvars
  <2> QED
    BY <2>3, <2>4
<1>4. CASE RemoveMember(r)
  <2>1. PICK u \in User : <<c, u>> \notin reads /\ role' = [role EXCEPT ![c][u] = "none"]
    BY <1>2, <1>4 DEF RemoveMember, c
  <2>2. UNCHANGED <<kind, named, reads>> /\ Visible' = Visible
    BY <1>4 DEF RemoveMember, Visible
  <2>3. CASE role[c][u] # "none"
    <3>1. Rank' = [Rank EXCEPT ![c][u] = "none"]
      BY <1>1, <1>2, <2>1, <2>2 DEF Rank
    <3>2. Members!Leave(c, u)
      BY <1>2, <2>1, <2>2, <2>3, <3>1 DEF Members!Leave
    <3> QED
      BY <1>2, <3>2 DEF Members!MNext
  <2>4. CASE role[c][u] = "none"
    <3>1. role' = role
      BY <1>2, <2>1, <2>4
    <3> QED
      BY <2>2, <3>1, RankFrame DEF Members!mvars
  <2> QED
    BY <2>3, <2>4
<1>5. CASE UpdateChat(r)
  <2>1. UNCHANGED <<kind, role, reads>> /\ Visible' = Visible /\ named' \in {named, named \cup {c}}
    BY <1>5 DEF UpdateChat, Visible, c
  <2>2. Rank' = Rank
    BY <2>1, RankFrame
  <2> QED
    BY <1>2, <2>1, <2>2 DEF Members!MNext, Members!Rename, Members!mvars
<1>6. CASE UpsertRead(r)
  <2>1. /\ UNCHANGED <<kind, role, named>> /\ Visible' = Visible
        /\ role[c][args[r].by] # "none"
        /\ reads' = reads \cup {<<c, args[r].by>>}
    BY <1>6 DEF UpsertRead, Visible, c
  <2>2. Rank' = Rank
    BY <2>1, RankFrame
  <2>3. Members!Read(c, args[r].by)
    BY <1>2, <2>1, <2>2 DEF Members!Read
  <2> QED
    BY <1>2, <2>3 DEF Members!MNext
<1> QED
  BY <1>3, <1>4, <1>5, <1>6

\* The steps of a request that other requests do not see.
LEMMA HiddenMembers ==
    ASSUME TypeOK, ChatsInv, NEW r \in Req,
           \/ StartCreate(r) \/ FindDirectChat(r) \/ CreateChat(r) \/ AddCreator(r) \/ AddOther(r)
           \/ StartOther(r) \/ EnsureMember(r) \/ Fail(r)
    PROVE  UNCHANGED Members!mvars
<1> USE DEF TypeOK
<1>1. UNCHANGED <<kind, named, reads>> /\ Visible' = Visible
  BY DEF StartCreate, FindDirectChat, CreateChat, AddCreator, AddOther, StartOther, EnsureMember,
         Fail, Visible
<1>2. role' = role \/ (r \notin Visible /\ \A c \in Req \ {r} : role'[c] = role[c])
  <2>1. CASE AddCreator(r) \/ AddOther(r)
    <3>1. r \notin Visible
      BY <2>1 DEF AddCreator, AddOther, Goto, ChatsInv, RequestInv, Request, Visible
    <3> QED
      BY <2>1, <3>1 DEF AddCreator, AddOther, AddChatMember
  <2>2. CASE Fail(r)
    BY <2>2 DEF Fail, ChatsInv, RequestInv, Request, Visible
  <2>3. CASE StartCreate(r) \/ FindDirectChat(r) \/ CreateChat(r) \/ StartOther(r) \/ EnsureMember(r)
    BY <2>3 DEF StartCreate, FindDirectChat, CreateChat, StartOther, EnsureMember
  <2> QED
    BY <2>1, <2>2, <2>3
<1>3. Rank' = Rank
  BY <1>1, <1>2, RankFrame DEF Visible
<1> QED
  BY <1>1, <1>3 DEF Members!mvars

\* Chats open in one step with exactly the members asked for, change member by
\* member, and keep every read position with its member.
THEOREM ChatsImplementMembership == Spec => MembershipImplemented
<1>1. Init => AskedInv /\ Members!MInit
  <2> SUFFICES ASSUME Init
               PROVE  AskedInv /\ Members!MInit
    OBVIOUS
  <2>1. Rank = [c \in Req |-> [u \in User |-> "none"]]
    BY DEF Init, Rank, Visible, Nobody
  <2> QED
    BY <2>1 DEF Init, AskedInv, Members!MInit
<1>2. TypeOK /\ ChatsInv /\ AskedInv /\ [Next]_vars => AskedInv'
  <2>1. CASE UNCHANGED vars
    BY <2>1 DEF vars, AskedInv, Asked
  <2> QED
    BY <2>1, AskedStep DEF Next
<1>3. TypeOK /\ ChatsInv /\ AskedInv /\ [Next]_vars => [Members!MNext]_(Members!mvars)
  <2> SUFFICES ASSUME TypeOK, ChatsInv, AskedInv, [Next]_vars
               PROVE  Members!MNext \/ UNCHANGED Members!mvars
    OBVIOUS
  <2>1. ASSUME NEW r \in Req, Create(r) \/ Operate(r) \/ Fail(r)
        PROVE  Members!MNext \/ UNCHANGED Members!mvars
    BY <2>1, CommitOpens, OperateMembers, HiddenMembers DEF Create, Operate
  <2>2. CASE UNCHANGED vars
    BY <2>2 DEF vars, Rank, Visible, Members!mvars
  <2> QED
    BY <2>1, <2>2 DEF Next
<1> QED
  BY <1>1, <1>2, <1>3, ChatsInvariant, PTL DEF Spec, MembershipImplemented, Members!MSpec

\* What follows from the promise alone, for the rows that requests write: no
\* members without a chat, no read position of anybody else, and one founder who
\* is its only administrator ever, so that a chat whose founder was removed has
\* none.
THEOREM ChatsKeepTheMembership ==
    Spec => []Members!MembershipInv /\ Members!MembershipForward
<1>1. Members!MInit => Members!MembershipInv
  BY DEF Members!MInit, Members!MembershipInv
<1>2. Members!MembershipInv /\ [Members!MNext]_(Members!mvars)
        => Members!MembershipInv' /\ [Members!Forward]_(Members!mvars)
  <2> SUFFICES ASSUME Members!MembershipInv, Members!MNext \/ UNCHANGED Members!mvars
               PROVE  /\ Members!MembershipInv'
                      /\ Members!Forward \/ UNCHANGED Members!mvars
    OBVIOUS
  <2> USE DEF Members!MembershipInv, Members!Forward
  <2>1. CASE UNCHANGED Members!mvars
    BY <2>1 DEF Members!mvars
  <2>2. ASSUME NEW c \in Req, NEW u \in User, NEW whom \in SUBSET User, Members!Open(c, u, whom)
        PROVE  Members!MembershipInv' /\ Members!Forward
    BY <2>2 DEF Members!Open
  <2>3. ASSUME NEW c \in Req, NEW u \in User, Members!Enter(c, u)
        PROVE  Members!MembershipInv' /\ Members!Forward
    BY <2>3 DEF Members!Enter
  <2>4. ASSUME NEW c \in Req, NEW u \in User, Members!Leave(c, u)
        PROVE  Members!MembershipInv' /\ Members!Forward
    <3>1. UNCHANGED <<kind, named, reads>>
      BY <2>4 DEF Members!Leave
    <3>2. \A d \in Req, v \in User :
            Rank'[d][v] = IF d = c /\ v = u THEN "none" ELSE Rank[d][v]
      BY <2>4 DEF Members!Leave
    <3>3. \A p \in reads : p # <<c, u>> /\ p \in Req \X User
      BY <2>4 DEF Members!Leave
    <3>4. \A p \in reads : Rank'[p[1]][p[2]] # "none"
      BY <3>2, <3>3
    <3>5. Rank' \in [Req -> [User -> {"none", "admin", "member"}]]
      BY <2>4 DEF Members!Leave
    <3> QED
      BY <3>1, <3>2, <3>3, <3>4, <3>5
  <2>5. ASSUME NEW c \in Req, NEW u \in User, Members!Rename(c) \/ Members!Read(c, u)
        PROVE  Members!MembershipInv' /\ Members!Forward
    BY <2>5 DEF Members!Rename, Members!Read
  <2> QED
    BY <2>1, <2>2, <2>3, <2>4, <2>5 DEF Members!MNext
<1> QED
  BY <1>1, <1>2, ChatsImplementMembership, PTL
     DEF MembershipImplemented, Members!MSpec, Members!MembershipForward
=============================================================================
