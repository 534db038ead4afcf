----------------------------- MODULE Membership -----------------------------
(* What the chat service promises about chats and their members: a chat      *)
(* opens in one step with its kind and exactly the members asked for; later   *)
(* ones enter as plain members; nobody leaves who has a read position, and    *)
(* only members get one.  Chats.tla implements it statement by statement.     *)

CONSTANTS User, Chat

VARIABLES
    style,      \* [Chat -> "none" | "direct" | "group"]
    rank,       \* [Chat -> [User -> "none" | "admin" | "member"]]
    titled,     \* chats that were given a name
    position    \* pairs of a chat and a user who read in it

mvars == <<style, rank, titled, position>>

MInit ==
    /\ style = [c \in Chat |-> "none"]
    /\ rank = [c \in Chat |-> [u \in User |-> "none"]]
    /\ titled = {}
    /\ position = {}

Open(c, by, whom) ==
    /\ style[c] = "none"
    /\ \E k \in {"direct", "group"} : style' = [style EXCEPT ![c] = k]
    /\ rank' = [rank EXCEPT ![c] = [u \in User |->
         IF u = by THEN "admin" ELSE IF u \in whom THEN "member" ELSE "none"]]
    /\ titled' \in {titled, titled \cup {c}}
    /\ UNCHANGED position

Enter(c, u) ==
    /\ style[c] # "none" /\ rank[c][u] = "none"
    /\ rank' = [rank EXCEPT ![c][u] = "member"]
    /\ UNCHANGED <<style, titled, position>>

Leave(c, u) ==
    /\ rank[c][u] # "none" /\ <<c, u>> \notin position
    /\ rank' = [rank EXCEPT ![c][u] = "none"]
    /\ UNCHANGED <<style, titled, position>>

Rename(c) ==
    /\ style[c] # "none"
    /\ titled' = titled \cup {c}
    /\ UNCHANGED <<style, rank, position>>

Read(c, u) ==
    /\ rank[c][u] # "none"
    /\ position' = position \cup {<<c, u>>}
    /\ UNCHANGED <<style, rank, titled>>

MNext == \E c \in Chat, u \in User :
    \/ \E whom \in SUBSET User : Open(c, u, whom)
    \/ Enter(c, u) \/ Leave(c, u) \/ Rename(c) \/ Read(c, u)

MSpec == MInit /\ [][MNext]_mvars

\* What the steps keep together: nobody is in a chat that is not open, who read
\* in a chat is a member of it, and no chat has two administrators.
MembershipInv ==
    /\ style \in [Chat -> {"none", "direct", "group"}]
    /\ rank \in [Chat -> [User -> {"none", "admin", "member"}]]
    /\ \A c \in Chat : style[c] = "none" => c \notin titled /\ \A u \in User : rank[c][u] = "none"
    /\ \A p \in position : p \in Chat \X User /\ rank[p[1]][p[2]] # "none"
    /\ \A c \in Chat : \A u, v \in User : rank[c][u] = "admin" /\ rank[c][v] = "admin" => u = v

\* An open chat stays open and of its kind, and nobody becomes its administrator
\* later: one that has lost its own is without for good.
Forward == \A c \in Chat : style[c] # "none" =>
    /\ style'[c] = style[c]
    /\ \A u \in User : rank'[c][u] = "admin" => rank[c][u] = "admin"

MembershipForward == [][Forward]_mvars
=============================================================================
