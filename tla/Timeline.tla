------------------------------ MODULE Timeline ------------------------------
(* One chat read by a member who comes and goes: ListMessages and its keyset  *)
(* pages (internal/message/handler.go) against the events of handleMessageSend *)
(* and broadcastUpload.  Every message is sent by a request of its own.  The    *)
(* INSERT of a message takes created_at and the id when it begins and shows the *)
(* row when it commits, so rows may appear behind the page that is being read.  *)
(* The client is not in the repository: it lists the latest page, goes back     *)
(* page by page until one is not full, and starts again whenever a websocket of *)
(* its is accepted.  It cannot see when the hub registers that websocket, which *)
(* is later; what is announced in between does not reach it.  Who is a member   *)
(* changes in Chats.tla; here the reader joins once.                            *)
EXTENDS Naturals, FiniteSets

CONSTANTS
    Send,       \* messages, named by the request that sends them
    File,       \* those that are uploads
    Limit       \* the page size the client asks for

ASSUME TimelineAssumption == IsFiniteSet(Send) /\ File \subseteq Send /\ Limit \in Nat \ {0}

VARIABLES
    pc,         \* [Send -> the step the sender's handler is about to make]
    pos,        \* [Send -> place in the order of (created_at, id)]
    clock,      \* the last place given
    rows,       \* committed messages
    deleted,    \* those with deleted_at
    atts,       \* uploads whose attachment row is there
    notify,     \* messages whose GetMemberIDs included the reader
    joined,     \* the reader is a member
    conn,       \* the reader's websocket: "off", "open", or "online" in the hub
    walk,       \* where the reader is in reading the history
    before,     \* the cursor: no message or one
    page,       \* the rows that ListMessages has read and not yet returned
    listed,     \* what the pages of this walk have returned
    gap,        \* history: announced in this walk, before the hub knew the reader
    seen,       \* messages the reader has
    seenAtts    \* uploads whose file the reader has been told of

vars == <<pc, pos, clock, rows, deleted, atts, notify, joined, conn, walk, before,
          page, listed, gap, seen, seenAtts>>

tableVars == <<rows, deleted, atts>>
sendVars == <<pc, pos, clock, notify>>
connVars == <<conn, gap>>
walkVars == <<walk, before, page, listed>>
readerVars == <<joined, connVars, walkVars, seen, seenAtts>>

TypeOK ==
    /\ pc \in [Send -> {"idle", "insert", "attach", "members", "announce", "done", "failed"}]
    /\ pos \in [Send -> Nat]
    /\ clock \in Nat
    /\ rows \subseteq Send /\ deleted \subseteq Send /\ atts \subseteq Send
    /\ notify \subseteq Send
    /\ joined \in BOOLEAN
    /\ conn \in {"off", "open", "online"} /\ gap \subseteq Send
    /\ walk \in {"off", "list", "respond", "complete"}
    /\ before \subseteq Send
    /\ page \subseteq Send /\ Cardinality(page) <= Limit
    /\ listed \subseteq Send /\ seen \subseteq Send /\ seenAtts \subseteq Send

Init ==
    /\ pc = [s \in Send |-> "idle"]
    /\ pos = [s \in Send |-> 0]
    /\ clock = 0
    /\ rows = {} /\ deleted = {} /\ atts = {} /\ notify = {}
    /\ joined = FALSE
    /\ conn = "off" /\ gap = {}
    /\ walk = "off" /\ before = {} /\ page = {} /\ listed = {}
    /\ seen = {} /\ seenAtts = {}

Goto(s, from, to) == pc[s] = from /\ pc' = [pc EXCEPT ![s] = to]

-----------------------------------------------------------------------------
(* A message on its way: handleMessageSend, or Upload and broadcastUpload. *)

\* The INSERT begins: now() and the sequence give it its place.
Stamp(s) ==
    /\ Goto(s, "idle", "insert")
    /\ clock' = clock + 1
    /\ pos' = [pos EXCEPT ![s] = clock + 1]
    /\ UNCHANGED <<tableVars, notify, readerVars>>

CreateMessage(s) ==
    /\ Goto(s, "insert", IF s \in File THEN "attach" ELSE "members")
    /\ rows' = rows \cup {s}
    /\ UNCHANGED <<pos, clock, notify, deleted, atts, readerVars>>

CreateAttachment(s) ==
    /\ Goto(s, "attach", "members")
    /\ atts' = atts \cup {s}
    /\ UNCHANGED <<pos, clock, notify, rows, deleted, readerVars>>

GetMemberIDs(s) ==
    /\ Goto(s, "members", "announce")
    /\ notify' = IF joined THEN notify \cup {s} ELSE notify
    /\ UNCHANGED <<pos, clock, tableVars, readerVars>>

\* message.new, with the file if there is one, to the members the hub knows.
Announce(s) ==
    /\ Goto(s, "announce", "done")
    /\ IF s \in notify /\ conn = "online"
       THEN /\ seen' = seen \cup {s}
            /\ seenAtts' = seenAtts \cup ({s} \cap File)
       ELSE UNCHANGED <<seen, seenAtts>>
    /\ gap' = IF conn = "open" /\ walk # "off" THEN gap \cup {s} ELSE gap
    /\ UNCHANGED <<pos, clock, notify, tableVars, joined, conn, walkVars>>

\* A statement fails, and nobody is told of the message.
Fail(s) ==
    /\ pc[s] \in {"insert", "attach", "members"}
    /\ pc' = [pc EXCEPT ![s] = "failed"]
    /\ UNCHANGED <<pos, clock, notify, tableVars, readerVars>>

\* Mutant of SoftDelete: the row goes, and with it the cursor of whoever has come
\* to it.
SoftDelete_RemovesRow(s) ==
    /\ s \in rows
    /\ rows' = rows \ {s}
    /\ deleted' = deleted \cup {s}
    /\ atts' = atts \ {s}
    /\ UNCHANGED <<sendVars, readerVars>>

\* DeleteMessage: the row stays, its attachments go unless that fails.
SoftDelete(s) ==
    /\ s \in rows
    /\ deleted' = deleted \cup {s}
    /\ atts' = atts \ {s} \/ UNCHANGED atts
    /\ UNCHANGED <<rows, sendVars, readerVars>>

Deliver(s) ==
    \/ Stamp(s) \/ CreateMessage(s) \/ CreateAttachment(s) \/ GetMemberIDs(s)
    \/ Announce(s) \/ Fail(s) \/ SoftDelete(s)

-----------------------------------------------------------------------------
(* The reader *)

Join ==
    /\ joined' = TRUE
    /\ UNCHANGED <<sendVars, tableVars, connVars, walkVars, seen, seenAtts>>

\* websocket.Accept answers the handshake.  The client starts to read again, since
\* events were lost before.
Accept ==
    /\ conn = "off"
    /\ conn' = "open" /\ gap' = {}
    /\ walk' = "off" /\ before' = {} /\ page' = {} /\ listed' = {}
    /\ UNCHANGED <<sendVars, tableVars, joined, seen, seenAtts>>

\* Hub.Run puts the client into its map; events reach it from now on.
Register ==
    /\ conn = "open"
    /\ conn' = "online"
    /\ UNCHANGED <<sendVars, tableVars, joined, gap, walkVars, seen, seenAtts>>

\* The hub drops the client, after its buffer was full or its websocket was closed
\* (Hub.tla).  The client may go on listing until it notices.
Disconnect ==
    /\ conn # "off"
    /\ conn' = "off"
    /\ UNCHANGED <<sendVars, tableVars, joined, gap, walkVars, seen, seenAtts>>

\* The first request has no "before"; EnsureMember lets members in only.
StartWalk ==
    /\ joined
    /\ walk = "off"
    /\ walk' = "list"
    /\ UNCHANGED <<sendVars, tableVars, joined, connVars, before, page, listed, seen, seenAtts>>

\* Mutant of Older: the cursor's own row is part of the next page.
Older_Inclusive == {m \in rows : \A c \in before : c \in rows /\ pos[m] <= pos[c]}

\* The rows behind the cursor; without the cursor's row the comparison is NULL.
Older == {m \in rows : \A c \in before : c \in rows /\ pos[m] < pos[c]}

\* Mutant of IsPage: the query has no LIMIT.
IsPage_NoLimit(p) == p = Older

\* ORDER BY created_at DESC, id DESC LIMIT Limit.
IsPage(p) ==
    /\ Cardinality(p) = Limit \/ (Cardinality(p) < Limit /\ p = Older)
    /\ \A m \in p, n \in Older \ p : pos[n] < pos[m]

\* ListMessagesByChatLatest or ListMessagesByChatBefore.
ListMessages ==
    /\ walk = "list"
    /\ walk' = "respond"
    /\ \E p \in SUBSET Older : IsPage(p) /\ page' = p
    /\ UNCHANGED <<sendVars, tableVars, joined, connVars, before, listed, seen, seenAtts>>

\* ListAttachmentsByMessageIDs, for the rows read before, and the answer.  The
\* last message of a full page is the next cursor.
Respond ==
    /\ walk = "respond"
    /\ seen' = seen \cup page
    /\ seenAtts' = seenAtts \cup (page \cap atts)
    /\ listed' = listed \cup page
    /\ page' = {}
    /\ \/ /\ Cardinality(page) < Limit
          /\ walk' = "complete"
          /\ UNCHANGED before
       \/ /\ Cardinality(page) = Limit
          /\ walk' = "list"
          /\ \E c \in page : (\A m \in page : pos[c] <= pos[m]) /\ before' = {c}
    /\ UNCHANGED <<sendVars, tableVars, joined, connVars>>

\* Either query fails: the client repeats the request.
ListFails ==
    /\ walk = "respond"
    /\ walk' = "list"
    /\ page' = {}
    /\ UNCHANGED <<sendVars, tableVars, joined, connVars, before, listed, seen, seenAtts>>

Read == Join \/ Accept \/ Register \/ Disconnect \/ StartWalk \/ ListMessages \/ Respond \/ ListFails

-----------------------------------------------------------------------------
Next == Read \/ \E s \in Send : Deliver(s)

Spec == Init /\ [][Next]_vars

-----------------------------------------------------------------------------
(* Properties *)

Has(s) == s \in seen /\ (s \in File \ deleted => s \in seenAtts)

\* When a reader that the hub knows has come to the end of the history, it has
\* every message that was announced, and every file, whatever was sent, committed
\* late, uploaded, deleted or missed meanwhile: what no page shows was announced to
\* the reader.  The one exception is what was announced after the walk began and
\* before the hub registered the websocket; if the walk begins later, gap is empty.
NothingMissed ==
    conn = "online" /\ walk = "complete" =>
        \A s \in Send \ gap : pc[s] = "done" => Has(s)

\* New messages and deletions never push a message onto a second page of a walk.
NoRepeats == page \cap listed = {}
=============================================================================
