------------------------------ MODULE Messages ------------------------------
(* The life of the messages of one chat: handleMessageSend and               *)
(* handleMessageRead (internal/ws/handler.go), EditMessage and DeleteMessage *)
(* (internal/message/handler.go), Upload (internal/files).  Requests are      *)
(* goroutines; every statement, every object store call and every broadcast   *)
(* is a step, none of them in a transaction with another.  An INSERT takes    *)
(* its id from the sequence, which all chats share, before its row is there.  *)
(* A broadcast is seen by one member who is connected all along (Hub.tla      *)
(* models delivery).                                                          *)
EXTENDS Naturals, FiniteSets

CONSTANTS
    Req,        \* requests; each one does one thing
    MaxMsg      \* bound: the last id the sequence gives

ASSUME MessagesAssumption == MaxMsg \in Nat \ {0}

Msg == 1 .. MaxMsg      \* messages.id

VARIABLES
    pc,         \* [Req -> the step the handler is about to make]
    lastId,     \* the sequence behind messages.id, a BIGSERIAL
    target,     \* [Req -> 0 or a message id]
    rows,       \* [Msg -> "none" | "live" | "deleted"]: the row and deleted_at
    content,    \* messages whose content is not NULL
    edited,     \* history: messages whose content an edit has set
    atts,       \* [Msg -> SUBSET Req]: attachments, named by their upload
    objects,    \* uploads whose object is in the bucket
    feed,       \* [Msg -> the last event about the message, as broadcast]
    acked,      \* message.send requests answered by message.ack
    read,       \* message_reads.last_read_msg_id of one user, 0 for no row
    readTold    \* the last message.read_update about that user

vars == <<pc, lastId, target, rows, content, edited, atts, objects, feed, acked, read, readTold>>

idVars == <<lastId, target>>
msgVars == <<rows, content, edited>>
fileVars == <<atts, objects>>
readVars == <<read, readTold>>

Pcs == {"idle", "send", "insert", "reload", "members", "announce", "ack",
        "put", "sendFile", "insertFile", "attach", "announceFile",
        "update", "announceUpdate",
        "softDelete", "deleteAtts", "announceDelete",
        "upsert", "announceRead", "done", "failed"}

TypeOK ==
    /\ pc \in [Req -> Pcs]
    /\ lastId \in 0 .. MaxMsg
    /\ target \in [Req -> 0 .. MaxMsg]
    /\ rows \in [Msg -> {"none", "live", "deleted"}]
    /\ content \in SUBSET Msg
    /\ edited \in SUBSET Msg
    /\ atts \in [Msg -> SUBSET Req]
    /\ objects \in SUBSET Req
    /\ feed \in [Msg -> {"none", "new", "updated", "deleted"}]
    /\ acked \in SUBSET Req
    /\ read \in 0 .. MaxMsg
    /\ readTold \in 0 .. MaxMsg

Init ==
    /\ pc = [r \in Req |-> "idle"]
    /\ lastId = 0
    /\ target = [r \in Req |-> 0]
    /\ rows = [m \in Msg |-> "none"]
    /\ content = {}
    /\ edited = {}
    /\ atts = [m \in Msg |-> {}]
    /\ objects = {}
    /\ feed = [m \in Msg |-> "none"]
    /\ acked = {}
    /\ read = 0
    /\ readTold = 0

Exists(m) == rows[m] # "none"

Goto(r, from, to) == pc[r] = from /\ pc' = [pc EXCEPT ![r] = to]

\* EnsureMember succeeded; the handler starts on its own message or on one
\* that GetMessageByID found.
Start(r, first, m) ==
    /\ Goto(r, "idle", first)
    /\ target' = [target EXCEPT ![r] = m]
    /\ UNCHANGED <<lastId, msgVars, fileVars, feed, acked, readVars>>

\* An error other than the ones handled below: the handler returns, and what
\* its earlier statements wrote stays; an id that was taken is not given back.
Fail(r) ==
    /\ pc[r] \in {"send", "insert", "reload", "members",
                  "put", "sendFile", "insertFile", "attach",
                  "update", "softDelete", "upsert"}
    /\ pc' = [pc EXCEPT ![r] = "failed"]
    /\ UNCHANGED <<idVars, msgVars, fileVars, feed, acked, readVars>>

\* GetMemberIDs fails before a broadcast that nothing else depends on.
SkipBroadcast(r) ==
    /\ pc[r] \in {"announceFile", "announceUpdate", "announceDelete", "announceRead"}
    /\ pc' = [pc EXCEPT ![r] = "done"]
    /\ UNCHANGED <<idVars, msgVars, fileVars, feed, acked, readVars>>

\* hub.Send or SendJSON of an event about the request's message.
Announce(r, from, to, event) ==
    /\ Goto(r, from, to)
    /\ feed' = [feed EXCEPT ![target[r]] = event]
    /\ UNCHANGED <<idVars, msgVars, fileVars, acked, readVars>>

-----------------------------------------------------------------------------
(* message.send *)

\* The INSERT begins and takes its id, before any constraint is looked at.  The
\* ids it skips went to other chats or to INSERTs that failed.
Nextval(r, from, to) ==
    /\ Goto(r, from, to)
    /\ \E m \in Msg :
         /\ m > lastId
         /\ lastId' = m
         /\ target' = [target EXCEPT ![r] = m]
    /\ UNCHANGED <<msgVars, fileVars, feed, acked, readVars>>

\* The INSERT commits, in any order with others; content is NULL when empty.
Insert(r, from, to, hasContent) ==
    /\ Goto(r, from, to)
    /\ rows' = [rows EXCEPT ![target[r]] = "live"]
    /\ content' = IF hasContent THEN content \cup {target[r]} ELSE content
    /\ UNCHANGED <<idVars, edited, fileVars, feed, acked, readVars>>

CreateMessage(r) ==
    \/ Nextval(r, "send", "insert")
    \/ \E hasContent \in BOOLEAN : Insert(r, "insert", "reload", hasContent)

\* GetByID, then GetMemberIDs.
Reload(r) ==
    /\ Goto(r, "reload", "members") \/ Goto(r, "members", "announce")
    /\ UNCHANGED <<idVars, msgVars, fileVars, feed, acked, readVars>>

AnnounceNew(r) == Announce(r, "announce", "ack", "new")

\* Mutant of Ack: it names the message instead of the request.
Ack_ByMessage(r) ==
    /\ Goto(r, "ack", "done")
    /\ acked' = acked \cup {target[r]}
    /\ UNCHANGED <<idVars, msgVars, fileVars, feed, readVars>>

Ack(r) ==
    /\ Goto(r, "ack", "done")
    /\ acked' = acked \cup {r}
    /\ UNCHANGED <<idVars, msgVars, fileVars, feed, readVars>>

Send(r) == CreateMessage(r) \/ Reload(r) \/ AnnounceNew(r) \/ Ack(r)

-----------------------------------------------------------------------------
(* POST upload *)

\* Mutant of PutObject: an object that cannot be stored is only logged.
PutObject_BestEffort(r) ==
    /\ Goto(r, "put", "sendFile")
    /\ objects' = objects \cup {r} \/ UNCHANGED objects
    /\ UNCHANGED <<idVars, msgVars, atts, feed, acked, readVars>>

PutObject(r) ==
    /\ Goto(r, "put", "sendFile")
    /\ objects' = objects \cup {r}
    /\ UNCHANGED <<idVars, msgVars, atts, feed, acked, readVars>>

\* Mutant of InsertFile: the message is announced as soon as it is there.
InsertFile_ThenAnnounce(r) ==
    \/ Nextval(r, "sendFile", "insertFile")
    \/ Insert(r, "insertFile", "announceFile", FALSE)

InsertFile(r) ==
    \/ Nextval(r, "sendFile", "insertFile")
    \/ Insert(r, "insertFile", "attach", FALSE)

\* CreateAttachment: the foreign key asks for the message's row, deleted or not.
CreateAttachment(r) ==
    /\ Goto(r, "attach", "announceFile")
    /\ atts' = [atts EXCEPT ![target[r]] = @ \cup {r}]
    /\ UNCHANGED <<idVars, msgVars, objects, feed, acked, readVars>>

AnnounceFile(r) == Announce(r, "announceFile", "done", "new")

Upload(r) == PutObject(r) \/ InsertFile(r) \/ CreateAttachment(r) \/ AnnounceFile(r)

-----------------------------------------------------------------------------
(* PATCH and DELETE of a message *)

\* UpdateMessageContent sets content and updated_at; deleted_at is not looked at.
UpdateContent(r) ==
    /\ Goto(r, "update", "announceUpdate")
    /\ content' = content \cup {target[r]}
    /\ edited' = edited \cup {target[r]}
    /\ UNCHANGED <<idVars, rows, fileVars, feed, acked, readVars>>

AnnounceUpdate(r) == Announce(r, "announceUpdate", "done", "updated")

\* Mutant of SoftDelete: its error is ignored like that of the next statement.
SoftDelete_BestEffort(r) ==
    /\ Goto(r, "softDelete", "deleteAtts")
    /\ \/ /\ rows' = [rows EXCEPT ![target[r]] = "deleted"]
          /\ content' = content \ {target[r]}
       \/ UNCHANGED <<rows, content>>
    /\ UNCHANGED <<idVars, edited, fileVars, feed, acked, readVars>>

SoftDelete(r) ==
    /\ Goto(r, "softDelete", "deleteAtts")
    /\ rows' = [rows EXCEPT ![target[r]] = "deleted"]
    /\ content' = content \ {target[r]}
    /\ UNCHANGED <<idVars, edited, fileVars, feed, acked, readVars>>

\* DeleteAttachmentsByMessage; its error is ignored, and no object is removed.
DeleteAttachments(r) ==
    /\ Goto(r, "deleteAtts", "announceDelete")
    /\ \/ atts' = [atts EXCEPT ![target[r]] = {}]
       \/ UNCHANGED atts
    /\ UNCHANGED <<idVars, msgVars, objects, feed, acked, readVars>>

AnnounceDelete(r) == Announce(r, "announceDelete", "done", "deleted")

Change(r) ==
    \/ UpdateContent(r) \/ AnnounceUpdate(r)
    \/ SoftDelete(r) \/ DeleteAttachments(r) \/ AnnounceDelete(r)

-----------------------------------------------------------------------------
(* message.read *)

\* Mutant of UpsertRead: the last request wins, without GREATEST.
UpsertRead_Overwrites(r) ==
    /\ Goto(r, "upsert", "announceRead")
    /\ read' = target[r]
    /\ UNCHANGED <<idVars, msgVars, fileVars, feed, acked, readTold>>

\* INSERT ... ON CONFLICT DO UPDATE SET last_read_msg_id = GREATEST(...).
UpsertRead(r) ==
    /\ Goto(r, "upsert", "announceRead")
    /\ read' = IF target[r] > read THEN target[r] ELSE read
    /\ UNCHANGED <<idVars, msgVars, fileVars, feed, acked, readTold>>

\* The event carries the id of the request, not the one in the table.
AnnounceRead(r) ==
    /\ Goto(r, "announceRead", "done")
    /\ readTold' = target[r]
    /\ UNCHANGED <<idVars, msgVars, fileVars, feed, acked, read>>

Read(r) == UpsertRead(r) \/ AnnounceRead(r)

-----------------------------------------------------------------------------
StartRequest(r) ==
    \/ \E first \in {"send", "put"} : Start(r, first, 0)
    \/ \E first \in {"update", "softDelete", "upsert"}, m \in Msg : Exists(m) /\ Start(r, first, m)

Next == \E r \in Req :
    \/ StartRequest(r) \/ Send(r) \/ Upload(r) \/ Change(r) \/ Read(r)
    \/ Fail(r) \/ SkipBroadcast(r)

Spec == Init /\ [][Next]_vars

-----------------------------------------------------------------------------
(* Properties *)

\* An attachment is never listed without its object: uploads store the object
\* first, and nothing removes one.
AttachmentHasObject == \A m \in Msg : atts[m] \subseteq objects

\* A file message that was announced as new, and was not deleted since, has its
\* attachment: between its two INSERTs it is not shown to connected members.
FileMessageComplete ==
    \A r \in objects : \A m \in Msg :
        target[r] = m /\ feed[m] = "new" /\ rows[m] = "live" => atts[m] # {}

\* Whatever requests interleave, overtake each other or fail half way, the members
\* see a ChatLog: events only of what is stored, "deleted" only of a message whose
\* row is marked for good, "updated" only of one that was edited, acknowledgements
\* after the event they are about, and a read position that never moves back and is
\* never overstated.  Ids come in any order and with gaps, and an "updated" may
\* follow a "deleted".
Feed == INSTANCE ChatLog WITH
    log <- rows,
    told <- feed,
    answered <- {target[r] : r \in acked}
FeedImplemented == Feed!LSpec

\* "Soft delete removes a message's attachments, so a genuinely deleted row has
\* none", once the requests that delete it or upload to it are over.
DeletedHasNoAttachments ==
    \A m \in Msg :
        /\ rows[m] = "deleted"
        /\ \A r \in Req : pc[r] \in {"idle", "done", "failed"}
        => atts[m] = {}
=============================================================================
