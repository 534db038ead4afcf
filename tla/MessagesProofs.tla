--------------------------- MODULE MessagesProofs ---------------------------
(* Theorems about Messages, for every number of requests and messages.     *)
EXTENDS Messages, TLAPS

\* A request that has a message works on a row that is there, and one that has
\* taken an id for a message has it for itself.
OnMessage == {"reload", "members", "announce", "ack", "attach", "announceFile",
              "update", "announceUpdate", "softDelete", "deleteAtts",
              "announceDelete", "upsert", "announceRead"}

TargetInv ==
    /\ \A r \in Req : pc[r] \in OnMessage => target[r] \in Msg /\ Exists(target[r])
    /\ \A r \in Req : pc[r] \in {"idle", "send", "put", "sendFile"} => target[r] = 0
    /\ \A r \in Req : target[r] <= lastId
    /\ \A m \in Msg : Exists(m) => m <= lastId
    /\ \A r \in Req : pc[r] \in {"insert", "insertFile"} =>
         /\ target[r] \in Msg /\ ~ Exists(target[r])
         /\ \A q \in Req \ {r} : target[q] # target[r]

\* What is announced is stored, an update has been made when it is announced, and
\* the sender is answered after the announcement.
FeedInv ==
    /\ \A m \in Msg : feed[m] # "none" => Exists(m)
    /\ \A r \in Req : pc[r] = "announceUpdate" => target[r] \in edited
    /\ \A r \in Req : pc[r] = "ack" => feed[target[r]] # "none"
    /\ \A r \in acked : pc[r] = "done" /\ target[r] \in Msg /\ feed[target[r]] # "none"

\* An upload that comes after the object has one; each has its own message, and
\* nobody else announces that message as new.
Creating == {"reload", "members", "announce"}

UploadInv ==
    /\ \A m \in Msg : atts[m] \subseteq objects
    /\ \A r \in Req : pc[r] \in {"sendFile", "insertFile", "attach", "announceFile"} => r \in objects
    /\ \A r \in objects : pc[r] \in {"sendFile", "insertFile", "attach", "announceFile", "done", "failed"}
    /\ \A r \in objects, q \in Req :
         /\ target[r] # 0 /\ target[q] = target[r]
         /\ q \in objects \/ pc[q] \in Creating
         => q = r
    /\ \A r \in objects : pc[r] = "announceFile" /\ rows[target[r]] = "live" => atts[target[r]] # {}
    /\ \A r \in Req : pc[r] \in {"deleteAtts", "announceDelete"} => rows[target[r]] = "deleted"

ReadInv ==
    /\ readTold <= read
    /\ \A r \in Req : pc[r] = "announceRead" => target[r] <= read

MessagesInv == TargetInv /\ FeedInv /\ UploadInv /\ FileMessageComplete /\ ReadInv

LEMMA NextvalType ==
    ASSUME TypeOK, NEW r \in Req,
           Nextval(r, "send", "insert") \/ Nextval(r, "sendFile", "insertFile")
    PROVE  TypeOK'
<1>1. PICK m \in Msg, to \in {"insert", "insertFile"} :
        /\ lastId' = m
        /\ pc' = [pc EXCEPT ![r] = to]
        /\ target' = [target EXCEPT ![r] = m]
        /\ UNCHANGED <<msgVars, fileVars, feed, acked, readVars>>
  BY DEF Nextval, Goto
<1>2. m \in 0 .. MaxMsg
  BY MessagesAssumption DEF Msg
<1> QED
  BY <1>1, <1>2 DEF TypeOK, Pcs, msgVars, fileVars, readVars

LEMMA InsertType ==
    ASSUME TypeOK, TargetInv, NEW r \in Req, NEW to \in Pcs, NEW hasContent \in BOOLEAN,
           Insert(r, "insert", to, hasContent) \/ Insert(r, "insertFile", to, hasContent)
    PROVE  TypeOK'
<1>1. target[r] \in Msg
  BY DEF Insert, Goto, TargetInv
<1>2. content' \in SUBSET Msg
  BY <1>1 DEF Insert, TypeOK
<1> QED
  BY <1>1, <1>2 DEF Insert, Goto, TypeOK, idVars, fileVars, readVars

\* Types are kept; that contents belong to messages needs TargetInv.
LEMMA MessagesTypeStep ==
    ASSUME TypeOK, TargetInv, [Next]_vars
    PROVE  TypeOK'
<1> USE MessagesAssumption DEF TypeOK, Pcs, Msg, idVars, msgVars, fileVars, readVars, Goto, Exists
<1>1. ASSUME NEW r \in Req, StartRequest(r)
      PROVE  TypeOK'
  <2>1. ASSUME NEW first \in {"send", "put"}, Start(r, first, 0)
        PROVE  TypeOK'
    BY <2>1 DEF Start
  <2>2. ASSUME NEW first \in {"update", "softDelete", "upsert"}, NEW m \in Msg, Start(r, first, m)
        PROVE  TypeOK'
    BY <2>2 DEF Start
  <2> QED
    BY <1>1, <2>1, <2>2 DEF StartRequest
<1>2. ASSUME NEW r \in Req, Send(r)
      PROVE  TypeOK'
  <2>1. CASE CreateMessage(r)
    BY <2>1, NextvalType, InsertType DEF CreateMessage
  <2>2. CASE Reload(r)
    BY <2>2 DEF Reload
  <2>3. CASE AnnounceNew(r) \/ Ack(r)
    BY <2>3 DEF AnnounceNew, Announce, Ack
  <2> QED
    BY <1>2, <2>1, <2>2, <2>3 DEF Send
<1>3. ASSUME NEW r \in Req, Upload(r)
      PROVE  TypeOK'
  <2>1. CASE InsertFile(r)
    BY <2>1, NextvalType, InsertType DEF InsertFile
  <2>2. CASE PutObject(r) \/ AnnounceFile(r)
    BY <2>2 DEF PutObject, AnnounceFile, Announce
  <2>3. CASE CreateAttachment(r)
    BY <2>3 DEF CreateAttachment
  <2> QED
    BY <1>3, <2>1, <2>2, <2>3 DEF Upload
<1>4. ASSUME NEW r \in Req, Change(r)
      PROVE  TypeOK'
  <2>1. CASE UpdateContent(r) \/ SoftDelete(r)
    <3>1. target[r] \in Msg
      BY <2>1 DEF UpdateContent, SoftDelete, TargetInv, OnMessage
    <3>2. content' \in SUBSET Msg /\ edited' \in SUBSET Msg
      BY <2>1, <3>1 DEF UpdateContent, SoftDelete
    <3> QED
      BY <2>1, <3>2 DEF UpdateContent, SoftDelete
  <2>2. CASE AnnounceUpdate(r) \/ AnnounceDelete(r)
    BY <2>2 DEF AnnounceUpdate, AnnounceDelete, Announce
  <2>3. CASE DeleteAttachments(r)
    BY <2>3 DEF DeleteAttachments
  <2> QED
    BY <1>4, <2>1, <2>2, <2>3 DEF Change
<1>5. ASSUME NEW r \in Req, Read(r)
      PROVE  TypeOK'
  <2>1. CASE UpsertRead(r)
    BY <2>1 DEF UpsertRead
  <2>2. CASE AnnounceRead(r)
    BY <2>2 DEF AnnounceRead
  <2> QED
    BY <1>5, <2>1, <2>2 DEF Read
<1>6. ASSUME NEW r \in Req, Fail(r) \/ SkipBroadcast(r)
      PROVE  TypeOK'
  BY <1>6 DEF Fail, SkipBroadcast
<1>7. CASE UNCHANGED vars
  BY <1>7 DEF vars
<1> QED
  BY <1>1, <1>2, <1>3, <1>4, <1>5, <1>6, <1>7 DEF Next

-----------------------------------------------------------------------------
\* Init and the steps, one lemma for each kind of request.
LEMMA MessagesInit == Init => TypeOK /\ MessagesInv
<1> SUFFICES ASSUME Init
             PROVE  TypeOK /\ MessagesInv
  OBVIOUS
<1>1. TypeOK
  BY MessagesAssumption DEF Init, TypeOK, Pcs, Msg
<1>2. TargetInv /\ FeedInv
  BY DEF Init, TargetInv, FeedInv, OnMessage, Exists
<1>3. UploadInv /\ FileMessageComplete /\ ReadInv
  BY DEF Init, UploadInv, FileMessageComplete, ReadInv
<1> QED
  BY <1>1, <1>2, <1>3 DEF MessagesInv

\* A request that only moves on, without touching anything shared, and does not
\* get to a place of which the invariant says something new.
LEMMA MessagesFrame ==
    ASSUME TypeOK, MessagesInv, NEW r \in Req,
           UNCHANGED <<idVars, rows, edited, atts, objects, feed, acked, read, readTold>>,
           \E to \in {"members", "announce", "done", "failed"} : pc' = [pc EXCEPT ![r] = to],
           pc[r] # "done",
           pc'[r] \in {"members", "announce"} => pc[r] \in {"reload", "members"},
           r \in objects => pc'[r] \in {"done", "failed"}
    PROVE  MessagesInv'
<1> USE DEF idVars, TypeOK, MessagesInv, Exists, Creating, OnMessage
<1>1. TargetInv'
  BY DEF TargetInv
<1>2. FeedInv'
  BY DEF FeedInv
<1>3. UploadInv'
  BY DEF UploadInv
<1>4. FileMessageComplete' /\ ReadInv'
  BY DEF FileMessageComplete, ReadInv
<1> QED
  BY <1>1, <1>2, <1>3, <1>4

\* The id that the sequence gives is above every id a row or a request has.
LEMMA NextvalInv ==
    ASSUME TypeOK, MessagesInv, NEW r \in Req,
           Nextval(r, "send", "insert") \/ Nextval(r, "sendFile", "insertFile")
    PROVE  MessagesInv'
<1> USE MessagesAssumption DEF TypeOK, MessagesInv, Exists, Creating, OnMessage
<1>1. PICK m \in Msg, to \in {"insert", "insertFile"} :
        /\ m > lastId /\ lastId' = m
        /\ pc' = [pc EXCEPT ![r] = to]
        /\ target' = [target EXCEPT ![r] = m]
        /\ pc[r] = IF to = "insert" THEN "send" ELSE "sendFile"
        /\ UNCHANGED <<rows, edited, atts, objects, feed, acked, read, readTold>>
  BY DEF Nextval, Goto, idVars, msgVars, fileVars, readVars
<1>2. /\ target[r] = 0 /\ r \notin acked
      /\ r \in objects <=> to = "insertFile"
  BY <1>1 DEF TargetInv, FeedInv, UploadInv
<1>3. /\ m \in Nat \ {0} /\ lastId \in Nat
      /\ rows[m] = "none"
      /\ \A q \in Req : target[q] \in Nat /\ target[q] < m
  BY <1>1 DEF TargetInv, Msg
<1>4. TargetInv'
  <2>1. \A n \in Msg : n \in Nat
    BY DEF Msg
  <2> QED
    BY <1>1, <1>2, <1>3, <2>1 DEF TargetInv
<1>5. FeedInv'
  BY <1>1, <1>2 DEF FeedInv
<1>6. UploadInv'
  BY <1>1, <1>2, <1>3 DEF UploadInv
<1>7. FileMessageComplete'
  BY <1>1, <1>2, <1>3 DEF FileMessageComplete, FeedInv
<1>8. ReadInv'
  BY <1>1 DEF ReadInv
<1> QED
  BY <1>4, <1>5, <1>6, <1>7, <1>8

\* The INSERT of a message: no other request has its id.
LEMMA InsertInv ==
    ASSUME TypeOK, MessagesInv, NEW r \in Req, NEW to, NEW hasContent \in BOOLEAN,
           \/ Insert(r, "insert", to, hasContent) /\ to = "reload"
           \/ Insert(r, "insertFile", to, hasContent) /\ to = "attach"
    PROVE  MessagesInv'
<1> USE MessagesAssumption DEF TypeOK, MessagesInv, Exists, Creating, OnMessage
<1>1. PICK m \in Msg :
        /\ m = target[r] /\ rows[m] = "none"
        /\ \A q \in Req \ {r} : target[q] # m
        /\ pc' = [pc EXCEPT ![r] = to]
        /\ rows' = [rows EXCEPT ![m] = "live"]
        /\ UNCHANGED <<idVars, edited, atts, objects, feed, acked, read, readTold>>
  BY DEF Insert, Goto, TargetInv, fileVars, readVars
<1>2. \/ pc[r] = "insert" /\ to = "reload" /\ r \notin objects
      \/ pc[r] = "insertFile" /\ to = "attach" /\ r \in objects
  BY DEF Insert, Goto, UploadInv
<1>3. /\ m # 0 /\ feed[m] = "none" /\ r \notin acked
      /\ UNCHANGED <<lastId, target>>
  BY <1>1, <1>2 DEF FeedInv, Msg, idVars
<1>4. TargetInv'
  BY <1>1, <1>2, <1>3 DEF TargetInv
<1>5. FeedInv'
  BY <1>1, <1>2, <1>3 DEF FeedInv
<1>6. UploadInv'
  BY <1>1, <1>2, <1>3 DEF UploadInv, TargetInv
<1>7. FileMessageComplete'
  BY <1>1, <1>3 DEF FileMessageComplete
<1>8. ReadInv'
  BY <1>1, <1>2, <1>3 DEF ReadInv
<1> QED
  BY <1>4, <1>5, <1>6, <1>7, <1>8

\* The broadcast of an event; only a request that made the message says "new".
LEMMA AnnounceInv ==
    ASSUME TypeOK, MessagesInv, NEW r \in Req,
           AnnounceNew(r) \/ AnnounceFile(r) \/ AnnounceUpdate(r) \/ AnnounceDelete(r)
    PROVE  MessagesInv'
<1> USE DEF idVars, TypeOK, MessagesInv, Exists, Creating, OnMessage
<1>1. PICK to \in {"ack", "done"}, event \in {"new", "updated", "deleted"} :
        /\ pc' = [pc EXCEPT ![r] = to]
        /\ feed' = [feed EXCEPT ![target[r]] = event]
        /\ pc[r] \in {"announce", "announceFile", "announceUpdate", "announceDelete"}
        /\ to = "ack" => pc[r] = "announce"
        /\ event = "new" => pc[r] \in {"announce", "announceFile"}
        /\ UNCHANGED <<idVars, rows, edited, atts, objects, acked, read, readTold>>
  BY DEF AnnounceNew, AnnounceFile, AnnounceUpdate, AnnounceDelete, Announce, Goto,
         idVars, msgVars, fileVars, readVars
<1>2. target[r] \in Msg /\ Exists(target[r])
  BY <1>1 DEF TargetInv
<1>3. TargetInv'
  BY <1>1 DEF TargetInv
<1>4. FeedInv'
  BY <1>1, <1>2 DEF FeedInv, TargetInv
<1>5. UploadInv'
  BY <1>1 DEF UploadInv
<1>6. FileMessageComplete'
  <2> SUFFICES ASSUME NEW q \in objects, NEW m \in Msg,
                      target[q] = m, feed'[m] = "new", rows[m] = "live"
               PROVE  atts[m] # {}
    BY <1>1 DEF FileMessageComplete
  <2>1. CASE feed[m] = "new"
    BY <2>1 DEF FileMessageComplete
  <2>2. CASE feed[m] # "new"
    <3>1. target[r] = m /\ pc[r] \in {"announce", "announceFile"}
      BY <1>1, <1>2, <2>2
    <3>2. r = q
      BY <3>1, <1>2 DEF UploadInv, Msg
    <3> QED
      BY <3>1, <3>2 DEF UploadInv
  <2> QED
    BY <2>1, <2>2
<1>7. ReadInv'
  BY <1>1 DEF ReadInv
<1> QED
  BY <1>3, <1>4, <1>5, <1>6, <1>7

\* A new request, and the steps of requests under way that write nothing.
LEMMA StartInv ==
    ASSUME TypeOK, MessagesInv, NEW r \in Req, StartRequest(r)
    PROVE  MessagesInv'
<1> USE DEF TypeOK, MessagesInv, Exists, Creating, OnMessage
<1>1. PICK first \in {"send", "put", "update", "softDelete", "upsert"}, m \in Msg \cup {0} :
        /\ pc[r] = "idle"
        /\ pc' = [pc EXCEPT ![r] = first]
        /\ target' = [target EXCEPT ![r] = m]
        /\ IF first \in {"send", "put"} THEN m = 0 ELSE m \in Msg /\ rows[m] # "none"
        /\ UNCHANGED <<lastId, rows, edited, atts, objects, feed, acked, read, readTold>>
  BY DEF StartRequest, Start, Goto, idVars, msgVars, fileVars, readVars
<1>2. r \notin objects /\ r \notin acked
  BY <1>1 DEF UploadInv, FeedInv
<1>3. TargetInv'
  BY <1>1 DEF TargetInv
<1>4. FeedInv'
  BY <1>1, <1>2 DEF FeedInv
<1>5. UploadInv'
  BY <1>1, <1>2 DEF UploadInv
<1>6. FileMessageComplete' /\ ReadInv'
  BY <1>1, <1>2 DEF FileMessageComplete, ReadInv
<1> QED
  BY <1>3, <1>4, <1>5, <1>6

LEMMA QuietInv ==
    ASSUME TypeOK, MessagesInv, NEW r \in Req, Reload(r) \/ Fail(r) \/ SkipBroadcast(r)
    PROVE  MessagesInv'
<1>1. UNCHANGED <<idVars, rows, edited, atts, objects, feed, acked, read, readTold>>
  BY DEF Reload, Fail, SkipBroadcast, idVars, msgVars, fileVars, readVars
<1>2. r \in objects => pc[r] \in {"sendFile", "insertFile", "attach", "announceFile", "done", "failed"}
  BY DEF MessagesInv, UploadInv
<1>3. /\ \E to \in {"members", "announce", "done", "failed"} : pc' = [pc EXCEPT ![r] = to]
      /\ pc[r] # "done"
  BY DEF Reload, Fail, SkipBroadcast, Goto
<1>4. /\ pc'[r] \in {"members", "announce"} => pc[r] \in {"reload", "members"}
      /\ pc[r] \in {"reload", "members"} \/ pc'[r] \in {"done", "failed"}
  BY DEF Reload, Fail, SkipBroadcast, Goto, TypeOK
<1>5. r \in objects => pc'[r] \in {"done", "failed"}
  BY <1>2, <1>4
<1> QED
  BY <1>1, <1>3, <1>4, <1>5, MessagesFrame

LEMMA AckInv ==
    ASSUME TypeOK, MessagesInv, NEW r \in Req, Ack(r)
    PROVE  MessagesInv'
<1> USE DEF TypeOK, MessagesInv, Exists, Creating, OnMessage, Ack, Goto, idVars, msgVars, fileVars, readVars
<1>1. TargetInv'
  BY DEF TargetInv
<1>2. FeedInv'
  BY DEF FeedInv, TargetInv
<1>3. UploadInv'
  BY DEF UploadInv
<1>4. FileMessageComplete' /\ ReadInv'
  BY DEF FileMessageComplete, ReadInv
<1> QED
  BY <1>1, <1>2, <1>3, <1>4

\* The steps of an upload that store its object and its attachment.
LEMMA UploadStepInv ==
    ASSUME TypeOK, MessagesInv, NEW r \in Req, PutObject(r) \/ CreateAttachment(r)
    PROVE  MessagesInv'
<1> USE DEF TypeOK, MessagesInv, Exists, Creating, OnMessage, Goto, idVars, msgVars, readVars
<1>1. CASE PutObject(r)
  <2> USE <1>1 DEF PutObject
  <2>1. target[r] = 0
    BY DEF TargetInv
  <2>2. TargetInv' /\ FeedInv'
    BY DEF TargetInv, FeedInv
  <2>3. UploadInv'
    BY <2>1 DEF UploadInv
  <2>4. FileMessageComplete' /\ ReadInv'
    BY <2>1 DEF FileMessageComplete, ReadInv, Msg
  <2> QED
    BY <2>2, <2>3, <2>4
<1>2. CASE CreateAttachment(r)
  <2> USE <1>2 DEF CreateAttachment
  <2>1. r \in objects /\ target[r] \in Msg
    BY DEF UploadInv, TargetInv
  <2>2. TargetInv' /\ FeedInv'
    BY DEF TargetInv, FeedInv
  <2>3. UploadInv'
    BY <2>1 DEF UploadInv
  <2>4. FileMessageComplete' /\ ReadInv'
    BY <2>1 DEF FileMessageComplete, ReadInv
  <2> QED
    BY <2>2, <2>3, <2>4
<1> QED
  BY <1>1, <1>2

\* The statements of an edit and of a deletion.
LEMMA ChangeInv ==
    ASSUME TypeOK, MessagesInv, NEW r \in Req,
           UpdateContent(r) \/ SoftDelete(r) \/ DeleteAttachments(r)
    PROVE  MessagesInv'
<1> USE DEF TypeOK, MessagesInv, Exists, Creating, OnMessage, Goto, idVars, fileVars, readVars, msgVars
<1>1. target[r] \in Msg /\ r \notin objects
  BY DEF UpdateContent, SoftDelete, DeleteAttachments, TargetInv, UploadInv
<1>2. CASE UpdateContent(r)
  <2> USE <1>1, <1>2 DEF UpdateContent
  <2>1. TargetInv' /\ FeedInv'
    BY DEF TargetInv, FeedInv
  <2>2. UploadInv' /\ FileMessageComplete' /\ ReadInv'
    BY DEF UploadInv, FileMessageComplete, ReadInv
  <2> QED
    BY <2>1, <2>2
<1>3. CASE SoftDelete(r)
  <2> USE <1>1, <1>3 DEF SoftDelete
  <2>1. TargetInv' /\ FeedInv'
    BY DEF TargetInv, FeedInv
  <2>2. UploadInv' /\ FileMessageComplete' /\ ReadInv'
    BY DEF UploadInv, FileMessageComplete, ReadInv
  <2> QED
    BY <2>1, <2>2
<1>4. CASE DeleteAttachments(r)
  <2> USE <1>1, <1>4 DEF DeleteAttachments
  <2>1. rows[target[r]] = "deleted"
    BY DEF UploadInv
  <2>2. TargetInv' /\ FeedInv'
    BY DEF TargetInv, FeedInv
  <2>3. UploadInv'
    <3>1. \A m \in Msg : atts'[m] \subseteq objects'
      BY DEF UploadInv
    <3>2. \A q \in objects : pc'[q] = pc[q] /\ q # r
      OBVIOUS
    <3>3. ASSUME NEW q \in objects, pc'[q] = "announceFile", rows[target[q]] = "live"
          PROVE  atts'[target[q]] # {}
      BY <2>1, <3>2, <3>3 DEF UploadInv, TargetInv
    <3>4. /\ \A q \in Req : pc'[q] \in {"sendFile", "insertFile", "attach", "announceFile"} => q \in objects
          /\ \A q \in Req : pc'[q] \in {"deleteAtts", "announceDelete"} => rows[target[q]] = "deleted"
          /\ \A q \in Req : pc'[q] \in Creating => pc[q] \in Creating
      BY <2>1 DEF UploadInv
    <3> QED
      BY <3>1, <3>2, <3>3, <3>4 DEF UploadInv
  <2>4. FileMessageComplete'
    BY <2>1 DEF FileMessageComplete
  <2>5. ReadInv'
    BY DEF ReadInv
  <2> QED
    BY <2>2, <2>3, <2>4, <2>5
<1> QED
  BY <1>2, <1>3, <1>4

LEMMA ReadStepInv ==
    ASSUME TypeOK, MessagesInv, NEW r \in Req, Read(r)
    PROVE  MessagesInv'
<1> USE DEF TypeOK, MessagesInv, Exists, Creating, OnMessage, Goto, idVars, fileVars, msgVars
<1>1. CASE UpsertRead(r)
  <2> USE <1>1 DEF UpsertRead
  <2>1. TargetInv' /\ FeedInv'
    BY DEF TargetInv, FeedInv
  <2>2. UploadInv' /\ FileMessageComplete'
    BY DEF UploadInv, FileMessageComplete
  <2>3. ReadInv'
    BY MessagesAssumption DEF ReadInv
  <2> QED
    BY <2>1, <2>2, <2>3
<1>2. CASE AnnounceRead(r)
  <2> USE <1>2 DEF AnnounceRead
  <2>1. TargetInv' /\ FeedInv'
    BY DEF TargetInv, FeedInv
  <2>2. UploadInv' /\ FileMessageComplete' /\ ReadInv'
    BY DEF UploadInv, FileMessageComplete, ReadInv
  <2> QED
    BY <2>1, <2>2
<1> QED
  BY <1>1, <1>2 DEF Read

-----------------------------------------------------------------------------
\* The inductive invariant: where a request stands tells what it has stored, and
\* no two uploads or sends ever work on one message.
THEOREM MessagesInvariant == Spec => [](TypeOK /\ MessagesInv)
<1>1. TypeOK /\ MessagesInv /\ [Next]_vars => TypeOK' /\ MessagesInv'
  <2> SUFFICES ASSUME TypeOK, MessagesInv, [Next]_vars
               PROVE  TypeOK' /\ MessagesInv'
    OBVIOUS
  <2>1. TypeOK'
    BY MessagesTypeStep DEF MessagesInv
  <2>2. ASSUME NEW r \in Req, Send(r)
        PROVE  MessagesInv'
    BY <2>2, NextvalInv, InsertInv, QuietInv, AnnounceInv, AckInv DEF Send, CreateMessage
  <2>3. ASSUME NEW r \in Req, Upload(r)
        PROVE  MessagesInv'
    BY <2>3, NextvalInv, InsertInv, UploadStepInv, AnnounceInv DEF Upload, InsertFile
  <2>4. ASSUME NEW r \in Req, Change(r)
        PROVE  MessagesInv'
    BY <2>4, ChangeInv, AnnounceInv DEF Change
  <2>5. ASSUME NEW r \in Req, StartRequest(r) \/ Read(r) \/ Fail(r) \/ SkipBroadcast(r)
        PROVE  MessagesInv'
    BY <2>5, StartInv, ReadStepInv, QuietInv
  <2>6. CASE UNCHANGED vars
    <3> USE <2>6 DEF vars, MessagesInv, Exists, Creating, OnMessage
    <3>1. TargetInv' /\ FeedInv'
      BY DEF TargetInv, FeedInv
    <3>2. UploadInv'
      BY DEF UploadInv
    <3>3. FileMessageComplete' /\ ReadInv'
      BY DEF FileMessageComplete, ReadInv
    <3> QED
      BY <2>1, <3>1, <3>2, <3>3
  <2> QED
    BY <2>1, <2>2, <2>3, <2>4, <2>5, <2>6 DEF Next
<1> QED
  BY <1>1, MessagesInit, PTL DEF Spec

\* Every variable keeps its type; ids stay within the sequence of messages.
THEOREM MessagesTypeCorrect == Spec => []TypeOK
BY MessagesInvariant, PTL

\* No attachment is ever listed without its object in the bucket.
THEOREM AttachmentsHaveObjects == Spec => []AttachmentHasObject
<1>1. MessagesInv => AttachmentHasObject
  BY DEF MessagesInv, UploadInv, AttachmentHasObject
<1> QED
  BY <1>1, MessagesInvariant, PTL

\* A file message that members were shown, and that is not deleted, has its file.
THEOREM FileMessagesComplete == Spec => []FileMessageComplete
<1>1. MessagesInv => FileMessageComplete
  BY DEF MessagesInv
<1> QED
  BY <1>1, MessagesInvariant, PTL

-----------------------------------------------------------------------------
(* The requests implement ChatLog *)

\* The messages answered for, as ChatLog sees them.
Answered == {target[r] : r \in acked}

\* What ChatLog sees of an acknowledged request does not change any more, since
\* the request is over; so only Nextval and Start, of other requests, set target.
LEMMA AnsweredFrame ==
    ASSUME TypeOK, MessagesInv, NEW r \in Req, pc[r] # "done",
           \A q \in Req \ {r} : target'[q] = target[q], UNCHANGED acked
    PROVE  Answered' = Answered
<1>1. \A q \in acked : q # r /\ q \in Req
  BY DEF MessagesInv, FeedInv, TypeOK
<1> QED
  BY <1>1 DEF Answered

\* A step that leaves the log, the events and the read position alone.
LEMMA StutterSim ==
    ASSUME TypeOK, MessagesInv, NEW r \in Req, pc[r] # "done",
           \A q \in Req \ {r} : target'[q] = target[q],
           UNCHANGED <<rows, edited, feed, acked, read, readTold>>
    PROVE  [Feed!LNext]_Feed!logVars
<1>1. Answered' = Answered
  BY AnsweredFrame
<1> QED
  BY <1>1 DEF Feed!logVars, Answered

LEMMA NextvalSim ==
    ASSUME TypeOK, MessagesInv, NEW r \in Req,
           Nextval(r, "send", "insert") \/ Nextval(r, "sendFile", "insertFile")
    PROVE  [Feed!LNext]_Feed!logVars
<1>1. /\ pc[r] # "done"
      /\ \A q \in Req \ {r} : target'[q] = target[q]
      /\ UNCHANGED <<rows, edited, feed, acked, read, readTold>>
  BY DEF Nextval, Goto, TypeOK, msgVars, fileVars, readVars
<1> QED
  BY <1>1, StutterSim

LEMMA InsertSim ==
    ASSUME TypeOK, MessagesInv, NEW r \in Req, NEW from \in {"insert", "insertFile"}, NEW to,
           NEW hasContent \in BOOLEAN, Insert(r, from, to, hasContent)
    PROVE  [Feed!LNext]_Feed!logVars
<1> USE DEF TypeOK, MessagesInv, idVars, fileVars, readVars
<1>1. /\ rows' = [rows EXCEPT ![target[r]] = "live"]
      /\ pc[r] = from
      /\ UNCHANGED <<target, edited, feed, acked, read, readTold>>
  BY DEF Insert, Goto
<1>2. target[r] \in 1 .. MaxMsg /\ target[r] \notin Feed!Stored
  BY <1>1 DEF TargetInv, Exists, Msg, Feed!Stored
<1>3. Answered' = Answered
  BY <1>1 DEF Answered
<1>4. Feed!Append(target[r])
  BY <1>1, <1>2, <1>3 DEF Feed!Append, Answered
<1> QED
  BY <1>2, <1>4 DEF Feed!LNext

\* What an event says has been done by the time it is sent.
LEMMA AnnounceSim ==
    ASSUME TypeOK, MessagesInv, NEW r \in Req,
           AnnounceNew(r) \/ AnnounceFile(r) \/ AnnounceUpdate(r) \/ AnnounceDelete(r)
    PROVE  [Feed!LNext]_Feed!logVars
<1> USE DEF TypeOK, MessagesInv, idVars, msgVars, fileVars, readVars
<1>1. PICK event \in {"new", "updated", "deleted"} :
        /\ feed' = [feed EXCEPT ![target[r]] = event]
        /\ pc[r] \in {"announce", "announceFile", "announceUpdate", "announceDelete"}
        /\ event = "updated" => pc[r] = "announceUpdate"
        /\ event = "deleted" => pc[r] = "announceDelete"
        /\ UNCHANGED <<target, rows, edited, acked, read, readTold>>
  BY DEF AnnounceNew, AnnounceFile, AnnounceUpdate, AnnounceDelete, Announce, Goto
<1>2. target[r] \in 1 .. MaxMsg /\ target[r] \in Feed!Stored
  BY <1>1 DEF TargetInv, OnMessage, Exists, Msg, Feed!Stored
<1>3. Feed!Says(target[r], event)
  BY <1>1, <1>2 DEF Feed!Says, FeedInv, UploadInv
<1>4. Answered' = Answered
  BY <1>1 DEF Answered
<1>5. Feed!Tell(target[r])
  BY <1>1, <1>3, <1>4 DEF Feed!Tell, Answered
<1> QED
  BY <1>2, <1>5 DEF Feed!LNext

LEMMA AckSim ==
    ASSUME TypeOK, MessagesInv, NEW r \in Req, Ack(r)
    PROVE  [Feed!LNext]_Feed!logVars
<1> USE DEF TypeOK, MessagesInv, idVars, msgVars, fileVars, readVars
<1>1. /\ acked' = acked \cup {r}
      /\ pc[r] = "ack"
      /\ UNCHANGED <<target, rows, edited, feed, read, readTold>>
  BY DEF Ack, Goto
<1>2. target[r] \in Msg /\ feed[target[r]] # "none"
  BY <1>1 DEF TargetInv, OnMessage, FeedInv
<1>3. PICK m \in 1 .. MaxMsg : m = target[r] /\ m \in Feed!Heard
  BY <1>2 DEF Msg, Feed!Heard
<1>4. Answered' = Answered \cup {m}
  BY <1>1, <1>3 DEF Answered
<1>5. Feed!Answer(m)
  BY <1>1, <1>3, <1>4 DEF Feed!Answer, Answered
<1> QED
  BY <1>5 DEF Feed!LNext

LEMMA SoftDeleteSim ==
    ASSUME TypeOK, MessagesInv, NEW r \in Req, SoftDelete(r)
    PROVE  [Feed!LNext]_Feed!logVars
<1> USE DEF TypeOK, MessagesInv, idVars, fileVars, readVars
<1>1. /\ rows' = [rows EXCEPT ![target[r]] = "deleted"]
      /\ pc[r] = "softDelete"
      /\ UNCHANGED <<target, edited, acked, feed, read, readTold>>
  BY DEF SoftDelete, Goto
<1>2. target[r] \in 1 .. MaxMsg /\ target[r] \in Feed!Stored
  BY <1>1 DEF TargetInv, OnMessage, Exists, Msg, Feed!Stored
<1>3. Answered' = Answered
  BY <1>1 DEF Answered
<1>4. Feed!Strike(target[r])
  BY <1>1, <1>2, <1>3 DEF Feed!Strike, Answered
<1> QED
  BY <1>2, <1>4 DEF Feed!LNext

LEMMA EditSim ==
    ASSUME TypeOK, MessagesInv, NEW r \in Req, UpdateContent(r)
    PROVE  [Feed!LNext]_Feed!logVars
<1> USE DEF TypeOK, MessagesInv, idVars, fileVars, readVars
<1>1. /\ edited' = edited \cup {target[r]}
      /\ pc[r] = "update"
      /\ UNCHANGED <<target, rows, acked, feed, read, readTold>>
  BY DEF UpdateContent, Goto
<1>2. target[r] \in 1 .. MaxMsg /\ target[r] \in Feed!Stored
  BY <1>1 DEF TargetInv, OnMessage, Exists, Msg, Feed!Stored
<1>3. Answered' = Answered
  BY <1>1 DEF Answered
<1>4. Feed!Edit(target[r])
  BY <1>1, <1>2, <1>3 DEF Feed!Edit, Answered
<1> QED
  BY <1>2, <1>4 DEF Feed!LNext

LEMMA ReadSim ==
    ASSUME TypeOK, MessagesInv, NEW r \in Req, Read(r)
    PROVE  [Feed!LNext]_Feed!logVars
<1> USE MessagesAssumption DEF TypeOK, MessagesInv, idVars, msgVars, fileVars
<1>1. UNCHANGED <<target, rows, edited, feed, acked>> /\ pc[r] \in {"upsert", "announceRead"}
  BY DEF Read, UpsertRead, AnnounceRead, Goto
<1>2. target[r] \in 1 .. MaxMsg /\ target[r] \in Feed!Stored
  BY <1>1 DEF TargetInv, OnMessage, Exists, Msg, Feed!Stored
<1>3. UNCHANGED <<rows, Answered>>
  BY <1>1 DEF Answered
<1>4. CASE UpsertRead(r) /\ target[r] > read
  <2>1. Feed!Advance(target[r])
    BY <1>2, <1>3, <1>4 DEF UpsertRead, Feed!Advance, Answered
  <2> QED
    BY <1>2, <2>1 DEF Feed!LNext
<1>5. CASE UpsertRead(r) /\ ~ (target[r] > read)
  BY <1>3, <1>5 DEF UpsertRead, Feed!logVars, Answered
<1>6. CASE AnnounceRead(r)
  <2>1. Feed!TellRead(target[r])
    BY <1>3, <1>6 DEF AnnounceRead, Goto, ReadInv, Feed!TellRead, Answered
  <2> QED
    BY <1>2, <2>1 DEF Feed!LNext
<1> QED
  BY <1>4, <1>5, <1>6 DEF Read

\* The members of a chat see a ChatLog, for any number of requests and messages.
THEOREM MessagesImplementChatLog == Spec => FeedImplemented
<1>1. Init => Feed!LInit
  BY DEF Init, Feed!LInit, Msg
<1>2. TypeOK /\ MessagesInv /\ [Next]_vars => [Feed!LNext]_Feed!logVars
  <2> SUFFICES ASSUME TypeOK, MessagesInv, [Next]_vars
               PROVE  [Feed!LNext]_Feed!logVars
    OBVIOUS
  <2> USE DEF idVars, msgVars, fileVars, readVars, Goto
  <2>1. ASSUME NEW r \in Req, StartRequest(r)
        PROVE  [Feed!LNext]_Feed!logVars
    <3>1. /\ pc[r] # "done"
          /\ \A q \in Req \ {r} : target'[q] = target[q]
          /\ UNCHANGED <<rows, edited, feed, acked, read, readTold>>
      BY <2>1 DEF StartRequest, Start, TypeOK
    <3> QED
      BY <3>1, StutterSim
  <2>2. ASSUME NEW r \in Req, Send(r)
        PROVE  [Feed!LNext]_Feed!logVars
    <3>1. CASE Reload(r)
      BY <3>1, StutterSim DEF Reload
    <3> QED
      BY <2>2, <3>1, NextvalSim, InsertSim, AnnounceSim, AckSim DEF Send, CreateMessage
  <2>3. ASSUME NEW r \in Req, Upload(r)
        PROVE  [Feed!LNext]_Feed!logVars
    <3>1. CASE PutObject(r) \/ CreateAttachment(r)
      BY <3>1, StutterSim DEF PutObject, CreateAttachment
    <3> QED
      BY <2>3, <3>1, NextvalSim, InsertSim, AnnounceSim DEF Upload, InsertFile
  <2>4. ASSUME NEW r \in Req, Change(r)
        PROVE  [Feed!LNext]_Feed!logVars
    <3>1. CASE DeleteAttachments(r)
      BY <3>1, StutterSim DEF DeleteAttachments
    <3> QED
      BY <2>4, <3>1, EditSim, SoftDeleteSim, AnnounceSim DEF Change
  <2>5. ASSUME NEW r \in Req, Fail(r) \/ SkipBroadcast(r)
        PROVE  [Feed!LNext]_Feed!logVars
    BY <2>5, StutterSim DEF Fail, SkipBroadcast
  <2>6. CASE UNCHANGED vars
    BY <2>6 DEF vars, Feed!logVars
  <2> QED
    BY <2>1, <2>2, <2>3, <2>4, <2>5, <2>6, ReadSim DEF Next
<1> QED
  BY <1>1, <1>2, MessagesInvariant, PTL DEF Spec, FeedImplemented, Feed!LSpec

\* What follows from the promise alone, for the rows, events and answers of the
\* requests: the last event about a message (hub.Send, SendJSON) is true of its row,
\* no sender is answered before the members heard, a deletion is for good (SoftDelete),
\* and a read position (UpsertMessageRead) only moves forward.
THEOREM MessagesKeepTheLog == Spec => []Feed!LogInv /\ Feed!OnlyForward
<1> USE MessagesAssumption DEF Feed!Stored, Feed!Heard
<1>1. Feed!LInit => Feed!LogInv
  BY DEF Feed!LInit, Feed!LogInv
<1>2. Feed!LogInv /\ [Feed!LNext]_Feed!logVars => Feed!LogInv'
  <2> SUFFICES ASSUME Feed!LogInv, [Feed!LNext]_Feed!logVars
               PROVE  Feed!LogInv'
    OBVIOUS
  <2> USE DEF Feed!LogInv
  <2>1. CASE UNCHANGED Feed!logVars
    BY <2>1 DEF Feed!logVars, Feed!Says
  <2>2. ASSUME NEW m \in 1 .. MaxMsg, Feed!Append(m) \/ Feed!Edit(m) \/ Feed!Strike(m)
        PROVE  Feed!LogInv'
    <3>1. Feed!Stored' = Feed!Stored \cup {m} /\ Feed!Heard' = Feed!Heard
      BY <2>2 DEF Feed!Append, Feed!Edit, Feed!Strike
    <3>2. \A k \in Feed!Heard : Feed!Says(k, feed[k])'
      BY <2>2 DEF Feed!Append, Feed!Edit, Feed!Strike, Feed!Says
    <3> QED
      BY <2>2, <3>1, <3>2 DEF Feed!Append, Feed!Edit, Feed!Strike
  <2>3. ASSUME NEW m \in 1 .. MaxMsg, Feed!Tell(m) \/ Feed!Answer(m)
        PROVE  Feed!LogInv'
    <3>1. \A k \in Feed!Heard' : Feed!Says(k, feed[k])'
      BY <2>3 DEF Feed!Tell, Feed!Answer, Feed!Says
    <3> QED
      BY <2>3, <3>1 DEF Feed!Tell, Feed!Answer
  <2>4. ASSUME NEW m \in 1 .. MaxMsg, Feed!Advance(m) \/ Feed!TellRead(m)
        PROVE  Feed!LogInv'
    <3>1. UNCHANGED <<rows, edited, feed, Answered>>
      BY <2>4 DEF Feed!Advance, Feed!TellRead, Answered
    <3>2. read \in Nat /\ readTold \in 0 .. read
      OBVIOUS
    <3>3. read' \in Feed!Stored' \cup {0} /\ readTold' \in 0 .. read'
      BY <2>4, <3>1, <3>2 DEF Feed!Advance, Feed!TellRead
    <3> QED
      BY <3>1, <3>3 DEF Answered, Feed!Says
  <2> QED
    BY <2>1, <2>2, <2>3, <2>4 DEF Feed!LNext
<1>3. Feed!LogInv /\ [Feed!LNext]_Feed!logVars => [Feed!Forward]_Feed!logVars
  <2> SUFFICES ASSUME Feed!LogInv, NEW m \in 1 .. MaxMsg,
                      \/ Feed!Append(m) \/ Feed!Edit(m) \/ Feed!Strike(m) \/ Feed!Tell(m)
                      \/ Feed!Answer(m) \/ Feed!Advance(m) \/ Feed!TellRead(m)
               PROVE  Feed!Forward
    BY DEF Feed!LNext
  <2>1. read \in Nat
    BY DEF Feed!LogInv
  <2>2. CASE Feed!Append(m) \/ Feed!Edit(m) \/ Feed!Strike(m)
    <3>1. UNCHANGED <<feed, Answered, read>>
      BY <2>2 DEF Feed!Append, Feed!Edit, Feed!Strike, Answered
    <3>2. \A k \in Feed!Stored : rows[k] = "deleted" => rows'[k] = "deleted"
      BY <2>2 DEF Feed!LogInv, Feed!Append, Feed!Edit, Feed!Strike
    <3> QED
      BY <2>1, <3>1, <3>2 DEF Feed!Forward, Answered
  <2>3. CASE Feed!Tell(m) \/ Feed!Answer(m)
    <3>1. Feed!Heard \subseteq Feed!Heard'
      BY <2>3 DEF Feed!LogInv, Feed!Tell, Feed!Answer
    <3> QED
      BY <2>1, <2>3, <3>1 DEF Feed!Forward, Feed!Tell, Feed!Answer
  <2>4. CASE Feed!Advance(m) \/ Feed!TellRead(m)
    BY <2>1, <2>4 DEF Feed!Forward, Feed!Advance, Feed!TellRead
  <2> QED
    BY <2>2, <2>3, <2>4
<1> QED
  BY <1>1, <1>2, <1>3, MessagesImplementChatLog, PTL
     DEF FeedImplemented, Feed!LSpec, Feed!OnlyForward
=============================================================================
