--------------------------- MODULE TimelineProofs ---------------------------
(* Proofs about Timeline: a reader that the hub knows and that has read to    *)
(* the end of the history has missed nothing but what was announced while it  *)
(* read and was not known yet; and no page repeats a message, for any number  *)
(* of messages and any page size.                                             *)
EXTENDS Timeline, FiniteSetTheorems, TLAPS

Stored == {"attach", "members", "announce", "done"}
Complete == {"members", "announce", "done"}

\* What a handler has behind it is in the tables.
TablesInv ==
    /\ \A s \in rows : pc[s] # "idle"
    /\ \A s \in Send : pc[s] \in Stored => s \in rows
    /\ \A s \in Send : pc[s] \in Complete /\ s \in File \ deleted => s \in atts

\* Only members read; the cursor, the page and what was listed are rows.
WalkInv ==
    /\ walk # "off" => joined
    /\ walk = "off" => before = {} /\ listed = {}
    /\ walk # "respond" => page = {}
    /\ before \subseteq rows /\ page \subseteq rows /\ listed \subseteq rows

\* The cursor divides what was listed from what a page may show.
CursorInv ==
    walk \in {"list", "respond"} =>
        /\ before = {} => listed = {}
        /\ \A c \in before : \A m \in listed : pos[c] <= pos[m]
        /\ \A c \in before : \A m \in page : pos[m] < pos[c]

\* A message that the rest of the walk will come to.
Ahead(s) ==
    /\ walk \in {"list", "respond"}
    /\ s \in rows
    /\ \A c \in before : pos[s] < pos[c]
    /\ walk = "respond" =>
         s \in page \/ (Cardinality(page) = Limit /\ \A m \in page : pos[s] < pos[m])

\* While a reader with a websocket walks, every announced message is in its hands
\* or ahead or in the gap, and one that is about to be announced is in its hands or
\* ahead or will be announced to it or, before the hub knows it, go to the gap.
ReaderInv ==
    conn # "off" /\ walk # "off" => \A s \in Send :
        /\ pc[s] = "done" => s \in gap \/ Has(s) \/ Ahead(s)
        /\ pc[s] = "announce" => s \in notify \/ Has(s) \/ Ahead(s)

IInv == TypeOK /\ TablesInv /\ WalkInv /\ CursorInv /\ ReaderInv /\ NoRepeats

-----------------------------------------------------------------------------
LEMMA InitIInv == Init => IInv
<1> SUFFICES ASSUME Init PROVE IInv
  OBVIOUS
<1>1. TypeOK
  <2>1. Cardinality({}) <= Limit
    BY TimelineAssumption, FS_EmptySet
  <2> QED
    BY <2>1 DEF Init, TypeOK
<1>2. TablesInv /\ WalkInv /\ CursorInv /\ ReaderInv /\ NoRepeats
  BY DEF Init, TablesInv, WalkInv, CursorInv, ReaderInv, NoRepeats, Stored, Complete
<1> QED
  BY <1>1, <1>2 DEF IInv

\* What a reader has, it keeps.
LEMMA HasStays ==
  ASSUME NEW s \in Send, Has(s), seen \subseteq seen', seenAtts \subseteq seenAtts', deleted \subseteq deleted'
  PROVE  Has(s)'
  BY DEF Has

\* A step of a sender, or a deletion, that leaves the reader alone.
LEMMA AheadStays ==
  ASSUME NEW s \in Send, Ahead(s), UNCHANGED walkVars, rows \subseteq rows',
         WalkInv, \A m \in rows : pos'[m] = pos[m]
  PROVE  Ahead(s)'
  BY DEF Ahead, walkVars, WalkInv

LEMMA StampStep ==
  ASSUME IInv, NEW r \in Send, Stamp(r)
  PROVE  IInv'
<1>0. TypeOK'
  BY DEF IInv, TypeOK, Stamp, Goto, tableVars, readerVars, connVars, walkVars
<1>1. /\ UNCHANGED <<tableVars, notify, readerVars>>
      /\ pc[r] = "idle" /\ pc' = [pc EXCEPT ![r] = "insert"]
      /\ \A m \in Send \ {r} : pc'[m] = pc[m] /\ pos'[m] = pos[m]
      /\ pc'[r] = "insert"
  BY DEF IInv, TypeOK, Stamp, Goto
<1>2. r \notin rows
  BY <1>1 DEF IInv, TablesInv
<1>3. \A m \in rows : pos'[m] = pos[m]
  BY <1>1, <1>2 DEF IInv, TypeOK
<1>4. TablesInv'
  BY <1>1 DEF IInv, TypeOK, TablesInv, Stored, Complete, tableVars
<1>5. WalkInv'
  BY <1>1 DEF IInv, WalkInv, tableVars, readerVars, connVars, walkVars
<1>6. CursorInv'
  BY <1>1, <1>3 DEF IInv, WalkInv, CursorInv, readerVars, connVars, walkVars
<1>7. ReaderInv'
  <2>1. \A s \in Send : (Has(s) => Has(s)') /\ (Ahead(s) => Ahead(s)')
    BY <1>1, <1>3, HasStays, AheadStays DEF IInv, tableVars, readerVars
  <2>2. \A s \in Send : pc'[s] \in {"done", "announce"} => pc[s] = pc'[s]
    BY <1>1
  <2> QED
    BY <1>1, <2>1, <2>2 DEF IInv, ReaderInv, readerVars, connVars, walkVars
<1>8. NoRepeats'
  BY <1>1 DEF IInv, NoRepeats, readerVars, connVars, walkVars
<1> QED
  BY <1>0, <1>4, <1>5, <1>6, <1>7, <1>8 DEF IInv

\* The steps of a sender between its stamp and its event.
LEMMA SenderStep ==
  ASSUME IInv, NEW r \in Send,
         CreateMessage(r) \/ CreateAttachment(r) \/ GetMemberIDs(r) \/ Fail(r)
  PROVE  IInv'
<1>0. TypeOK'
  <2>1. CASE CreateMessage(r)
    BY <2>1 DEF IInv, TypeOK, CreateMessage, Goto, readerVars, connVars, walkVars
  <2>2. CASE CreateAttachment(r)
    BY <2>2 DEF IInv, TypeOK, CreateAttachment, Goto, readerVars, connVars, walkVars
  <2>3. CASE GetMemberIDs(r)
    BY <2>3 DEF IInv, TypeOK, GetMemberIDs, Goto, tableVars, readerVars, connVars, walkVars
  <2>4. CASE Fail(r)
    BY <2>4 DEF IInv, TypeOK, Fail, tableVars, readerVars, connVars, walkVars
  <2> QED
    BY <2>1, <2>2, <2>3, <2>4
<1>1. UNCHANGED <<pos, readerVars, deleted>> /\ rows \subseteq rows'
  BY DEF CreateMessage, CreateAttachment, GetMemberIDs, Fail, Goto, tableVars
<1>2. TablesInv'
  <2>1. CASE CreateMessage(r)
    BY <2>1 DEF IInv, TypeOK, TablesInv, Stored, Complete, CreateMessage, Goto
  <2>2. CASE CreateAttachment(r)
    BY <2>2 DEF IInv, TypeOK, TablesInv, Stored, Complete, CreateAttachment, Goto
  <2>3. CASE GetMemberIDs(r)
    BY <2>3 DEF IInv, TypeOK, TablesInv, Stored, Complete, GetMemberIDs, Goto, tableVars
  <2>4. CASE Fail(r)
    BY <2>4 DEF IInv, TypeOK, TablesInv, Stored, Complete, Fail, tableVars
  <2> QED
    BY <2>1, <2>2, <2>3, <2>4
<1>3. WalkInv'
  BY <1>1 DEF IInv, WalkInv, readerVars, connVars, walkVars
<1>4. CursorInv'
  BY <1>1 DEF IInv, CursorInv, readerVars, connVars, walkVars
<1>5. ReaderInv'
  <2>1. \A s \in Send : (Has(s) => Has(s)') /\ (Ahead(s) => Ahead(s)')
    BY <1>1, HasStays, AheadStays DEF IInv, readerVars
  <2>2. \A s \in Send : s \in notify => s \in notify'
    BY DEF CreateMessage, CreateAttachment, GetMemberIDs, Fail
  <2>3. \A s \in Send : pc'[s] = "done" => pc[s] = "done"
    BY DEF IInv, TypeOK, CreateMessage, CreateAttachment, GetMemberIDs, Fail, Goto
  <2>4. \A s \in Send : pc'[s] = "announce" => pc[s] = "announce" \/ (joined => s \in notify')
    BY DEF IInv, TypeOK, CreateMessage, CreateAttachment, GetMemberIDs, Fail, Goto
  <2> QED
    BY <1>1, <2>1, <2>2, <2>3, <2>4 DEF IInv, ReaderInv, WalkInv, readerVars, connVars, walkVars
<1>6. NoRepeats'
  BY <1>1 DEF IInv, NoRepeats, readerVars, connVars, walkVars
<1> QED
  BY <1>0, <1>2, <1>3, <1>4, <1>5, <1>6 DEF IInv

\* The event reaches the reader if it is addressed and registered; if it is not
\* registered yet the message goes to the gap.
LEMMA AnnounceStep ==
  ASSUME IInv, NEW r \in Send, Announce(r)
  PROVE  IInv'
<1>0. TypeOK'
  BY DEF IInv, TypeOK, Announce, Goto, tableVars, walkVars
<1>1. /\ UNCHANGED <<pos, notify, tableVars, joined, conn, walkVars>>
      /\ seen \subseteq seen' /\ seenAtts \subseteq seenAtts' /\ gap \subseteq gap'
      /\ pc[r] = "announce" /\ \A s \in Send \ {r} : pc'[s] = pc[s]
      /\ pc'[r] = "done"
      /\ r \in notify /\ conn = "online" => r \in seen' /\ (r \in File => r \in seenAtts')
      /\ conn = "open" /\ walk # "off" => r \in gap'
  BY DEF IInv, TypeOK, Announce, Goto
<1>2. TablesInv'
  BY <1>1 DEF IInv, TablesInv, Stored, Complete, TypeOK, tableVars
<1>3. WalkInv' /\ CursorInv' /\ NoRepeats'
  BY <1>1 DEF IInv, WalkInv, CursorInv, NoRepeats, tableVars, walkVars
<1>4. ReaderInv'
  <2>1. \A s \in Send : (Has(s) => Has(s)') /\ (Ahead(s) => Ahead(s)')
    BY <1>1, HasStays, AheadStays DEF IInv, tableVars
  <2>2. r \in notify /\ conn = "online" => Has(r)'
    BY <1>1 DEF Has
  <2>3. conn \in {"off", "open", "online"}
    BY DEF IInv, TypeOK
  <2> QED
    BY <1>1, <2>1, <2>2, <2>3 DEF IInv, ReaderInv, walkVars
<1> QED
  BY <1>0, <1>2, <1>3, <1>4 DEF IInv

LEMMA SoftDeleteStep ==
  ASSUME IInv, NEW r \in Send, SoftDelete(r)
  PROVE  IInv'
<1>0. TypeOK'
  BY DEF IInv, TypeOK, SoftDelete, sendVars, readerVars, connVars, walkVars
<1>1. UNCHANGED <<rows, sendVars, readerVars>> /\ deleted' = deleted \cup {r}
      /\ atts \ {r} \subseteq atts'
  BY DEF SoftDelete
<1>2. TablesInv'
  BY <1>1 DEF IInv, TablesInv, Stored, Complete, sendVars, connVars
<1>3. WalkInv' /\ CursorInv' /\ NoRepeats'
  BY <1>1 DEF IInv, WalkInv, CursorInv, NoRepeats, sendVars, readerVars, connVars, walkVars
<1>4. ReaderInv'
  <2>1. \A s \in Send : (Has(s) => Has(s)') /\ (Ahead(s) => Ahead(s)')
    BY <1>1, HasStays, AheadStays DEF IInv, readerVars, sendVars
  <2> QED
    BY <1>1, <2>1 DEF IInv, ReaderInv, readerVars, connVars, walkVars, sendVars
<1> QED
  BY <1>0, <1>2, <1>3, <1>4 DEF IInv

-----------------------------------------------------------------------------
(* The reader's steps *)

\* Joining, connecting and disconnecting show the reader no page; a walk under way
\* ends with the handshake, so nothing is claimed of it when the reader is registered.
LEMMA ConnectionStep ==
  ASSUME IInv, Join \/ Accept \/ Register \/ Disconnect
  PROVE  IInv'
<1>1. CASE Join
  BY <1>1, Zenon DEF IInv, TypeOK, TablesInv, WalkInv, CursorInv, ReaderInv, NoRepeats, Has, Ahead,
     Join, sendVars, tableVars, connVars, walkVars
<1>2. CASE Accept
  <2>1. TypeOK'
    BY <1>2, TimelineAssumption, FS_EmptySet DEF IInv, TypeOK, Accept, sendVars, tableVars, connVars
  <2> QED
    BY <1>2, <2>1 DEF IInv, TablesInv, WalkInv, CursorInv, ReaderInv, NoRepeats,
       Accept, sendVars, tableVars, connVars
<1>3. CASE Register \/ Disconnect
  BY <1>3 DEF IInv, TypeOK, TablesInv, WalkInv, CursorInv, ReaderInv, NoRepeats, Has, Ahead,
     Register, Disconnect, sendVars, tableVars, walkVars
<1> QED
  BY <1>1, <1>2, <1>3

\* Everything announced is stored, so it is ahead of a walk that begins.
LEMMA StartWalkStep ==
  ASSUME IInv, StartWalk
  PROVE  IInv'
<1>1. TypeOK' /\ TablesInv' /\ WalkInv' /\ CursorInv' /\ NoRepeats'
  BY DEF IInv, TypeOK, TablesInv, WalkInv, CursorInv, NoRepeats, StartWalk, sendVars, tableVars, connVars
<1>2. ReaderInv'
  <2>1. \A s \in rows : Ahead(s)'
    BY DEF IInv, WalkInv, Ahead, StartWalk, sendVars, tableVars, connVars
  <2> QED
    BY <2>1 DEF IInv, TablesInv, Stored, ReaderInv, StartWalk, sendVars, tableVars, connVars
<1> QED
  BY <1>1, <1>2 DEF IInv

\* A page is the nearest part of what is ahead.
LEMMA ListMessagesStep ==
  ASSUME IInv, ListMessages
  PROVE  IInv'
<1>1. PICK p \in SUBSET Older : IsPage(p) /\ page' = p
  BY DEF ListMessages
<1>2. /\ walk = "list" /\ walk' = "respond"
      /\ UNCHANGED <<sendVars, tableVars, joined, connVars, before, listed, seen, seenAtts>>
  BY DEF ListMessages
<1>3. Older = {m \in rows : \A c \in before : pos[m] < pos[c]}
  BY DEF Older, IInv, WalkInv
<1>4. TypeOK'
  <2>1. p \subseteq Send
    BY <1>3 DEF IInv, TypeOK
  <2>2. Cardinality(p) \in Nat
    BY <2>1, TimelineAssumption, FS_Subset, FS_CardinalityType
  <2>3. Cardinality(p) <= Limit
    BY <1>1, <2>2, TimelineAssumption DEF IsPage
  <2> QED
    BY <1>1, <1>2, <2>1, <2>3 DEF IInv, TypeOK, sendVars, tableVars, connVars
<1>5. TablesInv' /\ WalkInv'
  BY <1>1, <1>2, <1>3 DEF IInv, TablesInv, WalkInv, sendVars, tableVars, connVars
<1>6. CursorInv'
  BY <1>1, <1>2, <1>3 DEF IInv, CursorInv, sendVars
<1>7. ReaderInv'
  <2>1. \A s \in Send : Ahead(s) => Ahead(s)'
    <3> SUFFICES ASSUME NEW s \in Send, Ahead(s) PROVE Ahead(s)'
      OBVIOUS
    <3>1. s \in Older
      BY <1>3 DEF Ahead
    <3>2. s \in p \/ (Cardinality(p) = Limit /\ \A m \in p : pos[s] < pos[m])
      BY <1>1, <3>1 DEF IsPage
    <3> QED
      BY <1>1, <1>2, <3>2 DEF Ahead, sendVars, tableVars, connVars
  <2>2. \A s \in Send : Has(s) => Has(s)'
    BY <1>2, HasStays DEF tableVars
  <2> QED
    BY <1>2, <2>1, <2>2 DEF IInv, ReaderInv, sendVars, connVars
<1>8. NoRepeats'
  <2>1. ASSUME NEW m \in p, m \in listed PROVE FALSE
    <3>1. PICK c \in before : TRUE
      BY <1>2, <2>1 DEF IInv, CursorInv
    <3>2. pos[m] < pos[c] /\ pos[c] <= pos[m]
      BY <1>1, <1>2, <1>3, <2>1, <3>1 DEF IInv, CursorInv
    <3> QED
      BY <3>1, <3>2, <2>1, <1>1, <1>3 DEF IInv, TypeOK
  <2> QED
    BY <1>1, <1>2, <2>1 DEF NoRepeats
<1> QED
  BY <1>4, <1>5, <1>6, <1>7, <1>8 DEF IInv

\* What was ahead is on the page or, if there is another page, behind its end.
LEMMA RespondStep ==
  ASSUME IInv, Respond
  PROVE  IInv'
<1>1. /\ walk = "respond"
      /\ seen' = seen \cup page
      /\ seenAtts' = seenAtts \cup (page \cap atts)
      /\ listed' = listed \cup page
      /\ page' = {}
      /\ UNCHANGED <<sendVars, tableVars, joined, connVars>>
  BY DEF Respond
<1>2. \/ Cardinality(page) # Limit /\ walk' = "complete" /\ before' = before
      \/ /\ walk' = "list"
         /\ \E c \in page : (\A m \in page : pos[c] <= pos[m]) /\ before' = {c}
  <2>1. Cardinality(page) \in Nat
    BY TimelineAssumption, FS_Subset, FS_CardinalityType DEF IInv, TypeOK
  <2> QED
    BY <2>1, TimelineAssumption DEF Respond
<1>3. TypeOK'
  BY <1>1, <1>2, TimelineAssumption, FS_EmptySet DEF IInv, TypeOK, sendVars, tableVars, connVars
<1>4. TablesInv' /\ WalkInv' /\ NoRepeats'
  BY <1>1, <1>2 DEF IInv, TablesInv, WalkInv, NoRepeats, sendVars, tableVars, connVars
<1>5. CursorInv'
  <2>1. CASE walk' = "complete" /\ before' = before
    BY <2>1 DEF CursorInv
  <2>2. CASE \E c \in page : (\A m \in page : pos[c] <= pos[m]) /\ before' = {c}
    <3>1. PICK c \in page : (\A m \in page : pos[c] <= pos[m]) /\ before' = {c}
      BY <2>2
    <3>2. \A m \in listed : pos[c] <= pos[m]
      BY <1>1, <3>1 DEF IInv, TypeOK, CursorInv
    <3> QED
      BY <1>1, <3>1, <3>2 DEF CursorInv, sendVars
  <2> QED
    BY <1>2, <2>1, <2>2
<1>6. ReaderInv'
  <2>1. \A s \in Send : Has(s) => Has(s)'
    BY <1>1, HasStays DEF tableVars
  <2>2. ASSUME NEW s \in Send, pc[s] \in Complete, Ahead(s) PROVE Has(s)' \/ Ahead(s)'
    <3>1. CASE s \in page
      BY <1>1, <2>2, <3>1 DEF IInv, TablesInv, Has, tableVars
    <3>2. CASE Cardinality(page) = Limit /\ \A m \in page : pos[s] < pos[m]
      BY <1>1, <1>2, <2>2, <3>2 DEF Ahead, sendVars, tableVars, connVars
    <3> QED
      BY <1>1, <2>2, <3>1, <3>2 DEF Ahead
  <2> QED
    BY <1>1, <2>1, <2>2 DEF IInv, ReaderInv, Complete, sendVars, connVars
<1> QED
  BY <1>3, <1>4, <1>5, <1>6 DEF IInv

LEMMA ListFailsStep ==
  ASSUME IInv, ListFails
  PROVE  IInv'
<1>1. TypeOK'
  BY TimelineAssumption, FS_EmptySet DEF IInv, TypeOK, ListFails, sendVars, tableVars, connVars
<1>2. TablesInv' /\ WalkInv' /\ CursorInv' /\ NoRepeats'
  BY DEF IInv, TablesInv, WalkInv, CursorInv, NoRepeats, ListFails, sendVars, tableVars, connVars
<1>3. ReaderInv'
  <2>1. \A s \in Send : (Has(s) => Has(s)') /\ (Ahead(s) => Ahead(s)')
    BY DEF Has, Ahead, ListFails, sendVars, tableVars, connVars
  <2> QED
    BY <2>1 DEF IInv, ReaderInv, ListFails, sendVars, connVars
<1> QED
  BY <1>1, <1>2, <1>3 DEF IInv

-----------------------------------------------------------------------------
LEMMA NextIInv == IInv /\ [Next]_vars => IInv'
<1> SUFFICES ASSUME IInv, [Next]_vars PROVE IInv'
  OBVIOUS
<1>1. CASE \E s \in Send : Deliver(s)
  BY <1>1, StampStep, SenderStep, AnnounceStep, SoftDeleteStep DEF Deliver
<1>2. CASE Read
  BY <1>2, ConnectionStep, StartWalkStep, ListMessagesStep, RespondStep, ListFailsStep DEF Read
<1>3. CASE UNCHANGED vars
  BY <1>3 DEF vars, IInv, TypeOK, TablesInv, WalkInv, CursorInv, ReaderInv, NoRepeats, Has, Ahead,
     connVars, walkVars
<1> QED
  BY <1>1, <1>2, <1>3 DEF Next

\* The inductive invariant: what is not in the reader's hands is ahead of its
\* cursor (ListMessages, handleMessageSend, broadcastUpload).
THEOREM TimelineInvariant == Spec => []IInv
<1> QED
  BY InitIInv, NextIInv, PTL DEF Spec

\* Every variable of the timeline keeps its type; no page is longer than the
\* limit ListMessages was given.
THEOREM TimelineTypeCorrect == Spec => []TypeOK
<1>1. IInv => TypeOK
  BY DEF IInv
<1> QED
  BY <1>1, TimelineInvariant, PTL

\* A registered reader that came to the end of ListMessages' pages has every announced
\* message, except those announced after its first page was asked for and before
\* Hub.Run put it into the map, for any number of messages and any page size.
THEOREM ReaderMissesNothing == Spec => []NothingMissed
<1>1. IInv => NothingMissed
  BY DEF IInv, ReaderInv, NothingMissed, Ahead
<1> QED
  BY <1>1, TimelineInvariant, PTL

\* ListMessages never returns a message twice in one walk.
THEOREM PagesNeverRepeat == Spec => []NoRepeats
<1>1. IInv => NoRepeats
  BY DEF IInv
<1> QED
  BY <1>1, TimelineInvariant, PTL
=============================================================================
