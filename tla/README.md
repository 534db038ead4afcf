# Apten chat server: specifications, model checking and proofs

This directory specifies the concurrent and failure-prone parts of the chat
server in TLA+: what the goroutines, SQL statements, object-store calls and
Redis messages of one operation do, step by step, and what must hold however
they interleave and wherever they fail. TLC checks every property on small
instances; TLAPS proves the safety properties that hold for all values of the
constants.

Paths below are relative to the repository's root, which `PROJECT.json` calls
`src/`.

## 1. Inventory

| part | state | operations | talks to |
|---|---|---|---|
| hub (`internal/ws/hub.go`) | `clients` map under an `RWMutex`; `Register`, `Unregister` channels | `Run`, `Send`, `SendLocal`, `BroadcastAll(Local)`, `IsOnline` | client channels, broker, `OnDisconnect` callback (database) |
| client (`internal/ws/client.go`) | buffered `Send` channel, context, two rate limiters | `ReadPump`, `WritePump`, `TrySend`, `Disconnect` | hub, websocket |
| websocket handler (`internal/ws/handler.go`) | `typingTimers` map under a mutex | `ServeHTTP`, `message.send`, `typing.*`, `message.read` | chat and message services, hub |
| broker (`internal/ws/broker.go`) | subscription | `Publish`, `PublishBroadcast`, `Run`, `handleMessage` | Redis Pub/Sub, the other replicas |
| accounts (`internal/user`) | `users`, `refresh_tokens` | `Register`, `Login`, `RefreshToken` | database, invites |
| invites (`internal/invite`) | `invites` | `Create`, `Delete`, `List`, `Bootstrap` | database |
| auth (`internal/auth`) | none | JWT, bcrypt, middleware | - |
| chats (`internal/chat`) | `chats`, `chat_members` | `Create`, `AddMember`, `RemoveMember`, `Update`, `EnsureMember` | database |
| messages (`internal/message`) | `messages`, `message_reads` | `Send`, list, `EditMessage`, `DeleteMessage` | database, hub |
| files (`internal/files`) | `attachments`, bucket | `Upload`, `Download`, `Thumbnail` | S3, database, hub |
| push (`internal/push`) | `push_subscriptions` | `Subscribe`, `Unsubscribe`, `SendNotification` (never called) | database, push services |
| server (`cmd/server/main.go`) | - | bootstrap invite, wiring, shutdown | all |

What is hard about them, and what correctness means:

* **Hub and pumps.** One hub goroutine, two pumps per connection and any number
  of senders share the map, the lock and the channels. `close(client.Send)` must
  never meet a send; presence must be announced exactly when a user's first
  connection comes and the last one goes; a slow or dead client must leave.
* **Typing.** A timer's callback, and events of several devices, touch one map
  entry in separate critical sections with a query in between. The indicator
  must not stay on.
* **Accounts.** A check outside a transaction, two statements inside it, and
  row locks: no lost administrator, no account without its invite, no deadlock.
* **Messages and files.** No operation is a transaction: every statement, store
  call and broadcast can be the last one. Members must only hear of what is
  stored; a deletion must stay a deletion.
* **Replicas.** At-most-once, unordered between senders, lossy; every replica
  hears itself. "Last connection" is a local notion and presence a global one.
* **Chats.** Check-then-act on membership and on the existence of a direct chat; a
  creation of several statements; a foreign key that ties read positions to members.
* **Timeline.** A client that pages backwards through a chat while messages are
  stamped, committed, announced and deleted must miss nothing and see nothing twice.

`PROJECT.json` lists every such hazard at its line, with the properties that
would catch it and a note where none does yet.

## 2. Modules

    Presence   <-- implemented by -- Hub      <-- HubProofs, MCHub
               <-- each hub of    -- Replicas <-- ReplicasProofs, MCReplicas
    ChatLog    <-- implemented by -- Messages <-- MessagesProofs, MCMessages
    Registry   <-- implemented by -- Accounts <-- AccountsProofs, MCAccounts
    Membership <-- implemented by -- Chats    <-- ChatsProofs, MCChats
                                     Typing   <-- TypingProofs, MCTyping
                                     Timeline <-- TimelineProofs, MCTimeline

**`Presence`** is the abstract promise of a hub: connections join and leave one
at a time, and every change of a user between "no connection" and "some" is
announced before the next connection joins or leaves.

**`Hub`** models `hub.go` and `client.go` at the granularity of channel
operations and lock sections. `hubPc` is the position of `Hub.Run`; the receive,
the call of `Lock` and the locked section are separate steps (`RegisterRecv`,
`HubLock`, `Register`), because a sender may take the read lock before the call
and not after it (Go's `RWMutex` prefers a waiting writer). `SendBegin`,
`SendOffer`, `SendEnd` are `SendLocal` of any goroutine: the pumps, which handle
events, and `Task` for REST handlers, typing timers and the broker. `Offer` is the
`select` on a client's channel. `reader[c]` and `writer[c]` follow the two pumps
through their deferred functions. Channels hold a number of events; what a
presence event says is recorded in `view` when it is enqueued. `NobodyLeftBehind` says how
the parts of a connection notice each other's end: whoever drops an event cancels the
context, a pump on its way out closes the websocket, and so nothing that has lost a
part waits for ever, which is what `ReadFails`, `WriteFails` and `PingFails` start from.

**`Typing`** models `handleTyping` for one (user, chat) key. `Receive` and `Arm` are
its two critical sections, `QueryMembers`/`QueryFails` the query between them;
`Fire`, `FireBroadcast`, `FireClear` a callback. `shown` is what the others see.

**`Accounts`** models `Register`, `Login`, `RefreshToken`, the invites and the
bootstrap of `main`, one SQL statement per step, under READ COMMITTED: rows are
visible at commit, the unique index on the name and the row lock on the invite
make a statement wait for the transaction that is in the way (`nameLock`,
`inviteLock`). `Abort` is any failing statement, cancelled request or dying process.

**`Registry`** is the abstract promise of the accounts: an account appears in one step with
a name of its own, its role and its invite spent; an invite is issued, may expire and is
withdrawn; a session has one account for ever, and a renewal is opened only after the
session it replaces is closed. `RegistryImplemented` says that `Accounts` implements it:
members are the rows of `users`, `Commit` is `Enrol`, the other statements of a
registration are stutters; a session is a refresh token, named by the request that stored
it, with `Holder` its account and `given` the token a refresh was asked with;
`DeleteToken` is `Close` and `GenerateTokens` is `Open`. Two refreshes with one token may
both succeed, and one that fails after the `DELETE` ends the session: the code does so and
`Registry` allows it.

**`Messages`** models the life of the messages of one chat through `message.send`,
upload, edit, delete and `message.read`: every statement, object-store call and
broadcast is a step of its own and may be the last. An `INSERT` is two steps: `Nextval`
takes an id from the sequence, which serves all chats and gives nothing back, and
`Insert` is the commit that shows the row; in between it may fail, and others may
overtake it. So ids have gaps, and rows appear and are announced in any order. `feed`
is what a member who is always connected was told last about each message; `edited`
is history, the messages that an edit has written to.

**`ChatLog`** is the abstract promise of a chat: a log of messages, in which a message
may be edited and struck out and never comes back; events that say only what has
happened (`Says`: "new" of a stored message, "updated" of an edited one, "deleted" of
one that is struck out); an answer to a sender only after an event; a read position
that never moves back and is never overstated to the others. It promises nothing about
the order or completeness of ids, nor that events come in the order of what they
report: an edit may be announced after the deletion of its message, and the read
position that members hear may fall behind the stored one. `FeedImplemented` says that
`Messages` implements it: `log` is `rows`, `told` is `feed`, and the statements of the
requests are `Append`, `Edit`, `Strike`, `Tell`, `Answer`, `Advance`, `TellRead` or
stutters.

**`Chats`** models `POST /chats` and the changes of a chat and its members, one
statement per step. A chat is named by the request that creates it; `role` is
`chat_members`, `Visible` the committed chats, and `Fail` rolls an open transaction
back. `EnsureMember` reads before the statement that follows, as in the handlers.
`left` and `saw` are history: who was removed, and which chats `FindDirectChat`
looked through.

**`Membership`** is the abstract promise of the chats: a chat opens in one step with its kind
and exactly the members asked for, its creator as administrator; others enter as plain
members; nobody leaves who has a read position, and only members get one.
`MembershipImplemented` says that `Chats` implements it: `Rank` is `chat_members` of the
committed chats, `Commit` is `Open`, a statement of an open transaction is a stutter.

**`Timeline`** is one chat as one reading member sees it. A message is stamped when its
`INSERT` begins (`Stamp`: `now()` and the sequence) and shows when it commits
(`CreateMessage`), so rows may appear behind a page that was read; `GetMemberIDs`
decides who will hear of it and `Announce` tells those the hub knows. The reader lists
the latest page and goes back by the last message of each full page (`Older`,
`IsPage`); the rows and their attachments are two queries (`ListMessages`,
`Respond`). Its connection comes up in two steps, as in `ServeHTTP`: `Accept` answers
the handshake, and `Register` is the moment at which `Hub.Run` has it in its map, later
by as long as the hub is busy. `Disconnect` is its way out of the hub: `Hub` shows that
a client that lost an event is made to leave. The client is not in the repository, so
what it does is an assumption, the least one under which the question makes sense: it
pages until a page is not full, repeats a request that failed, and starts again when
a websocket of its is accepted. It may list before, during and after the registration,
which it cannot see. What is announced between the beginning of its walk and the
registration goes to `gap`, and `NothingMissed` excepts exactly that: a client that
lists in the window can miss a message for good (without the exception TLC finds it
in eleven states), one that begins later cannot.

**`Replicas`** composes several hubs with `broker.go` and Redis. A hub appears as in
`Presence`, which `Hub` is proved to implement: `Connect`, `Disconnect` and
`BroadcastAll` are its `Join`, `Leave` and `Announce`. `Publish` appends to the
subscriptions of any subset of the replicas, so an event may be lost for some or
all; `HandleMessage` takes the next message of a subscription; `Restart` is a
server that stops and starts. `HubsArePresence` makes the first sentence precise: between
restarts, whatever the other replicas do, each replica's part of the state (`HubOf(p)`)
moves by steps of `Presence` or not at all. So what `Hub` is proved to do is what `Replicas`
builds on.

Each `MC...` module only names model values for TLC. Definitions called
`<Name>_<Fault>` next to a definition are mutants: the definition with a plausible
bug. `PROJECT.json` pairs each property with a mutant that must violate it; they
occur in no specification.

## 3. Runs

| run | instance | question |
|---|---|---|
| `hub_devices` | 3 connections of 2 users, 2 at a time, 1 task, buffers of 1 | no panic; `Hub` implements `Presence`; an announcement reaches everyone who lost nothing; no connection is left behind half closed |
| `hub_live` | 1 connection, 2 tasks, buffers of 2, fairness | do announcements finish, slow and dead clients leave, pumps return? |
| `typing_expiry` | 2 devices, 4 timers, 4 events, 0-2 members, fairness | is the indicator always covered, and does it go out? |
| `typing_failed_query` | the same, 1-2 members | *violated*: auto-expiry when a query fails |
| `accounts_safety` | 3 requests, 2 invites, 2 names, 1 replica | administrators, invites, locks; `Accounts` implements `Registry` |
| `accounts_invite` | the same | *violated*: one account per invite |
| `messages_life` | 4 requests, 3 ids | `Messages` implements `ChatLog`; attachments and file messages |
| `messages_deleted` | the same | *violated*: deleted messages have no attachments |
| `chats_membership` | 2 users, 3 requests | chats whole or not at all, direct chats not doubled; `Chats` implements `Membership` |
| `timeline_reader` | 3 messages, 1 of them a file, pages of 2 | nothing missed outside the gap, nothing twice |
| `replicas_delivery` | 2 replicas, 2 users, 3 events | at most once, in order, complete unless lost; each replica's hub is a `Presence` |
| `replicas_presence` | 2 replicas, 2 devices of 1 user, 3 events | *violated*: presence reflects all instances |

Why the bounds are enough to be interesting:

* *Hub*: one slot makes every buffer full at once and empty at once. Of three
  connections two are accepted in a behaviour (`AtMostTwo`), so that each pair occurs:
  two devices of one user exercise "first" and "last", and one device of each of two
  users an announcement that has to reach somebody else. One outside sender next to
  the two pumps of the devices gives three readers against the writer; next to the
  second user only the pumps send (`PumpsOnly`), and only that user's peer vanishes
  without a word (`OneVanishes`). The proofs lift the safety part to any number and
  need none of these bounds. `hub_live` uses one connection and two senders because
  liveness concerns one connection's way out against all others; `SendCap = 2`
  separates "full" from "not empty".
* *Typing*: four events on two devices allow start-start-stop-start overlaps, a
  timer for each, and a callback between any two of them. `MemberCounts` has 0
  in the passing run for the negative capacity of `make`; the process dies there,
  so liveness is asked of the runs in which it does not.
* *Accounts*: three requests are the fewest with two registrations under way while
  a third has logged in or refreshes; two names and two invites cover equal and
  different keys, and both orders of waiting.
* *Messages*: two requests are enough for a race, four for a race on a message
  that two others made or are making; three ids are the fewest with a gap between two
  messages.
* *Chats*: two users have a direct chat, and one request creates it while a second
  asks for it again and a third removes somebody or reports a read position. More
  requests only add independent chats; the proofs cover them.
* *Timeline*: three messages and pages of two make a full page, a cursor and a page
  that is not full; one message can be stamped early and committed behind the
  cursor while the others fill a page, and one is a file whose attachment may come
  after it was listed. Pages of one would hide a case: with two, the walk may end
  with messages beyond its last cursor.
* *Replicas*: three events are online, offline, online of one hub, or presence
  mixed with two messages from different replicas.

Runs without liveness properties use symmetry between connections, users, requests,
replicas or messages of one kind, which no property tells apart; the others use none.

Deadlock is checked in `hub_devices` and `hub_live`. In the others the system may
stop: requests, messages and events are bounded.

### Fairness

`Hub!Fairness` and `Typing!FairSpec` assume that Go schedules a goroutine that can
run, that timers fire, and that a handler's calls return. Two assumptions are
strong fairness: `ReadFails`, because `Conn.Read` reports a closed websocket or a
done context each time the pump comes back to it, however often the handler sends
in between; and `PingFails`, because the `select` of `WritePump` chooses uniformly
among ready cases, so that a busy channel cannot keep the ticker away for ever.
Nothing is assumed of the network, of clients, or of the buffers' emptying when a
peer does not read. Safety runs assume nothing.

### What the violated properties show

* `AutoExpires`: a device that already shows "typing" sends another `typing.start`;
  its timer is stopped, then `GetMemberIDs` fails and the handler returns. Nobody
  clears the indicator. With succeeding queries it always expires
  (`AutoExpiresUnlessFailed`).
* `OneAccountPerInvite`: two registrations read the invite as unused, then each
  marks it used; the second `UPDATE` overwrites the first `used_by`.
* `DeletedHasNoAttachments`: the ignored error of `DeleteAttachmentsByMessage`
  leaves rows behind; so does an upload whose `CreateAttachment` runs after them.
* `PresenceReflectsAll`: each hub looks at its own map, so the end of a connection
  to one replica announces "offline" for a user who is connected to another, to
  clients of both. `LastWordIsTrue` is what does hold: the last thing each replica
  said about a user is true of that replica.

## 4. Proofs

* `HubProofs`. `TypeCorrect`: types, so no buffer exceeds its capacity.
  `HubInvariant`: `HubInv` with `PanicFree` is inductive relative to `TypeOK`. It
  has to say for every place of a reading pump whether its connection is in the
  map and its channel open, because `PanicFree` depends on who may still send:
  `SendLocal` visits only connections that were in the map when it took the lock
  (`todo` stays inside `AllClients` while a reader holds it), and `TrySend`, which
  takes no lock, is called only while the pump is in its loop. `NeverPanics` follows.
  `PresenceCorrect` adds that `told` equals the users with a connection outside a
  broadcast, and `HubImplementsPresence` maps every step to a step of `Presence`:
  the locked sections to `Join` and `Leave`, the end of a broadcast to `Announce`,
  the rest to stuttering. `AnnouncementsReachAll` needs `ToldInv`: during a broadcast, what
  the connections already visited have in `view` agrees with the status announced, and a
  connection that is in the map and was not visited yet is still in `todo`.
  `NobodyIsLeftBehind` needs `PumpInv`: no websocket is accepted under a pump that runs,
  and each way out of a pump closes it before the pump is gone. The only assumption is
  `HubAssumption`.
* `TypingProofs`. `IndicatorAlwaysCovered`: after `Receive` stops a timer its own
  handler is under way, and only `QueryFails` ends a handler that has not
  broadcast. `EntryAlwaysLive`: a callback removes the entry in the step in
  which its timer ends. `TypingTypeCorrect`: one timer per key.
* `AccountsProofs`. The invariant says who holds which lock at which statement,
  that no holder of a name lock shares its name with another holder or a row, and
  that a registration which is not to be an administrator has seen a committed
  account; `AdminAlwaysExists`, `AccountsAreSound`, `NamesAreUnique` and
  `RegistrationsNeverDeadlock` follow. The last one is the lock order: the invite's
  lock is only held by a transaction that has nothing left to wait for.
  `AccountsImplementRegistry` needs two facts more. `IssuedInv`: an invite somebody
  registers with was issued, and while a transaction holds its row it cannot be deleted,
  so `Commit` finds it as `Enrol` wants it. `SessionInv`: a refresh that has loaded its
  user is for the account of the token it was given, and that token is deleted; tokens
  are kept by requests that were answered, whose account never changes.
* `MessagesProofs`. `MessagesInv` is inductive relative to `TypeOK`. Where a request
  stands tells what it has stored (`TargetInv`, `FeedInv`): an event is only sent
  after the statement it reports, and no step removes a row. An id that was taken and
  not yet used is one request's alone, because the sequence is above all ids that rows
  and requests have. `FileMessageComplete` is
  not inductive; it needs `UploadInv`, that no two requests which create or upload
  ever have the same message (its id comes from the sequence), and that an upload
  about to announce a live message has stored its attachment. Only a deletion
  takes attachments away, and it marks the row first. `ReadInv` carries the bound
  of a read event from the `UPSERT` to its broadcast. `MessagesImplementChatLog`
  takes each step to a step of `ChatLog`, with these facts for its guards.
  `MessagesKeepTheLog` then needs the promise only: `LogInv`, that the last event about a
  message is true of it, is inductive in `ChatLog`.
* `ChatsProofs`. `RequestInv` says what an open transaction has written when it stands
  at a statement, and that a request works on a committed chat only; `ChatsAreWhole`
  and `ReadsAlwaysOfMembers` are inductive with it. `NoLateDuplicate` is not: the
  fact has to be carried from the moment `FindDirectChat` looked (`LookedInv`), for
  every chat it looked through, until the new chat is committed.
  `ChatsImplementMembership` needs `AskedInv`, that a transaction adds nobody who was not
  asked for; that it adds everybody is what ends its loop.
* `TimelineProofs`. `ReaderMissesNothing` rests on `ReaderInv`: while a
  reader with a websocket walks, a message that was announced is in its hands, *ahead* of
  the cursor or in the `gap`, and one that is about to be announced is in its hands or
  ahead unless it is addressed to the reader. It holds from the handshake on, not only
  from the registration, because the walk may begin in between. `CursorInv` says that the cursor divides what was listed from what a page
  may show, which also gives `PagesNeverRepeat`; it needs that rows are never
  removed. It is only claimed while the walk lasts: after a last page that is not
  full the cursor stays where it was.
* `ReplicasProofs`. `ReplicasInvariant` follows an event from the goroutine that is about
  to publish it through the subscriptions to the connections: ids of one sender grow
  along that way (`OrderInv`), which gives `EventsStayInOrder` and, with the origin
  test of `handleMessage`, `EventsAtMostOnce`; until something is lost, what a
  connection is owed and does not have is somewhere on that way (`OwedInv`), which
  gives `NothingGoesMissing`. `PresenceWordsAreTrue` needs more: an event that says
  something untrue of a user is followed by a later one of the same replica, on its
  way or already delivered (`PipeTruth`, `GotTruth`), because a hub takes no other
  connection before it has announced the last change (`ChangeInv`). The same invariant
  gives `ReplicasHubsArePresence`: a hub has an event to publish only while its last
  change is not announced, which is the guard of `Announce`.

Four theorems transfer what holds of the abstract modules to the code's statements,
without looking at the requests again: `HubAnnouncesOneAtATime` (`Presence!PresenceInv` and `OneAtATime`: the changes
of a user's presence are announced alternately, each as it is), `MessagesKeepTheLog` (`ChatLog!LogInv` and
`OnlyForward`), `AccountsKeepTheRegistry` (`Registry!RegistryInv` and `RegistryForward`: all
tokens of a chain of refreshes are one account's, and none that was refreshed is
accepted again) and `ChatsKeepTheMembership` (`Membership!MembershipInv` and
`MembershipForward`: nobody becomes administrator of a chat after it was opened, so a chat
whose founder was removed has no administrator for good; no statement of the repository
changes a role).

`HubInv`, `PresenceSettled`, `NamesUnique` and `ReadsBelongToMembers` are proved
(`HubInvariant`, `PresenceCorrect`, `NamesAreUnique`, `ReadsAlwaysOfMembers`) and no run
lists them: they are steps on the way to `PanicFree` and to the refinements, which the
runs do check.

The assumptions are those the modules name: `HubAssumption`, `TypingAssumption`,
`MessagesAssumption`, `TimelineAssumption` and `ReplicasAssumption`; `Accounts` and
`Chats` have none.

Only model-checked: liveness, that is `hub_live` and the two temporal properties of
`typing_expiry` (`ENABLED` and fairness are out of TLAPS's reach), and the violated
properties. Every safety property that a passing run checks is also a theorem. No
module declares a recursive operator and no proof needs induction over data.

## 5. Not modelled

Authentication and cryptography (stateless); routing and JSON shapes; reads that
change nothing and that no property here is about (`GET` of a chat, a message, a user
or the list of chats); rate limiters; thumbnails; presigned URLs; push, whose
sender is never called and whose subscriptions are single statements; deployment
files. `Hub` lets `OnDisconnect` and Redis calls return, and drops the contents of
events. `Messages` and `Timeline` have one chat each; `Timeline` has one server, and its
reader joins and is not removed again (`Chats` has the removal). In `Chats` the avatar is left out, which
is a second nullable column like the name, and only ids of chats and users that exist
are tried: others end in `EnsureMember` or in a foreign key, which is `Fail`.
`Replicas` gives every replica an `InstanceID` of its own and takes a walk over the
local connections as one step.

## 6. Plan

Done: all modules of section 2, the runs of section 3, a proof of every safety
property, and for `Hub`, `Messages`, `Accounts` and `Chats` an abstract specification
that they are proved to implement.

What could follow, in this order:

1. An abstract indicator for `Typing`, on only while something covers it, and an abstract
   timeline, whose reader holds everything announced, as the promises of those two.
2. Several chats in `Messages`: edits and deletions are broadcast to the members of
   the chat in the URL while the message is found by its id alone.
3. `Timeline` over two replicas: `Disconnect` there stands for a client that knows it
   lost something; an event lost between replicas is a loss no client notices.
4. Pure functions over bounded inputs: the thumbnail's dimensions and the rate
   limiters.
