# Open Chat Relay in TLA+

Open Chat Relay is a chat backend: a FastAPI application over PostgreSQL and
Redis, an outbox publisher, a WebTransport gateway and a JavaScript SDK.  This
directory holds TLA+ modules of its concurrent and failure-prone parts, the TLC
configurations that check them on small instances, and TLAPS proofs about them.

All paths below are relative to `src/`; `app/` stands for `apps/api/app/`.

| module | models | checked by | proved in |
|---|---|---|---|
| `EventLog` | allocation of event numbers by concurrent handlers | `MCEventLog` | `EventLog_proofs` |
| `EventStream` | what a durable event stream promises (abstract) | through `SseFeed` | |
| `SseFeed` | the SSE stream over the event log | `MCSseFeed` | `EventLog_proofs` |
| `Outbox` | outbox table and publisher workers | `MCOutbox` | `Outbox_proofs` |
| `Presence` | connection registry, WebSocket handlers, presence and typing stores | `MCPresence` | `Presence_proofs` |
| `Fanout` | live delivery on one node: broadcasts, replay, Redis subscriber | `MCFanout` | `Fanout_proofs` |
| `Transactions` | request handlers over PostgreSQL and SQLAlchemy's session | `MCApi` | `Transactions_proofs` |
| `WorkspaceService` | statements of workspaces, rooms, members, conversations, friends | `MCApi` | |
| `MessageService` | statements of messages, reactions, attachments, read positions, notifications | `MCApi` | |
| `AccountService` | statements of accounts, sessions, administration, apps, keys, webhooks | `MCApi` | |
| `Api` | the endpoints: service called, exceptions answered | `MCApi` | |
| `ApiRules` | what the endpoints promise together | `MCApi` | `ApiRules_proofs`, `ApiRoles_proofs` |
| `Gateway` | SDK requests, WebTransport gateway and the API behind it | `MCGateway` | `Gateway_proofs` |

## 1. Inventory

### Components

**Event log** (`app/services/message.py`, `read_state.py`, `reaction.py`,
`app/models/event.py`).  State: table `events`, with a unique constraint on
`(room_id, room_event_seq)` and one on `(workspace_id, workspace_event_seq)`.
Seven handlers write it (`create_message`, `create_bot_message`,
`update_message`, `delete_message`, `add_reaction`, `remove_reaction`,
`update_room_read_state`), each in one READ COMMITTED transaction: own rows, two
`max()+1` queries, INSERT, outbox row, COMMIT.  Hard: the reads race.  Correct
when: numbers are gap-free and unique per room and per workspace, rows appear
only above what readers may have passed, nobody waits for ever.

**SSE stream** (`app/api/v1/routes/sse.py`).  State: one generator per
connection with a cursor.  Polls `list_room_events` for at most 100 events above
the cursor.  Hard: page limit, resumption, membership that ends meanwhile.
Correct when: a client receives its room's events in order, exactly once.

**Outbox and publisher** (`app/services/outbox.py`,
`app/workers/outbox_publisher.py`).  State: table `event_outbox` (status,
attempts) and the worker's in-memory copies.  Hard: no row locks, failing
publishes, crash between publish and commit.  Correct when: a published row was
sent, rows are not resurrected, rows settle, order is kept as far as it is.

**Redis fan-out and signal bus** (`app/realtime/redis_bus.py`,
`signal_bus.py`).  State: the set of remembered event ids (10 000).  Each node
subscribes to `rooms:*` and `users:*` channels and forwards to its sockets,
dropping what it has seen or sent itself.  Hard: lossy pub/sub, duplicates,
replay against live delivery, id shared by a message and its notification.

**Connection registry and WebSocket handlers** (`app/realtime/manager.py`,
`app/api/v1/routes/realtime.py`).  State: five dictionaries relating sockets,
users and rooms, and a counter per room and user.  Hard: handlers interleave at
every await; broadcasts remove sockets behind their handlers' backs.

**Presence and typing stores** (`app/realtime/presence_store.py`,
`typing_store.py`).  State: Redis sorted sets with expiry, keyed by node.  Hard:
crash, errors between commands, expiry that nothing renews.

**Room data** (messages, reactions, attachments, read states).  State: the rows
the seven handlers change besides the event.  Hard: read-then-write in READ
COMMITTED: lost updates, two messages claiming one attachment.  Correct when:
replaying the events gives the tables, nothing goes back.

**Notifications** (`app/services/notification.py`): rows per recipient, sent
after commit on a best-effort basis.

**Workspaces, rooms, membership** (`app/services/workspace.py`), **conversations
and friends** (`conversation.py`, `friend.py`).  State: membership rows with
roles.  Hard: the last-owner rule is a read followed by a write (write skew),
upserts, creation races.

**Accounts, sessions, apps, API keys, webhooks** (`auth.py`, `auth_session.py`,
`app.py`).  Hard: first-administrator race, refresh rotation used twice,
revocation against use.  **Rate limiter** (`app/core/rate_limit.py`): fixed
window, in memory or as INCR/TTL/EXPIRE.

**Gateway** (`gateways/webtransport/src/server.js` with
`app/api/v1/routes/internal_gateway.py`).  State: session registry with expiry,
open streams, one text decoder for all of them.  **SDK**
(`packages/sdk-js/src`).  State: pending requests by id, timers, current
transport.  Hard: timeouts against late answers, a retry with the id of the call
it repeats, lines of two streams in one decoder.  Correct when: every call is
settled once and with a true answer.

Not state machines: storage (`app/storage`), audit, system administration,
capabilities, health, schemas, configuration, migrations, the two front ends,
scripts.

### Interactions

    handler --(one transaction)--> events + event_outbox      EventLog
    SSE generator --(poll)--> events                          SseFeed (extends EventLog)
    publisher --(select pending)--> event_outbox              Outbox
    publisher --(publish)--> Redis --> every node --> sockets Fanout
    message.send, room.subscribe --> broadcast, replay        Fanout
    WebSocket handlers <--> registry <--> broadcast           Presence
    WebSocket handlers --> Redis presence/typing              Presence
    HTTP, gateway --> endpoints --> services --> PostgreSQL   Api, Transactions
    SDK --> gateway --(HTTP)--> internal gateway API          Gateway

`EventLog` hands two facts to `Outbox`: outbox rows of a workspace are stamped
in the order of the event numbers (`OutboxOrder`), and become visible in that
order (`AppendOnly` with `SingleWriter`).  `Outbox!Enqueue` relies on them when
it makes the rows of one room appear in order.  `EventLog` also stands behind
`MessageService`, which gives an event the number after the last committed one
and lets the unique index refuse the loser.  `EventLog` (with `SseFeed`) also
justifies that `Fanout` takes the log to be a number of committed events, and
`Outbox` that it publishes every event at least once, in any order after a
failure.

## 2. The models

### EventLog

One `Requests` element is one invocation of any of the seven handlers; `target`
is its room, an input.  `stage` is the last statement it has executed: `Start`
(access checks and own rows done), `ReadRoomSeq`, `ReadWorkspaceSeq` (the two
`max()` queries, each seeing what is committed at that moment), `ClaimRoomKey`
and `ClaimWorkspaceKey` (the INSERT entering the two unique indexes),
`UniqueViolation` (the IntegrityError no handler catches), `EnqueueOutbox`
(`created_at` is computed in Python when the outbox row is flushed), `Commit`,
`Abort` (lost process or connection).  `events` holds the committed rows.

Assumptions about PostgreSQL, which is not under `src/`: READ COMMITTED; an
INSERT whose key is held by an open transaction waits, and fails if that
transaction commits; the indexes of a table are entered in one fixed order.
`clock` is one wall clock read by all API processes: skew between hosts is not
modelled and would break `OutboxOrder`.

What the checks say: the constraints act as a lock.  Two handlers may compute
the same number, but only one can be between INSERT and COMMIT in a workspace
(`SingleWriter`), it holds exactly the next number, so numbers have no gaps
(`GapFree`), a loser always has a committed winner (`ConflictHasWinner`), and
nothing ever appears at or below a number a reader may have passed
(`AppendOnly`).  Waiting never becomes a cycle (`RequestsEnd`).

Fairness: `WF(Handle(q))` per request, a started handler goes on.  Only weak
fairness is needed: a request that waits for a key is enabled continuously once
its holder has ended, and a key that was taken fails it at once.

### EventStream and SseFeed

`EventStream` is the promise: a list per room that grows at its end and a
position per reader that moves over it one event at a time.  `SseFeed` extends
`EventLog` with readers: `Connect` (with `last_event_seq` = what the client has
received; an absent value means 0), `Poll` (one page), `PollRefused` (membership
lost), `Yield` (cursor moves, event goes on the wire), `Receive`, `Drop`
(everything on the wire is lost), `ChangeMembership`.  The refinement maps
`length` to the head of each room's numbers and `position` to `received`;
`ImplementsEventStream` holds because of `GapFree` and `AppendOnly`.

The client is external: it is assumed to resume with the number of the last
event it received, as the API documents.  Fairness: the generator's loop goes
on and the transport delivers or breaks.  Commits are not fair and reconnecting
is not: `EventuallyReceived` speaks of a reader that stays connected.

### Outbox

`SelectBatch` loads the oldest pending rows into the worker's copy, `PublishOk`
and `PublishFails` change the copy row by row, `CommitBatch` writes back only
the columns the worker changed (the unit of work of SQLAlchemy), so that a copy
left pending does not overwrite a status another worker set.  `PublishFails`
covers both "Redis is away" and "Redis took it, the reply was lost".  A crash
drops the copies.

`EveryRowSettles` assumes that some worker keeps working
(`WF(\E p : Work(p))`, the `run_forever` loop) and nothing about Redis: a row
that always fails ends as failed after `max_attempts`.

### Presence

A node's registry (`known`, `rooms`, `count`), the store commands each handler
still has to send (`todo`), the entries in Redis (`live`).  Registry changes are
atomic (no await inside), store commands are separate steps.  `Sweep` is a
broadcast or `send_user` that removes sockets it cannot write to.  A handler ends
with the cleanup only for `WebSocketDisconnect` (`realtime.py:86`); any other
exception (`Die`) leaves the connection in the registry with its rooms and its
counts: a frame that cannot be decoded, a database error, an `IntegrityError` in
`create_message` (`HandlerFails`), a Redis error (`CommandFails`), a command on a
socket that was swept (`UnknownSocket`).

Three history variables say why the lists may be wrong.  `tainted` records the room
and user of what leaves an entry behind: a second subscribe on one connection,
an update without subscription, a subscribed connection that is swept or whose
handler dies, a failed command, a crash.  `GhostsHaveCause` says that every
other entry belongs to a connection whose handler still runs (`Attended`; a dead
handler's connection is registered but excuses nothing) or is about to be
cleared.  Leaving out any one of these causes makes TLC find a ghost.  `undone`
records the room and user whose presence entry a handler cleared while the user
was counted again and no other handler was about to mark it, or whose command
failed; `lapsed` records entries that expired, which the code never renews.
`SubscribersListed` says that nothing else keeps a subscribed user off the
list, however many connections the user has.  The false `offline` of the endpoint that clears room
after room is thus not excluded, because the code has it; what is excluded is
any other way.

Only the Redis stores are modelled; the in-memory stores have no awaits.  A
store call of several commands (`zadd`, `hset`, `expire`) counts as one: the
first one decides whether the user is listed.  The gateway's presence and
typing endpoints write the same entries as `Update` and are not repeated.

### Fanout

One room on one API node.  `length` is the number of committed events; `cast[s]`
is the loop of `broadcast_room` or `send_user` that a handler (`s` a connection)
or the Redis subscriber (`s = "bus"`) is running: kind, event, sockets still to
be served and sockets that raised.  Every `send_json` is a step of its own
(`SendOne`), and everything else on the node may run between two of them; the
loop's end disconnects the sockets that raised (`DropStale`).  `step` says where
a handler stands between its awaits: `message.send` goes from its commit
(`MessageSend`) over the notifications (`NotifyHere`, `PublishUser`) to its own
broadcast (`BroadcastOwn`, `SendDone`); `room.subscribe` enters the registry,
then reads at most `PageLimit` missed events and sends them one by one
(`Subscribe`, `ReadMissed`, `SendMissed`).  `seen` is the memory of event ids
with its capacity; `BusTake` is `handle_pubsub_message`, which drops a message
that this node published or whose id is remembered.

`wire` holds what Redis has sent to this node, in order.  `LinkDown` loses a
tail of it, and what is published until `LinkUp`; `lost` records the events.
`PublishEvent` is the outbox worker, which may repeat itself and, since several
workers and failures are possible, publishes in any order.
`CommitElsewhere` and `NotifyElsewhere` are handlers of other nodes and those
that do not broadcast themselves.  Notifications are followed for one member
(`Member` is the set of its sockets here, `Sent` the events that are new
messages): the loop over recipients treats each alike.  A row the outbox gives
up has the effect of one published while the link is down.

What the checks say.  A subscriber that asked from `since` has, or is being
sent, every later event this node has broadcast, whatever commits and
broadcasts run between its entry into the registry, its read and its replay
(`NoHole`); what it may miss is named: events beyond the page, and events the
node has not broadcast.  An event is broadcast at most twice, once by the
sender's handler and once from Redis, plus once for each time its id was pushed
out of the memory (`BroadcastBound`): the handler does not ask the memory, so
"at most once" would be false.  A notification reaches a socket once
(`NoticeOnce`), by the check of `origin_node_id` and not by the memory, which
drops notifications for the wrong reason (`NoticeSentOn`, violated).

Fairness: a handler's or the subscriber's next step happens (`WF`), because a
send completes or raises; the outbox publishes each event once
(`Outbox!EveryRowSettles`).  Clients owe nothing, and the link need not come
back.

### Transactions

Every endpoint is a straight sequence of awaited database statements, and
between two awaits any other request may run.  `Transactions` executes such
sequences, one statement per step, over one database `db` of committed rows.  A
row is a key (table and unique columns) with a record of the columns that
matter.  `Endpoint(call, seen)` gives the statements of a call, as a function of
the rows its session has loaded: when a SELECT has been executed (`Read`), the
rest of the sequence is computed anew, which is how the code branches.

The database and SQLAlchemy, which are not under `src/`, are modelled as the
code uses them: READ COMMITTED (`Visible`), a row lock or unique index entry
held to the end of the transaction (`Locks`, `WaitsFor`), INSERT of a taken key
fails (`Add`), UPDATE of a vanished row raises StaleDataError (`Change`), DELETE
of one only warns (`Drop`), `refresh` raises (`Reload`), an attribute set to the
value it has writes nothing (`Assign`), tasks that wait in a cycle lose one of
them (`Cancel`), and `get_db_session` rolls back what a request leaves open
(`End`).  A request ends `ok`, `refused` (an exception its endpoint answers) or
`crashed` (any other: a 500).

Two history variables carry the properties.  `overtaken[q]` is the set of keys
others have committed since q's request began; `gone[q]` the loaded rows others
have deleted since.

### WorkspaceService, MessageService, AccountService, Api

The statement sequences, one operator per function of the source and under its
name: `leave_room`, `create_message`, `refresh`...  `Api` has one operator per
endpoint, `<function>_endpoint`, that adds authentication and the exceptions the
route answers, and the table from operation names to endpoints.  Secrets are
the row they stand for; names and texts are reduced to what is compared.  Ids
(`uuid4`) are the number of the call.  What an endpoint does after its last
commit (broadcasts, notifications to sockets, typing) is `Fanout`'s.  A
user who calls is authenticated by a SELECT, so a deactivation may come between
that and the service's own statements.

`ApiRules` states what holds.  Most rules of the services are checked by a
SELECT and kept by no constraint, so a plain invariant would be false; each
property says instead that a rule is broken only by a request that was
overtaken in one of the rows the rule is about: without concurrency on these rows
the rule holds, and which rows these are is part of the statement.  `overtaken`
counts what others commit since the request began, whether it had already read
the row or not, so these properties excuse somewhat more than the races
themselves (write skew on owners, stale copies, and the like), and do not catch
those races: the hazards that name them say so.

- `LastOwnerKept`: a group that has an owner keeps one.  The exceptions are
  named: `leave_room` lets an only owner leave a room that others are in,
  `add_*_member` overwrites the role of a member who is an owner, and removal from a
  workspace takes the rooms' memberships along.
- `MembersBelong`, `ContactsMutual`, `GroupComplete`: a member of a room is one
  of its workspace, friendship is mutual, a refused group does not exist.
- `ReplayGivesTables`: the last event about a row says what the row says, for
  contents, deletions, reactions and read positions.
- `RowsMoveForward`: attachments stay on their message, read positions do not
  fall, deleted messages do not change.
- `NoticesReachMembers`: exactly the other members have a notification.
- `AdminsKept`: an active administrator stays, and only the first account
  becomes one by registering.
- `CredentialsHold`: nothing is committed with what was revoked before the
  request began.
- `CrashNeedsConflict`: a 500 is a deadlock, a row somebody else committed, or
  the route of an app called by a non-member.
- `RequestsEnd`: every request ends, deadlocks included.

Fairness is `WF(Run(q))`: a task that can go on does.

### Gateway

A call is one use of `OpenChatRelayClient.request`.  `pending` is
`pendingRequests`, a map from request ids to calls; the caller may choose the id,
so a retry can carry that of the call it repeats.  `promise` is what became of
each call, `timers` whose timeout is set.  `Connect`, `CandidateConnects` and
`CandidateFails` are the loop over the candidates, `Request` writes the entry
and sends, `Settle` finds the call a frame's id stands for, `Timeout` removes
the entry of its id, `StreamFails` is the error frame `sendCommandStream` makes,
`Close` rejects everything that waits.  `Accept`, `Expire`, `OpenStream`,
`RejectLine` and `RelayCommand` are the gateway: sessions with an expiry, one
stream per command.  A line may come in two chunks, cut within a
character (`FirstChunk`, `SecondChunk`): `carry` is the stream whose
incomplete character the one `textDecoder` holds.  What the API does with a
command is `verdict`; its work is in `Api`.  Any answer, stream or connection may
be lost, and the token may become invalid.

`AnswersTrue` says that a call resolves only if the API did what a command with
its id asked, and `RelayedAsSent` when a line can reach the API other than as
written: only if the gateway served another stream and a line was cut.
`EveryCallSettles` needs only that timers fire (`WF(Timeout(c))`).

## 3. Runs

| run | question | bounds |
|---|---|---|
| `event_log` | numbering, conflicts, order, termination | 3 handlers, 3 rooms, 2 workspaces, clock 0..1 |
| `sse_feed` | refinement, nothing skipped, everything received | 3 events, pages of 2, 2 connections |
| `outbox` | truth of the table, duplicates, overtaking, does every row settle? | 3 rows of 2 rooms, 2 workers, 2 attempts, 1 crash |
| `outbox_order` | is a room's order kept? (no) | 1 worker, no crash |
| `presence` | counters, ghosts, listing | 1 user, 2 connections, 2 rooms, counters to 2, 1 update, 1 failure (an exception in a handler or a crash) |
| `presence_ghost` | does a disconnect clear? (not after a second subscribe) | 1 room, no update, no failure |
| `fanout` | no hole, bounded duplicates, one notification | 2 sockets, 2 events, pages of 1, memory of 1, 2 publishes each, 2 commands |
| `fanout_live` | does every event arrive? | 2 sockets, 1 event, 1 lost link, 3 commands |
| `fanout_notice` | is a notification from another node sent on? (not after its event) | 1 event, no command |
| `api_rooms` | owners, members, friends, groups, crashes, termination | 8 databases of 3 users, 2 tasks, 2 calls |
| `api_rows` | events against tables, rows going back, notifications, accounts, secrets | 15 databases, 2 tasks, up to 3 calls each |
| `gateway` | true answers, lines as sent, settled calls | 2 calls, 2 ids, 3 transports, 1 connection |

Why the bounds suffice to see the interesting cases.  *event_log*: two handlers
race for a number, the third races with both or writes to another
room of the workspace, so that room keys and workspace keys conflict in
different pairs; the third room is alone in its workspace.  *sse_feed*: three
events do not fit a page of two, so a page ends at, before and after the head,
and the single reconnect happens at every point.  *outbox*: the batch is
smaller than the table, two of the three rows share a room, a row can fail
finally, and a second worker can hold a stale copy of what the first settled.
*presence*: two connections of one user give every order of
subscribe/unsubscribe/disconnect on one counter; users do not share counters or
entries, so one user is enough.  *fanout*: two events and a page of one give a page that
is too short, a memory of one forgets the first event while the outbox may
still repeat it, and two sockets give a sender and a recipient or two
subscribers in any phase; a third event repeats a situation of two.  The link
breaks in `fanout_live`, where it matters; in `fanout` a lost message is one
that is not published yet.  *api_rooms*, *api_rows*: every anomaly of READ
COMMITTED that a rule guarded by one SELECT can suffer needs two transactions, so
two tasks; each scenario of `MCApi` pairs the calls that touch the same rows,
starting from the database where they collide (two owners, a member about to be
removed, a pending attachment).  In `api_rooms` the two calls overlap or follow each other.
In `api_rows` a scenario starts after the calls its database is the result of
(`made`), and the rest, two or three, run in sequence or two at a time: issue,
revoke, use.  Three users are an owner, a member and a
stranger.  *gateway*: two calls give an answer and a retry, with one id or two,
and two streams in the decoder; the candidates are tried in order on the only
connection, which can be lost, expire or be closed at any point.  Runs that may
stop (all requests ended, no row left, all sockets used) say
`CHECK_DEADLOCK FALSE`.

Bounds in guards: `MaxTime`, `MaxConnects`, `MaxCrashes`, `MaxCount`,
`MaxUpdates`, `MaxFailures`, `MaxEvents`, `MaxPublishes`, `MaxBreaks`,
`MaxCommands`, `MaxCalls`, `MaxConnections`.  `SeenCapacity`, `BatchSize`,
`MaxAttempts` and `PageLimit` are settings of the program.

Disagreements found:

- `outbox_order`: the durable lane is declared ordered
  (`app/realtime/policies.py:44`), but `publish_pending_outbox_batch` goes on
  with the next row after a failed publish (`app/services/outbox.py:60`).
  `OvertakenOnlyAfterAttempt` states what does hold.
- `presence_ghost`: `subscribe` counts a room twice for one connection
  (`app/realtime/manager.py:38`); one disconnect then clears nothing, against
  `apps/api/tests/test_presence.py:120`.
- `fanout_notice`: a notification carries the id of its event, so once this node
  has broadcast the event, the notification from another node is dropped
  (`app/realtime/redis_bus.py:77`), where `apps/api/tests/test_redis_bus.py:91`
  expects a user's message to be sent on (its payload has no `event_id`).

Noted while modelling, without a run of their own:

- `app/services/app.py:29` says `AppNotFoundError` is raised for an app "not
  visible to the user"; `require_workspace_owner` (`app/services/app.py:343`)
  raises `WorkspaceNotFoundError` for a non-member instead, which the routes of
  an existing app do not catch.  `CrashNeedsConflict` names this case
  (`Outsider`).
- `app/api/v1/routes/rooms.py:176` answers `RoomLastOwnerError`, which
  `leave_room` never raises: it deletes without asking for another owner.
- `add_workspace_member` and `add_room_member` overwrite the role of a present
  member without that question, so the last owner can be made a member.

Each module also defines seeded faults (marked as such): plausible bugs, each of
which makes the property listed with it in `PROJECT.json` fail.

## 4. Proofs

The theorems hold for every value of the constants that satisfies the modules'
named assumptions.  Those of `Presence` take `Connections` and `Rooms` to be
finite (`PresenceAssumption`), because its counters are compared with
cardinalities; no other proof uses the size of a set.

**EventLog_proofs.**  `GapFree` is not inductive: it does not say why the number
a committing handler carries is still the next one.  The inductive invariant
`IInv` adds three facts.  `ReadBound`: a number that was read is at most head+1.
`HolderIsNext`: whoever holds an index entry holds exactly head+1 (it passed the
"not taken" test, which with `ReadBound` leaves one value).  `SingleRoomWriter`
and `SingleWriter`: hence two holders would hold the same entry, which the
pending test excludes.  So nobody commits between another's INSERT and COMMIT,
and `Commit` extends `1..n` by `n+1`.  `StampBound` carries the clock for
`OutboxOrder`.  One lemma per action; theorems `TypeCorrect`, `NumbersGapFree`,
`NumbersUnique`, `OneWriter`, `OutboxInOrder`, `LoserHasWinner`,
`LogAppendOnly`.

On top of `IInv`, for `SseFeed`: the client's position, the wire and the
generator's page are consecutive runs, and the cursor is the end of the first
two (`NothingSkipped`); a page is non-empty exactly while yielding
(`PageState`).  `PageContinues` shows that a page over a gap-free room is the
run after the cursor.  Then `FeedImplementsStream`: `Commit` is `Append`,
`Receive` is `Deliver`, all else stutters.

**Outbox_proofs.**  `RankFacts` and `OldestFacts` say what a batch is: sorted, and
closed downwards among the pending rows (that every rank is met is a counting
argument on injections, not an induction).  `IInv` then says that a worker's
untried rows are unchanged copies with an attempt left, its other rows were
tried, a settled row was tried (`SettledTried`, although a stale copy may lower
its attempts), and of a row in a batch the older rows of the room are in the
batch or settled (`OlderKnown`, which needs `EnqueuedInOrder`).  `CommitFacts`
isolates the write-back.  All five safety properties of the run are theorems.

**Fanout_proofs.**  `NoHole` is not inductive: a started loop must not be
overwritten, and a broadcast must be of an event that is committed.  `HoleInv`
adds `OnlyCommitted` (what is being sent, published or was broadcast is in the
log) and `OneLoopEach` (where a handler starts a loop, none is running).
`NoHoleKept` is the argument in one lemma: if no event that is on its way is
dropped and no subscriber becomes a follower, the invariant stays; the actions
that start a broadcast, read a page or deliver an event discharge its
hypotheses.  `BroadcastFacts` is where it matters that the audience is the
whole registry at the moment of the snapshot.  Three invariants stand on `HoleInv`.  For
`BroadcastBound`, `Bounded`: the broadcasts of an event that were started, plus
the one its sender still owes (`Owed(n)`), are at most its evictions plus 1,
plus 1 more while the memory holds it; `Remembered` and `OneSender` say what a broadcast leaves in the memory
and that an event has one sender.  For `NoticeOnce`, `ToldOnce(n)`: a notification is
at one place at a time: with its handler, on the wire, in a running loop or at
the socket.  `TypeInv` needs `CommittedIn`, since an event number is a
number of the log.

**Presence_proofs.**  The hard part is counting.  `CountExact`: unless
a second subscribe (or another cause) tainted room and user, the counter is
the number of the user's subscribed connections; `SubscribersCounted` says
it is never less.  `MarksBacked` says that a pending mark is of a room its
connection is subscribed to; with it `EntriesBacked` is inductive: every entry
has a registered subscription, a pending clear or a recorded cause.  `DeadTainted`
(what a dead handler left in the registry is recorded) turns that into
`GhostsHaveCause`, which does not count dead handlers.  `SubscribersListed` is not
inductive, because `subscribe` asks the counter and not the connections whether
to mark the user: `CountedListed` says of every counted user that the entry is
there, about to be written, or recorded as lost, and `SubscribersCounted` brings it
back to the connections.  `ForgetFacts` and `CleanupFacts` isolate a
sweep and a disconnect.

**Transactions_proofs.**  `RowLocksHold`: two open transactions have never
written the same row, whatever the statements, the scenarios and the crashes.
`IInv` adds only the shape of the variables; one lemma per kind
of statement reduces a step to `StepKeeps`, which says that a step that writes
only unlocked rows keeps transactions apart.  This is what justifies that
`ApiRules` may take a row's value at commit for what the request wrote.

**Gateway_proofs.**  `Served` and `ReplyTrue` follow an id from the line in the
stream over the API to the frame that comes back: `AnswersAreTrue`.
`EntriesWait`: every call with a pending entry is still open, so no call is
settled twice.  `LinesRelayedAsSent` needs `HalfKept`: while a cut line waits for
its second chunk, the decoder holds its half character or another stream was
reached since.

**ApiRules_proofs.**  `Transactions` runs any statements; here they are those of
`ApiEndpoint` (`Routed`, which the configurations give by
`Endpoint <- ApiEndpoint`), the calls, rows and keys those of
`CallsAssumption`, `RowsAssumption` and `KeysAssumption`.  The proof has three
layers.  (1) *What a body is*, for every call and every value it may have
loaded.  `Sound(b, T)`: it writes only tables `T` and rows with the columns of
their tables; `EndpointsKept` shows it of all endpoints, service by service.
`Within(b, m, n, T)` finds the part `m` at its place in the body, and the rest
writes only `T`.  From these come relations between a call and a row at a statement
number: `Late` (not written before), `Lasting` (never deleted), `Reads`,
`Ensures` and `Removes` (there, or gone, afterwards), `Tested` and `Guards` (a
check stands before the UPDATE).  (2) *What a running request knows*, as
invariants that add to each other: `WInv` and `RInv` (current statement and
rows are those of the body), `CInv` (the credential was valid or was
overtaken), `KInv` (a row not yet written was loaded as it is committed, or
overtaken), `SInv` (what a statement ensured or removed stays so), `DInv`
(`Durable` tables lose no row; an attached file has a message), `TInv` (a check
made before is still good, a row read in a `Window` without another SELECT is
still as seen), `FInv` (each uncommitted row goes on from the committed one),
`UInv` (calls have numbers of their own, so a notification of this message is
in the table only after this commit, and the uncommitted ones are for the
members seen).  All are kept by cases over what a step is to a request, `Aside`,
`Arrives` or `Goes` with its `Effect` (`StepCases`).  (3) *The commit*, where the
invariant meets the rule: `CommitsAreEntitled`, `FriendsAreMutual`, `RowsGoForward`,
`NoticesAreRight`.

**ApiRoles_proofs.**  Three more invariants over those of `ApiRules_proofs`, two for
the rules that stand on a count of rows nothing locks.  `AInv`: what a request that
writes accounts has counted is so while no account is overtaken: no account yet,
or another administrator beside the target (`AnAdminStays`).  `OInv`: a request
that is `MildIn` roles, which only adds members, makes owners or demotes whom it
just saw not to be one, leaves owners owners; one that `Counts` an owner out has
another, who stays while no row of the group is overtaken (`AnOwnerStays`).
`AddersMild`, `GroupsMild` and `CarefulEndpoints` say which endpoint is which.
`BInv` is for the two tables of members: a user whom a request adds to a room is
`Vouched` for, by an earlier statement that found or inserted the membership of the
workspace, and a membership the request never deletes is still visible to it.
`Homed` says of a body how many statements before each such INSERT that statement
is (`Offsets`), which also holds of the invitations of a group run in turn
(`TurnHomed`); `MembersLast` says that no endpoint but `remove_workspace_member`
ends a membership, and `RemovesMembers` that it deletes the rows in the rooms
before it commits (`MembersAreKnown`).

Only model-checked: the liveness properties (`RequestsEnd` of `EventLog` and of
`Transactions`, `EventuallyReceived`, `EveryRowSettles`, `EventArrives`,
`EveryCallSettles`; liveness and ENABLED are out of the prover's reach), and three
rules of `ApiRules`: `GroupComplete` (which invitation of a list of any length is
refused), `ReplayGivesTables` (the last of a set of events) and `CrashNeedsConflict` (every error of some seventy operations).  Proved but in no run: `NumbersUnique`,
`OneWriter`, `RowLocksHold`, `EntriesWait`.

## 5. What is left

1. Membership that ends while sockets stay subscribed: `Api` and `Fanout`
   composed over the membership rows of one room.
2. A client's view of `Fanout`: does a client that re-reads from its last number
   whenever it sees a jump in `room_event_seq` implement `EventStream`?
3. The other rules of `ApiRules` as theorems: `CrashNeedsConflict`, then
   `GroupComplete`, from the invariants of `ApiRules_proofs` and `ApiRoles_proofs`.
4. The gateway's control plane (drain, limits, health) and the SDK's SSE reader.
5. The rate limiter: its window in memory and in Redis.

## 6. Not modelled

- *Rate limiter*: its counters are its own, and nothing else reads them.  That
  INCR and EXPIRE are two commands is listed as a hazard.
- *Gateway control plane* (health, metrics, drain, connection and rate limits,
  certificates) and *SDK event listeners, SSE reader*: local bookkeeping beside
  the request path that `Gateway` follows.
- *Storage* (files, presigned URLs): a row's status stands for the object.
- *Audit log*: appended in the transaction it describes and read back only by its own
  listing; it decides nothing.
- *Capabilities, health, schemas, configuration*: values computed or checked per
  request, no state that several actors change.
- *Migrations, front ends, scripts*: the constraints of the tables are in the
  modules that use them; the rest is outside the relay.  The bootstrap of the first
  administrator is a call of `AccountService`.
- *Wire formats*: layout of payloads is left out; ids, numbers and senders are
  kept.
