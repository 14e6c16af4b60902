------------------------------- MODULE Fanout -------------------------------
(***************************************************************************)
(* Live delivery of one room's events on one API node: the handlers of     *)
(* message.send and room.subscribe (api/v1/routes/realtime.py), the        *)
(* connection manager's broadcasts and its memory of event ids             *)
(* (realtime/manager.py), the notifications (realtime/notifications.py,    *)
(* realtime/signal_bus.py) and the Redis subscriber (realtime/redis_bus.py)*)
(*                                                                         *)
(* An event is its room_event_seq: the log is a number of committed events *)
(* (EventStream shows why that is enough).  A broadcast takes a snapshot   *)
(* of the connections and awaits each send; everything else on the node    *)
(* runs between two sends.  Presence and typing signals are in Presence;   *)
(* refused commands change nothing and are left out.  Handlers that only   *)
(* commit an event and do not broadcast it themselves (HTTP, bots,         *)
(* webhooks, the gateway) are elsewhere to this model, on whatever node.   *)
(***************************************************************************)
EXTENDS Naturals, FiniteSets, Sequences, SequencesExt

CONSTANTS
  Connections,   \* WebSocket objects of this node
  Member,        \* those of one member, whose notifications are followed
  Sent,          \* events that are new messages; the others are reactions, edits, ...
  PageLimit,     \* replayed events of one subscribe, 100 in the code
  SeenCapacity,  \* _recent_event_capacity, 10000 in the code
  MaxEvents,     \* bound on committed events
  MaxPublishes,  \* bound on how often the outbox publishes one event
  MaxBreaks,     \* bound on lost Redis connections
  MaxCommands    \* bound on what the clients do

ASSUME FanoutAssumption ==
  /\ Member \subseteq Connections /\ "bus" \notin Connections
  /\ Sent \subseteq 1 .. MaxEvents
  /\ PageLimit \in Nat \ {0} /\ SeenCapacity \in Nat \ {0}
  /\ MaxEvents \in Nat /\ MaxPublishes \in Nat \ {0}
  /\ MaxBreaks \in Nat /\ MaxCommands \in Nat

VARIABLES
  length,      \* committed events
  socket,      \* open, gone (client left), closed (manager.disconnect)
  registered,  \* _room_connections of the room
  step,        \* where the handler of a connection stands
  sending,     \* the event a message.send handler committed, else 0
  since, upto, \* last_event_seq of a subscribe; the log's length at its read
  page,        \* events read and still to be replayed
  cast,        \* the broadcast each handler and the subscriber are running
  seen,        \* _recent_event_ids, oldest first
  link, wire,  \* Redis subscription; messages on their way to the node
  remote,      \* events whose notification another node has still to publish
  publishes,   \* times the outbox published each event
  got, told,   \* history: events received; copies of a notification
  starts, evictions, \* history: broadcasts of an event, times it was forgotten
  lost,        \* history: events published while nobody listened
  breaks, commands

log == <<length, publishes, remote>>
sockets == <<socket, registered>>
handler == <<step, sending, since, upto, page>>
redis == <<link, wire, lost>>
memory == <<seen, starts, evictions>>
client == <<got, told>>
bounds == <<breaks, commands>>
vars == <<log, sockets, handler, cast, redis, memory, client, bounds>>

Events == 1 .. MaxEvents
Sources == Connections \cup {"bus"}
SocketStates == {"open", "gone", "closed"}
Steps == {"idle", "acking", "notifying", "publishing", "casting", "reading", "replaying",
          "ended"}
Kinds == {"none", "event", "notice"}
Origins == {"outbox", "here", "elsewhere"}

NoCast == [kind |-> "none", event |-> 0, left |-> {}, stale |-> {}]
Cast(k, n, targets) == [kind |-> k, event |-> n, left |-> targets, stale |-> {}]
Running(s) == cast[s] # NoCast
Message(k, n, o) == [kind |-> k, event |-> n, origin |-> o]

Init ==
  /\ length = 0 /\ remote = {} /\ publishes = [n \in Events |-> 0]
  /\ socket = [c \in Connections |-> "open"] /\ registered = {}
  /\ step = [c \in Connections |-> "idle"]
  /\ sending = [c \in Connections |-> 0]
  /\ since = [c \in Connections |-> 0] /\ upto = [c \in Connections |-> 0]
  /\ page = [c \in Connections |-> <<>>]
  /\ cast = [s \in Sources |-> NoCast]
  /\ link = TRUE /\ wire = <<>> /\ lost = {} /\ breaks = 0 /\ commands = 0
  /\ seen = <<>>
  /\ starts = [n \in Events |-> 0] /\ evictions = [n \in Events |-> 0]
  /\ got = [c \in Connections |-> {}]
  /\ told = [c \in Connections |-> [n \in Events |-> 0]]

-----------------------------------------------------------------------------
(* manager.broadcast_room and send_user *)

(* Seeded fault: one id too many is kept.                                  *)
TrimmedLate(ids) == IF Len(ids) > SeenCapacity + 1 THEN Tail(ids) ELSE ids

(* One id was added, so at most one is over capacity.                      *)
Trimmed(ids) == IF Len(ids) > SeenCapacity THEN Tail(ids) ELSE ids

Forgotten(ids) == ToSet(ids) \ ToSet(Trimmed(ids))

(* The ids are the keys of an OrderedDict: none occurs twice.              *)
Place(n) == CHOOSE i \in DOMAIN seen : seen[i] = n
Moved(n) == Append(IF n \in ToSet(seen) THEN RemoveAt(seen, Place(n)) ELSE seen, n)

(* _remember_event                                                         *)
Remember(n) ==
  /\ seen' = Trimmed(Moved(n))
  /\ evictions' = [m \in Events |->
       IF m \in Forgotten(Moved(n)) THEN evictions[m] + 1 ELSE evictions[m]]
  /\ starts' = [starts EXCEPT ![n] = @ + 1]

(* Seeded fault: connections that are still replaying are left out.        *)
SettledAudience == {c \in registered : step[c] \notin {"reading", "replaying"}}

Audience == registered

Broadcast(s, n) ==
  /\ cast' = [cast EXCEPT ![s] = Cast("event", n, Audience)]
  /\ Remember(n)

(* A socket is in _user_connections until it is disconnected.              *)
SendUser(s, n) ==
  cast' = [cast EXCEPT ![s] = Cast("notice", n, {c \in Member : socket[c] # "closed"})]

Receives(c, kind, n) ==
  /\ got' = IF kind = "event" THEN [got EXCEPT ![c] = @ \cup {n}] ELSE got
  /\ told' = IF kind = "notice" THEN [told EXCEPT ![c][n] = @ + 1] ELSE told

AfterSend(k, c, raised) ==
  [kind |-> k.kind, event |-> k.event, left |-> k.left \ {c}, stale |-> k.stale \cup raised]

(* One send of a running loop; a send to a client that left raises.        *)
SendOne(s, c) ==
  /\ c \in cast[s].left
  /\ \/ /\ socket[c] = "open"
        /\ Receives(c, cast[s].kind, cast[s].event)
        /\ cast' = [cast EXCEPT ![s] = AfterSend(@, c, {})]
     \/ /\ socket[c] # "open"
        /\ cast' = [cast EXCEPT ![s] = AfterSend(@, c, {c})]
        /\ UNCHANGED client
  /\ UNCHANGED <<log, sockets, handler, redis, memory, bounds>>

Finished(s) == Running(s) /\ cast[s].left = {}

(* manager.disconnect                                                      *)
Disconnect(D) ==
  /\ registered' = registered \ D
  /\ socket' = [c \in Connections |-> IF c \in D THEN "closed" ELSE socket[c]]

(* The end of the loop: the sockets that raised are disconnected.          *)
DropStale(s) ==
  /\ Finished(s)
  /\ cast' = [cast EXCEPT ![s] = NoCast]
  /\ Disconnect(cast[s].stale)

-----------------------------------------------------------------------------
(* message.send *)

Asks == commands < MaxCommands /\ commands' = commands + 1

Idle(c) == step[c] = "idle" /\ socket[c] = "open"

(* create_message has committed; the event also waits in the outbox.       *)
MessageSend(c) ==
  /\ Asks
  /\ Idle(c)
  /\ length < MaxEvents /\ length + 1 \in Sent
  /\ length' = length + 1
  /\ sending' = [sending EXCEPT ![c] = length + 1]
  /\ step' = [step EXCEPT ![c] = "acking"]
  /\ UNCHANGED <<publishes, remote, sockets, since, upto, page, cast, redis, memory, client, breaks>>

(* The acknowledgement is out; publish_notifications, which is for every   *)
(* member but the sender, starts with the connections of this node.        *)
NotifyHere(c) ==
  /\ step[c] = "acking" /\ c \notin Member
  /\ step' = [step EXCEPT ![c] = "notifying"]
  /\ SendUser(c, sending[c])
  /\ UNCHANGED <<log, sockets, sending, since, upto, page, redis, memory, client, bounds>>

Put(m) == wire' = IF link THEN Append(wire, m) ELSE wire

(* publish_user: a failure is logged and forgotten.                        *)
PublishUser(c) ==
  /\ step[c] = "notifying"
  /\ DropStale(c)
  /\ Put(Message("notice", sending[c], "here"))
  /\ step' = [step EXCEPT ![c] = "publishing"]
  /\ UNCHANGED <<log, sending, since, upto, page, link, lost, memory, client, bounds>>

(* manager.broadcast_room(data.room_id, event_payload)                     *)
BroadcastOwn(c) ==
  /\ \/ step[c] = "publishing"
     \/ step[c] = "acking" /\ c \in Member
  /\ step' = [step EXCEPT ![c] = "casting"]
  /\ Broadcast(c, sending[c])
  /\ UNCHANGED <<log, sockets, sending, since, upto, page, redis, client, bounds>>

SendDone(c) ==
  /\ step[c] = "casting"
  /\ DropStale(c)
  /\ step' = [step EXCEPT ![c] = "idle"]
  /\ sending' = [sending EXCEPT ![c] = 0]
  /\ UNCHANGED <<log, since, upto, page, redis, memory, client, bounds>>

-----------------------------------------------------------------------------
(* room.subscribe and room.unsubscribe *)

(* The connection is in the registry before the missed events are read.    *)
(* Without last_event_seq nothing is read.                                 *)
Subscribe(c) ==
  /\ Asks
  /\ Idle(c)
  /\ registered' = registered \cup {c}
  /\ \/ \E v \in 0 .. length :
          /\ since' = [since EXCEPT ![c] = v]
          /\ step' = [step EXCEPT ![c] = "reading"]
          /\ UNCHANGED upto
     \/ /\ since' = [since EXCEPT ![c] = length]
        /\ upto' = [upto EXCEPT ![c] = length]
        /\ UNCHANGED step
  /\ UNCHANGED <<log, socket, sending, page, cast, redis, memory, client, breaks>>

(* list_room_events: the first PageLimit events after `since`.             *)
Missed(c) ==
  [i \in 1 .. Min({PageLimit, length - since[c]}) |-> since[c] + i]

Replay(c, events) ==
  /\ page' = [page EXCEPT ![c] = events]
  /\ step' = [step EXCEPT ![c] = IF events = <<>> THEN "idle" ELSE "replaying"]

ReadMissed(c) ==
  /\ step[c] = "reading"
  /\ Replay(c, Missed(c))
  /\ upto' = [upto EXCEPT ![c] = length]
  /\ UNCHANGED <<log, sockets, sending, since, cast, redis, memory, client, bounds>>

SendMissed(c) ==
  /\ step[c] = "replaying" /\ socket[c] = "open"
  /\ Replay(c, Tail(page[c]))
  /\ got' = [got EXCEPT ![c] = @ \cup {Head(page[c])}]
  /\ UNCHANGED <<log, sockets, sending, since, upto, cast, redis, memory, told, bounds>>

Unsubscribe(c) ==
  /\ Asks
  /\ Idle(c) /\ c \in registered
  /\ registered' = registered \ {c}
  /\ UNCHANGED <<log, socket, handler, cast, redis, memory, client, breaks>>

(* The client leaves.                                                      *)
HangUp(c) ==
  /\ Asks
  /\ socket[c] = "open"
  /\ socket' = [socket EXCEPT ![c] = "gone"]
  /\ UNCHANGED <<log, registered, handler, cast, redis, memory, client, breaks>>

(* The handler meets the client's absence, waiting for a command or in a   *)
(* send of its own, and ends: what it had still to do is not done.  Only   *)
(* WebSocketDisconnect removes the connection from the registry.           *)
HandlerEnds(c) ==
  /\ socket[c] # "open" /\ step[c] \in {"idle", "acking", "reading", "replaying"}
  /\ Disconnect({c}) \/ UNCHANGED sockets
  /\ step' = [step EXCEPT ![c] = "ended"]
  /\ sending' = [sending EXCEPT ![c] = 0]
  /\ page' = [page EXCEPT ![c] = <<>>]
  /\ UNCHANGED <<log, since, upto, cast, redis, memory, client, bounds>>

-----------------------------------------------------------------------------
(* Other nodes, the outbox worker and Redis *)

(* Another node commits an event; only new messages are notified.          *)
CommitElsewhere ==
  /\ length < MaxEvents
  /\ length' = length + 1
  /\ remote' = remote \cup ({length + 1} \cap Sent)
  /\ UNCHANGED <<publishes, sockets, handler, cast, redis, memory, client, bounds>>

NotifyElsewhere(n) ==
  /\ n \in remote
  /\ remote' = remote \ {n}
  /\ Put(Message("notice", n, "elsewhere"))
  /\ UNCHANGED <<length, publishes, sockets, handler, cast, link, lost, memory, client, bounds>>

(* The outbox worker publishes at least once (Outbox); its payload names   *)
(* no node.                                                                *)
PublishEvent(n) ==
  /\ n <= length /\ publishes[n] < MaxPublishes
  /\ publishes' = [publishes EXCEPT ![n] = @ + 1]
  /\ Put(Message("event", n, "outbox"))
  /\ lost' = IF link THEN lost ELSE lost \cup {n}
  /\ UNCHANGED <<length, remote, sockets, handler, cast, link, memory, client, bounds>>

(* Redis stops sending; what has arrived is still handled.                 *)
LinkDown ==
  /\ link /\ breaks < MaxBreaks
  /\ link' = FALSE /\ breaks' = breaks + 1
  /\ \E k \in 0 .. Len(wire) :
       /\ wire' = SubSeq(wire, 1, k)
       /\ lost' = lost \cup {wire[i].event : i \in {j \in k + 1 .. Len(wire) : wire[j].kind = "event"}}
  /\ UNCHANGED <<log, sockets, handler, cast, memory, client, commands>>

(* The loop has met the error, slept and subscribed again.                 *)
LinkUp ==
  /\ ~link /\ wire = <<>> /\ ~Running("bus")
  /\ link' = TRUE
  /\ UNCHANGED <<log, sockets, handler, cast, wire, lost, memory, client, bounds>>

-----------------------------------------------------------------------------
(* The Redis subscriber *)

(* Seeded faults: the node's own notices are not dropped; ids are not      *)
(* checked; a notice is remembered like an event.                          *)
DroppedIfSeen(m) == m.event \in ToSet(seen)
DroppedIfOwn(m) == m.origin = "here"
DroppedOnceNoticed(m) ==
  \/ m.origin = "here" \/ m.event \in ToSet(seen)
  \/ \E c \in Connections : told[c][m.event] > 0

(* Both kinds of message carry the event's id.                             *)
Dropped(m) == m.origin = "here" \/ m.event \in ToSet(seen)

BusTake ==
  /\ ~Running("bus") /\ wire # <<>>
  /\ wire' = Tail(wire)
  /\ LET m == Head(wire) IN
       \/ /\ Dropped(m)
          /\ UNCHANGED <<cast, memory>>
       \/ /\ ~Dropped(m) /\ m.kind = "event"
          /\ Broadcast("bus", m.event)
       \/ /\ ~Dropped(m) /\ m.kind = "notice"
          /\ SendUser("bus", m.event)
          /\ UNCHANGED memory
  /\ UNCHANGED <<log, sockets, handler, link, lost, client, bounds>>

BusDone ==
  /\ DropStale("bus")
  /\ UNCHANGED <<log, handler, redis, memory, client, bounds>>

-----------------------------------------------------------------------------
Sends(s) == \E c \in Connections : SendOne(s, c)

Handle(c) ==
  \/ NotifyHere(c) \/ PublishUser(c) \/ BroadcastOwn(c) \/ SendDone(c)
  \/ ReadMissed(c) \/ SendMissed(c) \/ Sends(c)

Listen == BusTake \/ BusDone \/ Sends("bus")

Command(c) == MessageSend(c) \/ Subscribe(c) \/ Unsubscribe(c)

Next ==
  \/ \E c \in Connections : Command(c) \/ Handle(c) \/ HangUp(c) \/ HandlerEnds(c)
  \/ CommitElsewhere
  \/ \E n \in Events : NotifyElsewhere(n) \/ PublishEvent(n)
  \/ LinkDown \/ LinkUp
  \/ Listen

Spec == Init /\ [][Next]_vars

(* Handlers and the subscriber are tasks of the event loop, which goes on  *)
(* with a task when its send or its Redis command is done; the outbox      *)
(* worker publishes every row.  Nothing is assumed of clients.             *)
FairSpec ==
  /\ Spec
  /\ \A c \in Connections : WF_vars(Handle(c))
  /\ WF_vars(Listen)
  /\ \A n \in Events : WF_vars(publishes[n] = 0 /\ PublishEvent(n))

-----------------------------------------------------------------------------
(* Type invariant. *)
TypeOK ==
  /\ length \in 0 .. MaxEvents /\ remote \subseteq 1 .. length
  /\ publishes \in [Events -> 0 .. MaxPublishes]
  /\ socket \in [Connections -> SocketStates]
  /\ registered \subseteq Connections
  /\ step \in [Connections -> Steps]
  /\ sending \in [Connections -> 0 .. length]
  /\ since \in [Connections -> 0 .. length] /\ upto \in [Connections -> 0 .. length]
  /\ \A c \in Connections : ToSet(page[c]) \subseteq 1 .. length /\ Len(page[c]) <= PageLimit
  /\ \A s \in Sources : /\ cast[s].kind \in Kinds /\ cast[s].event \in 0 .. length
                        /\ cast[s].left \cup cast[s].stale \subseteq Connections
  /\ ToSet(seen) \subseteq 1 .. length /\ Len(seen) <= SeenCapacity
  /\ \A m \in ToSet(wire) : m.kind \in Kinds /\ m.event \in 1 .. length /\ m.origin \in Origins
  /\ link \in BOOLEAN /\ lost \subseteq 1 .. length
  /\ breaks \in 0 .. MaxBreaks /\ commands \in 0 .. MaxCommands
  /\ got \in [Connections -> SUBSET (1 .. length)]

OnItsWay(c, n) ==
  \/ n \in ToSet(page[c])
  \/ \E s \in Sources : cast[s].kind = "event" /\ cast[s].event = n /\ c \in cast[s].left
BeyondPage(c, n) == since[c] + PageLimit < n /\ n <= upto[c]
NotYetBroadcast(c, n) == upto[c] < n /\ starts[n] = 0

(* A subscriber whose missed events, if it asked for them, have been read. *)
Following(c) == c \in registered /\ socket[c] = "open" /\ step[c] # "reading"

(* Replay and live delivery leave no hole between them: a subscriber whose *)
(* missed events were read has, or is being sent, every later event this   *)
(* node has broadcast, and every older one but those beyond the page.      *)
NoHole ==
  \A c \in Connections : Following(c) =>
    \A n \in since[c] + 1 .. length :
      n \in got[c] \/ OnItsWay(c, n) \/ BeyondPage(c, n) \/ NotYetBroadcast(c, n)

(* Two handlers that reach a broadcast by different ways, and a publisher  *)
(* that repeats itself: an event is broadcast at most once by its sender's *)
(* handler and once from Redis for each time its id is not remembered.     *)
BroadcastBound == \A n \in Events : starts[n] <= 2 + evictions[n]

(* A notification reaches a connection at most once, although its own node *)
(* also hears of it from Redis.                                            *)
NoticeOnce == \A c \in Connections, n \in Events : told[c][n] <= 1

(* test_handle_pubsub_message_sends_user_event: the notification of        *)
(* another node is sent on to the user's connections.                      *)
NoticeSentOn ==
  [][ \A n \in Events :
        wire # <<>> /\ wire' = Tail(wire) /\ Head(wire) = Message("notice", n, "elsewhere")
          => cast'["bus"].kind = "notice" /\ cast'["bus"].event = n ]_vars

(* A subscriber gets every event of the log, by replay or live, unless it  *)
(* leaves, the event is beyond its page or was published while the node    *)
(* was not listening.                                                      *)
EventArrives ==
  \A c \in Connections, n \in Events :
    (c \in registered /\ n <= length)
      ~> (n \in got[c] \/ c \notin registered \/ socket[c] # "open"
          \/ n <= since[c] \/ BeyondPage(c, n) \/ n \in lost)

-----------------------------------------------------------------------------
(***************************************************************************)
(* The inductive invariant of NoHole.  Only committed events are sent,     *)
(* published or broadcast, and a loop is started only where none is        *)
(* running, so no started delivery is overwritten.                         *)
(***************************************************************************)
Casts == [kind : Kinds, event : Nat, left : SUBSET Connections, stale : SUBSET Connections]
Messages == [kind : Kinds, event : Nat, origin : Origins]

HoleTypes ==
  /\ length \in Nat /\ starts \in [Events -> Nat]
  /\ registered \subseteq Connections /\ socket \in [Connections -> SocketStates]
  /\ step \in [Connections -> Steps]
  /\ sending \in [Connections -> Nat]
  /\ since \in [Connections -> Nat] /\ upto \in [Connections -> Nat]
  /\ page \in [Connections -> Seq(Nat)]
  /\ got \in [Connections -> SUBSET Nat]
  /\ cast \in [Sources -> Casts]
  /\ wire \in Seq(Messages)

OnlyCommitted ==
  /\ length <= MaxEvents /\ remote \subseteq 1 .. length
  /\ \A n \in Events : starts[n] > 0 => n <= length
  /\ \A c \in Connections : since[c] <= length /\ upto[c] <= length
  /\ \A c \in Connections : step[c] \in {"acking", "notifying", "publishing", "casting"}
                             => sending[c] \in 1 .. length
  /\ \A i \in 1 .. Len(wire) : wire[i].event \in 1 .. length

OneLoopEach ==
  \A c \in Connections :
    /\ step[c] \notin {"notifying", "casting"} => cast[c] = NoCast
    /\ step[c] = "notifying" => cast[c].kind = "notice"
    /\ step[c] = "replaying" => page[c] # <<>>

HoleInv == HoleTypes /\ OnlyCommitted /\ OneLoopEach /\ NoHole

=============================================================================
