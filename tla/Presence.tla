------------------------------ MODULE Presence ------------------------------
(***************************************************************************)
(* Presence and typing on one API node: the connection registry            *)
(* (realtime/manager.py), the WebSocket handlers that use it               *)
(* (api/v1/routes/realtime.py) and the stores they write                   *)
(* (realtime/presence_store.py, realtime/typing_store.py, Redis backend).  *)
(*                                                                         *)
(* A handler changes the registry at once and then awaits one Redis        *)
(* command after the other; handlers of other connections run between the  *)
(* commands.  A broadcast that fails on a socket removes the socket from   *)
(* the registry.  Store keys contain the node's id, so nodes do not touch  *)
(* each other's entries.                                                   *)
(***************************************************************************)
EXTENDS Naturals, FiniteSets, Sequences

CONSTANTS
  Connections,  \* WebSocket objects; each is used once
  Users,
  UserOf,       \* authenticated user of a connection
  Rooms,
  MaxCount,     \* bound on the counters of one user in one room
  MaxUpdates,   \* bound on presence.update and typing.update commands
  MaxFailures   \* bound on exceptions that end a handler and crashes of the node

ASSUME PresenceAssumption ==
  /\ IsFiniteSet(Connections) /\ IsFiniteSet(Rooms)
  /\ UserOf \in [Connections -> Users]
  /\ MaxCount \in Nat /\ MaxUpdates \in Nat /\ MaxFailures \in Nat

VARIABLES
  socket,    \* new, open, gone (client left, handler not told), closing, dead
  known,     \* keys of _connection_users
  rooms,     \* _connection_rooms, the inverse of _room_connections
  count,     \* _room_user_counts
  todo,      \* store commands each handler still has to send
  live,      \* entries of the stores that have not expired
  lapsed,    \* presence entries that have expired at least once
  tainted,   \* history: <<room, user>> that met a known cause of ghosts
  undone,    \* history: <<room, user>> whose report of being online was undone
             \* by a late report of being offline or lost to a failing store
  updates, failures

manager == <<known, rooms, count>>
stores == <<live, lapsed>>
history == <<tainted, undone>>
bounds == <<updates, failures>>
vars == <<socket, manager, todo, stores, history, bounds>>

Kinds == {"presence", "typing"}
Entries == Kinds \X Rooms \X Users
Commands == [op : {"mark", "clear"}, kind : Kinds, room : Rooms]

Mark(k, r) == [op |-> "mark", kind |-> k, room |-> r]
Clear(k, r) == [op |-> "clear", kind |-> k, room |-> r]
Entry(c, cmd) == <<cmd.kind, cmd.room, UserOf[c]>>

Subscribed(r, u) == {c \in Connections : UserOf[c] = u /\ r \in rooms[c]}

(* The handler of these will still see the client leave. *)
Attended(r, u) == {c \in Subscribed(r, u) : socket[c] # "dead"}

(* A handler is about to report u online in r. *)
MarkPending(r, u) ==
  \E c \in Connections : \E i \in DOMAIN todo[c] :
    UserOf[c] = u /\ todo[c][i] = Mark("presence", r)

(* A handler between two commands of its socket. *)
Idle(c) == socket[c] \in {"open", "gone"} /\ todo[c] = <<>>

-----------------------------------------------------------------------------
Init ==
  /\ socket = [c \in Connections |-> "new"]
  /\ known = {}
  /\ rooms = [c \in Connections |-> {}]
  /\ count = [r \in Rooms |-> [u \in Users |-> 0]]
  /\ todo = [c \in Connections |-> <<>>]
  /\ live = {} /\ lapsed = {} /\ tainted = {} /\ undone = {}
  /\ updates = 0 /\ failures = 0

(* websocket_endpoint: accept and manager.connect. *)
Connect(c) ==
  /\ socket[c] = "new"
  /\ socket' = [socket EXCEPT ![c] = "open"]
  /\ known' = known \cup {c}
  /\ UNCHANGED <<rooms, count, todo, stores, history, bounds>>

(* The client goes away; the handler learns of it at its next receive.     *)
HangUp(c) ==
  /\ socket[c] = "open"
  /\ socket' = [socket EXCEPT ![c] = "gone"]
  /\ UNCHANGED <<manager, todo, stores, history, bounds>>

(* Any exception but WebSocketDisconnect ends the handler without cleanup: *)
(* the registry keeps the connection and its rooms.                        *)
Die(c) == socket' = [socket EXCEPT ![c] = "dead"]
Abandoned(c) == rooms[c] \X {UserOf[c]}

(* receive_json cannot decode a frame, or a command meets an error of the  *)
(* database (ensure_room_member, list_room_events, create_message) or of   *)
(* its own socket: nothing is left to be written to the stores.            *)
HandlerFails(c) ==
  /\ Idle(c) /\ failures < MaxFailures
  /\ failures' = failures + 1
  /\ tainted' = tainted \cup Abandoned(c)
  /\ Die(c)
  /\ UNCHANGED <<manager, todo, stores, undone, updates>>

(* Seeded fault: the test comes after the increment.                       *)
WasOfflineCounted(r, u) == count[r][u] + 1 = 0

WasOffline(r, u) == count[r][u] = 0

(* room.subscribe by a room member.                                        *)
Subscribe(c, r) ==
  LET u == UserOf[c] IN
  /\ Idle(c) /\ c \in known
  /\ count[r][u] < MaxCount
  /\ rooms' = [rooms EXCEPT ![c] = @ \cup {r}]
  /\ count' = [count EXCEPT ![r][u] = @ + 1]
  /\ todo' = [todo EXCEPT ![c] = IF WasOffline(r, u) THEN <<Mark("presence", r)>> ELSE <<>>]
  /\ tainted' = IF r \in rooms[c] THEN tainted \cup {<<r, u>>} ELSE tainted
  /\ UNCHANGED <<socket, known, stores, undone, bounds>>

(* Seeded fault: unsubscribing a room that is not subscribed counts.       *)
AnyRoom(c, r) == TRUE

CanUnsubscribe(c, r) == r \in rooms[c]

(* manager.unsubscribe for the connections in D and the room r: a counter  *)
(* that would not stay positive is deleted.                                *)
Leaving(D, r, u) == Cardinality({d \in D : UserOf[d] = u /\ CanUnsubscribe(d, r)})

(* Seeded fault: every connection in D counts, subscribed to r or not.     *)
WithoutGuard(D, r, u) == count[r][u] - Cardinality(D)

Without(D, r, u) ==
  IF count[r][u] > Leaving(D, r, u) THEN count[r][u] - Leaving(D, r, u) ELSE 0

(* The commands that follow a report that c's user went offline in r.      *)
ClearBoth(r) == <<Clear("presence", r), Clear("typing", r)>>

(* room.unsubscribe; membership is not asked for.                          *)
Unsubscribe(c, r) ==
  LET u == UserOf[c] IN
  /\ Idle(c) /\ c \in known
  /\ rooms' = [rooms EXCEPT ![c] = @ \ {r}]
  /\ count' = [count EXCEPT ![r][u] = Without({c}, r, u)]
  /\ todo' = [todo EXCEPT ![c] =
                IF CanUnsubscribe(c, r) /\ count'[r][u] = 0 THEN ClearBoth(r) ELSE <<>>]
  /\ UNCHANGED <<socket, known, stores, history, bounds>>

(* room.subscribe or room.unsubscribe on a socket that a broadcast has     *)
(* removed: _connection_users has no such key.                             *)
UnknownSocket(c) ==
  /\ Idle(c) /\ c \notin known
  /\ Die(c)
  /\ UNCHANGED <<manager, todo, stores, history, bounds>>

(* presence.update and typing.update by a room member, subscribed or not.  *)
Update(c, cmd) ==
  /\ Idle(c) /\ updates < MaxUpdates
  /\ cmd # Clear("presence", cmd.room)
  /\ updates' = updates + 1
  /\ todo' = [todo EXCEPT ![c] = <<cmd>>]
  /\ tainted' = IF cmd.room \in rooms[c] THEN tainted
                ELSE tainted \cup {<<cmd.room, UserOf[c]>>}
  /\ UNCHANGED <<socket, manager, stores, undone, failures>>

(* manager.disconnect for the connections in D.                            *)
Forget(D) ==
  /\ known' = known \ D
  /\ rooms' = [c \in Connections |-> IF c \in D THEN {} ELSE rooms[c]]
  /\ count' = [r \in Rooms |-> [u \in Users |-> Without(D, r, u)]]

(* The rooms in which manager.disconnect reports c's user offline.         *)
OfflineRooms(c) == {r \in rooms[c] : Without({c}, r, UserOf[c]) = 0}

(* Both commands for one room after the other.                             *)
ClearAll(s) ==
  [i \in 1 .. 2 * Len(s) |->
     Clear(IF i % 2 = 1 THEN "presence" ELSE "typing", s[(i + 1) \div 2])]

(* Seeded fault: only the first room of the report is cleaned up.          *)
FirstRoomOnly(c) ==
  {IF OfflineRooms(c) = {} THEN <<>> ELSE ClearBoth(CHOOSE r \in OfflineRooms(c) : TRUE)}

(* The loop of the endpoint's except block, in any order of the rooms.     *)
Cleanups(c) ==
  {ClearAll(s) : s \in {s \in [1 .. Cardinality(OfflineRooms(c)) -> OfflineRooms(c)] :
                         \A r \in OfflineRooms(c) : \E i \in DOMAIN s : s[i] = r}}

(* receive_json raises WebSocketDisconnect.                                *)
Disconnect(c) ==
  /\ socket[c] = "gone" /\ todo[c] = <<>>
  /\ socket' = [socket EXCEPT ![c] = "closing"]
  /\ Forget({c})
  /\ \E s \in Cleanups(c) : todo' = [todo EXCEPT ![c] = s]
  /\ UNCHANGED <<stores, history, bounds>>

(* broadcast_room and send_user remove the sockets they cannot write to,   *)
(* and drop the report of who went offline.                                *)
Sweep(D) ==
  /\ D # {} /\ D \subseteq {c \in known : socket[c] \in {"gone", "dead"}}
  /\ \/ \E r \in Rooms : \A c \in D : r \in rooms[c]
     \/ \E u \in Users : \A c \in D : UserOf[c] = u
  /\ Forget(D)
  /\ tainted' = tainted \cup UNION {Abandoned(c) : c \in D}
  /\ UNCHANGED <<socket, todo, stores, undone, bounds>>

-----------------------------------------------------------------------------
(* The Redis commands.                                                     *)
Apply(c, cmd) ==
  LET e == Entry(c, cmd) IN
  /\ live' = IF cmd.op = "mark" THEN live \cup {e} ELSE live \ {e}
  /\ UNCHANGED lapsed

(* The command reports a user offline who is counted again, and nobody is  *)
(* about to correct it.                                                    *)
TooLate(c, cmd) ==
  /\ cmd = Clear("presence", cmd.room)
  /\ count[cmd.room][UserOf[c]] > 0
  /\ ~MarkPending(cmd.room, UserOf[c])

SendCommand(c) ==
  LET cmd == Head(todo[c]) IN
  /\ todo[c] # <<>>
  /\ Apply(c, cmd)
  /\ todo' = [todo EXCEPT ![c] = Tail(@)]
  /\ undone' = IF TooLate(c, cmd) THEN undone \cup {<<cmd.room, UserOf[c]>>} ELSE undone
  /\ UNCHANGED <<socket, manager, tainted, bounds>>

(* The rooms for which c's handler still has to write to some stores. *)
Waiting(c, kinds) ==
  {<<todo[c][i].room, UserOf[c]>> : i \in {j \in DOMAIN todo[c] : todo[c][j].kind \in kinds}}

(* A command raises RedisError, done or not.                               *)
CommandFails(c) ==
  /\ todo[c] # <<>> /\ failures < MaxFailures
  /\ failures' = failures + 1
  /\ Apply(c, Head(todo[c])) \/ UNCHANGED stores
  /\ tainted' = tainted \cup Abandoned(c) \cup Waiting(c, Kinds)
  /\ undone' = undone \cup Waiting(c, {"presence"})
  /\ todo' = [todo EXCEPT ![c] = <<>>]
  /\ Die(c)
  /\ UNCHANGED <<manager, updates>>

(* presence_ttl_seconds, typing_ttl_seconds: nothing renews an entry.      *)
Expire(e) ==
  /\ e \in live
  /\ live' = live \ {e}
  /\ lapsed' = IF e[1] = "presence" THEN lapsed \cup {e} ELSE lapsed
  /\ UNCHANGED <<socket, manager, todo, history, bounds>>

(* list_room reads the expired members and removes them in a later command *)
(* (zrangebyscore, zrem): one marked again in between goes with them.      *)
PurgeExpired(e) ==
  /\ e \in lapsed \cap live
  /\ live' = live \ {e}
  /\ UNCHANGED <<socket, manager, todo, lapsed, history, bounds>>

(* The node dies: connections and registry are lost, Redis keeps its keys. *)
Crash ==
  /\ failures < MaxFailures
  /\ failures' = failures + 1
  /\ socket' = [c \in Connections |-> IF socket[c] = "new" THEN "new" ELSE "dead"]
  /\ known' = {}
  /\ rooms' = [c \in Connections |-> {}]
  /\ count' = [r \in Rooms |-> [u \in Users |-> 0]]
  /\ todo' = [c \in Connections |-> <<>>]
  /\ tainted' = Rooms \X Users
  /\ UNCHANGED <<stores, undone, updates>>

Next ==
  \/ \E c \in Connections :
       \/ Connect(c) \/ HangUp(c) \/ HandlerFails(c) \/ UnknownSocket(c)
       \/ \E r \in Rooms : Subscribe(c, r) \/ Unsubscribe(c, r)
       \/ \E cmd \in Commands : Update(c, cmd)
       \/ Disconnect(c) \/ SendCommand(c) \/ CommandFails(c)
  \/ \E D \in SUBSET Connections : Sweep(D)
  \/ \E e \in Entries : Expire(e) \/ PurgeExpired(e)
  \/ Crash

Spec == Init /\ [][Next]_vars

-----------------------------------------------------------------------------
(* Type invariant. *)
TypeOK ==
  /\ socket \in [Connections -> {"new", "open", "gone", "closing", "dead"}]
  /\ known \subseteq Connections
  /\ rooms \in [Connections -> SUBSET Rooms]
  /\ count \in [Rooms -> [Users -> 0 .. MaxCount]]
  /\ todo \in [Connections -> Seq(Commands)]
  /\ live \subseteq Entries /\ lapsed \subseteq Entries
  /\ tainted \subseteq Rooms \X Users /\ undone \subseteq Rooms \X Users
  /\ updates \in 0 .. MaxUpdates /\ failures \in 0 .. MaxFailures

(* A counter never falls below the number of subscribed connections of the *)
(* user: a report that someone went offline (unsubscribe, disconnect) is   *)
(* never false for a user with another connection in the room.             *)
SubscribersCounted ==
  \A r \in Rooms, u \in Users : count[r][u] >= Cardinality(Subscribed(r, u))

(* A user listed as online or typing in a room has a subscribed connection *)
(* whose handler still runs and will clean up, or is about to be removed.  *)
(* Otherwise one of these happened to the user in that room: subscribed    *)
(* twice over one connection; updated over a connection not subscribed; a  *)
(* subscribed connection swept by a broadcast; its handler ended by an     *)
(* exception other than WebSocketDisconnect, a store's error included; a   *)
(* store's error in the cleanup itself; or the node crashed.               *)
BeingCleared(e) ==
  \E c \in Connections : \E i \in DOMAIN todo[c] :
    todo[c][i].op = "clear" /\ Entry(c, todo[c][i]) = e
GhostsHaveCause ==
  \A e \in live :
    \/ Attended(e[2], e[3]) # {}
    \/ BeingCleared(e)
    \/ <<e[2], e[3]>> \in tainted

(* A user subscribed to a room over any number of connections is listed as *)
(* online there or about to be, although only the first of them marks the  *)
(* user.  Otherwise the entry has expired before (nothing renews it), or   *)
(* another handler cleared it after the user was back (the endpoint clears *)
(* one room after the other), or a command of the presence store failed.   *)
SubscribersListed ==
  \A r \in Rooms, u \in Users :
    Subscribed(r, u) # {} =>
      \/ <<"presence", r, u>> \in live \cup lapsed
      \/ MarkPending(r, u)
      \/ <<r, u>> \in undone

(* tests/test_presence.py: presence clears a user after disconnect.        *)
ClearsAfterDisconnect ==
  \A e \in live :
    \E c \in Connections :
      UserOf[c] = e[3] /\ (socket[c] \in {"open", "gone"} \/ todo[c] # <<>>)

=============================================================================
