------------------------------- MODULE ApiRules -------------------------------
(***************************************************************************)
(* What the endpoints promise about the rows they leave behind, however    *)
(* their statements interleave.  Most rules of the services are checked by *)
(* a SELECT and kept by nothing else, so each property says what holds     *)
(* unless another request has committed a row the rule is about since this *)
(* one began (overtaken), before or after it read the row.                 *)
(***************************************************************************)
EXTENDS Api

Op(q) == call[q].args.op
\* The step is the one in which q does what its current statement says.
Steps(q) == Open(q) /\ pc'[q] # pc[q]
Commits(q) == Doing(q, "commit") /\ pc'[q] # pc[q]
Ends(q, how) == Steps(q) /\ pc'[q] = 0 /\ outcome'[q] = how

Value(d, k, f, v) == IF d[k] = Absent THEN FALSE ELSE d[k][f] = v
There(d, k) == d[k] # Absent

-----------------------------------------------------------------------------
(* Members and owners.                                                     *)

Owners(d, K) == {k \in K : Value(d, k, "role", "owner")}
RoomRows(r) == {RoomMember(r, u) : u \in Users}
WorkspaceRows(w) == {Membership(w, u) : u \in Users}
Groups == {RoomRows(r) : r \in Rooms}
            \cup {WorkspaceRows(r[1]) : r \in Rooms}

\* A room or workspace that has an owner keeps one: the request that ends the
\* last ownership left a room on its own behalf, added a member again with a
\* lower role, removed an owner of the room from the workspace, or was
\* overtaken in a row of the same group (ensure_room_has_another_owner and
\* ensure_workspace_has_another_owner count rows nothing keeps from changing).
LastOwnerKept ==
  [][\A q \in Requests, K \in Groups :
       Commits(q) /\ Owners(db, K) # {} /\ Owners(db', K) = {}
         => \/ Op(q) \in {"leave_room", "add_room_member", "add_workspace_member"}
            \/ Op(q) = "remove_workspace_member"
                 /\ K \notin {WorkspaceRows(r[1]) : r \in Rooms}
            \/ K \cap overtaken[q] # {}]_vars

\* A member of a room is a member of its workspace.  Only a request that was
\* overtaken in one of the two rows leaves one without the other: the two
\* tables have no constraint between them.
MembersBelong ==
  [][\A q \in Requests, r \in Rooms, u \in Users :
       LET in == RoomMember(r, u)
           of == Membership(Home(r), u)
       IN  /\ Commits(q)
           /\ There(db', in) /\ ~There(db', of)
           /\ ~(There(db, in) /\ ~There(db, of))
           => {in, of} \cap overtaken[q] # {}]_vars

\* Friends are friends of each other: add_friend_by_email and remove_friend
\* write both rows or none, and one direction alone comes from requests that
\* overtook each other.
ContactsMutual ==
  [][\A q \in Requests : \A u, v \in Users :
       LET to == UserContact(u, v)
           from == UserContact(v, u)
       IN  /\ Commits(q) /\ u # v
           /\ There(db', to) /\ ~There(db', from)
           /\ ~(There(db, to) /\ ~There(db, from))
           => {to, from} \cap overtaken[q] # {}]_vars

\* A group conversation whose creation is refused was not created, because
\* the invitations are validated first.  It is left with some of its members
\* only when an account or a membership changed in between.
GroupComplete ==
  [][\A q \in Requests :
       LET c == call[q].args
           r == <<Net, <<"group", call[q].id>>>>
           invited == {c.users[i] : i \in DOMAIN c.users}
           needs == {User(u) : u \in invited} \cup {Membership(Net, c.by), RoomMember(r, c.by)}
       IN  Ends(q, "refused") /\ Op(q) = "create_group_conversation" /\ There(db, Room(r))
             => needs \cap overtaken[q] # {}]_vars
-----------------------------------------------------------------------------
(* Messages, reactions, attachments, read positions.                       *)

\* The last event of workspace w that is about row k, if any.
LastOf(d, w, k) ==
  LET about == {n \in EventNumbers : Value(d, Event(w, n), "of", k)} IN
  IF about = {} THEN Absent
  ELSE d[Event(w, CHOOSE n \in about : \A m \in about : m <= n)]

\* Does row k have the value a client derives from that event?
Agrees(d, w, k) ==
  LET e == LastOf(d, w, k) IN
  IF e = Absent THEN TRUE
  ELSE CASE e.type \in {"message.created", "message.updated"} ->
              Value(d, k, "content", e.value) /\ Value(d, k, "deleted", FALSE)
         [] e.type = "message.deleted" -> Value(d, k, "deleted", TRUE)
         [] e.type = "room.read_state_updated" -> Value(d, k, "last_read", e.value)
         [] OTHER -> There(d, k) = e.value

Told == {k \in Keys : k[1] \in {"messages", "message_reactions", "room_read_states"}}

\* A client that replays the events of a room arrives at what the tables
\* hold: contents, deletions, reactions and read positions.  Only a request
\* since whose beginning another has committed the row publishes an event
\* that contradicts it.
ReplayGivesTables ==
  [][\A q \in Requests : Commits(q) =>
       \A k \in Told, w \in {Home(r) : r \in Rooms} :
         Agrees(db, w, k) /\ ~Agrees(db', w, k) => k \in overtaken[q]]_vars

\* An attachment never leaves the message it is on, nor goes back to an
\* earlier status, a read position never falls and nothing is done to a
\* deleted message, except by a request since whose beginning another
\* has committed the row.
Backward(old, new, k) ==
  CASE k[1] = "attachments" ->
         /\ old.status = "attached"
         /\ new.status # "attached" \/ new.message # old.message
    [] k[1] = "room_read_states" -> new.last_read < old.last_read
    [] k[1] = "messages" -> old.deleted /\ new # old
    [] OTHER -> FALSE
RowsMoveForward ==
  [][\A q \in Requests : Commits(q) =>
       \A k \in Keys : There(db, k) /\ There(db', k) /\ Backward(db[k], db'[k], k)
         => k \in overtaken[q]]_vars

\* Everybody else who is in the room is notified of a message, and nobody
\* outside it, apart from members who came or went during the request.
NoticesReachMembers ==
  [][\A q \in Requests :
       LET c == call[q].args
           id == call[q].id
       IN  Commits(q) /\ Op(q) \in {"create_message", "gateway_send"} =>
             \A u \in Users : RoomMember(c.room, u) \notin overtaken[q] =>
               (There(db', Notification(u, id))
                  <=> u # c.by /\ There(db, RoomMember(c.room, u)))]_vars
-----------------------------------------------------------------------------
(* Accounts and secrets.                                                   *)

Admins(d) == {k \in AllUsers : Value(d, k, "is_system_admin", TRUE)
                                 /\ Value(d, k, "is_active", TRUE)}

\* There stays an active system administrator, and registration makes one
\* only of the first user, unless another request changed an account between
\* the count and the commit.
AdminsKept ==
  [][\A q \in Requests : Commits(q) =>
       \/ AllUsers \cap overtaken[q] # {}
       \/ /\ Admins(db) # {} => Admins(db') # {}
          /\ Op(q) = "register" /\ Admins(db') \ Admins(db) # {}
               => \A k \in AllUsers : ~There(db, k)]_vars

\* The row that must be valid for a call to do anything.
Credential(c) ==
  CASE c.op = "create_app_message" -> ApiKey(c.key)
    [] c.op = "deliver_incoming_webhook" -> IncomingWebhook(c.key)
    [] c.op = "refresh" -> AuthSession(c.session)
    [] OTHER -> User(c.by)

\* Calls name operations and rows there may be, with parameters of the types
\* the routes parse.
ASSUME CallsAssumption ==
  \A x \in Scenarios : \A c \in x.calls :
    /\ c.op \in Operations /\ Credential(c) \in Keys
    /\ c.op = "create_group_conversation" => c.users \in Seq(Users)
    /\ c.op = "update_system_user" => \A f \in DOMAIN c.change : c.change[f] \in BOOLEAN
    /\ c.op = "update_room_read_state" => c.seq \in Nat
    /\ c.op \in {"create_message", "gateway_send"} =>
         c.room \in Rooms /\ {Notification(u, m) : u \in Users, m \in 1..MaxCalls} \subseteq Keys

\* The rows to start from have the columns of their tables and are such as calls
\* leave behind: an attachment with status attached is attached to a message, and
\* notifications are of messages that calls have created.
ASSUME RowsAssumption ==
  \A x \in Scenarios : \A k \in Keys : x.db[k] # Absent =>
    /\ DOMAIN x.db[k] = Columns(k)
    /\ k[1] = "attachments" /\ x.db[k].status = "attached" => x.db[k].message # NoMessage
    /\ k[1] = "room_read_states" => x.db[k].last_read \in Nat
    /\ k[1] = "notifications" => k[3] \in 1..x.made

\* The rows that the promises relate to each other are rows there can be.
ASSUME KeysAssumption ==
  \A u \in Users :
    /\ User(u) \in Keys
    /\ \A v \in Users : UserContact(u, v) \in Keys
    /\ \A r \in Rooms : {RoomMember(r, u), Membership(Home(r), u)} \subseteq Keys

ValidRow(d, k) ==
  IF k[1] = "users" THEN Value(d, k, "is_active", TRUE) ELSE Value(d, k, "revoked", FALSE)

\* Nothing is committed for a user deactivated, or with an API key, webhook
\* or refresh token revoked, before the request began.  During the request
\* the secret may be revoked: it is checked once, and for messages of apps in
\* a transaction of its own.
CredentialsHold ==
  [][\A q \in Requests :
       Commits(q) /\ Op(q) \notin {"register", "bootstrap"} =>
         LET k == Credential(call[q].args) IN
         ValidRow(db, k) \/ k \in overtaken[q]]_vars
-----------------------------------------------------------------------------
(* How requests end.                                                       *)

\* Routes of apps whose owner check raises WorkspaceNotFound, which they do not
\* answer, although AppNotFound is "raised when an app does not exist or is not
\* visible to the user".
OfApp == {"get_app", "create_api_key", "create_incoming_webhook", "list_api_keys",
          "list_incoming_webhooks", "revoke_api_key", "revoke_incoming_webhook"}
Outsider(c) ==
  c.op \in OfApp /\ There(db, App(c.app)) /\ ~There(db, Membership(Home(c.app), c.by))

\* A 500 has one of three causes: a deadlock; a row of the statement another
\* request has committed; a non-member calling a route of an app.
CrashNeedsConflict ==
  [][\A q \in Requests : Ends(q, "crashed") =>
       \/ Deadlocked(q)
       \/ current[q].keys \cap overtaken[q] # {}
       \/ Outsider(call[q].args)]_vars
=============================================================================
