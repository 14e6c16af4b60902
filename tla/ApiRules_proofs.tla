---------------------------- MODULE ApiRules_proofs ----------------------------
(***************************************************************************)
(* Proofs about ApiRules, for any users, rooms, rows, tasks and number of  *)
(* calls.  A task runs the endpoint its call names (Routed, which the      *)
(* configurations give by Endpoint <- ApiEndpoint).                        *)
(***************************************************************************)
EXTENDS ApiRules, Transactions_proofs, SequenceTheorems, FiniteSetTheorems

Routed == \A r, s : Endpoint(r, s) = ApiEndpoint(r, s)

-----------------------------------------------------------------------------
(* Who writes what: every endpoint is a body of statements that write the  *)
(* tables T with rows of their columns, and look at the row that entitles  *)
(* to the call first.                                                      *)

Writing == {"insert", "update", "delete", "delete_where"}
Safe(st, T) ==
  /\ st.do \in Writing => \A k \in st.keys : k[1] \in T
  /\ st.do = "insert" => \A k \in st.keys : DOMAIN st.row = Columns(k)
  /\ st.do = "update" => \A k \in st.keys : DOMAIN st.row \subseteq Columns(k)
Sound(b, T) == IsBody(b) /\ \A i \in 1..Len(b) : Safe(b[i], T)

ValidIn(s, k) ==
  IF k[1] = "users" THEN Has(s, k, "is_active", TRUE) ELSE Has(s, k, "revoked", FALSE)
Guarded(b, s, k) ==
  /\ Len(b) >= 2 /\ b[1] = Select({k}) /\ b[2].do \in {"pass", "raise"}
  /\ b[2].do = "pass" => ValidIn(s, k)

LEMMA Joins ==
  ASSUME NEW a, NEW b, IsBody(a), IsBody(b)
  PROVE  /\ IsBody(a \o b) /\ Len(a \o b) = Len(a) + Len(b)
         /\ \A i \in 1..Len(a) : (a \o b)[i] = a[i]
         /\ \A i \in Len(a) + 1..Len(a) + Len(b) : (a \o b)[i] = b[i - Len(a)]
<1> DEFINE S == {a[i] : i \in 1..Len(a)} \cup {b[i] : i \in 1..Len(b)}
<1>1. a \in Seq(S) /\ b \in Seq(S)
  BY DEF IsBody
<1> HIDE DEF S
<1>2. a \o b \in Seq(S) /\ Len(a \o b) = Len(a) + Len(b)
  BY <1>1, ConcatProperties
<1>3. Len(a \o b) \in Nat /\ a \o b \in [1..Len(a \o b) -> S]
  BY <1>2, LenProperties
<1>4. IsBody(a \o b)
  BY <1>3 DEF IsBody
<1>5. \A i \in 1..Len(a) + Len(b) :
        (a \o b)[i] = IF i <= Len(a) THEN a[i] ELSE b[i - Len(a)]
  BY <1>1, ConcatProperties
<1>6. Len(a) \in Nat /\ Len(b) \in Nat
  BY DEF IsBody
<1> QED
  BY <1>2, <1>4, <1>5, <1>6

LEMMA Cat ==
  ASSUME NEW a, NEW b, NEW T, Sound(a, T), Sound(b, T)
  PROVE  Sound(a \o b, T)
<1>1. IsBody(a) /\ IsBody(b) /\ Len(a) \in Nat /\ Len(b) \in Nat
  BY DEF Sound, IsBody
<1>2. ASSUME NEW i \in 1..Len(a) + Len(b) PROVE Safe((a \o b)[i], T)
  <2>1. CASE i <= Len(a)
    BY <1>1, <2>1, Joins DEF Sound
  <2>2. CASE i > Len(a)
    <3>1. i - Len(a) \in 1..Len(b)
      BY <1>1, <2>2
    <3> QED
      BY <1>1, <2>2, <3>1, Joins DEF Sound
  <2> QED
    BY <1>1, <2>1, <2>2
<1> QED
  BY <1>1, <1>2, Joins DEF Sound

LEMMA Tuple0 ==
  ASSUME NEW T
  PROVE  Sound(<< >>, T)
BY DEF Sound, IsBody

LEMMA Tuple1 ==
  ASSUME NEW T, NEW a,
         Safe(a, T)
  PROVE  Sound(<<a>>, T)
BY DEF Sound, IsBody

LEMMA Tuple2 ==
  ASSUME NEW T, NEW a, NEW b,
         Safe(a, T), Safe(b, T)
  PROVE  Sound(<<a, b>>, T)
BY DEF Sound, IsBody

LEMMA Tuple3 ==
  ASSUME NEW T, NEW a, NEW b, NEW c,
         Safe(a, T), Safe(b, T), Safe(c, T)
  PROVE  Sound(<<a, b, c>>, T)
BY DEF Sound, IsBody

LEMMA Tuple4 ==
  ASSUME NEW T, NEW a, NEW b, NEW c, NEW d,
         Safe(a, T), Safe(b, T), Safe(c, T), Safe(d, T)
  PROVE  Sound(<<a, b, c, d>>, T)
BY DEF Sound, IsBody

LEMMA Tuple5 ==
  ASSUME NEW T, NEW a, NEW b, NEW c, NEW d, NEW e,
         Safe(a, T), Safe(b, T), Safe(c, T), Safe(d, T), Safe(e, T)
  PROVE  Sound(<<a, b, c, d, e>>, T)
BY DEF Sound, IsBody

LEMMA Tuple6 ==
  ASSUME NEW T, NEW a, NEW b, NEW c, NEW d, NEW e, NEW f,
         Safe(a, T), Safe(b, T), Safe(c, T), Safe(d, T), Safe(e, T), Safe(f, T)
  PROVE  Sound(<<a, b, c, d, e, f>>, T)
BY DEF Sound, IsBody

LEMMA Silent ==
  ASSUME NEW T
  PROVE  /\ \A K : Safe(Select(K), T) /\ Safe(Count(K), T)
         /\ \A k : Safe(Refresh(k), T)
         /\ Safe(Commit, T) /\ Safe(Return, T) /\ Safe(Pass, T)
         /\ \A e : Safe(Raise(e), T)
         /\ \A p, e : Safe(Require(p, e), T)
BY DEF Safe, Select, Count, Refresh, Commit, Return, Pass, Raise, Require, Statement, Writing

(* Statements that write rows of tables in T with their columns.           *)
LEMMA InsertSafe ==
  ASSUME NEW T, NEW k, NEW row, NEW e, k[1] \in T, DOMAIN row = Columns(k)
  PROVE  Safe(InsertOr(k, row, e), T) /\ Safe(Insert(k, row), T)
BY DEF Safe, Insert, InsertOr, Statement

LEMMA UpdateSafe ==
  ASSUME NEW T, NEW k, NEW change, k[1] \in T, DOMAIN change \subseteq Columns(k)
  PROVE  Safe(Update(k, change), T) /\ \A s : Safe(Assign(s, k, change), T)
<1>1. Safe(Update(k, change), T)
  BY DEF Safe, Update, Statement
<1> QED
  BY <1>1, Silent DEF Assign

LEMMA DeleteSafe ==
  ASSUME NEW T, NEW k, k[1] \in T
  PROVE  Safe(Delete(k), T) /\ Safe(DeleteWhere({k}), T)
BY DEF Safe, Delete, DeleteWhere, Statement

LEMMA InsertAllSafe ==
  ASSUME NEW T, NEW K, NEW row, \A k \in K : k[1] \in T /\ DOMAIN row = Columns(k)
  PROVE  Safe(InsertAll(K, row), T)
BY DEF Safe, InsertAll, Statement

LEMMA UpdateAllSafe ==
  ASSUME NEW T, NEW K, NEW change,
         \A k \in K : k[1] \in T /\ DOMAIN change \subseteq Columns(k)
  PROVE  Safe(UpdateAll(K, change), T)
BY Silent DEF Safe, UpdateAll, Statement

LEMMA DeleteWhereSafe ==
  ASSUME NEW T, NEW K, \A k \in K : k[1] \in T
  PROVE  Safe(DeleteWhere(K), T)
BY DEF Safe, DeleteWhere, Statement

(* What is written to each table has the columns of the table.             *)
LEMMA MembershipWrites ==
  ASSUME NEW T, "memberships" \in T, NEW w, NEW u
  PROVE  /\ Safe(Insert(Membership(w, u), Member), T)
         /\ \A e : Safe(InsertOr(Membership(w, u), Owner, e), T)
         /\ \A x : Safe(Insert(Membership(w, u), AsRole(x)), T)
         /\ \A s, x : Safe(Assign(s, Membership(w, u), AsRole(x)), T)
         /\ Safe(Delete(Membership(w, u)), T)
BY DeleteSafe, InsertSafe, UpdateSafe DEF Membership, Columns, Schema, Owner, Member, AsRole

LEMMA RoomMemberWrites ==
  ASSUME NEW T, "room_members" \in T
  PROVE  /\ \A r, u : Safe(Insert(RoomMember(r, u), Member), T)
         /\ \A r, u, e : Safe(InsertOr(RoomMember(r, u), Owner, e), T)
         /\ \A r, u, x : Safe(Insert(RoomMember(r, u), AsRole(x)), T)
         /\ \A s, r, u, x : Safe(Assign(s, RoomMember(r, u), AsRole(x)), T)
         /\ \A r, u : Safe(Delete(RoomMember(r, u)), T)
         /\ \A r, u : Safe(DeleteWhere({RoomMember(r, u)}), T)
         /\ \A R, u : Safe(DeleteWhere({RoomMember(r, u) : r \in R}), T)
<1>1. ASSUME NEW r, NEW u
      PROVE  /\ Safe(Insert(RoomMember(r, u), Member), T)
             /\ \A e : Safe(InsertOr(RoomMember(r, u), Owner, e), T)
             /\ \A x : Safe(Insert(RoomMember(r, u), AsRole(x)), T)
             /\ \A s, x : Safe(Assign(s, RoomMember(r, u), AsRole(x)), T)
             /\ Safe(Delete(RoomMember(r, u)), T)
             /\ Safe(DeleteWhere({RoomMember(r, u)}), T)
  BY DeleteSafe, InsertSafe, UpdateSafe
     DEF RoomMember, Columns, Schema, Owner, Member, AsRole
<1>2. ASSUME NEW R, NEW u PROVE Safe(DeleteWhere({RoomMember(r, u) : r \in R}), T)
  <2>1. \A k \in {RoomMember(r, u) : r \in R} : k[1] \in T
    BY DEF RoomMember
  <2> QED
    BY <2>1, DeleteWhereSafe
<1> QED
  BY <1>1, <1>2

LEMMA WorkspaceWrites ==
  ASSUME NEW T, "workspaces" \in T, NEW w
  PROVE  /\ \A e : Safe(InsertOr(Workspace(w), Plain, e), T)
BY InsertSafe DEF Workspace, Columns, Schema, Plain

LEMMA RoomWrites ==
  ASSUME NEW T, "rooms" \in T, NEW r
  PROVE  /\ \A e : Safe(InsertOr(Room(r), Plain, e), T)
         /\ Safe(Insert(Room(r), Plain), T)
BY InsertSafe DEF Room, Columns, Schema, Plain

LEMMA UserContactWrites ==
  ASSUME NEW T, "user_contacts" \in T, NEW u, NEW v
  PROVE  /\ Safe(Insert(UserContact(u, v), Plain), T)
         /\ Safe(DeleteWhere({UserContact(u, v)}), T)
BY DeleteSafe, InsertSafe DEF UserContact, Columns, Schema, Plain

LEMMA MessageWrites ==
  ASSUME NEW T, "messages" \in T, NEW m
  PROVE  /\ \A x, r, u : Safe(Insert(Message(m), NewMessage(r, u, x)), T)
         /\ \A x : Safe(Update(Message(m), [content |-> x]), T)
         /\ Safe(Update(Message(m), [deleted |-> TRUE]), T)
BY InsertSafe, UpdateSafe DEF Message, Columns, Schema, NewMessage

LEMMA EventWrites ==
  ASSUME NEW T, "events" \in T, NEW w, NEW n
  PROVE  /\ \A x, r, k, t : Safe(Insert(Event(w, n), NewEvent(r, t, k, x)), T)
BY InsertSafe DEF Event, Columns, Schema, NewEvent

LEMMA MessageReactionWrites ==
  ASSUME NEW T, "message_reactions" \in T, NEW m, NEW u
  PROVE  /\ \A e : Safe(InsertOr(MessageReaction(m, u), Plain, e), T)
         /\ Safe(Delete(MessageReaction(m, u)), T)
BY DeleteSafe, InsertSafe DEF MessageReaction, Columns, Schema, Plain

LEMMA AttachmentWrites ==
  ASSUME NEW T, "attachments" \in T
  PROVE  /\ \A x, r, u, t, m : Safe(Insert(Attachment(x),
              [uploader |-> u, room |-> r, message |-> m, status |-> t]), T)
         /\ \A x, s, t : Safe(Assign(s, Attachment(x), [status |-> t]), T)
         /\ \A X, m, t : Safe(UpdateAll({Attachment(x) : x \in X},
              [message |-> m, status |-> t]), T)
<1>1. \A x : Attachment(x)[1] = "attachments"
             /\ Columns(Attachment(x)) = {"uploader", "room", "message", "status"}
  BY DEF Attachment, Columns, Schema
<1>2. ASSUME NEW x, NEW r, NEW u, NEW t, NEW m
      PROVE  Safe(Insert(Attachment(x),
                    [uploader |-> u, room |-> r, message |-> m, status |-> t]), T)
  BY <1>1, InsertSafe
<1>3. ASSUME NEW x, NEW s, NEW t PROVE Safe(Assign(s, Attachment(x), [status |-> t]), T)
  BY <1>1, UpdateSafe
<1>4. ASSUME NEW X, NEW m, NEW t
      PROVE  Safe(UpdateAll({Attachment(x) : x \in X}, [message |-> m, status |-> t]), T)
  BY <1>1, UpdateAllSafe
<1> QED
  BY <1>2, <1>3, <1>4

LEMMA RoomReadStateWrites ==
  ASSUME NEW T, "room_read_states" \in T, NEW r, NEW u
  PROVE  /\ \A n : Safe(Insert(RoomReadState(r, u), [last_read |-> n]), T)
         /\ \A n : Safe(Update(RoomReadState(r, u), [last_read |-> n]), T)
BY InsertSafe, UpdateSafe DEF RoomReadState, Columns, Schema

LEMMA NotificationWrites ==
  ASSUME NEW T, "notifications" \in T
  PROVE  /\ \A s, u, m : Safe(Assign(s, Notification(u, m), [read |-> TRUE]), T)
         /\ \A U, m : Safe(InsertAll({Notification(v, m) : v \in U}, [read |-> FALSE]), T)
         /\ \A s, u, M : LET K == {Notification(u, m) : m \in M} IN
              Safe(UpdateAll({k \in K : Has(s, k, "read", FALSE)}, [read |-> TRUE]), T)
<1>1. \A u, m : Notification(u, m)[1] = "notifications"
                /\ Columns(Notification(u, m)) = {"read"}
  BY DEF Notification, Columns, Schema
<1>2. ASSUME NEW s, NEW u, NEW m PROVE Safe(Assign(s, Notification(u, m), [read |-> TRUE]), T)
  BY <1>1, UpdateSafe
<1>3. ASSUME NEW U, NEW m
      PROVE  Safe(InsertAll({Notification(v, m) : v \in U}, [read |-> FALSE]), T)
  <2>1. DOMAIN [read |-> FALSE] = {"read"}
    OBVIOUS
  <2>2. \A k \in {Notification(v, m) : v \in U} :
          k[1] \in T /\ DOMAIN [read |-> FALSE] = Columns(k)
    BY <1>1, <2>1
  <2> QED
    BY <2>2, InsertAllSafe
<1>4. ASSUME NEW s, NEW u, NEW M
      PROVE  LET K == {Notification(u, m) : m \in M} IN
              Safe(UpdateAll({k \in K : Has(s, k, "read", FALSE)}, [read |-> TRUE]), T)
  <2> DEFINE K == {k \in {Notification(u, m) : m \in M} : Has(s, k, "read", FALSE)}
  <2>1. DOMAIN [read |-> TRUE] = {"read"}
    OBVIOUS
  <2>2. \A k \in K : k[1] \in T /\ DOMAIN [read |-> TRUE] \subseteq Columns(k)
    BY <1>1, <2>1
  <2> HIDE DEF K
  <2>3. Safe(UpdateAll(K, [read |-> TRUE]), T)
    BY <2>2, UpdateAllSafe
  <2> QED
    BY <2>3 DEF K
<1> QED
  BY <1>2, <1>3, <1>4

LEMMA UserWrites ==
  ASSUME NEW T, "users" \in T, NEW u
  PROVE  /\ \A e, x : Safe(InsertOr(User(u), Account(x), e), T)
         /\ \A x : Safe(Insert(User(u), Account(x)), T)
         /\ \A x : Safe(Update(User(u), Account(x)), T)
         /\ \A x : Safe(Update(User(u), [f \in {"is_active"} |-> x]), T)
         /\ \A x : Safe(Update(User(u), [f \in {"is_system_admin"} |-> x]), T)
BY InsertSafe, UpdateSafe DEF User, Columns, Schema, Account

LEMMA AuthSessionWrites ==
  ASSUME NEW T, "auth_sessions" \in T, NEW x
  PROVE  /\ \A u, t : Safe(Insert(AuthSession(x), [user |-> u, revoked |-> t]), T)
         /\ \A t : Safe(Update(AuthSession(x), [revoked |-> t]), T)
         /\ Safe(Touch(AuthSession(x)), T)
BY InsertSafe, UpdateSafe DEF AuthSession, Columns, Schema, Touch, NoRows

LEMMA AppWrites ==
  ASSUME NEW T, "apps" \in T, NEW a
  PROVE  /\ \A e : Safe(InsertOr(App(a), Plain, e), T)
BY InsertSafe DEF App, Columns, Schema, Plain

LEMMA BotWrites ==
  ASSUME NEW T, "bots" \in T, NEW a
  PROVE  /\ \A e : Safe(InsertOr(Bot(a), Plain, e), T)
BY InsertSafe DEF Bot, Columns, Schema, Plain

LEMMA ApiKeyWrites ==
  ASSUME NEW T, "api_keys" \in T, NEW x
  PROVE  /\ \A u, t : Safe(Insert(ApiKey(x), [app |-> u, revoked |-> t]), T)
         /\ \A t : Safe(Update(ApiKey(x), [revoked |-> t]), T)
         /\ Safe(Touch(ApiKey(x)), T)
BY InsertSafe, UpdateSafe DEF ApiKey, Columns, Schema, Touch, NoRows

LEMMA IncomingWebhookWrites ==
  ASSUME NEW T, "incoming_webhooks" \in T, NEW x
  PROVE  /\ \A r, u, t : Safe(Insert(IncomingWebhook(x), [app |-> u, room |-> r, revoked |-> t]), T)
         /\ \A t : Safe(Update(IncomingWebhook(x), [revoked |-> t]), T)
         /\ Safe(Touch(IncomingWebhook(x)), T)
BY InsertSafe, UpdateSafe DEF IncomingWebhook, Columns, Schema, Touch, NoRows

(* The checks of the services only read.                                   *)
LEMMA ChecksSound ==
  ASSUME NEW T
  PROVE  /\ \A s, c : Sound(get_current_user(s, c), T)
         /\ \A s, u, w : Sound(get_workspace_for_user(s, u, w), T)
         /\ \A s, u, w : Sound(require_workspace_owner(s, u, w), T)
         /\ \A s, w, u : Sound(get_workspace_membership_with_user(s, w, u), T)
         /\ \A s, k, others, e : Sound(AnotherOwner(s, k, others, e), T)
         /\ \A s, u, r : Sound(get_room_for_user(s, u, r), T)
         /\ \A s, u, r : Sound(require_room_manager(s, u, r), T)
         /\ \A s, r, u : Sound(get_room_member_with_user(s, r, u), T)
         /\ \A s, u, r : Sound(ensure_room_member(s, u, r), T)
         /\ \A s, r, m : Sound(get_visible_message(s, r, m), T)
         /\ \A s, u, r, m : Sound(get_mutable_message(s, u, r, m), T)
         /\ \A s, r, m : Sound(get_reply_target(s, r, m), T)
         /\ \A s, u, r, X : Sound(get_attachable_attachments(s, u, r, X), T)
         /\ \A s, u, r, x : Sound(get_owned_room_attachment(s, u, r, x), T)
         /\ \A s, c : Sound(get_app_for_owner(s, c), T)
         /\ \A s, a : Sound(get_bot_for_app(s, a), T)
         /\ \A s, one : Sound(ensure_not_last_active_system_admin(s, one), T)
         /\ \A s, w, u : Sound(ensure_workspace_has_another_owner(s, w, u), T)
         /\ \A s, r, u : Sound(ensure_room_has_another_owner(s, r, u), T)
         /\ \A s, c : Sound(list_room_events(s, c), T)
<1>1. ASSUME NEW s, NEW c
      PROVE  Sound(get_current_user(s, c), T)
  BY Silent, Tuple2 DEF get_current_user
<1>2. ASSUME NEW s, NEW u, NEW w
      PROVE  Sound(get_workspace_for_user(s, u, w), T)
  BY Silent, Tuple2 DEF get_workspace_for_user
<1>3. ASSUME NEW s, NEW u, NEW w
      PROVE  Sound(require_workspace_owner(s, u, w), T)
  BY Silent, Tuple1, Cat, <1>2 DEF require_workspace_owner
<1>4. ASSUME NEW s, NEW w, NEW u
      PROVE  Sound(get_workspace_membership_with_user(s, w, u), T)
  BY Silent, Tuple2 DEF get_workspace_membership_with_user
<1>5. ASSUME NEW s, NEW k, NEW others, NEW e
      PROVE  Sound(AnotherOwner(s, k, others, e), T)
  BY Silent, Tuple2 DEF AnotherOwner
<1>6. ASSUME NEW s, NEW u, NEW r
      PROVE  Sound(get_room_for_user(s, u, r), T)
  BY Silent, Tuple2 DEF get_room_for_user
<1>7. ASSUME NEW s, NEW u, NEW r
      PROVE  Sound(require_room_manager(s, u, r), T)
  BY Silent, Tuple3 DEF require_room_manager
<1>8. ASSUME NEW s, NEW r, NEW u
      PROVE  Sound(get_room_member_with_user(s, r, u), T)
  BY Silent, Tuple2 DEF get_room_member_with_user
<1>9. ASSUME NEW s, NEW u, NEW r
      PROVE  Sound(ensure_room_member(s, u, r), T)
  BY Silent, Tuple1, Cat, <1>6 DEF ensure_room_member
<1>10. ASSUME NEW s, NEW r, NEW m
      PROVE  Sound(get_visible_message(s, r, m), T)
  BY Silent, Tuple2 DEF get_visible_message
<1>11. ASSUME NEW s, NEW u, NEW r, NEW m
      PROVE  Sound(get_mutable_message(s, u, r, m), T)
  BY Silent, Tuple1, Cat, <1>10 DEF get_mutable_message
<1>12. ASSUME NEW s, NEW r, NEW m
      PROVE  Sound(get_reply_target(s, r, m), T)
  BY Tuple0, <1>10 DEF get_reply_target
<1>13. ASSUME NEW s, NEW u, NEW r, NEW X
      PROVE  Sound(get_attachable_attachments(s, u, r, X), T)
  BY Tuple0, Silent, Tuple2 DEF get_attachable_attachments
<1>14. ASSUME NEW s, NEW u, NEW r, NEW x
      PROVE  Sound(get_owned_room_attachment(s, u, r, x), T)
  BY Silent, Tuple2 DEF get_owned_room_attachment
<1>15. ASSUME NEW s, NEW c
      PROVE  Sound(get_app_for_owner(s, c), T)
  BY Silent, Tuple2, Cat, <1>3 DEF get_app_for_owner
<1>16. ASSUME NEW s, NEW a
      PROVE  Sound(get_bot_for_app(s, a), T)
  BY Silent, Tuple2 DEF get_bot_for_app
<1>17. ASSUME NEW s, NEW one
      PROVE  Sound(ensure_not_last_active_system_admin(s, one), T)
  BY Silent, Tuple2 DEF ensure_not_last_active_system_admin
<1>18. ASSUME NEW s, NEW w, NEW u
      PROVE  Sound(ensure_workspace_has_another_owner(s, w, u), T)
  BY <1>5 DEF ensure_workspace_has_another_owner
<1>19. ASSUME NEW s, NEW r, NEW u
      PROVE  Sound(ensure_room_has_another_owner(s, r, u), T)
  BY <1>5 DEF ensure_room_has_another_owner
<1>20. ASSUME NEW s, NEW c
      PROVE  Sound(list_room_events(s, c), T)
  BY Silent, Tuple1, Cat, <1>9 DEF list_room_events
<1> QED
  BY <1>1, <1>2, <1>3, <1>4, <1>5, <1>6, <1>7, <1>8, <1>9, <1>10, <1>11, <1>12, <1>13, <1>14, <1>15, <1>16, <1>17, <1>18, <1>19, <1>20

(* The helpers that write a row if it is missing.                          *)
LEMMA EnsuresSound ==
  ASSUME NEW T
  PROVE  /\ \A s, w, u : "memberships" \in T => Sound(ensure_workspace_membership(s, w, u), T)
         /\ \A s, r, u, role : "room_members" \in T => Sound(ensure_room_membership(s, r, u, role), T)
         /\ \A s, u, v : "user_contacts" \in T => Sound(ensure_contact(s, u, v), T)
         /\ \A s, u, v : "user_contacts" \in T => Sound(ensure_mutual_contacts(s, u, v), T)
         /\ \A s, w, u, role : "memberships" \in T => Sound(Upsert(s, Membership(w, u), role), T)
         /\ \A s, r, u, role : "room_members" \in T => Sound(Upsert(s, RoomMember(r, u), role), T)
         /\ \A s, u : {"workspaces", "memberships"} \subseteq T => Sound(ensure_conversation_workspace(s, u), T)
         /\ \A s, r, t, k, v : "events" \in T => Sound(create_message_event(s, NewEvent(r, t, k, v)), T)
         /\ \A s, r, m, u : "notifications" \in T => Sound(create_message_notifications(s, r, m, u), T)
<1>1. ASSUME NEW s, NEW w, NEW u, "memberships" \in T
      PROVE  Sound(ensure_workspace_membership(s, w, u), T)
  BY <1>1, Silent, Tuple2, MembershipWrites DEF ensure_workspace_membership
<1>2. ASSUME NEW s, NEW r, NEW u, NEW role, "room_members" \in T
      PROVE  Sound(ensure_room_membership(s, r, u, role), T)
  BY <1>2, Silent, Tuple2, RoomMemberWrites DEF ensure_room_membership
<1>3. ASSUME NEW s, NEW u, NEW v, "user_contacts" \in T
      PROVE  Sound(ensure_contact(s, u, v), T)
  BY <1>3, Silent, Tuple2, UserContactWrites DEF ensure_contact
<1>4. ASSUME NEW s, NEW u, NEW v, "user_contacts" \in T
      PROVE  Sound(ensure_mutual_contacts(s, u, v), T)
  BY <1>4, Cat, <1>3 DEF ensure_mutual_contacts
<1>5. ASSUME NEW s, NEW w, NEW u, NEW role, "memberships" \in T
      PROVE  Sound(Upsert(s, Membership(w, u), role), T)
  BY <1>5, Silent, Tuple2, MembershipWrites DEF Upsert
<1>6. ASSUME NEW s, NEW r, NEW u, NEW role, "room_members" \in T
      PROVE  Sound(Upsert(s, RoomMember(r, u), role), T)
  BY <1>6, Silent, Tuple2, RoomMemberWrites DEF Upsert
<1>7. ASSUME NEW s, NEW u, "workspaces" \in T, "memberships" \in T
      PROVE  Sound(ensure_conversation_workspace(s, u), T)
  <2>1. Sound(<< Select({Workspace(Net)}), IF Exists(s, Workspace(Net)) THEN Pass ELSE InsertOr(Workspace(Net), Plain, "SlugAlreadyExists") >>, T)
    BY <1>7, Silent, Tuple2, WorkspaceWrites
  <2>2. Sound(ensure_workspace_membership(s, Net, u), T)
    BY <1>7, <1>1
  <2>3. Sound(<< Commit >>, T)
    BY <1>7, Silent, Tuple1
  <2> QED
    BY <2>1, <2>2, <2>3, Cat DEF ensure_conversation_workspace
<1>8. ASSUME NEW s, NEW r, NEW t, NEW k, NEW v, "events" \in T
      PROVE  Sound(create_message_event(s, NewEvent(r, t, k, v)), T)
  BY <1>8, Silent, Tuple2, EventWrites DEF create_message_event
<1>9. ASSUME NEW s, NEW r, NEW m, NEW u, "notifications" \in T
      PROVE  Sound(create_message_notifications(s, r, m, u), T)
  BY <1>9, Silent, Tuple2, NotificationWrites DEF create_message_notifications
<1> QED
  BY <1>1, <1>2, <1>3, <1>4, <1>5, <1>6, <1>7, <1>8, <1>9

(* What the workspace services write.                                      *)
LEMMA WorkspacesSound ==
  ASSUME NEW T
  PROVE  /\ \A s, c : {"workspaces", "memberships"} \subseteq T => Sound(create_workspace(s, c), T)
         /\ \A s, c : "memberships" \in T => Sound(add_workspace_member(s, c), T)
         /\ \A s, c : Sound(list_workspaces(s, c), T)
         /\ \A s, c : Sound(list_workspace_members(s, c), T)
         /\ \A s, c : "memberships" \in T => Sound(update_workspace_member_role(s, c), T)
         /\ \A s, c : {"memberships", "room_members"} \subseteq T => Sound(remove_workspace_member(s, c), T)
<1>1. ASSUME NEW s, NEW c, "workspaces" \in T, "memberships" \in T
      PROVE  Sound(create_workspace(s, c), T)
  BY <1>1, Silent, Tuple3, WorkspaceWrites, MembershipWrites DEF create_workspace
<1>2. ASSUME NEW s, NEW c, "memberships" \in T
      PROVE  Sound(add_workspace_member(s, c), T)
  <2>1. Sound(require_workspace_owner(s, c.by, c.ws), T)
    BY <1>2, ChecksSound
  <2>2. Sound(<< Select({User(c.user)}), Require(Exists(s, User(c.user)), "UserNotFound") >>, T)
    BY <1>2, Silent, Tuple2
  <2>3. Sound(Upsert(s, Membership(c.ws, c.user), c.role), T)
    BY <1>2, EnsuresSound
  <2>4. Sound(<< Commit, Refresh(Membership(c.ws, c.user)) >>, T)
    BY <1>2, Silent, Tuple2
  <2> QED
    BY <2>1, <2>2, <2>3, <2>4, Cat DEF add_workspace_member
<1>3. ASSUME NEW s, NEW c
      PROVE  Sound(list_workspaces(s, c), T)
  BY Silent, Tuple1 DEF list_workspaces
<1>4. ASSUME NEW s, NEW c
      PROVE  Sound(list_workspace_members(s, c), T)
  BY Silent, Tuple1, Cat, ChecksSound DEF list_workspace_members
<1>5. ASSUME NEW s, NEW c, "memberships" \in T
      PROVE  Sound(update_workspace_member_role(s, c), T)
  <2>1. Sound(require_workspace_owner(s, c.by, c.ws), T)
    BY <1>5, ChecksSound
  <2>2. Sound(get_workspace_membership_with_user(s, c.ws, c.user), T)
    BY <1>5, ChecksSound
  <2>3. Sound(IF c.role = "owner" THEN << >> ELSE ensure_workspace_has_another_owner(s, c.ws, c.user), T)
    BY <1>5, ChecksSound, Tuple0
  <2>4. Sound(<< Assign(s, Membership(c.ws, c.user), AsRole(c.role)), Commit, Refresh(Membership(c.ws, c.user)) >>, T)
    BY <1>5, MembershipWrites, Silent, Tuple3
  <2> QED
    BY <2>1, <2>2, <2>3, <2>4, Cat DEF update_workspace_member_role
<1>6. ASSUME NEW s, NEW c, "memberships" \in T, "room_members" \in T
      PROVE  Sound(remove_workspace_member(s, c), T)
  <2>1. Sound(require_workspace_owner(s, c.by, c.ws), T)
    BY <1>6, ChecksSound
  <2>2. Sound(get_workspace_membership_with_user(s, c.ws, c.user), T)
    BY <1>6, ChecksSound
  <2>3. Sound(ensure_workspace_has_another_owner(s, c.ws, c.user), T)
    BY <1>6, ChecksSound
  <2>4. Sound(<< DeleteWhere({RoomMember(r, c.user) : r \in RoomsOf(c.ws)}), Delete(Membership(c.ws, c.user)), Commit >>, T)
    BY <1>6, MembershipWrites, RoomMemberWrites, Silent, Tuple3
  <2> QED
    BY <2>1, <2>2, <2>3, <2>4, Cat DEF remove_workspace_member
<1> QED
  BY <1>1, <1>2, <1>3, <1>4, <1>5, <1>6

(* What the room services write.                                           *)
LEMMA RoomsSound ==
  ASSUME NEW T
  PROVE  /\ \A s, u, r : {"rooms", "room_members"} \subseteq T => Sound(create_room(s, u, r), T)
         /\ \A s, u, w, v : {"memberships", "rooms", "room_members", "user_contacts"} \subseteq T => Sound(start_direct_conversation(s, u, w, v), T)
         /\ \A s, c : "room_members" \in T => Sound(add_room_member(s, c), T)
         /\ \A s, u, r, v, role : {"memberships", "room_members"} \subseteq T => Sound(invite_room_member_by_email(s, u, r, v, role), T)
         /\ \A s, c : "room_members" \in T => Sound(update_room_member_role(s, c), T)
         /\ \A s, c : "room_members" \in T => Sound(remove_room_member(s, c), T)
         /\ \A s, c : Sound(list_rooms(s, c), T)
         /\ \A s, c : Sound(list_room_members(s, c), T)
         /\ \A s, c : "room_members" \in T => Sound(join_room(s, c), T)
         /\ \A s, c : "room_members" \in T => Sound(leave_room(s, c), T)
<1>1. ASSUME NEW s, NEW u, NEW r, "rooms" \in T, "room_members" \in T
      PROVE  Sound(create_room(s, u, r), T)
  <2>1. Sound(get_workspace_for_user(s, u, Home(r)), T)
    BY <1>1, ChecksSound
  <2>2. Sound(<< InsertOr(Room(r), Plain, "SlugAlreadyExists"), InsertOr(RoomMember(r, u), Owner, "SlugAlreadyExists"), Commit >>, T)
    BY <1>1, Silent, Tuple3, RoomWrites, RoomMemberWrites
  <2> QED
    BY <2>1, <2>2, Cat DEF create_room
<1>2. ASSUME NEW s, NEW u, NEW w, NEW v, "memberships" \in T, "rooms" \in T, "room_members" \in T, "user_contacts" \in T
      PROVE  Sound(start_direct_conversation(s, u, w, v), T)
  <2>1. Sound(get_workspace_for_user(s, u, w), T)
    BY <1>2, ChecksSound
  <2>2. Sound(<< Select({User(v)}), Require(Active(s, v), "UserNotFound"), Require(u # v, "SelfConversation") >>, T)
    BY <1>2, Silent, Tuple3
  <2>3. Sound(ensure_workspace_membership(s, w, v), T)
    BY <1>2, EnsuresSound
  <2>4. Sound(ensure_mutual_contacts(s, u, v), T)
    BY <1>2, EnsuresSound
  <2>5. Sound(<< Select({Room(<<w, direct_conversation_slug(u, v)>>)}), IF Exists(s, Room(<<w, direct_conversation_slug(u, v)>>)) THEN Pass ELSE Insert(Room(<<w, direct_conversation_slug(u, v)>>), Plain) >>, T)
    BY <1>2, Silent, Tuple2, RoomWrites
  <2>6. Sound(ensure_room_membership(s, <<w, direct_conversation_slug(u, v)>>, u, "owner"), T)
    BY <1>2, EnsuresSound
  <2>7. Sound(ensure_room_membership(s, <<w, direct_conversation_slug(u, v)>>, v, "member"), T)
    BY <1>2, EnsuresSound
  <2>8. Sound(<< Commit >>, T)
    BY <1>2, Silent, Tuple1
  <2> QED
    BY <2>1, <2>2, <2>3, <2>4, <2>5, <2>6, <2>7, <2>8, Cat DEF start_direct_conversation
<1>3. ASSUME NEW s, NEW c, "room_members" \in T
      PROVE  Sound(add_room_member(s, c), T)
  <2>1. Sound(get_room_for_user(s, c.by, c.room), T)
    BY <1>3, ChecksSound
  <2>2. Sound(require_room_manager(s, c.by, c.room), T)
    BY <1>3, ChecksSound
  <2>3. Sound(<< Select({User(c.user)}), Require(Exists(s, User(c.user)), "UserNotFound"), Select({Membership(Home(c.room), c.user)}), Require(Exists(s, Membership(Home(c.room), c.user)), "WorkspaceMembershipRequired") >>, T)
    BY <1>3, Silent, Tuple4
  <2>4. Sound(Upsert(s, RoomMember(c.room, c.user), c.role), T)
    BY <1>3, EnsuresSound
  <2>5. Sound(<< Commit, Refresh(RoomMember(c.room, c.user)) >>, T)
    BY <1>3, Silent, Tuple2
  <2> QED
    BY <2>1, <2>2, <2>3, <2>4, <2>5, Cat DEF add_room_member
<1>4. ASSUME NEW s, NEW u, NEW r, NEW v, NEW role, "memberships" \in T, "room_members" \in T
      PROVE  Sound(invite_room_member_by_email(s, u, r, v, role), T)
  <2>1. Sound(get_room_for_user(s, u, r), T)
    BY <1>4, ChecksSound
  <2>2. Sound(require_room_manager(s, u, r), T)
    BY <1>4, ChecksSound
  <2>3. Sound(<< Select({User(v)}), Require(Active(s, v), "UserNotFound"), Require(u # v, "SelfConversation") >>, T)
    BY <1>4, Silent, Tuple3
  <2>4. Sound(ensure_workspace_membership(s, Home(r), v), T)
    BY <1>4, EnsuresSound
  <2>5. Sound(ensure_room_membership(s, r, v, role), T)
    BY <1>4, EnsuresSound
  <2>6. Sound(<< Commit, Refresh(RoomMember(r, v)) >>, T)
    BY <1>4, Silent, Tuple2
  <2> QED
    BY <2>1, <2>2, <2>3, <2>4, <2>5, <2>6, Cat DEF invite_room_member_by_email
<1>5. ASSUME NEW s, NEW c, "room_members" \in T
      PROVE  Sound(update_room_member_role(s, c), T)
  <2>1. Sound(get_room_for_user(s, c.by, c.room), T)
    BY <1>5, ChecksSound
  <2>2. Sound(require_room_manager(s, c.by, c.room), T)
    BY <1>5, ChecksSound
  <2>3. Sound(get_room_member_with_user(s, c.room, c.user), T)
    BY <1>5, ChecksSound
  <2>4. Sound(IF c.role = "owner" THEN << >> ELSE ensure_room_has_another_owner(s, c.room, c.user), T)
    BY <1>5, ChecksSound, Tuple0
  <2>5. Sound(<< Assign(s, RoomMember(c.room, c.user), AsRole(c.role)), Commit, Refresh(RoomMember(c.room, c.user)) >>, T)
    BY <1>5, RoomMemberWrites, Silent, Tuple3
  <2> QED
    BY <2>1, <2>2, <2>3, <2>4, <2>5, Cat DEF update_room_member_role
<1>6. ASSUME NEW s, NEW c, "room_members" \in T
      PROVE  Sound(remove_room_member(s, c), T)
  <2>1. Sound(get_room_for_user(s, c.by, c.room), T)
    BY <1>6, ChecksSound
  <2>2. Sound(require_room_manager(s, c.by, c.room), T)
    BY <1>6, ChecksSound
  <2>3. Sound(get_room_member_with_user(s, c.room, c.user), T)
    BY <1>6, ChecksSound
  <2>4. Sound(ensure_room_has_another_owner(s, c.room, c.user), T)
    BY <1>6, ChecksSound
  <2>5. Sound(<< Delete(RoomMember(c.room, c.user)), Commit >>, T)
    BY <1>6, RoomMemberWrites, Silent, Tuple2
  <2> QED
    BY <2>1, <2>2, <2>3, <2>4, <2>5, Cat DEF remove_room_member
<1>7. ASSUME NEW s, NEW c
      PROVE  Sound(list_rooms(s, c), T)
  BY Silent, Tuple1, Cat, ChecksSound DEF list_rooms
<1>8. ASSUME NEW s, NEW c
      PROVE  Sound(list_room_members(s, c), T)
  BY Silent, Tuple2, Cat, ChecksSound, SMTT(20) DEF list_room_members
<1>9. ASSUME NEW s, NEW c, "room_members" \in T
      PROVE  Sound(join_room(s, c), T)
  BY <1>9, Silent, Tuple2, Cat, ChecksSound, RoomMemberWrites DEF join_room
<1>10. ASSUME NEW s, NEW c, "room_members" \in T
      PROVE  Sound(leave_room(s, c), T)
  BY <1>10, Silent, Tuple2, Cat, ChecksSound, RoomMemberWrites DEF leave_room
<1> QED
  BY <1>1, <1>2, <1>3, <1>4, <1>5, <1>6, <1>7, <1>8, <1>9, <1>10

LEMMA Division ==
  ASSUME NEW n \in Nat \ {0}, NEW m \in Nat, NEW j \in 1..n * m
  PROVE  /\ 1 + (j - 1) \div n \in 1..m
         /\ 1 + ((j - 1) % n) \in 1..n
<1>1. n * m \in Nat
  OBVIOUS
<1>2. j - 1 \in Nat /\ j - 1 < n * m
  BY <1>1
<1> DEFINE d == (j - 1) \div n
           e == (j - 1) % n
<1>3. d \in Int /\ e \in 0..n - 1 /\ j - 1 = n * d + e
  BY <1>2
<1> HIDE DEF d, e
<1>4. d >= 0
  <2> SUFFICES ASSUME d <= -1 PROVE FALSE
    BY <1>3
  <2>1. n * d <= n * (-1)
    BY <1>3
  <2> QED
    BY <1>2, <1>3, <2>1
<1>5. d < m
  <2> SUFFICES ASSUME d >= m PROVE FALSE
    BY <1>3
  <2>1. n * d >= n * m
    BY <1>3
  <2> QED
    BY <1>1, <1>2, <1>3, <2>1
<1> QED
  BY <1>3, <1>4, <1>5 DEF d, e

Listed(t, m) == t = [i \in 1..m |-> t[i]]
AllSound(t, m, n, T) == \A i \in 1..m : Sound(t[i], T) /\ Len(t[i]) = n
AllInTurn(bodies, m, n) ==
  /\ IsBody(InTurn(bodies)) /\ Len(InTurn(bodies)) = n * m
  /\ \A j \in 1..n * m :
       /\ 1 + (j - 1) \div n \in 1..m /\ 1 + ((j - 1) % n) \in 1..n
       /\ InTurn(bodies)[j] = bodies[1 + (j - 1) \div n][1 + ((j - 1) % n)]

(* Bodies of equal length, one after the other.                            *)
LEMMA InTurnIs ==
  ASSUME NEW m \in Nat, NEW bodies, Listed(bodies, m),
         NEW n \in Nat \ {0}, \A i \in 1..m : IsBody(bodies[i]) /\ Len(bodies[i]) = n
  PROVE  AllInTurn(bodies, m, n)
<1> DEFINE S == {bodies[i] : i \in 1..m}
           b == [j \in 1..n * m |-> bodies[1 + (j - 1) \div n][1 + ((j - 1) % n)]]
<1>1. bodies \in Seq(S) /\ Len(bodies) = m
  BY DEF Listed
<1>2. << >> \o bodies = bodies
  <2> HIDE DEF S
  <2> QED
    BY <1>1, ConcatEmptySeq
<1>3. InTurn(bodies) = Joined(bodies)
  BY <1>2 DEF InTurn
<1>4. bodies = << >> <=> m = 0
  <2> HIDE DEF S
  <2> QED
    BY <1>1, EmptySeq
<1>5. CASE m = 0
  <2>1. Joined(bodies) = [j \in 1..1 * Len(bodies) |-> bodies[1 + (j - 1) \div 1][1 + ((j - 1) % 1)]]
    BY <1>4, <1>5 DEF Joined
  <2>2. 1 * Len(bodies) = 0 /\ n * m = 0
    BY <1>1, <1>5
  <2>3. Joined(bodies) = [j \in 1..0 |-> bodies[1 + (j - 1) \div 1][1 + ((j - 1) % 1)]]
    BY <2>1, <2>2
  <2>4. Joined(bodies) = << >>
    BY <2>3
  <2> QED
    BY <1>3, <2>2, <2>4 DEF IsBody, AllInTurn
<1>6. CASE m # 0
  <2>1. Len(bodies[1]) = n
    BY <1>6
  <2>2. Joined(bodies) = b
    BY <1>1, <1>4, <1>6, <2>1 DEF Joined
  <2>3. n * m \in Nat
    OBVIOUS
  <2> HIDE DEF S
  <2>4. ASSUME NEW N \in Nat, NEW f, f = [j \in 1..N |-> f[j]] PROVE IsBody(f) /\ Len(f) = N
    <3> DEFINE R == {f[j] : j \in 1..N}
    <3>1. f \in Seq(R) /\ Len(f) = N
      BY <2>4
    <3> QED
      BY <2>4, <3>1 DEF IsBody
  <2>5. IsBody(b) /\ Len(b) = n * m
    <3>1. b = [j \in 1..n * m |-> b[j]]
      OBVIOUS
    <3> HIDE DEF b
    <3> QED
      BY <2>3, <2>4, <3>1
  <2> QED
    BY <1>3, <2>2, <2>5, Division DEF AllInTurn
<1> QED
  BY <1>5, <1>6

LEMMA InTurnSound ==
  ASSUME NEW T, NEW m \in Nat, NEW bodies, Listed(bodies, m),
         NEW n \in Nat \ {0}, AllSound(bodies, m, n, T)
  PROVE  Sound(InTurn(bodies), T)
<1>1. \A i \in 1..m : IsBody(bodies[i]) /\ Len(bodies[i]) = n
  BY DEF Sound, AllSound
<1>2. \A i \in 1..m : \A j \in 1..n : Safe(bodies[i][j], T)
  BY DEF Sound, AllSound
<1>3. AllInTurn(bodies, m, n)
  BY <1>1, InTurnIs
<1>4. \A j \in 1..Len(InTurn(bodies)) : Safe(InTurn(bodies)[j], T)
  BY <1>2, <1>3 DEF AllInTurn
<1> QED
  BY <1>3, <1>4 DEF Sound, AllInTurn

(* Nothing is done for the caller's own address, a body for another one.   *)
LEMMA InvitedSound ==
  ASSUME NEW T, NEW c, NEW v, NEW body, Sound(body, T)
  PROVE  Sound(Invited(c, v, body), T) /\ Len(Invited(c, v, body)) = Len(body)
<1>1. CASE v = c.by
  <2> DEFINE N == Len(body)
             R == {Pass}
             f == [i \in DOMAIN body |-> Pass]
  <2>1. N \in Nat /\ DOMAIN body = 1..N
    BY DEF Sound, IsBody
  <2>2. f \in Seq(R) /\ Len(f) = N
    BY <2>1
  <2>3. IsBody(f)
    BY <2>1, <2>2 DEF IsBody
  <2> QED
    BY <1>1, <2>1, <2>2, <2>3, Silent DEF Sound, Invited
<1>2. CASE v # c.by
  BY <1>2 DEF Invited
<1> QED
  BY <1>1, <1>2

(* What the conversation and friend services write.                        *)
LEMMA ConversationsSound ==
  ASSUME NEW T
  PROVE  /\ \A s, c : {"workspaces", "memberships", "rooms", "room_members", "user_contacts"} \subseteq T => Sound(start_global_direct_conversation(s, c), T)
         /\ \A s, c : {"workspaces", "memberships"} \subseteq T => Sound(list_conversations(s, c), T)
         /\ \A s, c : Sound(list_friends(s, c), T)
         /\ \A s, c : "user_contacts" \in T => Sound(add_friend_by_email(s, c), T)
         /\ \A s, c : "user_contacts" \in T => Sound(remove_friend(s, c), T)
<1>1. ASSUME NEW s, NEW c, "workspaces" \in T, "memberships" \in T, "rooms" \in T, "room_members" \in T, "user_contacts" \in T
      PROVE  Sound(start_global_direct_conversation(s, c), T)
  <2>1. Sound(ensure_conversation_workspace(s, c.by), T)
    BY <1>1, EnsuresSound
  <2>2. Sound(start_direct_conversation(s, c.by, Net, c.user), T)
    BY <1>1, RoomsSound
  <2> QED
    BY <2>1, <2>2, Cat DEF start_global_direct_conversation
<1>2. ASSUME NEW s, NEW c, "workspaces" \in T, "memberships" \in T
      PROVE  Sound(list_conversations(s, c), T)
  <2>1. Sound(ensure_conversation_workspace(s, c.by), T)
    BY <1>2, EnsuresSound
  <2>2. Sound(<< Select({RoomMember(r, c.by) : r \in RoomsOf(Net)}) >>, T)
    BY <1>2, Silent, Tuple1
  <2> QED
    BY <2>1, <2>2, Cat DEF list_conversations
<1>3. ASSUME NEW s, NEW c
      PROVE  Sound(list_friends(s, c), T)
  BY Silent, Tuple1 DEF list_friends
<1>4. ASSUME NEW s, NEW c, "user_contacts" \in T
      PROVE  Sound(add_friend_by_email(s, c), T)
  <2>1. Sound(<< Select({User(c.user)}), Require(Active(s, c.user), "UserNotFound"), Require(c.by # c.user, "SelfFriend") >>, T)
    BY <1>4, Silent, Tuple3
  <2>2. Sound(ensure_mutual_contacts(s, c.by, c.user), T)
    BY <1>4, EnsuresSound
  <2>3. Sound(<< Commit, Refresh(UserContact(c.by, c.user)) >>, T)
    BY <1>4, Silent, Tuple2
  <2> QED
    BY <2>1, <2>2, <2>3, Cat DEF add_friend_by_email
<1>5. ASSUME NEW s, NEW c, "user_contacts" \in T
      PROVE  Sound(remove_friend(s, c), T)
  BY <1>5, Silent, Tuple5, UserContactWrites DEF remove_friend
<1> QED
  BY <1>1, <1>2, <1>3, <1>4, <1>5

LEMMA GroupSound ==
  ASSUME NEW T, "workspaces" \in T, "memberships" \in T, "rooms" \in T, "room_members" \in T,
         NEW s, NEW c, NEW id, c.users \in Seq(Users)
  PROVE  Sound(create_group_conversation(s, c, id), T)
<1> DEFINE r == <<Net, <<"group", id>>>>
           m == Len(c.users)
           check(i) == << Select({User(c.users[i])}), Require(Active(s, c.users[i]), "UserNotFound") >>
           invite(i) == invite_room_member_by_email(s, c.by, r, c.users[i], "member")
           checks == [i \in DOMAIN c.users |-> Invited(c, c.users[i], check(i))]
           invites == [i \in DOMAIN c.users |-> Invited(c, c.users[i], invite(i))]
<1>1. m \in Nat /\ DOMAIN c.users = 1..m
  OBVIOUS
<1>2. \A i : Sound(check(i), T) /\ Len(check(i)) = 2
  BY Silent, Tuple2
<1>3. \A i : Sound(invite(i), T)
  BY RoomsSound
<1>4. \A i : Len(invite(i)) = 14
  BY DEF invite_room_member_by_email, get_room_for_user, require_room_manager,
     ensure_workspace_membership, ensure_room_membership
<1>5. Sound(InTurn(checks), T)
  <2>1. \A i \in 1..m : checks[i] = Invited(c, c.users[i], check(i))
    BY <1>1
  <2>3. AllSound(checks, m, 2, T)
    <3> HIDE DEF check, checks, m
    <3> QED
      BY <1>2, <2>1, InvitedSound DEF AllSound
  <2>2. Listed(checks, m)
    BY <1>1 DEF Listed
  <2> HIDE DEF checks, m
  <2> QED
    BY <1>1, <2>2, <2>3, InTurnSound
<1>6. Sound(InTurn(invites), T)
  <2>1. \A i \in 1..m : invites[i] = Invited(c, c.users[i], invite(i))
    BY <1>1
  <2>3. AllSound(invites, m, 14, T)
    <3> HIDE DEF invite, invites, m
    <3> QED
      BY <1>3, <1>4, <2>1, InvitedSound, SMTT(20) DEF AllSound
  <2>2. Listed(invites, m)
    BY <1>1 DEF Listed
  <2> HIDE DEF invites, m
  <2> QED
    BY <1>1, <2>2, <2>3, InTurnSound
<1>7. Sound(validate_group_invite_emails(s, c), T)
  BY <1>5 DEF validate_group_invite_emails
<1>8. Sound(ensure_conversation_workspace(s, c.by), T)
  BY EnsuresSound
<1>9. Sound(create_room(s, c.by, r), T)
  BY RoomsSound
<1> HIDE DEF checks, m, check
<1> QED
  BY <1>6, <1>7, <1>8, <1>9, Cat DEF create_group_conversation, invites, invite

(* What the message services write.                                        *)
LEMMA MessagesSound ==
  ASSUME NEW T
  PROVE  /\ \A s, c, id : {"attachments", "messages", "events", "notifications"} \subseteq T => Sound(create_message(s, c, id), T)
         /\ \A s, app, c, id : {"messages", "events", "notifications"} \subseteq T => Sound(create_bot_message(s, app, c, id), T)
         /\ \A s, c, id : {"messages", "events"} \subseteq T => Sound(update_message(s, c, id), T)
         /\ \A s, c : {"messages", "events"} \subseteq T => Sound(delete_message(s, c), T)
         /\ \A s, c : Sound(list_messages(s, c), T)
         /\ \A s, c : Sound(list_messages_page(s, c), T)
         /\ \A s, c : Sound(list_message_replies(s, c), T)
         /\ \A s, c : {"message_reactions", "events"} \subseteq T => Sound(add_reaction(s, c), T)
         /\ \A s, c : {"message_reactions", "events"} \subseteq T => Sound(remove_reaction(s, c), T)
         /\ \A s, c, id : "attachments" \in T => Sound(create_attachment_intent(s, c, id), T)
         /\ \A s, c : "attachments" \in T => Sound(confirm_attachment_upload(s, c), T)
         /\ \A s, c : Sound(get_downloadable_attachment(s, c), T)
         /\ \A s, c : {"room_read_states", "events"} \subseteq T => Sound(update_room_read_state(s, c), T)
         /\ \A s, c : Sound(list_room_read_states(s, c), T)
         /\ \A s, c : Sound(list_user_notifications(s, c), T)
         /\ \A s, c : "notifications" \in T => Sound(mark_notification_read(s, c), T)
         /\ \A s, c : "notifications" \in T => Sound(mark_all_notifications_read(s, c), T)
<1>1. ASSUME NEW s, NEW c, NEW id, "attachments" \in T, "messages" \in T, "events" \in T, "notifications" \in T
      PROVE  Sound(create_message(s, c, id), T)
  <2>1. Sound(ensure_room_member(s, c.by, c.room), T)
    BY <1>1, ChecksSound
  <2>2. Sound(get_attachable_attachments(s, c.by, c.room, c.attachments), T)
    BY <1>1, ChecksSound
  <2>3. Sound(get_reply_target(s, c.room, c.reply), T)
    BY <1>1, ChecksSound
  <2>4. Sound(<< Insert(Message(id), NewMessage(c.room, c.by, id)) >>, T)
    BY <1>1, MessageWrites, Tuple1
  <2>5. Sound(<< UpdateAll({Attachment(x) : x \in c.attachments}, [message |-> id, status |-> "attached"]) >>, T)
    BY <1>1, AttachmentWrites, Tuple1
  <2>6. Sound(create_message_event(s, NewEvent(c.room, "message.created", Message(id), id)), T)
    BY <1>1, EnsuresSound
  <2>7. Sound(create_message_notifications(s, c.room, id, c.by), T)
    BY <1>1, EnsuresSound
  <2>8. Sound(<< Commit >>, T)
    BY <1>1, Silent, Tuple1
  <2> QED
    BY <2>1, <2>2, <2>3, <2>4, <2>5, <2>6, <2>7, <2>8, Cat DEF create_message
<1>2. ASSUME NEW s, NEW app, NEW c, NEW id, "messages" \in T, "events" \in T, "notifications" \in T
      PROVE  Sound(create_bot_message(s, app, c, id), T)
  <2>1. Sound(<< Require(c.attachments = {}, "AttachmentNotFound"), Select({Room(c.room)}), Require(Exists(s, Room(c.room)) /\ Home(c.room) = Home(app), "RoomNotFound") >>, T)
    BY <1>2, Silent, Tuple3
  <2>2. Sound(get_reply_target(s, c.room, c.reply), T)
    BY <1>2, ChecksSound
  <2>3. Sound(<< Insert(Message(id), NewMessage(c.room, Bot(app), id)) >>, T)
    BY <1>2, MessageWrites, Tuple1
  <2>4. Sound(create_message_event(s, NewEvent(c.room, "message.created", Message(id), id)), T)
    BY <1>2, EnsuresSound
  <2>5. Sound(create_message_notifications(s, c.room, id, Bot(app)), T)
    BY <1>2, EnsuresSound
  <2>6. Sound(<< Commit >>, T)
    BY <1>2, Silent, Tuple1
  <2> QED
    BY <2>1, <2>2, <2>3, <2>4, <2>5, <2>6, Cat DEF create_bot_message
<1>3. ASSUME NEW s, NEW c, NEW id, "messages" \in T, "events" \in T
      PROVE  Sound(update_message(s, c, id), T)
  <2>1. Sound(ensure_room_member(s, c.by, c.room), T)
    BY <1>3, ChecksSound
  <2>2. Sound(get_mutable_message(s, c.by, c.room, c.message), T)
    BY <1>3, ChecksSound
  <2>3. Sound(<< Update(Message(c.message), [content |-> id]) >>, T)
    BY <1>3, MessageWrites, Tuple1
  <2>4. Sound(create_message_event(s, NewEvent(c.room, "message.updated", Message(c.message), id)), T)
    BY <1>3, EnsuresSound
  <2>5. Sound(<< Commit >>, T)
    BY <1>3, Silent, Tuple1
  <2> QED
    BY <2>1, <2>2, <2>3, <2>4, <2>5, Cat DEF update_message
<1>4. ASSUME NEW s, NEW c, "messages" \in T, "events" \in T
      PROVE  Sound(delete_message(s, c), T)
  <2>1. Sound(ensure_room_member(s, c.by, c.room), T)
    BY <1>4, ChecksSound
  <2>2. Sound(get_mutable_message(s, c.by, c.room, c.message), T)
    BY <1>4, ChecksSound
  <2>3. Sound(<< Update(Message(c.message), [deleted |-> TRUE]) >>, T)
    BY <1>4, MessageWrites, Tuple1
  <2>4. Sound(create_message_event(s, NewEvent(c.room, "message.deleted", Message(c.message), NoMessage)), T)
    BY <1>4, EnsuresSound
  <2>5. Sound(<< Commit >>, T)
    BY <1>4, Silent, Tuple1
  <2> QED
    BY <2>1, <2>2, <2>3, <2>4, <2>5, Cat DEF delete_message
<1>5. ASSUME NEW s, NEW c
      PROVE  Sound(list_messages(s, c), T)
  <2>1. Sound(ensure_room_member(s, c.by, c.room), T)
    BY ChecksSound
  <2>2. Sound(<< Select(AllMessages) >>, T)
    BY Silent, Tuple1
  <2> QED
    BY <2>1, <2>2, Cat DEF list_messages
<1>6. ASSUME NEW s, NEW c
      PROVE  Sound(list_messages_page(s, c), T)
  <2>1. Sound(ensure_room_member(s, c.by, c.room), T)
    BY ChecksSound
  <2>2. Sound(get_reply_target(s, c.room, c.before), T)
    BY ChecksSound
  <2>3. Sound(<< Select(AllMessages) >>, T)
    BY Silent, Tuple1
  <2> QED
    BY <2>1, <2>2, <2>3, Cat DEF list_messages_page
<1>7. ASSUME NEW s, NEW c
      PROVE  Sound(list_message_replies(s, c), T)
  <2>1. Sound(ensure_room_member(s, c.by, c.room), T)
    BY ChecksSound
  <2>2. Sound(get_visible_message(s, c.room, c.message), T)
    BY ChecksSound
  <2>3. Sound(<< Select(AllMessages) >>, T)
    BY Silent, Tuple1
  <2> QED
    BY <2>1, <2>2, <2>3, Cat DEF list_message_replies
<1>8. ASSUME NEW s, NEW c, "message_reactions" \in T, "events" \in T
      PROVE  Sound(add_reaction(s, c), T)
  <2>1. Sound(ensure_room_member(s, c.by, c.room), T)
    BY <1>8, ChecksSound
  <2>2. Sound(get_visible_message(s, c.room, c.message), T)
    BY <1>8, ChecksSound
  <2>3. Sound(<< InsertOr(MessageReaction(c.message, c.by), Plain, "ReactionAlreadyExists") >>, T)
    BY <1>8, MessageReactionWrites, Tuple1
  <2>4. Sound(create_message_event(s, NewEvent(c.room, "message.reaction_added", MessageReaction(c.message, c.by), TRUE)), T)
    BY <1>8, EnsuresSound
  <2>5. Sound(<< Commit, Refresh(MessageReaction(c.message, c.by)) >>, T)
    BY <1>8, Silent, Tuple2
  <2> QED
    BY <2>1, <2>2, <2>3, <2>4, <2>5, Cat DEF add_reaction
<1>9. ASSUME NEW s, NEW c, "message_reactions" \in T, "events" \in T
      PROVE  Sound(remove_reaction(s, c), T)
  <2>1. Sound(ensure_room_member(s, c.by, c.room), T)
    BY <1>9, ChecksSound
  <2>2. Sound(get_visible_message(s, c.room, c.message), T)
    BY <1>9, ChecksSound
  <2>3. Sound(<< Select({MessageReaction(c.message, c.by)}), Require(Exists(s, MessageReaction(c.message, c.by)), "ReactionNotFound") >>, T)
    BY <1>9, Silent, Tuple2
  <2>4. Sound(create_message_event(s, NewEvent(c.room, "message.reaction_removed", MessageReaction(c.message, c.by), FALSE)), T)
    BY <1>9, EnsuresSound
  <2>5. Sound(<< Delete(MessageReaction(c.message, c.by)), Commit >>, T)
    BY <1>9, Silent, Tuple2, MessageReactionWrites
  <2> QED
    BY <2>1, <2>2, <2>3, <2>4, <2>5, Cat DEF remove_reaction
<1>10. ASSUME NEW s, NEW c, NEW id, "attachments" \in T
      PROVE  Sound(create_attachment_intent(s, c, id), T)
  <2>1. Sound(ensure_room_member(s, c.by, c.room), T)
    BY <1>10, ChecksSound
  <2>2. Sound(<< Insert(Attachment(id), [uploader |-> c.by, room |-> c.room, message |-> NoMessage, status |-> "pending_upload"]), Commit >>, T)
    BY <1>10, Silent, Tuple2, AttachmentWrites
  <2> QED
    BY <2>1, <2>2, Cat DEF create_attachment_intent
<1>11. ASSUME NEW s, NEW c, "attachments" \in T
      PROVE  Sound(confirm_attachment_upload(s, c), T)
  <2>1. Sound(get_owned_room_attachment(s, c.by, c.room, c.attachment), T)
    BY <1>11, ChecksSound
  <2>2. Sound(<< Require(Has(s, Attachment(c.attachment), "message", NoMessage), "AttachmentAlreadyAttached"), Require(c.stored # "nothing", "AttachmentUploadNotFound"), Require(c.stored = "same", "AttachmentUploadMismatch"), Assign(s, Attachment(c.attachment), [status |-> "uploaded"]), Commit >>, T)
    BY <1>11, Silent, Tuple5, AttachmentWrites
  <2> QED
    BY <2>1, <2>2, Cat DEF confirm_attachment_upload
<1>12. ASSUME NEW s, NEW c
      PROVE  Sound(get_downloadable_attachment(s, c), T)
  BY Silent, Tuple2, Cat, ChecksSound DEF get_downloadable_attachment
<1>13. ASSUME NEW s, NEW c, "room_read_states" \in T, "events" \in T
      PROVE  Sound(update_room_read_state(s, c), T)
  <2>1. Sound(ensure_room_member(s, c.by, c.room), T)
    BY <1>13, ChecksSound
  <2>2. Sound(<< Select(Events(Home(c.room))), Require(c.seq <= latest_room_event_seq(s, c.room), "ReadStateAheadOfRoom") >>, T)
    BY <1>13, Silent, Tuple2
  <2>3. Sound(get_or_create_read_state(s, c.by, c.room), T)
    BY <1>13, Silent, Tuple2, RoomReadStateWrites DEF get_or_create_read_state
  <2>4. Sound(<< IF c.seq > LastRead(s, c.room, c.by) THEN Update(RoomReadState(c.room, c.by), [last_read |-> c.seq]) ELSE Commit, IF c.seq > LastRead(s, c.room, c.by) THEN Pass ELSE Refresh(RoomReadState(c.room, c.by)), IF c.seq > LastRead(s, c.room, c.by) THEN Pass ELSE Return >>, T)
    BY <1>13, Silent, Tuple3, RoomReadStateWrites
  <2>5. Sound(create_message_event(s, NewEvent(c.room, "room.read_state_updated", RoomReadState(c.room, c.by), c.seq)), T)
    BY <1>13, EnsuresSound
  <2>6. Sound(<< Commit >>, T)
    BY <1>13, Silent, Tuple1
  <2> QED
    BY <2>1, <2>2, <2>3, <2>4, <2>5, <2>6, Cat DEF update_room_read_state
<1>14. ASSUME NEW s, NEW c
      PROVE  Sound(list_room_read_states(s, c), T)
  BY Silent, Tuple1, Cat, ChecksSound DEF list_room_read_states
<1>15. ASSUME NEW s, NEW c
      PROVE  Sound(list_user_notifications(s, c), T)
  BY Silent, Tuple1 DEF list_user_notifications
<1>16. ASSUME NEW s, NEW c, "notifications" \in T
      PROVE  Sound(mark_notification_read(s, c), T)
  BY <1>16, Silent, Tuple4, NotificationWrites DEF mark_notification_read, MarkRead
<1>17. ASSUME NEW s, NEW c, "notifications" \in T
      PROVE  Sound(mark_all_notifications_read(s, c), T)
  BY <1>17, Silent, Tuple3, NotificationWrites DEF mark_all_notifications_read
<1> QED
  BY <1>1, <1>2, <1>3, <1>4, <1>5, <1>6, <1>7, <1>8, <1>9, <1>10, <1>11, <1>12, <1>13, <1>14, <1>15, <1>16, <1>17

(* What the account and administration services write.                     *)
LEMMA AccountsSound ==
  ASSUME NEW T
  PROVE  /\ \A s, u, id : "auth_sessions" \in T => Sound(create_token_pair(u, id), T)
         /\ \A s, c : "users" \in T => Sound(register_user(s, c), T)
         /\ \A s, c : Sound(authenticate_user(s, c), T)
         /\ \A s, c, e : Sound(get_active_auth_session_for_refresh_token(s, c, Raise(e)), T)
         /\ \A s, c : Sound(get_active_auth_session_for_refresh_token(s, c, Return), T)
         /\ \A s, c, id : "auth_sessions" \in T => Sound(refresh(s, c, id), T)
         /\ \A s, c : "auth_sessions" \in T => Sound(revoke_refresh_token_session(s, c), T)
         /\ \A s, c : Sound(list_active_auth_sessions(s, c), T)
         /\ \A s, c : "auth_sessions" \in T => Sound(revoke_user_auth_session(s, c), T)
         /\ \A s, c : Sound(get_current_system_admin(s, c), T)
         /\ \A s, c : "users" \in T => Sound(bootstrap_system_admin(s, c), T)
<1>1. ASSUME NEW s, NEW u, NEW id, "auth_sessions" \in T
      PROVE  Sound(create_token_pair(u, id), T)
  BY <1>1, Silent, Tuple2, AuthSessionWrites DEF create_token_pair
<1>2. ASSUME NEW s, NEW c, "users" \in T
      PROVE  Sound(register_user(s, c), T)
  BY <1>2, Silent, Tuple3, UserWrites DEF register_user
<1>3. ASSUME NEW s, NEW c
      PROVE  Sound(authenticate_user(s, c), T)
  BY Silent, Tuple2 DEF authenticate_user
<1>4. ASSUME NEW s, NEW c, NEW e
      PROVE  Sound(get_active_auth_session_for_refresh_token(s, c, Raise(e)), T)
  BY Silent, Tuple2 DEF get_active_auth_session_for_refresh_token
<1>5. ASSUME NEW s, NEW c
      PROVE  Sound(get_active_auth_session_for_refresh_token(s, c, Return), T)
  BY Silent, Tuple2 DEF get_active_auth_session_for_refresh_token
<1>6. ASSUME NEW s, NEW c, NEW id, "auth_sessions" \in T
      PROVE  Sound(refresh(s, c, id), T)
  <2>1. Sound(get_active_auth_session_for_refresh_token(s, c, Raise("InvalidRefreshToken")), T)
    BY <1>6, <1>4
  <2>2. Sound(<< Touch(AuthSession(c.session)), Select({User(c.by)}), Require(Active(s, c.by), "InvalidRefreshToken"), Update(AuthSession(c.session), [revoked |-> TRUE]) >>, T)
    BY <1>6, Silent, Tuple4, AuthSessionWrites
  <2>3. Sound(create_token_pair(c.by, id), T)
    BY <1>6, <1>1
  <2> QED
    BY <2>1, <2>2, <2>3, Cat DEF refresh
<1>7. ASSUME NEW s, NEW c, "auth_sessions" \in T
      PROVE  Sound(revoke_refresh_token_session(s, c), T)
  <2>1. Sound(get_active_auth_session_for_refresh_token(s, c, Return), T)
    BY <1>7, <1>5
  <2>2. Sound(<< Update(AuthSession(c.session), [revoked |-> TRUE]), Commit >>, T)
    BY <1>7, Silent, Tuple2, AuthSessionWrites
  <2> QED
    BY <2>1, <2>2, Cat DEF revoke_refresh_token_session
<1>8. ASSUME NEW s, NEW c
      PROVE  Sound(list_active_auth_sessions(s, c), T)
  BY Silent, Tuple1 DEF list_active_auth_sessions
<1>9. ASSUME NEW s, NEW c, "auth_sessions" \in T
      PROVE  Sound(revoke_user_auth_session(s, c), T)
  BY <1>9, Silent, Tuple4, AuthSessionWrites DEF revoke_user_auth_session
<1>10. ASSUME NEW s, NEW c
      PROVE  Sound(get_current_system_admin(s, c), T)
  <2>1. Sound(get_current_user(s, c), T)
    BY ChecksSound
  <2>2. Sound(<< Require(Has(s, User(c.by), "is_system_admin", TRUE), "Forbidden") >>, T)
    BY Silent, Tuple1
  <2> QED
    BY <2>1, <2>2, Cat DEF get_current_system_admin
<1>11. ASSUME NEW s, NEW c, "users" \in T
      PROVE  Sound(bootstrap_system_admin(s, c), T)
  BY <1>11, Silent, Tuple3, UserWrites DEF bootstrap_system_admin
<1> QED
  BY <1>1, <1>2, <1>3, <1>4, <1>5, <1>6, <1>7, <1>8, <1>9, <1>10, <1>11

LEMMA UpdateSystemUserSound ==
  ASSUME NEW T, "users" \in T, NEW s, NEW c
  PROVE  Sound(update_system_user(s, c), T)
<1> DEFINE k == User(c.user)
           changes(f) == f \in DOMAIN c.change /\ Exists(s, k) /\ ~Has(s, k, f, c.change[f])
           drops(f) == changes(f) /\ ~c.change[f]
           promoted == changes("is_system_admin") /\ c.change["is_system_admin"]
           stays == ~drops("is_system_admin") /\ Has(s, k, "is_system_admin", TRUE)
           set(f) == IF changes(f) THEN Update(k, [x \in {f} |-> c.change[f]]) ELSE Pass
           first == << IF c.user = c.by THEN Pass ELSE Select({k}), Require(Exists(s, k), "UserNotFound") >>
           one == drops("is_system_admin") /\ Has(s, k, "is_active", TRUE)
           two == drops("is_active") /\ (stays \/ promoted)
<1>1. Sound(first, T)
  BY Silent, Tuple2
<1>2. \A x : Sound(ensure_not_last_active_system_admin(s, x), T)
  BY ChecksSound
<1>3. Safe(set("is_system_admin"), T) /\ Safe(set("is_active"), T)
  BY Silent, UserWrites
<1>4. Sound(<< set("is_system_admin") >>, T) /\ Sound(<< set("is_active"), Commit >>, T)
  <2> HIDE DEF set
  <2> QED
    BY <1>3, Silent, Tuple1, Tuple2
<1>5. update_system_user(s, c) =
        first \o ensure_not_last_active_system_admin(s, one) \o << set("is_system_admin") >>
        \o ensure_not_last_active_system_admin(s, two) \o << set("is_active"), Commit >>
  BY DEF update_system_user
<1> HIDE DEF first, set, one, two
<1> QED
  BY <1>1, <1>2, <1>4, <1>5, Cat

(* What the services of apps write.                                        *)
LEMMA AppsSound ==
  ASSUME NEW T
  PROVE  /\ \A s, c : {"apps", "bots"} \subseteq T => Sound(create_app(s, c), T)
         /\ \A s, c : Sound(list_workspace_apps(s, c), T)
         /\ \A s, c, id : "api_keys" \in T => Sound(create_api_key(s, c, id), T)
         /\ \A s, c, id : "incoming_webhooks" \in T => Sound(create_incoming_webhook(s, c, id), T)
         /\ \A s, c : Sound(list_api_keys(s, c), T)
         /\ \A s, c : Sound(list_incoming_webhooks(s, c), T)
         /\ \A s, c : "api_keys" \in T => Sound(revoke_api_key(s, c), T)
         /\ \A s, c : "incoming_webhooks" \in T => Sound(revoke_incoming_webhook(s, c), T)
         /\ \A s, x : "api_keys" \in T => Sound(authenticate_api_key(s, x), T)
         /\ \A s, x : "incoming_webhooks" \in T => Sound(authenticate_incoming_webhook(s, x), T)
<1>1. ASSUME NEW s, NEW c, "apps" \in T, "bots" \in T
      PROVE  Sound(create_app(s, c), T)
  <2>1. Sound(require_workspace_owner(s, c.by, Home(c.app)), T)
    BY <1>1, ChecksSound
  <2>2. Sound(<< InsertOr(App(c.app), Plain, "AppSlugAlreadyExists"), InsertOr(Bot(c.app), Plain, "AppSlugAlreadyExists"), Commit >>, T)
    BY <1>1, Silent, Tuple3, AppWrites, BotWrites
  <2> QED
    BY <2>1, <2>2, Cat DEF create_app
<1>2. ASSUME NEW s, NEW c
      PROVE  Sound(list_workspace_apps(s, c), T)
  BY Silent, Tuple1, Cat, ChecksSound DEF list_workspace_apps
<1>3. ASSUME NEW s, NEW c, NEW id, "api_keys" \in T
      PROVE  Sound(create_api_key(s, c, id), T)
  <2>1. Sound(get_app_for_owner(s, c), T)
    BY <1>3, ChecksSound
  <2>2. Sound(<< Insert(ApiKey(id), [app |-> c.app, revoked |-> FALSE]), Commit >>, T)
    BY <1>3, Silent, Tuple2, ApiKeyWrites
  <2> QED
    BY <2>1, <2>2, Cat DEF create_api_key
<1>4. ASSUME NEW s, NEW c, NEW id, "incoming_webhooks" \in T
      PROVE  Sound(create_incoming_webhook(s, c, id), T)
  <2>1. Sound(get_app_for_owner(s, c), T)
    BY <1>4, ChecksSound
  <2>2. Sound(get_bot_for_app(s, c.app), T)
    BY <1>4, ChecksSound
  <2>3. Sound(<< Select({Room(c.room)}), Require(Exists(s, Room(c.room)) /\ Home(c.room) = Home(c.app), "RoomNotFound"), Insert(IncomingWebhook(id), [app |-> c.app, room |-> c.room, revoked |-> FALSE]), Commit >>, T)
    BY <1>4, Silent, Tuple4, IncomingWebhookWrites
  <2> QED
    BY <2>1, <2>2, <2>3, Cat DEF create_incoming_webhook
<1>5. ASSUME NEW s, NEW c
      PROVE  Sound(list_api_keys(s, c), T)
  BY Silent, Tuple1, Cat, ChecksSound DEF list_api_keys
<1>6. ASSUME NEW s, NEW c
      PROVE  Sound(list_incoming_webhooks(s, c), T)
  BY Silent, Tuple1, Cat, ChecksSound DEF list_incoming_webhooks
<1>7. ASSUME NEW s, NEW c, "api_keys" \in T
      PROVE  Sound(revoke_api_key(s, c), T)
  <2>1. Sound(get_app_for_owner(s, c), T)
    BY <1>7, ChecksSound
  <2>2. Sound(Revoke(s, c, ApiKey(c.key), "ApiKeyNotFound"), T)
    BY <1>7, Silent, Tuple4, ApiKeyWrites DEF Revoke
  <2> QED
    BY <2>1, <2>2, Cat DEF revoke_api_key
<1>8. ASSUME NEW s, NEW c, "incoming_webhooks" \in T
      PROVE  Sound(revoke_incoming_webhook(s, c), T)
  <2>1. Sound(get_app_for_owner(s, c), T)
    BY <1>8, ChecksSound
  <2>2. Sound(Revoke(s, c, IncomingWebhook(c.key), "IncomingWebhookNotFound"), T)
    BY <1>8, Silent, Tuple4, IncomingWebhookWrites DEF Revoke
  <2> QED
    BY <2>1, <2>2, Cat DEF revoke_incoming_webhook
<1>9. ASSUME NEW s, NEW x, "api_keys" \in T
      PROVE  Sound(authenticate_api_key(s, x), T)
  BY <1>9, Silent, Tuple4, ApiKeyWrites DEF authenticate_api_key, AuthenticateSecret
<1>10. ASSUME NEW s, NEW x, "incoming_webhooks" \in T
      PROVE  Sound(authenticate_incoming_webhook(s, x), T)
  BY <1>10, Silent, Tuple4, IncomingWebhookWrites DEF authenticate_incoming_webhook, AuthenticateSecret
<1> QED
  BY <1>1, <1>2, <1>3, <1>4, <1>5, <1>6, <1>7, <1>8, <1>9, <1>10

(* What the endpoints write, by table.                                     *)
WrittenBy ==
  [users |-> {"register", "bootstrap", "update_system_user"},
   workspaces |-> {"create_workspace", "list_conversations",
     "start_global_direct", "create_group_conversation"},
   memberships |-> {"create_workspace", "add_workspace_member",
     "update_workspace_member", "remove_workspace_member",
     "start_direct_conversation", "invite_room_member", "list_conversations",
     "start_global_direct", "create_group_conversation"},
   rooms |-> {"create_room", "start_direct_conversation",
     "start_global_direct", "create_group_conversation"},
   room_members |-> {"remove_workspace_member", "create_room",
     "start_direct_conversation", "start_global_direct", "join_room",
     "leave_room", "add_room_member", "invite_room_member",
     "update_room_member", "remove_room_member", "create_group_conversation"},
   user_contacts |-> {"start_direct_conversation", "start_global_direct",
     "add_friend", "remove_friend"},
   messages |-> {"create_message", "gateway_send", "update_message",
     "delete_message", "create_app_message", "deliver_incoming_webhook"},
   events |-> {"create_message", "gateway_send", "update_message",
     "delete_message", "create_app_message", "deliver_incoming_webhook",
     "add_reaction", "remove_reaction", "update_room_read_state"},
   message_reactions |-> {"add_reaction", "remove_reaction"},
   attachments |-> {"create_attachment", "confirm_attachment",
     "create_message", "gateway_send"},
   room_read_states |-> {"update_room_read_state"},
   notifications |-> {"create_message", "gateway_send", "create_app_message",
     "deliver_incoming_webhook", "mark_read", "mark_all_read"},
   auth_sessions |-> {"register", "login", "refresh", "logout",
     "revoke_auth_session"},
   apps |-> {"create_app"},
   bots |-> {"create_app"},
   api_keys |-> {"create_api_key", "revoke_api_key", "create_app_message"},
   incoming_webhooks |-> {"create_incoming_webhook",
     "revoke_incoming_webhook", "deliver_incoming_webhook"}]
Tables(op) == {t \in DOMAIN WrittenBy : op \in WrittenBy[t]}

Kept(r, s) ==
  /\ Sound(ApiEndpoint(r, s).body, Tables(r.args.op))
  /\ r.args.op \notin {"register", "bootstrap"} =>
       Guarded(ApiEndpoint(r, s).body, s, Credential(r.args))

Unsigned == {"register", "bootstrap", "create_app_message", "deliver_incoming_webhook", "refresh"}

LEMMA GuardStays ==
  ASSUME NEW a, NEW b, NEW s, NEW k, IsBody(a), IsBody(b), Guarded(a, s, k)
  PROVE  Guarded(a \o b, s, k)
<1>1. Len(a) \in Nat /\ Len(b) \in Nat /\ Len(a) >= 2
  BY DEF IsBody, Guarded
<1>2. Len(a \o b) >= 2 /\ (a \o b)[1] = a[1] /\ (a \o b)[2] = a[2]
  BY <1>1, Joins
<1> QED
  BY <1>2 DEF Guarded

LEMMA UserChecked ==
  ASSUME NEW s, NEW c
  PROVE  Guarded(get_current_user(s, c), s, User(c.by))
<1> DEFINE b == get_current_user(s, c)
           check == Require(Active(s, c.by), "Unauthorized")
<1>1. Len(b) >= 2 /\ b[1] = Select({User(c.by)}) /\ b[2] = check
  BY DEF get_current_user
<1>2. check.do \in {"pass", "raise"}
  BY DEF Require, Pass, Raise, Statement
<1>3. check.do = "pass" => Active(s, c.by)
  BY DEF Require, Pass, Raise, Statement
<1>4. ValidIn(s, User(c.by)) <=> Active(s, c.by)
  BY DEF ValidIn, Active, User
<1> QED
  BY <1>1, <1>2, <1>3, <1>4 DEF Guarded

LEMMA SignInChecked ==
  ASSUME NEW s, NEW c
  PROVE  Guarded(authenticate_user(s, c), s, User(c.by))
<1> DEFINE b == authenticate_user(s, c)
           check == Require(Active(s, c.by), "InvalidCredentials")
<1>1. Len(b) >= 2 /\ b[1] = Select({User(c.by)}) /\ b[2] = check
  BY DEF authenticate_user
<1>2. check.do \in {"pass", "raise"}
  BY DEF Require, Pass, Raise, Statement
<1>3. check.do = "pass" => Active(s, c.by)
  BY DEF Require, Pass, Raise, Statement
<1>4. ValidIn(s, User(c.by)) <=> Active(s, c.by)
  BY DEF ValidIn, Active, User
<1> QED
  BY <1>1, <1>2, <1>3, <1>4 DEF Guarded

LEMMA ApiKeyChecked ==
  ASSUME NEW s, NEW x
  PROVE  Guarded(authenticate_api_key(s, x), s, ApiKey(x))
<1> DEFINE b == authenticate_api_key(s, x)
           check == Require(Has(s, ApiKey(x), "revoked", FALSE), "InvalidSecret")
<1>1. Len(b) >= 2 /\ b[1] = Select({ApiKey(x)}) /\ b[2] = check
  BY DEF authenticate_api_key, AuthenticateSecret
<1>2. check.do \in {"pass", "raise"}
  BY DEF Require, Pass, Raise, Statement
<1>3. check.do = "pass" => Has(s, ApiKey(x), "revoked", FALSE)
  BY DEF Require, Pass, Raise, Statement
<1>4. ValidIn(s, ApiKey(x)) <=> Has(s, ApiKey(x), "revoked", FALSE)
  BY DEF ValidIn, ApiKey
<1> QED
  BY <1>1, <1>2, <1>3, <1>4 DEF Guarded

LEMMA WebhookChecked ==
  ASSUME NEW s, NEW x
  PROVE  Guarded(authenticate_incoming_webhook(s, x), s, IncomingWebhook(x))
<1> DEFINE b == authenticate_incoming_webhook(s, x)
           check == Require(Has(s, IncomingWebhook(x), "revoked", FALSE), "InvalidSecret")
<1>1. Len(b) >= 2 /\ b[1] = Select({IncomingWebhook(x)}) /\ b[2] = check
  BY DEF authenticate_incoming_webhook, AuthenticateSecret
<1>2. check.do \in {"pass", "raise"}
  BY DEF Require, Pass, Raise, Statement
<1>3. check.do = "pass" => Has(s, IncomingWebhook(x), "revoked", FALSE)
  BY DEF Require, Pass, Raise, Statement
<1>4. ValidIn(s, IncomingWebhook(x)) <=> Has(s, IncomingWebhook(x), "revoked", FALSE)
  BY DEF ValidIn, IncomingWebhook
<1> QED
  BY <1>1, <1>2, <1>3, <1>4 DEF Guarded

LEMMA TokenChecked ==
  ASSUME NEW s, NEW c
  PROVE  Guarded(get_active_auth_session_for_refresh_token(s, c, Raise("InvalidRefreshToken")), s, AuthSession(c.session))
<1> DEFINE b == get_active_auth_session_for_refresh_token(s, c, Raise("InvalidRefreshToken"))
           check == IF Has(s, AuthSession(c.session), "revoked", FALSE) THEN Pass ELSE Raise("InvalidRefreshToken")
<1>1. Len(b) >= 2 /\ b[1] = Select({AuthSession(c.session)}) /\ b[2] = check
  BY DEF get_active_auth_session_for_refresh_token
<1>2. check.do \in {"pass", "raise"}
  BY DEF Require, Pass, Raise, Statement
<1>3. check.do = "pass" => Has(s, AuthSession(c.session), "revoked", FALSE)
  BY DEF Require, Pass, Raise, Statement
<1>4. ValidIn(s, AuthSession(c.session)) <=> Has(s, AuthSession(c.session), "revoked", FALSE)
  BY DEF ValidIn, AuthSession
<1> QED
  BY <1>1, <1>2, <1>3, <1>4 DEF Guarded

(* The endpoints for signed-in users.                                      *)
LEMMA Signed ==
  ASSUME NEW r, NEW s, NEW c, c = r.args, c.op \notin Unsigned, NEW body, NEW X,
         ApiEndpoint(r, s) = Authenticated(s, c, body, X), Sound(body, Tables(c.op))
  PROVE  Kept(r, s)
<1>1. ApiEndpoint(r, s).body = get_current_user(s, c) \o body
  BY DEF Authenticated, Handler
<1>2. Sound(get_current_user(s, c), Tables(c.op))
  BY ChecksSound
<1>3. Sound(get_current_user(s, c) \o body, Tables(c.op))
  BY <1>2, Cat
<1>4. Guarded(get_current_user(s, c) \o body, s, User(c.by))
  BY <1>2, UserChecked, GuardStays DEF Sound
<1>5. Credential(c) = User(c.by)
  BY DEF Credential, Unsigned
<1> QED
  BY <1>1, <1>3, <1>4, <1>5 DEF Kept

LEMMA UncaughtSound ==
  ASSUME NEW T, NEW body, Sound(body, T)
  PROVE  Sound(Uncaught(body), T)
<1> DEFINE N == Len(body)
           f == [i \in DOMAIN body |-> IF body[i].do = "raise" THEN Raise("uncaught") ELSE body[i]]
           R == {f[i] : i \in DOMAIN body}
<1>1. N \in Nat /\ DOMAIN body = 1..N
  BY DEF Sound, IsBody
<1>2. f \in Seq(R) /\ Len(f) = N
  BY <1>1
<1>3. IsBody(f)
  BY <1>1, <1>2 DEF IsBody
<1>4. \A i \in 1..N : Safe(f[i], T)
  BY <1>1, Silent DEF Sound
<1> QED
  BY <1>2, <1>3, <1>4 DEF Sound, Uncaught

LEMMA WorkspaceRoutes ==
  ASSUME NEW r, NEW s, NEW c, c = r.args, c \in Calls,
         c.op \in {"create_workspace", "list_workspaces", "get_workspace",
                    "list_workspace_members", "list_workspace_audit_logs",
                    "add_workspace_member", "update_workspace_member",
                    "remove_workspace_member"}
  PROVE  Kept(r, s)
<1>1. CASE c.op = "create_workspace"
  <2>1. {"workspaces", "memberships"} \subseteq Tables(c.op)
    BY <1>1 DEF Tables, WrittenBy
  <2>2. Sound(create_workspace(s, c), Tables(c.op))
    BY <2>1, WorkspacesSound
  <2>3. ApiEndpoint(r, s) = Authenticated(s, c, create_workspace(s, c),
       {"SlugAlreadyExists"})
    BY <1>1 DEF ApiEndpoint, create_workspace_endpoint
  <2> QED
    BY <1>1, <2>2, <2>3, Signed DEF Unsigned
<1>2. CASE c.op = "list_workspaces"
  <2>1. Sound(list_workspaces(s, c), Tables(c.op))
    BY WorkspacesSound
  <2>2. ApiEndpoint(r, s) = Authenticated(s, c, list_workspaces(s, c), {})
    BY <1>2 DEF ApiEndpoint, list_workspaces_endpoint
  <2> QED
    BY <1>2, <2>1, <2>2, Signed DEF Unsigned
<1>3. CASE c.op = "get_workspace"
  <2>1. Sound(get_workspace_for_user(s, c.by, c.ws), Tables(c.op))
    BY ChecksSound
  <2>2. ApiEndpoint(r, s) = Authenticated(s, c, get_workspace_for_user(s, c.by, c.ws),
       {"WorkspaceNotFound"})
    BY <1>3 DEF ApiEndpoint, get_workspace_endpoint
  <2> QED
    BY <1>3, <2>1, <2>2, Signed DEF Unsigned
<1>4. CASE c.op = "list_workspace_members"
  <2>1. Sound(list_workspace_members(s, c), Tables(c.op))
    BY WorkspacesSound
  <2>2. ApiEndpoint(r, s) = Authenticated(s, c, list_workspace_members(s, c),
       {"WorkspaceNotFound"})
    BY <1>4 DEF ApiEndpoint, list_workspace_members_endpoint
  <2> QED
    BY <1>4, <2>1, <2>2, Signed DEF Unsigned
<1>5. CASE c.op = "list_workspace_audit_logs"
  <2>1. Sound(require_workspace_owner(s, c.by, c.ws), Tables(c.op))
    BY ChecksSound
  <2>2. ApiEndpoint(r, s) = Authenticated(s, c, require_workspace_owner(s, c.by, c.ws),
       {"WorkspaceNotFound", "WorkspaceOwnerRequired"})
    BY <1>5 DEF ApiEndpoint, list_workspace_audit_logs_endpoint
  <2> QED
    BY <1>5, <2>1, <2>2, Signed DEF Unsigned
<1>6. CASE c.op = "add_workspace_member"
  <2>1. "memberships" \in Tables(c.op)
    BY <1>6 DEF Tables, WrittenBy
  <2>2. Sound(add_workspace_member(s, c), Tables(c.op))
    BY <2>1, WorkspacesSound
  <2>3. ApiEndpoint(r, s) = Authenticated(s, c, add_workspace_member(s, c),
       {"WorkspaceNotFound", "UserNotFound", "WorkspaceOwnerRequired"})
    BY <1>6 DEF ApiEndpoint, add_workspace_member_endpoint
  <2> QED
    BY <1>6, <2>2, <2>3, Signed DEF Unsigned
<1>7. CASE c.op = "update_workspace_member"
  <2>1. "memberships" \in Tables(c.op)
    BY <1>7 DEF Tables, WrittenBy
  <2>2. Sound(update_workspace_member_role(s, c), Tables(c.op))
    BY <2>1, WorkspacesSound
  <2>3. ApiEndpoint(r, s) = Authenticated(s, c, update_workspace_member_role(s, c),
       {"WorkspaceNotFound", "WorkspaceMemberNotFound", "WorkspaceOwnerRequired",
       "WorkspaceLastOwner"})
    BY <1>7 DEF ApiEndpoint, update_workspace_member_endpoint
  <2> QED
    BY <1>7, <2>2, <2>3, Signed DEF Unsigned
<1>8. CASE c.op = "remove_workspace_member"
  <2>1. {"memberships", "room_members"} \subseteq Tables(c.op)
    BY <1>8 DEF Tables, WrittenBy
  <2>2. Sound(remove_workspace_member(s, c), Tables(c.op))
    BY <2>1, WorkspacesSound
  <2>3. ApiEndpoint(r, s) = Authenticated(s, c, remove_workspace_member(s, c),
       {"WorkspaceNotFound", "WorkspaceMemberNotFound", "WorkspaceOwnerRequired",
       "WorkspaceLastOwner"})
    BY <1>8 DEF ApiEndpoint, remove_workspace_member_endpoint
  <2> QED
    BY <1>8, <2>2, <2>3, Signed DEF Unsigned
<1> QED
  BY <1>1, <1>2, <1>3, <1>4, <1>5, <1>6, <1>7, <1>8

LEMMA RoomRoutes ==
  ASSUME NEW r, NEW s, NEW c, c = r.args, c \in Calls,
         c.op \in {"create_room", "list_rooms", "start_direct_conversation", "get_room",
                    "join_room", "leave_room", "list_room_members", "add_room_member",
                    "invite_room_member", "update_room_member", "remove_room_member"}
  PROVE  Kept(r, s)
<1>1. CASE c.op = "create_room"
  <2>1. {"rooms", "room_members"} \subseteq Tables(c.op)
    BY <1>1 DEF Tables, WrittenBy
  <2>2. Sound(create_room(s, c.by, c.room), Tables(c.op))
    BY <2>1, RoomsSound
  <2>3. ApiEndpoint(r, s) = Authenticated(s, c, create_room(s, c.by, c.room),
       {"WorkspaceNotFound", "SlugAlreadyExists"})
    BY <1>1 DEF ApiEndpoint, create_room_endpoint
  <2> QED
    BY <1>1, <2>2, <2>3, Signed DEF Unsigned
<1>2. CASE c.op = "list_rooms"
  <2>1. Sound(list_rooms(s, c), Tables(c.op))
    BY RoomsSound
  <2>2. ApiEndpoint(r, s) = Authenticated(s, c, list_rooms(s, c), {"WorkspaceNotFound"})
    BY <1>2 DEF ApiEndpoint, list_rooms_endpoint
  <2> QED
    BY <1>2, <2>1, <2>2, Signed DEF Unsigned
<1>3. CASE c.op = "start_direct_conversation"
  <2>1. {"memberships", "rooms", "room_members", "user_contacts"} \subseteq Tables(c.op)
    BY <1>3 DEF Tables, WrittenBy
  <2>2. Sound(start_direct_conversation(s, c.by, c.ws, c.user), Tables(c.op))
    BY <2>1, RoomsSound
  <2>3. ApiEndpoint(r, s) = Authenticated(s, c, start_direct_conversation(s, c.by, c.ws,
       c.user), {"WorkspaceNotFound", "UserNotFound", "SelfConversation"})
    BY <1>3 DEF ApiEndpoint, start_direct_conversation_endpoint
  <2> QED
    BY <1>3, <2>2, <2>3, Signed DEF Unsigned
<1>4. CASE c.op = "get_room"
  <2>1. Sound(get_room_for_user(s, c.by, c.room), Tables(c.op))
    BY ChecksSound
  <2>2. ApiEndpoint(r, s) = Authenticated(s, c, get_room_for_user(s, c.by, c.room),
       {"RoomNotFound"})
    BY <1>4 DEF ApiEndpoint, get_room_endpoint
  <2> QED
    BY <1>4, <2>1, <2>2, Signed DEF Unsigned
<1>5. CASE c.op = "join_room"
  <2>1. "room_members" \in Tables(c.op)
    BY <1>5 DEF Tables, WrittenBy
  <2>2. Sound(join_room(s, c), Tables(c.op))
    BY <2>1, RoomsSound
  <2>3. ApiEndpoint(r, s) = Authenticated(s, c, join_room(s, c), {"RoomNotFound"})
    BY <1>5 DEF ApiEndpoint, join_room_endpoint
  <2> QED
    BY <1>5, <2>2, <2>3, Signed DEF Unsigned
<1>6. CASE c.op = "leave_room"
  <2>1. "room_members" \in Tables(c.op)
    BY <1>6 DEF Tables, WrittenBy
  <2>2. Sound(leave_room(s, c), Tables(c.op))
    BY <2>1, RoomsSound
  <2>3. ApiEndpoint(r, s) = Authenticated(s, c, leave_room(s, c), {"RoomNotFound",
       "RoomLastOwner"})
    BY <1>6 DEF ApiEndpoint, leave_room_endpoint
  <2> QED
    BY <1>6, <2>2, <2>3, Signed DEF Unsigned
<1>7. CASE c.op = "list_room_members"
  <2>1. Sound(list_room_members(s, c), Tables(c.op))
    BY RoomsSound
  <2>2. ApiEndpoint(r, s) = Authenticated(s, c, list_room_members(s, c), {"RoomNotFound"})
    BY <1>7 DEF ApiEndpoint, list_room_members_endpoint
  <2> QED
    BY <1>7, <2>1, <2>2, Signed DEF Unsigned
<1>8. CASE c.op = "add_room_member"
  <2>1. "room_members" \in Tables(c.op)
    BY <1>8 DEF Tables, WrittenBy
  <2>2. Sound(add_room_member(s, c), Tables(c.op))
    BY <2>1, RoomsSound
  <2>3. ApiEndpoint(r, s) = Authenticated(s, c, add_room_member(s, c), {"RoomNotFound",
       "UserNotFound", "WorkspaceMembershipRequired", "RoomOwnerRequired"})
    BY <1>8 DEF ApiEndpoint, add_room_member_endpoint
  <2> QED
    BY <1>8, <2>2, <2>3, Signed DEF Unsigned
<1>9. CASE c.op = "invite_room_member"
  <2>1. {"memberships", "room_members"} \subseteq Tables(c.op)
    BY <1>9 DEF Tables, WrittenBy
  <2>2. Sound(invite_room_member_by_email(s, c.by, c.room, c.user, c.role), Tables(c.op))
    BY <2>1, RoomsSound
  <2>3. ApiEndpoint(r, s) = Authenticated(s, c, invite_room_member_by_email(s, c.by, c.room,
       c.user, c.role), {"RoomNotFound", "UserNotFound", "SelfConversation",
       "RoomOwnerRequired"})
    BY <1>9 DEF ApiEndpoint, invite_room_member_endpoint
  <2> QED
    BY <1>9, <2>2, <2>3, Signed DEF Unsigned
<1>10. CASE c.op = "update_room_member"
  <2>1. "room_members" \in Tables(c.op)
    BY <1>10 DEF Tables, WrittenBy
  <2>2. Sound(update_room_member_role(s, c), Tables(c.op))
    BY <2>1, RoomsSound
  <2>3. ApiEndpoint(r, s) = Authenticated(s, c, update_room_member_role(s, c),
       {"RoomNotFound", "RoomMemberNotFound", "RoomOwnerRequired", "RoomLastOwner"})
    BY <1>10 DEF ApiEndpoint, update_room_member_endpoint
  <2> QED
    BY <1>10, <2>2, <2>3, Signed DEF Unsigned
<1>11. CASE c.op = "remove_room_member"
  <2>1. "room_members" \in Tables(c.op)
    BY <1>11 DEF Tables, WrittenBy
  <2>2. Sound(remove_room_member(s, c), Tables(c.op))
    BY <2>1, RoomsSound
  <2>3. ApiEndpoint(r, s) = Authenticated(s, c, remove_room_member(s, c), {"RoomNotFound",
       "RoomMemberNotFound", "RoomOwnerRequired", "RoomLastOwner"})
    BY <1>11 DEF ApiEndpoint, remove_room_member_endpoint
  <2> QED
    BY <1>11, <2>2, <2>3, Signed DEF Unsigned
<1> QED
  BY <1>1, <1>2, <1>3, <1>4, <1>5, <1>6, <1>7, <1>8, <1>9, <1>10, <1>11

LEMMA ConversationRoutes ==
  ASSUME NEW r, NEW s, NEW c, c = r.args, c \in Calls,
         c.op \in {"list_conversations", "start_global_direct", "create_group_conversation",
                    "list_friends", "add_friend", "remove_friend"}
  PROVE  Kept(r, s)
<1>1. CASE c.op = "list_conversations"
  <2>1. {"workspaces", "memberships"} \subseteq Tables(c.op)
    BY <1>1 DEF Tables, WrittenBy
  <2>2. Sound(list_conversations(s, c), Tables(c.op))
    BY <2>1, ConversationsSound
  <2>3. ApiEndpoint(r, s) = Authenticated(s, c, list_conversations(s, c), {})
    BY <1>1 DEF ApiEndpoint, list_conversations_endpoint
  <2> QED
    BY <1>1, <2>2, <2>3, Signed DEF Unsigned
<1>2. CASE c.op = "start_global_direct"
  <2>1. {"workspaces", "memberships", "rooms", "room_members", "user_contacts"} \subseteq Tables(c.op)
    BY <1>2 DEF Tables, WrittenBy
  <2>2. Sound(start_global_direct_conversation(s, c), Tables(c.op))
    BY <2>1, ConversationsSound
  <2>3. ApiEndpoint(r, s) = Authenticated(s, c, start_global_direct_conversation(s, c),
       {"UserNotFound", "SelfConversation"})
    BY <1>2 DEF ApiEndpoint, start_global_direct_endpoint
  <2> QED
    BY <1>2, <2>2, <2>3, Signed DEF Unsigned
<1>3. CASE c.op = "create_group_conversation"
  <2>1. {"workspaces", "memberships", "rooms", "room_members"} \subseteq Tables(c.op)
    BY <1>3 DEF Tables, WrittenBy
  <2>2. Sound(create_group_conversation(s, c, r.id), Tables(c.op))
    <3>1. c.users \in Seq(Users)
      BY <1>3, CallsAssumption DEF Calls
    <3> QED
      BY <3>1, <2>1, GroupSound
  <2>3. ApiEndpoint(r, s) = Authenticated(s, c, create_group_conversation(s, c, r.id),
       {"SlugAlreadyExists", "UserNotFound", "SelfConversation"})
    BY <1>3 DEF ApiEndpoint, create_group_conversation_endpoint
  <2> QED
    BY <1>3, <2>2, <2>3, Signed DEF Unsigned
<1>4. CASE c.op = "list_friends"
  <2>1. Sound(list_friends(s, c), Tables(c.op))
    BY ConversationsSound
  <2>2. ApiEndpoint(r, s) = Authenticated(s, c, list_friends(s, c), {})
    BY <1>4 DEF ApiEndpoint, list_friends_endpoint
  <2> QED
    BY <1>4, <2>1, <2>2, Signed DEF Unsigned
<1>5. CASE c.op = "add_friend"
  <2>1. "user_contacts" \in Tables(c.op)
    BY <1>5 DEF Tables, WrittenBy
  <2>2. Sound(add_friend_by_email(s, c), Tables(c.op))
    BY <2>1, ConversationsSound
  <2>3. ApiEndpoint(r, s) = Authenticated(s, c, add_friend_by_email(s, c), {"UserNotFound",
       "SelfFriend"})
    BY <1>5 DEF ApiEndpoint, add_friend_endpoint
  <2> QED
    BY <1>5, <2>2, <2>3, Signed DEF Unsigned
<1>6. CASE c.op = "remove_friend"
  <2>1. "user_contacts" \in Tables(c.op)
    BY <1>6 DEF Tables, WrittenBy
  <2>2. Sound(remove_friend(s, c), Tables(c.op))
    BY <2>1, ConversationsSound
  <2>3. ApiEndpoint(r, s) = Authenticated(s, c, remove_friend(s, c), {"FriendNotFound"})
    BY <1>6 DEF ApiEndpoint, remove_friend_endpoint
  <2> QED
    BY <1>6, <2>2, <2>3, Signed DEF Unsigned
<1> QED
  BY <1>1, <1>2, <1>3, <1>4, <1>5, <1>6

LEMMA MessageRoutes ==
  ASSUME NEW r, NEW s, NEW c, c = r.args, c \in Calls,
         c.op \in {"create_message", "update_message", "delete_message", "list_messages",
                    "list_messages_page", "search_messages", "list_message_replies",
                    "list_room_events", "add_reaction", "remove_reaction"}
  PROVE  Kept(r, s)
<1>1. CASE c.op = "create_message"
  <2>1. {"messages", "events", "attachments", "notifications"} \subseteq Tables(c.op)
    BY <1>1 DEF Tables, WrittenBy
  <2>2. Sound(create_message(s, c, r.id), Tables(c.op))
    BY <2>1, MessagesSound
  <2>3. ApiEndpoint(r, s) = Authenticated(s, c, create_message(s, c, r.id), InRoom \cup
       {"AttachmentNotFound", "MessageNotFound"})
    BY <1>1 DEF ApiEndpoint, create_message_endpoint
  <2> QED
    BY <1>1, <2>2, <2>3, Signed DEF Unsigned
<1>2. CASE c.op = "update_message"
  <2>1. {"messages", "events"} \subseteq Tables(c.op)
    BY <1>2 DEF Tables, WrittenBy
  <2>2. Sound(update_message(s, c, r.id), Tables(c.op))
    BY <2>1, MessagesSound
  <2>3. ApiEndpoint(r, s) = Authenticated(s, c, update_message(s, c, r.id), InRoom \cup
       {"MessageNotFound", "MessagePermissionDenied"})
    BY <1>2 DEF ApiEndpoint, update_message_endpoint
  <2> QED
    BY <1>2, <2>2, <2>3, Signed DEF Unsigned
<1>3. CASE c.op = "delete_message"
  <2>1. {"messages", "events"} \subseteq Tables(c.op)
    BY <1>3 DEF Tables, WrittenBy
  <2>2. Sound(delete_message(s, c), Tables(c.op))
    BY <2>1, MessagesSound
  <2>3. ApiEndpoint(r, s) = Authenticated(s, c, delete_message(s, c), InRoom \cup
       {"MessageNotFound", "MessagePermissionDenied"})
    BY <1>3 DEF ApiEndpoint, delete_message_response
  <2> QED
    BY <1>3, <2>2, <2>3, Signed DEF Unsigned
<1>4. CASE c.op = "list_messages"
  <2>1. Sound(list_messages(s, c), Tables(c.op))
    BY MessagesSound
  <2>2. ApiEndpoint(r, s) = Authenticated(s, c, list_messages(s, c), InRoom)
    BY <1>4 DEF ApiEndpoint, list_messages_endpoint
  <2> QED
    BY <1>4, <2>1, <2>2, Signed DEF Unsigned
<1>5. CASE c.op = "list_messages_page"
  <2>1. Sound(list_messages_page(s, c), Tables(c.op))
    BY MessagesSound
  <2>2. ApiEndpoint(r, s) = Authenticated(s, c, list_messages_page(s, c), InRoom \cup
       {"MessageNotFound"})
    BY <1>5 DEF ApiEndpoint, list_messages_page_endpoint
  <2> QED
    BY <1>5, <2>1, <2>2, Signed DEF Unsigned
<1>6. CASE c.op = "search_messages"
  <2>1. Sound(list_messages(s, c), Tables(c.op))
    BY MessagesSound
  <2>2. ApiEndpoint(r, s) = Authenticated(s, c, list_messages(s, c), InRoom)
    BY <1>6 DEF ApiEndpoint, search_messages_endpoint
  <2> QED
    BY <1>6, <2>1, <2>2, Signed DEF Unsigned
<1>7. CASE c.op = "list_message_replies"
  <2>1. Sound(list_message_replies(s, c), Tables(c.op))
    BY MessagesSound
  <2>2. ApiEndpoint(r, s) = Authenticated(s, c, list_message_replies(s, c), InRoom \cup
       {"MessageNotFound"})
    BY <1>7 DEF ApiEndpoint, list_message_replies_endpoint
  <2> QED
    BY <1>7, <2>1, <2>2, Signed DEF Unsigned
<1>8. CASE c.op = "list_room_events"
  <2>1. Sound(list_room_events(s, c), Tables(c.op))
    BY ChecksSound
  <2>2. ApiEndpoint(r, s) = Authenticated(s, c, list_room_events(s, c), InRoom)
    BY <1>8 DEF ApiEndpoint, list_room_events_endpoint
  <2> QED
    BY <1>8, <2>1, <2>2, Signed DEF Unsigned
<1>9. CASE c.op = "add_reaction"
  <2>1. {"events", "message_reactions"} \subseteq Tables(c.op)
    BY <1>9 DEF Tables, WrittenBy
  <2>2. Sound(add_reaction(s, c), Tables(c.op))
    BY <2>1, MessagesSound
  <2>3. ApiEndpoint(r, s) = Authenticated(s, c, add_reaction(s, c), InRoom \cup
       {"MessageNotFound", "ReactionAlreadyExists"})
    BY <1>9 DEF ApiEndpoint, add_reaction_endpoint
  <2> QED
    BY <1>9, <2>2, <2>3, Signed DEF Unsigned
<1>10. CASE c.op = "remove_reaction"
  <2>1. {"events", "message_reactions"} \subseteq Tables(c.op)
    BY <1>10 DEF Tables, WrittenBy
  <2>2. Sound(remove_reaction(s, c), Tables(c.op))
    BY <2>1, MessagesSound
  <2>3. ApiEndpoint(r, s) = Authenticated(s, c, remove_reaction(s, c), InRoom \cup
       {"MessageNotFound", "ReactionNotFound"})
    BY <1>10 DEF ApiEndpoint, remove_reaction_endpoint
  <2> QED
    BY <1>10, <2>2, <2>3, Signed DEF Unsigned
<1> QED
  BY <1>1, <1>2, <1>3, <1>4, <1>5, <1>6, <1>7, <1>8, <1>9, <1>10

LEMMA DetailRoutes ==
  ASSUME NEW r, NEW s, NEW c, c = r.args, c \in Calls,
         c.op \in {"create_attachment", "confirm_attachment", "create_attachment_download",
                    "update_room_read_state", "list_room_read_states", "list_notifications",
                    "unread_count", "mark_read", "mark_all_read"}
  PROVE  Kept(r, s)
<1>1. CASE c.op = "create_attachment"
  <2>1. "attachments" \in Tables(c.op)
    BY <1>1 DEF Tables, WrittenBy
  <2>2. Sound(create_attachment_intent(s, c, r.id), Tables(c.op))
    BY <2>1, MessagesSound
  <2>3. ApiEndpoint(r, s) = Authenticated(s, c, create_attachment_intent(s, c, r.id),
       InRoom)
    BY <1>1 DEF ApiEndpoint, create_attachment_endpoint
  <2> QED
    BY <1>1, <2>2, <2>3, Signed DEF Unsigned
<1>2. CASE c.op = "confirm_attachment"
  <2>1. "attachments" \in Tables(c.op)
    BY <1>2 DEF Tables, WrittenBy
  <2>2. Sound(confirm_attachment_upload(s, c), Tables(c.op))
    BY <2>1, MessagesSound
  <2>3. ApiEndpoint(r, s) = Authenticated(s, c, confirm_attachment_upload(s, c),
       {"AttachmentNotFound", "AttachmentAlreadyAttached", "AttachmentUploadNotFound",
       "AttachmentUploadMismatch"})
    BY <1>2 DEF ApiEndpoint, confirm_attachment_endpoint
  <2> QED
    BY <1>2, <2>2, <2>3, Signed DEF Unsigned
<1>3. CASE c.op = "create_attachment_download"
  <2>1. Sound(get_downloadable_attachment(s, c), Tables(c.op))
    BY MessagesSound
  <2>2. ApiEndpoint(r, s) = Authenticated(s, c, get_downloadable_attachment(s, c), InRoom
       \cup {"AttachmentNotFound"})
    BY <1>3 DEF ApiEndpoint, create_attachment_download_endpoint
  <2> QED
    BY <1>3, <2>1, <2>2, Signed DEF Unsigned
<1>4. CASE c.op = "update_room_read_state"
  <2>1. {"events", "room_read_states"} \subseteq Tables(c.op)
    BY <1>4 DEF Tables, WrittenBy
  <2>2. Sound(update_room_read_state(s, c), Tables(c.op))
    BY <2>1, MessagesSound
  <2>3. ApiEndpoint(r, s) = Authenticated(s, c, update_room_read_state(s, c), InRoom \cup
       {"ReadStateAheadOfRoom"})
    BY <1>4 DEF ApiEndpoint, update_room_read_state_endpoint
  <2> QED
    BY <1>4, <2>2, <2>3, Signed DEF Unsigned
<1>5. CASE c.op = "list_room_read_states"
  <2>1. Sound(list_room_read_states(s, c), Tables(c.op))
    BY MessagesSound
  <2>2. ApiEndpoint(r, s) = Authenticated(s, c, list_room_read_states(s, c), InRoom)
    BY <1>5 DEF ApiEndpoint, list_room_read_states_endpoint
  <2> QED
    BY <1>5, <2>1, <2>2, Signed DEF Unsigned
<1>6. CASE c.op = "list_notifications"
  <2>1. Sound(list_user_notifications(s, c), Tables(c.op))
    BY MessagesSound
  <2>2. ApiEndpoint(r, s) = Authenticated(s, c, list_user_notifications(s, c), {})
    BY <1>6 DEF ApiEndpoint, list_notifications
  <2> QED
    BY <1>6, <2>1, <2>2, Signed DEF Unsigned
<1>7. CASE c.op = "unread_count"
  <2>1. Sound(unread_notification_count(s, c), Tables(c.op))
    BY MessagesSound DEF unread_notification_count
  <2>2. ApiEndpoint(r, s) = Authenticated(s, c, unread_notification_count(s, c), {})
    BY <1>7 DEF ApiEndpoint, get_unread_notification_count
  <2> QED
    BY <1>7, <2>1, <2>2, Signed DEF Unsigned
<1>8. CASE c.op = "mark_read"
  <2>1. "notifications" \in Tables(c.op)
    BY <1>8 DEF Tables, WrittenBy
  <2>2. Sound(mark_notification_read(s, c), Tables(c.op))
    BY <2>1, MessagesSound
  <2>3. ApiEndpoint(r, s) = Authenticated(s, c, mark_notification_read(s, c),
       {"NotificationNotFound"})
    BY <1>8 DEF ApiEndpoint, mark_read
  <2> QED
    BY <1>8, <2>2, <2>3, Signed DEF Unsigned
<1>9. CASE c.op = "mark_all_read"
  <2>1. "notifications" \in Tables(c.op)
    BY <1>9 DEF Tables, WrittenBy
  <2>2. Sound(mark_all_notifications_read(s, c), Tables(c.op))
    BY <2>1, MessagesSound
  <2>3. ApiEndpoint(r, s) = Authenticated(s, c, mark_all_notifications_read(s, c), {})
    BY <1>9 DEF ApiEndpoint, mark_all_read
  <2> QED
    BY <1>9, <2>2, <2>3, Signed DEF Unsigned
<1> QED
  BY <1>1, <1>2, <1>3, <1>4, <1>5, <1>6, <1>7, <1>8, <1>9

LEMMA AccountRoutes ==
  ASSUME NEW r, NEW s, NEW c, c = r.args, c \in Calls,
         c.op \in {"register", "login", "refresh", "logout", "list_auth_sessions",
                    "revoke_auth_session", "list_users", "list_system_users",
                    "update_system_user", "bootstrap"}
  PROVE  Kept(r, s)
<1>1. CASE c.op = "register"
  <2>1. {"users", "auth_sessions"} \subseteq Tables(c.op)
    BY <1>1 DEF Tables, WrittenBy
  <2>2. Sound(register_user(s, c) \o create_token_pair(c.by, r.id), Tables(c.op))
    BY <2>1, AccountsSound, Cat
  <2>3. ApiEndpoint(r, s).body = register_user(s, c) \o create_token_pair(c.by, r.id)
    BY <1>1 DEF ApiEndpoint, Handler, register
  <2> QED
    BY <1>1, <2>2, <2>3 DEF Kept
<1>2. CASE c.op = "login"
  <2>1. "auth_sessions" \in Tables(c.op)
    BY <1>2 DEF Tables, WrittenBy
  <2>2. Sound(authenticate_user(s, c), Tables(c.op))
    BY <2>1, AccountsSound
  <2>3. Sound(create_token_pair(c.by, r.id), Tables(c.op))
    BY <2>1, AccountsSound
  <2>4. Sound(authenticate_user(s, c) \o create_token_pair(c.by, r.id), Tables(c.op))
    BY <2>2, <2>3, Cat
  <2>5. ApiEndpoint(r, s).body = authenticate_user(s, c) \o create_token_pair(c.by, r.id)
    BY <1>2 DEF ApiEndpoint, Handler, login
  <2>6. Guarded(authenticate_user(s, c), s, Credential(c))
    BY <1>2, SignInChecked DEF Credential
  <2>7. Guarded(ApiEndpoint(r, s).body, s, Credential(c))
    BY <2>2, <2>3, <2>5, <2>6, Joins, GuardStays DEF Sound
  <2> QED
    BY <2>4, <2>5, <2>7 DEF Kept
<1>3. CASE c.op = "refresh"
  <2>1. "auth_sessions" \in Tables(c.op)
    BY <1>3 DEF Tables, WrittenBy
  <2>2. Sound(get_active_auth_session_for_refresh_token(s, c, Raise("InvalidRefreshToken")), Tables(c.op))
    BY <2>1, AccountsSound
  <2>3. Sound(<< Touch(AuthSession(c.session)), Select({User(c.by)}), Require(Active(s, c.by), "InvalidRefreshToken"), Update(AuthSession(c.session), [revoked |-> TRUE]) >>, Tables(c.op))
    BY <2>1, Silent, Tuple4, AuthSessionWrites
  <2>4. Sound(create_token_pair(c.by, r.id), Tables(c.op))
    BY <2>1, AccountsSound
  <2>5. Sound(get_active_auth_session_for_refresh_token(s, c, Raise("InvalidRefreshToken")) \o << Touch(AuthSession(c.session)), Select({User(c.by)}), Require(Active(s, c.by), "InvalidRefreshToken"), Update(AuthSession(c.session), [revoked |-> TRUE]) >> \o create_token_pair(c.by, r.id), Tables(c.op))
    BY <2>2, <2>3, <2>4, Cat
  <2>6. ApiEndpoint(r, s).body = get_active_auth_session_for_refresh_token(s, c, Raise("InvalidRefreshToken")) \o << Touch(AuthSession(c.session)), Select({User(c.by)}), Require(Active(s, c.by), "InvalidRefreshToken"), Update(AuthSession(c.session), [revoked |-> TRUE]) >> \o create_token_pair(c.by, r.id)
    BY <1>3 DEF ApiEndpoint, Handler, refresh_endpoint, refresh
  <2>7. Guarded(get_active_auth_session_for_refresh_token(s, c, Raise("InvalidRefreshToken")), s, Credential(c))
    BY <1>3, TokenChecked DEF Credential
  <2>8. Guarded(ApiEndpoint(r, s).body, s, Credential(c))
    BY <2>2, <2>3, <2>4, <2>6, <2>7, Joins, GuardStays DEF Sound
  <2> QED
    BY <2>5, <2>6, <2>8 DEF Kept
<1>4. CASE c.op = "logout"
  <2>1. "auth_sessions" \in Tables(c.op)
    BY <1>4 DEF Tables, WrittenBy
  <2>2. Sound(revoke_refresh_token_session(s, c), Tables(c.op))
    BY <2>1, AccountsSound
  <2>3. ApiEndpoint(r, s) = Authenticated(s, c, revoke_refresh_token_session(s, c), {})
    BY <1>4 DEF ApiEndpoint, logout
  <2> QED
    BY <1>4, <2>2, <2>3, Signed DEF Unsigned
<1>5. CASE c.op = "list_auth_sessions"
  <2>1. Sound(list_active_auth_sessions(s, c), Tables(c.op))
    BY AccountsSound
  <2>2. ApiEndpoint(r, s) = Authenticated(s, c, list_active_auth_sessions(s, c), {})
    BY <1>5 DEF ApiEndpoint, list_auth_sessions
  <2> QED
    BY <1>5, <2>1, <2>2, Signed DEF Unsigned
<1>6. CASE c.op = "revoke_auth_session"
  <2>1. "auth_sessions" \in Tables(c.op)
    BY <1>6 DEF Tables, WrittenBy
  <2>2. Sound(revoke_user_auth_session(s, c), Tables(c.op))
    BY <2>1, AccountsSound
  <2>3. ApiEndpoint(r, s) = Authenticated(s, c, revoke_user_auth_session(s, c),
       {"AuthSessionNotFound"})
    BY <1>6 DEF ApiEndpoint, revoke_auth_session_endpoint
  <2> QED
    BY <1>6, <2>2, <2>3, Signed DEF Unsigned
<1>7. CASE c.op = "list_users"
  <2>1. Sound(<< Select(AllUsers) >>, Tables(c.op))
    BY Silent, Tuple1
  <2>2. ApiEndpoint(r, s) = Authenticated(s, c, << Select(AllUsers) >>, {})
    BY <1>7 DEF ApiEndpoint, list_users
  <2> QED
    BY <1>7, <2>1, <2>2, Signed DEF Unsigned
<1>8. CASE c.op = "list_system_users"
  <2>1. Sound(get_current_system_admin(s, c), Tables(c.op))
    BY AccountsSound
  <2>2. Sound(<< Select(AllUsers) >>, Tables(c.op))
    BY Silent, Tuple1
  <2>3. Sound(get_current_system_admin(s, c) \o << Select(AllUsers) >>, Tables(c.op))
    BY <2>1, <2>2, Cat
  <2>4. ApiEndpoint(r, s).body = get_current_system_admin(s, c) \o << Select(AllUsers) >>
    BY <1>8 DEF ApiEndpoint, Handler, list_system_users
  <2>5. Guarded(get_current_system_admin(s, c), s, Credential(c))
    BY <1>8, UserChecked, GuardStays, ChecksSound, Silent, Tuple1 DEF Credential, get_current_system_admin, Sound
  <2>6. Guarded(ApiEndpoint(r, s).body, s, Credential(c))
    BY <2>1, <2>2, <2>4, <2>5, Joins, GuardStays DEF Sound
  <2> QED
    BY <2>3, <2>4, <2>6 DEF Kept
<1>9. CASE c.op = "update_system_user"
  <2>1. "users" \in Tables(c.op)
    BY <1>9 DEF Tables, WrittenBy
  <2>2. Sound(get_current_system_admin(s, c), Tables(c.op))
    BY <2>1, AccountsSound
  <2>3. Sound(update_system_user(s, c), Tables(c.op))
    BY <2>1, UpdateSystemUserSound
  <2>4. Sound(get_current_system_admin(s, c) \o update_system_user(s, c), Tables(c.op))
    BY <2>2, <2>3, Cat
  <2>5. ApiEndpoint(r, s).body = get_current_system_admin(s, c) \o update_system_user(s, c)
    BY <1>9 DEF ApiEndpoint, Handler, update_system_user_endpoint
  <2>6. Guarded(get_current_system_admin(s, c), s, Credential(c))
    BY <1>9, UserChecked, GuardStays, ChecksSound, Silent, Tuple1 DEF Credential, get_current_system_admin, Sound
  <2>7. Guarded(ApiEndpoint(r, s).body, s, Credential(c))
    BY <2>2, <2>3, <2>5, <2>6, Joins, GuardStays DEF Sound
  <2> QED
    BY <2>4, <2>5, <2>7 DEF Kept
<1>10. CASE c.op = "bootstrap"
  <2>1. "users" \in Tables(c.op)
    BY <1>10 DEF Tables, WrittenBy
  <2>2. Sound(bootstrap_system_admin(s, c), Tables(c.op))
    BY <2>1, AccountsSound
  <2>3. ApiEndpoint(r, s).body = bootstrap_system_admin(s, c)
    BY <1>10 DEF ApiEndpoint, Handler, bootstrap_script
  <2> QED
    BY <1>10, <2>2, <2>3 DEF Kept
<1> QED
  BY <1>1, <1>2, <1>3, <1>4, <1>5, <1>6, <1>7, <1>8, <1>9, <1>10

LEMMA AppRoutes ==
  ASSUME NEW r, NEW s, NEW c, c = r.args, c \in Calls,
         c.op \in {"create_app", "list_workspace_apps", "get_app", "create_api_key",
                    "create_incoming_webhook", "list_api_keys", "list_incoming_webhooks",
                    "revoke_api_key", "revoke_incoming_webhook", "create_app_message",
                    "deliver_incoming_webhook"}
  PROVE  Kept(r, s)
<1>1. CASE c.op = "create_app"
  <2>1. {"apps", "bots"} \subseteq Tables(c.op)
    BY <1>1 DEF Tables, WrittenBy
  <2>2. Sound(create_app(s, c), Tables(c.op))
    BY <2>1, AppsSound
  <2>3. ApiEndpoint(r, s) = Authenticated(s, c, create_app(s, c), {"WorkspaceNotFound",
       "WorkspaceOwnerRequired", "AppSlugAlreadyExists"})
    BY <1>1 DEF ApiEndpoint, create_app_endpoint
  <2> QED
    BY <1>1, <2>2, <2>3, Signed DEF Unsigned
<1>2. CASE c.op = "list_workspace_apps"
  <2>1. Sound(list_workspace_apps(s, c), Tables(c.op))
    BY AppsSound
  <2>2. ApiEndpoint(r, s) = Authenticated(s, c, list_workspace_apps(s, c),
       {"WorkspaceNotFound", "WorkspaceOwnerRequired"})
    BY <1>2 DEF ApiEndpoint, list_workspace_apps_endpoint
  <2> QED
    BY <1>2, <2>1, <2>2, Signed DEF Unsigned
<1>3. CASE c.op = "get_app"
  <2>1. Sound(get_app_for_owner(s, c), Tables(c.op))
    BY ChecksSound
  <2>2. ApiEndpoint(r, s) = Authenticated(s, c, get_app_for_owner(s, c), {"AppNotFound",
       "WorkspaceOwnerRequired"})
    BY <1>3 DEF ApiEndpoint, get_app_endpoint
  <2> QED
    BY <1>3, <2>1, <2>2, Signed DEF Unsigned
<1>4. CASE c.op = "create_api_key"
  <2>1. "api_keys" \in Tables(c.op)
    BY <1>4 DEF Tables, WrittenBy
  <2>2. Sound(create_api_key(s, c, r.id), Tables(c.op))
    BY <2>1, AppsSound
  <2>3. ApiEndpoint(r, s) = Authenticated(s, c, create_api_key(s, c, r.id), {"AppNotFound",
       "WorkspaceOwnerRequired"})
    BY <1>4 DEF ApiEndpoint, create_api_key_endpoint
  <2> QED
    BY <1>4, <2>2, <2>3, Signed DEF Unsigned
<1>5. CASE c.op = "create_incoming_webhook"
  <2>1. "incoming_webhooks" \in Tables(c.op)
    BY <1>5 DEF Tables, WrittenBy
  <2>2. Sound(create_incoming_webhook(s, c, r.id), Tables(c.op))
    BY <2>1, AppsSound
  <2>3. ApiEndpoint(r, s) = Authenticated(s, c, create_incoming_webhook(s, c, r.id),
       {"AppNotFound", "RoomNotFound", "WorkspaceOwnerRequired"})
    BY <1>5 DEF ApiEndpoint, create_incoming_webhook_endpoint
  <2> QED
    BY <1>5, <2>2, <2>3, Signed DEF Unsigned
<1>6. CASE c.op = "list_api_keys"
  <2>1. Sound(list_api_keys(s, c), Tables(c.op))
    BY AppsSound
  <2>2. ApiEndpoint(r, s) = Authenticated(s, c, list_api_keys(s, c), {"AppNotFound",
       "WorkspaceOwnerRequired"})
    BY <1>6 DEF ApiEndpoint, list_api_keys_endpoint
  <2> QED
    BY <1>6, <2>1, <2>2, Signed DEF Unsigned
<1>7. CASE c.op = "list_incoming_webhooks"
  <2>1. Sound(list_incoming_webhooks(s, c), Tables(c.op))
    BY AppsSound
  <2>2. ApiEndpoint(r, s) = Authenticated(s, c, list_incoming_webhooks(s, c),
       {"AppNotFound", "WorkspaceOwnerRequired"})
    BY <1>7 DEF ApiEndpoint, list_incoming_webhooks_endpoint
  <2> QED
    BY <1>7, <2>1, <2>2, Signed DEF Unsigned
<1>8. CASE c.op = "revoke_api_key"
  <2>1. "api_keys" \in Tables(c.op)
    BY <1>8 DEF Tables, WrittenBy
  <2>2. Sound(revoke_api_key(s, c), Tables(c.op))
    BY <2>1, AppsSound
  <2>3. ApiEndpoint(r, s) = Authenticated(s, c, revoke_api_key(s, c), {"AppNotFound",
       "ApiKeyNotFound", "WorkspaceOwnerRequired"})
    BY <1>8 DEF ApiEndpoint, revoke_api_key_endpoint
  <2> QED
    BY <1>8, <2>2, <2>3, Signed DEF Unsigned
<1>9. CASE c.op = "revoke_incoming_webhook"
  <2>1. "incoming_webhooks" \in Tables(c.op)
    BY <1>9 DEF Tables, WrittenBy
  <2>2. Sound(revoke_incoming_webhook(s, c), Tables(c.op))
    BY <2>1, AppsSound
  <2>3. ApiEndpoint(r, s) = Authenticated(s, c, revoke_incoming_webhook(s, c),
       {"AppNotFound", "IncomingWebhookNotFound", "WorkspaceOwnerRequired"})
    BY <1>9 DEF ApiEndpoint, revoke_incoming_webhook_endpoint
  <2> QED
    BY <1>9, <2>2, <2>3, Signed DEF Unsigned
<1>10. CASE c.op = "create_app_message"
  <2>1. {"messages", "events", "notifications", "api_keys"} \subseteq Tables(c.op)
    BY <1>10 DEF Tables, WrittenBy
  <2>2. Sound(authenticate_api_key(s, c.key), Tables(c.op))
    BY <2>1, AppsSound
  <2>3. Sound(get_bot_for_app(s, AppOf(s, ApiKey(c.key))), Tables(c.op))
    BY <2>1, ChecksSound
  <2>4. Sound(create_bot_message(s, AppOf(s, ApiKey(c.key)), c, r.id), Tables(c.op))
    BY <2>1, MessagesSound
  <2>5. Sound(authenticate_api_key(s, c.key) \o get_bot_for_app(s, AppOf(s, ApiKey(c.key))) \o create_bot_message(s, AppOf(s, ApiKey(c.key)), c, r.id), Tables(c.op))
    BY <2>2, <2>3, <2>4, Cat
  <2>6. ApiEndpoint(r, s).body = authenticate_api_key(s, c.key) \o get_bot_for_app(s, AppOf(s, ApiKey(c.key))) \o create_bot_message(s, AppOf(s, ApiKey(c.key)), c, r.id)
    BY <1>10 DEF ApiEndpoint, Handler, create_app_message_endpoint
  <2>7. Guarded(authenticate_api_key(s, c.key), s, Credential(c))
    BY <1>10, ApiKeyChecked DEF Credential
  <2>8. Guarded(ApiEndpoint(r, s).body, s, Credential(c))
    BY <2>2, <2>3, <2>4, <2>6, <2>7, Joins, GuardStays DEF Sound
  <2> QED
    BY <2>5, <2>6, <2>8 DEF Kept
<1>11. CASE c.op = "deliver_incoming_webhook"
  <2>1. {"messages", "events", "notifications", "incoming_webhooks"} \subseteq Tables(c.op)
    BY <1>11 DEF Tables, WrittenBy
  <2>2. Sound(authenticate_incoming_webhook(s, c.key), Tables(c.op))
    BY <2>1, AppsSound
  <2>3. Sound(<< Select({Bot(AppOf(s, IncomingWebhook(c.key)))}) >>, Tables(c.op))
    BY <2>1, Silent, Tuple1
  <2>4. Sound(create_bot_message(s, AppOf(s, IncomingWebhook(c.key)), [room |-> RoomOf(s, IncomingWebhook(c.key)), attachments |-> {}, reply |-> NoMessage], r.id), Tables(c.op))
    BY <2>1, MessagesSound
  <2>5. Sound(authenticate_incoming_webhook(s, c.key) \o << Select({Bot(AppOf(s, IncomingWebhook(c.key)))}) >> \o create_bot_message(s, AppOf(s, IncomingWebhook(c.key)), [room |-> RoomOf(s, IncomingWebhook(c.key)), attachments |-> {}, reply |-> NoMessage], r.id), Tables(c.op))
    BY <2>2, <2>3, <2>4, Cat, SMTT(20)
  <2>6. ApiEndpoint(r, s).body = authenticate_incoming_webhook(s, c.key) \o << Select({Bot(AppOf(s, IncomingWebhook(c.key)))}) >> \o create_bot_message(s, AppOf(s, IncomingWebhook(c.key)), [room |-> RoomOf(s, IncomingWebhook(c.key)), attachments |-> {}, reply |-> NoMessage], r.id)
    BY <1>11 DEF ApiEndpoint, Handler, deliver_incoming_webhook_endpoint
  <2>7. Guarded(authenticate_incoming_webhook(s, c.key), s, Credential(c))
    BY <1>11, WebhookChecked DEF Credential
  <2>8. Guarded(ApiEndpoint(r, s).body, s, Credential(c))
    BY <2>2, <2>3, <2>4, <2>6, <2>7, Joins, GuardStays DEF Sound
  <2> QED
    BY <2>5, <2>6, <2>8 DEF Kept
<1> QED
  BY <1>1, <1>2, <1>3, <1>4, <1>5, <1>6, <1>7, <1>8, <1>9, <1>10, <1>11

LEMMA GatewayRoutes ==
  ASSUME NEW r, NEW s, NEW c, c = r.args, c \in Calls,
         c.op \in {"room_presence", "room_typing", "gateway_authenticate",
                    "gateway_subscribe", "gateway_send", "gateway_presence",
                    "gateway_typing"}
  PROVE  Kept(r, s)
<1>1. CASE c.op = "room_presence"
  <2>1. Sound(ensure_room_member(s, c.by, c.room), Tables(c.op))
    BY ChecksSound
  <2>2. ApiEndpoint(r, s) = Authenticated(s, c, ensure_room_member(s, c.by, c.room), InRoom)
    BY <1>1 DEF ApiEndpoint, room_presence
  <2> QED
    BY <1>1, <2>1, <2>2, Signed DEF Unsigned
<1>2. CASE c.op = "room_typing"
  <2>1. Sound(ensure_room_member(s, c.by, c.room), Tables(c.op))
    BY ChecksSound
  <2>2. ApiEndpoint(r, s) = Authenticated(s, c, ensure_room_member(s, c.by, c.room), InRoom)
    BY <1>2 DEF ApiEndpoint, room_typing
  <2> QED
    BY <1>2, <2>1, <2>2, Signed DEF Unsigned
<1>3. CASE c.op = "gateway_authenticate"
  <2>1. Sound(get_current_user(s, c), Tables(c.op))
    BY ChecksSound
  <2>2. Sound(get_current_user(s, c), Tables(c.op))
    BY <2>1, Cat
  <2>3. ApiEndpoint(r, s).body = get_current_user(s, c)
    BY <1>3 DEF ApiEndpoint, Handler, authenticate_gateway_session
  <2>4. Guarded(get_current_user(s, c), s, Credential(c))
    BY <1>3, UserChecked DEF Credential
  <2>5. Guarded(ApiEndpoint(r, s).body, s, Credential(c))
    BY <2>1, <2>3, <2>4, Joins, GuardStays DEF Sound
  <2> QED
    BY <2>2, <2>3, <2>5 DEF Kept
<1>4. CASE c.op = "gateway_subscribe"
  <2>1. Sound(ensure_room_member(s, c.by, c.room) \o Uncaught(list_room_events(s, c)), Tables(c.op))
    BY ChecksSound, UncaughtSound, Cat
  <2>2. ApiEndpoint(r, s) = Authenticated(s, c, ensure_room_member(s, c.by, c.room) \o
       Uncaught(list_room_events(s, c)), InRoom)
    BY <1>4 DEF ApiEndpoint, handle_gateway_room_subscribe
  <2> QED
    BY <1>4, <2>1, <2>2, Signed DEF Unsigned
<1>5. CASE c.op = "gateway_send"
  <2>1. {"messages", "events", "attachments", "notifications"} \subseteq Tables(c.op)
    BY <1>5 DEF Tables, WrittenBy
  <2>2. Sound(create_message(s, c, r.id), Tables(c.op))
    BY <2>1, MessagesSound
  <2>3. ApiEndpoint(r, s) = Authenticated(s, c, create_message(s, c, r.id), InRoom \cup
       {"MessageNotFound"})
    BY <1>5 DEF ApiEndpoint, handle_gateway_message_send
  <2> QED
    BY <1>5, <2>2, <2>3, Signed DEF Unsigned
<1>6. CASE c.op = "gateway_presence"
  <2>1. Sound(ensure_room_member(s, c.by, c.room), Tables(c.op))
    BY ChecksSound
  <2>2. ApiEndpoint(r, s) = Authenticated(s, c, ensure_room_member(s, c.by, c.room), InRoom)
    BY <1>6 DEF ApiEndpoint, handle_gateway_presence_update
  <2> QED
    BY <1>6, <2>1, <2>2, Signed DEF Unsigned
<1>7. CASE c.op = "gateway_typing"
  <2>1. Sound(ensure_room_member(s, c.by, c.room), Tables(c.op))
    BY ChecksSound
  <2>2. ApiEndpoint(r, s) = Authenticated(s, c, ensure_room_member(s, c.by, c.room), InRoom)
    BY <1>7 DEF ApiEndpoint, handle_gateway_typing_update
  <2> QED
    BY <1>7, <2>1, <2>2, Signed DEF Unsigned
<1> QED
  BY <1>1, <1>2, <1>3, <1>4, <1>5, <1>6, <1>7

LEMMA EndpointsKept ==
  ASSUME NEW r, NEW s, r.args \in Calls
  PROVE  Kept(r, s)
<1> DEFINE c == r.args
<1>1. c.op \in Operations
  BY CallsAssumption DEF Calls
<1> HIDE DEF c
<1>2. c = r.args /\ c \in Calls
  BY DEF c
<1>3. CASE c.op \in {"create_workspace", "list_workspaces", "get_workspace", "list_workspace_members",
   "list_workspace_audit_logs", "add_workspace_member", "update_workspace_member",
   "remove_workspace_member"}
  BY <1>2, <1>3, WorkspaceRoutes
<1>4. CASE c.op \in {"create_room", "list_rooms", "start_direct_conversation", "get_room",
        "join_room", "leave_room", "list_room_members", "add_room_member",
        "invite_room_member", "update_room_member", "remove_room_member"}
  BY <1>2, <1>4, RoomRoutes
<1>5. CASE c.op \in {"list_conversations", "start_global_direct", "create_group_conversation",
        "list_friends", "add_friend", "remove_friend"}
  BY <1>2, <1>5, ConversationRoutes
<1>6. CASE c.op \in {"create_message", "update_message", "delete_message", "list_messages",
        "list_messages_page", "search_messages", "list_message_replies",
        "list_room_events", "add_reaction", "remove_reaction"}
  BY <1>2, <1>6, MessageRoutes
<1>7. CASE c.op \in {"create_attachment", "confirm_attachment", "create_attachment_download",
        "update_room_read_state", "list_room_read_states", "list_notifications",
        "unread_count", "mark_read", "mark_all_read"}
  BY <1>2, <1>7, DetailRoutes
<1>8. CASE c.op \in {"register", "login", "refresh", "logout", "list_auth_sessions",
        "revoke_auth_session", "list_users", "list_system_users",
        "update_system_user", "bootstrap"}
  BY <1>2, <1>8, AccountRoutes
<1>9. CASE c.op \in {"create_app", "list_workspace_apps", "get_app", "create_api_key",
        "create_incoming_webhook", "list_api_keys", "list_incoming_webhooks",
        "revoke_api_key", "revoke_incoming_webhook", "create_app_message",
        "deliver_incoming_webhook"}
  BY <1>2, <1>9, AppRoutes
<1>10. CASE c.op \in {"room_presence", "room_typing", "gateway_authenticate", "gateway_subscribe",
        "gateway_send", "gateway_presence", "gateway_typing"}
  BY <1>2, <1>10, GatewayRoutes
<1> QED
  BY <1>1, <1>3, <1>4, <1>5, <1>6, <1>7, <1>8, <1>9, <1>10 DEF Operations

LEMMA RoutedRuns == ASSUME Routed PROVE Runnable
BY EndpointsKept DEF Routed, Runnable, Kept, Sound

-----------------------------------------------------------------------------
(* Rows keep the columns of their tables, and a request writes only the    *)
(* tables of its endpoint.                                                 *)

Typed(row, k) == row = Absent \/ DOMAIN row = Columns(k)
TypedDb == \A k \in Keys : Typed(db[k], k)
OwnRows(q) ==
  \A k \in DOMAIN writes[q] :
    k[1] \in Tables(Op(q)) /\ (k \in Keys => Typed(writes[q][k], k))
Untouched(q) == pc[q] = 1 => writes[q] = NoRows
RowsIn(q) == Open(q) => OwnRows(q) /\ Untouched(q)
RInv == WInv /\ TypedDb /\ \A q \in Requests : RowsIn(q)

(* The statement of a request writes tables of its endpoint.               *)
LEMMA Current ==
  ASSUME Routed, WInv, NEW q \in Requests, Open(q)
  PROVE  Safe(current[q], Tables(Op(q))) /\ pc[q] \in Nat /\ pc[q] > 0
<1>1. call[q].args \in Calls
  BY ArgsInCalls DEF WInv
<1>2. Sound(Body(q), Tables(Op(q)))
  BY <1>1, EndpointsKept DEF Kept, Routed, Body, Op
<1> QED
  BY <1>2 DEF WInv, Placed, Sound, IsBody

(* What a step of q writes.                                                *)
LEMMA EffectRows ==
  ASSUME Routed, RInv, NEW q \in Requests, Open(q), Effect(q), NEW k \in DOMAIN writes'[q]
  PROVE  k[1] \in Tables(Op(q)) /\ (k \in Keys => Typed(writes'[q][k], k))
<1> DEFINE st == current[q]
<1>1. Safe(st, Tables(Op(q)))
  BY Current DEF RInv
<1>2. k \in DOMAIN writes[q] =>
        k[1] \in Tables(Op(q)) /\ (k \in Keys => Typed(writes[q][k], k))
  BY DEF RInv, RowsIn, OwnRows
<1>3. k \in Keys => Typed(Visible(q, k), k)
  BY <1>2 DEF RInv, TypedDb, Visible
<1> HIDE DEF st
<1>4. CASE Looked(q) \/ Tallied(q) \/ Reloaded(q)
  BY <1>2, <1>4 DEF Looked, Tallied, Reloaded
<1>5. CASE Added(q)
  <2>1. st.do = "insert" /\ writes'[q] = Over([j \in st.keys |-> st.row], writes[q])
    BY <1>5 DEF Added, st
  <2>2. CASE k \in st.keys
    <3>1. writes'[q][k] = st.row
      BY <2>1, <2>2 DEF Over
    <3> QED
      BY <1>1, <2>1, <2>2, <3>1 DEF Safe, Writing, Typed
  <2>3. CASE k \notin st.keys
    <3>1. k \in DOMAIN writes[q] /\ writes'[q][k] = writes[q][k]
      BY <2>1, <2>3 DEF Over
    <3> QED
      BY <1>2, <3>1
  <2> QED
    BY <2>2, <2>3
<1>6. CASE Changed(q)
  <2> DEFINE new == [j \in st.keys |-> Over(st.row, Visible(q, j))]
  <2>1. st.do = "update" /\ writes'[q] = Over(new, writes[q])
        /\ \A j \in st.keys : Visible(q, j) # Absent
    BY <1>6 DEF Changed, st
  <2>2. CASE k \in st.keys
    <3>1. writes'[q][k] = Over(st.row, Visible(q, k))
      BY <2>1, <2>2 DEF Over
    <3>2. k \in Keys => DOMAIN Visible(q, k) = Columns(k)
      BY <1>3, <2>1, <2>2 DEF Typed
    <3>3. DOMAIN st.row \subseteq Columns(k) /\ k[1] \in Tables(Op(q))
      BY <1>1, <2>1, <2>2 DEF Safe, Writing
    <3> QED
      BY <3>1, <3>2, <3>3 DEF Over, Typed
  <2>3. CASE k \notin st.keys
    <3>1. k \in DOMAIN writes[q] /\ writes'[q][k] = writes[q][k]
      BY <2>1, <2>3 DEF Over
    <3> QED
      BY <1>2, <3>1
  <2> QED
    BY <2>2, <2>3
<1>7. CASE Dropped(q)
  <2> DEFINE K == Locks(q) \ (IF st.do = "delete" THEN gone[q] ELSE {})
  <2>1. st.do \in {"delete", "delete_where"} /\ writes'[q] = Over([j \in K |-> Absent], writes[q])
    BY <1>7 DEF Dropped, st
  <2>2. K \subseteq st.keys
    BY <2>1 DEF Locks, st
  <2> HIDE DEF K
  <2>3. CASE k \in K
    <3>1. writes'[q][k] = Absent
      BY <2>1, <2>3 DEF Over
    <3> QED
      BY <1>1, <2>1, <2>2, <2>3, <3>1 DEF Safe, Writing, Typed
  <2>4. CASE k \notin K
    <3>1. k \in DOMAIN writes[q] /\ writes'[q][k] = writes[q][k]
      BY <2>1, <2>4 DEF Over
    <3> QED
      BY <1>2, <3>1
  <2> QED
    BY <2>3, <2>4
<1>8. CASE Committed(q)
  BY <1>8 DEF Committed, NoRows
<1> QED
  BY <1>4, <1>5, <1>6, <1>7, <1>8 DEF Effect

(* Only a commit changes the database.                                     *)
LEMMA DbChange ==
  ASSUME [Next]_vars
  PROVE  db' = db \/ \E p \in Requests : CommitTransaction(p)
BY DEF Next, Run, Read, Tally, Reload, Add, Change, Drop, Cancel, Begin, vars

LEMMA RowsHold ==
  ASSUME Routed
  PROVE  /\ Init => RInv
         /\ RInv /\ [Next]_vars => RInv'
<1>1. ASSUME Init PROVE RInv
  <2>1. PICK x \in Scenarios : db = x.db
    BY <1>1 DEF Init
  <2>2. TypedDb
    BY <2>1, RowsAssumption DEF TypedDb, Typed
  <2>3. WInv /\ \A q \in Requests : ~Open(q)
    BY <1>1, PlacedHolds DEF Init, Open
  <2> QED
    BY <2>2, <2>3 DEF RInv, RowsIn
<1>2. ASSUME RInv, [Next]_vars PROVE RInv'
  <2>1. Runnable /\ WInv /\ WInv'
    BY <1>2, RoutedRuns, PlacedHolds DEF RInv
  <2>2. TypedDb'
    <3>1. ASSUME NEW p \in Requests, CommitTransaction(p), NEW k \in Keys PROVE Typed(db'[k], k)
      <4>1. db'[k] = IF k \in DOMAIN writes[p] THEN writes[p][k] ELSE db[k]
        BY <3>1 DEF CommitTransaction
      <4>2. k \in DOMAIN writes[p] => Typed(writes[p][k], k)
        BY <1>2, <3>1 DEF RInv, RowsIn, OwnRows, CommitTransaction, Doing
      <4> QED
        BY <1>2, <4>1, <4>2 DEF RInv, TypedDb
    <3> QED
      BY <1>2, <3>1, DbChange DEF RInv, TypedDb
  <2>3. ASSUME NEW q \in Requests, Open(q)' PROVE (OwnRows(q) /\ Untouched(q))'
    <3>1. CASE Aside(q)
      BY <1>2, <3>1 DEF Aside, RInv, RowsIn, OwnRows, Untouched, Op
    <3>2. CASE Arrives(q)
      BY <3>2 DEF Arrives, OwnRows, Untouched, NoRows
    <3>3. CASE Goes(q) /\ Effect(q)
      <4>1. OwnRows(q)'
        BY <1>2, <3>3, EffectRows DEF Goes, OwnRows, Op
      <4>2. pc[q] \in Nat /\ pc[q] > 0
        BY <2>1, <3>3, Current DEF Goes
      <4> QED
        BY <3>3, <4>1, <4>2 DEF Goes, Untouched
    <3> QED
      BY <1>2, <2>1, <2>3, <3>1, <3>2, <3>3, StepCases
  <2> QED
    BY <2>1, <2>2, <2>3 DEF RInv, RowsIn
<1> QED
  BY <1>1, <1>2

-----------------------------------------------------------------------------
(* What the statements are.                                                *)

LEMMA Kinds ==
  /\ \A K : Select(K).do = "select" /\ Count(K).do = "count"
            /\ DeleteWhere(K).do = "delete_where"
  /\ \A k, row, e : InsertOr(k, row, e).do = "insert"
  /\ \A k, row : Insert(k, row).do = "insert" /\ Update(k, row).do = "update"
  /\ \A k : Touch(k).do = "update" /\ Delete(k).do = "delete" /\ Refresh(k).do = "refresh"
  /\ Commit.do = "commit" /\ Return.do = "return" /\ Pass.do = "pass"
  /\ \A e : Raise(e).do = "raise"
  /\ \A p, e : Require(p, e).do \in {"pass", "raise"}
BY DEF Select, Count, DeleteWhere, InsertOr, Insert, Update, Touch, Delete, Refresh,
  Commit, Return, Pass, Raise, Require, Statement

(* The statements of the change of a user by an administrator.             *)
Changing(s, c, f) ==
  f \in DOMAIN c.change /\ Exists(s, User(c.user)) /\ ~Has(s, User(c.user), f, c.change[f])
Dropping(s, c, f) == Changing(s, c, f) /\ ~c.change[f]
Demotes(s, c) ==
  Dropping(s, c, "is_system_admin") /\ Has(s, User(c.user), "is_active", TRUE)
Deactivates(s, c) ==
  /\ Dropping(s, c, "is_active")
  /\ \/ ~Dropping(s, c, "is_system_admin") /\ Has(s, User(c.user), "is_system_admin", TRUE)
     \/ Changing(s, c, "is_system_admin") /\ c.change["is_system_admin"]
SetField(s, c, f) ==
  IF Changing(s, c, f) THEN Update(User(c.user), [x \in {f} |-> c.change[f]]) ELSE Pass
AdminRows(s) ==
  {k \in AllUsers : /\ Has(s, Counted(k), "is_system_admin", TRUE)
                    /\ Has(s, Counted(k), "is_active", TRUE)}

AdminShape(b, s, c) ==
  /\ Len(b) = 12
  /\ b[1] = Select({User(c.by)}) /\ b[2] = Require(Active(s, c.by), "Unauthorized")
  /\ b[3] = Require(Has(s, User(c.by), "is_system_admin", TRUE), "Forbidden")
  /\ b[4] = (IF c.user = c.by THEN Pass ELSE Select({User(c.user)}))
  /\ b[5] = Require(Exists(s, User(c.user)), "UserNotFound")
  /\ b[6] = (IF Demotes(s, c) THEN Count(AllUsers) ELSE Pass)
  /\ b[7] = Require(Demotes(s, c) => Cardinality(AdminRows(s)) > 1, "LastSystemAdmin")
  /\ b[8] = SetField(s, c, "is_system_admin")
  /\ b[9] = (IF Deactivates(s, c) THEN Count(AllUsers) ELSE Pass)
  /\ b[10] = Require(Deactivates(s, c) => Cardinality(AdminRows(s)) > 1,
                     "LastSystemAdmin")
  /\ b[11] = SetField(s, c, "is_active")
  /\ b[12] = Commit

LEMMA AdminBody ==
  ASSUME NEW r, NEW s, NEW c, c = r.args, c.op = "update_system_user"
  PROVE  AdminShape(ApiEndpoint(r, s).body, s, c)
<1> DEFINE e2 == Require(Active(s, c.by), "Unauthorized")
           e3 == Require(Has(s, User(c.by), "is_system_admin", TRUE), "Forbidden")
           e4 == IF c.user = c.by THEN Pass ELSE Select({User(c.user)})
           e5 == Require(Exists(s, User(c.user)), "UserNotFound")
           e6 == IF Demotes(s, c) THEN Count(AllUsers) ELSE Pass
           e7 == Require(Demotes(s, c) => Cardinality(AdminRows(s)) > 1, "LastSystemAdmin")
           e9 == IF Deactivates(s, c) THEN Count(AllUsers) ELSE Pass
           e10 == Require(Deactivates(s, c) => Cardinality(AdminRows(s)) > 1,
                          "LastSystemAdmin")
           one == ensure_not_last_active_system_admin(s, Demotes(s, c))
           two == ensure_not_last_active_system_admin(s, Deactivates(s, c))
           adm == get_current_system_admin(s, c)
<1>1. ApiEndpoint(r, s).body = adm \o update_system_user(s, c)
  BY DEF ApiEndpoint, update_system_user_endpoint, Handler
<1>2. update_system_user(s, c) =
        << e4, e5 >> \o one \o << SetField(s, c, "is_system_admin") >>
        \o two \o << SetField(s, c, "is_active"), Commit >>
  BY Zenon DEF update_system_user, Changing, Dropping, Demotes, Deactivates, SetField
<1>3. one = << e6, e7 >>
  BY DEF ensure_not_last_active_system_admin, AdminRows
<1>4. two = << e9, e10 >>
  BY DEF ensure_not_last_active_system_admin, AdminRows
<1>5. adm = << Select({User(c.by)}), e2 >> \o << e3 >>
  BY DEF get_current_system_admin, get_current_user
<1> HIDE DEF one, two, adm, e2, e3, e4, e5, e6, e7, e9, e10
<1>6. LET b == ApiEndpoint(r, s).body IN
         /\ Len(b) = 12 /\ b[1] = Select({User(c.by)}) /\ b[2] = e2 /\ b[3] = e3
         /\ b[4] = e4 /\ b[5] = e5 /\ b[6] = e6 /\ b[7] = e7
         /\ b[8] = SetField(s, c, "is_system_admin") /\ b[9] = e9 /\ b[10] = e10
         /\ b[11] = SetField(s, c, "is_active") /\ b[12] = Commit
  BY <1>1, <1>2, <1>3, <1>4, <1>5
<1> QED
  BY <1>6 DEF AdminShape, e2, e3, e4, e5, e6, e7, e9, e10

LEMMA AdminDoes ==
  ASSUME NEW r, NEW s, r.args.op = "update_system_user"
  PROVE  LET b == ApiEndpoint(r, s).body IN
         /\ Len(b) = 12 /\ b[1].do = "select"
         /\ \A i \in {2, 3, 5, 7, 10} : b[i].do \in {"pass", "raise"}
         /\ b[4].do \in {"pass", "select"}
         /\ \A i \in {6, 9} : b[i].do \in {"pass", "count"}
         /\ \A i \in {8, 11} : b[i].do \in {"pass", "update"}
         /\ b[12].do = "commit"
<1> DEFINE c == r.args
           b == ApiEndpoint(r, s).body
<1>1. AdminShape(b, s, c)
  <2> HIDE DEF c
  <2>1. c = r.args
    BY DEF c
  <2> QED
    BY <2>1, AdminBody
<1> HIDE DEF b, c
<1>2. /\ SetField(s, c, "is_system_admin").do \in {"pass", "update"}
      /\ SetField(s, c, "is_active").do \in {"pass", "update"}
  BY Kinds DEF SetField
<1>3. \A p : Require(p, "LastSystemAdmin").do \in {"pass", "raise"}
  BY Kinds
<1>4. /\ Len(b) = 12 /\ b[1].do = "select" /\ b[4].do \in {"pass", "select"}
      /\ b[6].do \in {"pass", "count"} /\ b[9].do \in {"pass", "count"}
      /\ b[12].do = "commit"
  BY <1>1, Kinds DEF AdminShape
<1>5. /\ b[2].do \in {"pass", "raise"} /\ b[3].do \in {"pass", "raise"}
      /\ b[5].do \in {"pass", "raise"}
  <2>1. \A p, e : Require(p, e).do \in {"pass", "raise"}
    BY Kinds
  <2> QED
    BY <1>1, <2>1, ZenonT(30) DEF AdminShape
<1>6. b[7].do \in {"pass", "raise"}
  BY <1>1, <1>3 DEF AdminShape
<1>7. b[10].do \in {"pass", "raise"}
  BY <1>1, <1>3 DEF AdminShape
<1>8. b[8].do \in {"pass", "update"} /\ b[11].do \in {"pass", "update"}
  BY <1>1, <1>2 DEF AdminShape
<1>9. /\ Len(b) = 12 /\ b[1].do = "select"
      /\ \A i \in {2, 3, 5, 7, 10} : b[i].do \in {"pass", "raise"}
      /\ b[4].do \in {"pass", "select"}
      /\ \A i \in {6, 9} : b[i].do \in {"pass", "count"}
      /\ \A i \in {8, 11} : b[i].do \in {"pass", "update"}
      /\ b[12].do = "commit"
  BY <1>4, <1>5, <1>6, <1>7, <1>8
<1> QED
  BY <1>9 DEF b

-----------------------------------------------------------------------------
(* Credentials.                                                            *)

(* These two sessions commit last, and then they are at an end.            *)
LEMMA CommitsLast ==
  ASSUME NEW r, NEW s, r.args.op \in {"update_system_user", "refresh"}
  PROVE  LET b == ApiEndpoint(r, s).body IN
         Len(b) \in Nat /\ \A i \in 1..Len(b) - 1 : b[i].do # "commit"
<1> DEFINE c == r.args
<1>1. CASE c.op = "refresh"
  <2> DEFINE b == refresh(s, c, r.id)
  <2>1. ApiEndpoint(r, s).body = b
    BY <1>1 DEF ApiEndpoint, refresh_endpoint, Handler
  <2>2. /\ Len(b) = 8
        /\ b[1] = Select({AuthSession(c.session)})
        /\ b[2] \in {Pass, Raise("InvalidRefreshToken")}
        /\ b[3] = Touch(AuthSession(c.session))
        /\ b[4] = Select({User(c.by)})
        /\ b[5] = Require(Active(s, c.by), "InvalidRefreshToken")
        /\ b[6] = Update(AuthSession(c.session), [revoked |-> TRUE])
        /\ b[7] = Insert(AuthSession(r.id), [user |-> c.by, revoked |-> FALSE])
    BY DEF refresh, get_active_auth_session_for_refresh_token, create_token_pair
  <2> HIDE DEF b
  <2>3. \A i \in 1..7 : b[i].do # "commit"
    BY <2>2, Kinds
  <2> QED
    BY <2>1, <2>2, <2>3
<1>2. CASE c.op = "update_system_user"
  <2> DEFINE b == ApiEndpoint(r, s).body
  <2>1. /\ Len(b) = 12 /\ b[1].do = "select"
        /\ \A i \in {2, 3, 5, 7, 10} : b[i].do \in {"pass", "raise"}
        /\ b[4].do \in {"pass", "select"}
        /\ \A i \in {6, 9} : b[i].do \in {"pass", "count"}
        /\ \A i \in {8, 11} : b[i].do \in {"pass", "update"}
    BY <1>2, AdminDoes
  <2> HIDE DEF b
  <2>2. \A i \in 1..11 : b[i].do # "commit"
    BY <2>1
  <2> QED
    BY <2>1, <2>2 DEF b
<1> QED
  BY <1>1, <1>2

(* The endpoints of apps write the row of their secret only to touch it.   *)
Secret == {"create_app_message", "deliver_incoming_webhook"}
Gentle(st, k) == st.do \in Writing /\ k \in st.keys => st.do = "update" /\ st.row = NoRows
Touches(b, k) == IsBody(b) /\ \A i \in 1..Len(b) : Gentle(b[i], k)

LEMMA TouchesCat ==
  ASSUME NEW a, NEW b, NEW k, Touches(a, k), Touches(b, k)
  PROVE  Touches(a \o b, k)
<1>1. IsBody(a) /\ IsBody(b) /\ Len(a) \in Nat /\ Len(b) \in Nat
  BY DEF Touches, IsBody
<1>2. ASSUME NEW i \in 1..Len(a) + Len(b) PROVE Gentle((a \o b)[i], k)
  <2>1. CASE i <= Len(a)
    BY <1>1, <2>1, Joins DEF Touches
  <2>2. CASE i > Len(a)
    <3>1. i - Len(a) \in 1..Len(b)
      BY <1>1, <2>2
    <3> QED
      BY <1>1, <2>2, <3>1, Joins DEF Touches
  <2> QED
    BY <1>1, <2>1, <2>2
<1> QED
  BY <1>1, <1>2, Joins DEF Touches

LEMMA SoundTouches ==
  ASSUME NEW b, NEW T, NEW k, Sound(b, T), k[1] \notin T
  PROVE  Touches(b, k)
BY DEF Sound, Touches, Safe, Gentle

LEMMA SecretTouches ==
  ASSUME NEW s, NEW k
  PROVE  Touches(AuthenticateSecret(s, k), k)
<1> DEFINE b == AuthenticateSecret(s, k)
           check == Require(Has(s, k, "revoked", FALSE), "InvalidSecret")
<1>1. /\ IsBody(b) /\ Len(b) = 4 /\ b[1] = Select({k}) /\ b[2] = check /\ b[3] = Touch(k)
      /\ b[4] = Commit
  BY DEF AuthenticateSecret, IsBody
<1>2. Gentle(Select({k}), k) /\ Gentle(Touch(k), k) /\ Gentle(Commit, k)
  BY DEF Gentle, Writing, Select, Touch, Update, Commit, Statement
<1>3. Gentle(check, k)
  BY Kinds DEF Gentle, Writing
<1> HIDE DEF b, check
<1> QED
  BY <1>1, <1>2, <1>3 DEF Touches, b

LEMMA SecretKept ==
  ASSUME NEW r, NEW s, r.args.op \in Secret
  PROVE  Touches(ApiEndpoint(r, s).body, Credential(r.args))
<1> DEFINE T == {"messages", "events", "notifications"}
           c == r.args
<1>1. CASE c.op = "create_app_message"
  <2> DEFINE app == AppOf(s, ApiKey(c.key))
             rest == create_bot_message(s, app, c, r.id)
             bot == get_bot_for_app(s, app)
             key == authenticate_api_key(s, c.key)
  <2>1. Sound(bot, T) /\ Sound(rest, T)
    BY ChecksSound, MessagesSound
  <2>2. ApiEndpoint(r, s).body = key \o bot \o rest
    BY <1>1 DEF ApiEndpoint, Handler, create_app_message_endpoint
  <2>3. Credential(c) = ApiKey(c.key) /\ ApiKey(c.key)[1] \notin T
    BY <1>1 DEF Credential, ApiKey
  <2>4. Touches(key, ApiKey(c.key))
    BY SecretTouches DEF authenticate_api_key
  <2> HIDE DEF rest, bot, key, T
  <2>5. Touches(bot, ApiKey(c.key)) /\ Touches(rest, ApiKey(c.key))
    BY <2>1, <2>3, SoundTouches
  <2> QED
    BY <2>2, <2>3, <2>4, <2>5, TouchesCat
<1>2. CASE c.op = "deliver_incoming_webhook"
  <2> DEFINE k == IncomingWebhook(c.key)
             to == [room |-> RoomOf(s, k), attachments |-> {}, reply |-> NoMessage]
             rest == create_bot_message(s, AppOf(s, k), to, r.id)
             bot == << Select({Bot(AppOf(s, k))}) >>
             key == authenticate_incoming_webhook(s, c.key)
  <2>1. Sound(rest, T)
    BY MessagesSound
  <2>2. Sound(bot, T)
    BY Silent, Tuple1, SMTT(20)
  <2>3. ApiEndpoint(r, s).body = key \o bot \o rest
    BY <1>2 DEF ApiEndpoint, Handler, deliver_incoming_webhook_endpoint
  <2>4. Credential(c) = k /\ k[1] \notin T
    BY <1>2 DEF Credential, IncomingWebhook
  <2>5. Touches(key, k)
    BY SecretTouches DEF authenticate_incoming_webhook
  <2> HIDE DEF rest, bot, key, T, k
  <2>6. Touches(bot, k) /\ Touches(rest, k)
    BY <2>1, <2>2, <2>4, SoundTouches
  <2> QED
    BY <2>3, <2>4, <2>5, <2>6, TouchesCat
<1> QED
  BY <1>1, <1>2 DEF Secret

-----------------------------------------------------------------------------
(* The credential stays valid while the request works, unless another      *)
(* request writes its row.                                                 *)
Checked(q) == Open(q) /\ Op(q) \notin {"register", "bootstrap"} /\ pc[q] > 1
Trusted(q) ==
  LET k == Credential(call[q].args) IN
  \/ k \in overtaken[q]
  \/ /\ ValidRow(db, k)
     /\ Op(q) \in Secret /\ k \in DOMAIN writes[q] => ValidRow(writes[q], k)
CInv == RInv /\ \A q \in Requests : Checked(q) => Trusted(q)

LEMMA CredentialKey ==
  ASSUME IInv, NEW q \in Requests, Open(q)
  PROVE  Credential(call[q].args) \in Keys
BY ArgsInCalls, CallsAssumption DEF Calls

(* Past the first two statements the row has been found valid.             *)
LEMMA FirstCheck ==
  ASSUME Routed, RInv, NEW q \in Requests, Goes(q), Effect(q), pc[q] = 1,
         Op(q) \notin {"register", "bootstrap"}
  PROVE  Trusted(q)'
<1> DEFINE k == Credential(call[q].args)
           b == Body(q)'
<1>1. Open(q) /\ call'[q] = call[q] /\ k \in Keys /\ call[q].args \in Calls
  BY CredentialKey, ArgsInCalls DEF Goes, RInv, WInv
<1>2. Guarded(Body(q), seen[q], k) /\ Guarded(b, seen'[q], k)
  BY <1>1, EndpointsKept DEF Kept, Routed, Body, Op
<1>3. current[q] = Select({k})
  BY <1>1, <1>2 DEF RInv, WInv, Placed, Guarded
<1>4. Looked(q)
  <2>1. current[q].do = "select"
    BY <1>3, Kinds
  <2> QED
    BY <2>1 DEF Effect, Looked, Tallied, Reloaded, Added, Changed, Dropped, Committed
<1>5. writes[q] = NoRows /\ writes'[q] = NoRows /\ db' = db
  BY <1>1, <1>4 DEF Looked, RInv, RowsIn, Untouched
<1>6. seen'[q] = Over([j \in {k} |-> Visible(q, j)], seen[q]) /\ Visible(q, k) = db[k]
  <2>1. current[q].keys = {k}
    <3> HIDE DEF k
    <3>1. Select({k}).keys = {k}
      BY DEF Select, Statement
    <3> QED
      BY <1>3, <3>1
  <2>2. Visible(q, k) = db[k]
    BY <1>5 DEF Visible, NoRows
  <2> HIDE DEF k
  <2> QED
    BY <1>4, <2>1, <2>2 DEF Looked
<1>7. k \in DOMAIN seen'[q] /\ seen'[q][k] = db[k]
  BY <1>6 DEF Over
<1>8. b[2].do = "pass"
  <2>1. pc'[q] # 2
    BY <1>2 DEF Goes, Guarded, Control
  <2> QED
    BY <2>1 DEF Goes
<1>9. ValidIn(seen'[q], k)
  BY <1>2, <1>8 DEF Guarded
<1>10. ValidRow(db, k)
  BY <1>7, <1>9 DEF ValidIn, ValidRow, Has, Exists, Row, Value
<1> QED
  BY <1>1, <1>5, <1>10 DEF Trusted, NoRows, ValidRow, Value

(* A further step leaves it valid.                                         *)
LEMMA StaysTrusted ==
  ASSUME Routed, CInv, NEW q \in Requests, Goes(q), Effect(q), pc[q] > 1,
         Op(q) \notin {"register", "bootstrap"}
  PROVE  Trusted(q)'
<1> DEFINE k == Credential(call[q].args)
<1>1. /\ Open(q) /\ call'[q] = call[q] /\ k \in Keys /\ call[q].args \in Calls
      /\ overtaken'[q] = overtaken[q] /\ RInv /\ Trusted(q) /\ k[1] \in DOMAIN Schema
  <2>1. Open(q) /\ call'[q] = call[q] /\ overtaken'[q] = overtaken[q] /\ RInv /\ Trusted(q)
    BY DEF CInv, Checked, Goes
  <2>2. k[1] \in DOMAIN Schema
    BY DEF Credential, ApiKey, IncomingWebhook, AuthSession, User, Schema
  <2> QED
    BY <2>1, <2>2, CredentialKey, ArgsInCalls DEF RInv, WInv
<1>2. CASE k \in overtaken[q]
  BY <1>1, <1>2 DEF Trusted
<1>3. CASE k \notin overtaken[q] /\ ~Committed(q)
  <2>1. db' = db
    BY <1>3 DEF Effect, Looked, Tallied, Reloaded, Added, Changed, Dropped
  <2>2. ASSUME Op(q) \in Secret, k \in DOMAIN writes'[q]
        PROVE  ValidRow(writes'[q], k)
    <3>1. Gentle(current[q], k)
      BY <1>1, <2>2, SecretKept DEF Touches, RInv, WInv, Placed, Body, Op, Routed
    <3>2. k \in DOMAIN writes[q] => ValidRow(writes[q], k)
      BY <1>1, <1>3, <2>2 DEF Trusted
    <3>3. ValidRow(db, k)
      BY <1>1, <1>3 DEF Trusted
    <3>4. CASE k \in DOMAIN writes[q] /\ writes'[q][k] = writes[q][k]
      BY <3>2, <3>4 DEF ValidRow, Value
    <3>5. CASE ~(k \in DOMAIN writes[q] /\ writes'[q][k] = writes[q][k])
      <4>1. Changed(q) /\ k \in current[q].keys /\ current[q].row = NoRows
        <5>1. ~Looked(q) /\ ~Tallied(q) /\ ~Reloaded(q)
          BY <2>2, <3>5 DEF Looked, Tallied, Reloaded
        <5>2. CASE Added(q)
          BY <2>2, <3>1, <3>5, <5>2 DEF Added, Gentle, Writing, Over
        <5>3. CASE Dropped(q)
          <6>1. Locks(q) \subseteq current[q].keys
            BY <5>3 DEF Dropped, Locks
          <6>2. k \in Locks(q)
            BY <2>2, <3>5, <5>3 DEF Dropped, Over
          <6> QED
            BY <3>1, <5>3, <6>1, <6>2 DEF Dropped, Gentle, Writing
        <5>4. CASE Changed(q)
          <6>1. k \in current[q].keys
            BY <2>2, <3>5, <5>4 DEF Changed, Over
          <6> QED
            BY <3>1, <5>4, <6>1 DEF Changed, Gentle, Writing
        <5> QED
          BY <1>3, <5>1, <5>2, <5>3, <5>4 DEF Effect
      <4>2. writes'[q][k] = Over(NoRows, Visible(q, k)) /\ Visible(q, k) # Absent
        BY <4>1 DEF Changed, Over
      <4>3. Typed(Visible(q, k), k)
        BY <1>1 DEF Visible, RInv, TypedDb, RowsIn, OwnRows
      <4>4. Value([j \in {k} |-> Visible(q, k)], k, "revoked", FALSE)
            /\ k[1] \in {"api_keys", "incoming_webhooks"}
        <5>1. k[1] \in {"api_keys", "incoming_webhooks"}
          BY <2>2 DEF Secret, Op, Credential, ApiKey, IncomingWebhook
        <5> QED
          BY <3>2, <3>3, <4>2, <5>1 DEF Visible, ValidRow, Value
      <4>5. DOMAIN Visible(q, k) = Columns(k) /\ "revoked" \in Columns(k)
        BY <4>2, <4>3, <4>4 DEF Typed, Columns, Schema
      <4>6. /\ DOMAIN writes'[q][k] = Columns(k) /\ writes'[q][k].revoked = FALSE
        BY <4>2, <4>4, <4>5 DEF Over, NoRows, Value
      <4>7. writes'[q][k] # Absent
        BY <4>5, <4>6 DEF Absent
      <4> QED
        BY <4>4, <4>6, <4>7 DEF ValidRow, Value
    <3> QED
      BY <3>4, <3>5
  <2> QED
    BY <1>1, <1>3, <2>1, <2>2 DEF Trusted, Op
<1>4. CASE k \notin overtaken[q] /\ Committed(q)
  <2>1. Op(q) \notin {"update_system_user", "refresh"}
    <3>1. ASSUME Op(q) \in {"update_system_user", "refresh"} PROVE FALSE
      <4>1. current[q].do = "commit" /\ seen'[q] = seen[q] /\ Body(q)' = Body(q)
        BY <1>1, <1>4 DEF Committed, Body
      <4>2. Len(Body(q)) \in Nat /\ \A i \in 1..Len(Body(q)) - 1 : Body(q)[i].do # "commit"
        BY <3>1, CommitsLast DEF Routed, Body, Op
      <4>3. pc[q] \in 1..Len(Body(q)) /\ current[q] = Body(q)[pc[q]]
        BY <1>1 DEF RInv, WInv, Placed
      <4>4. pc'[q] \in pc[q] + 1..Len(Body(q))
        BY <4>1 DEF Goes
      <4> QED
        BY <4>1, <4>2, <4>3, <4>4
    <3> QED
      BY <3>1
  <2>2. writes'[q] = NoRows /\ db' = [j \in Keys |-> IF j \in DOMAIN writes[q]
                                         THEN writes[q][j] ELSE db[j]]
    BY <1>4 DEF Committed
  <2>3. ValidRow(db', k)
    <3>1. CASE k \notin DOMAIN writes[q]
      BY <1>1, <1>4, <2>2, <3>1 DEF Trusted, ValidRow, Value
    <3>2. CASE k \in DOMAIN writes[q] /\ Op(q) \in Secret
      BY <1>1, <1>4, <2>2, <3>2 DEF Trusted, ValidRow, Value
    <3>3. CASE k \in DOMAIN writes[q] /\ Op(q) \notin Secret
      <4>1. k[1] = "users"
        BY <2>1, <3>3 DEF Secret, Op, Credential, User
      <4>2. "users" \in Tables(Op(q))
        BY <1>1, <3>3, <4>1 DEF RInv, RowsIn, OwnRows
      <4> QED
        BY <2>1, <4>2 DEF Tables, WrittenBy
    <3> QED
      BY <3>1, <3>2, <3>3
  <2> QED
    BY <1>1, <2>2, <2>3 DEF Trusted, NoRows
<1> QED
  BY <1>2, <1>3, <1>4

(***************************************************************************)
(* Nothing is committed on behalf of a user who was deactivated, or with   *)
(* an API key, webhook or refresh token that was revoked, before the       *)
(* request began (get_current_user and the checks of secrets).             *)
(***************************************************************************)
THEOREM CommitsAreEntitled ==
  ASSUME Routed PROVE Spec => CredentialsHold
<1>1. Init => CInv
  BY RowsHold DEF Init, CInv, Checked, Open
<1>2. ASSUME CInv, [Next]_vars PROVE CInv'
  <2>1. RInv' /\ WInv /\ Runnable
    BY <1>2, RowsHold, RoutedRuns DEF CInv, RInv
  <2>2. ASSUME NEW q \in Requests, Checked(q)' PROVE Trusted(q)'
    <3>1. Open(q)'
      BY <2>2 DEF Checked
    <3>2. CASE Aside(q)
      <4>1. Credential(call[q].args) \in Keys
        BY <2>1, <3>2, CredentialKey DEF Aside, WInv
      <4>2. Trusted(q)
        BY <1>2, <2>2, <3>2 DEF CInv, Checked, Aside, Op
      <4> QED
        BY <3>2, <4>1, <4>2 DEF Aside, Trusted, Op, ValidRow, Value
    <3>3. CASE Arrives(q)
      <4>1. pc'[q] = 1
        <5>1. call'[q].args \in Calls
          BY <2>1, <3>3 DEF Arrives, WInv, IInv, TypeOK, Calls
        <5>2. Guarded(Body(q)', seen'[q], Credential(call'[q].args))
          BY <2>2, <5>1, EndpointsKept DEF Kept, Checked, Routed, Body, Op
        <5>3. (Body(q)')[1].do = "select"
          BY <5>2, Kinds DEF Guarded
        <5> QED
          BY <3>3, <5>3 DEF Arrives
      <4> QED
        BY <2>2, <4>1 DEF Checked
    <3>4. CASE Goes(q) /\ Effect(q)
      <4>1. Op(q) \notin {"register", "bootstrap"} /\ pc[q] \in Nat /\ pc[q] > 0
        BY <2>1, <2>2, <3>4, Current DEF Goes, Checked, Op
      <4> QED
        BY <1>2, <3>4, <4>1, FirstCheck, StaysTrusted DEF CInv
    <3> QED
      BY <1>2, <2>1, <3>1, <3>2, <3>3, <3>4, StepCases
  <2> QED
    BY <2>1, <2>2 DEF CInv
<1>3. ASSUME CInv, [Next]_vars
      PROVE  [\A q \in Requests :
       Commits(q) /\ Op(q) \notin {"register", "bootstrap"} =>
         LET k == Credential(call[q].args) IN
         ValidRow(db, k) \/ k \in overtaken[q]]_vars
  <2> SUFFICES ASSUME NEW q \in Requests, Commits(q), Op(q) \notin {"register", "bootstrap"}
               PROVE  LET k == Credential(call[q].args) IN
                      ValidRow(db, k) \/ k \in overtaken[q]
    OBVIOUS
  <2>1. pc[q] # 1
    <3>1. Body(q)[1].do = "select" /\ Open(q)
      <4>1. Open(q) /\ IInv
        BY <1>3 DEF Commits, Doing, CInv, RInv, WInv
      <4>2. call[q].args \in Calls
        BY <4>1, ArgsInCalls
      <4>3. Guarded(Body(q), seen[q], Credential(call[q].args))
        BY <4>2, EndpointsKept DEF Kept, Routed, Body, Op
      <4> QED
        BY <4>1, <4>3, Kinds DEF Guarded
    <3> QED
      BY <1>3, <3>1 DEF CInv, RInv, WInv, Placed, Commits, Doing
  <2>2. Checked(q)
    BY <1>3, <2>1, Current DEF CInv, RInv, Checked, Commits, Doing
  <2> QED
    BY <1>3, <2>2 DEF CInv, Trusted
<1> QED
  BY <1>1, <1>2, <1>3, PTL DEF Spec, CredentialsHold

-----------------------------------------------------------------------------
(* What a request may go by.  Up to the statement that first writes a row, *)
(* what it has seen of the row is what is committed, unless another has    *)
(* overtaken it; right after a SELECT, what it has seen is what is visible *)
(* to it; and a row it never deletes does not vanish.                      *)

Rows == {k \in Keys : k[1] \in DOMAIN Schema}
Alters(st, k) == st.do \in Writing /\ k \in st.keys
Drops(st, k) == st.do \in {"delete", "delete_where"} /\ k \in st.keys
Statements(r, s) == ApiEndpoint(r, s).body
\* No statement of the call before number p writes k, none deletes it, and
\* number j reads it.
Late(r, k, p) == \A s : \A i \in 1..Len(Statements(r, s)) :
                          i < p => ~Alters(Statements(r, s)[i], k)
Lasting(r, k) == \A s : \A i \in 1..Len(Statements(r, s)) : ~Drops(Statements(r, s)[i], k)
Reads(r, k, j) ==
  \A s : Statements(r, s)[j].do = "select" /\ k \in Statements(r, s)[j].keys

Here(q, k) == k \in overtaken[q] \/ Visible(q, k) # Absent
Fresh(q, k) == k \in overtaken[q] \/ seen[q][k] = db[k]
KnowsFirst(q, k) ==
  \A p \in Nat : Late(call[q], k, p) /\ pc[q] <= p =>
    k \notin DOMAIN writes[q] /\ (k \in DOMAIN seen[q] => Fresh(q, k))
KnowsLasting(q, k) ==
  Lasting(call[q], k) /\ k \in DOMAIN seen[q] => seen[q][k] = Absent \/ Here(q, k)
KnowsRead(q, k) ==
  \A j \in Nat \ {0} : Reads(call[q], k, j) /\ pc[q] = j + 1 =>
    k \in DOMAIN seen[q] /\ (k \in overtaken[q] \/ seen[q][k] = Visible(q, k))
Knows(q) == \A k \in Rows : KnowsFirst(q, k) /\ KnowsLasting(q, k) /\ KnowsRead(q, k)
KInv == RInv /\ \A q \in Requests : Open(q) => Knows(q)

LEMMA NotAbsent ==
  ASSUME NEW k, k[1] \in DOMAIN Schema, NEW row, DOMAIN row = Columns(k)
  PROVE  row # Absent
<1>1. "absent" \notin Columns(k)
  BY DEF Columns, Schema
<1>2. DOMAIN Absent = {"absent"}
  BY DEF Absent
<1> QED
  BY <1>1, <1>2

(* What a statement of q does to what is visible to it.                    *)
LEMMA EffectVisible ==
  ASSUME RInv, NEW q \in Requests, Effect(q), NEW k \in Rows,
         ~Alters(current[q], k)
  PROVE  /\ Visible(q, k)' = Visible(q, k)
         /\ k \in DOMAIN writes'[q] => k \in DOMAIN writes[q]
         /\ k \notin DOMAIN writes[q] => db'[k] = db[k]
<1> DEFINE st == current[q]
<1>1. CASE Looked(q) \/ Tallied(q) \/ Reloaded(q)
  BY <1>1 DEF Looked, Tallied, Reloaded, Visible
<1>2. CASE Added(q)
  <2>1. k \notin st.keys
    BY <1>2 DEF Added, Alters, Writing
  <2> QED
    BY <1>2, <2>1 DEF Added, Over, Visible
<1>3. CASE Changed(q)
  <2>1. k \notin st.keys
    BY <1>3 DEF Changed, Alters, Writing
  <2> QED
    BY <1>3, <2>1 DEF Changed, Over, Visible
<1>4. CASE Dropped(q)
  <2> DEFINE K == Locks(q) \ (IF st.do = "delete" THEN gone[q] ELSE {})
  <2>1. Locks(q) \subseteq st.keys /\ k \notin st.keys
    BY <1>4 DEF Dropped, Alters, Writing, Locks
  <2>2. k \notin K
    BY <2>1
  <2>3. writes'[q] = Over([j \in K |-> Absent], writes[q]) /\ db' = db
    BY <1>4 DEF Dropped
  <2> HIDE DEF K
  <2> QED
    BY <2>2, <2>3 DEF Over, Visible
<1>5. CASE Committed(q)
  BY <1>5 DEF Committed, Visible, NoRows, Rows
<1> QED
  BY <1>1, <1>2, <1>3, <1>4, <1>5 DEF Effect

(* What it does to the rows q has seen.                                    *)
LEMMA EffectSeen ==
  ASSUME NEW q \in Requests, Effect(q), NEW k \in Rows, k \in DOMAIN seen'[q]
  PROVE  \/ k \in DOMAIN seen[q] /\ seen'[q][k] = seen[q][k]
         \/ Looked(q) /\ k \in current[q].keys /\ seen'[q][k] = Visible(q, k)
<1>1. CASE Looked(q)
  BY <1>1 DEF Looked, Over
<1>2. CASE Tallied(q)
  <2> DEFINE N == {Counted(j) : j \in current[q].keys}
             new == [n \in N |-> [j \in current[q].keys |-> Visible(q, j)][n[2]]]
  <2>1. k \notin N
    BY DEF Rows, Schema, Counted
  <2>2. seen'[q] = Over(new, seen[q]) /\ DOMAIN new = N
    BY <1>2 DEF Tallied
  <2> HIDE DEF N, new
  <2> QED
    BY <2>1, <2>2 DEF Over
<1>3. CASE ~Looked(q) /\ ~Tallied(q)
  BY <1>3 DEF Effect, Reloaded, Added, Changed, Dropped, Committed
<1> QED
  BY <1>1, <1>2, <1>3

(* A row that is there stays, unless q deletes it.                         *)
LEMMA EffectHere ==
  ASSUME Routed, RInv, NEW q \in Requests, Goes(q), Effect(q), NEW k \in Rows,
         ~Drops(current[q], k), Here(q, k)
  PROVE  Here(q, k)'
<1> DEFINE st == current[q]
<1>1. overtaken'[q] = overtaken[q] /\ Open(q)
  BY DEF Goes
<1>2. CASE ~Alters(st, k)
  BY <1>1, <1>2, EffectVisible DEF Here
<1>3. CASE Alters(st, k) /\ k \notin overtaken[q]
  <2>1. Visible(q, k) # Absent
    BY <1>3 DEF Here
  <2>2. Changed(q) /\ k \in st.keys
    BY <1>3, <2>1 DEF Effect, Alters, Writing, Drops, Looked, Tallied, Reloaded, Added,
       Dropped, Committed
  <2>3. k \in DOMAIN writes'[q] /\ writes'[q][k] = Over(st.row, Visible(q, k))
    BY <2>2 DEF Changed, Over
  <2>4. Typed(Visible(q, k), k)
    BY <1>1 DEF Visible, RInv, TypedDb, RowsIn, OwnRows, Rows
  <2>5. DOMAIN st.row \subseteq Columns(k)
    BY <1>1, <2>2, Current DEF RInv, Changed, Safe
  <2>6. DOMAIN writes'[q][k] = Columns(k)
    BY <2>1, <2>3, <2>4, <2>5 DEF Typed, Over
  <2>7. writes'[q][k] # Absent
    BY <2>6, NotAbsent DEF Rows
  <2> QED
    BY <2>3, <2>7 DEF Here, Visible
<1> QED
  BY <1>1, <1>2, <1>3 DEF Here

LEMMA CurrentIs ==
  ASSUME Routed, RInv, NEW q \in Requests, Open(q)
  PROVE  /\ current[q] = Statements(call[q], seen[q])[pc[q]]
         /\ pc[q] \in 1..Len(Statements(call[q], seen[q])) /\ pc[q] \in Nat
BY Current DEF RInv, WInv, Placed, Body, Statements, Routed

LEMMA FirstKept ==
  ASSUME Routed, KInv, NEW q \in Requests, Goes(q), Effect(q), NEW k \in Rows
  PROVE  KnowsFirst(q, k)'
<1>1. /\ Open(q) /\ call'[q] = call[q] /\ overtaken'[q] = overtaken[q]
      /\ pc'[q] > pc[q] /\ pc[q] \in Nat /\ RInv /\ KnowsFirst(q, k)
  BY CurrentIs DEF Goes, KInv, Knows
<1>2. ASSUME NEW p \in Nat, Late(call[q], k, p), pc'[q] <= p
      PROVE  k \notin DOMAIN writes'[q]
             /\ (k \in DOMAIN seen'[q] => k \in overtaken[q] \/ seen'[q][k] = db'[k])
  <2>1. pc[q] < p /\ pc[q] <= p
    BY <1>1, <1>2 DEF Goes
  <2>2. k \notin DOMAIN writes[q] /\ (k \in DOMAIN seen[q] => Fresh(q, k))
    BY <1>1, <1>2, <2>1 DEF KnowsFirst
  <2>3. ~Alters(current[q], k)
    BY <1>1, <1>2, <2>1, CurrentIs DEF Late
  <2>4. k \notin DOMAIN writes'[q] /\ db'[k] = db[k]
    BY <1>1, <2>2, <2>3, EffectVisible
  <2>5. Visible(q, k) = db[k]
    BY <2>2 DEF Visible
  <2> QED
    BY <2>2, <2>4, <2>5, EffectSeen DEF Fresh
<1> QED
  BY <1>1, <1>2 DEF KnowsFirst, Fresh

LEMMA LastingKept ==
  ASSUME Routed, KInv, NEW q \in Requests, Goes(q), Effect(q), NEW k \in Rows
  PROVE  KnowsLasting(q, k)'
<1>1. /\ Open(q) /\ call'[q] = call[q] /\ RInv /\ KnowsLasting(q, k)
  BY DEF Goes, KInv, Knows
<1>2. ASSUME Lasting(call[q], k), k \in DOMAIN seen'[q], seen'[q][k] # Absent
      PROVE  Here(q, k)'
  <2>1. ~Drops(current[q], k)
    BY <1>1, <1>2, CurrentIs DEF Lasting
  <2>2. Here(q, k)
    BY <1>1, <1>2, EffectSeen DEF KnowsLasting, Here
  <2> QED
    BY <1>1, <2>1, <2>2, EffectHere
<1> QED
  BY <1>1, <1>2 DEF KnowsLasting

LEMMA ReadKept ==
  ASSUME Routed, KInv, NEW q \in Requests, Goes(q), Effect(q), NEW k \in Rows
  PROVE  KnowsRead(q, k)'
<1>1. /\ Open(q) /\ call'[q] = call[q] /\ overtaken'[q] = overtaken[q] /\ RInv
      /\ pc[q] \in Nat /\ pc'[q] \in Nat /\ pc'[q] > pc[q]
  BY CurrentIs DEF Goes, KInv
<1>2. ASSUME NEW j \in Nat \ {0}, Reads(call[q], k, j), pc'[q] = j + 1
      PROVE  k \in DOMAIN seen'[q] /\ seen'[q][k] = Visible(q, k)'
  <2>1. pc[q] = j
    <3>1. (Body(q)')[j].do = "select"
      BY <1>1, <1>2 DEF Reads, Statements, Body, Routed
    <3> QED
      BY <1>1, <1>2, <3>1 DEF Goes
  <2>2. current[q].do = "select" /\ k \in current[q].keys
    BY <1>1, <1>2, <2>1, CurrentIs DEF Reads
  <2>3. Looked(q)
    BY <2>2 DEF Effect, Tallied, Reloaded, Added, Changed, Dropped, Committed
  <2> QED
    BY <2>2, <2>3 DEF Looked, Over, Visible
<1> QED
  BY <1>1, <1>2 DEF KnowsRead

LEMMA AsideKnows ==
  ASSUME KInv, NEW q \in Requests, Aside(q)
  PROVE  Knows(q)'
<1> SUFFICES ASSUME NEW k \in Rows
             PROVE  (KnowsFirst(q, k) /\ KnowsLasting(q, k) /\ KnowsRead(q, k))'
  BY DEF Knows
<1>1. KnowsFirst(q, k) /\ KnowsLasting(q, k) /\ KnowsRead(q, k) /\ k \in Keys
  BY DEF KInv, Knows, Aside, Rows
<1>2. /\ pc'[q] = pc[q] /\ call'[q] = call[q] /\ seen'[q] = seen[q] /\ writes'[q] = writes[q]
      /\ overtaken[q] \subseteq overtaken'[q] /\ (db'[k] # db[k] => k \in overtaken'[q])
  BY <1>1 DEF Aside
<1>3. KnowsFirst(q, k)'
  BY <1>1, <1>2 DEF KnowsFirst, Fresh
<1>4. KnowsLasting(q, k)'
  BY <1>1, <1>2 DEF KnowsLasting, Here, Visible
<1>5. KnowsRead(q, k)'
  BY <1>1, <1>2 DEF KnowsRead, Visible
<1> QED
  BY <1>3, <1>4, <1>5

LEMMA ArrivesKnows ==
  ASSUME Routed, NEW q \in Requests, Arrives(q)
  PROVE  Knows(q)'
<1>1. DOMAIN NoRows = {}
  BY DEF NoRows
<1>2. ASSUME NEW k \in Rows, NEW j \in Nat \ {0}, Reads(call'[q], k, j), pc'[q] = j + 1 PROVE FALSE
  <2>1. (Body(q)')[j].do = "select"
    BY <1>2 DEF Reads, Statements, Body, Routed
  <2> QED
    BY <1>2, <2>1 DEF Arrives
<1> QED
  BY <1>1, <1>2 DEF Arrives, Knows, KnowsFirst, KnowsLasting, KnowsRead, Fresh

(***************************************************************************)
(* What a request has looked up still is so, unless another request has    *)
(* committed the row since: an inductive invariant of every endpoint.      *)
(***************************************************************************)
LEMMA KnowsHold ==
  ASSUME Routed
  PROVE  /\ Init => KInv
         /\ KInv /\ [Next]_vars => KInv'
<1>1. Init => KInv
  BY RowsHold DEF Init, KInv, Open
<1>2. ASSUME KInv, [Next]_vars PROVE KInv'
  <2>1. RInv' /\ WInv /\ Runnable
    BY <1>2, RowsHold, RoutedRuns DEF KInv, RInv
  <2>2. ASSUME NEW q \in Requests, Open(q)' PROVE Knows(q)'
    <3>1. CASE Goes(q) /\ Effect(q)
      BY <1>2, <3>1, FirstKept, LastingKept, ReadKept DEF Knows
    <3> QED
      BY <1>2, <2>1, <2>2, <3>1, AsideKnows, ArrivesKnows, StepCases
  <2> QED
    BY <2>1, <2>2 DEF KInv
<1> QED
  BY <1>1, <1>2

-----------------------------------------------------------------------------
(* What a request has made sure of.                                        *)

\* At statement j the row is found, inserted, or the call is refused.
Ensures(r, k, j) ==
  \A s : LET st == Statements(r, s)[j] IN
    Exists(s, k) \/ st.do = "raise" \/ (st.do = "insert" /\ k \in st.keys)
\* At statement j the row is deleted if it is there, and none inserts it later.
Removes(r, k, j) ==
  \A s : /\ Drops(Statements(r, s)[j], k)
         /\ \A i \in 1..Len(Statements(r, s)) :
              i > j => ~(Statements(r, s)[i].do = "insert" /\ k \in Statements(r, s)[i].keys)

Away(q, k) == k \in overtaken[q] \/ Visible(q, k) = Absent
KnowsEnsured(q, k) ==
  \A j \in Nat \ {0} : Lasting(call[q], k) /\ Ensures(call[q], k, j) /\ pc[q] > j => Here(q, k)
KnowsRemoved(q, k) ==
  \A j \in Nat \ {0} : Removes(call[q], k, j) /\ pc[q] > j => Away(q, k)
SInv ==
  /\ KInv
  /\ \A q \in Requests : Open(q) =>
       \A k \in Rows : KnowsEnsured(q, k) /\ KnowsRemoved(q, k)

LEMMA EnsuredKept ==
  ASSUME Routed, SInv, KInv', NEW q \in Requests, Open(q)', Goes(q), Effect(q), NEW k \in Rows
  PROVE  KnowsEnsured(q, k)'
<1>1. /\ Open(q) /\ call'[q] = call[q] /\ overtaken'[q] = overtaken[q] /\ RInv
      /\ pc[q] \in Nat /\ pc'[q] \in Nat /\ pc'[q] > pc[q]
      /\ current[q] = Statements(call[q], seen[q])[pc[q]]
  BY CurrentIs DEF Goes, SInv, KInv
<1>2. ASSUME NEW j \in Nat \ {0}, Lasting(call[q], k), Ensures(call[q], k, j), pc'[q] > j
      PROVE  Here(q, k)'
  <2>1. ~Drops(current[q], k)
    BY <1>1, <1>2, CurrentIs DEF Lasting
  <2>2. CASE Here(q, k)
    BY <1>1, <2>1, <2>2, EffectHere
  <2>3. CASE pc[q] > j
    BY <1>1, <1>2, <2>2, <2>3 DEF SInv, KnowsEnsured
  <2>4. CASE pc[q] = j
    <3>1. CASE Exists(seen[q], k)
      <4>1. Here(q, k)
        BY <1>1, <1>2, <3>1 DEF SInv, KInv, Knows, KnowsLasting, Exists, Row
      <4> QED
        BY <2>2, <4>1
    <3>2. CASE current[q].do = "insert" /\ k \in current[q].keys
      <4>1. Added(q)
        BY <3>2 DEF Effect, Looked, Tallied, Reloaded, Changed, Dropped, Committed
      <4>2. k \in DOMAIN writes'[q] /\ writes'[q][k] = current[q].row
        BY <3>2, <4>1 DEF Added, Over
      <4>3. DOMAIN current[q].row = Columns(k)
        BY <1>1, <3>2, Current DEF RInv, Safe
      <4>4. current[q].row # Absent
        BY <4>3, NotAbsent DEF Rows
      <4> QED
        BY <4>2, <4>4 DEF Here, Visible
    <3>3. current[q].do # "raise"
      BY <1>1 DEF RInv, WInv, Placed, Control
    <3> QED
      BY <1>1, <1>2, <2>4, <3>1, <3>2, <3>3 DEF Ensures
  <2>5. CASE pc[q] < j
    <3>1. (Body(q)')[j].do = "pass"
      BY <1>1, <1>2, <2>5 DEF Goes
    <3>2. Exists(seen'[q], k)
      BY <1>1, <1>2, <3>1 DEF Ensures, Statements, Body, Routed
    <3> QED
      BY <1>1, <1>2, <3>2 DEF KInv, Knows, KnowsLasting, Exists, Row
  <2> QED
    BY <1>1, <2>3, <2>4, <2>5
<1> QED
  BY <1>1, <1>2 DEF KnowsEnsured

LEMMA RemovedKept ==
  ASSUME Routed, SInv, NEW q \in Requests, Goes(q), Effect(q), NEW k \in Rows
  PROVE  KnowsRemoved(q, k)'
<1>1. /\ Open(q) /\ call'[q] = call[q] /\ overtaken'[q] = overtaken[q] /\ RInv
      /\ pc[q] \in Nat /\ pc'[q] \in Nat /\ pc'[q] > pc[q]
      /\ pc[q] \in 1..Len(Statements(call[q], seen[q]))
      /\ current[q] = Statements(call[q], seen[q])[pc[q]] /\ gone[q] \subseteq overtaken[q]
  BY CurrentIs DEF Goes, SInv, KInv, RInv, WInv, IInv, TypeOK
<1>2. ASSUME NEW j \in Nat \ {0}, Removes(call[q], k, j), pc'[q] > j, k \notin overtaken[q]
      PROVE  Visible(q, k)' = Absent
  <2>1. CASE pc[q] > j
    <3>1. Visible(q, k) = Absent
      BY <1>1, <1>2, <2>1 DEF SInv, KnowsRemoved, Away
    <3>2. ~(current[q].do = "insert" /\ k \in current[q].keys)
      BY <1>1, <1>2, <2>1 DEF Removes
    <3>3. CASE ~Alters(current[q], k)
      BY <1>1, <3>1, <3>3, EffectVisible
    <3>4. CASE Alters(current[q], k)
      <4>1. Dropped(q)
        BY <3>1, <3>2, <3>4 DEF Effect, Alters, Writing, Looked, Tallied, Reloaded, Added,
           Changed, Committed
      <4>2. k \notin Locks(q)
        BY <3>1, <4>1 DEF Dropped, Locks
      <4> DEFINE K == Locks(q) \ (IF current[q].do = "delete" THEN gone[q] ELSE {})
      <4>3. k \notin K /\ writes'[q] = Over([i \in K |-> Absent], writes[q]) /\ db' = db
        BY <4>1, <4>2 DEF Dropped
      <4> HIDE DEF K
      <4> QED
        BY <3>1, <4>3 DEF Over, Visible
    <3> QED
      BY <3>3, <3>4
  <2>2. CASE pc[q] = j
    <3>1. Drops(current[q], k)
      BY <1>1, <1>2, <2>2 DEF Removes
    <3>2. Dropped(q)
      BY <3>1 DEF Effect, Drops, Looked, Tallied, Reloaded, Added, Changed, Committed
    <3> DEFINE K == Locks(q) \ (IF current[q].do = "delete" THEN gone[q] ELSE {})
    <3>3. writes'[q] = Over([i \in K |-> Absent], writes[q]) /\ db' = db
      BY <3>2 DEF Dropped
    <3>4. CASE Visible(q, k) # Absent
      <4>1. k \in Locks(q)
        BY <3>1, <3>4 DEF Locks, Drops
      <4>2. k \in K
        BY <1>1, <1>2, <4>1
      <4> HIDE DEF K
      <4> QED
        BY <3>3, <4>2 DEF Over, Visible
    <3>5. CASE Visible(q, k) = Absent
      <4> HIDE DEF K
      <4> QED
        BY <3>3, <3>5 DEF Over, Visible
    <3> QED
      BY <3>4, <3>5
  <2>3. CASE pc[q] < j
    <3>1. (Body(q)')[j].do = "pass"
      BY <1>1, <1>2, <2>3 DEF Goes
    <3> QED
      BY <1>1, <1>2, <3>1 DEF Removes, Drops, Statements, Body, Routed
  <2> QED
    BY <1>1, <2>1, <2>2, <2>3
<1> QED
  BY <1>1, <1>2 DEF KnowsRemoved, Away

(* Every endpoint keeps what it has made sure of.                          *)
LEMMA SureHold ==
  ASSUME Routed
  PROVE  /\ Init => SInv
         /\ SInv /\ [Next]_vars => SInv'
<1>1. Init => SInv
  BY KnowsHold DEF Init, SInv, Open
<1>2. ASSUME SInv, [Next]_vars PROVE SInv'
  <2>1. KInv' /\ WInv /\ Runnable
    BY <1>2, KnowsHold, RoutedRuns DEF SInv, KInv, RInv
  <2>2. ASSUME NEW q \in Requests, Open(q)', NEW k \in Rows
        PROVE  (KnowsEnsured(q, k) /\ KnowsRemoved(q, k))'
    <3>1. CASE Aside(q)
      <4>1. KnowsEnsured(q, k) /\ KnowsRemoved(q, k) /\ k \in Keys
        BY <1>2, <3>1 DEF SInv, Aside, Rows
      <4>2. /\ pc'[q] = pc[q] /\ call'[q] = call[q] /\ writes'[q] = writes[q]
            /\ overtaken[q] \subseteq overtaken'[q]
            /\ (db'[k] # db[k] => k \in overtaken'[q])
        BY <3>1, <4>1 DEF Aside
      <4>3. KnowsEnsured(q, k)'
        BY <4>1, <4>2 DEF KnowsEnsured, Here, Visible
      <4>4. KnowsRemoved(q, k)'
        BY <4>1, <4>2 DEF KnowsRemoved, Away, Visible
      <4> QED
        BY <4>3, <4>4
    <3>2. CASE Arrives(q)
      <4>1. ASSUME NEW j \in Nat \ {0}, pc'[q] > j PROVE (Body(q)')[j].do = "pass"
        BY <3>2, <4>1 DEF Arrives
      <4>2. seen'[q] = NoRows /\ ~Exists(seen'[q], k)
        BY <3>2 DEF Arrives, NoRows, Exists, Row
      <4>3. ASSUME NEW j \in Nat \ {0}, pc'[q] > j
            PROVE  ~Ensures(call'[q], k, j) /\ ~Removes(call'[q], k, j)
        BY <4>1, <4>2, <4>3 DEF Ensures, Removes, Drops, Statements, Body, Routed
      <4> QED
        BY <4>3 DEF KnowsEnsured, KnowsRemoved
    <3>3. CASE Goes(q) /\ Effect(q)
      BY <1>2, <2>1, <2>2, <3>3, EnsuredKept, RemovedKept
    <3> QED
      BY <1>2, <2>1, <2>2, <3>1, <3>2, <3>3, StepCases
  <2> QED
    BY <2>1, <2>2 DEF SInv
<1> QED
  BY <1>1, <1>2

-----------------------------------------------------------------------------
(* Where the statements of a helper stand in a longer body.                *)

\* The statements n + 1 onward of b are those of m, the others write tables T.
Within(b, m, n, T) ==
  /\ IsBody(b) /\ IsBody(m) /\ n \in Nat /\ n + Len(m) <= Len(b)
  /\ \A i \in 1..Len(m) : b[n + i] = m[i]
  /\ \A i \in 1..Len(b) : i <= n \/ i > n + Len(m) => Safe(b[i], T)

LEMMA WithinSelf ==
  ASSUME NEW m, IsBody(m), NEW T
  PROVE  Within(m, m, 0, T)
BY DEF Within, IsBody

LEMMA WithinThen ==
  ASSUME NEW b, NEW m, NEW n, NEW T, Within(b, m, n, T), NEW a, Sound(a, T)
  PROVE  Within(b \o a, m, n, T)
<1>1. /\ IsBody(b) /\ IsBody(a) /\ Len(b) \in Nat /\ Len(a) \in Nat /\ Len(m) \in Nat
      /\ n \in Nat
  BY DEF Within, Sound, IsBody
<1>2. /\ IsBody(b \o a) /\ Len(b \o a) = Len(b) + Len(a)
      /\ \A i \in 1..Len(b) : (b \o a)[i] = b[i]
      /\ \A i \in Len(b) + 1..Len(b) + Len(a) : (b \o a)[i] = a[i - Len(b)]
  BY <1>1, Joins
<1>3. ASSUME NEW i \in 1..Len(b) + Len(a), i <= n \/ i > n + Len(m)
      PROVE  Safe((b \o a)[i], T)
  <2>1. CASE i <= Len(b)
    BY <1>1, <1>2, <1>3, <2>1 DEF Within
  <2>2. CASE i > Len(b)
    <3>1. i - Len(b) \in 1..Len(a) /\ i \in Len(b) + 1..Len(b) + Len(a)
      BY <1>1, <2>2
    <3> QED
      BY <1>2, <3>1 DEF Sound
  <2> QED
    BY <1>1, <2>1, <2>2
<1>4. \A i \in 1..Len(m) : (b \o a)[n + i] = m[i]
  BY <1>1, <1>2 DEF Within
<1> QED
  BY <1>1, <1>2, <1>3, <1>4 DEF Within

LEMMA WithinAfter ==
  ASSUME NEW b, NEW m, NEW n, NEW T, Within(b, m, n, T), NEW a, Sound(a, T),
         NEW l, l = Len(a) + n
  PROVE  Within(a \o b, m, l, T)
<1>1. /\ IsBody(b) /\ IsBody(a) /\ Len(b) \in Nat /\ Len(a) \in Nat /\ Len(m) \in Nat
      /\ n \in Nat /\ n + Len(m) <= Len(b)
  BY DEF Within, Sound, IsBody
<1>2. /\ IsBody(a \o b) /\ Len(a \o b) = Len(a) + Len(b)
      /\ \A i \in 1..Len(a) : (a \o b)[i] = a[i]
      /\ \A i \in Len(a) + 1..Len(a) + Len(b) : (a \o b)[i] = b[i - Len(a)]
  BY <1>1, Joins
<1>3. ASSUME NEW i \in 1..Len(a) + Len(b), i <= Len(a) + n \/ i > Len(a) + n + Len(m)
      PROVE  Safe((a \o b)[i], T)
  <2>1. CASE i <= Len(a)
    BY <1>1, <1>2, <2>1 DEF Sound
  <2>2. CASE i > Len(a)
    <3>1. /\ i - Len(a) \in 1..Len(b) /\ i \in Len(a) + 1..Len(a) + Len(b)
          /\ i - Len(a) <= n \/ i - Len(a) > n + Len(m)
      BY <1>1, <1>3, <2>2
    <3> QED
      BY <1>2, <3>1 DEF Within
  <2> QED
    BY <1>1, <2>1, <2>2
<1>4. ASSUME NEW i \in 1..Len(m) PROVE (a \o b)[Len(a) + n + i] = m[i]
  <2>1. Len(a) + n + i \in Len(a) + 1..Len(a) + Len(b) /\ Len(a) + n + i - Len(a) = n + i
    BY <1>1
  <2> QED
    BY <1>2, <2>1 DEF Within
<1> QED
  BY <1>1, <1>2, <1>3, <1>4, SMTT(20) DEF Within

LEMMA LengthsAdd ==
  ASSUME NEW a, NEW b, IsBody(a), IsBody(b)
  PROVE  Len(a \o b) = Len(a) + Len(b)
BY Joins

LEMMA Lengths ==
  ASSUME NEW s
  PROVE  /\ \A c : Len(get_current_user(s, c)) = 2
         /\ \A u, w : Len(get_workspace_for_user(s, u, w)) = 2
         /\ \A w, u : Len(ensure_workspace_membership(s, w, u)) = 2
         /\ \A u : Len(ensure_conversation_workspace(s, u)) = 5
BY DEF get_current_user, get_workspace_for_user, ensure_workspace_membership,
   ensure_conversation_workspace

-----------------------------------------------------------------------------
(* Friends.                                                                *)

Befriending == {"start_direct_conversation", "start_global_direct", "add_friend"}
To(c) == UserContact(c.by, c.user)
From(c) == UserContact(c.user, c.by)
OtherTables == {"workspaces", "memberships", "rooms", "room_members"}
\* Before both contacts, between their SELECT and INSERT.
Position(op) == CASE op = "start_direct_conversation" -> 9
                  [] op = "start_global_direct" -> 14
                  [] op = "add_friend" -> 5
Befriends(r, s) ==
  LET c == r.args IN
  Within(Statements(r, s), ensure_mutual_contacts(s, c.by, c.user), Position(c.op),
         OtherTables)

LEMMA DirectMiddle ==
  ASSUME NEW s, NEW u, NEW w, NEW v
  PROVE  Within(start_direct_conversation(s, u, w, v), ensure_mutual_contacts(s, u, v), 7,
                OtherTables)
<1> DEFINE r == <<w, direct_conversation_slug(u, v)>>
           m == ensure_mutual_contacts(s, u, v)
           p1 == get_workspace_for_user(s, u, w)
           p2 == << Select({User(v)}), Require(Active(s, v), "UserNotFound"),
                    Require(u # v, "SelfConversation") >>
           p3 == ensure_workspace_membership(s, w, v)
           q1 == << Select({Room(r)}),
                    IF Exists(s, Room(r)) THEN Pass ELSE Insert(Room(r), Plain) >>
           q2 == ensure_room_membership(s, r, u, "owner")
           q3 == ensure_room_membership(s, r, v, "member")
<1>1. start_direct_conversation(s, u, w, v)
        = p1 \o p2 \o p3 \o m \o q1 \o q2 \o q3 \o << Commit >>
  BY DEF start_direct_conversation
<1>2. Sound(p1, OtherTables) /\ Len(p1) = 2 /\ Len(p3) = 2
  BY ChecksSound, Lengths
<1>3. Sound(p2, OtherTables) /\ Len(p2) = 3
  <2>1. \A p, e : Safe(Require(p, e), OtherTables)
    BY Silent
  <2>2. Safe(Select({User(v)}), OtherTables)
    BY Silent
  <2> QED
    BY <2>1, <2>2, Tuple3
<1>4. Sound(p3, OtherTables) /\ Sound(q2, OtherTables) /\ Sound(q3, OtherTables)
  BY EnsuresSound DEF OtherTables
<1>5. Sound(q1, OtherTables)
  BY Silent, RoomWrites, Tuple2 DEF OtherTables
<1>6. IsBody(m) /\ Sound(<< Commit >>, OtherTables)
  <2>1. Sound(m, {"user_contacts"})
    BY EnsuresSound
  <2> QED
    BY <2>1, Silent, Tuple1 DEF Sound
<1> HIDE DEF m, p1, p2, p3, q1, q2, q3
<1>7. Sound(p1 \o p2 \o p3, OtherTables) /\ Len(p1 \o p2 \o p3) = 7
  <2>1. Sound(p1 \o p2, OtherTables)
    BY <1>2, <1>3, Cat
  <2>2. Len(p1 \o p2) = 5
    <3>1. Len(p1 \o p2) = Len(p1) + Len(p2)
      <4>1. IsBody(p1) /\ IsBody(p2) /\ Len(p1) = 2 /\ Len(p2) = 3
        BY <1>2, <1>3 DEF Sound
      <4> QED
        BY <4>1, LengthsAdd
    <3> QED
      BY <1>2, <1>3, <3>1
  <2>3. Len(p1 \o p2 \o p3) = 7
    <3>1. Len(p1 \o p2 \o p3) = Len(p1 \o p2) + Len(p3)
      <4>1. IsBody(p1 \o p2) /\ IsBody(p3) /\ Len(p3) = 2
        BY <1>2, <1>4, <2>1 DEF Sound
      <4> QED
        BY <4>1, LengthsAdd
    <3> QED
      BY <1>2, <2>2, <3>1
  <2> QED
    BY <1>4, <2>1, <2>3, Cat
<1>8. Within(p1 \o p2 \o p3 \o m, m, 7, OtherTables)
  <2>1. Within(m, m, 0, OtherTables)
    BY <1>6, WithinSelf
  <2>2. 7 = Len(p1 \o p2 \o p3) + 0
    BY <1>7
  <2> QED
    BY <1>7, <2>1, <2>2, WithinAfter
<1>9. Within(p1 \o p2 \o p3 \o m \o q1 \o q2, m, 7, OtherTables)
  BY <1>4, <1>5, <1>8, WithinThen
<1>10. Within(p1 \o p2 \o p3 \o m \o q1 \o q2 \o q3 \o << Commit >>, m, 7, OtherTables)
  BY <1>4, <1>6, <1>9, WithinThen
<1> QED
  BY <1>1, <1>10 DEF m

LEMMA BefriendingBodies ==
  ASSUME NEW r, NEW s, r.args.op \in Befriending
  PROVE  Befriends(r, s)
<1> DEFINE c == r.args
           m == ensure_mutual_contacts(s, c.by, c.user)
           user == get_current_user(s, c)
<1>1. Sound(user, OtherTables) /\ Len(user) = 2
  BY ChecksSound, Lengths
<1>2. CASE c.op = "start_direct_conversation"
  <2> DEFINE b == start_direct_conversation(s, c.by, c.ws, c.user)
  <2>1. Statements(r, s) = user \o b
    BY <1>2 DEF Statements, ApiEndpoint, start_direct_conversation_endpoint, Authenticated,
       Handler
  <2>2. Within(b, m, 7, OtherTables)
    BY DirectMiddle
  <2> HIDE DEF b, user, m
  <2>3. Within(user \o b, m, 9, OtherTables)
    <3>1. 9 = Len(user) + 7
      BY <1>1
    <3> QED
      BY <1>1, <2>2, <3>1, WithinAfter
  <2> QED
    BY <1>2, <2>1, <2>3 DEF Befriends, Position, m
<1>3. CASE c.op = "start_global_direct"
  <2> DEFINE b == start_direct_conversation(s, c.by, Net, c.user)
             net == ensure_conversation_workspace(s, c.by)
  <2>1. Statements(r, s) = user \o (net \o b)
    BY <1>3 DEF Statements, ApiEndpoint, start_global_direct_endpoint, Authenticated,
       Handler, start_global_direct_conversation
  <2>2. Within(b, m, 7, OtherTables)
    BY DirectMiddle
  <2>3. Sound(net, OtherTables) /\ Len(net) = 5
    BY EnsuresSound, Lengths DEF OtherTables
  <2> HIDE DEF b, user, m, net
  <2>4. Within(net \o b, m, 12, OtherTables)
    <3>1. 12 = Len(net) + 7
      BY <2>3
    <3> QED
      BY <2>2, <2>3, <3>1, WithinAfter
  <2>5. Within(user \o (net \o b), m, 14, OtherTables)
    <3>1. 14 = Len(user) + 12
      BY <1>1
    <3> QED
      BY <1>1, <2>4, <3>1, WithinAfter
  <2> QED
    BY <1>3, <2>1, <2>5 DEF Befriends, Position, m
<1>4. CASE c.op = "add_friend"
  <2> DEFINE p == << Select({User(c.user)}), Require(Active(s, c.user), "UserNotFound"),
                     Require(c.by # c.user, "SelfFriend") >>
             e == << Commit, Refresh(UserContact(c.by, c.user)) >>
  <2>1. Statements(r, s) = user \o (p \o m \o e)
    BY <1>4, Zenon DEF Statements, ApiEndpoint, add_friend_endpoint, Authenticated, Handler,
       add_friend_by_email
  <2>2. Sound(p, OtherTables) /\ Len(p) = 3
    <3>1. \A x, y : Safe(Require(x, y), OtherTables)
      BY Silent
    <3>2. Safe(Select({User(c.user)}), OtherTables)
      BY Silent
    <3> QED
      BY <3>1, <3>2, Tuple3
  <2>3. Sound(e, OtherTables)
    BY Silent, Tuple2
  <2>4. IsBody(m)
    <3>1. Sound(m, {"user_contacts"})
      BY EnsuresSound
    <3> QED
      BY <3>1 DEF Sound
  <2> HIDE DEF p, user, m, e
  <2>5. Within(p \o m, m, 3, OtherTables)
    <3>1. 3 = Len(p) + 0 /\ Within(m, m, 0, OtherTables)
      BY <2>2, <2>4, WithinSelf
    <3> QED
      BY <2>2, <3>1, WithinAfter
  <2>6. Within(p \o m \o e, m, 3, OtherTables)
    BY <2>3, <2>5, WithinThen
  <2>7. Within(user \o (p \o m \o e), m, 5, OtherTables)
    <3>1. 5 = Len(user) + 3
      BY <1>1
    <3> QED
      BY <1>1, <2>6, <3>1, WithinAfter
  <2> QED
    BY <1>4, <2>1, <2>7 DEF Befriends, Position, m
<1> QED
  BY <1>2, <1>3, <1>4 DEF Befriending

EnsureContact(s, k) == IF Exists(s, k) THEN Pass ELSE Insert(k, Plain)

LEMMA MutualContacts ==
  ASSUME NEW s, NEW c
  PROVE  LET m == ensure_mutual_contacts(s, c.by, c.user) IN
         /\ Len(m) = 4 /\ m[1] = Select({To(c)}) /\ m[2] = EnsureContact(s, To(c))
         /\ m[3] = Select({From(c)}) /\ m[4] = EnsureContact(s, From(c))
BY DEF ensure_mutual_contacts, ensure_contact, To, From, EnsureContact

(* What the three endpoints that make friends have in common.              *)
LEMMA BefriendingSteps ==
  ASSUME NEW r, r.args.op \in Befriending
  PROVE  LET n == Position(r.args.op) IN
         /\ n \in Nat
         /\ Ensures(r, To(r.args), n + 2) /\ Ensures(r, From(r.args), n + 4)
         /\ \A k : k[1] = "user_contacts" =>
              /\ Lasting(r, k) /\ Late(r, k, n + 2)
              /\ k \notin {To(r.args), From(r.args)} => \A p \in Nat : Late(r, k, p)
         /\ \A s : \A i \in 1..Len(Statements(r, s)) :
              Statements(r, s)[i].do = "commit" => i <= n + 2 \/ i > n + 4
<1> DEFINE n == Position(r.args.op)
           a == To(r.args)
           z == From(r.args)
<1>1. n \in Nat
  BY DEF Position, Befriending
<1>2. ASSUME NEW s
      PROVE  LET b == Statements(r, s) IN
             /\ Len(b) \in Nat /\ n + 4 <= Len(b)
             /\ b[n + 1] = Select({a}) /\ b[n + 2] = EnsureContact(s, a)
             /\ b[n + 3] = Select({z}) /\ b[n + 4] = EnsureContact(s, z)
             /\ \A i \in 1..Len(b) : i <= n \/ i > n + 4 => Safe(b[i], OtherTables)
  <2> DEFINE b == Statements(r, s)
             m == ensure_mutual_contacts(s, r.args.by, r.args.user)
  <2>1. Within(b, m, n, OtherTables)
    BY BefriendingBodies DEF Befriends
  <2>2. /\ Len(m) = 4 /\ m[1] = Select({a}) /\ m[2] = EnsureContact(s, a)
        /\ m[3] = Select({z}) /\ m[4] = EnsureContact(s, z)
    BY MutualContacts
  <2> HIDE DEF m, b, n, a, z
  <2>3. \A i \in 1..4 : b[n + i] = m[i]
    BY <2>1, <2>2 DEF Within
  <2>4. b[n + 1] = m[1] /\ b[n + 2] = m[2] /\ b[n + 3] = m[3] /\ b[n + 4] = m[4]
    BY <2>3
  <2>5. /\ Len(b) \in Nat /\ n + 4 <= Len(b)
        /\ \A i \in 1..Len(b) : i <= n \/ i > n + 4 => Safe(b[i], OtherTables)
    BY <2>1, <2>2 DEF Within, IsBody
  <2> QED
    BY <2>2, <2>4, <2>5 DEF b
<1>3. ASSUME NEW s, NEW k
      PROVE  /\ EnsureContact(s, k).do \in {"pass", "insert"}
             /\ ~Exists(s, k) => EnsureContact(s, k).do = "insert"
             /\ EnsureContact(s, k).do = "insert" => EnsureContact(s, k).keys = {k}
  BY DEF EnsureContact, Pass, Insert, InsertOr, Statement
<1>31. ASSUME NEW s, NEW k, NEW x, Alters(EnsureContact(s, k), x)
       PROVE  EnsureContact(s, k).do = "insert" /\ x = k
  BY <1>3, <1>31 DEF Alters, Writing
<1> HIDE DEF n, a, z
<1>4. Ensures(r, a, n + 2) /\ Ensures(r, z, n + 4)
  BY <1>2, <1>3 DEF Ensures
<1>5. ASSUME NEW s, NEW i \in 1..Len(Statements(r, s)), NEW k, k[1] = "user_contacts"
      PROVE  LET st == Statements(r, s)[i] IN
             Alters(st, k) => st.do = "insert" /\ ((i = n + 2 /\ k = a) \/ (i = n + 4 /\ k = z))
  <2> DEFINE b == Statements(r, s)
  <2>1. CASE i <= n \/ i > n + 4
    <3>1. Safe(b[i], OtherTables)
      BY <1>2, <2>1
    <3> HIDE DEF b
    <3> QED
      BY <1>5, <3>1 DEF Safe, Alters, OtherTables, b
  <2>2. CASE i = n + 1 \/ i = n + 3
    <3>1. b[i].do = "select"
      BY <1>2, <2>2, Kinds
    <3> QED
      BY <3>1 DEF Alters, Writing
  <2>3. CASE i = n + 2
    <3>1. b[i] = EnsureContact(s, a)
      BY <1>2, <2>3
    <3>2. Alters(b[i], k) => b[i].do = "insert" /\ k = a
      BY <1>31, <3>1
    <3> QED
      BY <2>3, <3>2
  <2>4. CASE i = n + 4
    <3>1. b[i] = EnsureContact(s, z)
      BY <1>2, <2>4
    <3>2. Alters(b[i], k) => b[i].do = "insert" /\ k = z
      BY <1>31, <3>1
    <3> QED
      BY <2>4, <3>2
  <2> QED
    BY <1>1, <1>2, <2>1, <2>2, <2>3, <2>4
<1>6. ASSUME NEW k, k[1] = "user_contacts"
      PROVE  /\ Lasting(r, k) /\ Late(r, k, n + 2)
             /\ k \notin {a, z} => \A p \in Nat : Late(r, k, p)
  <2>1. Lasting(r, k)
    BY <1>5, <1>6 DEF Lasting, Drops, Alters, Writing
  <2>2. Late(r, k, n + 2)
    BY <1>1, <1>5, <1>6 DEF Late
  <2>3. k \notin {a, z} => \A p \in Nat : Late(r, k, p)
    BY <1>5, <1>6 DEF Late
  <2> QED
    BY <2>1, <2>2, <2>3
<1>7. ASSUME NEW s, NEW i \in 1..Len(Statements(r, s)), Statements(r, s)[i].do = "commit"
      PROVE  i <= n + 2 \/ i > n + 4
  <2>1. i # n + 3
    BY <1>2, <1>7, Kinds
  <2>2. i # n + 4
    BY <1>2, <1>3, <1>7
  <2> QED
    BY <1>1, <1>2, <2>1, <2>2
<1> QED
  BY <1>1, <1>4, <1>6, <1>7 DEF n, a, z

-----------------------------------------------------------------------------
(* What a commit makes of the rows.                                        *)
LEMMA CommittedRow ==
  ASSUME WInv, [Next]_vars, NEW q \in Requests, Commits(q), NEW k \in Keys
  PROVE  /\ db'[k] = Visible(q, k) /\ Open(q) /\ current[q].do = "commit"
         /\ k \notin DOMAIN writes[q] => db'[k] = db[k]
<1>1. CommitTransaction(q)
  BY CommitActs DEF Commits
<1> QED
  BY <1>1 DEF CommitTransaction, Visible, Commits, Doing

LEMMA LateNotWritten ==
  ASSUME Routed, SInv, NEW q \in Requests, Open(q), NEW k \in Rows,
         NEW p \in Nat, Late(call[q], k, p), pc[q] <= p
  PROVE  k \notin DOMAIN writes[q]
BY DEF SInv, KInv, Knows, KnowsFirst

(* The end of a friendship.                                                *)
LEMMA UnfriendingSteps ==
  ASSUME NEW r, r.args.op = "remove_friend"
  PROVE  /\ Removes(r, To(r.args), 5) /\ Removes(r, From(r.args), 6)
         /\ \A k : k[1] = "user_contacts" /\ k \notin {To(r.args), From(r.args)} =>
              \A p \in Nat : Late(r, k, p)
         /\ \A s : \A i \in 1..Len(Statements(r, s)) :
              Statements(r, s)[i].do = "commit" => i = 7
<1> DEFINE c == r.args
           a == To(c)
           z == From(c)
<1>1. ASSUME NEW s
      PROVE  LET b == Statements(r, s) IN
             /\ Len(b) = 7 /\ b[1] = Select({User(c.by)})
             /\ b[2] = Require(Active(s, c.by), "Unauthorized")
             /\ b[3] = Select({a}) /\ b[4] = Require(Exists(s, a), "FriendNotFound")
             /\ b[5] = DeleteWhere({a}) /\ b[6] = DeleteWhere({z}) /\ b[7] = Commit
  <2> DEFINE e == Require(Active(s, c.by), "Unauthorized")
             f == Require(Exists(s, a), "FriendNotFound")
             one == get_current_user(s, c)
             two == remove_friend(s, c)
  <2>1. Statements(r, s) = one \o two
    BY DEF Statements, ApiEndpoint, remove_friend_endpoint, Authenticated, Handler
  <2>2. one = << Select({User(c.by)}), e >>
    BY DEF get_current_user
  <2>3. two = << Select({a}), f, DeleteWhere({a}), DeleteWhere({z}), Commit >>
    BY DEF remove_friend, To, From
  <2> HIDE DEF one, two, e, f, a, z
  <2>4. LET b == Statements(r, s) IN
        /\ Len(b) = 7 /\ b[1] = Select({User(c.by)}) /\ b[2] = e /\ b[3] = Select({a})
        /\ b[4] = f /\ b[5] = DeleteWhere({a}) /\ b[6] = DeleteWhere({z}) /\ b[7] = Commit
    BY <2>1, <2>2, <2>3
  <2> QED
    BY <2>4 DEF e, f
<1> HIDE DEF a, z
<1>2. \A k : DeleteWhere({k}).keys = {k}
  BY DEF DeleteWhere, Statement
<1>3. ASSUME NEW s
      PROVE  LET b == Statements(r, s) IN
             /\ \A i \in 1..7 : b[i].do \notin {"insert", "update", "delete"}
             /\ \A i \in 1..7 : b[i].do = "delete_where" => i = 5 \/ i = 6
             /\ \A i \in 1..7 : b[i].do = "commit" => i = 7
             /\ b[5].do = "delete_where" /\ b[5].keys = {a}
             /\ b[6].do = "delete_where" /\ b[6].keys = {z}
  <2> DEFINE b == Statements(r, s)
  <2>1. /\ b[1].do = "select" /\ b[3].do = "select" /\ b[5].do = "delete_where"
        /\ b[6].do = "delete_where" /\ b[7].do = "commit"
    BY <1>1, Kinds
  <2>2. b[2].do \in {"pass", "raise"} /\ b[4].do \in {"pass", "raise"}
    <3>1. \A p, e : Require(p, e).do \in {"pass", "raise"}
      BY Kinds
    <3> QED
      BY <1>1, <3>1
  <2>3. b[5].keys = {a} /\ b[6].keys = {z}
    BY <1>1, <1>2
  <2> HIDE DEF b
  <2>4. \A i \in 1..7 : i \in {1, 2, 3, 4, 5, 6, 7}
    OBVIOUS
  <2>5. \A i \in 1..7 : b[i].do \notin {"insert", "update", "delete"}
    BY <2>1, <2>2, <2>4
  <2>6. \A i \in 1..7 : b[i].do = "delete_where" => i = 5 \/ i = 6
    BY <2>1, <2>2, <2>4
  <2>7. \A i \in 1..7 : b[i].do = "commit" => i = 7
    BY <2>1, <2>2, <2>4
  <2> QED
    BY <2>1, <2>3, <2>5, <2>6, <2>7 DEF b
<1>4. Removes(r, a, 5) /\ Removes(r, z, 6)
  BY <1>1, <1>3 DEF Removes, Drops
<1>5. \A k : k[1] = "user_contacts" /\ k \notin {a, z} => \A p \in Nat : Late(r, k, p)
  BY <1>1, <1>3 DEF Late, Alters, Writing
<1>6. ASSUME NEW s, NEW i \in 1..Len(Statements(r, s)), Statements(r, s)[i].do = "commit"
      PROVE  i = 7
  <2>1. i \in 1..7
    BY <1>1, <1>6
  <2> QED
    BY <1>3, <1>6, <2>1
<1> HIDE DEF c
<1>7. \A s : \A i \in 1..Len(Statements(r, s)) : Statements(r, s)[i].do = "commit" => i = 7
  BY <1>6
<1> QED
  BY <1>4, <1>5, <1>7 DEF a, z, c

(***************************************************************************)
(* Friends are friends of each other (ensure_mutual_contacts and           *)
(* remove_friend write both rows), unless another request has committed    *)
(* one of the two rows meanwhile.                                          *)
(***************************************************************************)
THEOREM FriendsAreMutual ==
  ASSUME Routed PROVE Spec => ContactsMutual
<1>1. ASSUME SInv, [Next]_vars, NEW q \in Requests, NEW u \in Users, NEW v \in Users,
             Commits(q), There(db', UserContact(u, v)), ~There(db', UserContact(v, u)),
             ~(There(db, UserContact(u, v)) /\ ~There(db, UserContact(v, u))),
             {UserContact(u, v), UserContact(v, u)} \cap overtaken[q] = {}
      PROVE  FALSE
  <2> DEFINE to == UserContact(u, v)
             from == UserContact(v, u)
             r == call[q]
             a == To(r.args)
             z == From(r.args)
  <2>1. /\ to \in Rows /\ from \in Rows /\ to[1] = "user_contacts"
        /\ from[1] = "user_contacts"
    BY KeysAssumption DEF Rows, Schema, UserContact
  <2>2. WInv /\ RInv /\ KInv
    BY <1>1 DEF SInv, KInv, RInv
  <2>3. /\ Open(q) /\ current[q].do = "commit"
        /\ db'[to] = Visible(q, to) /\ db'[from] = Visible(q, from)
        /\ to \notin DOMAIN writes[q] => db'[to] = db[to]
        /\ from \notin DOMAIN writes[q] => db'[from] = db[from]
    BY <1>1, <2>1, <2>2, CommittedRow DEF Rows
  <2>4. to \in DOMAIN writes[q] \/ from \in DOMAIN writes[q]
    BY <1>1, <2>3 DEF There
  <2>5. to \in {a, z} <=> from \in {a, z}
    BY DEF To, From, UserContact
  <2>6. {to, from} \subseteq {a, z} => a \in {to, from} /\ z \in {to, from}
    BY DEF To, From, UserContact
  <2>7. /\ current[q] = Statements(r, seen[q])[pc[q]] /\ pc[q] \in Nat
        /\ pc[q] \in 1..Len(Statements(r, seen[q]))
    BY <2>2, <2>3, CurrentIs
  <2>8. CASE Op(q) \in Befriending
    <3> DEFINE n == Position(r.args.op)
    <3>1. /\ n \in Nat /\ Ensures(r, a, n + 2) /\ Ensures(r, z, n + 4)
          /\ Lasting(r, to) /\ Lasting(r, from)
          /\ Late(r, to, n + 2) /\ Late(r, from, n + 2)
          /\ to \notin {a, z} => \A p \in Nat : Late(r, to, p)
          /\ from \notin {a, z} => \A p \in Nat : Late(r, from, p)
          /\ pc[q] <= n + 2 \/ pc[q] > n + 4
      BY <2>1, <2>3, <2>7, <2>8, BefriendingSteps DEF Op
    <3> HIDE DEF n, a, z, to, from, r
    <3>2. {to, from} \subseteq {a, z}
      BY <1>1, <2>1, <2>3, <2>4, <2>5, <2>7, <3>1, LateNotWritten DEF r
    <3>3. pc[q] > n + 4
      BY <1>1, <2>1, <2>3, <2>4, <2>7, <3>1, LateNotWritten DEF r
    <3>4. a \in {to, from} /\ z \in {to, from}
      BY <2>6, <3>2
    <3>5. KnowsEnsured(q, a) /\ KnowsEnsured(q, z) /\ Lasting(r, a) /\ Lasting(r, z)
      BY <1>1, <2>1, <2>3, <3>1, <3>4 DEF SInv
    <3>6. Here(q, a) /\ Here(q, z)
      <4>1. n + 2 \in Nat \ {0} /\ n + 4 \in Nat \ {0} /\ pc[q] > n + 2
        BY <2>7, <3>1, <3>3
      <4> QED
        BY <3>1, <3>3, <3>5, <4>1 DEF KnowsEnsured, r
    <3>7. Here(q, to) /\ Here(q, from)
      BY <2>5, <3>2, <3>6
    <3> QED
      BY <1>1, <2>3, <3>7 DEF Here, There, to, from
  <2>9. CASE Op(q) = "remove_friend"
    <3>1. /\ Removes(r, a, 5) /\ Removes(r, z, 6) /\ pc[q] = 7
          /\ to \notin {a, z} => \A p \in Nat : Late(r, to, p)
          /\ from \notin {a, z} => \A p \in Nat : Late(r, from, p)
      BY <2>1, <2>3, <2>7, <2>9, UnfriendingSteps DEF Op
    <3> HIDE DEF a, z, to, from, r
    <3>2. {to, from} \subseteq {a, z}
      BY <1>1, <2>1, <2>3, <2>4, <2>5, <2>7, <3>1, LateNotWritten DEF r
    <3>3. a \in {to, from} /\ z \in {to, from}
      BY <2>6, <3>2
    <3>4. KnowsRemoved(q, a) /\ KnowsRemoved(q, z)
      BY <1>1, <2>1, <2>3, <3>3 DEF SInv
    <3>5. Away(q, a) /\ Away(q, z)
      BY <3>1, <3>4 DEF KnowsRemoved, r
    <3>6. Away(q, to)
      BY <3>2, <3>5
    <3> QED
      BY <1>1, <2>3, <3>6 DEF Away, There, to, from
  <2>10. CASE Op(q) \notin Befriending /\ Op(q) # "remove_friend"
    <3>1. "user_contacts" \in Tables(Op(q))
      BY <2>1, <2>2, <2>3, <2>4 DEF RInv, RowsIn, OwnRows
    <3> QED
      BY <2>10, <3>1 DEF Tables, WrittenBy, Befriending
  <2> QED
    BY <2>8, <2>9, <2>10
<1>2. ASSUME SInv, [Next]_vars
      PROVE  [\A q \in Requests : \A u, v \in Users :
               LET to == UserContact(u, v)
                   from == UserContact(v, u)
               IN  /\ Commits(q) /\ u # v
                   /\ There(db', to) /\ ~There(db', from)
                   /\ ~(There(db, to) /\ ~There(db, from))
                   => {to, from} \cap overtaken[q] # {}]_vars
  BY <1>1, <1>2
<1> QED
  BY <1>2, SureHold, PTL DEF Spec, ContactsMutual

-----------------------------------------------------------------------------
(* Messages, attachments, read positions and notifications: nothing        *)
(* deletes such a row, and what is written of one is proper.               *)

Durable == {"messages", "attachments", "room_read_states", "notifications"}
Proper(row, k) ==
  /\ k[1] = "attachments" /\ row.status = "attached" => row.message # NoMessage
  /\ k[1] = "room_read_states" => row.last_read \in Nat
Neat(st, r) ==
  \A k \in st.keys : k[1] \in Durable /\ st.do \in Writing =>
    /\ st.do \in {"insert", "update"}
    /\ st.do = "insert" => Proper(st.row, k) /\ (k[1] = "notifications" => k[3] = r.id)
    /\ st.do = "update" /\ k[1] = "attachments" =>
         /\ "status" \in DOMAIN st.row
         /\ st.row.status = "attached" =>
              "message" \in DOMAIN st.row /\ st.row.message # NoMessage
    /\ st.do = "update" /\ k[1] = "room_read_states" => st.row = [last_read |-> r.args.seq]
AllNeat(b, r) == IsBody(b) /\ \A i \in 1..Len(b) : Neat(b[i], r)

LEMMA NeatCat ==
  ASSUME NEW r, NEW a, NEW b, AllNeat(a, r), AllNeat(b, r)
  PROVE  AllNeat(a \o b, r)
<1>1. IsBody(a) /\ IsBody(b) /\ Len(a) \in Nat /\ Len(b) \in Nat
  BY DEF AllNeat, IsBody
<1>2. ASSUME NEW i \in 1..Len(a) + Len(b) PROVE Neat((a \o b)[i], r)
  <2>1. CASE i <= Len(a)
    BY <1>1, <2>1, Joins DEF AllNeat
  <2>2. CASE i > Len(a)
    <3>1. i - Len(a) \in 1..Len(b)
      BY <1>1, <2>2
    <3> QED
      BY <1>1, <2>2, <3>1, Joins DEF AllNeat
  <2> QED
    BY <1>1, <2>1, <2>2
<1> QED
  BY <1>1, <1>2, Joins DEF AllNeat

LEMMA NeatSound ==
  ASSUME NEW r, NEW b, NEW T, Sound(b, T), T \cap Durable = {}
  PROVE  AllNeat(b, r)
BY DEF Sound, AllNeat, Safe, Neat

LEMMA NeatTuples ==
  ASSUME NEW r, NEW a, NEW b, NEW c, NEW d, Neat(a, r), Neat(b, r), Neat(c, r), Neat(d, r)
  PROVE  /\ AllNeat(<<a>>, r) /\ AllNeat(<<a, b>>, r) /\ AllNeat(<<a, b, c>>, r)
         /\ AllNeat(<<a, b, c, d>>, r)
<1>1. AllNeat(<<a>>, r) /\ AllNeat(<<a, b>>, r)
  BY DEF AllNeat, IsBody
<1>2. AllNeat(<<a, b, c>>, r)
  BY DEF AllNeat, IsBody
<1>3. AllNeat(<<a, b, c, d>>, r)
  BY DEF AllNeat, IsBody
<1> QED
  BY <1>1, <1>2, <1>3

LEMMA NeatSilent ==
  ASSUME NEW r
  PROVE  /\ \A K : Neat(Select(K), r)
         /\ \A k : Neat(Refresh(k), r)
         /\ Neat(Commit, r) /\ Neat(Return, r) /\ Neat(Pass, r)
         /\ \A e : Neat(Raise(e), r)
         /\ \A p, e : Neat(Require(p, e), r)
BY DEF Neat, Select, Refresh, Commit, Return, Pass, Raise, Require, Statement, Writing

LEMMA NeatRows ==
  ASSUME NEW r, r.id \in Nat \ {0}
  PROVE  /\ \A x, u, v : Neat(Insert(Message(x), NewMessage(u, v, x)), r)
         /\ \A x, y : Neat(Update(Message(x), [content |-> y]), r)
         /\ \A x : Neat(Update(Message(x), [deleted |-> TRUE]), r)
         /\ \A X : Neat(UpdateAll({Attachment(x) : x \in X},
                                  [message |-> r.id, status |-> "attached"]), r)
         /\ \A x, u, v : Neat(Insert(Attachment(x),
               [uploader |-> u, room |-> v, message |-> NoMessage,
                status |-> "pending_upload"]), r)
         /\ \A s, x : Neat(Assign(s, Attachment(x), [status |-> "uploaded"]), r)
         /\ \A x, u : Neat(Insert(RoomReadState(x, u), [last_read |-> 0]), r)
         /\ \A x, u : Neat(Update(RoomReadState(x, u), [last_read |-> r.args.seq]), r)
         /\ \A U : Neat(InsertAll({Notification(v, r.id) : v \in U}, [read |-> FALSE]), r)
         /\ \A s, u, m : Neat(Assign(s, Notification(u, m), [read |-> TRUE]), r)
<1> USE DEF Neat, Statement
<1>1. \A k, row : /\ Insert(k, row).do = "insert" /\ Insert(k, row).keys = {k}
                  /\ Insert(k, row).row = row
                  /\ Update(k, row).do = "update" /\ Update(k, row).keys = {k}
                  /\ Update(k, row).row = row
  BY DEF Insert, InsertOr, Update
<1>2. ASSUME NEW x, NEW u, NEW v PROVE Neat(Insert(Message(x), NewMessage(u, v, x)), r)
  BY <1>1 DEF Message, Proper
<1>3. ASSUME NEW x, NEW y PROVE Neat(Update(Message(x), y), r)
  BY <1>1 DEF Message
<1>4. ASSUME NEW X
      PROVE  Neat(UpdateAll({Attachment(x) : x \in X},
                            [message |-> r.id, status |-> "attached"]), r)
  <2> DEFINE K == {Attachment(x) : x \in X}
             row == [message |-> r.id, status |-> "attached"]
  <2>1. \A k \in K : k[1] = "attachments"
    BY DEF Attachment
  <2>2. "message" \in DOMAIN row /\ "status" \in DOMAIN row /\ row.message # NoMessage
    BY DEF NoMessage
  <2> HIDE DEF K, row
  <2>3. Neat(Statement("update", K, row, "StaleDataError"), r)
    BY <2>1, <2>2
  <2> QED
    BY <2>3, NeatSilent, ZenonT(30) DEF UpdateAll, K, row
<1>5. ASSUME NEW x, NEW u, NEW v
      PROVE  Neat(Insert(Attachment(x), [uploader |-> u, room |-> v, message |-> NoMessage,
                                         status |-> "pending_upload"]), r)
  BY <1>1 DEF Attachment, Proper
<1>6. ASSUME NEW s, NEW x PROVE Neat(Assign(s, Attachment(x), [status |-> "uploaded"]), r)
  <2>1. Neat(Update(Attachment(x), [status |-> "uploaded"]), r)
    BY <1>1 DEF Attachment
  <2> QED
    BY <2>1, NeatSilent DEF Assign
<1>7. ASSUME NEW x, NEW u
      PROVE  /\ Neat(Insert(RoomReadState(x, u), [last_read |-> 0]), r)
             /\ Neat(Update(RoomReadState(x, u), [last_read |-> r.args.seq]), r)
  BY <1>1 DEF RoomReadState, Proper
<1>8. ASSUME NEW U
      PROVE  Neat(InsertAll({Notification(v, r.id) : v \in U}, [read |-> FALSE]), r)
  <2> DEFINE K == {Notification(v, r.id) : v \in U}
             row == [read |-> FALSE]
  <2>1. \A k \in K : k[1] = "notifications" /\ k[3] = r.id /\ Proper(row, k)
    BY DEF Notification, Proper
  <2> HIDE DEF K, row
  <2>2. Neat(InsertAll(K, row), r)
    BY <2>1 DEF InsertAll
  <2> QED
    BY <2>2 DEF K, row
<1>9. ASSUME NEW s, NEW u, NEW m PROVE Neat(Assign(s, Notification(u, m), [read |-> TRUE]), r)
  <2>1. Neat(Update(Notification(u, m), [read |-> TRUE]), r)
    BY <1>1 DEF Notification
  <2> QED
    BY <2>1, NeatSilent DEF Assign
<1> HIDE DEF Neat, Statement
<1> QED
  BY <1>2, <1>3, <1>4, <1>5, <1>6, <1>7, <1>8, <1>9

(* A check writes nothing.                                                 *)
LEMMA ChecksNeat ==
  ASSUME NEW r, NEW s
  PROVE  /\ \A c : AllNeat(get_current_user(s, c), r)
         /\ \A u, x : AllNeat(ensure_room_member(s, u, x), r)
         /\ \A u, x, m : AllNeat(get_mutable_message(s, u, x, m), r)
         /\ \A x, m : AllNeat(get_reply_target(s, x, m), r)
         /\ \A u, x, X : AllNeat(get_attachable_attachments(s, u, x, X), r)
         /\ \A u, x, y : AllNeat(get_owned_room_attachment(s, u, x, y), r)
         /\ \A a : AllNeat(get_bot_for_app(s, a), r)
<1>1. \A b : Sound(b, {}) => AllNeat(b, r)
  BY NeatSound
<1>2. /\ \A c : Sound(get_current_user(s, c), {})
      /\ \A u, x : Sound(ensure_room_member(s, u, x), {})
      /\ \A u, x, m : Sound(get_mutable_message(s, u, x, m), {})
      /\ \A x, m : Sound(get_reply_target(s, x, m), {})
      /\ \A u, x, X : Sound(get_attachable_attachments(s, u, x, X), {})
      /\ \A u, x, y : Sound(get_owned_room_attachment(s, u, x, y), {})
      /\ \A a : Sound(get_bot_for_app(s, a), {})
  BY ChecksSound
<1> QED
  BY <1>1, <1>2

(* What create_message and its variant for bots consist of.                *)
LEMMA NeatMessages ==
  ASSUME NEW r, r.id \in Nat \ {0}, NEW s
  PROVE  /\ \A c : AllNeat(create_message(s, c, r.id), r)
         /\ \A app, c : AllNeat(create_bot_message(s, app, c, r.id), r)
<1>1. \A x, t, k, v : AllNeat(create_message_event(s, NewEvent(x, t, k, v)), r)
  <2>1. \A x, t, k, v : Sound(create_message_event(s, NewEvent(x, t, k, v)), {"events"})
    BY EnsuresSound
  <2> QED
    BY <2>1, NeatSound DEF Durable
<1>2. ASSUME NEW x, NEW u PROVE AllNeat(create_message_notifications(s, x, r.id, u), r)
  <2> DEFINE notified == {v \in Users \ {u} : Exists(s, RoomMember(x, v))}
             st == IF notified = {} THEN Pass
                   ELSE InsertAll({Notification(v, r.id) : v \in notified}, [read |-> FALSE])
             look == Select({RoomMember(x, v) : v \in Users})
  <2>1. create_message_notifications(s, x, r.id, u) = << look, st >>
    BY DEF create_message_notifications
  <2>2. Neat(st, r) /\ Neat(look, r)
    <3> HIDE DEF notified
    <3> QED
      BY NeatRows, NeatSilent
  <2> HIDE DEF look, st
  <2> QED
    BY <2>1, <2>2, NeatTuples
<1>3. /\ \A u, x : AllNeat(ensure_room_member(s, u, x), r)
      /\ \A u, x, X : AllNeat(get_attachable_attachments(s, u, x, X), r)
      /\ \A x, m : AllNeat(get_reply_target(s, x, m), r)
  BY ChecksNeat
<1>4. ASSUME NEW c
      PROVE  AllNeat(create_message(s, c, r.id), r)
  <2> DEFINE one == << Insert(Message(r.id), NewMessage(c.room, c.by, r.id)) >>
             two == << UpdateAll({Attachment(x) : x \in c.attachments},
                                 [message |-> r.id, status |-> "attached"]) >>
             event == create_message_event(s, NewEvent(c.room, "message.created",
                                                       Message(r.id), r.id))
             notes == create_message_notifications(s, c.room, r.id, c.by)
  <2>1. AllNeat(one, r) /\ AllNeat(two, r) /\ AllNeat(<< Commit >>, r)
    BY NeatRows, NeatSilent, NeatTuples
  <2>2. AllNeat(event, r) /\ AllNeat(notes, r)
    BY <1>1, <1>2
  <2>3. create_message(s, c, r.id) =
          ensure_room_member(s, c.by, c.room)
          \o get_attachable_attachments(s, c.by, c.room, c.attachments)
          \o get_reply_target(s, c.room, c.reply)
          \o one \o two \o event \o notes \o << Commit >>
    BY DEF create_message
  <2> HIDE DEF one, two, event, notes
  <2> QED
    BY <1>3, <2>1, <2>2, <2>3, NeatCat
<1>5. ASSUME NEW app, NEW c
      PROVE  AllNeat(create_bot_message(s, app, c, r.id), r)
  <2> DEFINE check == << Require(c.attachments = {}, "AttachmentNotFound"),
                         Select({Room(c.room)}),
                         Require(Exists(s, Room(c.room)) /\ Home(c.room) = Home(app),
                                 "RoomNotFound") >>
             one == << Insert(Message(r.id), NewMessage(c.room, Bot(app), r.id)) >>
             event == create_message_event(s, NewEvent(c.room, "message.created",
                                                       Message(r.id), r.id))
             notes == create_message_notifications(s, c.room, r.id, Bot(app))
  <2>1. AllNeat(one, r) /\ AllNeat(<< Commit >>, r)
    BY NeatRows, NeatSilent, NeatTuples
  <2>2. AllNeat(event, r) /\ AllNeat(notes, r)
    BY <1>1, <1>2
  <2>3. AllNeat(check, r)
    <3>1. \A p, e : Neat(Require(p, e), r)
      BY NeatSilent
    <3>2. Neat(Select({Room(c.room)}), r)
      BY NeatSilent
    <3> QED
      BY <3>1, <3>2, NeatTuples
  <2>4. create_bot_message(s, app, c, r.id) =
          check \o get_reply_target(s, c.room, c.reply)
          \o one \o event \o notes \o << Commit >>
    BY DEF create_bot_message
  <2> HIDE DEF check, one, event, notes
  <2> QED
    BY <1>3, <2>1, <2>2, <2>3, <2>4, NeatCat
<1> QED
  BY <1>4, <1>5

LEMMA NeatDetails ==
  ASSUME NEW r, r.id \in Nat \ {0}, NEW s, NEW c, c = r.args
  PROVE  /\ AllNeat(update_message(s, c, r.id), r)
         /\ AllNeat(delete_message(s, c), r)
         /\ AllNeat(create_attachment_intent(s, c, r.id), r)
         /\ AllNeat(confirm_attachment_upload(s, c), r)
         /\ AllNeat(update_room_read_state(s, c), r)
         /\ AllNeat(mark_notification_read(s, c), r)
         /\ AllNeat(mark_all_notifications_read(s, c), r)
<1>1. \A x, t, k, v : AllNeat(create_message_event(s, NewEvent(x, t, k, v)), r)
  <2>1. \A x, t, k, v : Sound(create_message_event(s, NewEvent(x, t, k, v)), {"events"})
    BY EnsuresSound
  <2> QED
    BY <2>1, NeatSound DEF Durable
<1>2. /\ AllNeat(ensure_room_member(s, c.by, c.room), r)
      /\ AllNeat(get_mutable_message(s, c.by, c.room, c.message), r)
      /\ AllNeat(get_owned_room_attachment(s, c.by, c.room, c.attachment), r)
  BY ChecksNeat
<1>3. AllNeat(<< Commit >>, r)
  BY NeatSilent, NeatTuples
<1>4. AllNeat(update_message(s, c, r.id), r)
  <2> DEFINE one == << Update(Message(c.message), [content |-> r.id]) >>
             event == create_message_event(s, NewEvent(c.room, "message.updated",
                                                       Message(c.message), r.id))
  <2>1. AllNeat(one, r) /\ AllNeat(event, r)
    BY <1>1, NeatRows, NeatTuples
  <2>2. update_message(s, c, r.id) =
          ensure_room_member(s, c.by, c.room)
          \o get_mutable_message(s, c.by, c.room, c.message) \o one \o event \o << Commit >>
    BY DEF update_message
  <2> HIDE DEF one, event
  <2> QED
    BY <1>2, <1>3, <2>1, <2>2, NeatCat
<1>5. AllNeat(delete_message(s, c), r)
  <2> DEFINE one == << Update(Message(c.message), [deleted |-> TRUE]) >>
             event == create_message_event(s, NewEvent(c.room, "message.deleted",
                                                       Message(c.message), NoMessage))
  <2>1. AllNeat(one, r) /\ AllNeat(event, r)
    BY <1>1, NeatRows, NeatTuples
  <2>2. delete_message(s, c) =
          ensure_room_member(s, c.by, c.room)
          \o get_mutable_message(s, c.by, c.room, c.message) \o one \o event \o << Commit >>
    BY DEF delete_message
  <2> HIDE DEF one, event
  <2> QED
    BY <1>2, <1>3, <2>1, <2>2, NeatCat
<1>6. AllNeat(create_attachment_intent(s, c, r.id), r)
  <2> DEFINE st == Insert(Attachment(r.id),
                     [uploader |-> c.by, room |-> c.room, message |-> NoMessage,
                      status |-> "pending_upload"])
  <2>1. AllNeat(<< st, Commit >>, r)
    <3>1. Neat(st, r)
      BY NeatRows
    <3> HIDE DEF st
    <3> QED
      BY <3>1, NeatSilent, NeatTuples
  <2> QED
    BY <1>2, <2>1, NeatCat DEF create_attachment_intent
<1>7. AllNeat(confirm_attachment_upload(s, c), r)
  <2> DEFINE k == Attachment(c.attachment)
             a == Require(Has(s, k, "message", NoMessage), "AttachmentAlreadyAttached")
             b == Require(c.stored # "nothing", "AttachmentUploadNotFound")
             d == Require(c.stored = "same", "AttachmentUploadMismatch")
             st == Assign(s, k, [status |-> "uploaded"])
  <2>1. Neat(a, r) /\ Neat(b, r) /\ Neat(d, r)
    <3>1. \A p, e : Neat(Require(p, e), r)
      BY NeatSilent
    <3> QED
      BY <3>1
  <2>2. Neat(st, r)
    BY NeatRows
  <2>3. confirm_attachment_upload(s, c) =
          get_owned_room_attachment(s, c.by, c.room, c.attachment)
          \o << a, b, d, st, Commit >>
    BY DEF confirm_attachment_upload
  <2> HIDE DEF a, b, d, st
  <2>4. << a, b, d, st, Commit >> = << a, b, d, st >> \o << Commit >>
    OBVIOUS
  <2> QED
    BY <1>2, <1>3, <2>1, <2>2, <2>3, <2>4, NeatTuples, NeatCat
<1>8. AllNeat(update_room_read_state(s, c), r)
  <2> DEFINE k == RoomReadState(c.room, c.by)
             forward == c.seq > LastRead(s, c.room, c.by)
             event == create_message_event(s, NewEvent(c.room, "room.read_state_updated",
                                                       k, c.seq))
             a == Select(Events(Home(c.room)))
             b == Require(c.seq <= latest_room_event_seq(s, c.room), "ReadStateAheadOfRoom")
             d == IF Exists(s, k) THEN Pass ELSE Insert(k, [last_read |-> 0])
             e == IF forward THEN Update(k, [last_read |-> c.seq]) ELSE Commit
             f == IF forward THEN Pass ELSE Refresh(k)
             g == IF forward THEN Pass ELSE Return
  <2>1. Neat(d, r) /\ Neat(e, r) /\ AllNeat(event, r)
    BY <1>1, NeatRows, NeatSilent
  <2>2. Neat(a, r) /\ Neat(f, r) /\ Neat(g, r) /\ Neat(Select({k}), r)
    BY NeatSilent
  <2>3. Neat(b, r)
    BY NeatSilent
  <2>4. update_room_read_state(s, c) =
          ensure_room_member(s, c.by, c.room) \o << a, b >> \o << Select({k}), d >>
          \o << e, f, g >> \o event \o << Commit >>
    BY DEF update_room_read_state, get_or_create_read_state
  <2> HIDE DEF a, b, d, e, f, g, event
  <2> QED
    BY <1>2, <1>3, <2>1, <2>2, <2>3, <2>4, NeatTuples, NeatCat
<1>9. AllNeat(mark_notification_read(s, c), r)
  <2> DEFINE k == Notification(c.owner, c.message)
             a == Select({k})
             b == Require(Exists(s, k) /\ c.owner = c.by, "NotificationNotFound")
             d == IF Has(s, k, "read", TRUE) THEN Return ELSE MarkRead(s, k)
  <2>1. Neat(a, r) /\ Neat(d, r)
    BY NeatRows, NeatSilent DEF MarkRead
  <2>2. Neat(b, r)
    BY NeatSilent
  <2>3. mark_notification_read(s, c) = << a, b, d, Commit >>
    BY DEF mark_notification_read
  <2> HIDE DEF a, b, d
  <2> QED
    BY <2>1, <2>2, <2>3, NeatSilent, NeatTuples
<1>10. AllNeat(mark_all_notifications_read(s, c), r)
  <2> DEFINE K == {Notification(c.by, m) : m \in Messages}
             unread == {k \in K : Has(s, k, "read", FALSE)}
             d == IF unread = {} THEN Return ELSE UpdateAll(unread, [read |-> TRUE])
  <2>1. Neat(d, r)
    <3>1. \A k \in unread : k[1] = "notifications"
      BY DEF Notification
    <3> HIDE DEF unread
    <3>2. Neat(Statement("update", unread, [read |-> TRUE], "StaleDataError"), r)
      BY <3>1 DEF Neat, Statement
    <3> QED
      BY <3>2, NeatSilent DEF UpdateAll
  <2>2. mark_all_notifications_read(s, c) = << Select(K), d, Commit >>
    BY DEF mark_all_notifications_read
  <2> HIDE DEF K, d
  <2> QED
    BY <2>1, <2>2, NeatSilent, NeatTuples
<1> QED
  BY <1>4, <1>5, <1>6, <1>7, <1>8, <1>9, <1>10

(* So is every endpoint.                                                   *)
LEMMA NeatEndpoints ==
  ASSUME NEW r, NEW s, r.args \in Calls, r.id \in Nat \ {0}
  PROVE  AllNeat(ApiEndpoint(r, s).body, r)
<1> DEFINE c == r.args
           user == get_current_user(s, c)
<1>1. CASE Tables(c.op) \cap Durable = {}
  BY <1>1, EndpointsKept, NeatSound DEF Kept
<1>2. AllNeat(user, r)
  BY ChecksNeat
<1>3. CASE c.op \in {"create_message", "gateway_send", "update_message", "delete_message",
                     "create_attachment", "confirm_attachment", "update_room_read_state",
                     "mark_read", "mark_all_read"}
  <2> HIDE DEF c, user
  <2> SUFFICES ASSUME NEW body, AllNeat(body, r), ApiEndpoint(r, s).body = user \o body
               PROVE  AllNeat(ApiEndpoint(r, s).body, r)
    <3>1. \E body : AllNeat(body, r) /\ ApiEndpoint(r, s).body = user \o body
      <4> USE DEF ApiEndpoint, Authenticated, Handler, c, user
      <4>1. CASE c.op = "create_message"
        BY <4>1, NeatMessages DEF create_message_endpoint
      <4>2. CASE c.op = "gateway_send"
        BY <4>2, NeatMessages DEF handle_gateway_message_send
      <4>3. CASE c.op = "update_message"
        BY <4>3, NeatDetails DEF update_message_endpoint
      <4>4. CASE c.op = "delete_message"
        BY <4>4, NeatDetails DEF delete_message_response
      <4>5. CASE c.op = "create_attachment"
        BY <4>5, NeatDetails DEF create_attachment_endpoint
      <4>6. CASE c.op = "confirm_attachment"
        BY <4>6, NeatDetails DEF confirm_attachment_endpoint
      <4>7. CASE c.op = "update_room_read_state"
        BY <4>7, NeatDetails DEF update_room_read_state_endpoint
      <4>8. CASE c.op = "mark_read"
        BY <4>8, NeatDetails DEF mark_read
      <4>9. CASE c.op = "mark_all_read"
        BY <4>9, NeatDetails DEF mark_all_read
      <4> QED
        BY <1>3, <4>1, <4>2, <4>3, <4>4, <4>5, <4>6, <4>7, <4>8, <4>9, Zenon
    <3> QED
      BY <3>1
  <2> QED
    BY <1>2, NeatCat
<1>4. CASE c.op = "create_app_message"
  <2> DEFINE app == AppOf(s, ApiKey(c.key))
             rest == create_bot_message(s, app, c, r.id)
             bot == get_bot_for_app(s, app)
             key == authenticate_api_key(s, c.key)
  <2>1. ApiEndpoint(r, s).body = key \o bot \o rest
    BY <1>4 DEF ApiEndpoint, Handler, create_app_message_endpoint
  <2>2. AllNeat(bot, r) /\ AllNeat(rest, r)
    BY ChecksNeat, NeatMessages
  <2>3. AllNeat(key, r)
    <3>1. Sound(key, {"api_keys"})
      BY AppsSound
    <3> HIDE DEF key
    <3> QED
      BY <3>1, NeatSound DEF Durable
  <2> HIDE DEF rest, bot, key
  <2> QED
    BY <2>1, <2>2, <2>3, NeatCat
<1>5. CASE c.op = "deliver_incoming_webhook"
  <2> DEFINE k == IncomingWebhook(c.key)
             to == [room |-> RoomOf(s, k), attachments |-> {}, reply |-> NoMessage]
             rest == create_bot_message(s, AppOf(s, k), to, r.id)
             bot == << Select({Bot(AppOf(s, k))}) >>
             key == authenticate_incoming_webhook(s, c.key)
  <2>1. ApiEndpoint(r, s).body = key \o bot \o rest
    BY <1>5 DEF ApiEndpoint, Handler, deliver_incoming_webhook_endpoint
  <2>2. AllNeat(bot, r) /\ AllNeat(rest, r)
    BY NeatSilent, NeatTuples, NeatMessages
  <2>3. AllNeat(key, r)
    <3>1. Sound(key, {"incoming_webhooks"})
      BY AppsSound
    <3> HIDE DEF key
    <3> QED
      BY <3>1, NeatSound DEF Durable
  <2> HIDE DEF rest, bot, key
  <2> QED
    BY <2>1, <2>2, <2>3, NeatCat, SMTT(20)
<1>6. c.op \notin {"create_message", "gateway_send", "update_message", "delete_message",
                   "create_attachment", "confirm_attachment", "update_room_read_state",
                   "mark_read", "mark_all_read", "create_app_message",
                   "deliver_incoming_webhook"} => Tables(c.op) \cap Durable = {}
  BY DEF Tables, WrittenBy, Durable
<1> QED
  BY <1>1, <1>3, <1>4, <1>5, <1>6

-----------------------------------------------------------------------------
(* Rows of the durable tables are proper and stay.                         *)

ProperDb == \A k \in Keys : db[k] # Absent => Proper(db[k], k)
Numbered(q) == call[q].id \in Nat \ {0}
Mine(q) ==
  \A k \in Rows \cap DOMAIN writes[q] :
    k[1] \in Durable => writes[q][k] # Absent /\ Proper(writes[q][k], k)
DInv == SInv /\ ProperDb /\ \A q \in Requests : Open(q) => Numbered(q) /\ Mine(q)

LEMMA NeatNow ==
  ASSUME Routed, DInv, NEW q \in Requests, Open(q)
  PROVE  /\ Neat(current[q], call[q]) /\ Safe(current[q], Tables(Op(q))) /\ call[q].args \in Calls
         /\ RInv /\ KInv /\ WInv
<1>1. RInv /\ KInv /\ WInv /\ IInv
  BY DEF DInv, SInv, KInv, RInv, WInv
<1>2. call[q].args \in Calls /\ Numbered(q)
  BY <1>1, ArgsInCalls DEF DInv
<1>3. AllNeat(ApiEndpoint(call[q], seen[q]).body, call[q])
  BY <1>2, NeatEndpoints DEF Numbered
<1>4. Neat(current[q], call[q])
  BY <1>1, <1>3, CurrentIs DEF AllNeat, Statements
<1> QED
  BY <1>1, <1>2, <1>4, Current

LEMMA MineKept ==
  ASSUME Routed, DInv, NEW q \in Requests, Open(q), Effect(q)
  PROVE  Mine(q)'
<1> DEFINE st == current[q]
<1>1. Neat(st, call[q]) /\ Safe(st, Tables(Op(q))) /\ RInv /\ Mine(q)
  BY NeatNow DEF DInv
<1> SUFFICES ASSUME NEW k \in Rows, k \in DOMAIN writes'[q], k[1] \in Durable
             PROVE  writes'[q][k] # Absent /\ Proper(writes'[q][k], k)
  BY DEF Mine, Rows
<1>2. k \in DOMAIN writes[q] => writes[q][k] # Absent /\ Proper(writes[q][k], k)
  BY <1>1 DEF Mine
<1>3. k \in Keys /\ k[1] \in DOMAIN Schema
  BY DEF Rows
<1>4. Visible(q, k) # Absent => Proper(Visible(q, k), k) /\ DOMAIN Visible(q, k) = Columns(k)
  <2>1. Visible(q, k) # Absent => Proper(Visible(q, k), k)
    BY <1>2, <1>3 DEF DInv, ProperDb, Visible
  <2>2. Typed(Visible(q, k), k)
    BY <1>1, <1>3 DEF Visible, RInv, TypedDb, RowsIn, OwnRows
  <2> QED
    BY <2>1, <2>2 DEF Typed
<1> HIDE DEF st
<1>5. CASE Looked(q) \/ Tallied(q) \/ Reloaded(q)
  BY <1>2, <1>5 DEF Looked, Tallied, Reloaded
<1>6. CASE Added(q)
  <2>1. st.do = "insert" /\ writes'[q] = Over([j \in st.keys |-> st.row], writes[q])
    BY <1>6 DEF Added, st
  <2>2. CASE k \in st.keys
    <3>1. writes'[q][k] = st.row
      BY <2>1, <2>2 DEF Over
    <3>2. Proper(st.row, k)
      BY <1>1, <2>1, <2>2 DEF Neat, Writing
    <3>3. DOMAIN st.row = Columns(k)
      BY <1>1, <2>1, <2>2 DEF Safe
    <3> QED
      BY <1>3, <3>1, <3>2, <3>3, NotAbsent
  <2>3. CASE k \notin st.keys
    <3>1. k \in DOMAIN writes[q] /\ writes'[q][k] = writes[q][k]
      BY <2>1, <2>3 DEF Over
    <3> QED
      BY <1>2, <3>1
  <2> QED
    BY <2>2, <2>3
<1>7. CASE Changed(q)
  <2> DEFINE new == [j \in st.keys |-> Over(st.row, Visible(q, j))]
  <2>1. st.do = "update" /\ writes'[q] = Over(new, writes[q])
        /\ \A j \in st.keys : Visible(q, j) # Absent
    BY <1>7 DEF Changed, st
  <2>2. CASE k \in st.keys
    <3> DEFINE old == Visible(q, k)
               row == Over(st.row, old)
    <3>1. writes'[q][k] = row
      BY <2>1, <2>2 DEF Over
    <3>2. DOMAIN st.row \subseteq Columns(k)
      BY <1>1, <2>1, <2>2 DEF Safe
    <3>3. Proper(old, k) /\ DOMAIN old = Columns(k)
      BY <1>4, <2>1, <2>2
    <3> HIDE DEF old
    <3>4. DOMAIN row = Columns(k)
      BY <3>2, <3>3 DEF Over
    <3>5. \A f \in Columns(k) : row[f] = IF f \in DOMAIN st.row THEN st.row[f] ELSE old[f]
      BY <3>2, <3>3 DEF Over
    <3> HIDE DEF row
    <3>6. CASE k[1] = "attachments"
      <4>1. /\ "status" \in DOMAIN st.row
            /\ st.row.status = "attached" =>
                 "message" \in DOMAIN st.row /\ st.row.message # NoMessage
        BY <1>1, <2>1, <2>2, <3>6 DEF Neat, Writing, Durable
      <4>2. row.status = "attached" => row.message # NoMessage
        BY <3>2, <3>5, <4>1
      <4> QED
        BY <1>3, <3>1, <3>4, <3>6, <4>2, NotAbsent DEF Proper
    <3>7. CASE k[1] = "room_read_states"
      <4>1. st.row = [last_read |-> call[q].args.seq] /\ "room_read_states" \in Tables(Op(q))
        BY <1>1, <2>1, <2>2, <3>7 DEF Neat, Writing, Durable, Safe
      <4>2. Op(q) = "update_room_read_state"
        BY <4>1 DEF Tables, WrittenBy
      <4>3. call[q].args.seq \in Nat
        BY <4>2, NeatNow, CallsAssumption DEF Calls, Op
      <4>4. row.last_read = call[q].args.seq
        BY <3>2, <3>5, <4>1
      <4> QED
        BY <1>3, <3>1, <3>4, <3>7, <4>3, <4>4, NotAbsent DEF Proper
    <3>8. CASE k[1] \notin {"attachments", "room_read_states"}
      BY <1>3, <3>1, <3>4, <3>8, NotAbsent DEF Proper
    <3> QED
      BY <3>6, <3>7, <3>8
  <2>3. CASE k \notin st.keys
    <3>1. k \in DOMAIN writes[q] /\ writes'[q][k] = writes[q][k]
      BY <2>1, <2>3 DEF Over
    <3> QED
      BY <1>2, <3>1
  <2> QED
    BY <2>2, <2>3
<1>8. CASE Dropped(q)
  <2> DEFINE K == Locks(q) \ (IF st.do = "delete" THEN gone[q] ELSE {})
  <2>1. st.do \in {"delete", "delete_where"} /\ writes'[q] = Over([j \in K |-> Absent], writes[q])
    BY <1>8 DEF Dropped, st
  <2>2. K \subseteq st.keys
    BY <2>1 DEF Locks, st
  <2> HIDE DEF K
  <2>3. k \notin K
    BY <1>1, <2>1, <2>2 DEF Neat, Writing
  <2>4. k \in DOMAIN writes[q] /\ writes'[q][k] = writes[q][k]
    BY <2>1, <2>3 DEF Over
  <2> QED
    BY <1>2, <2>4
<1>9. CASE Committed(q)
  BY <1>9 DEF Committed, NoRows
<1> QED
  BY <1>5, <1>6, <1>7, <1>8, <1>9 DEF Effect

LEMMA ProperHold ==
  ASSUME Routed
  PROVE  /\ Init => DInv
         /\ DInv /\ [Next]_vars => DInv'
<1>1. ASSUME Init PROVE DInv
  <2>1. PICK x \in Scenarios : db = x.db
    BY <1>1 DEF Init
  <2>2. ProperDb
    BY <2>1, RowsAssumption DEF ProperDb, Proper
  <2> QED
    BY <1>1, <2>2, SureHold DEF DInv, Init, Open
<1>2. ASSUME DInv, [Next]_vars PROVE DInv'
  <2>1. Runnable /\ WInv /\ SInv'
    BY <1>2, RoutedRuns, SureHold DEF DInv, SInv, KInv, RInv
  <2>2. ProperDb'
    <3>1. ASSUME NEW p \in Requests, CommitTransaction(p), NEW k \in Keys, db'[k] # Absent
          PROVE  Proper(db'[k], k)
      <4>1. db'[k] = IF k \in DOMAIN writes[p] THEN writes[p][k] ELSE db[k]
        BY <3>1 DEF CommitTransaction
      <4>2. CASE k \in DOMAIN writes[p] /\ k[1] \in Durable
        <5>1. k \in Rows
          BY <4>2 DEF Rows, Durable, Schema
        <5> QED
          BY <1>2, <3>1, <4>1, <4>2, <5>1 DEF DInv, Mine, CommitTransaction, Doing
      <4>3. CASE k[1] \notin Durable
        BY <4>3 DEF Durable, Proper
      <4>4. CASE k \notin DOMAIN writes[p]
        BY <1>2, <3>1, <4>1, <4>4 DEF DInv, ProperDb
      <4> QED
        BY <4>2, <4>3, <4>4
    <3>2. CASE db' = db
      BY <1>2, <3>2 DEF DInv, ProperDb
    <3> QED
      BY <1>2, <3>1, <3>2, DbChange DEF ProperDb
  <2>3. ASSUME NEW q \in Requests, Open(q)' PROVE (Numbered(q) /\ Mine(q))'
    <3>1. CASE Aside(q)
      BY <1>2, <3>1 DEF Aside, DInv, Numbered, Mine
    <3>2. CASE Arrives(q)
      <4>1. call'[q].id = made + 1 /\ made \in Nat
        BY <2>1, <3>2, ScenariosAssumption DEF Arrives, WInv, IInv, TypeOK
      <4>2. Mine(q)'
        BY <3>2 DEF Arrives, Mine, NoRows
      <4> QED
        BY <4>1, <4>2 DEF Numbered
    <3>3. CASE Goes(q) /\ Effect(q)
      BY <1>2, <3>3, MineKept DEF Goes, DInv, Numbered
    <3> QED
      BY <1>2, <2>1, <2>3, <3>1, <3>2, <3>3, StepCases
  <2> QED
    BY <2>1, <2>2, <2>3 DEF DInv
<1> QED
  BY <1>1, <1>2

-----------------------------------------------------------------------------
(* What a check has found stays so up to the write that relies on it,      *)
(* unless another request commits the row.                                 *)

Good(row, k) == IF k[1] = "messages" THEN row.deleted = FALSE ELSE row.message = NoMessage
\* Statement j looks whether row k is good, and none before p writes it.
Tested(r, k, j, p) ==
  /\ Late(r, k, p)
  /\ \A s : /\ Statements(r, s)[j].do \in Control
            /\ Statements(r, s)[j].do = "pass" => Exists(s, k) /\ Good(Row(s, k), k)
\* Statement j reads row k, and none up to p reads it again or commits.
Rereads(st, k) == st.do = "select" /\ k \in st.keys
Window(r, k, j, p) ==
  /\ Late(r, k, j) /\ Reads(r, k, j)
  /\ \A s : \A i \in 1..Len(Statements(r, s)) : LET st == Statements(r, s)[i] IN
       j < i /\ i < p => st.do # "commit" /\ ~Rereads(st, k)

StillGood(q, k) == k \in overtaken[q] \/ (db[k] # Absent /\ Good(db[k], k))
StillSeen(q, k) == k \in DOMAIN seen[q] /\ Fresh(q, k)
TestKept(q, k) ==
  \A j, p \in Nat \ {0} : Tested(call[q], k, j, p) /\ j < pc[q] /\ pc[q] <= p => StillGood(q, k)
WindowKept(q, k) ==
  \A j, p \in Nat \ {0} : Window(call[q], k, j, p) /\ j < pc[q] /\ pc[q] <= p => StillSeen(q, k)
TInv ==
  /\ DInv
  /\ \A q \in Requests : Open(q) => \A k \in Rows : TestKept(q, k) /\ WindowKept(q, k)

LEMMA SeenStays ==
  ASSUME NEW q \in Requests, Effect(q), NEW k \in Rows, k \in DOMAIN seen[q],
         current[q].do # "commit", ~Rereads(current[q], k)
  PROVE  k \in DOMAIN seen'[q] /\ seen'[q][k] = seen[q][k] /\ db' = db
<1>1. k \in DOMAIN seen'[q] /\ db' = db
  BY DEF Effect, Looked, Tallied, Reloaded, Added, Changed, Dropped, Committed, Over
<1> QED
  BY <1>1, EffectSeen DEF Looked, Rereads

LEMMA TestsKept ==
  ASSUME Routed, TInv, KInv', NEW q \in Requests, Open(q)', Goes(q), Effect(q), NEW k \in Rows
  PROVE  TestKept(q, k)'
<1>1. /\ Open(q) /\ call'[q] = call[q] /\ overtaken'[q] = overtaken[q] /\ RInv /\ SInv
      /\ pc[q] \in Nat /\ pc'[q] \in Nat /\ pc'[q] > pc[q] /\ TestKept(q, k)
      /\ current[q] = Statements(call[q], seen[q])[pc[q]]
      /\ pc[q] \in 1..Len(Statements(call[q], seen[q]))
  BY CurrentIs DEF Goes, TInv, DInv, SInv, KInv
<1>2. ASSUME NEW j \in Nat \ {0}, NEW p \in Nat \ {0}, Tested(call[q], k, j, p),
             j < pc'[q], pc'[q] <= p
      PROVE  StillGood(q, k)'
  <2>1. CASE j < pc[q]
    <3>1. pc[q] <= p /\ pc[q] < p
      BY <1>1, <1>2
    <3>2. StillGood(q, k)
      BY <1>1, <1>2, <2>1, <3>1 DEF TestKept
    <3>3. ~Alters(current[q], k)
      BY <1>1, <1>2, <3>1 DEF Tested, Late
    <3>4. k \notin DOMAIN writes[q]
      BY <1>1, <1>2, <3>1, LateNotWritten DEF Tested
    <3> QED
      BY <1>1, <3>2, <3>3, <3>4, EffectVisible DEF StillGood
  <2>2. CASE j = pc[q]
    <3>1. current[q].do \in Control
      BY <1>1, <1>2, <2>2 DEF Tested
    <3> QED
      BY <1>1, <3>1 DEF RInv, WInv, Placed
  <2>3. CASE j > pc[q]
    <3>1. (Body(q)')[j].do = "pass"
      BY <1>1, <1>2, <2>3, SMTT(20) DEF Goes
    <3>2. Exists(seen'[q], k) /\ Good(Row(seen'[q], k), k)
      BY <1>1, <1>2, <3>1 DEF Tested, Statements, Body, Routed
    <3>3. k \in DOMAIN seen'[q] /\ seen'[q][k] # Absent /\ Good(seen'[q][k], k)
      BY <3>2 DEF Exists, Row
    <3>4. k \in overtaken'[q] \/ seen'[q][k] = db'[k]
      BY <1>1, <1>2, <3>3 DEF KInv, Knows, KnowsFirst, Fresh, Tested
    <3> QED
      BY <3>3, <3>4 DEF StillGood
  <2> QED
    BY <1>1, <2>1, <2>2, <2>3
<1> QED
  BY <1>1, <1>2 DEF TestKept

LEMMA WindowsKept ==
  ASSUME Routed, TInv, NEW q \in Requests, Open(q)', Goes(q), Effect(q), NEW k \in Rows
  PROVE  WindowKept(q, k)'
<1>1. /\ Open(q) /\ call'[q] = call[q] /\ overtaken'[q] = overtaken[q] /\ RInv /\ SInv
      /\ pc[q] \in Nat /\ pc'[q] \in Nat /\ pc'[q] > pc[q] /\ WindowKept(q, k)
      /\ current[q] = Statements(call[q], seen[q])[pc[q]]
      /\ pc[q] \in 1..Len(Statements(call[q], seen[q]))
  BY CurrentIs DEF Goes, TInv, DInv, SInv, KInv
<1>2. ASSUME NEW j \in Nat \ {0}, NEW p \in Nat \ {0}, Window(call[q], k, j, p),
             j < pc'[q], pc'[q] <= p
      PROVE  StillSeen(q, k)'
  <2>1. CASE j < pc[q]
    <3>1. pc[q] <= p /\ pc[q] < p
      BY <1>1, <1>2
    <3>2. k \in DOMAIN seen[q] /\ (k \in overtaken[q] \/ seen[q][k] = db[k])
      BY <1>1, <1>2, <2>1, <3>1 DEF WindowKept, StillSeen, Fresh
    <3>3. current[q].do # "commit" /\ ~Rereads(current[q], k)
      BY <1>1, <1>2, <2>1, <3>1 DEF Window
    <3> QED
      BY <1>1, <3>2, <3>3, SeenStays DEF StillSeen, Fresh
  <2>2. CASE j = pc[q]
    <3>1. current[q].do = "select" /\ k \in current[q].keys
      BY <1>1, <1>2, <2>2 DEF Window, Reads
    <3>2. Looked(q)
      BY <3>1 DEF Effect, Tallied, Reloaded, Added, Changed, Dropped, Committed
    <3>3. k \notin DOMAIN writes[q]
      BY <1>1, <1>2, <2>2, LateNotWritten DEF Window
    <3> QED
      BY <1>1, <3>1, <3>2, <3>3 DEF Looked, Over, Visible, StillSeen, Fresh
  <2>3. CASE j > pc[q]
    <3>1. (Body(q)')[j].do = "pass"
      BY <1>1, <1>2, <2>3 DEF Goes
    <3> QED
      BY <1>1, <1>2, <3>1 DEF Window, Reads, Statements, Body, Routed
  <2> QED
    BY <1>1, <2>1, <2>2, <2>3
<1> QED
  BY <1>1, <1>2 DEF WindowKept

LEMMA TestsHold ==
  ASSUME Routed
  PROVE  /\ Init => TInv
         /\ TInv /\ [Next]_vars => TInv'
<1>1. Init => TInv
  BY ProperHold DEF Init, TInv, Open
<1>2. ASSUME TInv, [Next]_vars PROVE TInv'
  <2>1. Runnable /\ WInv /\ DInv' /\ KInv'
    BY <1>2, RoutedRuns, ProperHold DEF TInv, DInv, SInv, KInv, RInv
  <2>2. ASSUME NEW q \in Requests, Open(q)', NEW k \in Rows
        PROVE  (TestKept(q, k) /\ WindowKept(q, k))'
    <3>1. CASE Aside(q)
      <4>1. TestKept(q, k) /\ WindowKept(q, k) /\ k \in Keys
        BY <1>2, <3>1 DEF TInv, Aside, Rows
      <4>2. /\ pc'[q] = pc[q] /\ call'[q] = call[q] /\ seen'[q] = seen[q]
            /\ overtaken[q] \subseteq overtaken'[q] /\ (db'[k] # db[k] => k \in overtaken'[q])
        BY <3>1, <4>1 DEF Aside
      <4>3. TestKept(q, k)'
        BY <4>1, <4>2 DEF TestKept, StillGood
      <4>4. WindowKept(q, k)'
        BY <4>1, <4>2 DEF WindowKept, StillSeen, Fresh
      <4> QED
        BY <4>3, <4>4
    <3>2. CASE Arrives(q)
      <4>1. ASSUME NEW j \in Nat \ {0}, j < pc'[q] PROVE (Body(q)')[j].do = "pass"
        BY <3>2, <4>1 DEF Arrives
      <4>2. seen'[q] = NoRows /\ ~Exists(seen'[q], k)
        BY <3>2 DEF Arrives, NoRows, Exists, Row
      <4>3. ASSUME NEW j \in Nat \ {0}, NEW p, j < pc'[q]
            PROVE  ~Tested(call'[q], k, j, p) /\ ~Window(call'[q], k, j, p)
        BY <4>1, <4>2, <4>3 DEF Tested, Window, Reads, Statements, Body, Routed
      <4> QED
        BY <4>3 DEF TestKept, WindowKept
    <3>3. CASE Goes(q) /\ Effect(q)
      BY <1>2, <2>1, <2>2, <3>3, TestsKept, WindowsKept
    <3> QED
      BY <1>2, <2>1, <2>2, <3>1, <3>2, <3>3, StepCases
  <2> QED
    BY <2>1, <2>2 DEF TInv
<1> QED
  BY <1>1, <1>2

-----------------------------------------------------------------------------
(* A request goes on from what is committed.                               *)

\* Every UPDATE of a message, attachment or read position relies on a check.
Justified(r) ==
  \A s : \A k : \A i \in 1..Len(Statements(r, s)) : LET st == Statements(r, s)[i] IN
    st.do = "update" /\ k \in st.keys =>
      /\ k[1] \in {"messages", "attachments"} => \E j \in Nat \ {0} : j < i /\ Tested(r, k, j, i)
      /\ k[1] = "room_read_states" =>
           /\ \E j \in Nat \ {0} : j < i /\ Window(r, k, j, i)
           /\ Exists(s, k) => r.args.seq > Row(s, k).last_read
AllJustified == \A r : r.args \in Calls => Justified(r)

Moving == {"messages", "attachments", "room_read_states"}
Onward(q, k) ==
  k \in DOMAIN writes[q] =>
    k \in overtaken[q] \/ db[k] = Absent \/ ~Backward(db[k], writes[q][k], k)
FInv ==
  /\ TInv
  /\ \A q \in Requests : Open(q) => \A k \in Rows : k[1] \in Moving => Onward(q, k)

LEMMA OnwardKept ==
  ASSUME Routed, AllJustified, FInv, NEW q \in Requests, Goes(q), Effect(q),
         NEW k \in Rows, k[1] \in Moving
  PROVE  Onward(q, k)'
<1> DEFINE st == current[q]
<1>1. /\ Open(q) /\ call'[q] = call[q] /\ overtaken'[q] = overtaken[q] /\ RInv /\ DInv
      /\ pc[q] \in Nat \ {0} /\ Onward(q, k) /\ TestKept(q, k) /\ WindowKept(q, k)
      /\ st = Statements(call[q], seen[q])[pc[q]]
      /\ pc[q] \in 1..Len(Statements(call[q], seen[q])) /\ Mine(q) /\ ProperDb
  BY CurrentIs DEF Goes, FInv, TInv, DInv, SInv, KInv
<1>2. /\ Neat(st, call[q]) /\ Safe(st, Tables(Op(q))) /\ call[q].args \in Calls
      /\ Justified(call[q]) /\ k[1] \in Durable /\ k \in Keys
  BY <1>1, NeatNow DEF AllJustified, Moving, Durable, Rows
<1> SUFFICES ASSUME k \in DOMAIN writes'[q], k \notin overtaken[q], db'[k] # Absent
             PROVE  ~Backward(db'[k], writes'[q][k], k)
  BY <1>1 DEF Onward
<1>3. CASE ~Alters(st, k)
  <2>1. ~Committed(q)
    BY DEF Committed, NoRows
  <2>2. db' = db
    BY <2>1 DEF Effect, Looked, Tallied, Reloaded, Added, Changed, Dropped
  <2>3. k \in DOMAIN writes[q] /\ writes'[q][k] = writes[q][k]
    BY <1>1, <1>3, EffectVisible DEF Visible
  <2> QED
    BY <1>1, <2>2, <2>3 DEF Onward
<1>4. CASE Alters(st, k) /\ st.do = "insert"
  <2>1. Added(q)
    BY <1>4 DEF Effect, Looked, Tallied, Reloaded, Changed, Dropped, Committed
  <2>2. Visible(q, k) = Absent /\ db' = db
    BY <1>4, <2>1 DEF Added, Alters
  <2> QED
    BY <1>1, <1>2, <2>2 DEF Visible, Mine
<1>5. CASE Alters(st, k) /\ st.do = "update"
  <2>1. Changed(q) /\ k \in st.keys
    BY <1>5 DEF Effect, Looked, Tallied, Reloaded, Added, Dropped, Committed, Alters
  <2>2. db' = db /\ writes'[q][k] = Over(st.row, Visible(q, k))
    BY <2>1 DEF Changed, Over
  <2>3. CASE k[1] \in {"messages", "attachments"}
    <3>1. \E j \in Nat \ {0} : j < pc[q] /\ Tested(call[q], k, j, pc[q])
      BY <1>1, <1>2, <1>5, <2>1, <2>3 DEF Justified
    <3>2. StillGood(q, k)
      BY <1>1, <3>1 DEF TestKept
    <3>3. Good(db[k], k) /\ Proper(db[k], k)
      BY <1>1, <1>2, <2>2, <3>2 DEF StillGood, ProperDb
    <3> QED
      BY <2>2, <2>3, <3>3 DEF Good, Proper, Backward
  <2>4. CASE k[1] = "room_read_states"
    <3>1. /\ \E j \in Nat \ {0} : j < pc[q] /\ Window(call[q], k, j, pc[q])
          /\ Exists(seen[q], k) => call[q].args.seq > Row(seen[q], k).last_read
      BY <1>1, <1>2, <1>5, <2>1, <2>4 DEF Justified
    <3>2. k \in DOMAIN seen[q] /\ seen[q][k] = db[k]
      BY <1>1, <3>1 DEF WindowKept, StillSeen, Fresh
    <3>3. call[q].args.seq > db[k].last_read
      BY <2>2, <3>1, <3>2 DEF Exists, Row
    <3>4. st.row = [last_read |-> call[q].args.seq]
      BY <1>2, <1>5, <2>1, <2>4 DEF Neat, Writing
    <3>5. writes'[q][k].last_read = call[q].args.seq
      BY <2>2, <3>4 DEF Over
    <3>6. db[k].last_read \in Nat /\ call[q].args.seq \in Nat
      <4>1. "room_read_states" \in Tables(Op(q))
        BY <1>2, <2>1, <2>4, <1>5 DEF Safe, Alters
      <4>2. Op(q) = "update_room_read_state"
        BY <4>1 DEF Tables, WrittenBy
      <4> QED
        BY <1>1, <1>2, <2>2, <2>4, <4>2, CallsAssumption DEF ProperDb, Proper, Calls, Op
    <3> QED
      BY <2>2, <2>4, <3>3, <3>5, <3>6 DEF Backward
  <2> QED
    BY <2>3, <2>4 DEF Moving
<1> QED
  BY <1>2, <1>3, <1>4, <1>5 DEF Neat, Alters

LEMMA OnwardHold ==
  ASSUME Routed, AllJustified
  PROVE  /\ Init => FInv
         /\ FInv /\ [Next]_vars => FInv'
<1>1. Init => FInv
  BY TestsHold DEF Init, FInv, Open
<1>2. ASSUME FInv, [Next]_vars PROVE FInv'
  <2>1. Runnable /\ WInv /\ TInv'
    BY <1>2, RoutedRuns, TestsHold DEF FInv, TInv, DInv, SInv, KInv, RInv
  <2>2. ASSUME NEW q \in Requests, Open(q)', NEW k \in Rows, k[1] \in Moving
        PROVE  Onward(q, k)'
    <3>1. CASE Aside(q)
      <4>1. Onward(q, k) /\ k \in Keys
        BY <1>2, <2>2, <3>1 DEF FInv, Aside, Rows
      <4>2. /\ writes'[q] = writes[q] /\ overtaken[q] \subseteq overtaken'[q]
            /\ (db'[k] # db[k] => k \in overtaken'[q])
        BY <3>1, <4>1 DEF Aside
      <4> QED
        BY <4>1, <4>2 DEF Onward
    <3>2. CASE Arrives(q)
      BY <3>2 DEF Arrives, Onward, NoRows
    <3>3. CASE Goes(q) /\ Effect(q)
      BY <1>2, <2>2, <3>3, OnwardKept
    <3> QED
      BY <1>2, <2>1, <2>2, <3>1, <3>2, <3>3, StepCases
  <2> QED
    BY <2>1, <2>2 DEF FInv
<1> QED
  BY <1>1, <1>2

-----------------------------------------------------------------------------
(* The endpoints that update such rows.                                    *)

\* Outside the statements named, b writes only tables T.
LEMMA Outside ==
  ASSUME NEW b, NEW m, NEW n, NEW T, Within(b, m, n, T), NEW k, k[1] \notin T,
         NEW i \in 1..Len(b), Alters(b[i], k)
  PROVE  i - n \in 1..Len(m) /\ b[i] = m[i - n] /\ Len(m) \in Nat /\ n \in Nat
<1>1. Len(b) \in Nat /\ Len(m) \in Nat /\ n \in Nat
  BY DEF Within, IsBody
<1>2. ~Safe(b[i], T)
  BY DEF Safe, Alters
<1>3. i > n /\ i <= n + Len(m)
  BY <1>1, <1>2 DEF Within
<1>4. i - n \in 1..Len(m) /\ n + (i - n) = i
  BY <1>1, <1>3
<1> QED
  BY <1>1, <1>4 DEF Within

LEMMA WithinBetween ==
  ASSUME NEW a, NEW m, NEW z, NEW T, Sound(a, T), IsBody(m), Sound(z, T), NEW n, n = Len(a)
  PROVE  Within(a \o m \o z, m, n, T)
<1>1. Len(a) \in Nat /\ Within(m, m, 0, T)
  BY WithinSelf DEF Sound, IsBody
<1>2. n = Len(a) + 0
  BY <1>1
<1>3. Within(a \o m, m, n, T)
  BY <1>1, <1>2, WithinAfter
<1> QED
  BY <1>3, WithinThen

LEMMA MemberLengths ==
  ASSUME NEW s
  PROVE  /\ \A u, x : Len(ensure_room_member(s, u, x)) = 3
         /\ \A u, x : Len(get_room_for_user(s, u, x)) = 2
<1>1. ASSUME NEW u, NEW x PROVE Len(get_room_for_user(s, u, x)) = 2
  BY DEF get_room_for_user
<1>2. ASSUME NEW u, NEW x PROVE Len(ensure_room_member(s, u, x)) = 3
  <2>1. IsBody(get_room_for_user(s, u, x))
    <3>1. Sound(get_room_for_user(s, u, x), {})
      BY ChecksSound
    <3> QED
      BY <3>1 DEF Sound
  <2>2. \A y : IsBody(<<y>>) /\ Len(<<y>>) = 1
    BY DEF IsBody
  <2> DEFINE a == get_room_for_user(s, u, x)
             st == Require(Exists(s, RoomMember(x, u)), "RoomMembershipRequired")
  <2>3. ensure_room_member(s, u, x) = a \o <<st>>
    BY DEF ensure_room_member
  <2> HIDE DEF a, st
  <2>4. Len(a \o <<st>>) = Len(a) + 1
    BY <2>1, <2>2, LengthsAdd DEF a
  <2> QED
    BY <1>1, <2>3, <2>4 DEF a
<1> QED
  BY <1>1, <1>2

\* Statement n of b.
Found(b, n, st) == IsBody(b) /\ n \in 1..Len(b) /\ b[n] = st

LEMMA FoundThen ==
  ASSUME NEW b, NEW n, NEW st, Found(b, n, st), NEW a, IsBody(a)
  PROVE  Found(b \o a, n, st)
<1>1. Len(b) \in Nat /\ Len(a) \in Nat
  BY DEF Found, IsBody
<1> QED
  BY <1>1, Joins DEF Found

LEMMA FoundAfter ==
  ASSUME NEW b, NEW n, NEW st, Found(b, n, st), NEW a, IsBody(a), NEW l, l = Len(a) + n
  PROVE  Found(a \o b, l, st)
<1>1. Len(b) \in Nat /\ Len(a) \in Nat
  BY DEF Found, IsBody
<1>2. l \in Len(a) + 1..Len(a) + Len(b) /\ l - Len(a) = n
  BY <1>1 DEF Found
<1> QED
  BY <1>1, <1>2, Joins DEF Found

LEMMA FoundIn ==
  ASSUME NEW a, NEW b
  PROVE  /\ Found(<<a>>, 1, a)
         /\ Found(<<a, b>>, 1, a) /\ Found(<<a, b>>, 2, b)
         /\ IsBody(<<a>>) /\ Len(<<a>>) = 1 /\ <<a>>[1] = a /\ Len(<<a, b>>) = 2
BY DEF Found, IsBody

\* Number n alone writes rows of table t, those of K, and number j checks them.
Guards(r, t, K, j, n) ==
  /\ j \in Nat \ {0} /\ n \in Nat /\ j < n
  /\ \A s : \A k : \A i \in 1..Len(Statements(r, s)) :
       k[1] = t /\ Alters(Statements(r, s)[i], k) => i = n /\ k \in K
  /\ \A s : /\ Statements(r, s)[j].do \in Control
            /\ Statements(r, s)[j].do = "pass" =>
                 \A k \in K : Exists(s, k) /\ Good(Row(s, k), k)
NoUpdate(r, t) ==
  \A s : \A k : \A i \in 1..Len(Statements(r, s)) :
    k[1] = t /\ k \in Statements(r, s)[i].keys => Statements(r, s)[i].do # "update"
JustIn(r, t) ==
  \A s : \A k : \A i \in 1..Len(Statements(r, s)) : LET st == Statements(r, s)[i] IN
    st.do = "update" /\ k \in st.keys /\ k[1] = t =>
      \E j \in Nat \ {0} : j < i /\ Tested(r, k, j, i)

LEMMA GuardsJustify ==
  ASSUME NEW r, NEW t, NEW K, NEW j, NEW n, Guards(r, t, K, j, n)
  PROVE  JustIn(r, t)
<1> SUFFICES ASSUME NEW s, NEW i \in 1..Len(Statements(r, s)), NEW k,
                    Statements(r, s)[i].do = "update", k \in Statements(r, s)[i].keys, k[1] = t
             PROVE  j \in Nat \ {0} /\ j < i /\ Tested(r, k, j, i)
  BY DEF JustIn
<1>1. i = n /\ k \in K
  BY DEF Guards, Alters, Writing
<1>2. Late(r, k, n)
  BY <1>1 DEF Guards, Late
<1> QED
  BY <1>1, <1>2 DEF Guards, Tested

LEMMA NoUpdateJustifies ==
  ASSUME NEW r, NEW t, NoUpdate(r, t)
  PROVE  JustIn(r, t)
BY DEF NoUpdate, JustIn

(* An endpoint that writes table t in one statement st, possibly after a   *)
(* check st0.                                                              *)
LEMMA SinglyWritten ==
  ASSUME NEW b, NEW st, NEW n \in Nat, NEW T, Within(b, <<st>>, n, T), NEW t, t \notin T
  PROVE  \A k : \A i \in 1..Len(b) :
           k[1] = t /\ Alters(b[i], k) => i = n + 1 /\ b[i] = st
<1> SUFFICES ASSUME NEW i \in 1..Len(b), NEW k, k[1] = t, Alters(b[i], k)
             PROVE  i = n + 1 /\ b[i] = st
  OBVIOUS
<1>1. i - n \in 1..Len(<<st>>) /\ b[i] = <<st>>[i - n]
  BY Outside
<1>2. Len(<<st>>) = 1 /\ <<st>>[1] = st
  OBVIOUS
<1>3. i - n = 1 /\ i \in Int
  BY <1>1, <1>2
<1> QED
  BY <1>1, <1>2, <1>3

LEMMA EventSound ==
  ASSUME NEW s, NEW x, NEW t, NEW k, NEW v
  PROVE  Sound(create_message_event(s, NewEvent(x, t, k, v)), {"events"})
BY EnsuresSound

LEMMA PartsSound ==
  ASSUME NEW s, NEW T
  PROVE  /\ \A c : Sound(get_current_user(s, c), T) /\ Len(get_current_user(s, c)) = 2
         /\ \A u, x : Sound(ensure_room_member(s, u, x), T)
                      /\ Len(ensure_room_member(s, u, x)) = 3
         /\ Sound(<< Commit >>, T)
<1>1. \A c : Sound(get_current_user(s, c), T) /\ Len(get_current_user(s, c)) = 2
  BY ChecksSound, Lengths
<1>2. \A u, x : Sound(ensure_room_member(s, u, x), T) /\ Len(ensure_room_member(s, u, x)) = 3
  BY ChecksSound, MemberLengths
<1> QED
  BY <1>1, <1>2, Silent, Tuple1

MessageThere(s, c) == Require(Has(s, Message(c.message), "room", c.room)
                             /\ Has(s, Message(c.message), "deleted", FALSE),
                           "MessageNotFound")
\* update_message and delete_message.
LEMMA EditBody ==
  ASSUME NEW s, NEW c, NEW up, NEW event, Sound(event, {"events"}), NEW b,
         b = get_current_user(s, c)
               \o (ensure_room_member(s, c.by, c.room)
                   \o get_mutable_message(s, c.by, c.room, c.message)
                   \o << up >> \o event \o << Commit >>)
  PROVE  Within(b, << up >>, 8, {"events"}) /\ Found(b, 7, MessageThere(s, c))
<1> DEFINE T == {"events"}
           user == get_current_user(s, c)
           ensure == ensure_room_member(s, c.by, c.room)
           look == << Select({Message(c.message)}), MessageThere(s, c) >>
           own == << Require(Has(s, Message(c.message), "sender", c.by),
                             "MessagePermissionDenied") >>
           mut == get_mutable_message(s, c.by, c.room, c.message)
           pre == ensure \o mut
           body == pre \o << up >> \o event \o << Commit >>
<1>1. mut = look \o own
  BY DEF get_mutable_message, get_visible_message, MessageThere
<1>2. Sound(user, T) /\ Sound(ensure, T) /\ Sound(mut, T) /\ Sound(<< Commit >>, T)
  BY PartsSound, ChecksSound
<1>3. Len(user) = 2 /\ Len(ensure) = 3
  BY PartsSound
<1>4. Found(look, 2, MessageThere(s, c)) /\ Len(look) = 2
  <2> DEFINE x == MessageThere(s, c)
             y == Select({Message(c.message)})
  <2>1. Found(<<y, x>>, 2, x) /\ Len(<<y, x>>) = 2
    BY FoundIn
  <2> QED
    BY <2>1
<1>5. IsBody(own) /\ Len(own) = 1
  <2> DEFINE x == Require(Has(s, Message(c.message), "sender", c.by), "MessagePermissionDenied")
  <2> HIDE DEF x
  <2>1. IsBody(<<x>>) /\ Len(<<x>>) = 1
    BY FoundIn
  <2> QED
    BY <2>1 DEF x
<1> HIDE DEF user, ensure, look, own, mut
<1>6. Found(mut, 2, MessageThere(s, c)) /\ Len(mut) = 3
  <2>1. Found(look \o own, 2, MessageThere(s, c))
    BY <1>4, <1>5, FoundThen
  <2>2. Len(look \o own) = Len(look) + Len(own)
    BY <1>4, <1>5, LengthsAdd DEF Found
  <2> QED
    BY <1>1, <1>4, <1>5, <2>1, <2>2
<1>7. Found(pre, 5, MessageThere(s, c)) /\ Len(pre) = 6 /\ Sound(pre, T)
  <2>1. 5 = Len(ensure) + 2 /\ IsBody(ensure) /\ IsBody(mut)
    BY <1>2, <1>3 DEF Sound
  <2>2. Found(ensure \o mut, 5, MessageThere(s, c))
    BY <1>6, <2>1, FoundAfter
  <2>3. Len(ensure \o mut) = Len(ensure) + Len(mut)
    BY <2>1, LengthsAdd
  <2>4. Sound(ensure \o mut, T)
    BY <1>2, Cat
  <2> QED
    BY <1>3, <1>6, <2>2, <2>3, <2>4
<1>8. IsBody(<< up >>)
  BY FoundIn
<1> HIDE DEF pre
<1>9. Within(body, << up >>, 6, T) /\ Found(body, 5, MessageThere(s, c))
  <2>1. Within(pre \o << up >> \o event, << up >>, 6, T)
    BY <1>7, <1>8, WithinBetween
  <2>2. Within(body, << up >>, 6, T)
    BY <1>2, <2>1, WithinThen
  <2>3. IsBody(event) /\ IsBody(<< Commit >>)
    BY <1>2 DEF Sound
  <2>4. Found(pre \o << up >>, 5, MessageThere(s, c))
    BY <1>7, <1>8, FoundThen
  <2>5. Found(pre \o << up >> \o event, 5, MessageThere(s, c))
    BY <2>3, <2>4, FoundThen
  <2>6. Found(body, 5, MessageThere(s, c))
    BY <2>3, <2>5, FoundThen
  <2> QED
    BY <2>2, <2>6
<1>10. b = user \o body
  BY DEF user, body, pre, ensure, mut
<1> HIDE DEF body
<1>11. 8 = Len(user) + 6 /\ 7 = Len(user) + 5 /\ IsBody(user)
  BY <1>2, <1>3 DEF Sound
<1>12. Within(user \o body, << up >>, 8, T)
  BY <1>2, <1>9, <1>11, WithinAfter
<1>13. Found(user \o body, 7, MessageThere(s, c))
  BY <1>9, <1>11, FoundAfter
<1> QED
  BY <1>10, <1>12, <1>13

LEMMA EditsGuarded ==
  ASSUME NEW r, r.args.op \in {"update_message", "delete_message"}
  PROVE  Guards(r, "messages", {Message(r.args.message)}, 7, 9)
<1> DEFINE c == r.args
           m == Message(c.message)
<1>1. ASSUME NEW s
      PROVE  /\ \E x : Within(Statements(r, s), << Update(m, x) >>, 8, {"events"})
             /\ Found(Statements(r, s), 7, MessageThere(s, c))
  <2>1. CASE c.op = "update_message"
    <3> DEFINE event == create_message_event(s, NewEvent(c.room, "message.updated", m, r.id))
               up == Update(m, [content |-> r.id])
               b == Statements(r, s)
    <3>1. Statements(r, s) = get_current_user(s, c)
               \o (ensure_room_member(s, c.by, c.room)
                   \o get_mutable_message(s, c.by, c.room, c.message)
                   \o << up >> \o event \o << Commit >>)
      BY <2>1, Zenon DEF Statements, ApiEndpoint, update_message_endpoint, Authenticated, Handler,
         update_message
    <3>2. Sound(event, {"events"})
      BY EventSound
    <3> HIDE DEF event, up
    <3>3. Within(b, << up >>, 8, {"events"}) /\ Found(b, 7, MessageThere(s, c))
      BY <3>1, <3>2, EditBody, Zenon
    <3> QED
      BY <3>3 DEF up
  <2>2. CASE c.op = "delete_message"
    <3> DEFINE event == create_message_event(s, NewEvent(c.room, "message.deleted", m,
                                                         NoMessage))
               up == Update(m, [deleted |-> TRUE])
               b == Statements(r, s)
    <3>1. Statements(r, s) = get_current_user(s, c)
               \o (ensure_room_member(s, c.by, c.room)
                   \o get_mutable_message(s, c.by, c.room, c.message)
                   \o << up >> \o event \o << Commit >>)
      BY <2>2, Zenon DEF Statements, ApiEndpoint, delete_message_response, Authenticated, Handler,
         delete_message
    <3>2. Sound(event, {"events"})
      BY EventSound, SMTT(20)
    <3> HIDE DEF event, up
    <3>3. Within(b, << up >>, 8, {"events"}) /\ Found(b, 7, MessageThere(s, c))
      BY <3>1, <3>2, EditBody
    <3> QED
      BY <3>3 DEF up
  <2> QED
    BY <2>1, <2>2
<1>2. ASSUME NEW s, NEW i \in 1..Len(Statements(r, s)), NEW k, k[1] = "messages",
             Alters(Statements(r, s)[i], k)
      PROVE  i = 9 /\ k \in {m}
  <2>1. PICK x : Within(Statements(r, s), << Update(m, x) >>, 8, {"events"})
    BY <1>1
  <2> DEFINE up == Update(m, x)
  <2>2. up.keys = {m}
    BY DEF Update, Statement
  <2> HIDE DEF up
  <2>3. i = 8 + 1 /\ Statements(r, s)[i] = up
    <3>1. Within(Statements(r, s), << up >>, 8, {"events"})
      BY <2>1 DEF up
    <3> DEFINE b == Statements(r, s)
               T == {"events"}
    <3>2. 8 \in Nat /\ "messages" \notin T
      OBVIOUS
    <3> HIDE DEF T
    <3>3. Within(b, << up >>, 8, T)
      BY <3>1 DEF T
    <3> HIDE DEF b
    <3>4. \A l : \A j \in 1..Len(b) : l[1] = "messages" /\ Alters(b[j], l) => j = 8 + 1 /\ b[j] = up
      BY <3>2, <3>3, SinglyWritten
    <3> QED
      BY <1>2, <3>4 DEF b
  <2> QED
    BY <1>2, <2>2, <2>3 DEF Alters
<1>3. ASSUME NEW s
      PROVE  /\ Statements(r, s)[7].do \in Control
             /\ Statements(r, s)[7].do = "pass" => Exists(s, m) /\ Good(Row(s, m), m)
  <2>1. Statements(r, s)[7] = MessageThere(s, c)
    BY <1>1 DEF Found
  <2>2. MessageThere(s, c).do \in Control
    BY Kinds DEF MessageThere, Control
  <2>3. MessageThere(s, c).do = "pass" => Has(s, m, "deleted", FALSE)
    BY DEF MessageThere, Require, Raise, Statement
  <2>4. Has(s, m, "deleted", FALSE) => Exists(s, m) /\ Good(Row(s, m), m)
    BY DEF Has, Good, Message
  <2> QED
    BY <2>1, <2>2, <2>3, <2>4
<1> QED
  BY <1>2, <1>3 DEF Guards

-----------------------------------------------------------------------------
(* The statements of create_message.                                       *)

Sending == {"create_message", "gateway_send"}
\* Statements before the INSERT of the message.
Front(c) == 5 + (IF c.attachments = {} THEN 0 ELSE 2) + (IF c.reply = NoMessage THEN 0 ELSE 2)
TheMessage(c, id) == Insert(Message(id), NewMessage(c.room, c.by, id))
TheAttachments(c, id) ==
  UpdateAll({Attachment(x) : x \in c.attachments}, [message |-> id, status |-> "attached"])
Attachable(s, c) ==
  Require(\A x \in c.attachments : Row(s, Attachment(x)) =
            [uploader |-> c.by, room |-> c.room, message |-> NoMessage,
             status |-> "uploaded"], "AttachmentNotFound")
Opening(s, c) ==
  ensure_room_member(s, c.by, c.room)
  \o get_attachable_attachments(s, c.by, c.room, c.attachments)
  \o get_reply_target(s, c.room, c.reply)

LEMMA Openings ==
  ASSUME NEW s, NEW c, NEW T
  PROVE  /\ Sound(Opening(s, c), T) /\ Len(Opening(s, c)) + 2 = Front(c)
         /\ c.attachments # {} => Found(Opening(s, c), 5, Attachable(s, c))
<1> DEFINE a == ensure_room_member(s, c.by, c.room)
           b == get_attachable_attachments(s, c.by, c.room, c.attachments)
           d == get_reply_target(s, c.room, c.reply)
           la == IF c.attachments = {} THEN 0 ELSE 2
           ld == IF c.reply = NoMessage THEN 0 ELSE 2
<1>1. Sound(a, T) /\ Sound(b, T) /\ Sound(d, T) /\ Len(a) = 3
  BY PartsSound, ChecksSound
<1>2. Len(b) = la /\ (c.attachments # {} => Found(b, 2, Attachable(s, c)))
  <2> DEFINE x == Select({Attachment(y) : y \in c.attachments})
             y == Attachable(s, c)
  <2>1. c.attachments # {} => b = << x, y >>
    BY DEF get_attachable_attachments, Attachable
  <2>2. c.attachments = {} => b = << >>
    BY DEF get_attachable_attachments
  <2> HIDE DEF x, y, b
  <2>3. Len(<< x, y >>) = 2 /\ Found(<< x, y >>, 2, y)
    BY FoundIn
  <2> QED
    BY <2>1, <2>2, <2>3 DEF y
<1>3. Len(d) = ld
  <2> DEFINE v == get_visible_message(s, c.room, c.reply)
  <2>1. Len(v) = 2
    BY DEF get_visible_message
  <2>2. Len(<< >>) = 0
    OBVIOUS
  <2> HIDE DEF v
  <2>3. CASE c.reply = NoMessage
    <3>1. d = << >>
      BY <2>3 DEF get_reply_target
    <3> QED
      BY <2>2, <2>3, <3>1
  <2>4. CASE c.reply # NoMessage
    <3>1. d = v
      BY <2>4 DEF get_reply_target, v
    <3> HIDE DEF d
    <3> QED
      BY <2>1, <2>4, <3>1
  <2> QED
    BY <2>3, <2>4
<1> HIDE DEF a, b, d, la, ld
<1>4. IsBody(a) /\ IsBody(b) /\ IsBody(d)
  BY <1>1 DEF Sound
<1>5. Sound(a \o b, T) /\ Len(a \o b) = Len(a) + Len(b) /\ IsBody(a \o b)
  BY <1>1, <1>4, Cat, LengthsAdd, Joins
<1>6. Sound(a \o b \o d, T) /\ Len(a \o b \o d) = Len(a \o b) + Len(d)
  BY <1>1, <1>4, <1>5, Cat, LengthsAdd
<1>7. ASSUME c.attachments # {} PROVE Found(a \o b \o d, 5, Attachable(s, c))
  <2>1. 5 = Len(a) + 2
    BY <1>1
  <2>2. Found(b, 2, Attachable(s, c))
    BY <1>2, <1>7
  <2>3. Found(a \o b, 5, Attachable(s, c))
    BY <1>4, <2>1, <2>2, FoundAfter
  <2> QED
    BY <1>4, <2>3, FoundThen
<1>8. Len(a \o b \o d) + 2 = Front(c)
  <2>1. Len(a \o b \o d) = 3 + la + ld
    BY <1>1, <1>2, <1>3, <1>5, <1>6
  <2>2. la \in {0, 2} /\ ld \in {0, 2} /\ Front(c) = 5 + la + ld
    BY SMTT(20) DEF la, ld, Front
  <2> QED
    BY <2>1, <2>2
<1> QED
  BY <1>6, <1>7, <1>8 DEF Opening, a, b, d

SendBody(s, c, id) ==
  get_current_user(s, c)
  \o (Opening(s, c) \o << TheMessage(c, id) >> \o << TheAttachments(c, id) >>
      \o create_message_event(s, NewEvent(c.room, "message.created", Message(id), id))
      \o create_message_notifications(s, c.room, id, c.by)
      \o << Commit >>)

LEMMA SendStatements ==
  ASSUME NEW r, NEW s, r.args.op \in Sending
  PROVE  Statements(r, s) = SendBody(s, r.args, r.id)
<1> DEFINE c == r.args
           body == create_message(s, c, r.id)
<1>1. Statements(r, s) = get_current_user(s, c) \o body
  <2>1. CASE c.op = "create_message"
    BY <2>1 DEF Statements, ApiEndpoint, create_message_endpoint, Authenticated, Handler
  <2>2. CASE c.op = "gateway_send"
    BY <2>2 DEF Statements, ApiEndpoint, handle_gateway_message_send, Authenticated, Handler
  <2> QED
    BY <2>1, <2>2 DEF Sending
<1>2. body = Opening(s, c) \o << TheMessage(c, r.id) >> \o << TheAttachments(c, r.id) >>
      \o create_message_event(s, NewEvent(c.room, "message.created", Message(r.id), r.id))
      \o create_message_notifications(s, c.room, r.id, c.by)
      \o << Commit >>
  BY DEF create_message, Opening, TheMessage, TheAttachments
<1> HIDE DEF body
<1> QED
  BY <1>1, <1>2 DEF SendBody

LEMMA NoticesLength ==
  ASSUME NEW s, NEW x, NEW t, NEW k, NEW v, NEW m, NEW u
  PROVE  /\ Len(create_message_event(s, NewEvent(x, t, k, v))) = 2
         /\ Len(create_message_notifications(s, x, m, u)) = 2
BY DEF create_message_event, create_message_notifications

(* Where they stand.                                                       *)
LEMMA SendPlaces ==
  ASSUME NEW s, NEW c, NEW id
  PROVE  LET b == SendBody(s, c, id) IN
         /\ Within(b, << TheMessage(c, id) >>, Front(c),
                   {"attachments", "events", "notifications"})
         /\ Within(b, << TheAttachments(c, id) >>, Front(c) + 1,
                   {"messages", "events", "notifications"})
         /\ Within(b, create_message_notifications(s, c.room, id, c.by), Front(c) + 4,
                   {"messages", "attachments", "events"})
         /\ Found(b, Front(c) + 7, Commit) /\ Len(b) = Front(c) + 7
         /\ c.attachments # {} => Found(b, 7, Attachable(s, c))
         /\ Front(c) \in Nat /\ Front(c) >= 5
<1> DEFINE user == get_current_user(s, c)
           p == Opening(s, c)
           one == << TheMessage(c, id) >>
           two == << TheAttachments(c, id) >>
           e == create_message_event(s, NewEvent(c.room, "message.created", Message(id), id))
           n == create_message_notifications(s, c.room, id, c.by)
           z == << Commit >>
           l == Len(p)
           b == SendBody(s, c, id)
<1>1. \A T : Sound(user, T) /\ Sound(p, T) /\ Sound(z, T)
  BY PartsSound, Openings
<1>2. Len(user) = 2 /\ Len(e) = 2 /\ Len(n) = 2 /\ Len(one) = 1 /\ Len(two) = 1 /\ Len(z) = 1
  BY PartsSound, NoticesLength
<1>3. /\ \A T : "messages" \in T => Sound(one, T)
      /\ \A T : "attachments" \in T => Sound(two, T)
      /\ \A T : "events" \in T => Sound(e, T)
      /\ \A T : "notifications" \in T => Sound(n, T)
  BY MessageWrites, AttachmentWrites, EnsuresSound, Tuple1 DEF TheMessage, TheAttachments
<1>4. l \in Nat /\ l + 2 = Front(c) /\ Front(c) \in Nat /\ l >= 3
  <2>1. IsBody(p)
    BY <1>1 DEF Sound
  <2>2. l \in Nat /\ l + 2 = Front(c)
    BY <2>1, Openings DEF IsBody
  <2> QED
    BY <2>2 DEF Front
<1>5. b = user \o (p \o one \o two \o e \o n \o z)
  BY DEF SendBody
<1>6. Found(z, 1, Commit)
  BY FoundIn
<1>7. c.attachments # {} => Found(p, 5, Attachable(s, c))
  BY Openings
<1> HIDE DEF user, p, one, two, e, n, z, b, l
<1>8. IsBody(user) /\ IsBody(p) /\ IsBody(one) /\ IsBody(two) /\ IsBody(e) /\ IsBody(n) /\ IsBody(z)
  <2>1. Sound(one, {"messages"}) /\ Sound(two, {"attachments"})
        /\ Sound(e, {"events"}) /\ Sound(n, {"notifications"})
    BY <1>3
  <2> QED
    BY <1>1, <2>1 DEF Sound
<1>9. /\ IsBody(p \o one) /\ Len(p \o one) = l + 1
      /\ IsBody(p \o one \o two) /\ Len(p \o one \o two) = l + 2
      /\ IsBody(p \o one \o two \o e) /\ Len(p \o one \o two \o e) = l + 4
      /\ IsBody(p \o one \o two \o e \o n) /\ Len(p \o one \o two \o e \o n) = l + 6
      /\ IsBody(p \o one \o two \o e \o n \o z) /\ Len(p \o one \o two \o e \o n \o z) = l + 7
  <2>1. IsBody(p \o one) /\ Len(p \o one) = l + 1
    BY <1>2, <1>8, Joins, SMTT(20) DEF l
  <2>2. IsBody(p \o one \o two) /\ Len(p \o one \o two) = l + 2
    <3> DEFINE x == p \o one
    <3>1. IsBody(x) /\ Len(x) = l + 1
      BY <2>1
    <3> HIDE DEF x
    <3>2. IsBody(x \o two) /\ Len(x \o two) = Len(x) + Len(two)
      BY <1>8, <3>1, Joins, LengthsAdd
    <3>3. Len(x \o two) = l + 2
      BY <1>2, <1>4, <3>1, <3>2
    <3> QED
      BY <3>2, <3>3 DEF x
  <2>3. IsBody(p \o one \o two \o e) /\ Len(p \o one \o two \o e) = l + 4
    <3> DEFINE x == p \o one \o two
    <3>1. IsBody(x) /\ Len(x) = l + 2
      BY <2>2
    <3> HIDE DEF x
    <3>2. IsBody(x \o e) /\ Len(x \o e) = Len(x) + Len(e)
      BY <1>8, <3>1, Joins, LengthsAdd
    <3>3. Len(x \o e) = l + 4
      BY <1>2, <1>4, <3>1, <3>2
    <3> QED
      BY <3>2, <3>3 DEF x
  <2>4. IsBody(p \o one \o two \o e \o n) /\ Len(p \o one \o two \o e \o n) = l + 6
    <3> DEFINE x == p \o one \o two \o e
    <3>1. IsBody(x) /\ Len(x) = l + 4
      BY <2>3
    <3> HIDE DEF x
    <3>2. IsBody(x \o n) /\ Len(x \o n) = Len(x) + Len(n)
      BY <1>8, <3>1, Joins, LengthsAdd
    <3>3. Len(x \o n) = l + 6
      BY <1>2, <1>4, <3>1, <3>2
    <3> QED
      BY <3>2, <3>3 DEF x
  <2>5. IsBody(p \o one \o two \o e \o n \o z) /\ Len(p \o one \o two \o e \o n \o z) = l + 7
    <3> DEFINE x == p \o one \o two \o e \o n
    <3>1. IsBody(x) /\ Len(x) = l + 6
      BY <2>4
    <3> HIDE DEF x
    <3>2. IsBody(x \o z) /\ Len(x \o z) = Len(x) + Len(z)
      BY <1>8, <3>1, Joins, LengthsAdd
    <3>3. Len(x \o z) = l + 7
      BY <1>2, <1>4, <3>1, <3>2
    <3> QED
      BY <3>2, <3>3 DEF x
  <2> QED
    BY <2>1, <2>2, <2>3, <2>4, <2>5
<1>10. Within(b, one, l + 2, {"attachments", "events", "notifications"})
  <2> DEFINE T == {"attachments", "events", "notifications"}
  <2>1. Sound(two, T) /\ Sound(e, T) /\ Sound(n, T) /\ Sound(p, T) /\ Sound(z, T) /\ Sound(user, T)
    BY <1>1, <1>3
  <2> HIDE DEF T
  <2>2. Within(p \o one \o two, one, l, T)
    BY <1>8, <2>1, WithinBetween DEF l
  <2>3. Within(p \o one \o two \o e \o n \o z, one, l, T)
    BY <2>1, <2>2, WithinThen
  <2>4. l + 2 = Len(user) + l
    BY <1>2, <1>4
  <2> QED
    BY <1>5, <2>1, <2>3, <2>4, WithinAfter DEF T
<1>11. Within(b, two, l + 3, {"messages", "events", "notifications"})
  <2> DEFINE T == {"messages", "events", "notifications"}
  <2>1. Sound(one, T) /\ Sound(e, T) /\ Sound(n, T) /\ Sound(p, T) /\ Sound(z, T) /\ Sound(user, T)
    BY <1>1, <1>3
  <2> HIDE DEF T
  <2>2. Sound(p \o one, T) /\ l + 1 = Len(p \o one)
    BY <1>9, <2>1, Cat
  <2>3. Within(p \o one \o two \o e, two, l + 1, T)
    BY <1>8, <2>1, <2>2, WithinBetween
  <2>4. Within(p \o one \o two \o e \o n \o z, two, l + 1, T)
    BY <2>1, <2>3, WithinThen
  <2>5. l + 3 = Len(user) + (l + 1)
    BY <1>2, <1>4
  <2> QED
    BY <1>5, <2>1, <2>4, <2>5, WithinAfter DEF T
<1>12. Within(b, n, l + 6, {"messages", "attachments", "events"})
  <2> DEFINE T == {"messages", "attachments", "events"}
  <2>1. Sound(one, T) /\ Sound(two, T) /\ Sound(e, T) /\ Sound(p, T) /\ Sound(z, T) /\ Sound(user, T)
    BY <1>1, <1>3
  <2> HIDE DEF T
  <2>2. Sound(p \o one \o two \o e, T) /\ l + 4 = Len(p \o one \o two \o e)
    BY <1>9, <2>1, Cat
  <2>3. Within(p \o one \o two \o e \o n \o z, n, l + 4, T)
    BY <1>8, <2>1, <2>2, WithinBetween
  <2>4. l + 6 = Len(user) + (l + 4)
    BY <1>2, <1>4
  <2> QED
    BY <1>5, <2>1, <2>3, <2>4, WithinAfter DEF T
<1>13. Found(b, l + 9, Commit) /\ Len(b) = l + 9
  <2>1. l + 7 = Len(p \o one \o two \o e \o n) + 1
    BY <1>4, <1>9
  <2>2. Found(p \o one \o two \o e \o n \o z, l + 7, Commit)
    BY <1>6, <1>9, <2>1, FoundAfter
  <2>3. l + 9 = Len(user) + (l + 7)
    BY <1>2, <1>4
  <2>4. Found(b, l + 9, Commit)
    BY <1>5, <1>8, <2>2, <2>3, FoundAfter
  <2>5. Len(b) = Len(user) + (l + 7)
    BY <1>5, <1>8, <1>9, LengthsAdd
  <2> QED
    BY <2>3, <2>4, <2>5
<1>14. ASSUME c.attachments # {} PROVE Found(b, 7, Attachable(s, c))
  <2>1. Found(p, 5, Attachable(s, c))
    BY <1>7, <1>14
  <2>2. Found(p \o one \o two \o e \o n \o z, 5, Attachable(s, c))
    BY <1>8, <2>1, FoundThen
  <2>3. 7 = Len(user) + 5
    BY <1>2
  <2> QED
    BY <1>5, <1>8, <2>2, <2>3, FoundAfter
<1>15. l + 2 = Front(c) /\ l + 3 = Front(c) + 1 /\ l + 6 = Front(c) + 4 /\ l + 9 = Front(c) + 7
       /\ Front(c) >= 5
  BY <1>4
<1> QED
  BY <1>4, <1>10, <1>11, <1>12, <1>13, <1>14, <1>15 DEF b, n, one, two

-----------------------------------------------------------------------------
(* Sending attaches what the check has found uploaded.                     *)

\* The one statement that writes table t is not an UPDATE.
LEMMA OnlyInserts ==
  ASSUME NEW r, NEW t,
         \A s : \E st, n, T : /\ n \in Nat /\ Within(Statements(r, s), <<st>>, n, T)
                              /\ t \notin T /\ st.do # "update"
  PROVE  JustIn(r, t)
<1>1. ASSUME NEW s, NEW i \in 1..Len(Statements(r, s)), NEW k, k[1] = t,
             k \in Statements(r, s)[i].keys, Statements(r, s)[i].do = "update"
      PROVE  FALSE
  <2> DEFINE b == Statements(r, s)
  <2>1. PICK st, n, T : n \in Nat /\ Within(b, <<st>>, n, T) /\ t \notin T /\ st.do # "update"
    OBVIOUS
  <2>2. Alters(b[i], k)
    BY <1>1 DEF Alters, Writing
  <2> HIDE DEF b
  <2>3. \A l : \A j \in 1..Len(b) : l[1] = t /\ Alters(b[j], l) => j = n + 1 /\ b[j] = st
    BY <2>1, SinglyWritten
  <2>4. i \in 1..Len(b)
    BY <1>1 DEF b
  <2>5. b[i] = st
    BY <1>1, <2>2, <2>3, <2>4
  <2> QED
    BY <1>1, <2>1, <2>5 DEF b
<1>2. NoUpdate(r, t)
  BY <1>1 DEF NoUpdate
<1> QED
  BY <1>2, NoUpdateJustifies

LEMMA SendsInsertMessages ==
  ASSUME NEW r, r.args.op \in Sending
  PROVE  JustIn(r, "messages")
<1>1. ASSUME NEW s
      PROVE  \E st, n, T : /\ n \in Nat /\ Within(Statements(r, s), <<st>>, n, T)
                           /\ "messages" \notin T /\ st.do # "update"
  <2> DEFINE st == TheMessage(r.args, r.id)
             n == Front(r.args)
             T == {"attachments", "events", "notifications"}
             b == SendBody(s, r.args, r.id)
  <2>1. Within(b, << st >>, n, T) /\ n \in Nat
    BY SendPlaces
  <2>2. st.do = "insert"
    BY Kinds DEF TheMessage
  <2>3. "messages" \notin T /\ "insert" # "update"
    OBVIOUS
  <2>4. Statements(r, s) = b
    BY SendStatements
  <2> HIDE DEF st, n, T, b
  <2> QED
    BY <2>1, <2>2, <2>3, <2>4
<1> QED
  BY <1>1, OnlyInserts

LEMMA SendsGuarded ==
  ASSUME NEW r, r.args.op \in Sending
  PROVE  JustIn(r, "attachments")
<1> DEFINE c == r.args
           up == TheAttachments(c, r.id)
           K == {Attachment(x) : x \in c.attachments}
           n == Front(c)
<1>1. n \in Nat /\ n >= 5
  BY SendPlaces
<1>2. c.attachments = {} => up = Pass
  BY DEF TheAttachments, UpdateAll
<1>3. c.attachments # {} => up.keys = K
  BY DEF TheAttachments, UpdateAll, Statement
<1>4. ASSUME NEW s
      PROVE  \A k : \A i \in 1..Len(Statements(r, s)) :
               k[1] = "attachments" /\ Alters(Statements(r, s)[i], k)
                 => i = n + 2 /\ Statements(r, s)[i] = up
  <2> DEFINE b == Statements(r, s)
             T == {"messages", "events", "notifications"}
             l == n + 1
  <2>1. Within(b, << up >>, l, T)
    BY SendPlaces, SendStatements
  <2>2. l \in Nat /\ "attachments" \notin T /\ l + 1 = n + 2
    BY <1>1
  <2> HIDE DEF b, T, l, up
  <2>3. \A k : \A i \in 1..Len(b) : k[1] = "attachments" /\ Alters(b[i], k) => i = l + 1 /\ b[i] = up
    BY <2>1, <2>2, SinglyWritten
  <2> QED
    BY <2>2, <2>3 DEF b
<1>5. CASE c.attachments = {}
  <2>1. up.do # "update"
    BY <1>2, <1>5, Kinds
  <2>2. \A s, i, k : Statements(r, s)[i].do = "update" /\ k \in Statements(r, s)[i].keys
          => Alters(Statements(r, s)[i], k)
    BY DEF Alters, Writing
  <2> HIDE DEF up
  <2>3. NoUpdate(r, "attachments")
    BY <1>4, <2>1, <2>2 DEF NoUpdate
  <2> QED
    BY <2>3, NoUpdateJustifies
<1>6. CASE c.attachments # {}
  <2>1. ASSUME NEW s
        PROVE  /\ Statements(r, s)[7].do \in Control
               /\ Statements(r, s)[7].do = "pass" =>
                    \A k \in K : Exists(s, k) /\ Good(Row(s, k), k)
    <3>1. Statements(r, s)[7] = Attachable(s, c)
      <4>1. Found(SendBody(s, c, r.id), 7, Attachable(s, c))
        BY <1>6, SendPlaces
      <4>2. Statements(r, s) = SendBody(s, c, r.id)
        BY SendStatements
      <4> QED
        BY <4>1, <4>2 DEF Found
    <3>2. Attachable(s, c).do \in Control
      BY Kinds DEF Attachable, Control
    <3>3. ASSUME Attachable(s, c).do = "pass", NEW x \in c.attachments
          PROVE  Exists(s, Attachment(x)) /\ Good(Row(s, Attachment(x)), Attachment(x))
      <4> DEFINE row == [uploader |-> c.by, room |-> c.room, message |-> NoMessage,
                         status |-> "uploaded"]
                 k == Attachment(x)
      <4>1. Row(s, k) = row
        BY <3>3 DEF Attachable, Require, Raise, Statement
      <4>2. k[1] = "attachments" /\ "attachments" \in DOMAIN Schema /\ DOMAIN row = Columns(k)
        BY DEF Attachment, Columns, Schema
      <4>3. row # Absent
        BY <4>2, NotAbsent
      <4> QED
        BY <4>1, <4>2, <4>3 DEF Exists, Good
    <3> QED
      BY <3>1, <3>2, <3>3
  <2>2. ASSUME NEW s, NEW i \in 1..Len(Statements(r, s)), NEW k, k[1] = "attachments",
               Alters(Statements(r, s)[i], k)
        PROVE  i = n + 2 /\ k \in K
    BY <1>3, <1>4, <1>6, <2>2 DEF Alters
  <2>3. n # 5
    BY <1>6 DEF Front
  <2>4. n + 2 > 7
    BY <1>1, <2>3
  <2>5. Guards(r, "attachments", K, 7, n + 2)
    <3> HIDE DEF K, n
    <3> QED
      BY <1>1, <2>1, <2>2, <2>4 DEF Guards
  <2> HIDE DEF K
  <2> QED
    BY <2>5, GuardsJustify
<1> QED
  BY <1>5, <1>6

-----------------------------------------------------------------------------
(* Bodies that update no row of a table.                                   *)

Quiet(st, t) == st.do = "update" => \A k \in st.keys : k[1] # t
AllQuiet(b, t) == IsBody(b) /\ \A i \in 1..Len(b) : Quiet(b[i], t)

LEMMA QuietCat ==
  ASSUME NEW a, NEW b, NEW t, AllQuiet(a, t), AllQuiet(b, t)
  PROVE  AllQuiet(a \o b, t)
<1>1. IsBody(a) /\ IsBody(b) /\ Len(a) \in Nat /\ Len(b) \in Nat
  BY DEF AllQuiet, IsBody
<1>2. ASSUME NEW i \in 1..Len(a) + Len(b) PROVE Quiet((a \o b)[i], t)
  <2>1. CASE i <= Len(a)
    BY <1>1, <2>1, Joins DEF AllQuiet
  <2>2. CASE i > Len(a)
    <3>1. i - Len(a) \in 1..Len(b)
      BY <1>1, <2>2
    <3> QED
      BY <1>1, <2>2, <3>1, Joins DEF AllQuiet
  <2> QED
    BY <1>1, <2>1, <2>2
<1> QED
  BY <1>1, <1>2, Joins DEF AllQuiet

LEMMA SoundQuiet ==
  ASSUME NEW b, NEW T, Sound(b, T), NEW t, t \notin T
  PROVE  AllQuiet(b, t)
BY DEF Sound, Safe, AllQuiet, Quiet, Writing

LEMMA QuietJustifies ==
  ASSUME NEW r, NEW t, \A s : AllQuiet(Statements(r, s), t)
  PROVE  JustIn(r, t)
<1>1. NoUpdate(r, t)
  BY DEF NoUpdate, AllQuiet, Quiet
<1> QED
  BY <1>1, NoUpdateJustifies

LEMMA InsertQuiet ==
  ASSUME NEW t
  PROVE  \A k, row : AllQuiet(<< Insert(k, row) >>, t)
<1> SUFFICES ASSUME NEW k, NEW row PROVE AllQuiet(<< Insert(k, row) >>, t)
  OBVIOUS
<1> DEFINE st == Insert(k, row)
<1>1. st.do # "update"
  BY Kinds
<1> HIDE DEF st
<1>2. IsBody(<< st >>) /\ Len(<< st >>) = 1 /\ << st >>[1] = st
  BY FoundIn
<1> QED
  BY <1>1, <1>2 DEF AllQuiet, Quiet, st

LEMMA BotMessagesQuiet ==
  ASSUME NEW s, NEW app, NEW c, NEW id
  PROVE  AllQuiet(create_bot_message(s, app, c, id), "messages")
<1> DEFINE T == {"events", "notifications"}
           a == << Require(c.attachments = {}, "AttachmentNotFound"),
                   Select({Room(c.room)}),
                   Require(Exists(s, Room(c.room)) /\ Home(c.room) = Home(app), "RoomNotFound") >>
           b == get_reply_target(s, c.room, c.reply)
           one == << Insert(Message(id), NewMessage(c.room, Bot(app), id)) >>
           e == create_message_event(s, NewEvent(c.room, "message.created", Message(id), id))
           n == create_message_notifications(s, c.room, id, Bot(app))
           z == << Commit >>
<1>1. Sound(a, T)
  BY Silent, Tuple3
<1>2. Sound(b, T) /\ Sound(e, T) /\ Sound(n, T) /\ Sound(z, T)
  BY ChecksSound, EnsuresSound, PartsSound
<1>3. AllQuiet(one, "messages")
  BY InsertQuiet
<1>4. create_bot_message(s, app, c, id) = a \o b \o one \o e \o n \o z
  BY DEF create_bot_message
<1>5. "messages" \notin T
  OBVIOUS
<1> HIDE DEF T, a, b, one, e, n, z
<1>6. /\ AllQuiet(a, "messages") /\ AllQuiet(b, "messages") /\ AllQuiet(e, "messages")
      /\ AllQuiet(n, "messages") /\ AllQuiet(z, "messages")
  BY <1>1, <1>2, <1>5, SoundQuiet
<1> QED
  BY <1>3, <1>4, <1>6, QuietCat

LEMMA BotsInsertMessages ==
  ASSUME NEW r, r.args.op \in {"create_app_message", "deliver_incoming_webhook"}
  PROVE  JustIn(r, "messages")
<1> DEFINE c == r.args
           T == {"api_keys", "incoming_webhooks"}
<1>1. ASSUME NEW s PROVE AllQuiet(Statements(r, s), "messages")
  <2>1. CASE c.op = "create_app_message"
    <3> DEFINE app == AppOf(s, ApiKey(c.key))
               rest == create_bot_message(s, app, c, r.id)
               bot == get_bot_for_app(s, app)
               key == authenticate_api_key(s, c.key)
    <3>1. Sound(bot, T) /\ Sound(key, T) /\ AllQuiet(rest, "messages")
      BY ChecksSound, AppsSound, BotMessagesQuiet
    <3>2. Statements(r, s) = key \o bot \o rest
      BY <2>1 DEF Statements, ApiEndpoint, Handler, create_app_message_endpoint
    <3>3. "messages" \notin T
      OBVIOUS
    <3> HIDE DEF rest, bot, key, T
    <3>4. AllQuiet(bot, "messages") /\ AllQuiet(key, "messages")
      BY <3>1, <3>3, SoundQuiet
    <3> QED
      BY <3>1, <3>2, <3>4, QuietCat
  <2>2. CASE c.op = "deliver_incoming_webhook"
    <3> DEFINE k == IncomingWebhook(c.key)
               to == [room |-> RoomOf(s, k), attachments |-> {}, reply |-> NoMessage]
               rest == create_bot_message(s, AppOf(s, k), to, r.id)
               bot == << Select({Bot(AppOf(s, k))}) >>
               key == authenticate_incoming_webhook(s, c.key)
    <3>1. Sound(key, T) /\ AllQuiet(rest, "messages")
      BY AppsSound, BotMessagesQuiet
    <3>2. Sound(bot, T)
      BY Silent, Tuple1
    <3>3. Statements(r, s) = key \o bot \o rest
      BY <2>2 DEF Statements, ApiEndpoint, Handler, deliver_incoming_webhook_endpoint
    <3>4. "messages" \notin T
      OBVIOUS
    <3> HIDE DEF rest, bot, key, T
    <3>5. AllQuiet(bot, "messages") /\ AllQuiet(key, "messages")
      BY <3>1, <3>2, <3>4, SoundQuiet
    <3> QED
      BY <3>1, <3>3, <3>5, QuietCat
  <2> QED
    BY <2>1, <2>2
<1> QED
  BY <1>1, QuietJustifies

LEMMA InsertsQuiet ==
  ASSUME NEW t, NEW k, NEW row
  PROVE  AllQuiet(<< Insert(k, row), Commit >>, t)
<1> DEFINE x == Insert(k, row)
           y == Commit
<1>1. x.do # "update" /\ y.do # "update"
  BY Kinds
<1> HIDE DEF x, y
<1>2. IsBody(<< x, y >>) /\ Len(<< x, y >>) = 2 /\ << x, y >>[1] = x /\ << x, y >>[2] = y
  BY FoundIn DEF Found
<1>3. \A i \in 1..2 : Quiet(<< x, y >>[i], t)
  BY <1>1, <1>2 DEF Quiet
<1> QED
  BY <1>2, <1>3 DEF AllQuiet, x, y

LEMMA IntentsInsertAttachments ==
  ASSUME NEW r, r.args.op = "create_attachment"
  PROVE  JustIn(r, "attachments")
<1> DEFINE c == r.args
<1>1. ASSUME NEW s PROVE AllQuiet(Statements(r, s), "attachments")
  <2> DEFINE a == get_current_user(s, c)
             b == ensure_room_member(s, c.by, c.room)
             row == [uploader |-> c.by, room |-> c.room, message |-> NoMessage,
                     status |-> "pending_upload"]
             k == Attachment(r.id)
             z == << Insert(k, row), Commit >>
             T == {}
  <2>1. Statements(r, s) = a \o (b \o z)
    BY DEF Statements, ApiEndpoint, create_attachment_endpoint, Authenticated, Handler,
       create_attachment_intent
  <2>2. Sound(a, T) /\ Sound(b, T) /\ AllQuiet(z, "attachments")
    BY PartsSound, InsertsQuiet
  <2>3. "attachments" \notin T
    OBVIOUS
  <2> HIDE DEF a, b, z, T
  <2>4. AllQuiet(a, "attachments") /\ AllQuiet(b, "attachments")
    BY <2>2, <2>3, SoundQuiet
  <2> QED
    BY <2>1, <2>2, <2>4, QuietCat, SMTT(20)
<1> QED
  BY <1>1, QuietJustifies

-----------------------------------------------------------------------------
(* The confirmation of an upload, and read positions.                      *)

LEMMA ConfirmsGuarded ==
  ASSUME NEW r, r.args.op = "confirm_attachment"
  PROVE  JustIn(r, "attachments")
<1> DEFINE c == r.args
           k == Attachment(c.attachment)
           K == {k}
<1>1. ASSUME NEW s
      PROVE  /\ Found(Statements(r, s), 5,
                      Require(Has(s, k, "message", NoMessage), "AttachmentAlreadyAttached"))
             /\ Within(Statements(r, s), << Assign(s, k, [status |-> "uploaded"]) >>, 7, {})
  <2> DEFINE user == get_current_user(s, c)
             own == get_owned_room_attachment(s, c.by, c.room, c.attachment)
             a == Require(Has(s, k, "message", NoMessage), "AttachmentAlreadyAttached")
             b == Require(c.stored # "nothing", "AttachmentUploadNotFound")
             d == Require(c.stored = "same", "AttachmentUploadMismatch")
             st == Assign(s, k, [status |-> "uploaded"])
             z == Commit
             last == << a, b, d, st, z >>
             T == {}
  <2>1. Statements(r, s) = user \o (own \o last)
    BY Zenon DEF Statements, ApiEndpoint, confirm_attachment_endpoint, Authenticated, Handler,
       confirm_attachment_upload
  <2>2. Sound(user, T) /\ Len(user) = 2 /\ Sound(own, T) /\ Len(own) = 2
    <3>1. Len(own) = 2
      BY DEF get_owned_room_attachment
    <3> QED
      BY <3>1, PartsSound, ChecksSound
  <2>3. Safe(a, T) /\ Safe(b, T) /\ Safe(d, T) /\ Safe(z, T)
    <3>1. \A p, e : Safe(Require(p, e), T)
      BY Silent
    <3> QED
      BY <3>1, Silent
  <2> HIDE DEF user, own, a, b, d, st, z, T
  <2>4. IsBody(last) /\ Len(last) = 5 /\ last[1] = a /\ last[2] = b /\ last[3] = d
        /\ last[4] = st /\ last[5] = z
    BY DEF IsBody
  <2>5. IsBody(<< st >>) /\ Len(<< st >>) = 1 /\ << st >>[1] = st
    BY FoundIn
  <2> HIDE DEF last
  <2>6. Within(last, << st >>, 3, T)
    BY <2>3, <2>4, <2>5 DEF Within
  <2>7. 5 = Len(own) + 3 /\ 7 = Len(user) + 5
    BY <2>2
  <2>8. Within(own \o last, << st >>, 5, T)
    BY <2>2, <2>6, <2>7, WithinAfter
  <2>9. Within(user \o (own \o last), << st >>, 7, T)
    BY <2>2, <2>7, <2>8, WithinAfter
  <2>10. IsBody(user) /\ IsBody(own) /\ 3 = Len(own) + 1 /\ 5 = Len(user) + 3
    BY <2>2 DEF Sound
  <2>11. Found(last, 1, a)
    BY <2>4 DEF Found
  <2>12. Found(own \o last, 3, a)
    BY <2>10, <2>11, FoundAfter
  <2>13. Found(user \o (own \o last), 5, a)
    BY <2>10, <2>12, FoundAfter
  <2> QED
    BY <2>1, <2>9, <2>13 DEF a, st, T
<1>2. ASSUME NEW s, NEW i \in 1..Len(Statements(r, s)), NEW l, l[1] = "attachments",
             Alters(Statements(r, s)[i], l)
      PROVE  i = 8 /\ l \in K
  <2> DEFINE b == Statements(r, s)
             st == Assign(s, k, [status |-> "uploaded"])
             T == {}
  <2>1. Within(b, << st >>, 7, T) /\ 7 \in Nat /\ "attachments" \notin T
    BY <1>1
  <2>2. \A x : Alters(st, x) => x = k
    BY DEF Alters, Assign, Update, Pass, Statement, Writing
  <2>3. i \in 1..Len(b) /\ Alters(b[i], l)
    BY <1>2
  <2> HIDE DEF b, st, T
  <2>4. \A x : \A j \in 1..Len(b) : x[1] = "attachments" /\ Alters(b[j], x) => j = 7 + 1 /\ b[j] = st
    BY <2>1, SinglyWritten
  <2>5. i = 7 + 1 /\ b[i] = st
    BY <1>2, <2>3, <2>4
  <2> QED
    BY <2>2, <2>3, <2>5
<1>3. ASSUME NEW s
      PROVE  /\ Statements(r, s)[5].do \in Control
             /\ Statements(r, s)[5].do = "pass" =>
                  \A l \in K : Exists(s, l) /\ Good(Row(s, l), l)
  <2> DEFINE a == Require(Has(s, k, "message", NoMessage), "AttachmentAlreadyAttached")
  <2>1. Statements(r, s)[5] = a
    BY <1>1 DEF Found
  <2>2. a.do \in Control
    BY Kinds DEF Control
  <2>3. a.do = "pass" => Has(s, k, "message", NoMessage)
    BY DEF Require, Raise, Statement
  <2>4. Has(s, k, "message", NoMessage) => Exists(s, k) /\ Good(Row(s, k), k)
    BY DEF Has, Good, Attachment
  <2> HIDE DEF a
  <2> QED
    BY <2>1, <2>2, <2>3, <2>4
<1> HIDE DEF K
<1>4. Guards(r, "attachments", K, 5, 8)
  BY <1>2, <1>3 DEF Guards
<1> QED
  BY <1>4, GuardsJustify

JustRead(r) ==
  \A s : \A k : \A i \in 1..Len(Statements(r, s)) : LET st == Statements(r, s)[i] IN
    st.do = "update" /\ k \in st.keys /\ k[1] = "room_read_states" =>
      /\ \E j \in Nat \ {0} : j < i /\ Window(r, k, j, i)
      /\ Exists(s, k) => r.args.seq > Row(s, k).last_read

\* The five statements about the position, from the eighth on.
Forward(s, c) == c.seq > LastRead(s, c.room, c.by)
Reading(s, c) ==
  LET k == RoomReadState(c.room, c.by) IN
  << Select({k}), IF Exists(s, k) THEN Pass ELSE Insert(k, [last_read |-> 0]) >>
  \o << IF Forward(s, c) THEN Update(k, [last_read |-> c.seq]) ELSE Commit,
        IF Forward(s, c) THEN Pass ELSE Refresh(k),
        IF Forward(s, c) THEN Pass ELSE Return >>

LEMMA ReadingParts ==
  ASSUME NEW s, NEW c
  PROVE  LET k == RoomReadState(c.room, c.by)
             m == Reading(s, c)
         IN  /\ IsBody(m) /\ Len(m) = 5
             /\ m[1] = Select({k}) /\ m[2].do \in {"pass", "insert"}
             /\ Forward(s, c) => m[3] = Update(k, [last_read |-> c.seq])
             /\ ~Forward(s, c) => m[3].do = "commit"
             /\ m[4].do \in {"pass", "refresh"} /\ m[5].do \in {"pass", "return"}
<1> DEFINE k == RoomReadState(c.room, c.by)
           x == Select({k})
           d == IF Exists(s, k) THEN Pass ELSE Insert(k, [last_read |-> 0])
           e == IF Forward(s, c) THEN Update(k, [last_read |-> c.seq]) ELSE Commit
           f == IF Forward(s, c) THEN Pass ELSE Refresh(k)
           g == IF Forward(s, c) THEN Pass ELSE Return
           one == << x, d >>
           two == << e, f, g >>
           m == Reading(s, c)
<1>1. m = one \o two
  BY DEF Reading
<1>2. d.do \in {"pass", "insert"} /\ f.do \in {"pass", "refresh"} /\ g.do \in {"pass", "return"}
  BY Kinds
<1>3. /\ Forward(s, c) => e = Update(k, [last_read |-> c.seq])
      /\ ~Forward(s, c) => e.do = "commit"
  BY Kinds
<1> HIDE DEF x, d, e, f, g, m
<1>4. IsBody(one) /\ Len(one) = 2 /\ one[1] = x /\ one[2] = d
  BY DEF IsBody
<1>5. IsBody(two) /\ Len(two) = 3 /\ two[1] = e /\ two[2] = f /\ two[3] = g
  BY DEF IsBody
<1> HIDE DEF one, two
<1>6. /\ IsBody(one \o two) /\ Len(one \o two) = Len(one) + Len(two)
      /\ \A i \in 1..Len(one) : (one \o two)[i] = one[i]
      /\ \A i \in Len(one) + 1..Len(one) + Len(two) : (one \o two)[i] = two[i - Len(one)]
  <2>1. IsBody(one) /\ IsBody(two)
    BY <1>4, <1>5
  <2> QED
    BY <2>1, Joins
<1>7. /\ IsBody(m) /\ Len(m) = 5
      /\ \A i \in 1..2 : m[i] = one[i]
      /\ \A i \in 3..5 : m[i] = two[i - 2]
  BY <1>1, <1>4, <1>5, <1>6
<1>8. m[1] = x /\ m[2] = d /\ m[3] = e /\ m[4] = f /\ m[5] = g
  BY <1>4, <1>5, <1>7
<1> QED
  BY <1>2, <1>3, <1>7, <1>8 DEF x, m

LEMMA WithinPair ==
  ASSUME NEW a, NEW T, Sound(a, T), NEW x, NEW y, IsBody(x), IsBody(y), NEW n, n = Len(a)
  PROVE  Within(a \o x \o y, x \o y, n, T)
<1>1. /\ IsBody(a) /\ IsBody(x) /\ IsBody(y) /\ Len(a) \in Nat /\ Len(x) \in Nat
      /\ Len(y) \in Nat /\ n = Len(a)
  BY DEF Sound, IsBody
<1>2. /\ IsBody(a \o x) /\ Len(a \o x) = n + Len(x)
      /\ \A i \in 1..n : (a \o x)[i] = a[i]
      /\ \A i \in n + 1..n + Len(x) : (a \o x)[i] = x[i - n]
  BY <1>1, Joins
<1>3. /\ IsBody(x \o y) /\ Len(x \o y) = Len(x) + Len(y)
      /\ \A i \in 1..Len(x) : (x \o y)[i] = x[i]
      /\ \A i \in Len(x) + 1..Len(x) + Len(y) : (x \o y)[i] = y[i - Len(x)]
  BY <1>1, Joins
<1> DEFINE b == a \o x \o y
<1>4. /\ IsBody(b) /\ Len(b) = n + Len(x) + Len(y)
      /\ \A i \in 1..n + Len(x) : b[i] = (a \o x)[i]
      /\ \A i \in n + Len(x) + 1..n + Len(x) + Len(y) : b[i] = y[i - (n + Len(x))]
  <2> DEFINE p == a \o x
  <2>1. IsBody(p) /\ Len(p) = n + Len(x) /\ IsBody(y)
    BY <1>1, <1>2
  <2> HIDE DEF p
  <2>2. IsBody(p \o y) /\ Len(p \o y) = Len(p) + Len(y)
        /\ (\A i \in 1..Len(p) : (p \o y)[i] = p[i])
        /\ \A i \in Len(p) + 1..Len(p) + Len(y) : (p \o y)[i] = y[i - Len(p)]
    BY <2>1, Joins
  <2>3. IsBody(p \o y) /\ Len(p \o y) = n + Len(x) + Len(y)
        /\ (\A i \in 1..n + Len(x) : (p \o y)[i] = p[i])
        /\ \A i \in n + Len(x) + 1..n + Len(x) + Len(y) : (p \o y)[i] = y[i - (n + Len(x))]
    BY <2>1, <2>2
  <2> QED
    BY <2>3 DEF p
<1> HIDE DEF b
<1>5. ASSUME NEW i \in 1..Len(x) + Len(y) PROVE b[n + i] = (x \o y)[i]
  <2>1. CASE i <= Len(x)
    <3>1. n + i \in 1..n + Len(x) /\ n + i \in n + 1..n + Len(x) /\ i \in 1..Len(x)
          /\ (n + i) - n = i
      BY <1>1, <2>1
    <3> QED
      BY <1>2, <1>3, <1>4, <3>1
  <2>2. CASE i > Len(x)
    <3>1. n + i \in n + Len(x) + 1..n + Len(x) + Len(y) /\ i \in Len(x) + 1..Len(x) + Len(y)
          /\ (n + i) - (n + Len(x)) = i - Len(x)
      BY <1>1, <2>2
    <3> QED
      BY <1>3, <1>4, <3>1
  <2> QED
    BY <1>1, <2>1, <2>2
<1>6. ASSUME NEW i \in 1..Len(b), i <= n \/ i > n + (Len(x) + Len(y)) PROVE Safe(b[i], T)
  <2>1. i \in 1..n /\ i \in 1..n + Len(x)
    BY <1>1, <1>4, <1>6
  <2>2. b[i] = a[i]
    BY <1>2, <1>4, <2>1
  <2> QED
    BY <1>1, <2>1, <2>2 DEF Sound
<1>7. n \in Nat /\ n + (Len(x) + Len(y)) <= Len(b)
  BY <1>1, <1>4
<1> QED
  BY <1>3, <1>4, <1>5, <1>6, <1>7 DEF Within, b

LEMMA ReadPlaces ==
  ASSUME NEW r, r.args.op = "update_room_read_state", NEW s
  PROVE  Within(Statements(r, s), Reading(s, r.args), 7, {"events"})
<1> DEFINE c == r.args
           T == {"events"}
           user == get_current_user(s, c)
           ensure == ensure_room_member(s, c.by, c.room)
           look == << Select(Events(Home(c.room))),
                      Require(c.seq <= latest_room_event_seq(s, c.room), "ReadStateAheadOfRoom") >>
           k == RoomReadState(c.room, c.by)
           one == << Select({k}), IF Exists(s, k) THEN Pass ELSE Insert(k, [last_read |-> 0]) >>
           two == << IF Forward(s, c) THEN Update(k, [last_read |-> c.seq]) ELSE Commit,
                     IF Forward(s, c) THEN Pass ELSE Refresh(k),
                     IF Forward(s, c) THEN Pass ELSE Return >>
           event == create_message_event(s, NewEvent(c.room, "room.read_state_updated", k, c.seq))
           z == << Commit >>
           m == Reading(s, c)
           b == Statements(r, s)
<1>1. b = user \o (ensure \o look \o one \o two \o event \o z)
  BY Zenon DEF Statements, ApiEndpoint, update_room_read_state_endpoint, Authenticated, Handler,
     update_room_read_state, get_or_create_read_state, Forward
<1>2. m = one \o two
  BY DEF Reading
<1>3. Sound(user, T) /\ Sound(ensure, T) /\ Sound(z, T) /\ Len(user) = 2 /\ Len(ensure) = 3
  BY PartsSound
<1>4. Sound(event, T)
  BY EventSound
<1>5. Sound(look, T) /\ Len(look) = 2
  BY Silent, Tuple2
<1>6. IsBody(one) /\ IsBody(two)
  <2>1. Sound(one, {"room_read_states"}) /\ Sound(two, {"room_read_states"})
    BY Silent, Tuple2, Tuple3, RoomReadStateWrites
  <2> QED
    BY <2>1 DEF Sound
<1> HIDE DEF T, user, ensure, look, one, two, event, z, m, b
<1>7. Sound(ensure \o look, T) /\ 5 = Len(ensure \o look)
  <2>1. IsBody(ensure) /\ IsBody(look)
    BY <1>3, <1>5 DEF Sound
  <2>2. Len(ensure \o look) = Len(ensure) + Len(look)
    BY <2>1, LengthsAdd
  <2> QED
    BY <1>3, <1>5, <2>2, Cat
<1>8. Within(ensure \o look \o one \o two, one \o two, 5, T)
  <2> DEFINE p == ensure \o look
  <2>1. Sound(p, T) /\ 5 = Len(p)
    BY <1>7
  <2> HIDE DEF p
  <2>2. Within(p \o one \o two, one \o two, 5, T)
    BY <1>6, <2>1, WithinPair
  <2> QED
    BY <2>2 DEF p
<1>9. Within(ensure \o look \o one \o two \o event \o z, m, 5, T)
  BY <1>2, <1>3, <1>4, <1>8, WithinThen
<1>10. 7 = Len(user) + 5
  BY <1>3
<1>11. Within(user \o (ensure \o look \o one \o two \o event \o z), m, 7, T)
  BY <1>3, <1>9, <1>10, WithinAfter
<1> QED
  BY <1>1, <1>11 DEF b, m, T

LEMMA ReadsJustified ==
  ASSUME NEW r, r.args.op = "update_room_read_state"
  PROVE  JustRead(r)
<1> DEFINE c == r.args
           k == RoomReadState(c.room, c.by)
           T == {"events"}
<1>1. ASSUME NEW s
      PROVE  LET b == Statements(r, s) IN
             /\ \A l : \A i \in 1..Len(b) : l[1] = "room_read_states" /\ Alters(b[i], l) => i > 7
             /\ \A l : \A i \in 1..Len(b) : l[1] = "room_read_states" /\ l \in b[i].keys
                   /\ b[i].do = "update"
                     => /\ i = 10 /\ l = k /\ Forward(s, c)
             /\ b[8].do = "select" /\ k \in b[8].keys
             /\ b[9].do \notin {"commit", "select"}
  <2> DEFINE b == Statements(r, s)
             m == Reading(s, c)
  <2>1. Within(b, m, 7, T) /\ "room_read_states" \notin T
    BY ReadPlaces
  <2>2. /\ IsBody(m) /\ Len(m) = 5
        /\ m[1] = Select({k}) /\ m[2].do \in {"pass", "insert"}
        /\ Forward(s, c) => m[3] = Update(k, [last_read |-> c.seq])
        /\ ~Forward(s, c) => m[3].do = "commit"
        /\ m[4].do \in {"pass", "refresh"} /\ m[5].do \in {"pass", "return"}
    BY ReadingParts
  <2>3. Select({k}).do = "select" /\ k \in Select({k}).keys
        /\ \A row : Update(k, row).keys = {k}
    BY DEF Select, Update, Statement
  <2> HIDE DEF b, m, k, T
  <2>4. ASSUME NEW i \in 1..Len(b), NEW l, l[1] = "room_read_states", Alters(b[i], l)
        PROVE  i - 7 \in 1..5 /\ b[i] = m[i - 7] /\ i > 7
    <3>1. i - 7 \in 1..Len(m) /\ b[i] = m[i - 7]
      BY <2>1, <2>4, Outside
    <3>2. i \in Int
      OBVIOUS
    <3> QED
      BY <2>2, <3>1, <3>2
  <2>5. ASSUME NEW i \in 1..Len(b), NEW l, l[1] = "room_read_states", l \in b[i].keys,
               b[i].do = "update"
        PROVE  i = 10 /\ l = k /\ Forward(s, c)
    <3>1. Alters(b[i], l)
      BY <2>5 DEF Alters, Writing
    <3>2. i - 7 \in 1..5 /\ b[i] = m[i - 7] /\ i \in Int
      BY <2>4, <2>5, <3>1
    <3>3. \A j \in 1..5 : m[j].do = "update" => j = 3
      BY <2>2, <2>3
    <3>4. i - 7 = 3 /\ m[3].do = "update"
      BY <2>5, <3>2, <3>3
    <3>5. Forward(s, c) /\ m[3].keys = {k}
      BY <2>2, <2>3, <3>4
    <3> QED
      BY <2>5, <3>2, <3>4, <3>5
  <2>6. b[8] = m[1] /\ b[9] = m[2]
    <3>1. \A j \in 1..5 : b[7 + j] = m[j]
      BY <2>1, <2>2 DEF Within
    <3>2. 7 + 1 = 8 /\ 7 + 2 = 9 /\ 1 \in 1..5 /\ 2 \in 1..5
      OBVIOUS
    <3> QED
      BY <3>1, <3>2
  <2> QED
    BY <2>2, <2>3, <2>4, <2>5, <2>6 DEF b
<1> HIDE DEF k
<1> SUFFICES ASSUME NEW s, NEW i \in 1..Len(Statements(r, s)), NEW l,
                    Statements(r, s)[i].do = "update", l \in Statements(r, s)[i].keys,
                    l[1] = "room_read_states"
             PROVE  /\ 8 \in Nat \ {0} /\ 8 < i /\ Window(r, l, 8, i)
                    /\ Exists(s, l) => c.seq > Row(s, l).last_read
  BY DEF JustRead
<1>2. i = 10 /\ l = k /\ Forward(s, c)
  BY <1>1
<1>3. Late(r, l, 8)
  <2>1. \A x : \A j \in 1..Len(Statements(r, x)) : Alters(Statements(r, x)[j], l) => j > 7
    BY <1>1
  <2>2. \A x : \A j \in 1..Len(Statements(r, x)) : j < 8 => ~(j > 7)
    OBVIOUS
  <2> QED
    BY <2>1, <2>2 DEF Late
<1>4. Reads(r, l, 8)
  BY <1>1, <1>2 DEF Reads
<1>5. ASSUME NEW x, NEW j \in 1..Len(Statements(r, x)), 8 < j, j < 10
      PROVE  Statements(r, x)[j].do \notin {"commit", "select"}
  <2>1. j = 9
    BY <1>5
  <2> QED
    BY <1>1, <2>1
<1>6. Exists(s, l) => c.seq > Row(s, l).last_read
  BY <1>2 DEF Forward, LastRead, k
<1> QED
  BY <1>2, <1>3, <1>4, <1>5, <1>6 DEF Window, Rereads

-----------------------------------------------------------------------------
(* All endpoints.                                                          *)

LEMMA Justifications ==
  AllJustified
<1> SUFFICES ASSUME NEW r, r.args \in Calls PROVE Justified(r)
  BY DEF AllJustified
<1> DEFINE T == Tables(r.args.op)
<1>1. \A s : Sound(Statements(r, s), T)
  BY EndpointsKept DEF Kept, Statements
<1> HIDE DEF T
<1>2. ASSUME NEW t, t \notin T, NEW s, NEW i \in 1..Len(Statements(r, s)), NEW k,
             Statements(r, s)[i].do = "update", k \in Statements(r, s)[i].keys, k[1] = t
      PROVE  FALSE
  BY <1>1, <1>2 DEF Sound, Safe, Writing
<1>3. JustIn(r, "messages")
  <2>1. CASE "messages" \notin T
    BY <1>2, <2>1 DEF JustIn
  <2>2. CASE "messages" \in T
    <3>1. r.args.op \in {"create_message", "gateway_send", "update_message", "delete_message",
                         "create_app_message", "deliver_incoming_webhook"}
      BY <2>2 DEF T, Tables, WrittenBy
    <3>2. CASE r.args.op \in Sending
      BY <3>2, SendsInsertMessages
    <3>3. CASE r.args.op \in {"update_message", "delete_message"}
      <4> DEFINE K == {Message(r.args.message)}
      <4>1. Guards(r, "messages", K, 7, 9)
        BY <3>3, EditsGuarded
      <4> HIDE DEF K
      <4> QED
        BY <4>1, GuardsJustify
    <3>4. CASE r.args.op \in {"create_app_message", "deliver_incoming_webhook"}
      BY <3>4, BotsInsertMessages
    <3> QED
      BY <3>1, <3>2, <3>3, <3>4 DEF Sending
  <2> QED
    BY <2>1, <2>2
<1>4. JustIn(r, "attachments")
  <2>1. CASE "attachments" \notin T
    BY <1>2, <2>1 DEF JustIn
  <2>2. CASE "attachments" \in T
    <3>1. r.args.op \in {"create_message", "gateway_send", "create_attachment",
                         "confirm_attachment"}
      BY <2>2 DEF T, Tables, WrittenBy
    <3> QED
      BY <3>1, SendsGuarded, IntentsInsertAttachments, ConfirmsGuarded DEF Sending
  <2> QED
    BY <2>1, <2>2
<1>5. JustRead(r)
  <2>1. CASE "room_read_states" \notin T
    BY <1>2, <2>1 DEF JustRead
  <2>2. CASE "room_read_states" \in T
    <3>1. r.args.op = "update_room_read_state"
      BY <2>2 DEF T, Tables, WrittenBy
    <3> QED
      BY <3>1, ReadsJustified
  <2> QED
    BY <2>1, <2>2
<1> QED
  BY <1>3, <1>4, <1>5 DEF Justified, JustIn, JustRead

(***************************************************************************)
(* An attached file stays attached to its message, a read position never   *)
(* falls and nothing happens to a deleted message (get_visible_message,    *)
(* get_attachable_attachments, confirm_attachment_upload and               *)
(* update_room_read_state look before they write), except by a request     *)
(* that looked at the row before another one committed it.                 *)
(***************************************************************************)
THEOREM RowsGoForward ==
  ASSUME Routed PROVE Spec => RowsMoveForward
<1>1. ASSUME FInv, [Next]_vars, NEW q \in Requests, Commits(q), NEW k \in Keys,
             There(db, k), There(db', k), Backward(db[k], db'[k], k)
      PROVE  k \in overtaken[q]
  <2>1. k[1] \in Moving /\ k \in Rows
    BY <1>1 DEF Backward, Moving, Rows, Schema
  <2>2. WInv /\ RInv /\ Open(q) /\ Onward(q, k) /\ ProperDb
    BY <1>1, <2>1 DEF FInv, TInv, DInv, SInv, KInv, RInv, Commits, Doing
  <2>3. db'[k] = Visible(q, k) /\ (k \notin DOMAIN writes[q] => db'[k] = db[k])
    BY <1>1, <2>1, <2>2, CommittedRow
  <2>4. ~Backward(db[k], db[k], k)
    BY <1>1, <2>2 DEF Backward, ProperDb, Proper, There
  <2> QED
    BY <1>1, <2>2, <2>3, <2>4 DEF Onward, Visible, There
<1>2. FInv /\ [Next]_vars
        => [\A q \in Requests : Commits(q) =>
              \A k \in Keys : There(db, k) /\ There(db', k) /\ Backward(db[k], db'[k], k)
                => k \in overtaken[q]]_vars
  BY <1>1
<1> QED
  BY <1>2, OnwardHold, Justifications, PTL DEF Spec, RowsMoveForward

-----------------------------------------------------------------------------
(* What create_message does about notifications.                           *)

Uncommitted(b) == IsBody(b) /\ \A i \in 1..Len(b) : b[i].do # "commit"

LEMMA UncommittedCat ==
  ASSUME NEW a, NEW b, Uncommitted(a), Uncommitted(b)
  PROVE  Uncommitted(a \o b)
<1>1. IsBody(a) /\ IsBody(b) /\ Len(a) \in Nat /\ Len(b) \in Nat
  BY DEF Uncommitted, IsBody
<1>2. ASSUME NEW i \in 1..Len(a) + Len(b) PROVE (a \o b)[i].do # "commit"
  <2>1. CASE i <= Len(a)
    BY <1>1, <2>1, Joins DEF Uncommitted
  <2>2. CASE i > Len(a)
    <3>1. i - Len(a) \in 1..Len(b)
      BY <1>1, <2>2
    <3> QED
      BY <1>1, <2>2, <3>1, Joins DEF Uncommitted
  <2> QED
    BY <1>1, <2>1, <2>2
<1> QED
  BY <1>1, <1>2, Joins DEF Uncommitted

LEMMA UncommittedTuples ==
  /\ \A a : a.do # "commit" => Uncommitted(<< a >>)
  /\ \A a, b : a.do # "commit" /\ b.do # "commit" => Uncommitted(<< a, b >>)
  /\ Uncommitted(<< >>)
BY DEF Uncommitted, IsBody

LEMMA UncommittedParts ==
  ASSUME NEW s, NEW c
  PROVE  /\ Uncommitted(get_current_user(s, c)) /\ Uncommitted(Opening(s, c))
         /\ \A id : /\ Uncommitted(<< TheMessage(c, id) >>)
                    /\ Uncommitted(<< TheAttachments(c, id) >>)
                    /\ Uncommitted(create_message_notifications(s, c.room, id, c.by))
         /\ \A x, t, k, v : Uncommitted(create_message_event(s, NewEvent(x, t, k, v)))
<1>1. \A p, e : Require(p, e).do # "commit"
  BY Kinds
<1>2. \A K : Select(K).do # "commit"
  BY Kinds
<1>3. Uncommitted(get_current_user(s, c))
  <2>1. \E K, x : get_current_user(s, c) = << Select(K), x >> /\ x.do # "commit"
    BY <1>1 DEF get_current_user
  <2> QED
    BY <1>2, <2>1, UncommittedTuples
<1>4. ASSUME NEW u, NEW x PROVE Uncommitted(ensure_room_member(s, u, x))
  <2> DEFINE a == get_room_for_user(s, u, x)
             st == Require(Exists(s, RoomMember(x, u)), "RoomMembershipRequired")
  <2>1. \E K, y : a = << Select(K), y >> /\ y.do # "commit"
    BY <1>1 DEF get_room_for_user
  <2>2. ensure_room_member(s, u, x) = a \o << st >> /\ st.do # "commit"
    BY <1>1 DEF ensure_room_member
  <2> HIDE DEF a, st
  <2> QED
    BY <1>2, <2>1, <2>2, UncommittedTuples, UncommittedCat
<1>5. ASSUME NEW u, NEW x, NEW X PROVE Uncommitted(get_attachable_attachments(s, u, x, X))
  <2>1. \/ get_attachable_attachments(s, u, x, X) = << >>
        \/ \E K, y : get_attachable_attachments(s, u, x, X) = << Select(K), y >> /\ y.do # "commit"
    BY <1>1 DEF get_attachable_attachments
  <2> QED
    BY <1>2, <2>1, UncommittedTuples
<1>6. ASSUME NEW x, NEW m PROVE Uncommitted(get_reply_target(s, x, m))
  <2>1. \E K, y : get_visible_message(s, x, m) = << Select(K), y >> /\ y.do # "commit"
    BY <1>1 DEF get_visible_message
  <2>2. \/ get_reply_target(s, x, m) = << >>
        \/ get_reply_target(s, x, m) = get_visible_message(s, x, m)
    BY DEF get_reply_target
  <2> QED
    BY <1>2, <2>1, <2>2, UncommittedTuples
<1>7. Uncommitted(Opening(s, c))
  BY <1>4, <1>5, <1>6, UncommittedCat DEF Opening
<1>8. ASSUME NEW id
      PROVE  /\ TheMessage(c, id).do # "commit" /\ TheAttachments(c, id).do # "commit"
             /\ Uncommitted(create_message_notifications(s, c.room, id, c.by))
  <2>1. TheMessage(c, id).do # "commit" /\ TheAttachments(c, id).do # "commit"
    BY Kinds DEF TheMessage, TheAttachments, UpdateAll, Statement
  <2>2. \E K, y : create_message_notifications(s, c.room, id, c.by) = << Select(K), y >>
                  /\ y.do # "commit"
    <3> DEFINE K == {RoomMember(c.room, v) : v \in Users}
               N == {v \in Users \ {c.by} : Exists(s, RoomMember(c.room, v))}
               y == IF N = {} THEN Pass
                    ELSE InsertAll({Notification(v, id) : v \in N}, [read |-> FALSE])
    <3>1. create_message_notifications(s, c.room, id, c.by) = << Select(K), y >>
      BY DEF create_message_notifications
    <3>2. y.do # "commit"
      BY Kinds DEF InsertAll, Statement
    <3> HIDE DEF K, y
    <3> QED
      BY <3>1, <3>2
  <2> QED
    BY <1>2, <2>1, <2>2, UncommittedTuples
<1>9. ASSUME NEW x, NEW t, NEW k, NEW v
      PROVE  Uncommitted(create_message_event(s, NewEvent(x, t, k, v)))
  <2>1. \E K, y : create_message_event(s, NewEvent(x, t, k, v)) = << Select(K), y >>
                  /\ y.do # "commit"
    BY Kinds DEF create_message_event
  <2> QED
    BY <1>2, <2>1, UncommittedTuples
<1> QED
  BY <1>3, <1>7, <1>8, <1>9, UncommittedTuples

LEMMA SendCommits ==
  ASSUME NEW r, r.args.op \in Sending, NEW s, NEW i \in 1..Len(Statements(r, s)),
         Statements(r, s)[i].do = "commit"
  PROVE  i = Front(r.args) + 7
<1> DEFINE c == r.args
           b == SendBody(s, c, r.id)
           user == get_current_user(s, c)
           p == Opening(s, c) \o << TheMessage(c, r.id) >> \o << TheAttachments(c, r.id) >>
                \o create_message_event(s, NewEvent(c.room, "message.created", Message(r.id), r.id))
                \o create_message_notifications(s, c.room, r.id, c.by)
           z == << Commit >>
           n == Front(c) + 7
<1>1. b = user \o (p \o z) /\ Statements(r, s) = b
  BY SendStatements DEF SendBody
<1>2. Uncommitted(user) /\ Uncommitted(p)
  BY UncommittedParts, UncommittedCat
<1>3. IsBody(z) /\ Len(z) = 1 /\ Len(b) = n /\ n \in Nat
  <2>1. Len(b) = n /\ Front(c) \in Nat
    BY SendPlaces
  <2>2. IsBody(z) /\ Len(z) = 1
    BY FoundIn
  <2> HIDE DEF b, z
  <2> QED
    BY <2>1, <2>2
<1> HIDE DEF b, user, p, z, n
<1>4. /\ IsBody(user) /\ IsBody(p) /\ Len(user) \in Nat /\ Len(p) \in Nat
  BY <1>2 DEF Uncommitted, IsBody
<1>5. /\ IsBody(p \o z) /\ Len(p \o z) = Len(p) + Len(z)
      /\ \A j \in 1..Len(p) : (p \o z)[j] = p[j]
  BY <1>3, <1>4, Joins
<1>6. /\ Len(b) = Len(user) + (Len(p) + 1)
      /\ \A j \in 1..Len(user) : b[j] = user[j]
      /\ \A j \in Len(user) + 1..Len(user) + (Len(p) + 1) : b[j] = (p \o z)[j - Len(user)]
  <2> DEFINE x == p \o z
  <2>1. IsBody(x) /\ Len(x) = Len(p) + 1 /\ b = user \o x
    BY <1>1, <1>3, <1>5
  <2> HIDE DEF x
  <2>2. /\ Len(user \o x) = Len(user) + Len(x)
        /\ \A j \in 1..Len(user) : (user \o x)[j] = user[j]
        /\ \A j \in Len(user) + 1..Len(user) + Len(x) : (user \o x)[j] = x[j - Len(user)]
    BY <1>4, <2>1, Joins
  <2>3. /\ Len(b) = Len(user) + (Len(p) + 1)
        /\ \A j \in 1..Len(user) : b[j] = user[j]
        /\ \A j \in Len(user) + 1..Len(user) + (Len(p) + 1) : b[j] = x[j - Len(user)]
    BY <2>1, <2>2
  <2> QED
    BY <2>3 DEF x
<1>7. ~(i <= Len(user))
  BY <1>1, <1>2, <1>4, <1>6 DEF Uncommitted
<1>8. ~(i > Len(user) /\ i <= Len(user) + Len(p))
  <2> SUFFICES ASSUME i > Len(user), i <= Len(user) + Len(p) PROVE FALSE
    OBVIOUS
  <2>1. i - Len(user) \in 1..Len(p) /\ i \in Len(user) + 1..Len(user) + (Len(p) + 1)
    BY <1>4
  <2>2. b[i] = p[i - Len(user)]
    BY <1>5, <1>6, <2>1
  <2> QED
    BY <1>1, <1>2, <2>1, <2>2 DEF Uncommitted
<1>9. i \in 1..n /\ n = Len(user) + (Len(p) + 1)
  BY <1>1, <1>3, <1>6
<1>10. i = n
  BY <1>4, <1>7, <1>8, <1>9
<1> QED
  BY <1>10 DEF n

\* The rows of those notified, and the statement that writes them.
Notified(s, c) == {v \in Users \ {c.by} : Exists(s, RoomMember(c.room, v))}
Notices(s, c, id) ==
  IF Notified(s, c) = {} THEN Pass
  ELSE InsertAll({Notification(v, id) : v \in Notified(s, c)}, [read |-> FALSE])

LEMMA SendNotices ==
  ASSUME NEW r, r.args.op \in Sending, NEW s
  PROVE  LET c == r.args
             b == Statements(r, s)
             n == Front(c)
         IN  /\ n \in Nat /\ Len(b) = n + 7
             /\ b[n + 5] = Select({RoomMember(c.room, v) : v \in Users})
             /\ b[n + 6] = Notices(s, c, r.id)
             /\ \A k : \A i \in 1..Len(b) : k[1] = "notifications" /\ Alters(b[i], k) => i = n + 6
             /\ \A k : \A i \in 1..Len(b) : k[1] = "room_members" => ~Alters(b[i], k)
<1> DEFINE c == r.args
           b == Statements(r, s)
           n == Front(c)
           m == create_message_notifications(s, c.room, r.id, c.by)
           x == Select({RoomMember(c.room, v) : v \in Users})
           y == Notices(s, c, r.id)
           T == {"messages", "attachments", "events"}
           l == n + 4
<1>1. n \in Nat /\ Len(b) = n + 7 /\ Within(b, m, l, T)
  BY SendPlaces, SendStatements
<1>2. m = << x, y >>
  BY DEF create_message_notifications, Notices, Notified
<1>3. x.do = "select"
  BY Kinds
<1>4. ASSUME NEW i \in 1..Len(b), NEW k, k[1] = "room_members", Alters(b[i], k) PROVE FALSE
  <2>1. Within(b, m, l, T \cup {"notifications"}) /\ Sound(m, {"notifications"})
    <3> DEFINE U == {"notifications"}
    <3>1. Sound(m, U)
      <4>1. "notifications" \in U
        OBVIOUS
      <4> HIDE DEF U
      <4> QED
        BY <4>1, EnsuresSound
    <3> QED
      BY <1>1, <3>1 DEF Within, Safe
  <2>2. b[i] = m[i - l] /\ i - l \in 1..Len(m)
    <3>1. "room_members" \notin T
      OBVIOUS
    <3> HIDE DEF b, m, T, l
    <3> QED
      BY <1>1, <1>4, <3>1, Outside
  <2> HIDE DEF b, m
  <2> QED
    BY <1>4, <2>1, <2>2 DEF Sound, Safe, Alters
<1>5. "notifications" \notin T /\ l \in Nat /\ l + 1 = n + 5 /\ l + 2 = n + 6
  BY <1>1
<1> HIDE DEF b, n, m, x, y, T, l
<1>6. Len(m) = 2 /\ m[1] = x /\ m[2] = y
  BY <1>2
<1>7. b[l + 1] = x /\ b[l + 2] = y
  BY <1>1, <1>6 DEF Within
<1>8. ASSUME NEW i \in 1..Len(b), NEW k, k[1] = "notifications", Alters(b[i], k)
      PROVE  i = n + 6
  <2>1. b[i] = m[i - l] /\ i - l \in 1..2 /\ i \in Int
    BY <1>1, <1>5, <1>6, <1>8, Outside
  <2>2. i - l # 1
    BY <1>3, <1>6, <1>8, <2>1 DEF Alters, Writing
  <2> QED
    BY <1>5, <2>1, <2>2
<1> QED
  BY <1>1, <1>4, <1>5, <1>7, <1>8 DEF b, n, x, y

LEMMA NoticesAre ==
  ASSUME NEW s, NEW c, NEW id
  PROVE  LET st == Notices(s, c, id) IN
         /\ st.do = IF Notified(s, c) = {} THEN "pass" ELSE "insert"
         /\ st.do = "insert" => st.keys = {Notification(v, id) : v \in Notified(s, c)}
BY DEF Notices, InsertAll, Pass, Statement

-----------------------------------------------------------------------------
(* The numbers of calls are their own, and so are the notifications.       *)

Notice(k) == k[1] = "notifications"
Unsent(q) ==
  Op(q) \in Sending => \A k \in Rows : Notice(k) /\ k[3] = call[q].id => db[k] = Absent
OwnNotices(q) ==
  \A k \in Rows \cap DOMAIN writes[q] :
    Notice(k) => k[3] = call[q].id \/ db[k] # Absent
Noted(q) ==
  LET c == call[q].args IN
  Op(q) \in Sending /\ pc[q] = Front(c) + 7 =>
    \A u \in Users : Notification(u, call[q].id) \in DOMAIN writes[q] <=> u \in Notified(seen[q], c)
Numbers ==
  /\ \A q \in Requests : Open(q) => call[q].id <= made
  /\ \A p, q \in Requests : p # q /\ Open(p) /\ Open(q) => call[p].id # call[q].id
  /\ \A k \in Rows : Notice(k) /\ db[k] # Absent => k[3] \in Nat /\ k[3] <= made
UInv ==
  /\ TInv /\ Numbers
  /\ \A q \in Requests : Open(q) => Unsent(q) /\ OwnNotices(q) /\ Noted(q)

LEMMA OpensAlone ==
  ASSUME WInv, [Next]_vars, NEW q \in Requests, ~Open(q), Open(q)'
  PROVE  /\ made' = made + 1 /\ db' = db
         /\ \A p \in Requests \ {q} : Open(p)' => Open(p) /\ call'[p] = call[p]
<1>1. ASSUME NEW p \in Requests, Run(p) PROVE p = q \/ pc'[q] = pc[q]
  <2>1. OthersSame(p)
    BY <1>1, ContinueSteps, FailSteps DEF Run, Read, Tally, Reload, Add, Change, Drop,
       CommitTransaction, Cancel, GoOn, Outcome, WInv
  <2> QED
    BY <2>1 DEF OthersSame
<1>2. ASSUME NEW p \in Requests, Run(p) PROVE Open(p)
  BY <1>2 DEF Run, Read, Tally, Reload, Add, Change, Drop, CommitTransaction, Cancel, Doing,
     Deadlocked, WaitsFor
<1>3. ASSUME NEW p \in Requests, NEW c \in family, Begin(p, c)
      PROVE  OthersSame(p) /\ made' = made + 1 /\ db' = db
  BY <1>3, ContinueSteps DEF Begin, Outcome, WInv
<1>4. \E c \in family : Begin(q, c)
  <2>1. CASE UNCHANGED vars
    BY <2>1 DEF vars, Open
  <2>2. ASSUME NEW p \in Requests, Run(p) PROVE FALSE
    BY <1>1, <1>2, <2>2 DEF Open
  <2>3. ASSUME NEW p \in Requests, NEW c \in family, Begin(p, c) PROVE p = q
    BY <1>3, <2>3 DEF OthersSame, Open
  <2> QED
    BY <2>1, <2>2, <2>3 DEF Next
<1> QED
  BY <1>3, <1>4 DEF OthersSame, Open

LEMMA MadeGrows ==
  ASSUME WInv, [Next]_vars
  PROVE  made \in Nat /\ made <= MaxCalls /\ made' \in Nat /\ made' >= made
<1>1. made \in Nat /\ made <= MaxCalls
  BY ScenariosAssumption DEF WInv, IInv, TypeOK
<1>2. made' = made \/ made' = made + 1
  BY DEF Next, Run, Read, Tally, Reload, Add, Change, Drop, CommitTransaction, Cancel, Begin, vars
<1> QED
  BY <1>1, <1>2

LEMMA NoticesStay ==
  ASSUME DInv, [Next]_vars, NEW k \in Rows, Notice(k), db[k] # Absent
  PROVE  db'[k] # Absent
<1>1. ASSUME NEW p \in Requests, CommitTransaction(p) PROVE db'[k] # Absent
  <2>1. Mine(p) /\ k \in Keys /\ k[1] \in Durable
    BY <1>1 DEF DInv, CommitTransaction, Doing, Rows, Notice, Durable
  <2> QED
    BY <1>1, <2>1 DEF CommitTransaction, Mine
<1> QED
  BY <1>1, DbChange

LEMMA OwnNoticesKept ==
  ASSUME Routed, UInv, [Next]_vars, NEW q \in Requests, Goes(q), Effect(q)
  PROVE  OwnNotices(q)'
<1>1. Open(q) /\ call'[q] = call[q] /\ OwnNotices(q) /\ DInv /\ RInv
  BY DEF Goes, UInv, TInv, DInv, SInv, KInv
<1> SUFFICES ASSUME NEW k \in Rows, k \in DOMAIN writes'[q], Notice(k)
             PROVE  k[3] = call[q].id \/ db'[k] # Absent
  BY <1>1 DEF OwnNotices, Rows
<1>2. CASE ~Alters(current[q], k)
  <2>1. k \in DOMAIN writes[q]
    BY <1>1, <1>2, EffectVisible
  <2> QED
    BY <1>1, <2>1, NoticesStay DEF OwnNotices
<1>3. CASE Alters(current[q], k)
  <2>1. Neat(current[q], call[q]) /\ k[1] \in Durable /\ k \in current[q].keys
        /\ current[q].do \in Writing
    BY <1>1, <1>3, NeatNow DEF Notice, Durable, Alters
  <2>2. CASE current[q].do = "insert"
    BY <2>1, <2>2 DEF Neat, Notice
  <2>3. CASE current[q].do = "update"
    <3>1. Changed(q)
      BY <2>3 DEF Effect, Looked, Tallied, Reloaded, Added, Dropped, Committed
    <3>2. Visible(q, k) # Absent
      BY <2>1, <3>1 DEF Changed
    <3>3. k[3] = call[q].id \/ db[k] # Absent
      BY <1>1, <3>2 DEF Visible, OwnNotices
    <3> QED
      BY <1>1, <3>3, NoticesStay
  <2> QED
    BY <2>1, <2>2, <2>3 DEF Neat
<1> QED
  BY <1>2, <1>3

LEMMA UnsentKept ==
  ASSUME Routed, UInv, [Next]_vars, NEW q \in Requests, Open(q), call'[q] = call[q],
         Goes(q) \/ Aside(q)
  PROVE  Unsent(q)'
<1>1. Unsent(q) /\ DInv /\ RInv /\ Numbers
  BY DEF UInv, TInv, DInv, SInv, KInv
<1> SUFFICES ASSUME Op(q) \in Sending, NEW k \in Rows, Notice(k), k[3] = call[q].id,
                    db'[k] # Absent
             PROVE  FALSE
  BY DEF Unsent, Op, Rows
<1>2. db[k] = Absent /\ k \in Keys
  BY <1>1 DEF Unsent, Rows
<1>3. PICK p \in Requests : CommitTransaction(p)
  BY <1>2, DbChange
<1>4. k \in DOMAIN writes[p] /\ Open(p) /\ OwnNotices(p)
  BY <1>2, <1>3 DEF CommitTransaction, Doing, UInv
<1>5. p = q
  BY <1>1, <1>2, <1>4 DEF OwnNotices, Numbers
<1>6. pc[q] = Front(call[q].args) + 7
  BY <1>1, <1>3, <1>5, CurrentIs, SendCommits DEF CommitTransaction, Doing, Op
<1>7. Goes(q)
  <2>1. Open(q)' /\ Run(q) /\ Runnable /\ WInv
    <3>1. pc[q] \in Nat /\ pc[q] # 0
      BY <1>1, Current DEF RInv
    <3>2. pc'[q] # 0
      BY <3>1 DEF Goes, Aside
    <3> QED
      BY <1>1, <1>3, <1>5, <3>2, RoutedRuns DEF RInv, Run, Open
  <2> QED
    BY <2>1, RunEffect
<1>8. Len(Statements(call[q], seen'[q])) = Front(call[q].args) + 7 /\ Front(call[q].args) \in Nat
  BY SendNotices DEF Op
<1> QED
  BY <1>6, <1>7, <1>8 DEF Goes, Body, Statements, Routed

LEMMA NotedKept ==
  ASSUME Routed, UInv, [Next]_vars, NEW q \in Requests, Goes(q), Effect(q)
  PROVE  Noted(q)'
<1> DEFINE r == call[q]
           c == r.args
           n == Front(c)
<1>1. /\ Open(q) /\ call'[q] = r /\ RInv /\ SInv /\ c \in Calls
      /\ pc[q] \in Nat /\ pc'[q] \in Nat /\ pc'[q] > pc[q]
      /\ current[q] = Statements(r, seen[q])[pc[q]]
      /\ pc[q] \in 1..Len(Statements(r, seen[q]))
  BY CurrentIs, NeatNow DEF Goes, UInv, TInv, DInv, SInv, KInv
<1> SUFFICES ASSUME c.op \in Sending, pc'[q] = n + 7, NEW u \in Users
             PROVE  Notification(u, r.id) \in DOMAIN writes'[q] <=> u \in Notified(seen'[q], c)
  BY <1>1 DEF Noted, Op
<1> DEFINE k == Notification(u, r.id)
<1>2. /\ n \in Nat /\ k \in Rows /\ Notice(k) /\ k[1] = "notifications"
  <2>1. r.id \in 1..MaxCalls
    <3>1. call[q].id \in Nat \ {0} /\ call[q].id <= made /\ WInv
      BY <1>1 DEF UInv, TInv, DInv, SInv, KInv, RInv, Numbers, Numbered
    <3>2. made \in Nat /\ made <= MaxCalls /\ MaxCalls \in Nat
      BY <3>1, MadeGrows, ScenariosAssumption
    <3> QED
      BY <3>1, <3>2
  <2>2. k \in Keys
    BY <1>1, <2>1, CallsAssumption DEF Calls, Sending
  <2> QED
    BY <2>2, SendNotices DEF Notification, Notice, Rows, Schema
<1>3. \A s : /\ Statements(r, s)[n + 5] = Select({RoomMember(c.room, v) : v \in Users})
             /\ Statements(r, s)[n + 6] = Notices(s, c, r.id)
             /\ \A i \in 1..Len(Statements(r, s)) : Alters(Statements(r, s)[i], k) => i = n + 6
  BY <1>2, SendNotices
<1>4. Late(r, k, n + 6)
  <2>1. \A s : \A i \in 1..Len(Statements(r, s)) : i < n + 6 => i # n + 6
    BY <1>2
  <2> QED
    BY <1>3, <2>1 DEF Late
<1>5. \A i \in Nat : pc[q] < i /\ i < n + 7 => Statements(r, seen'[q])[i].do = "pass"
  BY <1>1, <1>2 DEF Goes, Body, Statements, Routed
<1>6. pc[q] < n + 7 /\ ~(pc[q] < n + 5)
  <2>1. Statements(r, seen'[q])[n + 5].do # "pass"
    BY <1>3, Kinds
  <2> QED
    BY <1>1, <1>2, <1>5, <2>1
<1>7. k \notin DOMAIN writes[q]
  <2>1. n + 6 \in Nat /\ pc[q] <= n + 6
    BY <1>1, <1>2, <1>6
  <2> QED
    BY <1>1, <1>2, <1>4, <2>1, LateNotWritten
<1>8. CASE pc[q] = n + 5
  <2>1. current[q].do = "select"
    <3>1. current[q] = Select({RoomMember(c.room, v) : v \in Users})
      BY <1>1, <1>3, <1>8
    <3>2. \A K : Select(K).do = "select"
      BY Kinds
    <3> QED
      BY <3>1, <3>2
  <2>2. writes'[q] = writes[q]
    BY <2>1 DEF Effect, Looked, Tallied, Reloaded, Added, Changed, Dropped, Committed
  <2>3. Notices(seen'[q], c, r.id).do = "pass"
    BY <1>2, <1>3, <1>5, <1>8
  <2>4. Notified(seen'[q], c) = {}
    BY <2>3, NoticesAre
  <2> QED
    BY <1>7, <2>2, <2>4
<1>9. CASE pc[q] = n + 6
  <2>1. current[q] = Notices(seen[q], c, r.id)
    BY <1>1, <1>3, <1>9
  <2>2. current[q].do = "insert"
    <3>1. current[q].do # "pass"
      BY <1>1 DEF RInv, WInv, Placed, Control
    <3> QED
      BY <2>1, <3>1, NoticesAre
  <2>3. Added(q)
    BY <2>2 DEF Effect, Looked, Tallied, Reloaded, Changed, Dropped, Committed
  <2>4. seen'[q] = seen[q] /\ DOMAIN writes'[q] = current[q].keys \cup DOMAIN writes[q]
    BY <2>3 DEF Added, Over
  <2>5. current[q].keys = {Notification(v, r.id) : v \in Notified(seen[q], c)}
    BY <2>1, <2>2, NoticesAre
  <2>6. k \in current[q].keys <=> u \in Notified(seen[q], c)
    BY <2>5 DEF Notification
  <2> QED
    BY <1>7, <2>4, <2>6
<1>10. pc[q] = n + 5 \/ pc[q] = n + 6
  BY <1>1, <1>2, <1>6
<1> QED
  BY <1>8, <1>9, <1>10


LEMMA NumbersKept ==
  ASSUME Routed, UInv, [Next]_vars
  PROVE  Numbers'
<1>1. WInv /\ Runnable /\ Numbers /\ made \in Nat /\ made' \in Nat /\ made' >= made
  BY RoutedRuns, MadeGrows DEF UInv, TInv, DInv, SInv, KInv, RInv
<1>2. \A q \in Requests : Open(q) => call[q].id \in Nat /\ call[q].id <= made
  BY DEF UInv, TInv, DInv, Numbered, Numbers
<1>3. ASSUME NEW q \in Requests, Open(q)'
      PROVE  \/ Open(q) /\ call'[q] = call[q]
             \/ ~Open(q) /\ call'[q].id = made + 1
  BY <1>1, <1>3, StepCases DEF Aside, Arrives, Goes
<1>4. ASSUME NEW q \in Requests, Open(q)' PROVE call'[q].id <= made'
  <2>1. CASE Open(q) /\ call'[q] = call[q]
    BY <1>1, <1>2, <2>1
  <2>2. CASE ~Open(q) /\ call'[q].id = made + 1
    BY <1>1, <1>4, <2>2, OpensAlone
  <2> QED
    BY <1>3, <1>4, <2>1, <2>2
<1>5. ASSUME NEW p \in Requests, NEW q \in Requests, p # q, Open(p)', Open(q)', ~Open(q)
      PROVE  call'[p].id # call'[q].id
  <2>1. Open(p) /\ call'[p] = call[p]
    BY <1>1, <1>5, OpensAlone
  <2>2. call'[q].id = made + 1
    BY <1>3, <1>5
  <2> QED
    BY <1>1, <1>2, <2>1, <2>2
<1>6. ASSUME NEW p \in Requests, NEW q \in Requests, p # q, Open(p)', Open(q)'
      PROVE  call'[p].id # call'[q].id
  <2>1. CASE Open(p) /\ Open(q)
    <3>1. call'[p] = call[p] /\ call'[q] = call[q]
      BY <1>3, <1>6, <2>1
    <3> QED
      BY <1>1, <1>6, <2>1, <3>1 DEF Numbers
  <2> QED
    BY <1>5, <1>6, <2>1
<1>7. ASSUME NEW k \in Rows, Notice(k), db'[k] # Absent
      PROVE  k[3] \in Nat /\ k[3] <= made'
  <2>1. CASE db[k] # Absent
    BY <1>1, <1>7, <2>1 DEF Numbers
  <2>2. CASE db[k] = Absent
    <3>1. PICK p \in Requests : CommitTransaction(p)
      BY <1>7, <2>2, DbChange
    <3>2. k \in DOMAIN writes[p] /\ Open(p) /\ OwnNotices(p)
      BY <1>7, <2>2, <3>1 DEF CommitTransaction, Doing, UInv, Rows
    <3>3. k[3] = call[p].id
      BY <1>7, <2>2, <3>2 DEF OwnNotices
    <3> QED
      BY <1>1, <1>2, <3>2, <3>3
  <2> QED
    BY <2>1, <2>2
<1>8. Rows' = Rows /\ \A k : Notice(k)' = Notice(k)
  BY DEF Rows, Notice
<1> QED
  BY <1>4, <1>6, <1>7, <1>8 DEF Numbers, Open

LEMMA NoticesHold ==
  ASSUME Routed
  PROVE  /\ Init => UInv
         /\ UInv /\ [Next]_vars => UInv'
<1>1. ASSUME Init PROVE UInv
  <2>1. TInv /\ \A q \in Requests : ~Open(q)
    BY <1>1, TestsHold DEF Init, Open
  <2>2. ASSUME NEW k \in Rows, Notice(k), db[k] # Absent PROVE k[3] \in Nat /\ k[3] <= made
    <3>1. PICK x \in Scenarios : db = x.db /\ made = x.made
      BY <1>1 DEF Init
    <3>2. k[3] \in 1..x.made /\ x.made \in Nat
      BY <2>2, <3>1, RowsAssumption, ScenariosAssumption DEF Rows, Notice
    <3> QED
      BY <3>1, <3>2
  <2> QED
    BY <2>1, <2>2 DEF UInv, Numbers
<1>2. ASSUME UInv, [Next]_vars PROVE UInv'
  <2>1. Runnable /\ WInv /\ DInv /\ TInv' /\ Numbers'
    BY <1>2, RoutedRuns, TestsHold, NumbersKept DEF UInv, TInv, DInv, SInv, KInv, RInv
  <2>2. ASSUME NEW q \in Requests, Open(q)' PROVE (Unsent(q) /\ OwnNotices(q) /\ Noted(q))'
    <3>1. CASE Aside(q)
      <4>1. Open(q) /\ call'[q] = call[q] /\ OwnNotices(q) /\ Noted(q)
        BY <1>2, <3>1 DEF UInv, Aside
      <4>2. OwnNotices(q)'
        <5>1. ASSUME NEW k \in Rows, k \in DOMAIN writes[q], Notice(k)
              PROVE  k[3] = call[q].id \/ db'[k] # Absent
          BY <1>2, <2>1, <4>1, <5>1, NoticesStay DEF OwnNotices
        <5> QED
          BY <3>1, <5>1 DEF Aside, OwnNotices, Rows
      <4>3. Noted(q)'
        BY <3>1, <4>1 DEF Aside, Noted, Op
      <4> QED
        BY <1>2, <3>1, <4>1, <4>2, <4>3, UnsentKept
    <3>2. CASE Arrives(q)
      <4>1. writes'[q] = NoRows /\ DOMAIN NoRows = {}
        BY <3>2 DEF Arrives, NoRows
      <4>2. OwnNotices(q)'
        BY <4>1 DEF OwnNotices
      <4>3. Unsent(q)'
        <5>1. ASSUME NEW k \in Rows, Notice(k), k[3] = made + 1 PROVE db[k] = Absent
          BY <1>2, <2>1, <5>1, MadeGrows DEF UInv, Numbers
        <5>2. db' = db /\ call'[q].id = made + 1
          BY <3>2 DEF Arrives
        <5> QED
          BY <5>1, <5>2 DEF Unsent, Rows
      <4>4. Noted(q)'
        <5>1. ASSUME Op(q)' \in Sending, pc'[q] = Front(call'[q].args) + 7 PROVE FALSE
          <6> DEFINE r == call'[q]
                     n == Front(r.args)
          <6>1. n \in Nat /\ Statements(r, seen'[q])[n + 5].do = "select"
            <7>1. \A K : Select(K).do = "select"
              BY Kinds
            <7>2. r.args.op \in Sending
              BY <5>1 DEF Op
            <7> HIDE DEF r
            <7>3. /\ Front(r.args) \in Nat
                  /\ \A s : Statements(r, s)[Front(r.args) + 5] =
                           Select({RoomMember(r.args.room, v) : v \in Users})
              BY <7>2, SendNotices
            <7> QED
              BY <7>1, <7>3
          <6>2. \A i \in 1..pc'[q] - 1 : Statements(r, seen'[q])[i].do = "pass"
            BY <3>2 DEF Arrives, Body, Statements, Routed
          <6> HIDE DEF r
          <6>3. n + 5 \in 1..pc'[q] - 1
            BY <5>1, <6>1 DEF r
          <6> QED
            BY <6>1, <6>2, <6>3
        <5> QED
          BY <5>1 DEF Noted
      <4> QED
        BY <4>2, <4>3, <4>4
    <3>3. CASE Goes(q) /\ Effect(q)
      BY <1>2, <2>1, <3>3, UnsentKept, OwnNoticesKept, NotedKept DEF Goes
    <3> QED
      BY <2>1, <1>2, <2>2, <3>1, <3>2, <3>3, StepCases
  <2> QED
    BY <2>1, <2>2 DEF UInv
<1> QED
  BY <1>1, <1>2

(***************************************************************************)
(* create_message_notifications reaches the other members of the room and  *)
(* nobody else: what the request writes for the members it has read is     *)
(* what the room's members call for at its commit, unless another request  *)
(* changed the membership meanwhile.                                       *)
(***************************************************************************)
THEOREM NoticesAreRight ==
  ASSUME Routed PROVE Spec => NoticesReachMembers
<1>1. ASSUME UInv, [Next]_vars, NEW q \in Requests, Commits(q), Op(q) \in Sending,
             NEW u \in Users, RoomMember(call[q].args.room, u) \notin overtaken[q]
      PROVE  There(db', Notification(u, call[q].id))
               <=> u # call[q].args.by /\ There(db, RoomMember(call[q].args.room, u))
  <2> DEFINE r == call[q]
             c == r.args
             n == Front(c)
             k == Notification(u, r.id)
             m == RoomMember(c.room, u)
  <2>1. /\ WInv /\ DInv /\ RInv /\ Open(q) /\ c \in Calls /\ c.op \in Sending
        /\ current[q] = Statements(r, seen[q])[pc[q]]
        /\ pc[q] \in 1..Len(Statements(r, seen[q])) /\ current[q].do = "commit"
    BY <1>1, CurrentIs, NeatNow DEF UInv, TInv, DInv, SInv, KInv, Commits, Doing, Op
  <2>2. n \in Nat /\ pc[q] = n + 7
    BY <2>1, SendCommits, SendNotices
  <2>3. k \in Rows /\ Notice(k) /\ k[3] = r.id /\ m \in Rows /\ m[1] = "room_members"
    <3>1. r.id \in Nat \ {0} /\ r.id <= made /\ made \in Nat /\ made <= MaxCalls /\ MaxCalls \in Nat
      BY <1>1, <2>1, MadeGrows, ScenariosAssumption DEF UInv, Numbers, DInv, Numbered
    <3>2. r.id \in 1..MaxCalls
      BY <3>1
    <3>3. k \in Keys /\ c.room \in Rooms
      BY <2>1, <3>2, CallsAssumption DEF Calls, Sending
    <3>4. m \in Keys
      BY <3>3, KeysAssumption
    <3> QED
      BY <3>3, <3>4 DEF Notification, RoomMember, Notice, Rows, Schema
  <2>4. There(db', k) <=> k \in DOMAIN writes[q]
    <3>1. db'[k] = Visible(q, k) /\ (k \notin DOMAIN writes[q] => db'[k] = db[k])
      BY <1>1, <2>1, <2>3, CommittedRow DEF Rows
    <3>2. db[k] = Absent
      BY <1>1, <2>1, <2>3 DEF UInv, Unsent, Op
    <3>3. k \in DOMAIN writes[q] => writes[q][k] # Absent
      BY <2>1, <2>3 DEF DInv, Mine, Notice, Durable
    <3> QED
      BY <3>1, <3>2, <3>3 DEF There, Visible
  <2>5. k \in DOMAIN writes[q] <=> u \in Notified(seen[q], c)
    BY <1>1, <2>1, <2>2 DEF UInv, Noted, Op
  <2>6. Window(r, m, n + 5, n + 7)
    <3>1. \A s : /\ Statements(r, s)[n + 5] = Select({RoomMember(c.room, v) : v \in Users})
                 /\ Statements(r, s)[n + 6] = Notices(s, c, r.id)
                 /\ \A i \in 1..Len(Statements(r, s)) : ~Alters(Statements(r, s)[i], m)
      BY <2>1, <2>3, SendNotices
    <3>2. Late(r, m, n + 5)
      BY <3>1 DEF Late
    <3>3. Reads(r, m, n + 5)
      <4>1. \A K : Select(K).do = "select" /\ Select(K).keys = K
        BY DEF Select, Statement
      <4>2. m \in {RoomMember(c.room, v) : v \in Users}
        OBVIOUS
      <4> QED
        BY <3>1, <4>1, <4>2 DEF Reads
    <3>4. ASSUME NEW s, NEW i \in 1..Len(Statements(r, s)), n + 5 < i, i < n + 7
          PROVE  Statements(r, s)[i].do \notin {"commit", "select"}
      <4>1. i = n + 6
        BY <2>2, <3>4
      <4>2. Notices(s, c, r.id).do \in {"pass", "insert"}
        BY NoticesAre
      <4> QED
        BY <3>1, <4>1, <4>2
    <3> QED
      BY <3>2, <3>3, <3>4 DEF Window, Rereads
  <2>7. m \in DOMAIN seen[q] /\ seen[q][m] = db[m]
    <3>1. WindowKept(q, m)
      BY <1>1, <2>1, <2>3 DEF UInv, TInv
    <3>2. n + 5 \in Nat \ {0} /\ n + 7 \in Nat \ {0} /\ n + 5 < pc[q] /\ pc[q] <= n + 7
      BY <2>2
    <3> QED
      BY <1>1, <2>6, <3>1, <3>2 DEF WindowKept, StillSeen, Fresh
  <2>8. u \in Notified(seen[q], c) <=> u # c.by /\ There(db, m)
    BY <2>7 DEF Notified, Exists, Row, There
  <2> QED
    BY <2>4, <2>5, <2>8
<1>2. UInv /\ [Next]_vars
        => [\A q \in Requests :
              LET c == call[q].args
                  id == call[q].id
              IN  Commits(q) /\ Op(q) \in {"create_message", "gateway_send"} =>
                    \A u \in Users : RoomMember(c.room, u) \notin overtaken[q] =>
                      (There(db', Notification(u, id))
                         <=> u # c.by /\ There(db, RoomMember(c.room, u)))]_vars
  BY <1>1 DEF Sending
<1> QED
  BY <1>2, NoticesHold, PTL DEF Spec, NoticesReachMembers

=============================================================================
