------------------------------- MODULE MCApi -------------------------------
(* Small databases for Api, each with calls whose statements collide.      *)
EXTENDS ApiRules, TLC

CONSTANT Suite   \* which scenarios a run takes

A == "ann"
B == "bob"
C == "cat"
MCUsers == {A, B, C}
W == "w"
MCNet == "net"
R == <<W, <<"slug", "r">>>>
New == <<W, <<"slug", "new">>>>
Dm(w) == <<w, direct_conversation_slug(A, B)>>
MCRooms == IF Suite = "rooms"
           THEN {R, New, Dm(MCNet)} \cup {<<MCNet, <<"group", i>>>> : i \in 1..MaxCalls}
           ELSE {R}
Ids == 1..MaxCalls
Tool == <<W, <<"slug", "tool">>>>

AccountKeys == {User(u) : u \in MCUsers}
RoomKeys ==
  {Workspace(w) : w \in {W, MCNet}} \cup {Room(r) : r \in MCRooms}
  \cup {Membership(w, u) : w \in {W, MCNet}, u \in MCUsers}
  \cup {RoomMember(r, u) : r \in MCRooms, u \in MCUsers}
ContactKeys == {UserContact(u, v) : u \in MCUsers, v \in MCUsers}
MessageKeys ==
  {Message(m) : m \in Ids} \cup {Event(W, n) : n \in EventNumbers}
  \cup {Notification(u, m) : u \in MCUsers, m \in Ids}
DetailKeys ==
  {Attachment(i) : i \in Ids} \cup {MessageReaction(1, u) : u \in MCUsers}
  \cup {RoomReadState(R, u) : u \in MCUsers}
SecretKeys ==
  {AuthSession(i) : i \in Ids} \cup {App(Tool), Bot(Tool)}
  \cup {ApiKey(i) : i \in Ids} \cup {IncomingWebhook(i) : i \in Ids}
MCKeys ==
  AccountKeys \cup RoomKeys \cup ContactKeys
  \cup (CASE Suite = "rooms" -> {}
          [] Suite = "rows" -> MessageKeys \cup DetailKeys \cup SecretKeys)

Scenario(before, rows, calls) ==
  [made |-> before, calls |-> calls,
   db |-> [k \in MCKeys |-> IF k \in DOMAIN rows THEN rows[k] ELSE Absent]]
People == [k \in AccountKeys |-> Account(k = User(A))]
In(w, r, owners, members) ==
  (Workspace(w) :> Plain) @@ (Room(r) :> Plain)
  @@ [k \in {Membership(w, u) : u \in owners} \cup {RoomMember(r, u) : u \in owners}
        |-> Owner]
  @@ [k \in {Membership(w, u) : u \in members} \cup {RoomMember(r, u) : u \in members}
        |-> Member]
-----------------------------------------------------------------------------
(* Suite "rooms".                                                          *)

ToUser(op, by, user) == [op |-> op, by |-> by, user |-> user]
InWs(op, by, user, role) ==
  [op |-> op, by |-> by, ws |-> W, user |-> user, role |-> role]
InR(op, by, user, role) ==
  [op |-> op, by |-> by, room |-> R, user |-> user, role |-> role]
SetActive(by, user, value) ==
  [op |-> "update_system_user", by |-> by, user |-> user,
   change |-> [is_active |-> value]]

OwnerCalls ==
  {InR("update_room_member", A, B, "member"), InR("update_room_member", B, A, "member"),
   InR("remove_room_member", A, B, ""), InR("leave_room", B, "", ""),
   InR("add_room_member", A, A, "member"),
   InWs("update_workspace_member", A, B, "member"),
   InWs("update_workspace_member", B, A, "member"),
   InWs("remove_workspace_member", B, A, ""), InWs("add_workspace_member", A, B, "member")}
JoinCalls ==
  {InWs("remove_workspace_member", A, B, ""), InR("remove_room_member", A, B, ""),
   InR("join_room", B, "", ""), InR("invite_room_member", A, B, "member"),
   InR("add_room_member", A, B, "owner"), InWs("add_workspace_member", A, B, "owner"),
   [op |-> "create_room", by |-> B, room |-> New],
   InR("leave_room", B, "", ""), InR("update_room_member", B, B, "owner")}
FriendCalls ==
  {ToUser(op, u[1], u[2]) : op \in {"add_friend", "remove_friend"},
                            u \in {<<A, B>>, <<B, A>>}}
GroupCalls ==
  {[op |-> "create_group_conversation", by |-> A, users |-> <<B, A, C>>],
   SetActive(A, C, FALSE), SetActive(A, B, FALSE),
   [op |-> "list_conversations", by |-> B]}
ReadCalls ==
  {InWs(op, B, "", "") : op \in {"list_workspaces", "get_workspace", "list_rooms",
     "list_workspace_members", "list_workspace_audit_logs", "list_friends"}}
  \cup {InR(op, B, "", "") : op \in {"get_room", "list_room_members"}}
  \cup {InWs("remove_workspace_member", A, B, ""),
        [op |-> "create_workspace", by |-> B, ws |-> W],
        InWs("start_direct_conversation", B, B, "")}

RoomScenarios ==
  {Scenario(0, People @@ In(W, R, {A, B}, {}), OwnerCalls),
   Scenario(0, People @@ In(W, R, {A}, {B}), JoinCalls),
   Scenario(0, People @@ In(W, R, {A}, {}) @@ (Membership(W, B) :> Member), JoinCalls),
   Scenario(0, People, FriendCalls \cup {ToUser("start_global_direct", A, B)}),
   Scenario(0, People @@ (UserContact(A, B) :> Plain) @@ (UserContact(B, A) :> Plain),
            FriendCalls),
   Scenario(0, People, GroupCalls),
   Scenario(0, (User(C) :> [is_active |-> FALSE, is_system_admin |-> FALSE]) @@ People
               @@ (Workspace(MCNet) :> Plain) @@ (Membership(MCNet, A) :> Member),
            GroupCalls),
   Scenario(0, People @@ In(W, R, {A}, {B}), ReadCalls)}
-----------------------------------------------------------------------------
(* Suite "rows": messages.  The room has one message, of ann, that bob has       *)
(* reacted to.                                                             *)

Chat ==
  People @@ In(W, R, {A}, {B}) @@ (Membership(W, C) :> Member)
  @@ (Message(1) :> NewMessage(R, A, 1)) @@ (Notification(B, 1) :> [read |-> FALSE])
  @@ (Event(W, 1) :> NewEvent(R, "message.created", Message(1), 1))
  @@ (MessageReaction(1, B) :> Plain)
  @@ (Event(W, 2) :> NewEvent(R, "message.reaction_added", MessageReaction(1, B), TRUE))
Post(by, X1, reply) ==
  [op |-> "create_message", by |-> by, room |-> R, attachments |-> X1, reply |-> reply]
About(op, by) ==
  [op |-> op, by |-> by, room |-> R, message |-> 1, owner |-> B, before |-> 1]
File(op, x, stored) ==
  [op |-> op, by |-> A, room |-> R, attachment |-> x, stored |-> stored]
Seen(by, n) == [op |-> "update_room_read_state", by |-> by, room |-> R, seq |-> n]

EditCalls ==
  {Post(A, {}, 0), Post(B, {}, 1), About("update_message", A), About("delete_message", A),
   About("delete_message", B), InR("remove_room_member", A, B, ""),
   InR("join_room", C, "", ""), About("list_message_replies", B),
   About("mark_read", B), About("mark_all_read", B)}
ReactionCalls == {About("add_reaction", B), About("remove_reaction", B)}
FileCalls ==
  {File("confirm_attachment", 1, "same"), Post(A, {1}, 0)}
UploadCalls ==
  {File("create_attachment", 0, ""), File("confirm_attachment", 2, "same"),
   Post(A, {2}, 0)}
PendingFile ==
  Attachment(1) :> [uploader |-> A, room |-> R, message |-> NoMessage,
                    status |-> "pending_upload"]
SeenCalls == {Seen(B, 0), Seen(B, 1), Seen(B, 2), Seen(B, 3), About("add_reaction", A)}
LookCalls ==
  {About(op, B) : op \in {"list_messages", "list_messages_page", "search_messages",
     "list_room_events", "list_room_read_states", "list_notifications", "list_users",
     "unread_count", "room_presence", "room_typing"}}
  \cup {File("create_attachment_download", 1, ""), File("confirm_attachment", 1, "nothing"),
        File("confirm_attachment", 1, "else"), File("confirm_attachment", 1, "same"),
        About("delete_message", A), SetActive(A, B, FALSE)}

GatewayCalls ==
  {About(op, B) : op \in {"gateway_authenticate", "gateway_subscribe",
     "gateway_presence", "gateway_typing"}}
  \cup {[Post(B, {}, 1) EXCEPT !.op = "gateway_send"], About("delete_message", A),
        InR("remove_room_member", A, B, "")}

MessageScenarios ==
  {Scenario(2, Chat, EditCalls), Scenario(1, Chat, ReactionCalls),
   Scenario(1, Chat @@ PendingFile, FileCalls), Scenario(1, Chat, UploadCalls),
   Scenario(2, Chat, SeenCalls),
   Scenario(1, Chat @@ (RoomReadState(R, B) :> [last_read |-> 0]), {Seen(B, 1), Seen(B, 2)}),
   Scenario(2, Chat @@ PendingFile, LookCalls), Scenario(2, Chat, GatewayCalls)}
-----------------------------------------------------------------------------
(* Suite "rows": accounts and apps.                                        *)

SetAdmin(by, user, value) ==
  [op |-> "update_system_user", by |-> by, user |-> user,
   change |-> [is_system_admin |-> value]]
SetBoth(by, user, admin, active) ==
  [op |-> "update_system_user", by |-> by, user |-> user,
   change |-> [is_system_admin |-> admin, is_active |-> active]]
As(op, by) == [op |-> op, by |-> by, session |-> 1]
OfTool(op, by, key) ==
  [op |-> op, by |-> by, app |-> Tool, ws |-> W, room |-> R, key |-> key,
   attachments |-> {}, reply |-> NoMessage]

AdminCalls ==
  {SetAdmin(A, B, FALSE), SetAdmin(B, A, FALSE), SetAdmin(A, A, FALSE),
   SetActive(A, B, FALSE), SetActive(B, B, FALSE), SetBoth(A, B, FALSE, FALSE),
   SetBoth(B, C, TRUE, FALSE), SetAdmin(C, C, TRUE), As("list_system_users", C)}
FirstCalls == {As("register", A), As("register", B), As("bootstrap", A), As("login", A)}
SessionCalls ==
  {As("refresh", A), As("logout", A), As("login", A), As("list_auth_sessions", A),
   As("revoke_auth_session", A), SetActive(B, A, FALSE), As("bootstrap", A)}
KeyCalls ==
  {OfTool(op, A, 1) : op \in {"create_app", "create_api_key", "create_incoming_webhook",
     "revoke_api_key", "revoke_incoming_webhook", "list_api_keys"}}
  \cup {OfTool(op, B, 1) : op \in {"create_app_message", "deliver_incoming_webhook"}}
  \cup {InWs("remove_workspace_member", B, A, "")}
StrangerCalls ==
  {OfTool(op, C, 1) : op \in {"get_app", "list_workspace_apps",
     "list_incoming_webhooks", "create_api_key"}}
  \cup {InWs("add_workspace_member", A, C, "owner")}

Admins2 == (User(B) :> Account(TRUE)) @@ People
SignedIn == Admins2 @@ (AuthSession(1) :> [user |-> A, revoked |-> FALSE])
WithTool ==
  People @@ In(W, R, {A, B}, {}) @@ (App(Tool) :> Plain) @@ (Bot(Tool) :> Plain)
  @@ (ApiKey(1) :> [app |-> Tool, revoked |-> FALSE])
  @@ (IncomingWebhook(1) :> [app |-> Tool, room |-> R, revoked |-> FALSE])

AccountScenarios ==
  {Scenario(2, Admins2, AdminCalls), Scenario(2, << >>, FirstCalls),
   Scenario(1, SignedIn, {As("refresh", A), As("revoke_auth_session", A)}),
   Scenario(2, SignedIn, SessionCalls), Scenario(2, WithTool, KeyCalls),
   Scenario(2, People @@ In(W, R, {A, B}, {}), {OfTool("create_app", u, 1) : u \in {A, B}}),
   Scenario(2, WithTool, StrangerCalls)}

MCScenarios == CASE Suite = "rooms" -> RoomScenarios
                 [] Suite = "rows" -> MessageScenarios \cup AccountScenarios
=============================================================================
