-------------------------------- MODULE Api --------------------------------
(***************************************************************************)
(* The endpoints of routes/*.py: which service each calls and which of its *)
(* exceptions it answers.  Any other exception ends the request with a     *)
(* 500.  What they promise together is stated in ApiRules.                 *)
(***************************************************************************)
EXTENDS AccountService

InRoom == {"RoomNotFound", "RoomMembershipRequired"}
-----------------------------------------------------------------------------
(* routes/workspaces.py                                                    *)

\* Mutant: nothing answers a slug that is taken.
CreateWorkspaceUnanswered(s, c) == Authenticated(s, c, create_workspace(s, c), {})

create_workspace_endpoint(s, c) ==
  Authenticated(s, c, create_workspace(s, c), {"SlugAlreadyExists"})
list_workspaces_endpoint(s, c) == Authenticated(s, c, list_workspaces(s, c), {})
get_workspace_endpoint(s, c) ==
  Authenticated(s, c, get_workspace_for_user(s, c.by, c.ws), {"WorkspaceNotFound"})
list_workspace_members_endpoint(s, c) ==
  Authenticated(s, c, list_workspace_members(s, c), {"WorkspaceNotFound"})
list_workspace_audit_logs_endpoint(s, c) ==
  Authenticated(s, c, require_workspace_owner(s, c.by, c.ws),
                {"WorkspaceNotFound", "WorkspaceOwnerRequired"})
add_workspace_member_endpoint(s, c) ==
  Authenticated(s, c, add_workspace_member(s, c),
                {"WorkspaceNotFound", "UserNotFound", "WorkspaceOwnerRequired"})
update_workspace_member_endpoint(s, c) ==
  Authenticated(s, c, update_workspace_member_role(s, c),
                {"WorkspaceNotFound", "WorkspaceMemberNotFound",
                 "WorkspaceOwnerRequired", "WorkspaceLastOwner"})
remove_workspace_member_endpoint(s, c) ==
  Authenticated(s, c, remove_workspace_member(s, c),
                {"WorkspaceNotFound", "WorkspaceMemberNotFound",
                 "WorkspaceOwnerRequired", "WorkspaceLastOwner"})
-----------------------------------------------------------------------------
(* routes/rooms.py                                                         *)

create_room_endpoint(s, c) ==
  Authenticated(s, c, create_room(s, c.by, c.room),
                {"WorkspaceNotFound", "SlugAlreadyExists"})
list_rooms_endpoint(s, c) ==
  Authenticated(s, c, list_rooms(s, c), {"WorkspaceNotFound"})
start_direct_conversation_endpoint(s, c) ==
  Authenticated(s, c, start_direct_conversation(s, c.by, c.ws, c.user),
                {"WorkspaceNotFound", "UserNotFound", "SelfConversation"})
get_room_endpoint(s, c) ==
  Authenticated(s, c, get_room_for_user(s, c.by, c.room), {"RoomNotFound"})
join_room_endpoint(s, c) == Authenticated(s, c, join_room(s, c), {"RoomNotFound"})
leave_room_endpoint(s, c) ==
  Authenticated(s, c, leave_room(s, c), {"RoomNotFound", "RoomLastOwner"})
list_room_members_endpoint(s, c) ==
  Authenticated(s, c, list_room_members(s, c), {"RoomNotFound"})
add_room_member_endpoint(s, c) ==
  Authenticated(s, c, add_room_member(s, c),
                {"RoomNotFound", "UserNotFound", "WorkspaceMembershipRequired",
                 "RoomOwnerRequired"})
invite_room_member_endpoint(s, c) ==
  Authenticated(s, c, invite_room_member_by_email(s, c.by, c.room, c.user, c.role),
                {"RoomNotFound", "UserNotFound", "SelfConversation",
                 "RoomOwnerRequired"})
update_room_member_endpoint(s, c) ==
  Authenticated(s, c, update_room_member_role(s, c),
                {"RoomNotFound", "RoomMemberNotFound", "RoomOwnerRequired",
                 "RoomLastOwner"})
remove_room_member_endpoint(s, c) ==
  Authenticated(s, c, remove_room_member(s, c),
                {"RoomNotFound", "RoomMemberNotFound", "RoomOwnerRequired",
                 "RoomLastOwner"})
-----------------------------------------------------------------------------
(* routes/conversations.py and friends.py                                  *)

list_conversations_endpoint(s, c) == Authenticated(s, c, list_conversations(s, c), {})
start_global_direct_endpoint(s, c) ==
  Authenticated(s, c, start_global_direct_conversation(s, c),
                {"UserNotFound", "SelfConversation"})
create_group_conversation_endpoint(s, c, id) ==
  Authenticated(s, c, create_group_conversation(s, c, id),
                {"SlugAlreadyExists", "UserNotFound", "SelfConversation"})
list_friends_endpoint(s, c) == Authenticated(s, c, list_friends(s, c), {})
add_friend_endpoint(s, c) ==
  Authenticated(s, c, add_friend_by_email(s, c), {"UserNotFound", "SelfFriend"})
remove_friend_endpoint(s, c) ==
  Authenticated(s, c, remove_friend(s, c), {"FriendNotFound"})
-----------------------------------------------------------------------------
(* routes/messages.py and reactions.py                                     *)

create_message_endpoint(s, c, id) ==
  Authenticated(s, c, create_message(s, c, id),
                InRoom \cup {"AttachmentNotFound", "MessageNotFound"})
update_message_endpoint(s, c, id) ==
  Authenticated(s, c, update_message(s, c, id),
                InRoom \cup {"MessageNotFound", "MessagePermissionDenied"})
delete_message_response(s, c) ==
  Authenticated(s, c, delete_message(s, c),
                InRoom \cup {"MessageNotFound", "MessagePermissionDenied"})
list_messages_endpoint(s, c) == Authenticated(s, c, list_messages(s, c), InRoom)
list_messages_page_endpoint(s, c) ==
  Authenticated(s, c, list_messages_page(s, c), InRoom \cup {"MessageNotFound"})
search_messages_endpoint(s, c) == Authenticated(s, c, list_messages(s, c), InRoom)
list_message_replies_endpoint(s, c) ==
  Authenticated(s, c, list_message_replies(s, c), InRoom \cup {"MessageNotFound"})
list_room_events_endpoint(s, c) == Authenticated(s, c, list_room_events(s, c), InRoom)
add_reaction_endpoint(s, c) ==
  Authenticated(s, c, add_reaction(s, c),
                InRoom \cup {"MessageNotFound", "ReactionAlreadyExists"})
remove_reaction_endpoint(s, c) ==
  Authenticated(s, c, remove_reaction(s, c),
                InRoom \cup {"MessageNotFound", "ReactionNotFound"})
-----------------------------------------------------------------------------
(* routes/attachments.py, read_states.py and notifications.py              *)

create_attachment_endpoint(s, c, id) ==
  Authenticated(s, c, create_attachment_intent(s, c, id), InRoom)
confirm_attachment_endpoint(s, c) ==
  Authenticated(s, c, confirm_attachment_upload(s, c),
                {"AttachmentNotFound", "AttachmentAlreadyAttached",
                 "AttachmentUploadNotFound", "AttachmentUploadMismatch"})
create_attachment_download_endpoint(s, c) ==
  Authenticated(s, c, get_downloadable_attachment(s, c),
                InRoom \cup {"AttachmentNotFound"})
update_room_read_state_endpoint(s, c) ==
  Authenticated(s, c, update_room_read_state(s, c), InRoom \cup {"ReadStateAheadOfRoom"})
list_room_read_states_endpoint(s, c) ==
  Authenticated(s, c, list_room_read_states(s, c), InRoom)
list_notifications(s, c) ==
  Authenticated(s, c, list_user_notifications(s, c), {})
get_unread_notification_count(s, c) ==
  Authenticated(s, c, unread_notification_count(s, c), {})
mark_read(s, c) ==
  Authenticated(s, c, mark_notification_read(s, c), {"NotificationNotFound"})
mark_all_read(s, c) ==
  Authenticated(s, c, mark_all_notifications_read(s, c), {})
-----------------------------------------------------------------------------
(* routes/auth.py, users.py and system.py, and the script for operators.   *)

register(s, c, id) ==
  Handler(register_user(s, c) \o create_token_pair(c.by, id), {"EmailAlreadyRegistered"})
login(s, c, id) == Handler(authenticate_user(s, c) \o create_token_pair(c.by, id), {})
refresh_endpoint(s, c, id) == Handler(refresh(s, c, id), {})
logout(s, c) == Authenticated(s, c, revoke_refresh_token_session(s, c), {})
list_auth_sessions(s, c) == Authenticated(s, c, list_active_auth_sessions(s, c), {})
revoke_auth_session_endpoint(s, c) ==
  Authenticated(s, c, revoke_user_auth_session(s, c), {"AuthSessionNotFound"})
list_users(s, c) == Authenticated(s, c, << Select(AllUsers) >>, {})
list_system_users(s, c) ==
  Handler(get_current_system_admin(s, c) \o << Select(AllUsers) >>, {})
update_system_user_endpoint(s, c) ==
  Handler(get_current_system_admin(s, c) \o update_system_user(s, c), {"UserNotFound"})
bootstrap_script(s, c) == Handler(bootstrap_system_admin(s, c), {})
-----------------------------------------------------------------------------
(* routes/apps.py, app_api.py and webhooks.py                              *)

create_app_endpoint(s, c) ==
  Authenticated(s, c, create_app(s, c),
                {"WorkspaceNotFound", "WorkspaceOwnerRequired", "AppSlugAlreadyExists"})
list_workspace_apps_endpoint(s, c) ==
  Authenticated(s, c, list_workspace_apps(s, c),
                {"WorkspaceNotFound", "WorkspaceOwnerRequired"})
get_app_endpoint(s, c) ==
  Authenticated(s, c, get_app_for_owner(s, c), {"AppNotFound", "WorkspaceOwnerRequired"})
create_api_key_endpoint(s, c, id) ==
  Authenticated(s, c, create_api_key(s, c, id), {"AppNotFound", "WorkspaceOwnerRequired"})
create_incoming_webhook_endpoint(s, c, id) ==
  Authenticated(s, c, create_incoming_webhook(s, c, id),
                {"AppNotFound", "RoomNotFound", "WorkspaceOwnerRequired"})
list_api_keys_endpoint(s, c) ==
  Authenticated(s, c, list_api_keys(s, c), {"AppNotFound", "WorkspaceOwnerRequired"})
list_incoming_webhooks_endpoint(s, c) ==
  Authenticated(s, c, list_incoming_webhooks(s, c),
                {"AppNotFound", "WorkspaceOwnerRequired"})
revoke_api_key_endpoint(s, c) ==
  Authenticated(s, c, revoke_api_key(s, c),
                {"AppNotFound", "ApiKeyNotFound", "WorkspaceOwnerRequired"})
revoke_incoming_webhook_endpoint(s, c) ==
  Authenticated(s, c, revoke_incoming_webhook(s, c),
                {"AppNotFound", "IncomingWebhookNotFound", "WorkspaceOwnerRequired"})
create_app_message_endpoint(s, c, id) ==
  LET app == AppOf(s, ApiKey(c.key)) IN
  Handler(authenticate_api_key(s, c.key) \o get_bot_for_app(s, app)
            \o create_bot_message(s, app, c, id),
          {"RoomNotFound", "BotNotFound", "AttachmentNotFound", "MessageNotFound"})
deliver_incoming_webhook_endpoint(s, c, id) ==
  LET k == IncomingWebhook(c.key)
      to == [room |-> RoomOf(s, k), attachments |-> {}, reply |-> NoMessage]
  IN  Handler(authenticate_incoming_webhook(s, c.key) \o << Select({Bot(AppOf(s, k))}) >>
                \o create_bot_message(s, AppOf(s, k), to, id),
              {"RoomNotFound"})
-----------------------------------------------------------------------------
(* routes/presence.py, typing.py and internal_gateway.py: the database     *)
(* part.  Presence has the stores, Gateway the gateway in front of them.   *)

room_presence(s, c) == Authenticated(s, c, ensure_room_member(s, c.by, c.room), InRoom)
room_typing(s, c) == Authenticated(s, c, ensure_room_member(s, c.by, c.room), InRoom)

authenticate_gateway_session(s, c) == Handler(get_current_user(s, c), {})
\* The replay checks the membership again, where nothing catches its errors.
Uncaught(body) ==
  [i \in DOMAIN body |-> IF body[i].do = "raise" THEN Raise("uncaught") ELSE body[i]]
handle_gateway_room_subscribe(s, c) ==
  Authenticated(s, c, ensure_room_member(s, c.by, c.room)
                        \o Uncaught(list_room_events(s, c)), InRoom)
handle_gateway_message_send(s, c, id) ==
  Authenticated(s, c, create_message(s, c, id), InRoom \cup {"MessageNotFound"})
handle_gateway_presence_update(s, c) ==
  Authenticated(s, c, ensure_room_member(s, c.by, c.room), InRoom)
handle_gateway_typing_update(s, c) ==
  Authenticated(s, c, ensure_room_member(s, c.by, c.room), InRoom)
-----------------------------------------------------------------------------
\* The router: a call names its endpoint.
ApiEndpoint(request, s) ==
  LET c == request.args IN
  CASE c.op = "create_workspace" -> create_workspace_endpoint(s, c)
    [] c.op = "list_workspaces" -> list_workspaces_endpoint(s, c)
    [] c.op = "get_workspace" -> get_workspace_endpoint(s, c)
    [] c.op = "list_workspace_members" -> list_workspace_members_endpoint(s, c)
    [] c.op = "list_workspace_audit_logs" -> list_workspace_audit_logs_endpoint(s, c)
    [] c.op = "add_workspace_member" -> add_workspace_member_endpoint(s, c)
    [] c.op = "update_workspace_member" -> update_workspace_member_endpoint(s, c)
    [] c.op = "remove_workspace_member" -> remove_workspace_member_endpoint(s, c)
    [] c.op = "create_room" -> create_room_endpoint(s, c)
    [] c.op = "list_rooms" -> list_rooms_endpoint(s, c)
    [] c.op = "start_direct_conversation" -> start_direct_conversation_endpoint(s, c)
    [] c.op = "get_room" -> get_room_endpoint(s, c)
    [] c.op = "join_room" -> join_room_endpoint(s, c)
    [] c.op = "leave_room" -> leave_room_endpoint(s, c)
    [] c.op = "list_room_members" -> list_room_members_endpoint(s, c)
    [] c.op = "add_room_member" -> add_room_member_endpoint(s, c)
    [] c.op = "invite_room_member" -> invite_room_member_endpoint(s, c)
    [] c.op = "update_room_member" -> update_room_member_endpoint(s, c)
    [] c.op = "remove_room_member" -> remove_room_member_endpoint(s, c)
    [] c.op = "list_conversations" -> list_conversations_endpoint(s, c)
    [] c.op = "start_global_direct" -> start_global_direct_endpoint(s, c)
    [] c.op = "create_group_conversation" -> create_group_conversation_endpoint(s, c, request.id)
    [] c.op = "list_friends" -> list_friends_endpoint(s, c)
    [] c.op = "add_friend" -> add_friend_endpoint(s, c)
    [] c.op = "remove_friend" -> remove_friend_endpoint(s, c)
    [] c.op = "create_message" -> create_message_endpoint(s, c, request.id)
    [] c.op = "update_message" -> update_message_endpoint(s, c, request.id)
    [] c.op = "delete_message" -> delete_message_response(s, c)
    [] c.op = "list_messages" -> list_messages_endpoint(s, c)
    [] c.op = "list_messages_page" -> list_messages_page_endpoint(s, c)
    [] c.op = "search_messages" -> search_messages_endpoint(s, c)
    [] c.op = "list_message_replies" -> list_message_replies_endpoint(s, c)
    [] c.op = "list_room_events" -> list_room_events_endpoint(s, c)
    [] c.op = "add_reaction" -> add_reaction_endpoint(s, c)
    [] c.op = "remove_reaction" -> remove_reaction_endpoint(s, c)
    [] c.op = "create_attachment" -> create_attachment_endpoint(s, c, request.id)
    [] c.op = "confirm_attachment" -> confirm_attachment_endpoint(s, c)
    [] c.op = "create_attachment_download" -> create_attachment_download_endpoint(s, c)
    [] c.op = "update_room_read_state" -> update_room_read_state_endpoint(s, c)
    [] c.op = "list_room_read_states" -> list_room_read_states_endpoint(s, c)
    [] c.op = "list_notifications" -> list_notifications(s, c)
    [] c.op = "unread_count" -> get_unread_notification_count(s, c)
    [] c.op = "mark_read" -> mark_read(s, c)
    [] c.op = "mark_all_read" -> mark_all_read(s, c)
    [] c.op = "register" -> register(s, c, request.id)
    [] c.op = "login" -> login(s, c, request.id)
    [] c.op = "refresh" -> refresh_endpoint(s, c, request.id)
    [] c.op = "logout" -> logout(s, c)
    [] c.op = "list_auth_sessions" -> list_auth_sessions(s, c)
    [] c.op = "revoke_auth_session" -> revoke_auth_session_endpoint(s, c)
    [] c.op = "list_users" -> list_users(s, c)
    [] c.op = "list_system_users" -> list_system_users(s, c)
    [] c.op = "update_system_user" -> update_system_user_endpoint(s, c)
    [] c.op = "bootstrap" -> bootstrap_script(s, c)
    [] c.op = "create_app" -> create_app_endpoint(s, c)
    [] c.op = "list_workspace_apps" -> list_workspace_apps_endpoint(s, c)
    [] c.op = "get_app" -> get_app_endpoint(s, c)
    [] c.op = "create_api_key" -> create_api_key_endpoint(s, c, request.id)
    [] c.op = "create_incoming_webhook" -> create_incoming_webhook_endpoint(s, c, request.id)
    [] c.op = "list_api_keys" -> list_api_keys_endpoint(s, c)
    [] c.op = "list_incoming_webhooks" -> list_incoming_webhooks_endpoint(s, c)
    [] c.op = "revoke_api_key" -> revoke_api_key_endpoint(s, c)
    [] c.op = "revoke_incoming_webhook" -> revoke_incoming_webhook_endpoint(s, c)
    [] c.op = "create_app_message" -> create_app_message_endpoint(s, c, request.id)
    [] c.op = "room_presence" -> room_presence(s, c)
    [] c.op = "room_typing" -> room_typing(s, c)
    [] c.op = "gateway_authenticate" -> authenticate_gateway_session(s, c)
    [] c.op = "gateway_subscribe" -> handle_gateway_room_subscribe(s, c)
    [] c.op = "gateway_send" -> handle_gateway_message_send(s, c, request.id)
    [] c.op = "gateway_presence" -> handle_gateway_presence_update(s, c)
    [] c.op = "gateway_typing" -> handle_gateway_typing_update(s, c)
    [] c.op = "deliver_incoming_webhook" -> deliver_incoming_webhook_endpoint(s, c, request.id)

\* What a call may name.
Operations ==
  {"create_workspace", "list_workspaces", "get_workspace", "list_workspace_members",
   "list_workspace_audit_logs", "add_workspace_member", "update_workspace_member",
   "remove_workspace_member"}
  \cup {"create_room", "list_rooms", "start_direct_conversation", "get_room",
        "join_room", "leave_room", "list_room_members", "add_room_member",
        "invite_room_member", "update_room_member", "remove_room_member"}
  \cup {"list_conversations", "start_global_direct", "create_group_conversation",
        "list_friends", "add_friend", "remove_friend"}
  \cup {"create_message", "update_message", "delete_message", "list_messages",
        "list_messages_page", "search_messages", "list_message_replies",
        "list_room_events", "add_reaction", "remove_reaction"}
  \cup {"create_attachment", "confirm_attachment", "create_attachment_download",
        "update_room_read_state", "list_room_read_states", "list_notifications",
        "unread_count", "mark_read", "mark_all_read"}
  \cup {"register", "login", "refresh", "logout", "list_auth_sessions",
        "revoke_auth_session", "list_users", "list_system_users",
        "update_system_user", "bootstrap"}
  \cup {"create_app", "list_workspace_apps", "get_app", "create_api_key",
        "create_incoming_webhook", "list_api_keys", "list_incoming_webhooks",
        "revoke_api_key", "revoke_incoming_webhook", "create_app_message",
        "deliver_incoming_webhook"}
  \cup {"room_presence", "room_typing", "gateway_authenticate", "gateway_subscribe",
        "gateway_send", "gateway_presence", "gateway_typing"}

\* The columns of each table that a condition reads.
Schema ==
  [users |-> {"is_active", "is_system_admin"}, workspaces |-> {"row"},
   memberships |-> {"role"}, rooms |-> {"row"}, room_members |-> {"role"},
   user_contacts |-> {"row"}, messages |-> {"room", "sender", "content", "deleted"},
   events |-> {"room", "type", "of", "value"}, message_reactions |-> {"row"},
   attachments |-> {"uploader", "room", "message", "status"},
   room_read_states |-> {"last_read"}, notifications |-> {"read"},
   auth_sessions |-> {"user", "revoked"}, apps |-> {"row"}, bots |-> {"row"},
   api_keys |-> {"app", "revoked"}, incoming_webhooks |-> {"app", "room", "revoked"}]
Columns(k) == Schema[k[1]]
=============================================================================
