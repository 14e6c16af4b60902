--------------------------- MODULE MessageService ---------------------------
(***************************************************************************)
(* The statements of the message, reaction, attachment, read state and     *)
(* notification endpoints: services/message.py, reaction.py,               *)
(* attachment.py, read_state.py and notification.py with their routes.     *)
(*                                                                         *)
(* SQLAlchemy flushes changed rows before the next SELECT: an UPDATE       *)
(* stands where that SELECT is.  An event is keyed by its number in the    *)
(* workspace; how both numbers of an event are allocated is the subject of *)
(* EventLog, the outbox row that goes with it that of Outbox.  The ids of  *)
(* new messages and attachments are the numbers of the calls that create   *)
(* them.                                                                   *)
(***************************************************************************)
EXTENDS WorkspaceService, FiniteSetsExt

CONSTANTS EventNumbers,   \* sequence numbers there may be
          Messages        \* messages there may be

Message(m) == <<"messages", m>>
Event(w, n) == <<"events", w, n>>
MessageReaction(m, u) == <<"message_reactions", m, u>>
Attachment(x) == <<"attachments", x>>
RoomReadState(r, u) == <<"room_read_states", r, u>>
Notification(u, m) == <<"notifications", u, m>>
Bot(a) == <<"bots", a>>

NoMessage == 0
\* An event of a room says what happened to which row, and its value now.
NewEvent(r, type, of, value) ==
  [room |-> r, type |-> type, of |-> of, value |-> value]
-----------------------------------------------------------------------------
ensure_room_member(s, u, r) ==
  get_room_for_user(s, u, r)
  \o << Require(Exists(s, RoomMember(r, u)), "RoomMembershipRequired") >>

get_visible_message(s, r, m) ==
  << Select({Message(m)}),
     Require(Has(s, Message(m), "room", r) /\ Has(s, Message(m), "deleted", FALSE),
             "MessageNotFound") >>

get_mutable_message(s, u, r, m) ==
  get_visible_message(s, r, m)
  \o << Require(Has(s, Message(m), "sender", u), "MessagePermissionDenied") >>

get_reply_target(s, r, reply) ==
  IF reply = NoMessage THEN << >> ELSE get_visible_message(s, r, reply)

get_attachable_attachments(s, u, r, X) ==
  IF X = {} THEN << >>
  ELSE << Select({Attachment(x) : x \in X}),
          Require(\A x \in X : Row(s, Attachment(x)) =
                    [uploader |-> u, room |-> r, message |-> NoMessage,
                     status |-> "uploaded"], "AttachmentNotFound") >>

Events(w) == {Event(w, n) : n \in EventNumbers}
next_workspace_event_seq(s, w) ==
  LET taken == {n \in EventNumbers : Exists(s, Event(w, n))} IN
  IF taken = {} THEN 1 ELSE Max(taken) + 1

create_message_event(s, event) ==
  LET w == Home(event.room) IN
  << Select(Events(w)), Insert(Event(w, next_workspace_event_seq(s, w)), event) >>

\* Mutant: the sender is notified too.
NotifyEverybody(s, r, m, sender) ==
  << Select({RoomMember(r, v) : v \in Users}),
     InsertAll({Notification(v, m) : v \in {v \in Users : Exists(s, RoomMember(r, v))}},
               [read |-> FALSE]) >>

\* Everybody in the room but the sender; several rows, one flush.
create_message_notifications(s, r, m, sender) ==
  LET notified == {v \in Users \ {sender} : Exists(s, RoomMember(r, v))} IN
  << Select({RoomMember(r, v) : v \in Users}),
     IF notified = {} THEN Pass
     ELSE InsertAll({Notification(v, m) : v \in notified}, [read |-> FALSE]) >>
-----------------------------------------------------------------------------
(* Messages.                                                               *)

NewMessage(r, u, content) ==
  [room |-> r, sender |-> u, content |-> content, deleted |-> FALSE]

create_message(s, c, id) ==
  ensure_room_member(s, c.by, c.room)
  \o get_attachable_attachments(s, c.by, c.room, c.attachments)
  \o get_reply_target(s, c.room, c.reply)
  \o << Insert(Message(id), NewMessage(c.room, c.by, id)) >>
  \o << UpdateAll({Attachment(x) : x \in c.attachments},
                  [message |-> id, status |-> "attached"]) >>
  \o create_message_event(s, NewEvent(c.room, "message.created", Message(id), id))
  \o create_message_notifications(s, c.room, id, c.by)
  \o << Commit >>

\* A bot of the workspace needs no membership and cannot attach anything.
create_bot_message(s, app, c, id) ==
  << Require(c.attachments = {}, "AttachmentNotFound"),
     Select({Room(c.room)}),
     Require(Exists(s, Room(c.room)) /\ Home(c.room) = Home(app), "RoomNotFound") >>
  \o get_reply_target(s, c.room, c.reply)
  \o << Insert(Message(id), NewMessage(c.room, Bot(app), id)) >>
  \o create_message_event(s, NewEvent(c.room, "message.created", Message(id), id))
  \o create_message_notifications(s, c.room, id, Bot(app))
  \o << Commit >>

update_message(s, c, id) ==
  ensure_room_member(s, c.by, c.room)
  \o get_mutable_message(s, c.by, c.room, c.message)
  \o << Update(Message(c.message), [content |-> id]) >>
  \o create_message_event(s, NewEvent(c.room, "message.updated",
                                      Message(c.message), id))
  \o << Commit >>

\* Mutant: no event tells of the deletion.
DeleteSilently(s, c) ==
  ensure_room_member(s, c.by, c.room)
  \o get_mutable_message(s, c.by, c.room, c.message)
  \o << Update(Message(c.message), [deleted |-> TRUE]), Commit >>

delete_message(s, c) ==
  ensure_room_member(s, c.by, c.room)
  \o get_mutable_message(s, c.by, c.room, c.message)
  \o << Update(Message(c.message), [deleted |-> TRUE]) >>
  \o create_message_event(s, NewEvent(c.room, "message.deleted",
                                      Message(c.message), NoMessage))
  \o << Commit >>

AllMessages == {Message(m) : m \in Messages}

\* Also a search.
list_messages(s, c) == ensure_room_member(s, c.by, c.room) \o << Select(AllMessages) >>

list_messages_page(s, c) ==
  ensure_room_member(s, c.by, c.room)
  \o get_reply_target(s, c.room, c.before) \o << Select(AllMessages) >>

list_message_replies(s, c) ==
  ensure_room_member(s, c.by, c.room)
  \o get_visible_message(s, c.room, c.message) \o << Select(AllMessages) >>

list_room_events(s, c) ==
  ensure_room_member(s, c.by, c.room) \o << Select(Events(Home(c.room))) >>
-----------------------------------------------------------------------------
(* Reactions.                                                              *)

add_reaction(s, c) ==
  LET k == MessageReaction(c.message, c.by) IN
  ensure_room_member(s, c.by, c.room)
  \o get_visible_message(s, c.room, c.message)
  \o << InsertOr(k, Plain, "ReactionAlreadyExists") >>
  \o create_message_event(s, NewEvent(c.room, "message.reaction_added", k, TRUE))
  \o << Commit, Refresh(k) >>

remove_reaction(s, c) ==
  LET k == MessageReaction(c.message, c.by) IN
  ensure_room_member(s, c.by, c.room)
  \o get_visible_message(s, c.room, c.message)
  \o << Select({k}), Require(Exists(s, k), "ReactionNotFound") >>
  \o create_message_event(s, NewEvent(c.room, "message.reaction_removed", k, FALSE))
  \o << Delete(k), Commit >>
-----------------------------------------------------------------------------
(* Attachments.  c.stored says what the object store holds under the key:  *)
(* "same", "nothing" or something "else" than the intent announced.        *)

create_attachment_intent(s, c, id) ==
  ensure_room_member(s, c.by, c.room)
  \o << Insert(Attachment(id),
               [uploader |-> c.by, room |-> c.room, message |-> NoMessage,
                status |-> "pending_upload"]),
        Commit >>

get_owned_room_attachment(s, u, r, x) ==
  << Select({Attachment(x)}),
     Require(Has(s, Attachment(x), "room", r) /\ Has(s, Attachment(x), "uploader", u),
             "AttachmentNotFound") >>

confirm_attachment_upload(s, c) ==
  LET k == Attachment(c.attachment) IN
  get_owned_room_attachment(s, c.by, c.room, c.attachment)
  \o << Require(Has(s, k, "message", NoMessage), "AttachmentAlreadyAttached"),
        Require(c.stored # "nothing", "AttachmentUploadNotFound"),
        Require(c.stored = "same", "AttachmentUploadMismatch"),
        Assign(s, k, [status |-> "uploaded"]), Commit >>

get_downloadable_attachment(s, c) ==
  LET k == Attachment(c.attachment) IN
  ensure_room_member(s, c.by, c.room)
  \o << Select({k}),
        Require(Has(s, k, "room", c.room) /\ ~Has(s, k, "status", "pending_upload"),
                "AttachmentNotFound") >>
-----------------------------------------------------------------------------
(* Read positions.                                                         *)

latest_room_event_seq(s, r) ==
  Cardinality({k \in Events(Home(r)) : Has(s, k, "room", r)})

get_or_create_read_state(s, u, r) ==
  << Select({RoomReadState(r, u)}),
     IF Exists(s, RoomReadState(r, u)) THEN Pass
     ELSE Insert(RoomReadState(r, u), [last_read |-> 0]) >>

\* Mutant: the position the user already has is not looked at.
ReadNothing(s, r, u) == 0

LastRead(s, r, u) ==
  IF Exists(s, RoomReadState(r, u)) THEN Row(s, RoomReadState(r, u)).last_read ELSE 0

update_room_read_state(s, c) ==
  LET k == RoomReadState(c.room, c.by)
      forward == c.seq > LastRead(s, c.room, c.by)
      event == NewEvent(c.room, "room.read_state_updated", k, c.seq)
  IN  ensure_room_member(s, c.by, c.room)
      \o << Select(Events(Home(c.room))),
            Require(c.seq <= latest_room_event_seq(s, c.room), "ReadStateAheadOfRoom") >>
      \o get_or_create_read_state(s, c.by, c.room)
      \o << IF forward THEN Update(k, [last_read |-> c.seq]) ELSE Commit,
            IF forward THEN Pass ELSE Refresh(k),
            IF forward THEN Pass ELSE Return >>
      \o create_message_event(s, event)
      \o << Commit >>

list_room_read_states(s, c) ==
  ensure_room_member(s, c.by, c.room)
  \o << Select({RoomReadState(c.room, v) : v \in Users}) >>
-----------------------------------------------------------------------------
(* Notifications.                                                          *)

list_user_notifications(s, c) == << Select({Notification(c.by, m) : m \in Messages}) >>

unread_notification_count(s, c) == list_user_notifications(s, c)

MarkRead(s, k) == Assign(s, k, [read |-> TRUE])

mark_notification_read(s, c) ==
  LET k == Notification(c.owner, c.message) IN
  << Select({k}),
     Require(Exists(s, k) /\ c.owner = c.by, "NotificationNotFound"),
     IF Has(s, k, "read", TRUE) THEN Return ELSE MarkRead(s, k), Commit >>

mark_all_notifications_read(s, c) ==
  LET K == {Notification(c.by, m) : m \in Messages}
      unread == {k \in K : Has(s, k, "read", FALSE)}
  IN  << Select(K), IF unread = {} THEN Return ELSE UpdateAll(unread, [read |-> TRUE]),
         Commit >>
=============================================================================
