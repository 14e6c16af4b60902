-------------------------- MODULE WorkspaceService --------------------------
(***************************************************************************)
(* The statements of the workspace, room, conversation and friend          *)
(* endpoints: services/workspace.py, conversation.py and friend.py with    *)
(* the routes that call them.  s is what the session has loaded, c the     *)
(* call: c.by the current user, c.ws, c.room and c.user what it names.     *)
(* A service function is a sequence of statements; an endpoint adds the    *)
(* exceptions it turns into an answer.                                     *)
(* A room is the pair of its workspace and its slug.  Audit rows, which    *)
(* are only ever added, columns no condition reads, and the reads after    *)
(* the last commit that only fill in the answer are left out.              *)
(***************************************************************************)
EXTENDS Transactions

CONSTANTS Net,     \* the workspace with CONVERSATION_WORKSPACE_SLUG
          Users,   \* users there may be
          Rooms    \* rooms there may be

User(u) == <<"users", u>>
Workspace(w) == <<"workspaces", w>>
Membership(w, u) == <<"memberships", w, u>>
Room(r) == <<"rooms", r>>
RoomMember(r, u) == <<"room_members", r, u>>
UserContact(u, v) == <<"user_contacts", u, v>>

Home(r) == r[1]
RoomsOf(w) == {r \in Rooms : Home(r) = w}
Plain == [row |-> "row"]
Owner == [role |-> "owner"]
Member == [role |-> "member"]
Role(s, k) == IF Exists(s, k) THEN Row(s, k).role ELSE "none"
Active(s, u) == Has(s, User(u), "is_active", TRUE)
AsRole(role) == [role |-> role]
\* What an endpoint answers with when it raises it itself.
HttpExceptions == {"Unauthorized", "Forbidden", "InvalidCredentials",
                   "InvalidRefreshToken", "InvalidSecret", "LastSystemAdmin"}
Handler(body, catches) == [body |-> body, catches |-> catches \cup HttpExceptions]
\* The dependency of every endpoint for signed-in users; the access token
\* names the user, who must still be active.
get_current_user(s, c) ==
  << Select({User(c.by)}), Require(Active(s, c.by), "Unauthorized") >>
Authenticated(s, c, body, catches) == Handler(get_current_user(s, c) \o body, catches)
-----------------------------------------------------------------------------
(* Checks and helpers.                                                     *)

get_workspace_for_user(s, u, w) ==
  << Select({Membership(w, u)}),
     Require(Exists(s, Membership(w, u)), "WorkspaceNotFound") >>

require_workspace_owner(s, u, w) ==
  get_workspace_for_user(s, u, w) \o
  << Require(Role(s, Membership(w, u)) = "owner", "WorkspaceOwnerRequired") >>

get_workspace_membership_with_user(s, w, u) ==
  << Select({Membership(w, u)}),
     Require(Exists(s, Membership(w, u)), "WorkspaceMemberNotFound") >>

\* Mutant: the owner who loses the role is counted too.
AnyOwner(s, k, others, error) ==
  << IF Role(s, k) = "owner" THEN Select(others) ELSE Pass,
     Require(Role(s, k) = "owner" => \E o \in others \cup {k} : Role(s, o) = "owner", error) >>

\* Before the owner with row k loses the role: is there one among the others?
AnotherOwner(s, k, others, error) ==
  << IF Role(s, k) = "owner" THEN Select(others) ELSE Pass,
     Require(Role(s, k) = "owner" => \E o \in others : Role(s, o) = "owner", error) >>

ensure_workspace_has_another_owner(s, w, u) ==
  AnotherOwner(s, Membership(w, u), {Membership(w, v) : v \in Users \ {u}},
               "WorkspaceLastOwner")

get_room_for_user(s, u, r) ==
  << Select({Room(r), Membership(Home(r), u), RoomMember(r, u)}),
     Require(Exists(s, Room(r)) /\ Exists(s, Membership(Home(r), u)),
             "RoomNotFound") >>

require_room_manager(s, u, r) ==
  << IF Role(s, RoomMember(r, u)) = "owner" THEN Pass
     ELSE Select({Membership(Home(r), u)}),
     Require(\/ Role(s, RoomMember(r, u)) = "owner"
             \/ Exists(s, Membership(Home(r), u)), "WorkspaceNotFound"),
     Require("owner" \in {Role(s, RoomMember(r, u)),
                          Role(s, Membership(Home(r), u))}, "RoomOwnerRequired") >>

get_room_member_with_user(s, r, u) ==
  << Select({RoomMember(r, u)}),
     Require(Exists(s, RoomMember(r, u)), "RoomMemberNotFound") >>

ensure_room_has_another_owner(s, r, u) ==
  AnotherOwner(s, RoomMember(r, u), {RoomMember(r, v) : v \in Users \ {u}},
               "RoomLastOwner")

\* Select, then insert or overwrite the role.
Upsert(s, k, role) ==
  << Select({k}),
     IF Exists(s, k) THEN Assign(s, k, AsRole(role)) ELSE Insert(k, AsRole(role)) >>

ensure_workspace_membership(s, w, u) ==
  << Select({Membership(w, u)}),
     IF Exists(s, Membership(w, u)) THEN Pass
     ELSE Insert(Membership(w, u), Member) >>

\* With keep_existing_owner, as every caller asks.
ensure_room_membership(s, r, u, role) ==
  LET k == RoomMember(r, u) IN
  << Select({k}),
     IF ~Exists(s, k) THEN Insert(k, AsRole(role))
     ELSE IF Role(s, k) = "owner" THEN Pass ELSE Assign(s, k, AsRole(role)) >>

ensure_contact(s, u, v) ==
  << Select({UserContact(u, v)}),
     IF Exists(s, UserContact(u, v)) THEN Pass
     ELSE Insert(UserContact(u, v), Plain) >>

ensure_mutual_contacts(s, u, v) == ensure_contact(s, u, v) \o ensure_contact(s, v, u)

direct_conversation_slug(u, v) == <<"dm", {u, v}>>
-----------------------------------------------------------------------------
(* Workspaces.                                                             *)

create_workspace(s, c) ==
  << InsertOr(Workspace(c.ws), Plain, "SlugAlreadyExists"),
     InsertOr(Membership(c.ws, c.by), Owner, "SlugAlreadyExists"),
     Commit >>

add_workspace_member(s, c) ==
  LET k == Membership(c.ws, c.user) IN
  require_workspace_owner(s, c.by, c.ws)
  \o << Select({User(c.user)}), Require(Exists(s, User(c.user)), "UserNotFound") >>
  \o Upsert(s, k, c.role)
  \o << Commit, Refresh(k) >>

list_workspaces(s, c) == << Select({k \in Keys : k[1] = "memberships" /\ k[3] = c.by}) >>

list_workspace_members(s, c) ==
  get_workspace_for_user(s, c.by, c.ws)
  \o << Select({Membership(c.ws, v) : v \in Users}) >>

update_workspace_member_role(s, c) ==
  LET k == Membership(c.ws, c.user) IN
  require_workspace_owner(s, c.by, c.ws)
  \o get_workspace_membership_with_user(s, c.ws, c.user)
  \o (IF c.role = "owner" THEN << >>
      ELSE ensure_workspace_has_another_owner(s, c.ws, c.user))
  \o << Assign(s, k, AsRole(c.role)), Commit, Refresh(k) >>

\* Mutant: the memberships of the workspace's rooms stay.
RemoveFromWorkspaceOnly(s, c) ==
  require_workspace_owner(s, c.by, c.ws)
  \o get_workspace_membership_with_user(s, c.ws, c.user)
  \o ensure_workspace_has_another_owner(s, c.ws, c.user)
  \o << Delete(Membership(c.ws, c.user)), Commit >>

remove_workspace_member(s, c) ==
  require_workspace_owner(s, c.by, c.ws)
  \o get_workspace_membership_with_user(s, c.ws, c.user)
  \o ensure_workspace_has_another_owner(s, c.ws, c.user)
  \o << DeleteWhere({RoomMember(r, c.user) : r \in RoomsOf(c.ws)}),
        Delete(Membership(c.ws, c.user)), Commit >>
-----------------------------------------------------------------------------
(* Rooms.                                                                  *)

create_room(s, u, r) ==
  get_workspace_for_user(s, u, Home(r))
  \o << InsertOr(Room(r), Plain, "SlugAlreadyExists"),
        InsertOr(RoomMember(r, u), Owner, "SlugAlreadyExists"),
        Commit >>

start_direct_conversation(s, u, w, v) ==
  LET r == <<w, direct_conversation_slug(u, v)>> IN
  get_workspace_for_user(s, u, w)
  \o << Select({User(v)}), Require(Active(s, v), "UserNotFound"),
        Require(u # v, "SelfConversation") >>
  \o ensure_workspace_membership(s, w, v)
  \o ensure_mutual_contacts(s, u, v)
  \o << Select({Room(r)}), IF Exists(s, Room(r)) THEN Pass ELSE Insert(Room(r), Plain) >>
  \o ensure_room_membership(s, r, u, "owner")
  \o ensure_room_membership(s, r, v, "member")
  \o << Commit >>

add_room_member(s, c) ==
  LET k == RoomMember(c.room, c.user) IN
  get_room_for_user(s, c.by, c.room)
  \o require_room_manager(s, c.by, c.room)
  \o << Select({User(c.user)}), Require(Exists(s, User(c.user)), "UserNotFound"),
        Select({Membership(Home(c.room), c.user)}),
        Require(Exists(s, Membership(Home(c.room), c.user)),
                "WorkspaceMembershipRequired") >>
  \o Upsert(s, k, c.role)
  \o << Commit, Refresh(k) >>

invite_room_member_by_email(s, u, r, v, role) ==
  get_room_for_user(s, u, r)
  \o require_room_manager(s, u, r)
  \o << Select({User(v)}), Require(Active(s, v), "UserNotFound"),
        Require(u # v, "SelfConversation") >>
  \o ensure_workspace_membership(s, Home(r), v)
  \o ensure_room_membership(s, r, v, role)
  \o << Commit, Refresh(RoomMember(r, v)) >>

update_room_member_role(s, c) ==
  LET k == RoomMember(c.room, c.user) IN
  get_room_for_user(s, c.by, c.room)
  \o require_room_manager(s, c.by, c.room)
  \o get_room_member_with_user(s, c.room, c.user)
  \o (IF c.role = "owner" THEN << >>
      ELSE ensure_room_has_another_owner(s, c.room, c.user))
  \o << Assign(s, k, AsRole(c.role)), Commit, Refresh(k) >>

remove_room_member(s, c) ==
  get_room_for_user(s, c.by, c.room)
  \o require_room_manager(s, c.by, c.room)
  \o get_room_member_with_user(s, c.room, c.user)
  \o ensure_room_has_another_owner(s, c.room, c.user)
  \o << Delete(RoomMember(c.room, c.user)), Commit >>

list_rooms(s, c) ==
  get_workspace_for_user(s, c.by, c.ws)
  \o << Select({Room(r) : r \in RoomsOf(c.ws)}) >>

list_room_members(s, c) ==
  get_room_for_user(s, c.by, c.room)
  \o << Require(Exists(s, RoomMember(c.room, c.by)), "RoomNotFound"),
        Select({RoomMember(c.room, v) : v \in Users}) >>

join_room(s, c) ==
  LET k == RoomMember(c.room, c.by) IN
  get_room_for_user(s, c.by, c.room)
  \o << IF Exists(s, k) THEN Return ELSE Insert(k, Member),
        Commit >>

leave_room(s, c) ==
  LET k == RoomMember(c.room, c.by) IN
  get_room_for_user(s, c.by, c.room)
  \o << IF Exists(s, k) THEN DeleteWhere({k}) ELSE Return,
        Commit >>
-----------------------------------------------------------------------------
(* Conversations outside workspaces, which live in one workspace of their  *)
(* own, and friends.                                                       *)

ensure_conversation_workspace(s, u) ==
  << Select({Workspace(Net)}),
     IF Exists(s, Workspace(Net)) THEN Pass
     ELSE InsertOr(Workspace(Net), Plain, "SlugAlreadyExists") >>
  \o ensure_workspace_membership(s, Net, u)
  \o << Commit >>

start_global_direct_conversation(s, c) ==
  ensure_conversation_workspace(s, c.by)
  \o start_direct_conversation(s, c.by, Net, c.user)

list_conversations(s, c) ==
  ensure_conversation_workspace(s, c.by)
  \o << Select({RoomMember(r, c.by) : r \in RoomsOf(Net)}) >>

\* Mutant: addresses are looked up only when the invitation is sent.
ValidateNothing(s, c) == << >>

\* The bodies one after the other; all are as long as the first.  As the member
\* of a set they are values, and TLC evaluates each of them once.
Joined(t) ==
  LET n == IF t = << >> THEN 1 ELSE Len(t[1]) IN
  [j \in 1..n * Len(t) |-> t[1 + (j - 1) \div n][1 + ((j - 1) % n)]]
InTurn(bodies) == CHOOSE b \in {Joined(t) : t \in {<< >> \o bodies}} : TRUE

\* What is done for address v of those given, which do not repeat: nothing for
\* the current user's own.
Invited(c, v, body) == IF v = c.by THEN [i \in DOMAIN body |-> Pass] ELSE body

validate_group_invite_emails(s, c) ==
  InTurn([i \in DOMAIN c.users |-> Invited(c, c.users[i],
    << Select({User(c.users[i])}), Require(Active(s, c.users[i]), "UserNotFound") >>)])

\* Every invitation is a transaction of its own.
create_group_conversation(s, c, id) ==
  LET r == <<Net, <<"group", id>>>> IN
  ensure_conversation_workspace(s, c.by)
  \o validate_group_invite_emails(s, c)
  \o create_room(s, c.by, r)
  \o InTurn([i \in DOMAIN c.users |-> Invited(c, c.users[i],
       invite_room_member_by_email(s, c.by, r, c.users[i], "member"))])

list_friends(s, c) == << Select({UserContact(c.by, v) : v \in Users}) >>

add_friend_by_email(s, c) ==
  << Select({User(c.user)}), Require(Active(s, c.user), "UserNotFound"),
     Require(c.by # c.user, "SelfFriend") >>
  \o ensure_mutual_contacts(s, c.by, c.user)
  \o << Commit, Refresh(UserContact(c.by, c.user)) >>

\* Mutant: the other's row stays.
RemoveOneWay(s, c) ==
  << Select({UserContact(c.by, c.user)}),
     Require(Exists(s, UserContact(c.by, c.user)), "FriendNotFound"),
     DeleteWhere({UserContact(c.by, c.user)}), Commit >>

remove_friend(s, c) ==
  << Select({UserContact(c.by, c.user)}),
     Require(Exists(s, UserContact(c.by, c.user)), "FriendNotFound"),
     DeleteWhere({UserContact(c.by, c.user)}),
     DeleteWhere({UserContact(c.user, c.by)}), Commit >>
=============================================================================
