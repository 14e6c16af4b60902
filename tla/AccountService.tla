--------------------------- MODULE AccountService ---------------------------
(***************************************************************************)
(* The statements of the account, administration and app endpoints:        *)
(* services/auth.py, auth_session.py and app.py, routes/auth.py and        *)
(* system.py, and scripts/bootstrap_system_admin.py.                       *)
(*                                                                         *)
(* A refresh token is named by the row kept for it, an API key or webhook  *)
(* secret by its row; passwords and secrets that do not match are left     *)
(* out: they find no row and nothing happens.  The ids of new rows are the *)
(* numbers of the calls that create them.  An app is the pair of its       *)
(* workspace and its slug, and has one bot.                                *)
(***************************************************************************)
EXTENDS MessageService

AuthSession(x) == <<"auth_sessions", x>>
App(a) == <<"apps", a>>
ApiKey(x) == <<"api_keys", x>>
IncomingWebhook(x) == <<"incoming_webhooks", x>>

AllUsers == {User(u) : u \in Users}
Account(admin) == [is_active |-> TRUE, is_system_admin |-> admin]
Nowhere == <<"no workspace", "nothing">>
AppOf(s, k) == IF Exists(s, k) THEN Row(s, k).app ELSE Nowhere
RoomOf(s, k) == IF Exists(s, k) THEN Row(s, k).room ELSE Nowhere
\* An UPDATE of columns no condition reads (last_used_at, password_hash).
Touch(k) == Update(k, NoRows)
-----------------------------------------------------------------------------
(* Sign-in.                                                                *)

create_token_pair(u, id) ==
  << Insert(AuthSession(id), [user |-> u, revoked |-> FALSE]), Commit >>

\* With first_user_system_admin, the default.
register_user(s, c) ==
  << Count(AllUsers),
     InsertOr(User(c.by), Account(\A k \in AllUsers : ~Exists(s, Counted(k))),
              "EmailAlreadyRegistered"),
     Commit >>

authenticate_user(s, c) ==
  << Select({User(c.by)}), Require(Active(s, c.by), "InvalidCredentials") >>

\* The session found is marked as used: an UPDATE before the next SELECT.
get_active_auth_session_for_refresh_token(s, c, error) ==
  << Select({AuthSession(c.session)}),
     IF Has(s, AuthSession(c.session), "revoked", FALSE) THEN Pass ELSE error >>

refresh(s, c, id) ==
  get_active_auth_session_for_refresh_token(s, c, Raise("InvalidRefreshToken"))
  \o << Touch(AuthSession(c.session)),
        Select({User(c.by)}), Require(Active(s, c.by), "InvalidRefreshToken"),
        Update(AuthSession(c.session), [revoked |-> TRUE]) >>
  \o create_token_pair(c.by, id)

revoke_refresh_token_session(s, c) ==
  get_active_auth_session_for_refresh_token(s, c, Return)
  \o << Update(AuthSession(c.session), [revoked |-> TRUE]), Commit >>

list_active_auth_sessions(s, c) ==
  << Select({k \in Keys : k[1] = "auth_sessions"}) >>

revoke_user_auth_session(s, c) ==
  LET k == AuthSession(c.session) IN
  << Select({k}),
     Require(Has(s, k, "user", c.by) /\ Has(s, k, "revoked", FALSE), "AuthSessionNotFound"),
     Update(k, [revoked |-> TRUE]), Commit >>
-----------------------------------------------------------------------------
(* System administrators.                                                  *)

get_current_system_admin(s, c) ==
  get_current_user(s, c)
  \o << Require(Has(s, User(c.by), "is_system_admin", TRUE), "Forbidden") >>

\* Mutant: the user is counted too.
EnsureAnActiveSystemAdmin(s, is_one) ==
  LET admins == {k \in AllUsers : /\ Has(s, Counted(k), "is_system_admin", TRUE)
                                  /\ Has(s, Counted(k), "is_active", TRUE)}
  IN  << IF is_one THEN Count(AllUsers) ELSE Pass,
         Require(is_one => admins # {}, "LastSystemAdmin") >>

\* When the user is one: the count must find another.
ensure_not_last_active_system_admin(s, is_one) ==
  LET admins == {k \in AllUsers : /\ Has(s, Counted(k), "is_system_admin", TRUE)
                                  /\ Has(s, Counted(k), "is_active", TRUE)}
  IN  << IF is_one THEN Count(AllUsers) ELSE Pass,
         Require(is_one => Cardinality(admins) > 1, "LastSystemAdmin") >>

\* c.change gives the fields of the request.  An administrator who names
\* himself gets the object already loaded.
update_system_user(s, c) ==
  LET k == User(c.user)
      changes(f) == f \in DOMAIN c.change /\ Exists(s, k) /\ ~Has(s, k, f, c.change[f])
      drops(f) == changes(f) /\ ~c.change[f]
      promoted == changes("is_system_admin") /\ c.change["is_system_admin"]
      stays == ~drops("is_system_admin") /\ Has(s, k, "is_system_admin", TRUE)
      set(f) == IF changes(f) THEN Update(k, [x \in {f} |-> c.change[f]]) ELSE Pass
  IN  << IF c.user = c.by THEN Pass ELSE Select({k}),
         Require(Exists(s, k), "UserNotFound") >>
      \o ensure_not_last_active_system_admin(s,
           drops("is_system_admin") /\ Has(s, k, "is_active", TRUE))
      \o << set("is_system_admin") >>
      \o ensure_not_last_active_system_admin(s,
           drops("is_active") /\ (stays \/ promoted))
      \o << set("is_active"), Commit >>

bootstrap_system_admin(s, c) ==
  LET k == User(c.by) IN
  << Select({k}),
     IF Exists(s, k) THEN Update(k, Account(TRUE)) ELSE Insert(k, Account(TRUE)),
     Commit >>
-----------------------------------------------------------------------------
(* Apps and their secrets.                                                 *)

create_app(s, c) ==
  require_workspace_owner(s, c.by, Home(c.app))
  \o << InsertOr(App(c.app), Plain, "AppSlugAlreadyExists"),
        InsertOr(Bot(c.app), Plain, "AppSlugAlreadyExists"), Commit >>

list_workspace_apps(s, c) ==
  require_workspace_owner(s, c.by, c.ws)
  \o << Select({k \in Keys : k[1] = "apps"}) >>

get_app_for_owner(s, c) ==
  << Select({App(c.app)}), Require(Exists(s, App(c.app)), "AppNotFound") >>
  \o require_workspace_owner(s, c.by, Home(c.app))

get_bot_for_app(s, a) ==
  << Select({Bot(a)}), Require(Exists(s, Bot(a)), "BotNotFound") >>

create_api_key(s, c, id) ==
  get_app_for_owner(s, c)
  \o << Insert(ApiKey(id), [app |-> c.app, revoked |-> FALSE]), Commit >>

create_incoming_webhook(s, c, id) ==
  get_app_for_owner(s, c)
  \o get_bot_for_app(s, c.app)
  \o << Select({Room(c.room)}),
        Require(Exists(s, Room(c.room)) /\ Home(c.room) = Home(c.app), "RoomNotFound"),
        Insert(IncomingWebhook(id),
               [app |-> c.app, room |-> c.room, revoked |-> FALSE]),
        Commit >>

list_api_keys(s, c) ==
  get_app_for_owner(s, c) \o << Select({k \in Keys : k[1] = "api_keys"}) >>

list_incoming_webhooks(s, c) ==
  get_app_for_owner(s, c) \o << Select({k \in Keys : k[1] = "incoming_webhooks"}) >>

Revoke(s, c, k, error) ==
  << Select({k}), Require(Has(s, k, "app", c.app), error),
     IF Has(s, k, "revoked", TRUE) THEN Return ELSE Update(k, [revoked |-> TRUE]),
     Commit >>

revoke_api_key(s, c) ==
  get_app_for_owner(s, c) \o Revoke(s, c, ApiKey(c.key), "ApiKeyNotFound")

revoke_incoming_webhook(s, c) ==
  get_app_for_owner(s, c)
  \o Revoke(s, c, IncomingWebhook(c.key), "IncomingWebhookNotFound")

\* Mutant: a revoked secret is as good as any.
FindSecret(s, k) ==
  << Select({k}), Require(Exists(s, k), "InvalidSecret"), Touch(k), Commit >>

\* The use is committed before the message is begun.
AuthenticateSecret(s, k) ==
  << Select({k}), Require(Has(s, k, "revoked", FALSE), "InvalidSecret"),
     Touch(k), Commit >>

authenticate_api_key(s, x) == AuthenticateSecret(s, ApiKey(x))

authenticate_incoming_webhook(s, x) == AuthenticateSecret(s, IncomingWebhook(x))
=============================================================================
