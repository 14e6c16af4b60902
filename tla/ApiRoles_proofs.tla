---------------------------- MODULE ApiRoles_proofs ---------------------------
(***************************************************************************)
(* Proofs about the roles ApiRules speaks of: there stays an administrator *)
(* of the system, and an owner of each room and workspace, which stand on  *)
(* a count of rows that nothing locks; and members of a room are members   *)
(* of its workspace, for which no constraint stands.                       *)
(***************************************************************************)
EXTENDS ApiRules_proofs

(* The statements that write accounts.                                     *)

Nobody(s) == \A k \in AllUsers : ~Exists(s, Counted(k))

LEMMA RegisterBody ==
  ASSUME NEW r, r.args.op = "register", NEW s
  PROVE  LET b == Statements(r, s)
             u == r.args.by
         IN  /\ Len(b) = 5 /\ b[1] = Count(AllUsers) /\ b[3] = Commit
             /\ b[4] = Insert(AuthSession(r.id), [user |-> u, revoked |-> FALSE])
             /\ b[5] = Commit /\ b[2].do = "insert"
             /\ b[2].row.is_system_admin = TRUE => Nobody(s)
<1> DEFINE u == r.args.by
           x == InsertOr(User(u), Account(Nobody(s)), "EmailAlreadyRegistered")
           y == Insert(AuthSession(r.id), [user |-> u, revoked |-> FALSE])
           n == Count(AllUsers)
           z == Commit
<1>1. Statements(r, s) = register_user(s, r.args) \o create_token_pair(u, r.id)
  BY DEF Statements, ApiEndpoint, register, Handler
<1>2. register_user(s, r.args) = << n, x, z >>
  BY DEF register_user, Nobody
<1>3. create_token_pair(u, r.id) = << y, z >>
  BY DEF create_token_pair
<1>4. x.do = "insert" /\ (x.row.is_system_admin = TRUE => Nobody(s))
  <2> DEFINE adm == Nobody(s)
  <2>1. x = InsertOr(User(u), Account(adm), "EmailAlreadyRegistered")
    OBVIOUS
  <2> HIDE DEF adm, x
  <2>2. x.do = "insert" /\ x.row.is_system_admin = adm
    BY <2>1 DEF InsertOr, Statement, Account
  <2> QED
    BY <2>2 DEF adm
<1> HIDE DEF u, x, y, n, z
<1>5. LET b == Statements(r, s) IN
      Len(b) = 5 /\ b[1] = n /\ b[2] = x /\ b[3] = z /\ b[4] = y /\ b[5] = z
  BY <1>1, <1>2, <1>3
<1> QED
  BY <1>4, <1>5 DEF u, y, n, z

LEMMA BootstrapBody ==
  ASSUME NEW r, r.args.op = "bootstrap", NEW s
  PROVE  LET b == Statements(r, s)
             k == User(r.args.by)
         IN  /\ Len(b) = 3 /\ b[1] = Select({k}) /\ b[3] = Commit
             /\ b[2] \in {Update(k, Account(TRUE)), Insert(k, Account(TRUE))}
<1> DEFINE k == User(r.args.by)
           x == Update(k, Account(TRUE))
           y == Insert(k, Account(TRUE))
           n == Select({k})
           z == Commit
<1>1. Statements(r, s) = << n, IF Exists(s, k) THEN x ELSE y, z >>
  BY DEF Statements, ApiEndpoint, bootstrap_script, Handler, bootstrap_system_admin
<1> HIDE DEF k, x, y, n, z
<1>2. LET b == Statements(r, s) IN
      Len(b) = 3 /\ b[1] = n /\ b[2] \in {x, y} /\ b[3] = z
  BY <1>1
<1> QED
  BY <1>2 DEF k, x, y, n, z

\* What a statement does to the account of k.
LEMMA RegisterAlters ==
  ASSUME NEW r, NEW s, NEW i \in 1..Len(Statements(r, s)), NEW k \in AllUsers,
         Alters(Statements(r, s)[i], k), r.args.op = "register"
  PROVE  i = 2 /\ Statements(r, s)[i].do = "insert"
<1> DEFINE b == Statements(r, s)
           y == Insert(AuthSession(r.id), [user |-> r.args.by, revoked |-> FALSE])
<1>1. /\ i \in 1..5 /\ b[1] = Count(AllUsers) /\ b[3] = Commit /\ b[4] = y /\ b[5] = Commit
      /\ b[2].do = "insert" /\ Alters(b[i], k)
  BY RegisterBody
<1>2. /\ ~Alters(Count(AllUsers), k) /\ ~Alters(Commit, k) /\ ~Alters(y, k)
  <2>1. k # AuthSession(r.id)
    BY DEF AllUsers, User, AuthSession
  <2> QED
    BY <2>1, Kinds DEF Alters, Writing, Insert, InsertOr, Statement
<1> HIDE DEF b, y
<1>3. i = 2
  BY <1>1, <1>2
<1> QED
  BY <1>1, <1>3 DEF b

LEMMA BootstrapAlters ==
  ASSUME NEW r, NEW s, NEW i \in 1..Len(Statements(r, s)), NEW k \in AllUsers,
         Alters(Statements(r, s)[i], k), r.args.op = "bootstrap"
  PROVE  LET st == Statements(r, s)[i] IN
         st.do \in {"insert", "update"} /\ st.row = [is_active |-> TRUE, is_system_admin |-> TRUE]
<1> DEFINE b == Statements(r, s)
           l == User(r.args.by)
           row == [is_active |-> TRUE, is_system_admin |-> TRUE]
<1>1. /\ i \in 1..3 /\ b[1] = Select({l}) /\ b[3] = Commit
      /\ b[2] \in {Update(l, row), Insert(l, row)} /\ Alters(b[i], k)
  BY BootstrapBody DEF Account
<1>2. /\ ~Alters(Commit, k)
      /\ \A K : ~Alters(Select(K), k)
  BY Kinds DEF Alters, Writing
<1>3. /\ Insert(l, row).do = "insert" /\ Insert(l, row).row = row
      /\ Update(l, row).do = "update" /\ Update(l, row).row = row
  BY DEF Insert, InsertOr, Update, Statement
<1> HIDE DEF b, l, row
<1>4. i = 2
  BY <1>1, <1>2
<1>5. b[2].do \in {"insert", "update"} /\ b[2].row = row
  BY <1>1, <1>3
<1> QED
  BY <1>4, <1>5 DEF b, row

FieldRow(c, f) == [x \in {f} |-> c.change[f]]
LEMMA AdminAlters ==
  ASSUME NEW r, NEW s, NEW i \in 1..Len(Statements(r, s)), NEW k \in AllUsers,
         Alters(Statements(r, s)[i], k), r.args.op = "update_system_user"
  PROVE  LET st == Statements(r, s)[i]
             c == r.args
         IN  /\ i \in {8, 11} /\ k = User(c.user) /\ st.do = "update"
             /\ \E f \in {"is_system_admin", "is_active"} :
                  Changing(s, c, f) /\ st.row = FieldRow(c, f)
<1> DEFINE b == Statements(r, s)
           c == r.args
<1>1. AdminShape(b, s, c)
  BY AdminBody DEF Statements
<1>2. i \in {8, 11}
  <2>1. i \in 1..12 /\ b[i].do \in Writing
    BY <1>1 DEF AdminShape, Alters
  <2>2. /\ b[1].do = "select" /\ b[4].do \in {"pass", "select"} /\ b[12].do = "commit"
        /\ \A j \in {2, 3, 5, 7, 10} : b[j].do \in {"pass", "raise"}
        /\ \A j \in {6, 9} : b[j].do \in {"pass", "count"}
    BY AdminDoes DEF Statements
  <2> HIDE DEF b
  <2> QED
    BY <2>1, <2>2 DEF Writing
<1>3. PICK f \in {"is_system_admin", "is_active"} : b[i] = SetField(s, c, f)
  BY <1>1, <1>2 DEF AdminShape
<1>4. Changing(s, c, f)
  <2>1. ~Alters(Pass, k)
    BY Kinds DEF Alters, Writing
  <2> QED
    BY <1>3, <2>1 DEF SetField
<1>5. b[i] = Update(User(c.user), [x \in {f} |-> c.change[f]])
  BY <1>3, <1>4 DEF SetField
<1>6. \A a, row : Update(a, row).do = "update" /\ Update(a, row).keys = {a}
                  /\ Update(a, row).row = row
  BY DEF Update, Statement
<1>7. b[i].do = "update" /\ k = User(c.user) /\ b[i].row = FieldRow(c, f)
  BY <1>5, <1>6 DEF Alters, FieldRow
<1> HIDE DEF b
<1> QED
  BY <1>2, <1>4, <1>7 DEF b

-----------------------------------------------------------------------------
(* What the requests that write accounts know.                             *)

Calm(q) == \A k \in AllUsers : k \notin overtaken[q]
IsAdmin(d, k) == Value(d, k, "is_system_admin", TRUE) /\ Value(d, k, "is_active", TRUE)
Target(q) == User(call[q].args.user)
Another(q) == \E k \in AllUsers : k # Target(q) /\ IsAdmin(db, k)
NobodyYet == \A k \in AllUsers : db[k] = Absent

Registering(q) ==
  /\ pc[q] = 2 /\ current[q].row.is_system_admin = TRUE => NobodyYet
  /\ \A k \in AllUsers \cap DOMAIN writes[q] :
       db[k] = Absent /\ (writes[q][k].is_system_admin = TRUE => NobodyYet)
Bootstrapping(q) ==
  \A k \in AllUsers \cap DOMAIN writes[q] :
    writes[q][k].is_system_admin = TRUE /\ writes[q][k].is_active = TRUE
\* A field is as committed, or as the call changes it.
Given(q, f) ==
  LET k == Target(q) IN
  k \in AllUsers \cap DOMAIN writes[q] =>
    \/ writes[q][k][f] = db[k][f]
    \/ Changing(seen[q], call[q].args, f) /\ writes[q][k][f] = call[q].args.change[f]
Administering(q) ==
  /\ Target(q) \in AllUsers =>
       /\ pc[q] > 7 /\ Demotes(seen[q], call[q].args) => Another(q)
       /\ pc[q] > 10 /\ Deactivates(seen[q], call[q].args) => Another(q)
  /\ \A f \in {"is_system_admin", "is_active"} : Given(q, f)
Present(q) == \A k \in AllUsers \cap DOMAIN writes[q] : writes[q][k] # Absent
Accounting(q) ==
  /\ Present(q)
  /\ Op(q) = "bootstrap" => Bootstrapping(q)
  /\ Calm(q) /\ Op(q) = "register" => Registering(q)
  /\ Calm(q) /\ Op(q) = "update_system_user" => Administering(q)
AInv == TInv /\ \A q \in Requests : Open(q) => Accounting(q)

LEMMA AllUsersRows ==
  /\ AllUsers \subseteq Rows /\ AllUsers \subseteq Keys
  /\ \A k \in AllUsers : k[1] = "users" /\ Columns(k) = {"is_active", "is_system_admin"}
BY KeysAssumption DEF AllUsers, User, Rows, Schema, Columns

LEMMA AccountingAside ==
  ASSUME NEW q \in Requests, Accounting(q), Aside(q)
  PROVE  Accounting(q)'
<1>1. /\ pc'[q] = pc[q] /\ call'[q] = call[q] /\ current'[q] = current[q]
      /\ seen'[q] = seen[q] /\ writes'[q] = writes[q]
  BY DEF Aside
<1>2. ASSUME Calm(q)' PROVE Calm(q) /\ \A k \in AllUsers : db'[k] = db[k]
  BY <1>2, AllUsersRows DEF Aside, Calm, AllUsers
<1>3. Present(q)' /\ (Op(q) = "bootstrap" => Bootstrapping(q)')
  BY <1>1 DEF Accounting, Bootstrapping, Present, AllUsers
<1>4. ASSUME Calm(q)', Op(q) = "register" PROVE Registering(q)'
  BY <1>1, <1>2, <1>4 DEF Accounting, Registering, NobodyYet, AllUsers
<1>5. ASSUME Calm(q)', Op(q) = "update_system_user" PROVE Administering(q)'
  <2>1. Administering(q) /\ (Another(q) => Another(q)')
    BY <1>1, <1>2, <1>5 DEF Accounting, Another, IsAdmin, Value, Target, AllUsers
  <2>2. \A f : Given(q, f) => Given(q, f)'
    BY <1>1, <1>2, <1>5 DEF Given, Target, AllUsers, Changing
  <2>3. /\ Target(q)' = Target(q) /\ AllUsers' = AllUsers
        /\ Demotes(seen[q], call[q].args)' = Demotes(seen[q], call[q].args)
        /\ Deactivates(seen[q], call[q].args)' = Deactivates(seen[q], call[q].args)
    BY <1>1 DEF Target, AllUsers, Demotes, Deactivates, Dropping, Changing
  <2> QED
    BY <1>1, <2>1, <2>2, <2>3 DEF Administering
<1> QED
  BY <1>1, <1>3, <1>4, <1>5 DEF Accounting, Op

LEMMA AccountingArrives ==
  ASSUME Routed, NEW q \in Requests, Arrives(q)
  PROVE  Accounting(q)'
<1> DEFINE r == call'[q]
           b == Statements(r, seen'[q])
<1>1. writes'[q] = NoRows /\ DOMAIN NoRows = {}
  BY DEF Arrives, NoRows
<1>2. pc'[q] \in 1..Len(b) /\ (\A i \in 1..pc'[q] - 1 : b[i].do = "pass")
  BY DEF Arrives, Body, Statements, Routed
<1>3. ASSUME b[1].do # "pass" PROVE pc'[q] = 1
  <2>1. pc'[q] \in Nat /\ pc'[q] >= 1
    <3> HIDE DEF b
    <3> QED
      BY <1>2
  <2> QED
    BY <1>2, <1>3, <2>1
<1>4. ASSUME r.args.op = "register" PROVE Registering(q)'
  <2>1. b[1].do # "pass"
    <3>1. b[1] = Count(AllUsers)
      BY <1>4, RegisterBody, ZenonT(30)
    <3>2. \A K : Count(K).do = "count"
      BY Kinds
    <3> QED
      BY <3>1, <3>2
  <2> QED
    BY <1>1, <1>3, <2>1 DEF Registering
<1>5. ASSUME r.args.op = "update_system_user" PROVE Administering(q)'
  <2>1. b[1].do # "pass"
    BY <1>5, AdminDoes DEF Statements
  <2> QED
    BY <1>1, <1>3, <2>1 DEF Administering, Given
<1>6. Bootstrapping(q)' /\ Present(q)'
  BY <1>1 DEF Bootstrapping, Present
<1> QED
  BY <1>4, <1>5, <1>6 DEF Accounting, Op

\* The count of the accounts is what the request sees of them.
LEMMA CountTells ==
  ASSUME NEW q \in Requests, Tallied(q), current[q].keys = AllUsers, NEW k \in AllUsers
  PROVE  Row(seen'[q], Counted(k)) = Visible(q, k)
<1> DEFINE N == {Counted(j) : j \in AllUsers}
           found == [j \in AllUsers |-> Visible(q, j)]
<1>1. seen'[q] = Over([n \in N |-> found[n[2]]], seen[q])
  BY DEF Tallied
<1>2. Counted(k) \in N /\ Counted(k)[2] = k
  BY DEF Counted
<1> QED
  BY <1>1, <1>2 DEF Row, Over

\* Two administrators counted: one of them is not k.
LEMMA TwoCounted ==
  ASSUME NEW s, NEW k, Cardinality(AdminRows(s)) > 1
  PROVE  \E j \in AdminRows(s) : j # k
<1> SUFFICES ASSUME AdminRows(s) \subseteq {k} PROVE FALSE
  OBVIOUS
<1>1. AdminRows(s) = {} \/ AdminRows(s) = {k}
  OBVIOUS
<1>2. Cardinality({}) = 0 /\ Cardinality({k}) = 1
  BY FS_EmptySet, FS_Singleton
<1> QED
  BY <1>1, <1>2


LEMMA RowWritten ==
  ASSUME NEW q \in Requests, Effect(q), NEW k, Alters(current[q], k)
  PROVE  /\ current[q].do = "insert" => Visible(q, k) = Absent /\ writes'[q][k] = current[q].row
         /\ current[q].do = "update" =>
              Visible(q, k) # Absent /\ writes'[q][k] = Over(current[q].row, Visible(q, k))
         /\ db' = db /\ seen'[q] = seen[q]
<1>1. k \in current[q].keys /\ current[q].do \in Writing
  BY DEF Alters
<1>2. CASE current[q].do = "insert"
  <2>1. Added(q)
    BY <1>2 DEF Effect, Looked, Tallied, Reloaded, Changed, Dropped, Committed
  <2> QED
    BY <1>1, <1>2, <2>1 DEF Added, Over
<1>3. CASE current[q].do = "update"
  <2>1. Changed(q)
    BY <1>3 DEF Effect, Looked, Tallied, Reloaded, Added, Dropped, Committed
  <2>2. writes'[q][k] = Over(current[q].row, Visible(q, k))
    <3> DEFINE K == current[q].keys
               new == [j \in K |-> Over(current[q].row, Visible(q, j))]
    <3>1. writes'[q] = Over(new, writes[q])
      BY <2>1 DEF Changed
    <3>2. k \in DOMAIN new /\ new[k] = Over(current[q].row, Visible(q, k))
      BY <1>1
    <3> HIDE DEF new
    <3> QED
      BY <3>1, <3>2 DEF Over
  <2> QED
    BY <1>1, <1>3, <2>1, <2>2 DEF Changed
<1>4. CASE current[q].do \in {"delete", "delete_where"}
  <2>1. Dropped(q)
    BY <1>4 DEF Effect, Looked, Tallied, Reloaded, Added, Changed, Committed
  <2> QED
    BY <1>4, <2>1 DEF Dropped
<1> QED
  BY <1>1, <1>2, <1>3, <1>4 DEF Writing

LEMMA SameSeen ==
  ASSUME NEW q \in Requests, Effect(q), current[q].do # "select", NEW k \in Rows
  PROVE  Row(seen'[q], k) = Row(seen[q], k)
<1>1. k \in DOMAIN seen[q] => k \in DOMAIN seen'[q]
  BY DEF Effect, Looked, Tallied, Reloaded, Added, Changed, Dropped, Committed, Over
<1>2. k \in DOMAIN seen'[q] => k \in DOMAIN seen[q] /\ seen'[q][k] = seen[q][k]
  BY EffectSeen DEF Looked
<1> QED
  BY <1>1, <1>2 DEF Row

LEMMA NotCommitted ==
  ASSUME NEW q \in Requests, Effect(q), NEW k, k \in DOMAIN writes'[q]
  PROVE  db' = db
<1>1. ~Committed(q)
  BY DEF Committed, NoRows
<1> QED
  BY <1>1 DEF Effect, Looked, Tallied, Reloaded, Added, Changed, Dropped

\* q goes on over statements that stand for nothing.
LEMMA GoesOn ==
  ASSUME Routed, TInv, NEW q \in Requests, Goes(q)
  PROVE  LET r == call[q] IN
         /\ Open(q) /\ call'[q] = r /\ overtaken'[q] = overtaken[q] /\ RInv /\ SInv
         /\ pc[q] \in Nat \ {0} /\ pc'[q] \in Nat /\ pc'[q] > pc[q]
         /\ pc[q] \in 1..Len(Statements(r, seen[q]))
         /\ pc'[q] \in 1..Len(Statements(r, seen'[q]))
         /\ current[q] = Statements(r, seen[q])[pc[q]]
         /\ current'[q] = Statements(r, seen'[q])[pc'[q]]
         /\ current[q].do \notin Control /\ current'[q].do \notin Control
         /\ \A j \in Nat : pc[q] < j /\ j < pc'[q] => Statements(r, seen'[q])[j].do = "pass"
<1>1. Open(q) /\ RInv /\ SInv /\ call'[q] = call[q]
  BY DEF Goes, TInv, DInv, SInv, KInv
<1>2. /\ current[q] = Statements(call[q], seen[q])[pc[q]]
      /\ pc[q] \in 1..Len(Statements(call[q], seen[q])) /\ pc[q] \in Nat \ {0}
      /\ current[q].do \notin Control
  BY <1>1, CurrentIs DEF RInv, WInv, Placed, Open
<1>3. Body(q)' = Statements(call[q], seen'[q])
  BY <1>1 DEF Body, Statements, Routed
<1>4. /\ pc'[q] \in pc[q] + 1..Len(Statements(call[q], seen'[q]))
      /\ current'[q] = Statements(call[q], seen'[q])[pc'[q]]
      /\ current'[q].do \notin Control
      /\ \A i \in pc[q] + 1..pc'[q] - 1 : Statements(call[q], seen'[q])[i].do = "pass"
      /\ overtaken'[q] = overtaken[q]
  BY <1>3 DEF Goes
<1> DEFINE n == Len(Statements(call[q], seen'[q]))
<1> HIDE DEF n
<1>5. pc'[q] \in Nat /\ pc'[q] > pc[q] /\ pc'[q] \in 1..n
  BY <1>2, <1>4 DEF n
<1>6. \A j \in Nat : pc[q] < j /\ j < pc'[q] => j \in pc[q] + 1..pc'[q] - 1
  BY <1>2, <1>5
<1> QED
  BY <1>1, <1>2, <1>4, <1>5, <1>6 DEF n

LEMMA GoesFrom ==
  ASSUME Routed, AInv, NEW q \in Requests, Goes(q)
  PROVE  LET r == call[q] IN
         /\ Open(q) /\ call'[q] = r /\ overtaken'[q] = overtaken[q] /\ RInv /\ SInv
         /\ pc[q] \in Nat \ {0} /\ pc'[q] \in Nat /\ pc'[q] > pc[q] /\ Accounting(q)
         /\ pc[q] \in 1..Len(Statements(r, seen[q]))
         /\ pc'[q] \in 1..Len(Statements(r, seen'[q]))
         /\ current[q] = Statements(r, seen[q])[pc[q]]
         /\ current'[q] = Statements(r, seen'[q])[pc'[q]]
         /\ current[q].do \notin Control /\ current'[q].do \notin Control
         /\ \A j \in Nat : pc[q] < j /\ j < pc'[q] => Statements(r, seen'[q])[j].do = "pass"
BY GoesOn DEF AInv, Goes

LEMMA PresentKept ==
  ASSUME Routed, AInv, NEW q \in Requests, Goes(q), Effect(q)
  PROVE  Present(q)'
<1>1. /\ RInv /\ Present(q) /\ Open(q) /\ current[q] = Statements(call[q], seen[q])[pc[q]]
      /\ pc[q] \in 1..Len(Statements(call[q], seen[q]))
  BY GoesFrom DEF Accounting
<1>2. ASSUME NEW k \in AllUsers, k \in DOMAIN writes'[q] PROVE writes'[q][k] # Absent
  <2>1. CASE ~Alters(current[q], k)
    <3>1. k \in DOMAIN writes[q] /\ writes'[q][k] = writes[q][k]
      BY <1>1, <1>2, <2>1, EffectVisible, AllUsersRows DEF Visible
    <3> QED
      BY <1>1, <3>1 DEF Present
  <2>2. CASE Alters(current[q], k)
    <3>1. Safe(current[q], Tables(Op(q))) /\ k[1] = "users"
          /\ Columns(k) = {"is_active", "is_system_admin"}
      BY <1>1, Current, AllUsersRows DEF RInv
    <3>2. "users" \in Tables(Op(q))
      BY <2>2, <3>1 DEF Safe, Alters
    <3>3. Op(q) \in {"register", "bootstrap", "update_system_user"}
      BY <3>2 DEF Tables, WrittenBy
    <3>4. current[q].do \in {"insert", "update"}
      BY <1>1, <2>2, <3>3, RegisterAlters, BootstrapAlters, AdminAlters DEF Op
    <3>5. "is_active" \notin DOMAIN Absent
      BY DEF Absent
    <3>6. CASE current[q].do = "insert"
      BY <2>2, <3>1, <3>5, <3>6, RowWritten DEF Safe, Alters
    <3>7. CASE current[q].do = "update"
      <4>1. "is_active" \in DOMAIN Visible(q, k)
        BY <1>1, <2>2, <3>1, <3>7, RowWritten, AllUsersRows
           DEF RInv, TypedDb, RowsIn, OwnRows, Typed, Visible
      <4>2. "is_active" \in DOMAIN writes'[q][k]
        <5>1. writes'[q][k] = Over(current[q].row, Visible(q, k))
          BY <2>2, <3>7, RowWritten
        <5> DEFINE new == current[q].row
                   old == Visible(q, k)
        <5>2. "is_active" \in DOMAIN old /\ writes'[q][k] = Over(new, old)
          BY <4>1, <5>1
        <5> HIDE DEF new, old
        <5>3. "is_active" \in DOMAIN Over(new, old)
          BY <5>2 DEF Over
        <5> QED
          BY <5>2, <5>3
      <4> QED
        BY <3>5, <4>2
    <3> QED
      BY <3>4, <3>6, <3>7
  <2> QED
    BY <2>1, <2>2
<1> QED
  BY <1>2 DEF Present, AllUsers

LEMMA BootstrappingKept ==
  ASSUME Routed, AInv, NEW q \in Requests, Goes(q), Effect(q), Op(q) = "bootstrap"
  PROVE  Bootstrapping(q)'
<1>1. /\ RInv /\ Bootstrapping(q) /\ current[q] = Statements(call[q], seen[q])[pc[q]]
      /\ pc[q] \in 1..Len(Statements(call[q], seen[q]))
  BY GoesFrom DEF Accounting
<1>2. ASSUME NEW k \in AllUsers, k \in DOMAIN writes'[q]
      PROVE  writes'[q][k].is_system_admin = TRUE /\ writes'[q][k].is_active = TRUE
  <2>1. CASE ~Alters(current[q], k)
    <3>1. k \in DOMAIN writes[q] /\ writes'[q][k] = writes[q][k]
      BY <1>1, <1>2, <2>1, EffectVisible, AllUsersRows DEF Visible
    <3> QED
      BY <1>1, <3>1 DEF Bootstrapping
  <2>2. CASE Alters(current[q], k)
    <3> DEFINE row == [is_active |-> TRUE, is_system_admin |-> TRUE]
    <3>1. current[q].do \in {"insert", "update"} /\ current[q].row = row
      BY <1>1, <2>2, BootstrapAlters DEF Op
    <3>2. \/ writes'[q][k] = row
          \/ writes'[q][k] = Over(row, Visible(q, k))
      BY <2>2, <3>1, RowWritten
    <3>3. Over(row, Visible(q, k)).is_system_admin = TRUE /\ Over(row, Visible(q, k)).is_active = TRUE
      BY DEF Over
    <3> QED
      BY <3>2, <3>3
  <2> QED
    BY <2>1, <2>2
<1> QED
  BY <1>2 DEF Bootstrapping, AllUsers

LEMMA RegisteringKept ==
  ASSUME Routed, AInv, NEW q \in Requests, Goes(q), Effect(q), Op(q) = "register", Calm(q)
  PROVE  Registering(q)'
<1> DEFINE r == call[q]
<1>1. /\ RInv /\ Registering(q) /\ Open(q) /\ current[q] = Statements(r, seen[q])[pc[q]]
      /\ pc[q] \in 1..Len(Statements(r, seen[q])) /\ pc[q] \in Nat \ {0}
      /\ pc'[q] \in Nat /\ pc'[q] > pc[q]
      /\ current'[q] = Statements(r, seen'[q])[pc'[q]]
  BY GoesFrom DEF Accounting
<1>2. ASSUME pc'[q] = 2, current'[q].row.is_system_admin = TRUE PROVE NobodyYet'
  <2>1. pc[q] = 1 /\ r.args.op = "register"
    BY <1>1, <1>2 DEF Op
  <2>2. current[q] = Count(AllUsers) /\ (current'[q].row.is_system_admin = TRUE => Nobody(seen'[q]))
    <3> HIDE DEF r
    <3>1. ASSUME NEW s
          PROVE  /\ Statements(r, s)[1] = Count(AllUsers)
                 /\ Statements(r, s)[2].row.is_system_admin = TRUE => Nobody(s)
      BY <2>1, RegisterBody
    <3> QED
      BY <1>1, <1>2, <2>1, <3>1
  <2>3. Count(AllUsers).do = "count" /\ Count(AllUsers).keys = AllUsers
    BY DEF Count, Statement
  <2>4. Tallied(q) /\ current[q].keys = AllUsers
    BY <2>2, <2>3 DEF Effect, Looked, Reloaded, Added, Changed, Dropped, Committed
  <2>5. Nobody(seen'[q])
    BY <1>2, <2>2
  <2>6. writes[q] = NoRows /\ DOMAIN NoRows = {}
    BY <1>1, <2>1 DEF RInv, RowsIn, Untouched, NoRows
  <2>7. ASSUME NEW k \in AllUsers PROVE db[k] = Absent
    <3>1. Row(seen'[q], Counted(k)) = Visible(q, k)
      BY <2>4, CountTells
    <3>2. Row(seen'[q], Counted(k)) = Absent
      BY <2>5 DEF Nobody, Exists
    <3> QED
      BY <2>6, <3>1, <3>2 DEF Visible
  <2> QED
    BY <2>4, <2>7 DEF NobodyYet, Tallied, AllUsers
<1>3. ASSUME NEW k \in AllUsers, k \in DOMAIN writes'[q]
      PROVE  db[k] = Absent /\ (writes'[q][k].is_system_admin = TRUE => NobodyYet)
  <2>1. CASE ~Alters(current[q], k)
    <3>1. k \in DOMAIN writes[q] /\ writes'[q][k] = writes[q][k]
      BY <1>1, <1>3, <2>1, EffectVisible, AllUsersRows DEF Visible
    <3> QED
      BY <1>1, <3>1 DEF Registering
  <2>2. CASE Alters(current[q], k)
    <3>1. pc[q] = 2 /\ current[q].do = "insert"
      BY <1>1, <2>2, RegisterAlters DEF Op
    <3>2. Visible(q, k) = Absent /\ writes'[q][k] = current[q].row
      BY <2>2, <3>1, RowWritten
    <3> QED
      BY <1>1, <3>1, <3>2 DEF Registering, Visible
  <2> QED
    BY <2>1, <2>2
<1>4. ASSUME NEW k \in AllUsers, k \in DOMAIN writes'[q]
      PROVE  db'[k] = Absent /\ (writes'[q][k].is_system_admin = TRUE => NobodyYet')
  BY <1>3, <1>4, NotCommitted DEF NobodyYet, AllUsers
<1> QED
  BY <1>2, <1>4 DEF Registering, AllUsers


LEMMA CountedAnother ==
  ASSUME NEW q \in Requests, Tallied(q), current[q].keys = AllUsers,
         Cardinality(AdminRows(seen'[q])) > 1,
         \A j \in AllUsers : j # Target(q) => j \notin DOMAIN writes[q]
  PROVE  Another(q)
<1>1. PICK j \in AdminRows(seen'[q]) : j # Target(q)
  BY TwoCounted
<1>2. /\ j \in AllUsers /\ Has(seen'[q], Counted(j), "is_system_admin", TRUE)
      /\ Has(seen'[q], Counted(j), "is_active", TRUE)
  BY DEF AdminRows
<1>3. Row(seen'[q], Counted(j)) = db[j]
  BY <1>1, <1>2, CountTells DEF Visible
<1> QED
  BY <1>1, <1>2, <1>3 DEF Another, IsAdmin, Value, Has, Exists

\* What update_system_user counts for.
AdminCounts(b, s, c) ==
  /\ Demotes(s, c) => b[6] = Count(AllUsers)
  /\ Deactivates(s, c) => b[9] = Count(AllUsers)
  /\ b[6].do = "count" => b[6] = Count(AllUsers)
  /\ b[9].do = "count" => b[9] = Count(AllUsers)
  /\ b[7].do = "pass" /\ Demotes(s, c) => Cardinality(AdminRows(s)) > 1
  /\ b[10].do = "pass" /\ Deactivates(s, c) => Cardinality(AdminRows(s)) > 1

LEMMA AdminCount ==
  ASSUME NEW r, NEW s, r.args.op = "update_system_user"
  PROVE  AdminCounts(Statements(r, s), s, r.args)
<1> DEFINE c == r.args
           b == Statements(r, s)
           x == Demotes(s, c) => Cardinality(AdminRows(s)) > 1
           y == Deactivates(s, c) => Cardinality(AdminRows(s)) > 1
           st == Require(x, "LastSystemAdmin")
           sy == Require(y, "LastSystemAdmin")
<1>1. AdminShape(b, s, c)
  BY AdminBody DEF Statements
<1> HIDE DEF b, c
<1>2. b[7] = st /\ b[10] = sy
  BY <1>1 DEF AdminShape
<1>3. (st.do = "pass" => x) /\ (sy.do = "pass" => y)
  BY DEF Require, Raise, Statement
<1> HIDE DEF st, sy
<1>4. (b[7].do = "pass" => x) /\ (b[10].do = "pass" => y)
  BY <1>2, <1>3
<1>5. /\ b[6] = (IF Demotes(s, c) THEN Count(AllUsers) ELSE Pass)
      /\ b[9] = (IF Deactivates(s, c) THEN Count(AllUsers) ELSE Pass)
  BY <1>1 DEF AdminShape
<1>6. Pass.do = "pass"
  BY Kinds
<1> QED
  BY <1>4, <1>5, <1>6 DEF AdminCounts, b, c

LEMMA AdminSame ==
  ASSUME NEW s, NEW t, NEW c, Row(s, User(c.user)) = Row(t, User(c.user))
  PROVE  /\ \A f : Changing(s, c, f) <=> Changing(t, c, f)
         /\ Demotes(s, c) <=> Demotes(t, c)
         /\ Deactivates(s, c) <=> Deactivates(t, c)
<1>1. \A f, v : Has(s, User(c.user), f, v) <=> Has(t, User(c.user), f, v)
  BY DEF Has, Exists
<1>2. \A f : Changing(s, c, f) <=> Changing(t, c, f)
  BY <1>1 DEF Changing, Exists
<1> QED
  BY <1>1, <1>2 DEF Demotes, Deactivates, Dropping

LEMMA AdministeringKept ==
  ASSUME Routed, AInv, NEW q \in Requests, Goes(q), Effect(q),
         Op(q) = "update_system_user", Calm(q)
  PROVE  Administering(q)'
<1> DEFINE r == call[q]
           c == r.args
           k == Target(q)
<1>1. /\ RInv /\ SInv /\ Administering(q) /\ Open(q) /\ current[q] = Statements(r, seen[q])[pc[q]]
      /\ pc[q] \in Nat \ {0} /\ pc'[q] \in Nat /\ pc'[q] > pc[q] /\ call'[q] = r
      /\ current[q].do \notin Control
  BY GoesFrom DEF Accounting
<1>2. /\ \A j \in Nat : pc[q] < j /\ j < pc'[q] => Statements(r, seen'[q])[j].do = "pass"
      /\ pc[q] \in 1..Len(Statements(r, seen[q]))
      /\ pc'[q] \in 1..Len(Statements(r, seen'[q]))
  BY GoesFrom
<1>3. r.args.op = "update_system_user" /\ k = User(c.user)
  BY DEF Op, Target
<1>4. pc[q] < 12 /\ pc'[q] <= 12
  <2>1. \A s : Len(Statements(r, s)) = 12
    BY <1>3, AdminDoes DEF Statements
  <2>2. pc[q] \in 1..12 /\ pc'[q] \in 1..12
    BY <1>2, <2>1
  <2> QED
    BY <1>1, <2>2
<1> HIDE DEF r, c, k
<1>5. pc[q] \notin {2, 3, 5, 7, 10}
  <2>1. \A s : \A i \in {2, 3, 5, 7, 10} : Statements(r, s)[i].do \in {"pass", "raise"}
    BY <1>3, AdminDoes DEF Statements
  <2> QED
    BY <1>1, <2>1 DEF Control
<1>6. db' = db
  <2>1. \A i \in 1..11 : Statements(r, seen[q])[i].do # "commit"
    <3> DEFINE b == Statements(r, seen[q])
    <3>1. /\ b[1].do = "select" /\ b[4].do \in {"pass", "select"}
          /\ \A i \in {2, 3, 5, 7, 10} : b[i].do \in {"pass", "raise"}
          /\ \A i \in {6, 9} : b[i].do \in {"pass", "count"}
          /\ \A i \in {8, 11} : b[i].do \in {"pass", "update"}
      BY <1>3, AdminDoes DEF Statements
    <3> HIDE DEF b
    <3>2. \A i \in 1..11 : b[i].do # "commit"
      BY <3>1
    <3> QED
      BY <3>2 DEF b
  <2>2. current[q].do # "commit"
    BY <1>1, <1>4, <2>1
  <2> QED
    BY <2>2 DEF Effect, Looked, Tallied, Reloaded, Added, Changed, Dropped, Committed
<1>7. ASSUME k \in AllUsers, pc[q] > 4 PROVE Row(seen'[q], k) = Row(seen[q], k)
  <2>1. /\ \A i \in {5, 7, 10} : Statements(r, seen[q])[i].do \in {"pass", "raise"}
        /\ \A i \in {6, 9} : Statements(r, seen[q])[i].do \in {"pass", "count"}
        /\ \A i \in {8, 11} : Statements(r, seen[q])[i].do \in {"pass", "update"}
    BY <1>3, AdminDoes DEF Statements
  <2>2. pc[q] \in {5, 6, 7, 8, 9, 10, 11}
    BY <1>1, <1>4, <1>7
  <2>3. current[q].do # "select"
    BY <1>1, <2>1, <2>2
  <2> QED
    BY <1>7, <2>3, SameSeen, AllUsersRows
<1>8. ASSUME k \in AllUsers, pc[q] > 4
      PROVE  /\ \A f : Changing(seen'[q], c, f) <=> Changing(seen[q], c, f)
             /\ Demotes(seen'[q], c) <=> Demotes(seen[q], c)
             /\ Deactivates(seen'[q], c) <=> Deactivates(seen[q], c)
  BY <1>3, <1>7, <1>8, AdminSame
<1>9. ASSUME NEW j \in AllUsers, j # k \/ pc[q] <= 8 PROVE j \notin DOMAIN writes[q]
  <2>1. ASSUME NEW s, NEW i \in 1..Len(Statements(r, s)), Alters(Statements(r, s)[i], j)
        PROVE  i \in {8, 11} /\ j = k
    BY <1>3, <2>1, AdminAlters DEF c
  <2>2. CASE j # k
    <3>1. Late(r, j, 12)
      BY <2>1, <2>2 DEF Late
    <3> QED
      BY <1>1, <1>4, <3>1, LateNotWritten, AllUsersRows DEF r
  <2>3. CASE pc[q] <= 8
    <3>1. Late(r, j, 8)
      <4>1. \A i \in {8, 11} : ~(i < 8)
        OBVIOUS
      <4> QED
        BY <2>1, <4>1 DEF Late
    <3> QED
      BY <1>1, <2>3, <3>1, LateNotWritten, AllUsersRows DEF r
  <2> QED
    BY <1>9, <2>2, <2>3
<1>10. ASSUME NEW i \in {6, 9}, pc[q] = i PROVE Tallied(q) /\ current[q].keys = AllUsers
  <2>1. Count(AllUsers).keys = AllUsers /\ Count(AllUsers).do = "count"
    BY DEF Count, Statement
  <2>2. AdminCounts(Statements(r, seen[q]), seen[q], c)
    BY <1>3, AdminCount DEF c
  <2>3. current[q].do \in {"pass", "count"}
    <3>1. \A j \in {6, 9} : Statements(r, seen[q])[j].do \in {"pass", "count"}
      BY <1>3, AdminDoes DEF Statements
    <3> QED
      BY <1>1, <1>10, <3>1
  <2>4. current[q].do = "count"
    BY <1>1, <2>3 DEF Control
  <2>5. current[q] = Count(AllUsers)
    BY <1>1, <1>10, <2>2, <2>4 DEF AdminCounts
  <2> QED
    BY <2>1, <2>5 DEF Effect, Looked, Reloaded, Added, Changed, Dropped, Committed
<1>11. AdminCounts(Statements(r, seen'[q]), seen'[q], c) /\ Count(AllUsers).do = "count"
  BY <1>3, AdminCount, Kinds DEF c
<1>12. ASSUME k \in AllUsers, pc'[q] > 7, Demotes(seen'[q], c) PROVE Another(q)
  <2>1. CASE pc[q] > 7
    BY <1>1, <1>8, <1>12, <2>1 DEF Administering, c, r, k
  <2>2. CASE pc[q] <= 7
    <3>1. ~(pc[q] < 6)
      BY <1>1, <1>2, <1>11, <1>12 DEF AdminCounts
    <3>2. pc[q] = 6
      BY <1>1, <1>5, <2>2, <3>1
    <3>3. Cardinality(AdminRows(seen'[q])) > 1
      BY <1>2, <1>11, <1>12, <3>2 DEF AdminCounts
    <3> QED
      BY <1>9, <1>10, <3>2, <3>3, CountedAnother DEF k
  <2> QED
    BY <1>1, <2>1, <2>2
<1>13. ASSUME k \in AllUsers, pc'[q] > 10, Deactivates(seen'[q], c) PROVE Another(q)
  <2>1. CASE pc[q] > 10
    BY <1>1, <1>8, <1>13, <2>1 DEF Administering, c, r, k
  <2>2. CASE pc[q] <= 10
    <3>1. ~(pc[q] < 9)
      BY <1>1, <1>2, <1>11, <1>13 DEF AdminCounts
    <3>2. pc[q] = 9
      BY <1>1, <1>5, <2>2, <3>1
    <3>3. Cardinality(AdminRows(seen'[q])) > 1
      BY <1>2, <1>11, <1>13, <3>2 DEF AdminCounts
    <3> QED
      BY <1>9, <1>10, <3>2, <3>3, CountedAnother DEF k
  <2> QED
    BY <1>1, <2>1, <2>2
<1>14. ASSUME NEW f \in {"is_system_admin", "is_active"}, k \in AllUsers, k \in DOMAIN writes'[q]
       PROVE  \/ writes'[q][k][f] = db[k][f]
              \/ Changing(seen'[q], c, f) /\ writes'[q][k][f] = c.change[f]
  <2>1. CASE ~Alters(current[q], k)
    <3>1. k \in DOMAIN writes[q] /\ writes'[q][k] = writes[q][k]
      BY <1>1, <1>14, <2>1, EffectVisible, AllUsersRows DEF Visible
    <3>2. pc[q] > 8
      BY <1>1, <1>9, <1>14, <3>1
    <3>3. \/ writes[q][k][f] = db[k][f]
          \/ Changing(seen[q], c, f) /\ writes[q][k][f] = c.change[f]
      <4>1. Given(q, f)
        BY <1>1 DEF Administering
      <4> QED
        BY <1>14, <3>1, <4>1 DEF Given, k, c, r
    <3>4. pc[q] > 4
      BY <1>1, <3>2
    <3> QED
      BY <1>8, <1>14, <3>1, <3>3, <3>4
  <2>2. CASE Alters(current[q], k)
    <3>1. PICK g \in {"is_system_admin", "is_active"} :
            /\ pc[q] \in {8, 11} /\ current[q].do = "update" /\ Changing(seen[q], c, g)
            /\ current[q].row = FieldRow(c, g)
      <4> DEFINE i == pc[q]
                 b == Statements(r, seen[q])
      <4>1. i \in 1..Len(b) /\ Alters(b[i], k) /\ current[q] = b[i] /\ r.args.op = "update_system_user"
        BY <1>1, <1>2, <1>3, <2>2
      <4>2. /\ i \in {8, 11} /\ b[i].do = "update"
            /\ \E g \in {"is_system_admin", "is_active"} :
                 Changing(seen[q], c, g) /\ b[i].row = FieldRow(c, g)
        BY <1>14, <4>1, AdminAlters DEF c
      <4> HIDE DEF b, i
      <4>3. /\ i \in {8, 11} /\ current[q].do = "update"
            /\ \E g \in {"is_system_admin", "is_active"} :
                 Changing(seen[q], c, g) /\ current[q].row = FieldRow(c, g)
        BY <4>1, <4>2
      <4> QED
        BY <4>3 DEF i
    <3>2. /\ Visible(q, k) # Absent
          /\ writes'[q][k] = Over(FieldRow(c, g), Visible(q, k))
      BY <2>2, <3>1, RowWritten
    <3>3. CASE f = g
      <4>1. writes'[q][k][f] = c.change[f]
        BY <3>2, <3>3 DEF Over, FieldRow
      <4> QED
        BY <1>8, <1>14, <3>1, <3>3, <4>1
    <3>4. CASE f # g
      <4>1. DOMAIN Visible(q, k) = {"is_active", "is_system_admin"}
        BY <1>1, <1>14, <3>2, AllUsersRows DEF RInv, TypedDb, RowsIn, OwnRows, Typed, Visible
      <4>2. writes'[q][k][f] = Visible(q, k)[f]
        BY <3>2, <3>4, <4>1 DEF Over, FieldRow
      <4>3. Given(q, f)
        BY <1>1 DEF Administering
      <4> QED
        BY <1>8, <1>14, <3>1, <4>2, <4>3 DEF Given, Visible, k, c, r
    <3> QED
      BY <3>3, <3>4
  <2> QED
    BY <2>1, <2>2
<1>15. Another(q) => Another(q)'
  BY <1>1, <1>6 DEF Another, IsAdmin, Value, Target, AllUsers, r
<1>16. Target(q)' = k /\ AllUsers' = AllUsers /\ (call[q].args)' = c
  BY <1>1 DEF Target, AllUsers, r, k, c
<1>17. \A f \in {"is_system_admin", "is_active"} : Given(q, f)'
  BY <1>6, <1>14, <1>16 DEF Given
<1> QED
  BY <1>12, <1>13, <1>15, <1>16, <1>17 DEF Administering

LEMMA AccountsHold ==
  ASSUME Routed
  PROVE  /\ Init => AInv
         /\ AInv /\ [Next]_vars => AInv'
<1>1. Init => AInv
  BY TestsHold DEF Init, AInv, Open
<1>2. ASSUME AInv, [Next]_vars PROVE AInv'
  <2>1. Runnable /\ WInv /\ TInv'
    BY <1>2, RoutedRuns, TestsHold DEF AInv, TInv, DInv, SInv, KInv, RInv
  <2>2. ASSUME NEW q \in Requests, Open(q)' PROVE Accounting(q)'
    <3>1. CASE Aside(q)
      <4>1. Accounting(q)
        BY <1>2, <3>1 DEF AInv, Aside
      <4> QED
        BY <3>1, <4>1, AccountingAside
    <3>2. CASE Arrives(q)
      BY <3>2, AccountingArrives
    <3>3. CASE Goes(q) /\ Effect(q)
      <4>1. call'[q] = call[q] /\ overtaken'[q] = overtaken[q]
        BY <3>3 DEF Goes
      <4>2. Op(q)' = Op(q) /\ Calm(q)' = Calm(q)
        BY <4>1 DEF Op, Calm, AllUsers
      <4> QED
        BY <1>2, <3>3, <4>2, PresentKept, BootstrappingKept, RegisteringKept, AdministeringKept DEF Accounting
    <3> QED
      BY <1>2, <2>1, <2>2, <3>1, <3>2, <3>3, StepCases
  <2> QED
    BY <2>1, <2>2 DEF AInv
<1> QED
  BY <1>1, <1>2


LEMMA OnlyTarget ==
  ASSUME Routed, SInv, NEW q \in Requests, Open(q), Op(q) = "update_system_user", pc[q] = 12,
         NEW k \in AllUsers, k # Target(q)
  PROVE  k \notin DOMAIN writes[q]
<1>1. ASSUME NEW s, NEW i \in 1..Len(Statements(call[q], s)), Alters(Statements(call[q], s)[i], k)
      PROVE  FALSE
  BY <1>1, AdminAlters DEF Op, Target
<1>2. Late(call[q], k, 12)
  BY <1>1 DEF Late
<1> QED
  BY <1>2, LateNotWritten, AllUsersRows

LEMMA TargetSeen ==
  ASSUME NEW r, r.args.op = "update_system_user", NEW k \in AllUsers, k = User(r.args.user)
  PROVE  \E j \in Nat \ {0} : j < 12 /\ Window(r, k, j, 12)
<1> DEFINE c == r.args
           j == IF c.user = c.by THEN 1 ELSE 4
<1>1. ASSUME NEW s
      PROVE  /\ \A i \in 1..Len(Statements(r, s)) : Alters(Statements(r, s)[i], k) => i \in {8, 11}
             /\ Statements(r, s)[j].do = "select" /\ k \in Statements(r, s)[j].keys
             /\ \A i \in 1..Len(Statements(r, s)) :
                  j < i /\ i < 12 => Statements(r, s)[i].do \notin {"commit", "select"}
  <2> DEFINE b == Statements(r, s)
  <2>1. ASSUME NEW i \in 1..Len(b), Alters(b[i], k) PROVE i \in {8, 11}
    BY <2>1, AdminAlters
  <2>2. /\ Len(b) = 12
        /\ \A i \in {2, 3, 5, 7, 10} : b[i].do \in {"pass", "raise"}
        /\ \A i \in {6, 9} : b[i].do \in {"pass", "count"}
        /\ \A i \in {8, 11} : b[i].do \in {"pass", "update"}
    BY AdminDoes DEF Statements
  <2>3. /\ b[1] = Select({User(c.by)})
        /\ b[4] = (IF c.user = c.by THEN Pass ELSE Select({User(c.user)}))
    <3>1. AdminShape(b, s, c)
      BY AdminBody DEF Statements
    <3> HIDE DEF b
    <3> QED
      BY <3>1 DEF AdminShape
  <2>4. \A K : Select(K).do = "select" /\ Select(K).keys = K
    BY DEF Select, Statement
  <2>5. Pass.do = "pass"
    BY Kinds
  <2> HIDE DEF b
  <2>6. b[j].do = "select" /\ k \in b[j].keys
    BY <2>3, <2>4
  <2>7. ASSUME NEW i \in 1..12, j < i, i < 12 PROVE b[i].do \notin {"commit", "select"}
    <3>1. CASE i = 4
      BY <2>3, <2>5, <2>7, <3>1
    <3>2. CASE i # 4
      <4>1. i \in {2, 3, 5, 7, 10} \cup {6, 9} \cup {8, 11}
        BY <2>7, <3>2
      <4> QED
        BY <2>2, <4>1
    <3> QED
      BY <3>1, <3>2
  <2> QED
    BY <2>1, <2>2, <2>6, <2>7 DEF b
<1>2. j \in Nat \ {0} /\ j < 12 /\ \A i \in {8, 11} : ~(i < j)
  OBVIOUS
<1> HIDE DEF j
<1>3. Window(r, k, j, 12)
  BY <1>1, <1>2 DEF Window, Late, Reads, Rereads
<1> QED
  BY <1>2, <1>3

\* An administrator is changed only if there is another.
LEMMA TargetKept ==
  ASSUME Routed, AInv, NEW q \in Requests, Open(q), Op(q) = "update_system_user", pc[q] = 12,
         Calm(q), NEW k \in AllUsers, k = Target(q), k \in DOMAIN writes[q], IsAdmin(db, k),
         ~(writes[q][k].is_system_admin = TRUE /\ writes[q][k].is_active = TRUE)
  PROVE  Another(q)
<1> DEFINE c == call[q].args
           w == writes[q][k]
           s == seen[q]
<1>1. k = User(c.user) /\ c.op = "update_system_user"
  BY DEF Target, Op
<1>2. Administering(q) /\ SInv /\ IInv /\ c \in Calls /\ \A j \in Rows : WindowKept(q, j)
  <2>1. Accounting(q) /\ TInv /\ SInv /\ IInv
    BY DEF AInv, TInv, DInv, SInv, KInv, RInv, WInv
  <2>2. c \in Calls
    BY <2>1, ArgsInCalls
  <2> QED
    BY <2>1, <2>2 DEF Accounting, TInv
<1>3. k \in DOMAIN s /\ s[k] = db[k]
  <2>1. PICK j \in Nat \ {0} : j < 12 /\ Window(call[q], k, j, 12)
    BY <1>1, TargetSeen
  <2>2. 12 \in Nat \ {0} /\ k \in Rows /\ WindowKept(q, k)
    BY <1>2, AllUsersRows
  <2>3. StillSeen(q, k)
    BY <2>1, <2>2 DEF WindowKept
  <2> QED
    BY <2>3 DEF StillSeen, Fresh, Calm
<1>4. /\ Has(s, k, "is_system_admin", TRUE) /\ Has(s, k, "is_active", TRUE)
      /\ db[k].is_system_admin = TRUE /\ db[k].is_active = TRUE
  BY <1>3 DEF IsAdmin, Value, Has, Exists, Row
<1>5. \A f \in DOMAIN c.change : c.change[f] \in BOOLEAN
  BY <1>1, <1>2, CallsAssumption DEF Calls
<1>6. \A f \in {"is_system_admin", "is_active"} :
        w[f] = db[k][f] \/ (Changing(s, c, f) /\ w[f] = c.change[f])
  BY <1>2 DEF Administering, Given
<1> HIDE DEF c, w, s
<1>7. ASSUME NEW f \in {"is_system_admin", "is_active"}, ~(w[f] = TRUE) PROVE Dropping(s, c, f)
  <2>1. Changing(s, c, f) /\ w[f] = c.change[f]
    BY <1>4, <1>6, <1>7
  <2>2. c.change[f] \in BOOLEAN
    BY <1>5, <2>1 DEF Changing
  <2> QED
    BY <1>7, <2>1, <2>2 DEF Dropping
<1>8. Demotes(s, c) \/ Deactivates(s, c)
  <2>1. CASE Dropping(s, c, "is_system_admin")
    BY <1>1, <1>4, <2>1 DEF Demotes
  <2>2. CASE ~Dropping(s, c, "is_system_admin")
    <3>1. Dropping(s, c, "is_active")
      BY <1>7, <2>2 DEF w
    <3> QED
      BY <1>1, <1>4, <2>2, <3>1 DEF Deactivates
  <2> QED
    BY <2>1, <2>2
<1> QED
  BY <1>2, <1>8 DEF Administering, c, s

(***************************************************************************)
(* There stays an active system administrator, although                    *)
(* ensure_not_last_active_system_admin counts rows that nothing locks, and *)
(* register_user makes an administrator only where it has counted no       *)
(* account, unless another request changed an account meanwhile.           *)
(***************************************************************************)
THEOREM AnAdminStays ==
  ASSUME Routed PROVE Spec => AdminsKept
<1>1. ASSUME AInv, [Next]_vars, NEW q \in Requests, Commits(q), Calm(q)
      PROVE  /\ Admins(db) # {} => Admins(db') # {}
             /\ Op(q) = "register" /\ Admins(db') \ Admins(db) # {}
                  => \A k \in AllUsers : ~There(db, k)
  <2>1. WInv /\ RInv /\ SInv /\ DInv /\ Open(q) /\ Accounting(q) /\ current[q].do = "commit"
    BY <1>1 DEF AInv, TInv, DInv, SInv, KInv, RInv, Commits, Doing
  <2>2. ASSUME NEW k \in AllUsers
        PROVE  /\ db'[k] = Visible(q, k)
               /\ k \notin DOMAIN writes[q] => db'[k] = db[k]
    BY <1>1, <2>1, CommittedRow, AllUsersRows
  <2>3. \A d, k : k \in Admins(d) <=> k \in AllUsers /\ IsAdmin(d, k)
    BY DEF Admins, IsAdmin
  <2>4. ASSUME NEW k \in AllUsers, k \in DOMAIN writes[q]
        PROVE  writes[q][k] # Absent /\ "users" \in Tables(Op(q))
    <3>1. k \in Rows /\ k[1] = "users"
      BY AllUsersRows
    <3> QED
      BY <2>1, <2>4, <3>1 DEF Accounting, Present, RInv, RowsIn, OwnRows
  <2>5. ASSUME NEW k \in AllUsers, k \notin DOMAIN writes[q]
        PROVE  IsAdmin(db', k) <=> IsAdmin(db, k)
    BY <2>2, <2>5 DEF IsAdmin, Value
  <2>6. ASSUME NEW k \in AllUsers, k \in DOMAIN writes[q]
        PROVE  IsAdmin(db', k) <=> /\ writes[q][k].is_system_admin = TRUE
                                   /\ writes[q][k].is_active = TRUE
    BY <2>2, <2>4, <2>6 DEF IsAdmin, Value, Visible
  <2>7. CASE Op(q) \notin {"register", "bootstrap", "update_system_user"}
    <3>1. \A k \in AllUsers : k \notin DOMAIN writes[q]
      BY <2>4, <2>7 DEF Tables, WrittenBy
    <3> QED
      BY <2>3, <2>5, <2>7, <3>1
  <2>8. CASE Op(q) = "bootstrap"
    BY <2>1, <2>3, <2>5, <2>6, <2>8 DEF Accounting, Bootstrapping
  <2>9. CASE Op(q) = "register"
    <3>1. Registering(q)
      BY <1>1, <2>1, <2>9 DEF Accounting
    <3>2. ASSUME NEW k \in AllUsers, k \in DOMAIN writes[q] PROVE ~IsAdmin(db, k)
      BY <3>1, <3>2 DEF Registering, IsAdmin, Value
    <3>3. ASSUME NEW k \in AllUsers, IsAdmin(db', k), ~IsAdmin(db, k) PROVE NobodyYet
      BY <2>5, <2>6, <3>1, <3>3 DEF Registering
    <3> QED
      BY <2>3, <2>5, <3>2, <3>3 DEF NobodyYet, There
  <2>10. CASE Op(q) = "update_system_user"
    <3>1. pc[q] = 12
      <4> DEFINE b == Statements(call[q], seen[q])
      <4>1. current[q] = b[pc[q]] /\ pc[q] \in 1..Len(b) /\ pc[q] \in Nat
        BY <2>1, CurrentIs
      <4>2. Len(b) = 12
        BY <2>10, AdminDoes DEF Op, Statements
      <4>3. \A i \in 1..Len(b) - 1 : b[i].do # "commit"
        BY <2>10, CommitsLast DEF Op, Statements
      <4> HIDE DEF b
      <4> QED
        BY <2>1, <4>1, <4>2, <4>3
    <3>2. ASSUME NEW k \in AllUsers, IsAdmin(db, k) PROVE \E j \in AllUsers : IsAdmin(db', j)
      <4>1. CASE k \in DOMAIN writes[q] /\ ~IsAdmin(db', k)
        <5>1. k = Target(q)
          BY <2>1, <2>10, <3>1, <4>1, OnlyTarget
        <5>2. Another(q)
          BY <1>1, <2>1, <2>6, <2>10, <3>1, <3>2, <4>1, <5>1, TargetKept
        <5>3. PICK j \in AllUsers : j # Target(q) /\ IsAdmin(db, j)
          BY <5>2 DEF Another
        <5> QED
          BY <2>1, <2>5, <2>10, <3>1, <5>3, OnlyTarget
      <4> QED
        BY <2>5, <3>2, <4>1
    <3> QED
      BY <2>3, <2>10, <3>2
  <2> QED
    BY <2>7, <2>8, <2>9, <2>10
<1>2. AInv /\ [Next]_vars
        => [\A q \in Requests : Commits(q) =>
              \/ AllUsers \cap overtaken[q] # {}
              \/ /\ Admins(db) # {} => Admins(db') # {}
                 /\ Op(q) = "register" /\ Admins(db') \ Admins(db) # {}
                      => \A k \in AllUsers : ~There(db, k)]_vars
  <2> SUFFICES ASSUME AInv, [Next]_vars, NEW q \in Requests, Commits(q),
                      AllUsers \cap overtaken[q] = {}
               PROVE  /\ Admins(db) # {} => Admins(db') # {}
                      /\ Op(q) = "register" /\ Admins(db') \ Admins(db) # {}
                           => \A k \in AllUsers : ~There(db, k)
    OBVIOUS
  <2>1. Calm(q)
    BY DEF Calm
  <2> QED
    BY <1>1, <2>1
<1> QED
  BY <1>2, AccountsHold, PTL DEF Spec, AdminsKept

-----------------------------------------------------------------------------
(* Owners.  Most endpoints that write roles only add members, make owners  *)
(* or change a role they have just seen not to be an owner's.              *)

Belongs == {"memberships", "room_members"}
Spares(st) ==
  \A k : k[1] \in Belongs /\ Alters(st, k) =>
    st.do = "insert" \/ (st.do = "update" /\ st.row = AsRole("owner"))
Sparing(b, n) == IsBody(b) /\ n \in Nat /\ Len(b) = n /\ \A i \in 1..n : Spares(b[i])
\* The statement before number i has read k, which is no owner's by now.
ReadBefore(b, i, s, k) ==
  i > 1 /\ Rereads(b[i - 1], k) /\ Role(s, k) # "owner"
\* b is what d was before the last of its values were loaded.
Mild(b, d, s) ==
  /\ IsBody(b) /\ IsBody(d) /\ Len(b) = Len(d)
  /\ \A k : \A i \in 1..Len(d) : k[1] \in Belongs /\ Alters(d[i], k) =>
       Spares(d[i]) \/ (d[i].do = "update" /\ ReadBefore(b, i, s, k))

LEMMA SparingMild ==
  ASSUME NEW b, NEW d, NEW s, NEW n, Sparing(b, n), Sparing(d, n)
  PROVE  Mild(b, d, s)
BY DEF Sparing, Mild

LEMMA SparingCat ==
  ASSUME NEW a, NEW b, NEW n, NEW m, NEW l, Sparing(a, n), Sparing(b, m), l = n + m
  PROVE  Sparing(a \o b, l)
<1>1. /\ IsBody(a) /\ IsBody(b) /\ Len(a) = n /\ Len(b) = m /\ n \in Nat /\ m \in Nat
      /\ l \in Nat
  BY DEF Sparing
<1>2. ASSUME NEW i \in 1..l PROVE Spares((a \o b)[i])
  <2>1. CASE i <= n
    BY <1>1, <2>1, Joins DEF Sparing
  <2>2. CASE i > n
    <3>1. i - n \in 1..m /\ i \in n + 1..n + m
      BY <1>1, <2>2
    <3> QED
      BY <1>1, <3>1, Joins DEF Sparing
  <2> QED
    BY <1>1, <2>1, <2>2
<1> QED
  BY <1>1, <1>2, Joins DEF Sparing

LEMMA MildCat ==
  ASSUME NEW a, NEW b, NEW d, NEW e, NEW s, Mild(a, d, s), Mild(b, e, s)
  PROVE  Mild(a \o b, d \o e, s)
<1> DEFINE n == Len(d)
           m == Len(e)
<1>1. /\ IsBody(a) /\ IsBody(b) /\ IsBody(d) /\ IsBody(e) /\ Len(a) = n /\ Len(b) = m
      /\ n \in Nat /\ m \in Nat
  BY DEF Mild, IsBody
<1>2. /\ IsBody(a \o b) /\ Len(a \o b) = n + m /\ IsBody(d \o e) /\ Len(d \o e) = n + m
      /\ \A i \in 1..n : (a \o b)[i] = a[i] /\ (d \o e)[i] = d[i]
      /\ \A i \in n + 1..n + m : (a \o b)[i] = b[i - n] /\ (d \o e)[i] = e[i - n]
  BY <1>1, Joins
<1>3. ASSUME NEW k, NEW i \in 1..n + m, k[1] \in Belongs, Alters((d \o e)[i], k),
             ~Spares((d \o e)[i])
      PROVE  (d \o e)[i].do = "update" /\ ReadBefore(a \o b, i, s, k)
  <2>1. CASE i <= n
    <3>1. d[i].do = "update" /\ ReadBefore(a, i, s, k) /\ (d \o e)[i] = d[i]
      BY <1>1, <1>2, <1>3, <2>1 DEF Mild
    <3>2. i - 1 \in 1..n
      BY <1>1, <2>1, <3>1 DEF ReadBefore
    <3> QED
      BY <1>2, <3>1, <3>2 DEF ReadBefore
  <2>2. CASE i > n
    <3> DEFINE j == i - n
    <3>1. j \in 1..m /\ i \in n + 1..n + m
      BY <1>1, <2>2
    <3>2. e[j].do = "update" /\ ReadBefore(b, j, s, k) /\ (d \o e)[i] = e[j]
      BY <1>1, <1>2, <1>3, <3>1 DEF Mild
    <3>3. i > 1 /\ i - 1 \in n + 1..n + m /\ (i - 1) - n = j - 1
      BY <1>1, <2>2, <3>1, <3>2 DEF ReadBefore
    <3>4. (a \o b)[i - 1] = b[j - 1]
      BY <1>2, <3>3
    <3> QED
      BY <3>2, <3>3, <3>4 DEF ReadBefore
  <2> QED
    BY <1>1, <2>1, <2>2
<1> QED
  BY <1>1, <1>2, <1>3 DEF Mild

(* Statements.                                                             *)
LEMMA SparesThose ==
  /\ \A K : Spares(Select(K))
  /\ \A p, e : Spares(Require(p, e))
  /\ Spares(Commit) /\ Spares(Return) /\ Spares(Pass)
  /\ \A k : Spares(Refresh(k))
  /\ \A k, row, e : Spares(InsertOr(k, row, e))
  /\ \A k, row : Spares(Insert(k, row))
  /\ \A s, k : Spares(Assign(s, k, AsRole("owner")))
<1>1. \A st : st.do \notin Writing => Spares(st)
  BY DEF Spares, Alters
<1>2. /\ \A K : Select(K).do \notin Writing
      /\ \A p, e : Require(p, e).do \notin Writing
      /\ Commit.do \notin Writing /\ Return.do \notin Writing /\ Pass.do \notin Writing
      /\ \A k : Refresh(k).do \notin Writing
  BY Kinds DEF Writing
<1>3. \A k, row, e : Spares(InsertOr(k, row, e)) /\ Spares(Insert(k, row))
  BY Kinds DEF Spares
<1>4. \A k : Spares(Update(k, AsRole("owner")))
  BY DEF Spares, Update, Statement
<1>5. \A s, k : Spares(Assign(s, k, AsRole("owner")))
  BY <1>1, <1>2, <1>4 DEF Assign
<1> QED
  BY <1>1, <1>2, <1>3, <1>5

LEMMA SparingTuples ==
  /\ Sparing(<< >>, 0)
  /\ \A a : Spares(a) => Sparing(<< a >>, 1)
  /\ \A a, b : Spares(a) /\ Spares(b) => Sparing(<< a, b >>, 2)
  /\ \A a, b, c : Spares(a) /\ Spares(b) /\ Spares(c) => Sparing(<< a, b, c >>, 3)
<1>1. Sparing(<< >>, 0)
  BY DEF Sparing, IsBody
<1>2. ASSUME NEW a, Spares(a) PROVE Sparing(<< a >>, 1)
  BY <1>2 DEF Sparing, IsBody
<1>3. ASSUME NEW a, NEW b, Spares(a), Spares(b) PROVE Sparing(<< a, b >>, 2)
  BY <1>3 DEF Sparing, IsBody
<1>4. ASSUME NEW a, NEW b, NEW c, Spares(a), Spares(b), Spares(c)
      PROVE  Sparing(<< a, b, c >>, 3)
  BY <1>4 DEF Sparing, IsBody
<1> QED
  BY <1>1, <1>2, <1>3, <1>4

(* The parts of the endpoints that add members.                            *)
LEMMA SparingParts ==
  ASSUME NEW s
  PROVE  /\ \A c : Sparing(get_current_user(s, c), 2)
         /\ \A u, w : Sparing(get_workspace_for_user(s, u, w), 2)
         /\ \A u, w : Sparing(require_workspace_owner(s, u, w), 3)
         /\ \A w, u : Sparing(get_workspace_membership_with_user(s, w, u), 2)
         /\ \A u, r : Sparing(get_room_for_user(s, u, r), 2)
         /\ \A u, r : Sparing(require_room_manager(s, u, r), 3)
         /\ \A r, u : Sparing(get_room_member_with_user(s, r, u), 2)
         /\ \A w, u : Sparing(ensure_workspace_membership(s, w, u), 2)
         /\ \A u, v : Sparing(ensure_mutual_contacts(s, u, v), 4)
         /\ \A u : Sparing(ensure_conversation_workspace(s, u), 5)
<1>1. \A c : Sparing(get_current_user(s, c), 2)
  BY SparesThose, SparingTuples DEF get_current_user
<1>2. \A u, w : Sparing(get_workspace_for_user(s, u, w), 2)
  BY SparesThose, SparingTuples DEF get_workspace_for_user
<1>3. ASSUME NEW u, NEW w PROVE Sparing(require_workspace_owner(s, u, w), 3)
  <2> DEFINE st == Require(Role(s, Membership(w, u)) = "owner", "WorkspaceOwnerRequired")
             a == get_workspace_for_user(s, u, w)
             z == << st >>
  <2>1. Sparing(a, 2) /\ Sparing(z, 1)
    BY <1>2, SparesThose, SparingTuples
  <2>2. require_workspace_owner(s, u, w) = a \o z
    BY DEF require_workspace_owner
  <2> HIDE DEF a, z
  <2> QED
    BY <2>1, <2>2, SparingCat
<1>4. \A w, u : Sparing(get_workspace_membership_with_user(s, w, u), 2)
  BY SparesThose, SparingTuples DEF get_workspace_membership_with_user
<1>5. \A u, r : Sparing(get_room_for_user(s, u, r), 2)
  BY SparesThose, SparingTuples DEF get_room_for_user
<1>6. \A u, r : Sparing(require_room_manager(s, u, r), 3)
  BY SparesThose, SparingTuples DEF require_room_manager
<1>7. \A r, u : Sparing(get_room_member_with_user(s, r, u), 2)
  BY SparesThose, SparingTuples DEF get_room_member_with_user
<1>8. \A w, u : Sparing(ensure_workspace_membership(s, w, u), 2)
  BY SparesThose, SparingTuples DEF ensure_workspace_membership
<1>9. ASSUME NEW u, NEW v PROVE Sparing(ensure_mutual_contacts(s, u, v), 4)
  <2>1. \A x, y : Sparing(ensure_contact(s, x, y), 2)
    BY SparesThose, SparingTuples DEF ensure_contact
  <2> DEFINE a == ensure_contact(s, u, v)
             z == ensure_contact(s, v, u)
  <2>2. Sparing(a, 2) /\ Sparing(z, 2) /\ ensure_mutual_contacts(s, u, v) = a \o z
    BY <2>1 DEF ensure_mutual_contacts
  <2> HIDE DEF a, z
  <2> QED
    BY <2>2, SparingCat
<1>10. ASSUME NEW u PROVE Sparing(ensure_conversation_workspace(s, u), 5)
  <2> DEFINE a == << Select({Workspace(Net)}),
                     IF Exists(s, Workspace(Net)) THEN Pass
                     ELSE InsertOr(Workspace(Net), Plain, "SlugAlreadyExists") >>
             b == ensure_workspace_membership(s, Net, u)
             z == << Commit >>
  <2>1. Sparing(a, 2) /\ Sparing(b, 2) /\ Sparing(z, 1)
    BY <1>8, SparesThose, SparingTuples
  <2>2. ensure_conversation_workspace(s, u) = a \o b \o z
    BY DEF ensure_conversation_workspace
  <2> HIDE DEF a, b, z
  <2>3. Sparing(a \o b, 4)
    BY <2>1, SparingCat
  <2> DEFINE x == a \o b
  <2>4. Sparing(x, 4) /\ ensure_conversation_workspace(s, u) = x \o z
    BY <2>2, <2>3
  <2> HIDE DEF x
  <2>5. Sparing(x, 4) /\ Sparing(z, 1) /\ 5 = 4 + 1
    BY <2>1, <2>4
  <2>6. Sparing(x \o z, 5)
    BY <2>5, SparingCat
  <2> QED
    BY <2>4, <2>6
<1> QED
  BY <1>1, <1>2, <1>3, <1>4, <1>5, <1>6, <1>7, <1>8, <1>9, <1>10

(* Whom a conversation or an invitation adds keeps the role of an owner.   *)
LEMMA MemberMild ==
  ASSUME NEW t, NEW s, NEW r, NEW u, NEW role
  PROVE  Mild(ensure_room_membership(t, r, u, role), ensure_room_membership(s, r, u, role), s)
<1> DEFINE k == RoomMember(r, u)
           one(x) == IF ~Exists(x, k) THEN Insert(k, AsRole(role))
                     ELSE IF Role(x, k) = "owner" THEN Pass ELSE Assign(x, k, AsRole(role))
           b == ensure_room_membership(t, r, u, role)
           d == ensure_room_membership(s, r, u, role)
           look == Select({k})
<1>1. b = << look, one(t) >> /\ d = << look, one(s) >>
  BY DEF ensure_room_membership
<1>2. Rereads(look, k) /\ Spares(look)
  BY SparesThose DEF Rereads, Select, Statement
<1>3. \A l : Alters(one(s), l) =>
        Spares(one(s)) \/ (one(s).do = "update" /\ l = k /\ Role(s, k) # "owner")
  <2>1. Spares(Pass) /\ Spares(Insert(k, AsRole(role)))
    BY SparesThose
  <2>2. Update(k, AsRole(role)).do = "update" /\ Update(k, AsRole(role)).keys = {k}
    BY DEF Update, Statement
  <2> QED
    BY <2>1, <2>2 DEF Assign, Alters
<1> HIDE DEF b, d, look, one, k
<1>4. /\ IsBody(b) /\ IsBody(d) /\ Len(b) = 2 /\ Len(d) = 2
      /\ b[1] = look /\ d[1] = look /\ d[2] = one(s)
  BY <1>1 DEF IsBody
<1>5. Mild(b, d, s)
  BY <1>2, <1>3, <1>4 DEF Mild, ReadBefore
<1> QED
  BY <1>5 DEF b, d

LEMMA DivisionIs ==
  ASSUME NEW n \in Nat \ {0}, NEW p \in Int, NEW e \in 0..n - 1, NEW j \in Int, j = n * p + e
  PROVE  j \div n = p /\ j % n = e
<1> DEFINE d == j \div n
           f == j % n
<1>1. d \in Int /\ f \in 0..n - 1 /\ j = n * d + f
  OBVIOUS
<1> HIDE DEF d, f
<1>2. n * (d - p) = e - f
  BY <1>1
<1>3. d - p < 1
  <2> SUFFICES ASSUME d - p >= 1 PROVE FALSE
    BY <1>1
  <2>1. n * (d - p) >= n
    BY <1>1
  <2> QED
    BY <1>1, <1>2, <2>1
<1>4. d - p > -1
  <2> SUFFICES ASSUME d - p <= -1 PROVE FALSE
    BY <1>1
  <2>1. n * (d - p) <= -n
    BY <1>1
  <2> QED
    BY <1>1, <1>2, <2>1
<1>5. d = p
  BY <1>1, <1>3, <1>4
<1>6. e = f
  BY <1>1, <1>2, <1>5
<1> QED
  BY <1>5, <1>6 DEF d, f

LEMMA DirectMild ==
  ASSUME NEW t, NEW s, NEW u, NEW w, NEW v
  PROVE  Mild(start_direct_conversation(t, u, w, v), start_direct_conversation(s, u, w, v), s)
<1> DEFINE r == <<w, direct_conversation_slug(u, v)>>
           look(x) == << Select({User(v)}), Require(Active(x, v), "UserNotFound"),
                         Require(u # v, "SelfConversation") >>
           open(x) == << Select({Room(r)}),
                         IF Exists(x, Room(r)) THEN Pass ELSE Insert(Room(r), Plain) >>
           front(x) == get_workspace_for_user(x, u, w) \o look(x)
                       \o ensure_workspace_membership(x, w, v)
                       \o ensure_mutual_contacts(x, u, v) \o open(x)
           one(x) == ensure_room_membership(x, r, u, "owner")
           two(x) == ensure_room_membership(x, r, v, "member")
           last == << Commit >>
<1>1. ASSUME NEW x PROVE Sparing(front(x), 13)
  <2> DEFINE a == get_workspace_for_user(x, u, w)
             b == look(x)
             d == ensure_workspace_membership(x, w, v)
             e == ensure_mutual_contacts(x, u, v)
             f == open(x)
  <2>1. Sparing(a, 2) /\ Sparing(d, 2) /\ Sparing(e, 4)
    BY SparingParts
  <2>2. Sparing(b, 3) /\ Sparing(f, 2)
    BY SparesThose, SparingTuples
  <2> HIDE DEF a, b, d, e, f
  <2>3. Sparing(a \o b, 5)
    BY <2>1, <2>2, SparingCat
  <2>4. Sparing(a \o b \o d, 7)
    BY <2>1, <2>3, SparingCat
  <2>5. Sparing(a \o b \o d \o e, 11)
    BY <2>1, <2>4, SparingCat
  <2>6. Sparing(a \o b \o d \o e \o f, 13)
    BY <2>2, <2>5, SparingCat
  <2> QED
    BY <2>6 DEF a, b, d, e, f
<1>2. /\ start_direct_conversation(t, u, w, v) = front(t) \o one(t) \o two(t) \o last
      /\ start_direct_conversation(s, u, w, v) = front(s) \o one(s) \o two(s) \o last
  BY DEF start_direct_conversation
<1>3. Mild(one(t), one(s), s) /\ Mild(two(t), two(s), s)
  BY MemberMild
<1>4. Mild(front(t), front(s), s) /\ Mild(last, last, s)
  BY <1>1, SparingMild, SparesThose, SparingTuples
<1> HIDE DEF front, one, two, last
<1>5. Mild(front(t) \o one(t), front(s) \o one(s), s)
  BY <1>3, <1>4, MildCat
<1>6. Mild(front(t) \o one(t) \o two(t), front(s) \o one(s) \o two(s), s)
  BY <1>3, <1>5, MildCat
<1>7. Mild(front(t) \o one(t) \o two(t) \o last, front(s) \o one(s) \o two(s) \o last, s)
  BY <1>4, <1>6, MildCat
<1> QED
  BY <1>2, <1>7

LEMMA InviteMild ==
  ASSUME NEW t, NEW s, NEW u, NEW r, NEW v, NEW role
  PROVE  Mild(invite_room_member_by_email(t, u, r, v, role),
              invite_room_member_by_email(s, u, r, v, role), s)
<1> DEFINE look(x) == << Select({User(v)}), Require(Active(x, v), "UserNotFound"),
                         Require(u # v, "SelfConversation") >>
           front(x) == get_room_for_user(x, u, r) \o require_room_manager(x, u, r) \o look(x)
                       \o ensure_workspace_membership(x, Home(r), v)
           one(x) == ensure_room_membership(x, r, v, role)
           last == << Commit, Refresh(RoomMember(r, v)) >>
<1>1. ASSUME NEW x PROVE Sparing(front(x), 10)
  <2> DEFINE a == get_room_for_user(x, u, r)
             b == require_room_manager(x, u, r)
             d == look(x)
             e == ensure_workspace_membership(x, Home(r), v)
  <2>1. Sparing(a, 2) /\ Sparing(b, 3) /\ Sparing(e, 2)
    BY SparingParts
  <2>2. Sparing(d, 3)
    BY SparesThose, SparingTuples
  <2> HIDE DEF a, b, d, e
  <2>3. Sparing(a \o b, 5)
    BY <2>1, SparingCat
  <2>4. Sparing(a \o b \o d, 8)
    BY <2>2, <2>3, SparingCat
  <2>5. Sparing(a \o b \o d \o e, 10)
    BY <2>1, <2>4, SparingCat
  <2> QED
    BY <2>5 DEF a, b, d, e
<1>2. /\ invite_room_member_by_email(t, u, r, v, role) = front(t) \o one(t) \o last
      /\ invite_room_member_by_email(s, u, r, v, role) = front(s) \o one(s) \o last
  BY DEF invite_room_member_by_email
<1>3. Mild(one(t), one(s), s)
  BY MemberMild
<1>4. Mild(front(t), front(s), s) /\ Mild(last, last, s)
  BY <1>1, SparingMild, SparesThose, SparingTuples
<1> HIDE DEF front, one, last
<1>5. Mild(front(t) \o one(t), front(s) \o one(s), s)
  BY <1>3, <1>4, MildCat
<1>6. Mild(front(t) \o one(t) \o last, front(s) \o one(s) \o last, s)
  BY <1>4, <1>5, MildCat
<1> QED
  BY <1>2, <1>6

(* Bodies in turn.                                                         *)
LEMMA TurnMild ==
  ASSUME NEW m \in Nat, NEW n \in Nat \ {0}, NEW bs, NEW ds, NEW s,
         Listed(bs, m), Listed(ds, m),
         \A x \in 1..m : Mild(bs[x], ds[x], s) /\ Len(ds[x]) = n
  PROVE  Mild(InTurn(bs), InTurn(ds), s)
<1> DEFINE b == InTurn(bs)
           d == InTurn(ds)
           at(i) == 1 + (i - 1) \div n
           of(i) == 1 + ((i - 1) % n)
<1>1. \A x \in 1..m : IsBody(bs[x]) /\ IsBody(ds[x]) /\ Len(bs[x]) = n /\ Len(ds[x]) = n
  BY DEF Mild
<1>2. AllInTurn(bs, m, n) /\ AllInTurn(ds, m, n)
  BY <1>1, InTurnIs
<1>3. /\ IsBody(b) /\ IsBody(d) /\ Len(b) = n * m /\ Len(d) = n * m /\ n * m \in Nat
      /\ \A i \in 1..n * m : /\ at(i) \in 1..m /\ of(i) \in 1..n
                             /\ b[i] = bs[at(i)][of(i)] /\ d[i] = ds[at(i)][of(i)]
  BY <1>2 DEF AllInTurn
<1>4. ASSUME NEW i \in 1..n * m, of(i) > 1
      PROVE  i - 1 \in 1..n * m /\ at(i - 1) = at(i) /\ of(i - 1) = of(i) - 1
  <2> DEFINE p == (i - 1) \div n
             e == (i - 1) % n
  <2>1. p \in Int /\ e \in 0..n - 1 /\ i - 1 = n * p + e /\ e > 0
    BY <1>4
  <2>2. i - 2 = n * p + (e - 1) /\ e - 1 \in 0..n - 1
    BY <2>1
  <2> HIDE DEF p, e
  <2>3. (i - 2) \div n = p /\ (i - 2) % n = e - 1
    <3>1. i - 2 \in Int /\ e - 1 \in 0..n - 1
      BY <2>1, <2>2
    <3> DEFINE j == i - 2
               f == e - 1
    <3>2. j \in Int /\ f \in 0..n - 1 /\ j = n * p + f
      BY <2>2, <3>1
    <3> HIDE DEF j, f
    <3>3. j \div n = p /\ j % n = f
      BY <2>1, <3>2, DivisionIs
    <3> QED
      BY <3>3 DEF j, f
  <2>4. i - 1 >= 1
    <3> DEFINE o == i - 1
    <3>1. o \in Nat
      BY <1>3
    <3>2. 0 % n = 0
      <4>1. 0 = n * 0 + 0 /\ 0 \in 0..n - 1
        OBVIOUS
      <4> QED
        BY <4>1, DivisionIs
    <3>3. o % n = e
      BY DEF e
    <3> HIDE DEF o
    <3>4. o # 0
      BY <2>1, <3>2, <3>3
    <3> QED
      BY <3>1, <3>4 DEF o
  <2>5. i - 1 \in 1..n * m /\ (i - 1) - 1 = i - 2
    BY <1>3, <2>4
  <2>6. at(i) = 1 + p /\ of(i) = 1 + e
    BY DEF p, e
  <2>7. at(i - 1) = 1 + p /\ of(i - 1) = 1 + (e - 1)
    BY <2>3, <2>5
  <2> HIDE DEF at, of
  <2> QED
    BY <2>1, <2>5, <2>6, <2>7
<1> HIDE DEF b, d, at, of
<1>5. ASSUME NEW k, NEW i \in 1..n * m, k[1] \in Belongs, Alters(d[i], k), ~Spares(d[i])
      PROVE  d[i].do = "update" /\ ReadBefore(b, i, s, k)
  <2> DEFINE x == at(i)
             y == of(i)
  <2>1. x \in 1..m /\ y \in 1..n /\ d[i] = ds[x][y]
    BY <1>3
  <2>2. ds[x][y].do = "update" /\ ReadBefore(bs[x], y, s, k)
    BY <1>1, <1>5, <2>1 DEF Mild
  <2>3. y > 1
    BY <2>2 DEF ReadBefore
  <2>4. i - 1 \in 1..n * m /\ at(i - 1) = x /\ of(i - 1) = y - 1
    BY <1>4, <2>3
  <2>5. b[i - 1] = bs[x][y - 1] /\ i > 1
    BY <1>3, <2>4
  <2> QED
    BY <2>1, <2>2, <2>5 DEF ReadBefore
<1>6. Mild(b, d, s)
  BY <1>3, <1>5 DEF Mild
<1> QED
  BY <1>6 DEF b, d

LEMMA MildParts ==
  ASSUME NEW t, NEW s
  PROVE  /\ \A c : Mild(get_current_user(t, c), get_current_user(s, c), s)
         /\ \A u, w : Mild(get_workspace_for_user(t, u, w), get_workspace_for_user(s, u, w), s)
         /\ \A u, w : Mild(require_workspace_owner(t, u, w), require_workspace_owner(s, u, w), s)
         /\ \A w, u : Mild(get_workspace_membership_with_user(t, w, u),
                           get_workspace_membership_with_user(s, w, u), s)
         /\ \A u, r : Mild(get_room_for_user(t, u, r), get_room_for_user(s, u, r), s)
         /\ \A u, r : Mild(require_room_manager(t, u, r), require_room_manager(s, u, r), s)
         /\ \A r, u : Mild(get_room_member_with_user(t, r, u), get_room_member_with_user(s, r, u), s)
         /\ \A u : Mild(ensure_conversation_workspace(t, u), ensure_conversation_workspace(s, u), s)
BY SparingParts, SparingMild

LEMMA RoomMild ==
  ASSUME NEW t, NEW s, NEW u, NEW r
  PROVE  Mild(create_room(t, u, r), create_room(s, u, r), s)
<1> DEFINE a(x) == get_workspace_for_user(x, u, Home(r))
           z == << InsertOr(Room(r), Plain, "SlugAlreadyExists"),
                   InsertOr(RoomMember(r, u), Owner, "SlugAlreadyExists"), Commit >>
<1>1. create_room(t, u, r) = a(t) \o z /\ create_room(s, u, r) = a(s) \o z
  BY DEF create_room
<1>2. Mild(a(t), a(s), s) /\ Mild(z, z, s)
  BY MildParts, SparesThose, SparingTuples, SparingMild
<1> HIDE DEF a, z
<1> QED
  BY <1>1, <1>2, MildCat

LEMMA InvitedMild ==
  ASSUME NEW b, NEW d, NEW s, NEW c, NEW v, Mild(b, d, s)
  PROVE  Mild(Invited(c, v, b), Invited(c, v, d), s) /\ Len(Invited(c, v, d)) = Len(d)
<1>1. ASSUME NEW e, IsBody(e), v = c.by PROVE Sparing(Invited(c, v, e), Len(e))
  <2> DEFINE f == [i \in DOMAIN e |-> Pass]
             N == Len(e)
  <2>1. N \in Nat /\ DOMAIN e = 1..N
    BY <1>1 DEF IsBody
  <2>2. f \in Seq({Pass}) /\ Len(f) = N
    BY <2>1
  <2>3. \A i \in 1..N : Spares(f[i])
    BY <2>1, SparesThose
  <2>4. Invited(c, v, e) = f
    BY <1>1 DEF Invited
  <2> QED
    BY <2>1, <2>2, <2>3, <2>4 DEF Sparing, IsBody
<1>2. IsBody(b) /\ IsBody(d) /\ Len(b) = Len(d)
  BY DEF Mild
<1>3. CASE v = c.by
  <2>1. Sparing(Invited(c, v, b), Len(d)) /\ Sparing(Invited(c, v, d), Len(d))
    BY <1>1, <1>2, <1>3
  <2> QED
    BY <2>1, SparingMild DEF Sparing
<1>4. CASE v # c.by
  BY <1>4 DEF Invited
<1> QED
  BY <1>3, <1>4

MildIn(r) == \A s, t : Mild(Statements(r, t), Statements(r, s), s)

(* Signed-in endpoints.                                                    *)
SignedMildly(r, s, t) ==
  \E b, d : /\ Mild(b, d, s)
            /\ Statements(r, t) = get_current_user(t, r.args) \o b
            /\ Statements(r, s) = get_current_user(s, r.args) \o d

LEMMA SignedMild ==
  ASSUME NEW r, \A s, t : SignedMildly(r, s, t)
  PROVE  MildIn(r)
<1>1. ASSUME NEW s, NEW t PROVE Mild(Statements(r, t), Statements(r, s), s)
  <2>1. PICK b, d : /\ Mild(b, d, s)
                    /\ Statements(r, t) = get_current_user(t, r.args) \o b
                    /\ Statements(r, s) = get_current_user(s, r.args) \o d
    BY DEF SignedMildly
  <2>2. Mild(get_current_user(t, r.args), get_current_user(s, r.args), s)
    BY MildParts
  <2> QED
    BY <2>1, <2>2, MildCat
<1> QED
  BY <1>1 DEF MildIn

LEMMA AddersMild ==
  ASSUME NEW r, \/ r.args.op \in {"create_workspace", "create_room", "join_room",
                                  "list_conversations", "start_global_direct",
                                  "start_direct_conversation", "invite_room_member"}
                \/ /\ r.args.op \in {"update_workspace_member", "update_room_member"}
                   /\ r.args.role = "owner"
  PROVE  MildIn(r)
<1> DEFINE c == r.args
<1>1. CASE c.op = "create_workspace"
  <2>1. ASSUME NEW s, NEW t
        PROVE  /\ Mild(create_workspace(t, c), create_workspace(s, c), s)
               /\ Statements(r, s) = get_current_user(s, c) \o create_workspace(s, c)
    <3> DEFINE z(x) == << InsertOr(Workspace(c.ws), Plain, "SlugAlreadyExists"),
                        InsertOr(Membership(c.ws, c.by), Owner, "SlugAlreadyExists"), Commit >>
    <3>1. Statements(r, s) = get_current_user(s, c) \o create_workspace(s, c)
      BY <1>1, Zenon DEF Statements, ApiEndpoint, create_workspace_endpoint, Authenticated, Handler
    <3>2. create_workspace(s, c) = z(s) /\ create_workspace(t, c) = z(t)
      BY <1>1 DEF create_workspace
    <3>3. Mild(z(t), z(s), s)
      BY MildParts, SparesThose, SparingTuples, SparingMild
    <3> HIDE DEF z
    <3> QED
      BY <3>1, <3>2, <3>3
  <2> QED
    BY <2>1, SignedMild DEF SignedMildly
<1>2. CASE c.op = "create_room"
  <2>1. ASSUME NEW s, NEW t
        PROVE  /\ Mild(create_room(t, c.by, c.room), create_room(s, c.by, c.room), s)
               /\ Statements(r, s) = get_current_user(s, c) \o create_room(s, c.by, c.room)
    <3>1. Statements(r, s) = get_current_user(s, c) \o create_room(s, c.by, c.room)
      BY <1>2, Zenon DEF Statements, ApiEndpoint, create_room_endpoint, Authenticated, Handler
    <3> QED
      BY <3>1, RoomMild
  <2> QED
    BY <2>1, SignedMild DEF SignedMildly
<1>3. CASE c.op = "join_room"
  <2>1. ASSUME NEW s, NEW t
        PROVE  /\ Mild(join_room(t, c), join_room(s, c), s)
               /\ Statements(r, s) = get_current_user(s, c) \o join_room(s, c)
    <3> DEFINE k == RoomMember(c.room, c.by)
               a(x) == get_room_for_user(x, c.by, c.room)
               z(x) == << IF Exists(x, k) THEN Return ELSE Insert(k, Member), Commit >>
    <3>1. Statements(r, s) = get_current_user(s, c) \o join_room(s, c)
      BY <1>3, Zenon DEF Statements, ApiEndpoint, join_room_endpoint, Authenticated, Handler
    <3>2. join_room(s, c) = a(s) \o z(s) /\ join_room(t, c) = a(t) \o z(t)
      BY <1>3 DEF join_room
    <3>3. Mild(a(t), a(s), s) /\ Mild(z(t), z(s), s)
      BY MildParts, SparesThose, SparingTuples, SparingMild
    <3> HIDE DEF a, z
    <3>4. Mild(a(t) \o z(t), a(s) \o z(s), s)
      BY <3>3, MildCat
    <3> QED
      BY <3>1, <3>2, <3>4
  <2> QED
    BY <2>1, SignedMild DEF SignedMildly
<1>4. CASE c.op = "list_conversations"
  <2>1. ASSUME NEW s, NEW t
        PROVE  /\ Mild(list_conversations(t, c), list_conversations(s, c), s)
               /\ Statements(r, s) = get_current_user(s, c) \o list_conversations(s, c)
    <3> DEFINE a(x) == ensure_conversation_workspace(x, c.by)
               z(x) == << Select({RoomMember(y, c.by) : y \in RoomsOf(Net)}) >>
    <3>1. Statements(r, s) = get_current_user(s, c) \o list_conversations(s, c)
      BY <1>4, Zenon DEF Statements, ApiEndpoint, list_conversations_endpoint, Authenticated, Handler
    <3>2. list_conversations(s, c) = a(s) \o z(s) /\ list_conversations(t, c) = a(t) \o z(t)
      BY <1>4 DEF list_conversations
    <3>3. Mild(a(t), a(s), s) /\ Mild(z(t), z(s), s)
      BY MildParts, SparesThose, SparingTuples, SparingMild
    <3> HIDE DEF a, z
    <3>4. Mild(a(t) \o z(t), a(s) \o z(s), s)
      BY <3>3, MildCat
    <3> QED
      BY <3>1, <3>2, <3>4
  <2> QED
    BY <2>1, SignedMild DEF SignedMildly
<1>5. CASE c.op = "update_workspace_member" /\ c.role = "owner"
  <2>1. ASSUME NEW s, NEW t
        PROVE  /\ Mild(update_workspace_member_role(t, c), update_workspace_member_role(s, c), s)
               /\ Statements(r, s) = get_current_user(s, c) \o update_workspace_member_role(s, c)
    <3> DEFINE k == Membership(c.ws, c.user)
               a(x) == require_workspace_owner(x, c.by, c.ws)
               b(x) == get_workspace_membership_with_user(x, c.ws, c.user)
               d(x) == << >>
               z(x) == << Assign(x, k, AsRole("owner")), Commit, Refresh(k) >>
    <3>1. Statements(r, s) = get_current_user(s, c) \o update_workspace_member_role(s, c)
      BY <1>5, Zenon DEF Statements, ApiEndpoint, update_workspace_member_endpoint, Authenticated, Handler
    <3>2. update_workspace_member_role(s, c) = a(s) \o b(s) \o d(s) \o z(s) /\ update_workspace_member_role(t, c) = a(t) \o b(t) \o d(t) \o z(t)
      BY <1>5 DEF update_workspace_member_role
    <3>3. Mild(a(t), a(s), s) /\ Mild(b(t), b(s), s) /\ Mild(d(t), d(s), s) /\ Mild(z(t), z(s), s)
      BY MildParts, SparesThose, SparingTuples, SparingMild
    <3> HIDE DEF a, b, d, z
    <3>4. Mild(a(t) \o b(t), a(s) \o b(s), s)
      BY <3>3, MildCat
    <3>5. Mild(a(t) \o b(t) \o d(t), a(s) \o b(s) \o d(s), s)
      BY <3>3, <3>4, MildCat
    <3>6. Mild(a(t) \o b(t) \o d(t) \o z(t), a(s) \o b(s) \o d(s) \o z(s), s)
      BY <3>3, <3>5, MildCat
    <3> QED
      BY <3>1, <3>2, <3>6
  <2> QED
    BY <2>1, SignedMild DEF SignedMildly
<1>6. CASE c.op = "update_room_member" /\ c.role = "owner"
  <2>1. ASSUME NEW s, NEW t
        PROVE  /\ Mild(update_room_member_role(t, c), update_room_member_role(s, c), s)
               /\ Statements(r, s) = get_current_user(s, c) \o update_room_member_role(s, c)
    <3> DEFINE k == RoomMember(c.room, c.user)
               a(x) == get_room_for_user(x, c.by, c.room)
               b(x) == require_room_manager(x, c.by, c.room)
               e(x) == get_room_member_with_user(x, c.room, c.user)
               d(x) == << >>
               z(x) == << Assign(x, k, AsRole("owner")), Commit, Refresh(k) >>
    <3>1. Statements(r, s) = get_current_user(s, c) \o update_room_member_role(s, c)
      BY <1>6, Zenon DEF Statements, ApiEndpoint, update_room_member_endpoint, Authenticated, Handler
    <3>2. update_room_member_role(s, c) = a(s) \o b(s) \o e(s) \o d(s) \o z(s) /\ update_room_member_role(t, c) = a(t) \o b(t) \o e(t) \o d(t) \o z(t)
      BY <1>6 DEF update_room_member_role
    <3>3. Mild(a(t), a(s), s) /\ Mild(b(t), b(s), s) /\ Mild(e(t), e(s), s) /\ Mild(d(t), d(s), s) /\ Mild(z(t), z(s), s)
      BY MildParts, SparesThose, SparingTuples, SparingMild
    <3> HIDE DEF a, b, e, d, z
    <3>4. Mild(a(t) \o b(t), a(s) \o b(s), s)
      BY <3>3, MildCat
    <3>5. Mild(a(t) \o b(t) \o e(t), a(s) \o b(s) \o e(s), s)
      BY <3>3, <3>4, MildCat
    <3>6. Mild(a(t) \o b(t) \o e(t) \o d(t), a(s) \o b(s) \o e(s) \o d(s), s)
      BY <3>3, <3>5, MildCat
    <3>7. Mild(a(t) \o b(t) \o e(t) \o d(t) \o z(t), a(s) \o b(s) \o e(s) \o d(s) \o z(s), s)
      BY <3>3, <3>6, MildCat
    <3> QED
      BY <3>1, <3>2, <3>7
  <2> QED
    BY <2>1, SignedMild DEF SignedMildly
<1>7. CASE c.op = "start_global_direct"
  <2>1. ASSUME NEW s, NEW t
        PROVE  /\ Mild(start_global_direct_conversation(t, c), start_global_direct_conversation(s, c), s)
               /\ Statements(r, s) = get_current_user(s, c) \o start_global_direct_conversation(s, c)
    <3> DEFINE a(x) == ensure_conversation_workspace(x, c.by)
               z(x) == start_direct_conversation(x, c.by, Net, c.user)
    <3>1. Statements(r, s) = get_current_user(s, c) \o start_global_direct_conversation(s, c)
      BY <1>7, Zenon DEF Statements, ApiEndpoint, start_global_direct_endpoint, Authenticated, Handler
    <3>2. start_global_direct_conversation(s, c) = a(s) \o z(s) /\ start_global_direct_conversation(t, c) = a(t) \o z(t)
      BY <1>7 DEF start_global_direct_conversation
    <3>3. Mild(a(t), a(s), s) /\ Mild(z(t), z(s), s)
      BY MildParts, SparesThose, SparingTuples, SparingMild, DirectMild
    <3> HIDE DEF a, z
    <3>4. Mild(a(t) \o z(t), a(s) \o z(s), s)
      BY <3>3, MildCat
    <3> QED
      BY <3>1, <3>2, <3>4
  <2> QED
    BY <2>1, SignedMild DEF SignedMildly
<1>8. CASE c.op = "start_direct_conversation"
  <2>1. ASSUME NEW s, NEW t
        PROVE  /\ Mild(start_direct_conversation(t, c.by, c.ws, c.user), start_direct_conversation(s, c.by, c.ws, c.user), s)
               /\ Statements(r, s) = get_current_user(s, c) \o start_direct_conversation(s, c.by, c.ws, c.user)
    <3>1. Statements(r, s) = get_current_user(s, c) \o start_direct_conversation(s, c.by, c.ws, c.user)
      BY <1>8, Zenon DEF Statements, ApiEndpoint, start_direct_conversation_endpoint, Authenticated, Handler
    <3> QED
      BY <3>1, DirectMild
  <2> QED
    BY <2>1, SignedMild DEF SignedMildly
<1>9. CASE c.op = "invite_room_member"
  <2>1. ASSUME NEW s, NEW t
        PROVE  /\ Mild(invite_room_member_by_email(t, c.by, c.room, c.user, c.role), invite_room_member_by_email(s, c.by, c.room, c.user, c.role), s)
               /\ Statements(r, s) = get_current_user(s, c) \o invite_room_member_by_email(s, c.by, c.room, c.user, c.role)
    <3>1. Statements(r, s) = get_current_user(s, c) \o invite_room_member_by_email(s, c.by, c.room, c.user, c.role)
      BY <1>9, Zenon DEF Statements, ApiEndpoint, invite_room_member_endpoint, Authenticated, Handler
    <3> QED
      BY <3>1, InviteMild
  <2> QED
    BY <2>1, SignedMild DEF SignedMildly
<1> QED
  BY <1>1, <1>2, <1>3, <1>4, <1>5, <1>6, <1>7, <1>8, <1>9

(* A group: the checks of the addresses, the room, the invitations.        *)
LEMMA GroupMild ==
  ASSUME NEW s, NEW t, NEW c, NEW id, c.users \in Seq(Users)
  PROVE  Mild(create_group_conversation(t, c, id), create_group_conversation(s, c, id), s)
<1> DEFINE r == <<Net, <<"group", id>>>>
           m == Len(c.users)
           check(x, i) == << Select({User(c.users[i])}),
                             Require(Active(x, c.users[i]), "UserNotFound") >>
           invite(x, i) == invite_room_member_by_email(x, c.by, r, c.users[i], "member")
           checks(x) == [i \in DOMAIN c.users |-> Invited(c, c.users[i], check(x, i))]
           invites(x) == [i \in DOMAIN c.users |-> Invited(c, c.users[i], invite(x, i))]
<1>1. m \in Nat /\ DOMAIN c.users = 1..m
  OBVIOUS
<1>2. \A i : Mild(check(t, i), check(s, i), s) /\ Len(check(s, i)) = 2
  BY SparesThose, SparingTuples, SparingMild DEF Sparing
<1>3. \A i : Mild(invite(t, i), invite(s, i), s)
  BY InviteMild
<1>4. \A i : Len(invite(s, i)) = 14
  BY DEF invite_room_member_by_email, get_room_for_user, require_room_manager,
     ensure_workspace_membership, ensure_room_membership
<1>5. Mild(InTurn(checks(t)), InTurn(checks(s)), s)
  <2> DEFINE bs == checks(t)
             ds == checks(s)
  <2>1. ASSUME NEW i \in 1..m
        PROVE  bs[i] = Invited(c, c.users[i], check(t, i)) /\ ds[i] = Invited(c, c.users[i], check(s, i))
    BY <1>1
  <2>2. Listed(bs, m) /\ Listed(ds, m)
    BY <1>1 DEF Listed
  <2> HIDE DEF bs, ds, m, check
  <2>3. ASSUME NEW i \in 1..m PROVE Mild(bs[i], ds[i], s) /\ Len(ds[i]) = 2
    <3> DEFINE u == c.users[i]
               x == check(t, i)
               y == check(s, i)
    <3>1. Mild(x, y, s) /\ Len(y) = 2 /\ bs[i] = Invited(c, u, x) /\ ds[i] = Invited(c, u, y)
      BY <1>2, <2>1
    <3> HIDE DEF u, x, y
    <3>2. \A b, d : Mild(b, d, s) =>
            Mild(Invited(c, u, b), Invited(c, u, d), s) /\ Len(Invited(c, u, d)) = Len(d)
      BY InvitedMild
    <3>3. Mild(x, y, s)
      BY <3>1
    <3>4. Mild(Invited(c, u, x), Invited(c, u, y), s)
      BY <3>2, <3>3
    <3>5. Len(Invited(c, u, y)) = Len(y) /\ Len(y) = 2
      BY <3>1, <3>2, <3>3, Zenon
    <3>6. bs[i] = Invited(c, u, x) /\ ds[i] = Invited(c, u, y)
      BY <3>1
    <3> QED
      BY <3>4, <3>5, <3>6, Zenon
  <2>4. \A i \in 1..m : Mild(bs[i], ds[i], s) /\ Len(ds[i]) = 2
    BY <2>3
  <2>5. m \in Nat /\ 2 \in Nat \ {0}
    BY <1>1
  <2>6. Mild(InTurn(bs), InTurn(ds), s)
    BY <2>2, <2>4, <2>5, TurnMild, Zenon
  <2> QED
    BY <2>6 DEF bs, ds
<1>6. Mild(InTurn(invites(t)), InTurn(invites(s)), s)
  <2> DEFINE bs == invites(t)
             ds == invites(s)
  <2>1. ASSUME NEW i \in 1..m
        PROVE  bs[i] = Invited(c, c.users[i], invite(t, i)) /\ ds[i] = Invited(c, c.users[i], invite(s, i))
    BY <1>1
  <2>2. Listed(bs, m) /\ Listed(ds, m)
    BY <1>1 DEF Listed
  <2> HIDE DEF bs, ds, m, invite
  <2>3. ASSUME NEW i \in 1..m PROVE Mild(bs[i], ds[i], s) /\ Len(ds[i]) = 14
    <3> DEFINE u == c.users[i]
               x == invite(t, i)
               y == invite(s, i)
    <3>1. Mild(x, y, s) /\ Len(y) = 14 /\ bs[i] = Invited(c, u, x) /\ ds[i] = Invited(c, u, y)
      BY <1>3, <1>4, <2>1
    <3> HIDE DEF u, x, y
    <3>2. \A b, d : Mild(b, d, s) =>
            Mild(Invited(c, u, b), Invited(c, u, d), s) /\ Len(Invited(c, u, d)) = Len(d)
      BY InvitedMild
    <3>3. Mild(x, y, s)
      BY <3>1
    <3>4. Mild(Invited(c, u, x), Invited(c, u, y), s)
      BY <3>2, <3>3
    <3>5. Len(Invited(c, u, y)) = Len(y) /\ Len(y) = 14
      BY <3>1, <3>2, <3>3, Zenon
    <3>6. bs[i] = Invited(c, u, x) /\ ds[i] = Invited(c, u, y)
      BY <3>1
    <3> QED
      BY <3>4, <3>5, <3>6, Zenon
  <2>4. \A i \in 1..m : Mild(bs[i], ds[i], s) /\ Len(ds[i]) = 14
    BY <2>3
  <2>5. m \in Nat /\ 14 \in Nat \ {0}
    BY <1>1
  <2>6. Mild(InTurn(bs), InTurn(ds), s)
    BY <2>2, <2>4, <2>5, TurnMild, Zenon
  <2> QED
    BY <2>6 DEF bs, ds
<1> DEFINE a(x) == ensure_conversation_workspace(x, c.by)
           b(x) == validate_group_invite_emails(x, c)
           d(x) == create_room(x, c.by, r)
           e(x) == InTurn(invites(x))
<1>7. /\ create_group_conversation(t, c, id) = a(t) \o b(t) \o d(t) \o e(t)
      /\ create_group_conversation(s, c, id) = a(s) \o b(s) \o d(s) \o e(s)
  BY DEF create_group_conversation
<1>8. /\ Mild(a(t), a(s), s) /\ Mild(b(t), b(s), s) /\ Mild(d(t), d(s), s)
  BY <1>5, MildParts, RoomMild DEF validate_group_invite_emails
<1>9. Mild(e(t), e(s), s)
  BY <1>6
<1> HIDE DEF a, b, d, e
<1>10. Mild(a(t) \o b(t), a(s) \o b(s), s)
  BY <1>8, MildCat
<1>11. Mild(a(t) \o b(t) \o d(t), a(s) \o b(s) \o d(s), s)
  BY <1>8, <1>10, MildCat
<1>12. Mild(a(t) \o b(t) \o d(t) \o e(t), a(s) \o b(s) \o d(s) \o e(s), s)
  BY <1>9, <1>11, MildCat
<1> QED
  BY <1>7, <1>12

LEMMA GroupsMild ==
  ASSUME NEW r, r.args \in Calls, r.args.op = "create_group_conversation"
  PROVE  MildIn(r)
<1> DEFINE c == r.args
<1>1. c.users \in Seq(Users)
  BY CallsAssumption DEF Calls
<1>2. ASSUME NEW s
      PROVE  Statements(r, s) = get_current_user(s, c) \o create_group_conversation(s, c, r.id)
  BY Zenon DEF Statements, ApiEndpoint, create_group_conversation_endpoint, Authenticated, Handler
<1>3. ASSUME NEW s, NEW t
      PROVE  Mild(create_group_conversation(t, c, r.id), create_group_conversation(s, c, r.id), s)
  BY <1>1, GroupMild
<1> QED
  BY <1>2, <1>3, SignedMild DEF SignedMildly

-----------------------------------------------------------------------------
(* What the requests that write roles know.                                *)

IsOwner(d, k) == Value(d, k, "role", "owner")
\* An owner's row that the call has written is an owner's.
OwnersSpared(q) ==
  MildIn(call[q]) =>
    \A k \in Rows : k[1] \in Belongs /\ k \in DOMAIN writes[q] /\ IsOwner(db, k) =>
      k \in overtaken[q] \/ IsOwner(writes[q], k)
\* Number j of the call reads row k, and number n refuses to go on if it is an
\* owner's and none of those in K is; the call does not write those in K, and
\* up to number m neither commits nor reads k again.
Counts(r, k, K, j, n, m) ==
  /\ j < n /\ Window(r, k, j, m)
  /\ \A o \in K : \A p \in Nat : Late(r, o, p)
  /\ \A s : /\ Statements(r, s)[n].do \in Control
            /\ Statements(r, s)[n].do = "pass" /\ Role(s, k) = "owner" =>
                 \E o \in K : Role(s, o) = "owner"
OwnerCounted(q, k, K, j, n, m) ==
  Counts(call[q], k, K, j, n, m) /\ n < pc[q] /\ pc[q] <= m /\ Role(seen[q], k) = "owner" =>
    \E o \in K : o \in overtaken[q] \/ IsOwner(db, o)
OwnersCounted(q) ==
  \A k \in Rows, K \in SUBSET Rows, j, n, m \in Nat \ {0} : OwnerCounted(q, k, K, j, n, m)
OInv == TInv /\ \A q \in Requests : Open(q) => OwnersSpared(q) /\ OwnersCounted(q)

LEMMA SparedKept ==
  ASSUME Routed, OInv, NEW q \in Requests, Goes(q), Effect(q)
  PROVE  OwnersSpared(q)'
<1> DEFINE r == call[q]
           i == pc[q]
           s == seen[q]
<1>1. /\ Open(q) /\ call'[q] = r /\ overtaken'[q] = overtaken[q] /\ RInv /\ SInv
      /\ i \in Nat \ {0} /\ i \in 1..Len(Statements(r, s))
      /\ current[q] = Statements(r, s)[i]
  BY GoesOn DEF OInv
<1>2. SUFFICES ASSUME MildIn(r), NEW k \in Rows, k[1] \in Belongs, k \in DOMAIN writes'[q],
                      IsOwner(db', k), k \notin overtaken[q]
               PROVE  IsOwner(writes'[q], k)
  BY <1>1 DEF OwnersSpared, IsOwner
<1>3. db' = db
  BY <1>2, NotCommitted
<1>4. k \in DOMAIN writes[q] => IsOwner(writes[q], k)
  BY <1>1, <1>2, <1>3 DEF OInv, OwnersSpared
<1>5. Visible(q, k) # Absent /\ Visible(q, k).role = "owner"
  BY <1>2, <1>3, <1>4 DEF Visible, IsOwner, Value
<1>6. CASE ~Alters(current[q], k)
  <2>1. k \in DOMAIN writes[q] /\ writes'[q][k] = writes[q][k]
    BY <1>1, <1>2, <1>6, EffectVisible DEF Visible
  <2> QED
    BY <1>4, <2>1 DEF IsOwner, Value
<1>7. CASE Alters(current[q], k)
  <2>1. \/ Spares(current[q])
        \/ current[q].do = "update" /\ \A t : ReadBefore(Statements(r, t), i, s, k)
    <3>1. ASSUME NEW t
          PROVE  Spares(Statements(r, s)[i]) \/ (Statements(r, s)[i].do = "update"
                                                 /\ ReadBefore(Statements(r, t), i, s, k))
      <4>1. Mild(Statements(r, t), Statements(r, s), s)
        BY <1>2 DEF MildIn
      <4> HIDE DEF r, i, s
      <4> QED
        BY <1>1, <1>2, <1>7, <4>1 DEF Mild
    <3> HIDE DEF r, i, s
    <3> QED
      BY <1>1, <3>1
  <2>2. CASE Spares(current[q])
    <3>1. current[q].do # "insert"
      BY <1>5, <1>7, RowWritten
    <3>2. current[q].do = "update" /\ current[q].row = AsRole("owner")
      BY <1>2, <1>7, <2>2, <3>1 DEF Spares
    <3>3. writes'[q][k] = Over(AsRole("owner"), Visible(q, k))
      BY <1>7, <3>2, RowWritten
    <3>4. writes'[q][k].role = "owner" /\ "role" \in DOMAIN writes'[q][k]
      BY <3>3 DEF Over, AsRole
    <3> QED
      BY <3>4 DEF IsOwner, Value, Absent
  <2>3. CASE current[q].do = "update" /\ \A t : ReadBefore(Statements(r, t), i, s, k)
    <3> DEFINE j == i - 1
    <3>1. j \in Nat \ {0} /\ i = j + 1 /\ Role(s, k) # "owner"
      <4> HIDE DEF r, i, s
      <4> QED
        BY <1>1, <2>3 DEF ReadBefore
    <3>2. Reads(r, k, j)
      BY <2>3 DEF ReadBefore, Reads, Rereads
    <3> HIDE DEF j
    <3>3. k \in DOMAIN s /\ s[k] = Visible(q, k)
      BY <1>1, <1>2, <3>1, <3>2 DEF SInv, KInv, Knows, KnowsRead
    <3> QED
      BY <1>5, <3>1, <3>3 DEF Role, Exists, Row
  <2> QED
    BY <2>1, <2>2, <2>3
<1> QED
  BY <1>6, <1>7

LEMMA CountedKept ==
  ASSUME Routed, OInv, KInv', NEW q \in Requests, Open(q)', Goes(q), Effect(q)
  PROVE  OwnersCounted(q)'
<1> DEFINE r == call[q]
<1>1. /\ Open(q) /\ call'[q] = r /\ overtaken'[q] = overtaken[q] /\ RInv /\ SInv
      /\ pc[q] \in Nat \ {0} /\ pc'[q] \in Nat /\ pc'[q] > pc[q]
      /\ pc[q] \in 1..Len(Statements(r, seen[q]))
      /\ current[q] = Statements(r, seen[q])[pc[q]] /\ current[q].do \notin Control
  BY GoesOn DEF OInv
<1>2. \A j \in Nat : pc[q] < j /\ j < pc'[q] => Statements(r, seen'[q])[j].do = "pass"
  BY GoesOn DEF OInv
<1>3. SUFFICES ASSUME NEW k \in Rows, NEW K \in SUBSET Rows, NEW j \in Nat \ {0},
                      NEW n \in Nat \ {0}, NEW m \in Nat \ {0}, Counts(r, k, K, j, n, m),
                      n < pc'[q], pc'[q] <= m, Role(seen'[q], k) = "owner"
               PROVE  \E o \in K : o \in overtaken[q] \/ IsOwner(db', o)
  BY <1>1 DEF OwnersCounted, OwnerCounted, IsOwner
<1> HIDE DEF r
<1>4. CASE n < pc[q]
  <2>1. j < pc[q] /\ pc[q] <= m /\ pc[q] < m
    BY <1>1, <1>3, <1>4 DEF Counts
  <2>2. current[q].do # "commit" /\ ~Rereads(current[q], k)
    BY <1>1, <1>3, <2>1 DEF Counts, Window
  <2>3. k \in DOMAIN seen[q]
    BY <1>1, <1>3, <2>1 DEF Counts, OInv, TInv, WindowKept, StillSeen, r
  <2>4. seen'[q][k] = seen[q][k] /\ db' = db /\ k \in DOMAIN seen'[q]
    BY <2>2, <2>3, SeenStays
  <2>5. Role(seen[q], k) = "owner"
    BY <1>3, <2>3, <2>4 DEF Role, Exists, Row
  <2>6. OwnerCounted(q, k, K, j, n, m)
    BY <1>1 DEF OInv, OwnersCounted
  <2> QED
    BY <1>3, <1>4, <2>1, <2>4, <2>5, <2>6 DEF OwnerCounted, r
<1>5. CASE n = pc[q]
  BY <1>1, <1>3, <1>5 DEF Counts
<1>6. CASE pc[q] < n
  <2>1. Statements(r, seen'[q])[n].do = "pass"
    BY <1>2, <1>3, <1>6
  <2>2. PICK o \in K : Role(seen'[q], o) = "owner"
    BY <1>3, <2>1 DEF Counts
  <2>3. o \in DOMAIN seen'[q] /\ seen'[q][o] # Absent /\ seen'[q][o].role = "owner"
    BY <2>2 DEF Role, Exists, Row
  <2>4. KnowsFirst(q, o)' /\ Late(r, o, pc'[q])
    BY <1>1, <1>3 DEF KInv, Knows, Counts
  <2>5. o \in overtaken[q] \/ seen'[q][o] = db'[o]
    BY <1>1, <2>3, <2>4 DEF KnowsFirst, Fresh, r
  <2> QED
    BY <2>3, <2>5 DEF IsOwner, Value
<1> QED
  BY <1>1, <1>4, <1>5, <1>6

LEMMA OwnersHold ==
  ASSUME Routed
  PROVE  /\ Init => OInv
         /\ OInv /\ [Next]_vars => OInv'
<1>1. Init => OInv
  BY TestsHold DEF Init, OInv, Open
<1>2. ASSUME OInv, [Next]_vars PROVE OInv'
  <2>1. Runnable /\ WInv /\ TInv' /\ KInv'
    BY <1>2, RoutedRuns, TestsHold DEF OInv, TInv, DInv, SInv, KInv, RInv
  <2>2. ASSUME NEW q \in Requests, Open(q)' PROVE (OwnersSpared(q) /\ OwnersCounted(q))'
    <3>1. CASE Aside(q)
      <4>1. /\ pc'[q] = pc[q] /\ call'[q] = call[q] /\ seen'[q] = seen[q]
            /\ writes'[q] = writes[q] /\ overtaken[q] \subseteq overtaken'[q]
            /\ \A k \in Rows : k \notin overtaken'[q] => db'[k] = db[k]
            /\ OwnersSpared(q) /\ OwnersCounted(q)
        BY <1>2, <3>1 DEF Aside, Rows, OInv
      <4>2. ASSUME NEW k \in Rows, k \notin overtaken'[q] PROVE IsOwner(db', k) <=> IsOwner(db, k)
        BY <4>1, <4>2 DEF IsOwner, Value
      <4>3. OwnersSpared(q)'
        BY <4>1, <4>2 DEF OwnersSpared, IsOwner
      <4>4. OwnersCounted(q)'
        <5> SUFFICES ASSUME NEW k \in Rows, NEW K \in SUBSET Rows, NEW j \in Nat \ {0},
                            NEW n \in Nat \ {0}, NEW m \in Nat \ {0}
                     PROVE  OwnerCounted(q, k, K, j, n, m)'
          BY DEF OwnersCounted
        <5>1. OwnerCounted(q, k, K, j, n, m)
          BY <4>1 DEF OwnersCounted
        <5> QED
          BY <4>1, <4>2, <5>1 DEF OwnerCounted
      <4> QED
        BY <4>3, <4>4
    <3>2. CASE Arrives(q)
      <4>1. ASSUME NEW j \in Nat \ {0}, j < pc'[q] PROVE (Body(q)')[j].do = "pass"
        BY <3>2, <4>1 DEF Arrives
      <4>2. seen'[q] = NoRows /\ writes'[q] = NoRows /\ DOMAIN NoRows = {}
        BY <3>2 DEF Arrives, NoRows
      <4>3. \A k : Role(seen'[q], k) # "owner"
        BY <4>2 DEF Role, Exists, Row
      <4> QED
        BY <4>2, <4>3 DEF OwnersSpared, OwnersCounted, OwnerCounted
    <3>3. CASE Goes(q) /\ Effect(q)
      BY <1>2, <2>1, <2>2, <3>3, SparedKept, CountedKept
    <3> QED
      BY <1>2, <2>1, <2>2, <3>1, <3>2, <3>3, StepCases
  <2> QED
    BY <2>1, <2>2 DEF OInv
<1> QED
  BY <1>1, <1>2

-----------------------------------------------------------------------------
(* The endpoints that count the other owners first.                        *)

Looking(b, n) ==
  IsBody(b) /\ n \in Nat /\ Len(b) = n /\ \A i \in 1..n : b[i].do \in {"select", "pass", "raise"}
\* Reads row k, and refuses if it is the last owner's of k and K.
Asking(b, s, k, K) ==
  /\ IsBody(b) /\ Len(b) = 4
  /\ b[1] = Select({k}) /\ b[2].do \in {"pass", "raise"} /\ b[3] \in {Pass, Select(K)}
  /\ b[4].do \in {"pass", "raise"}
  /\ b[4].do = "pass" /\ Role(s, k) = "owner" => \E o \in K : Role(s, o) = "owner"
\* Of the table of k writes only k, and commits with statement l only.
Ending(b, k, l) ==
  /\ IsBody(b) /\ l \in 1..Len(b)
  /\ \A i \in 1..Len(b) :
       /\ b[i].do # "select" /\ (b[i].do = "commit" => i = l)
       /\ \A o : Alters(b[i], o) => o = k \/ o[1] # k[1]

LEMMA LookingCat ==
  ASSUME NEW a, NEW b, NEW n, NEW m, NEW l, Looking(a, n), Looking(b, m), l = n + m
  PROVE  Looking(a \o b, l)
<1>1. /\ IsBody(a) /\ IsBody(b) /\ Len(a) = n /\ Len(b) = m /\ n \in Nat /\ m \in Nat
      /\ l \in Nat
  BY DEF Looking
<1>2. ASSUME NEW i \in 1..l PROVE (a \o b)[i].do \in {"select", "pass", "raise"}
  <2>1. CASE i <= n
    BY <1>1, <2>1, Joins DEF Looking
  <2>2. CASE i > n
    <3>1. i - n \in 1..m
      BY <1>1, <2>2
    <3> QED
      BY <1>1, <3>1, <2>2, Joins DEF Looking
  <2> QED
    BY <1>1, <2>1, <2>2
<1> QED
  BY <1>1, <1>2, Joins DEF Looking

LEMMA LookingParts ==
  ASSUME NEW s
  PROVE  /\ \A c : Looking(get_current_user(s, c), 2)
         /\ \A u, w : Looking(require_workspace_owner(s, u, w), 3)
         /\ \A u, r : Looking(get_room_for_user(s, u, r), 2)
         /\ \A u, r : Looking(require_room_manager(s, u, r), 3)
<1> DEFINE Looks(st) == st.do \in {"select", "pass", "raise"}
<1>1. /\ \A a : Looks(a) => Looking(<< a >>, 1)
      /\ \A a, b : Looks(a) /\ Looks(b) => Looking(<< a, b >>, 2)
      /\ \A a, b, d : Looks(a) /\ Looks(b) /\ Looks(d) => Looking(<< a, b, d >>, 3)
  <2>1. ASSUME NEW a, Looks(a) PROVE Looking(<< a >>, 1)
    BY <2>1 DEF Looking, IsBody
  <2>2. ASSUME NEW a, NEW b, Looks(a), Looks(b) PROVE Looking(<< a, b >>, 2)
    BY <2>2 DEF Looking, IsBody
  <2>3. ASSUME NEW a, NEW b, NEW d, Looks(a), Looks(b), Looks(d) PROVE Looking(<< a, b, d >>, 3)
    BY <2>3 DEF Looking, IsBody
  <2> HIDE DEF Looks
  <2> QED
    BY <2>1, <2>2, <2>3
<1>2. /\ \A K : Looks(Select(K)) /\ \A p, e : Looks(Require(p, e)) /\ Looks(Pass)
  BY Kinds
<1> HIDE DEF Looks
<1>3. \A c : Looking(get_current_user(s, c), 2)
  BY <1>1, <1>2 DEF get_current_user
<1>4. ASSUME NEW u, NEW w PROVE Looking(require_workspace_owner(s, u, w), 3)
  <2> DEFINE a == << Select({Membership(w, u)}),
                     Require(Exists(s, Membership(w, u)), "WorkspaceNotFound") >>
             b == << Require(Role(s, Membership(w, u)) = "owner", "WorkspaceOwnerRequired") >>
  <2>1. require_workspace_owner(s, u, w) = a \o b
    BY DEF require_workspace_owner, get_workspace_for_user
  <2>2. Looking(a, 2) /\ Looking(b, 1)
    BY <1>1, <1>2
  <2> HIDE DEF a, b
  <2>3. 3 = 2 + 1
    OBVIOUS
  <2>4. Looking(a \o b, 3)
    BY <2>2, <2>3, LookingCat
  <2> QED
    BY <2>1, <2>4
<1>5. \A u, r : Looking(get_room_for_user(s, u, r), 2)
  BY <1>1, <1>2 DEF get_room_for_user
<1>6. \A u, r : Looking(require_room_manager(s, u, r), 3)
  BY <1>1, <1>2 DEF require_room_manager
<1> QED
  BY <1>3, <1>4, <1>5, <1>6

LEMMA AskingParts ==
  ASSUME NEW s, NEW k, NEW K, NEW e, NEW f
  PROVE  Asking(<< Select({k}), Require(Exists(s, k), e) >> \o AnotherOwner(s, k, K, f), s, k, K)
<1> DEFINE p == Exists(s, k)
           o == Role(s, k) = "owner" => \E x \in K : Role(s, x) = "owner"
           a == Require(p, e)
           x == IF Role(s, k) = "owner" THEN Select(K) ELSE Pass
           y == Require(o, f)
           st == Select({k})
           b == << st, a >> \o AnotherOwner(s, k, K, f)
<1>1. AnotherOwner(s, k, K, f) = << x, y >>
  BY DEF AnotherOwner
<1>2. /\ a.do \in {"pass", "raise"} /\ y.do \in {"pass", "raise"} /\ x \in {Pass, Select(K)}
      /\ (y.do = "pass" => o)
  BY Kinds DEF Require
<1> HIDE DEF a, x, y, st
<1>3. Len(b) = 4 /\ b[1] = st /\ b[2] = a /\ b[3] = x /\ b[4] = y
  BY <1>1
<1>4. IsBody(b)
  BY <1>1 DEF IsBody
<1> HIDE DEF b, o
<1>5. Asking(b, s, k, K)
  BY <1>2, <1>3, <1>4 DEF Asking, st, o
<1> QED
  BY <1>5 DEF b, st, a

\* A call that looks around, asks and then ends.
Careful(r, k, K, n, l) ==
  /\ n \in Nat /\ l \in Nat \ {0}
  /\ \A o \in K : o # k /\ o[1] = k[1]
  /\ \A s : \E a, b, d : /\ Statements(r, s) = a \o b \o d /\ Looking(a, n)
                         /\ Asking(b, s, k, K) /\ Ending(d, k, l)

LEMMA CarefulCounts ==
  ASSUME NEW r, NEW k, NEW K, NEW n, NEW l, Careful(r, k, K, n, l)
  PROVE  /\ Counts(r, k, K, n + 1, n + 4, n + 4 + l)
         /\ \A s : \A i \in 1..Len(Statements(r, s)) :
              Statements(r, s)[i].do = "commit" => i = n + 4 + l
         /\ \A o : o # k /\ o[1] = k[1] => \A p \in Nat : Late(r, o, p)
<1>1. n \in Nat /\ l \in Nat \ {0} /\ \A o \in K : o # k /\ o[1] = k[1]
  BY DEF Careful
<1>2. ASSUME NEW s
      PROVE  LET b == Statements(r, s) IN
             /\ b[n + 1] = Select({k}) /\ b[n + 4].do \in {"pass", "raise"}
             /\ b[n + 4].do = "pass" /\ Role(s, k) = "owner" => \E o \in K : Role(s, o) = "owner"
             /\ \A i \in 1..Len(b) :
                  /\ i <= n + 4 => b[i].do \in {"select", "pass", "raise"}
                  /\ n + 1 < i => ~Rereads(b[i], k)
                  /\ b[i].do = "commit" => i = n + 4 + l
                  /\ \A o : Alters(b[i], o) => o = k \/ o[1] # k[1]
  <2> DEFINE b == Statements(r, s)
  <2>1. PICK x, y, z : /\ b = x \o y \o z /\ Looking(x, n) /\ Asking(y, s, k, K)
                       /\ Ending(z, k, l)
    BY DEF Careful
  <2> HIDE DEF b
  <2>2. /\ IsBody(x) /\ IsBody(y) /\ IsBody(z) /\ Len(x) = n /\ Len(y) = 4
        /\ l \in 1..Len(z) /\ Len(z) \in Nat
    BY <2>1 DEF Looking, Asking, Ending, IsBody
  <2> DEFINE m == Len(z)
             f == x \o y
  <2>3. /\ IsBody(f) /\ Len(f) = n + 4 /\ \A i \in 1..n : f[i] = x[i]
        /\ \A i \in n + 1..n + 4 : f[i] = y[i - n]
    <3> DEFINE v == Len(y)
    <3>1. /\ IsBody(f) /\ Len(f) = n + v /\ \A i \in 1..n : f[i] = x[i]
          /\ \A i \in n + 1..n + v : f[i] = y[i - n]
      BY <2>2, Joins
    <3> HIDE DEF f
    <3> QED
      BY <2>2, <3>1
  <2>4. b = f \o z
    BY <2>1
  <2> HIDE DEF f
  <2>5. /\ Len(b) = n + 4 + m /\ \A i \in 1..n + 4 : b[i] = f[i]
        /\ \A i \in n + 4 + 1..n + 4 + m : b[i] = z[i - (n + 4)]
    <3> DEFINE v == Len(f)
    <3>1. IsBody(f) /\ IsBody(z)
      BY <2>2, <2>3
    <3>2. /\ Len(f \o z) = v + m /\ \A i \in 1..v : (f \o z)[i] = f[i]
          /\ \A i \in v + 1..v + m : (f \o z)[i] = z[i - v]
      BY <3>1, Joins
    <3>3. v = n + 4
      BY <2>3
    <3> HIDE DEF v, m
    <3> QED
      BY <2>4, <3>2, <3>3
  <2>6. b[n + 1] = y[1] /\ b[n + 2] = y[2] /\ b[n + 3] = y[3] /\ b[n + 4] = y[4]
    <3>1. /\ n + 1 \in n + 1..n + 4 /\ (n + 1) - n = 1 /\ n + 2 \in n + 1..n + 4 /\ (n + 2) - n = 2
          /\ n + 3 \in n + 1..n + 4 /\ (n + 3) - n = 3 /\ n + 4 \in n + 1..n + 4 /\ (n + 4) - n = 4
      BY <1>1
    <3>2. ASSUME NEW i \in n + 1..n + 4 PROVE b[i] = y[i - n]
      <4>1. i \in 1..n + 4
        BY <1>1
      <4> QED
        BY <2>3, <2>5, <4>1
    <3>3. b[n + 1] = y[(n + 1) - n] /\ b[n + 2] = y[(n + 2) - n]
      BY <3>1, <3>2
    <3>4. b[n + 3] = y[(n + 3) - n] /\ b[n + 4] = y[(n + 4) - n]
      BY <3>1, <3>2
    <3> QED
      BY <3>1, <3>3, <3>4
  <2>7. \A i \in 1..n : b[i].do \in {"select", "pass", "raise"}
    BY <1>1, <2>1, <2>3, <2>5 DEF Looking
  <2>8. /\ b[n + 1].do = "select" /\ b[n + 2].do \in {"pass", "raise"}
        /\ b[n + 3].do \in {"select", "pass"} /\ b[n + 4].do \in {"pass", "raise"}
    BY <2>1, <2>6, Kinds DEF Asking
  <2>9. ~Rereads(b[n + 2], k) /\ ~Rereads(b[n + 3], k) /\ ~Rereads(b[n + 4], k)
    <3>1. b[n + 3] = Pass \/ b[n + 3].keys = K
      <4>1. y[3] = Pass \/ y[3] = Select(K)
        BY <2>1 DEF Asking
      <4>2. Select(K).keys = K
        BY DEF Select, Statement
      <4> QED
        BY <2>6, <4>1, <4>2
    <3> QED
      BY <1>1, <2>8, <3>1, Kinds DEF Rereads
  <2>10. ASSUME NEW i \in n + 5..n + 4 + m
         PROVE  /\ b[i].do # "select" /\ (b[i].do = "commit" => i = n + 4 + l)
                /\ \A o : Alters(b[i], o) => o = k \/ o[1] # k[1]
    <3> DEFINE h == i - (n + 4)
    <3>1. h \in 1..m /\ b[i] = z[h] /\ i = n + 4 + h
      BY <1>1, <2>2, <2>5
    <3> HIDE DEF h
    <3> QED
      BY <2>1, <3>1 DEF Ending
  <2>11. ASSUME NEW i \in 1..n + 4
         PROVE  b[i].do \in {"select", "pass", "raise"} /\ (n + 1 < i => ~Rereads(b[i], k))
    <3>1. i \in 1..n \/ i = n + 1 \/ i = n + 2 \/ i = n + 3 \/ i = n + 4
      BY <1>1
    <3> QED
      BY <1>1, <2>7, <2>8, <2>9, <3>1
  <2>12. ASSUME NEW i \in 1..n + 4
         PROVE  b[i].do # "commit" /\ \A o : ~Alters(b[i], o)
    BY <2>11 DEF Alters, Writing
  <2>13. ASSUME NEW i \in 1..Len(b)
         PROVE  /\ i <= n + 4 => b[i].do \in {"select", "pass", "raise"}
                /\ n + 1 < i => ~Rereads(b[i], k)
                /\ b[i].do = "commit" => i = n + 4 + l
                /\ \A o : Alters(b[i], o) => o = k \/ o[1] # k[1]
    <3>1. i \in 1..n + 4 \/ i \in n + 5..n + 4 + m
      BY <1>1, <2>2, <2>5
    <3>2. CASE i \in 1..n + 4
      BY <2>11, <2>12, <3>2
    <3>3. CASE i \in n + 5..n + 4 + m
      <4>1. ~(i <= n + 4)
        BY <1>1, <3>3
      <4> QED
        BY <2>10, <3>3, <4>1 DEF Rereads
    <3> QED
      BY <3>1, <3>2, <3>3
  <2>14. b[n + 4].do = "pass" /\ Role(s, k) = "owner" => \E o \in K : Role(s, o) = "owner"
    BY <2>1, <2>6 DEF Asking
  <2> QED
    BY <2>1, <2>6, <2>8, <2>13, <2>14 DEF b, Asking
<1> DEFINE j == n + 1
           h == n + 4
           m == n + 4 + l
<1>3. j < h /\ j <= h /\ h < m /\ \A i \in Nat : i < j => i <= h
  BY <1>1
<1>4. ASSUME NEW o, o # k, o[1] = k[1], NEW p \in Nat PROVE Late(r, o, p)
  BY <1>2, <1>4 DEF Late
<1>5. Late(r, k, j)
  <2>1. ASSUME NEW s, NEW i \in 1..Len(Statements(r, s)), i < j
        PROVE  ~Alters(Statements(r, s)[i], k)
    <3>1. i <= h
      BY <1>3, <2>1
    <3>2. Statements(r, s)[i].do \in {"select", "pass", "raise"}
      BY <1>2, <3>1
    <3> QED
      BY <3>2 DEF Alters, Writing
  <2> QED
    BY <2>1 DEF Late
<1>6. Reads(r, k, j)
  <2>1. Select({k}).do = "select" /\ k \in Select({k}).keys
    BY DEF Select, Statement
  <2> QED
    BY <1>2, <2>1 DEF Reads
<1>7. ASSUME NEW s, NEW i \in 1..Len(Statements(r, s)), j < i, i < m
      PROVE  Statements(r, s)[i].do # "commit" /\ ~Rereads(Statements(r, s)[i], k)
  <2>1. Statements(r, s)[i].do = "commit" => i = m
    BY <1>2
  <2>2. ~Rereads(Statements(r, s)[i], k)
    BY <1>2, <1>7
  <2>3. i # m
    BY <1>1, <1>7
  <2> QED
    BY <2>1, <2>2, <2>3
<1>8. \A s : /\ Statements(r, s)[h].do \in Control
             /\ Statements(r, s)[h].do = "pass" /\ Role(s, k) = "owner" =>
                  \E o \in K : Role(s, o) = "owner"
  BY <1>2 DEF Control
<1>9. \A s : \A i \in 1..Len(Statements(r, s)) : Statements(r, s)[i].do = "commit" => i = m
  BY <1>2
<1> HIDE DEF j, h, m
<1>10. Window(r, k, j, m)
  BY <1>5, <1>6, <1>7 DEF Window
<1>11. Counts(r, k, K, j, h, m)
  BY <1>1, <1>3, <1>4, <1>8, <1>10 DEF Counts
<1> QED
  BY <1>4, <1>9, <1>11 DEF j, h, m

LEMMA EndingParts ==
  ASSUME NEW s, NEW k
  PROVE  /\ \A row : Ending(<< Assign(s, k, row), Commit, Refresh(k) >>, k, 2)
         /\ Ending(<< Delete(k), Commit >>, k, 2)
         /\ \A K : (\A o \in K : o[1] # k[1]) =>
              Ending(<< DeleteWhere(K), Delete(k), Commit >>, k, 3)
<1> DEFINE Fits(st) == /\ st.do \notin {"select", "commit"}
                        /\ \A o : Alters(st, o) => o = k \/ o[1] # k[1]
           cm == Commit
           rf == Refresh(k)
           dl == Delete(k)
<1>1. /\ \A o : ~Alters(cm, o)
      /\ cm.do = "commit" /\ Fits(rf) /\ Fits(dl)
  BY DEF Alters, Writing, Commit, Refresh, Delete, Statement
<1> HIDE DEF cm, rf, dl
<1>2. ASSUME NEW a, NEW z, Fits(a), Fits(z)
      PROVE  Ending(<< a, cm, z >>, k, 2) /\ Ending(<< a, z, cm >>, k, 3)
  <2>1. ASSUME NEW b, IsBody(b), Len(b) = 3, b[1] = a, b[2] = cm, b[3] = z PROVE Ending(b, k, 2)
    BY <1>1, <1>2, <2>1 DEF Ending
  <2>2. ASSUME NEW b, IsBody(b), Len(b) = 3, b[1] = a, b[2] = z, b[3] = cm PROVE Ending(b, k, 3)
    BY <1>1, <1>2, <2>2 DEF Ending
  <2>3. IsBody(<< a, cm, z >>) /\ IsBody(<< a, z, cm >>)
    BY DEF IsBody
  <2> HIDE DEF Fits
  <2> QED
    BY <2>1, <2>2, <2>3
<1>3. ASSUME NEW row PROVE Ending(<< Assign(s, k, row), cm, rf >>, k, 2)
  <2> DEFINE st == Assign(s, k, row)
  <2>1. Fits(st)
    BY DEF Assign, Alters, Writing, Pass, Update, Statement
  <2> HIDE DEF st, Fits
  <2>2. Ending(<< st, cm, rf >>, k, 2)
    BY <1>1, <1>2, <2>1
  <2> QED
    BY <2>2 DEF st
<1>4. Ending(<< dl, cm >>, k, 2)
  <2>1. ASSUME NEW b, IsBody(b), Len(b) = 2, b[1] = dl, b[2] = cm PROVE Ending(b, k, 2)
    BY <1>1, <2>1 DEF Ending
  <2>2. IsBody(<< dl, cm >>)
    BY DEF IsBody
  <2> QED
    BY <2>1, <2>2
<1>5. ASSUME NEW K, \A o \in K : o[1] # k[1] PROVE Ending(<< DeleteWhere(K), dl, cm >>, k, 3)
  <2> DEFINE st == DeleteWhere(K)
  <2>1. Fits(st)
    BY <1>5 DEF Alters, DeleteWhere, Statement
  <2> HIDE DEF st, Fits
  <2>2. Ending(<< st, dl, cm >>, k, 3)
    BY <1>1, <1>2, <2>1
  <2> QED
    BY <2>2 DEF st
<1> QED
  BY <1>3, <1>4, <1>5 DEF cm, rf, dl

\* Joined in the other order, the parts of a body make the same body.
Glue(a, b) == a \o b
Sticks(a, b, d) == Glue(Glue(a, b), d) = Glue(a, Glue(b, d))

LEMMA GluedTwice ==
  ASSUME NEW a, NEW b, NEW d, IsBody(a), IsBody(b), IsBody(d)
  PROVE  IsBody(Glue(a, b)) /\ Sticks(a, b, d)
<1> DEFINE S == {a[i] : i \in 1..Len(a)} \cup {b[i] : i \in 1..Len(b)} \cup {d[i] : i \in 1..Len(d)}
<1>1. a \in Seq(S) /\ b \in Seq(S) /\ d \in Seq(S)
  BY DEF IsBody
<1> HIDE DEF S
<1>2. (a \o b) \o d = a \o (b \o d)
  BY <1>1, ConcatAssociative
<1>3. IsBody(a \o b)
  BY Joins
<1> QED
  BY <1>2, <1>3 DEF Glue, Sticks

Regroups(e, f, g, h, d) == e \o (f \o g \o h \o d) = (e \o f) \o (g \o h) \o d

LEMMA Regroup ==
  ASSUME NEW e, NEW f, NEW g, NEW h, NEW d, IsBody(e), IsBody(f), IsBody(g), IsBody(h), IsBody(d)
  PROVE  Regroups(e, f, g, h, d)
<1> DEFINE m == Glue(g, h)
           n == Glue(f, m)
<1>1. Sticks(f, g, h) /\ IsBody(m)
  BY GluedTwice
<1> HIDE DEF m
<1>2. Sticks(e, f, m) /\ IsBody(n)
  BY <1>1, GluedTwice
<1> HIDE DEF n
<1>3. Sticks(e, n, d)
  BY <1>2, GluedTwice
<1>4. Glue(Glue(f, g), h) = n /\ Glue(Glue(e, f), m) = Glue(e, n)
      /\ Glue(Glue(e, n), d) = Glue(e, Glue(n, d))
  BY <1>1, <1>2, <1>3 DEF Sticks, n, m
<1>5. Glue(e, Glue(Glue(Glue(f, g), h), d)) = Glue(Glue(Glue(e, f), m), d)
  BY <1>4
<1> QED
  BY <1>5 DEF Glue, m, Regroups

LEMMA CarefulEndpoints ==
  ASSUME NEW r, NEW c, c = r.args
  PROVE  /\ c.op = "update_workspace_member" /\ c.role # "owner" =>
              Careful(r, Membership(c.ws, c.user), {Membership(c.ws, v) : v \in Users \ {c.user}}, 5, 2)
         /\ c.op = "remove_workspace_member" =>
              Careful(r, Membership(c.ws, c.user), {Membership(c.ws, v) : v \in Users \ {c.user}}, 5, 3)
         /\ c.op = "update_room_member" /\ c.role # "owner" =>
              Careful(r, RoomMember(c.room, c.user), {RoomMember(c.room, v) : v \in Users \ {c.user}}, 7, 2)
         /\ c.op = "remove_room_member" =>
              Careful(r, RoomMember(c.room, c.user), {RoomMember(c.room, v) : v \in Users \ {c.user}}, 7, 2)
<1>1. ASSUME c.op = "update_workspace_member", c.role # "owner"
      PROVE  Careful(r, Membership(c.ws, c.user), {Membership(c.ws, v) : v \in Users \ {c.user}}, 5, 2)
  <2> DEFINE k == Membership(c.ws, c.user)
             K == {Membership(c.ws, v) : v \in Users \ {c.user}}
  <2>1. ASSUME NEW s
        PROVE  \E x, y, z : /\ Statements(r, s) = x \o y \o z /\ Looking(x, 5)
                            /\ Asking(y, s, k, K) /\ Ending(z, k, 2)
    <3> DEFINE e == get_current_user(s, c)
               f == require_workspace_owner(s, c.by, c.ws)
               g == get_workspace_membership_with_user(s, c.ws, c.user)
               h == AnotherOwner(s, k, K, "WorkspaceLastOwner")
               d == << Assign(s, k, AsRole(c.role)), Commit, Refresh(k) >>
    <3>1. Statements(r, s) = e \o (f \o g \o h \o d)
      <4>1. Statements(r, s) = e \o update_workspace_member_role(s, c)
        BY <1>1, Zenon DEF Statements, ApiEndpoint, update_workspace_member_endpoint, Authenticated, Handler
      <4>2. update_workspace_member_role(s, c) = f \o g \o h \o d
        BY <1>1 DEF update_workspace_member_role, ensure_workspace_has_another_owner
      <4> HIDE DEF e, f, g, h, d
      <4> QED
        BY <4>1, <4>2
    <3>2. Looking(e, 2) /\ Looking(f, 3)
      BY LookingParts
    <3>3. Asking(g \o h, s, k, K) /\ IsBody(g) /\ IsBody(h)
      <4>1. Asking(g \o h, s, k, K)
        BY AskingParts DEF get_workspace_membership_with_user
      <4>2. IsBody(g) /\ IsBody(h)
        BY DEF get_workspace_membership_with_user, AnotherOwner, IsBody
      <4> QED
        BY <4>1, <4>2
    <3>4. Ending(d, k, 2)
      BY EndingParts
    <3> HIDE DEF e, f, g, h, d, k, K
    <3>5. Statements(r, s) = (e \o f) \o (g \o h) \o d
      <4>1. IsBody(e) /\ IsBody(f) /\ IsBody(d)
        BY <3>2, <3>4 DEF Looking, Ending
      <4>2. Regroups(e, f, g, h, d)
        BY <3>3, <4>1, Regroup
      <4> QED
        BY <3>1, <4>2, Zenon DEF Regroups
    <3>6. Looking(e \o f, 5)
      BY <3>2, LookingCat
    <3> QED
      BY <3>3, <3>4, <3>5, <3>6
  <2>2. \A o \in K : o # k /\ o[1] = k[1]
    BY DEF Membership, RoomMember
  <2> HIDE DEF k, K
  <2>3. 5 \in Nat /\ 2 \in Nat \ {0}
    OBVIOUS
  <2>4. Careful(r, k, K, 5, 2)
    BY <2>1, <2>2, <2>3, Zenon DEF Careful
  <2> QED
    BY <2>4 DEF k, K
<1>2. ASSUME c.op = "remove_workspace_member"
      PROVE  Careful(r, Membership(c.ws, c.user), {Membership(c.ws, v) : v \in Users \ {c.user}}, 5, 3)
  <2> DEFINE k == Membership(c.ws, c.user)
             K == {Membership(c.ws, v) : v \in Users \ {c.user}}
  <2>1. ASSUME NEW s
        PROVE  \E x, y, z : /\ Statements(r, s) = x \o y \o z /\ Looking(x, 5)
                            /\ Asking(y, s, k, K) /\ Ending(z, k, 3)
    <3> DEFINE e == get_current_user(s, c)
               f == require_workspace_owner(s, c.by, c.ws)
               g == get_workspace_membership_with_user(s, c.ws, c.user)
               h == AnotherOwner(s, k, K, "WorkspaceLastOwner")
               d == << DeleteWhere({RoomMember(x, c.user) : x \in RoomsOf(c.ws)}), Delete(k), Commit >>
    <3>1. Statements(r, s) = e \o (f \o g \o h \o d)
      <4>1. Statements(r, s) = e \o remove_workspace_member(s, c)
        BY <1>2, Zenon DEF Statements, ApiEndpoint, remove_workspace_member_endpoint, Authenticated, Handler
      <4>2. remove_workspace_member(s, c) = f \o g \o h \o d
        BY <1>2 DEF remove_workspace_member, ensure_workspace_has_another_owner
      <4> HIDE DEF e, f, g, h, d
      <4> QED
        BY <4>1, <4>2
    <3>2. Looking(e, 2) /\ Looking(f, 3)
      BY LookingParts
    <3>3. Asking(g \o h, s, k, K) /\ IsBody(g) /\ IsBody(h)
      <4>1. Asking(g \o h, s, k, K)
        BY AskingParts DEF get_workspace_membership_with_user
      <4>2. IsBody(g) /\ IsBody(h)
        BY DEF get_workspace_membership_with_user, AnotherOwner, IsBody
      <4> QED
        BY <4>1, <4>2
    <3>4. Ending(d, k, 3)
      <4>1. \A x : RoomMember(x, c.user)[1] # k[1]
        BY DEF RoomMember, Membership
      <4> HIDE DEF k
      <4> QED
        BY <4>1, EndingParts
    <3> HIDE DEF e, f, g, h, d, k, K
    <3>5. Statements(r, s) = (e \o f) \o (g \o h) \o d
      <4>1. IsBody(e) /\ IsBody(f) /\ IsBody(d)
        BY <3>2, <3>4 DEF Looking, Ending
      <4>2. Regroups(e, f, g, h, d)
        BY <3>3, <4>1, Regroup
      <4> QED
        BY <3>1, <4>2, Zenon DEF Regroups
    <3>6. Looking(e \o f, 5)
      BY <3>2, LookingCat
    <3> QED
      BY <3>3, <3>4, <3>5, <3>6
  <2>2. \A o \in K : o # k /\ o[1] = k[1]
    BY DEF Membership, RoomMember
  <2> HIDE DEF k, K
  <2>3. 5 \in Nat /\ 3 \in Nat \ {0}
    OBVIOUS
  <2>4. Careful(r, k, K, 5, 3)
    BY <2>1, <2>2, <2>3, Zenon DEF Careful
  <2> QED
    BY <2>4 DEF k, K
<1>3. ASSUME c.op = "update_room_member", c.role # "owner"
      PROVE  Careful(r, RoomMember(c.room, c.user), {RoomMember(c.room, v) : v \in Users \ {c.user}}, 7, 2)
  <2> DEFINE k == RoomMember(c.room, c.user)
             K == {RoomMember(c.room, v) : v \in Users \ {c.user}}
  <2>1. ASSUME NEW s
        PROVE  \E x, y, z : /\ Statements(r, s) = x \o y \o z /\ Looking(x, 7)
                            /\ Asking(y, s, k, K) /\ Ending(z, k, 2)
    <3> DEFINE e == get_current_user(s, c)
               f == get_room_for_user(s, c.by, c.room) \o require_room_manager(s, c.by, c.room)
               g == get_room_member_with_user(s, c.room, c.user)
               h == AnotherOwner(s, k, K, "RoomLastOwner")
               d == << Assign(s, k, AsRole(c.role)), Commit, Refresh(k) >>
    <3>1. Statements(r, s) = e \o (f \o g \o h \o d)
      <4>1. Statements(r, s) = e \o update_room_member_role(s, c)
        BY <1>3, Zenon DEF Statements, ApiEndpoint, update_room_member_endpoint, Authenticated, Handler
      <4>2. update_room_member_role(s, c) = f \o g \o h \o d
        BY <1>3 DEF update_room_member_role, ensure_room_has_another_owner
      <4> HIDE DEF e, f, g, h, d
      <4> QED
        BY <4>1, <4>2
    <3>2. Looking(e, 2) /\ Looking(f, 5)
      <4>1. Looking(get_room_for_user(s, c.by, c.room), 2)
            /\ Looking(require_room_manager(s, c.by, c.room), 3)
        BY LookingParts
      <4>2. Looking(get_room_for_user(s, c.by, c.room) \o require_room_manager(s, c.by, c.room), 5)
        BY <4>1, LookingCat
      <4> QED
        BY <4>2, LookingParts
    <3>3. Asking(g \o h, s, k, K) /\ IsBody(g) /\ IsBody(h)
      <4>1. Asking(g \o h, s, k, K)
        BY AskingParts DEF get_room_member_with_user
      <4>2. IsBody(g) /\ IsBody(h)
        BY DEF get_room_member_with_user, AnotherOwner, IsBody
      <4> QED
        BY <4>1, <4>2
    <3>4. Ending(d, k, 2)
      BY EndingParts
    <3> HIDE DEF e, f, g, h, d, k, K
    <3>5. Statements(r, s) = (e \o f) \o (g \o h) \o d
      <4>1. IsBody(e) /\ IsBody(f) /\ IsBody(d)
        BY <3>2, <3>4 DEF Looking, Ending
      <4>2. Regroups(e, f, g, h, d)
        BY <3>3, <4>1, Regroup
      <4> QED
        BY <3>1, <4>2, Zenon DEF Regroups
    <3>6. Looking(e \o f, 7)
      BY <3>2, LookingCat
    <3> QED
      BY <3>3, <3>4, <3>5, <3>6
  <2>2. \A o \in K : o # k /\ o[1] = k[1]
    BY DEF Membership, RoomMember
  <2> HIDE DEF k, K
  <2>3. 7 \in Nat /\ 2 \in Nat \ {0}
    OBVIOUS
  <2>4. Careful(r, k, K, 7, 2)
    BY <2>1, <2>2, <2>3, Zenon DEF Careful
  <2> QED
    BY <2>4 DEF k, K
<1>4. ASSUME c.op = "remove_room_member"
      PROVE  Careful(r, RoomMember(c.room, c.user), {RoomMember(c.room, v) : v \in Users \ {c.user}}, 7, 2)
  <2> DEFINE k == RoomMember(c.room, c.user)
             K == {RoomMember(c.room, v) : v \in Users \ {c.user}}
  <2>1. ASSUME NEW s
        PROVE  \E x, y, z : /\ Statements(r, s) = x \o y \o z /\ Looking(x, 7)
                            /\ Asking(y, s, k, K) /\ Ending(z, k, 2)
    <3> DEFINE e == get_current_user(s, c)
               f == get_room_for_user(s, c.by, c.room) \o require_room_manager(s, c.by, c.room)
               g == get_room_member_with_user(s, c.room, c.user)
               h == AnotherOwner(s, k, K, "RoomLastOwner")
               d == << Delete(k), Commit >>
    <3>1. Statements(r, s) = e \o (f \o g \o h \o d)
      <4>1. Statements(r, s) = e \o remove_room_member(s, c)
        BY <1>4, Zenon DEF Statements, ApiEndpoint, remove_room_member_endpoint, Authenticated, Handler
      <4>2. remove_room_member(s, c) = f \o g \o h \o d
        BY <1>4 DEF remove_room_member, ensure_room_has_another_owner
      <4> HIDE DEF e, f, g, h, d
      <4> QED
        BY <4>1, <4>2
    <3>2. Looking(e, 2) /\ Looking(f, 5)
      <4>1. Looking(get_room_for_user(s, c.by, c.room), 2)
            /\ Looking(require_room_manager(s, c.by, c.room), 3)
        BY LookingParts
      <4>2. Looking(get_room_for_user(s, c.by, c.room) \o require_room_manager(s, c.by, c.room), 5)
        BY <4>1, LookingCat
      <4> QED
        BY <4>2, LookingParts
    <3>3. Asking(g \o h, s, k, K) /\ IsBody(g) /\ IsBody(h)
      <4>1. Asking(g \o h, s, k, K)
        BY AskingParts DEF get_room_member_with_user
      <4>2. IsBody(g) /\ IsBody(h)
        BY DEF get_room_member_with_user, AnotherOwner, IsBody
      <4> QED
        BY <4>1, <4>2
    <3>4. Ending(d, k, 2)
      BY EndingParts
    <3> HIDE DEF e, f, g, h, d, k, K
    <3>5. Statements(r, s) = (e \o f) \o (g \o h) \o d
      <4>1. IsBody(e) /\ IsBody(f) /\ IsBody(d)
        BY <3>2, <3>4 DEF Looking, Ending
      <4>2. Regroups(e, f, g, h, d)
        BY <3>3, <4>1, Regroup
      <4> QED
        BY <3>1, <4>2, Zenon DEF Regroups
    <3>6. Looking(e \o f, 7)
      BY <3>2, LookingCat
    <3> QED
      BY <3>3, <3>4, <3>5, <3>6
  <2>2. \A o \in K : o # k /\ o[1] = k[1]
    BY DEF Membership, RoomMember
  <2> HIDE DEF k, K
  <2>3. 7 \in Nat /\ 2 \in Nat \ {0}
    OBVIOUS
  <2>4. Careful(r, k, K, 7, 2)
    BY <2>1, <2>2, <2>3, Zenon DEF Careful
  <2> QED
    BY <2>4 DEF k, K
<1> QED
  BY <1>1, <1>2, <1>3, <1>4

LEMMA GroupRows ==
  ASSUME NEW K \in Groups
  PROVE  /\ K \subseteq Rows /\ K \subseteq Keys
         /\ \/ (\E x : K = RoomRows(x)) /\ \A k \in K : k[1] = "room_members"
            \/ (\E w : K = WorkspaceRows(w)) /\ \A k \in K : k[1] = "memberships"
<1>1. CASE \E x \in Rooms : K = RoomRows(x)
  <2>1. PICK x \in Rooms : K = RoomRows(x)
    BY <1>1
  <2>2. \A k \in K : k \in Keys /\ k[1] = "room_members"
    BY <2>1, KeysAssumption DEF RoomRows, RoomMember
  <2> QED
    BY <2>1, <2>2 DEF Rows, Schema
<1>2. CASE \E x \in Rooms : K = WorkspaceRows(x[1])
  <2>1. PICK x \in Rooms : K = WorkspaceRows(x[1])
    BY <1>2
  <2>2. \A k \in K : k \in Keys /\ k[1] = "memberships"
    BY <2>1, KeysAssumption DEF WorkspaceRows, Membership, Home
  <2> QED
    BY <2>1, <2>2 DEF Rows, Schema
<1> QED
  BY <1>1, <1>2 DEF Groups

\* The rest of a group of rows.
LEMMA Others ==
  /\ \A w, u : Membership(w, u)[1] = "memberships" /\ RoomMember(w, u)[1] = "room_members"
  /\ \A w, v, u : Membership(v, u) \in WorkspaceRows(w) =>
       {Membership(v, x) : x \in Users \ {u}} = WorkspaceRows(w) \ {Membership(v, u)}
  /\ \A w, v, u : RoomMember(v, u) \in RoomRows(w) =>
       {RoomMember(v, x) : x \in Users \ {u}} = RoomRows(w) \ {RoomMember(v, u)}
<1>1. \A w, u, v, x : /\ Membership(w, u) = Membership(v, x) <=> w = v /\ u = x
                      /\ RoomMember(w, u) = RoomMember(v, x) <=> w = v /\ u = x
  BY DEF Membership, RoomMember
<1>2. ASSUME NEW w, NEW v, NEW u, Membership(v, u) \in WorkspaceRows(w)
      PROVE  {Membership(v, x) : x \in Users \ {u}} = WorkspaceRows(w) \ {Membership(v, u)}
  BY <1>1, <1>2 DEF WorkspaceRows
<1>3. ASSUME NEW w, NEW v, NEW u, RoomMember(v, u) \in RoomRows(w)
      PROVE  {RoomMember(v, x) : x \in Users \ {u}} = RoomRows(w) \ {RoomMember(v, u)}
  BY <1>1, <1>3 DEF RoomRows
<1>4. \A w, u : Membership(w, u)[1] = "memberships" /\ RoomMember(w, u)[1] = "room_members"
  BY DEF Membership, RoomMember
<1> QED
  BY <1>2, <1>3, <1>4

\* J is what K has besides k, if k is in K at all.
Besides(K, k, J) == (\A o \in K : o[1] = k[1]) /\ (k \in K => J = K \ {k})

LEMMA CountedStays ==
  ASSUME Routed, OInv, [Next]_vars, NEW q \in Requests, Commits(q),
         NEW K, K \subseteq Rows, K \cap overtaken[q] = {}, Owners(db, K) # {},
         NEW k, NEW J, NEW n, NEW l, Careful(call[q], k, J, n, l),
         Besides(K, k, J)
  PROVE  Owners(db', K) # {}
<1> DEFINE j == n + 1
           h == n + 4
           m == n + 4 + l
<1>1. /\ WInv /\ RInv /\ SInv /\ \A o \in Rows : WindowKept(q, o)
      /\ Open(q) /\ current[q].do = "commit"
      /\ \A o \in Rows : o \notin DOMAIN writes[q] => db'[o] = db[o]
  <2>1. WInv /\ RInv /\ SInv /\ TInv
    BY DEF OInv, TInv, DInv, SInv, KInv, RInv
  <2> QED
    BY <2>1, CommittedRow DEF Rows, TInv, Commits, Doing
<1>2. n \in Nat /\ l \in Nat \ {0}
  BY DEF Careful
<1>3. /\ Counts(call[q], k, J, j, h, m)
      /\ \A s : \A i \in 1..Len(Statements(call[q], s)) :
           Statements(call[q], s)[i].do = "commit" => i = m
      /\ \A o : o # k /\ o[1] = k[1] => \A p \in Nat : Late(call[q], o, p)
  BY CarefulCounts
<1>4. j \in Nat \ {0} /\ h \in Nat \ {0} /\ m \in Nat \ {0} /\ m \in Nat /\ j < m /\ h < m
  BY <1>2
<1> HIDE DEF j, h, m
<1>5. pc[q] = m
  BY <1>1, <1>3, CurrentIs
<1>6. ASSUME NEW o \in K, o # k PROVE db'[o] = db[o]
  <2>1. Late(call[q], o, m) /\ pc[q] <= m
    BY <1>3, <1>4, <1>5, <1>6 DEF Besides
  <2>2. o \notin DOMAIN writes[q]
    BY <1>1, <1>4, <2>1, LateNotWritten
  <2> QED
    BY <1>1, <2>2
<1>7. PICK o \in K : IsOwner(db, o)
  BY DEF Owners, IsOwner
<1>8. CASE o # k
  BY <1>6, <1>7, <1>8 DEF Owners, IsOwner, Value
<1>9. CASE o = k
  <2>1. Window(call[q], k, j, m)
    BY <1>3 DEF Counts
  <2>2. k \in Rows /\ k \notin overtaken[q]
    BY <1>9
  <2>3. StillSeen(q, k)
    BY <1>1, <1>4, <1>5, <2>1, <2>2 DEF WindowKept
  <2>4. k \in DOMAIN seen[q] /\ seen[q][k] = db[k]
    BY <2>2, <2>3 DEF StillSeen, Fresh
  <2>5. Role(seen[q], k) = "owner"
    BY <1>7, <1>9, <2>4 DEF Role, Exists, Row, IsOwner, Value
  <2>6. J = K \ {k} /\ J \in SUBSET Rows
    BY <1>9 DEF Besides
  <2>7. OwnerCounted(q, k, J, j, h, m)
    BY <1>1, <1>4, <2>2, <2>6 DEF OInv, OwnersCounted
  <2>8. PICK x \in J : x \in overtaken[q] \/ IsOwner(db, x)
    BY <1>3, <1>4, <1>5, <2>5, <2>7 DEF OwnerCounted
  <2>9. x \in K /\ x # k /\ IsOwner(db, x)
    BY <2>6, <2>8
  <2> QED
    BY <1>6, <2>9 DEF Owners, IsOwner, Value
<1> QED
  BY <1>8, <1>9

(***************************************************************************)
(* A group keeps an owner, although nothing locks the rows that            *)
(* ensure_room_has_another_owner and ensure_workspace_has_another_owner    *)
(* count, unless another request changed a row of the group meanwhile or   *)
(* the endpoint is one of those that do not count.                         *)
(***************************************************************************)
THEOREM AnOwnerStays ==
  ASSUME Routed PROVE Spec => LastOwnerKept
<1>1. ASSUME OInv, [Next]_vars, NEW q \in Requests, NEW K \in Groups, Commits(q),
             K \cap overtaken[q] = {}, Owners(db, K) # {},
             Op(q) \notin {"leave_room", "add_room_member", "add_workspace_member"},
             Op(q) = "remove_workspace_member" => \E w : K = WorkspaceRows(w)
      PROVE  Owners(db', K) # {}
  <2> DEFINE c == call[q].args
             ws == Membership(c.ws, c.user)
             rm == RoomMember(c.room, c.user)
             ws0 == {Membership(c.ws, v) : v \in Users \ {c.user}}
             rm0 == {RoomMember(c.room, v) : v \in Users \ {c.user}}
  <2>1. WInv /\ RInv /\ IInv /\ Open(q) /\ OwnersSpared(q)
    BY <1>1 DEF OInv, TInv, DInv, SInv, KInv, RInv, WInv, Commits, Doing
  <2>2. ASSUME NEW k \in K
        PROVE  /\ db'[k] = Visible(q, k)
               /\ k \notin DOMAIN writes[q] => db'[k] = db[k]
               /\ k \in DOMAIN writes[q] => k[1] \in Tables(Op(q))
    <3>1. k \in Keys
      BY GroupRows
    <3> QED
      BY <1>1, <2>1, <3>1, CommittedRow DEF RInv, RowsIn, OwnRows
  <2>3. K \subseteq Rows /\ (\A k \in K : k[1] = "room_members" \/ k[1] = "memberships")
    BY GroupRows
  <2>4. PICK o \in K : IsOwner(db, o)
    BY <1>1 DEF Owners, IsOwner
  <2>5. CASE MildIn(call[q])
    <3>1. o \in DOMAIN writes[q] => IsOwner(writes[q], o)
      BY <1>1, <2>1, <2>3, <2>4, <2>5 DEF OwnersSpared, Belongs
    <3>2. IsOwner(db', o)
      BY <2>2, <2>4, <3>1 DEF IsOwner, Value, Visible
    <3> QED
      BY <3>2 DEF Owners, IsOwner
  <2>6. CASE \A k \in K : k \notin DOMAIN writes[q]
    BY <2>2, <2>4, <2>6 DEF Owners, IsOwner, Value
  <2>7. CASE ~MildIn(call[q]) /\ \E k \in K : k \in DOMAIN writes[q]
    <3>1. PICK k \in K : k[1] \in Tables(Op(q))
      BY <2>2, <2>7
    <3>2. c.op = Op(q) /\ c \in Calls
      BY <2>1, ArgsInCalls DEF Op
    <3>3. \/ Op(q) \in {"update_workspace_member", "remove_workspace_member"}
             /\ k[1] = "memberships"
          \/ Op(q) \in {"update_room_member", "remove_room_member"} /\ k[1] = "room_members"
          \/ Op(q) = "remove_workspace_member" /\ k[1] = "room_members"
      <4>1. Op(q) \notin {"create_workspace", "create_room", "join_room",
                          "list_conversations", "start_global_direct",
                          "start_direct_conversation", "invite_room_member",
                          "create_group_conversation"}
        BY <2>7, <3>2, AddersMild, GroupsMild
      <4>2. k[1] = "memberships" \/ k[1] = "room_members"
        BY <2>3
      <4> QED
        BY <1>1, <3>1, <4>1, <4>2 DEF Tables, WrittenBy
    <3>4. Op(q) \in {"update_workspace_member", "update_room_member"} => c.role # "owner"
      BY <2>7, <3>2, AddersMild
    <3>5. CASE Op(q) \in {"update_workspace_member", "remove_workspace_member"}
               /\ k[1] = "memberships"
      <4>1. (\E w : K = WorkspaceRows(w)) /\ \A x \in K : x[1] = "memberships"
        BY <3>5, GroupRows
      <4>2. Besides(K, ws, ws0)
        BY <4>1, Others DEF Besides
      <4>3. Careful(call[q], ws, ws0, 5, 2) \/ Careful(call[q], ws, ws0, 5, 3)
        BY <3>2, <3>4, <3>5, CarefulEndpoints
      <4> HIDE DEF ws, ws0
      <4>4. \A l : Careful(call[q], ws, ws0, 5, l) => Owners(db', K) # {}
        BY <1>1, <2>3, <4>2, CountedStays, Zenon
      <4> QED
        BY <4>3, <4>4
    <3>6. CASE Op(q) \in {"update_room_member", "remove_room_member"} /\ k[1] = "room_members"
      <4>1. (\E x : K = RoomRows(x)) /\ \A x \in K : x[1] = "room_members"
        BY <3>6, GroupRows
      <4>2. Besides(K, rm, rm0)
        BY <4>1, Others DEF Besides
      <4>3. Careful(call[q], rm, rm0, 7, 2)
        BY <3>2, <3>4, <3>6, CarefulEndpoints
      <4> HIDE DEF rm, rm0
      <4> QED
        BY <1>1, <2>3, <4>2, <4>3, CountedStays, Zenon
    <3>7. CASE Op(q) = "remove_workspace_member" /\ k[1] = "room_members"
      <4>1. PICK w : K = WorkspaceRows(w)
        BY <1>1, <3>7
      <4> QED
        BY <3>7, <4>1 DEF WorkspaceRows, Membership
    <3> QED
      BY <3>3, <3>5, <3>6, <3>7
  <2> QED
    BY <2>5, <2>6, <2>7
<1>2. ASSUME OInv, [Next]_vars
      PROVE  [\A q \in Requests, K \in Groups :
                Commits(q) /\ Owners(db, K) # {} /\ Owners(db', K) = {}
                  => \/ Op(q) \in {"leave_room", "add_room_member", "add_workspace_member"}
                     \/ Op(q) = "remove_workspace_member"
                          /\ K \notin {WorkspaceRows(r[1]) : r \in Rooms}
                     \/ K \cap overtaken[q] # {}]_vars
  BY <1>1, <1>2
<1> QED
  BY <1>2, OwnersHold, PTL DEF Spec, LastOwnerKept

-----------------------------------------------------------------------------
(* Members.  Before an endpoint adds a user to a room it has made sure     *)
(* that the user is a member of the workspace, or added him there.         *)

Adds(st, k) == st.do = "insert" /\ k \in st.keys
Closed(b, n) ==
  /\ IsBody(b) /\ n \in Nat /\ Len(b) = n
  /\ \A i \in 1..n : \A k : k[1] = "room_members" => ~Adds(b[i], k)
Sure(st, t, k) == Exists(t, k) \/ st.do = "raise" \/ Adds(st, k)
\* How many statements before it the one that makes sure of user u is.
Back(o, u) == IF u = o.but THEN o.one ELSE o.all
Offsets(o) == o.one \in Nat \ {0} /\ o.all \in Nat \ {0}
\* d adds a user to a room only that many statements after b makes sure of him,
\* where b is what d was before the last of its values, t, were loaded.
Homed(b, t, d, o) ==
  /\ IsBody(b) /\ IsBody(d) /\ Len(b) = Len(d) /\ Offsets(o)
  /\ \A r, u : \A i \in 1..Len(d) : Adds(d[i], RoomMember(r, u)) =>
       i > Back(o, u) /\ Sure(b[i - Back(o, u)], t, Membership(Home(r), u))

LEMMA BackIs ==
  ASSUME NEW o, NEW u, Offsets(o)
  PROVE  Back(o, u) \in Nat \ {0}
BY DEF Back, Offsets

LEMMA RoomMemberTable ==
  \A r, u : RoomMember(r, u)[1] = "room_members" /\ Membership(r, u)[1] = "memberships"
BY DEF RoomMember, Membership

LEMMA ClosedHomed ==
  ASSUME NEW b, NEW t, NEW d, NEW n, NEW o, Offsets(o), Closed(b, n), Closed(d, n)
  PROVE  Homed(b, t, d, o)
BY RoomMemberTable DEF Closed, Homed

LEMMA ClosedCat ==
  ASSUME NEW a, NEW b, NEW n, NEW m, NEW l, Closed(a, n), Closed(b, m), l = n + m
  PROVE  Closed(a \o b, l)
<1>1. /\ IsBody(a) /\ IsBody(b) /\ Len(a) = n /\ Len(b) = m /\ n \in Nat /\ m \in Nat
      /\ l \in Nat
  BY DEF Closed
<1>2. ASSUME NEW i \in 1..l, NEW k, k[1] = "room_members" PROVE ~Adds((a \o b)[i], k)
  <2>1. CASE i <= n
    BY <1>1, <1>2, <2>1, Joins DEF Closed
  <2>2. CASE i > n
    <3>1. i - n \in 1..m /\ i \in n + 1..n + m
      BY <1>1, <2>2
    <3> QED
      BY <1>1, <1>2, <3>1, Joins DEF Closed
  <2> QED
    BY <1>1, <2>1, <2>2
<1> QED
  BY <1>1, <1>2, Joins DEF Closed

LEMMA HomedCat ==
  ASSUME NEW a, NEW b, NEW t, NEW d, NEW e, NEW o, Homed(a, t, d, o), Homed(b, t, e, o)
  PROVE  Homed(a \o b, t, d \o e, o)
<1> DEFINE n == Len(d)
           m == Len(e)
<1>1. /\ IsBody(a) /\ IsBody(b) /\ IsBody(d) /\ IsBody(e) /\ Len(a) = n /\ Len(b) = m
      /\ n \in Nat /\ m \in Nat /\ Offsets(o)
  BY DEF Homed, IsBody
<1>2. /\ IsBody(a \o b) /\ Len(a \o b) = n + m /\ IsBody(d \o e) /\ Len(d \o e) = n + m
      /\ \A i \in 1..n : (a \o b)[i] = a[i] /\ (d \o e)[i] = d[i]
      /\ \A i \in n + 1..n + m : (a \o b)[i] = b[i - n] /\ (d \o e)[i] = e[i - n]
  BY <1>1, Joins
<1>3. ASSUME NEW r, NEW u, NEW i \in 1..n + m, Adds((d \o e)[i], RoomMember(r, u))
      PROVE  i > Back(o, u) /\ Sure((a \o b)[i - Back(o, u)], t, Membership(Home(r), u))
  <2> DEFINE h == Back(o, u)
             k == RoomMember(r, u)
             l == Membership(Home(r), u)
  <2>1. h \in Nat \ {0}
    BY <1>1, BackIs
  <2>2. CASE i <= n
    <3>1. i > h /\ Sure(a[i - h], t, l)
      BY <1>1, <1>2, <1>3, <2>2 DEF Homed
    <3> HIDE DEF h, l
    <3>2. i - h \in 1..n
      BY <1>1, <2>1, <2>2, <3>1
    <3>3. i > h /\ Sure((a \o b)[i - h], t, l)
      BY <1>2, <3>1, <3>2
    <3> QED
      BY <3>3 DEF h, l
  <2>3. CASE i > n
    <3> DEFINE j == i - n
    <3>1. j \in 1..m /\ i \in n + 1..n + m
      BY <1>1, <2>3
    <3>2. j > h /\ Sure(b[j - h], t, l)
      BY <1>1, <1>2, <1>3, <3>1 DEF Homed
    <3> HIDE DEF h, l
    <3>3. i > h /\ i - h \in n + 1..n + m /\ (i - h) - n = j - h
      BY <1>1, <2>1, <3>1, <3>2
    <3>4. (a \o b)[i - h] = b[j - h]
      BY <1>2, <3>3
    <3>5. i > h /\ Sure((a \o b)[i - h], t, l)
      BY <3>2, <3>3, <3>4
    <3> QED
      BY <3>5 DEF h, l
  <2>4. i <= n \/ i > n
    BY <1>1
  <2> QED
    BY <2>2, <2>3, <2>4, Zenon
<1> QED
  BY <1>1, <1>2, <1>3 DEF Homed

(* Bodies in turn.                                                         *)
LEMMA BackInTurn ==
  ASSUME NEW m \in Nat, NEW n \in Nat \ {0}, NEW h \in Nat, NEW i \in 1..n * m,
         1 + ((i - 1) % n) > h
  PROVE  /\ i - h \in 1..n * m
         /\ 1 + ((i - h) - 1) \div n = 1 + (i - 1) \div n
         /\ 1 + (((i - h) - 1) % n) = 1 + ((i - 1) % n) - h
<1> DEFINE p == (i - 1) \div n
           e == (i - 1) % n
           j == (i - h) - 1
           f == e - h
<1>1. n * m \in Nat
  OBVIOUS
<1>2. p \in Int /\ e \in 0..n - 1 /\ i - 1 = n * p + e /\ 1 + e > h
  BY <1>1
<1>3. p >= 0
  <2> SUFFICES ASSUME p <= -1 PROVE FALSE
    BY <1>2
  <2> HIDE DEF p, e
  <2>1. n * p <= -n
    BY <1>2
  <2> QED
    BY <1>1, <1>2, <2>1
<1> HIDE DEF p, e
<1>4. j \in Int /\ f \in 0..n - 1 /\ j = n * p + f
  BY <1>1, <1>2
<1>5. n * p >= 0
  BY <1>2, <1>3
<1>6. i - h \in 1..n * m
  BY <1>1, <1>2, <1>4, <1>5
<1> HIDE DEF j, f
<1>7. j \div n = p /\ j % n = f
  BY <1>2, <1>4, DivisionIs
<1> QED
  BY <1>6, <1>7 DEF j, f, p, e

LEMMA TurnHomed ==
  ASSUME NEW m \in Nat, NEW n \in Nat \ {0}, NEW bs, NEW ds, NEW t, NEW o, Offsets(o),
         Listed(bs, m), Listed(ds, m),
         \A x \in 1..m : Homed(bs[x], t, ds[x], o) /\ Len(ds[x]) = n
  PROVE  Homed(InTurn(bs), t, InTurn(ds), o)
<1> DEFINE b == InTurn(bs)
           d == InTurn(ds)
           at(i) == 1 + (i - 1) \div n
           of(i) == 1 + ((i - 1) % n)
<1>1. \A x \in 1..m : IsBody(bs[x]) /\ IsBody(ds[x]) /\ Len(bs[x]) = n /\ Len(ds[x]) = n
  BY DEF Homed
<1>2. AllInTurn(bs, m, n) /\ AllInTurn(ds, m, n)
  BY <1>1, InTurnIs
<1>3. /\ IsBody(b) /\ IsBody(d) /\ Len(b) = n * m /\ Len(d) = n * m /\ n * m \in Nat
      /\ \A i \in 1..n * m : /\ at(i) \in 1..m /\ of(i) \in 1..n
                             /\ b[i] = bs[at(i)][of(i)] /\ d[i] = ds[at(i)][of(i)]
  BY <1>2 DEF AllInTurn
<1>4. \A h \in Nat : \A i \in 1..n * m : of(i) > h =>
        i - h \in 1..n * m /\ at(i - h) = at(i) /\ of(i - h) = of(i) - h
  BY BackInTurn
<1> HIDE DEF b, d, at, of
<1>5. ASSUME NEW r, NEW u, NEW i \in 1..n * m, Adds(d[i], RoomMember(r, u))
      PROVE  i > Back(o, u) /\ Sure(b[i - Back(o, u)], t, Membership(Home(r), u))
  <2> DEFINE x == at(i)
             y == of(i)
             h == Back(o, u)
             l == Membership(Home(r), u)
  <2>1. h \in Nat /\ x \in 1..m /\ y \in 1..n /\ d[i] = ds[x][y]
    BY <1>3, BackIs
  <2>2. y > h /\ Sure(bs[x][y - h], t, l)
    BY <1>1, <1>5, <2>1 DEF Homed
  <2> HIDE DEF h, l
  <2>3. i - h \in 1..n * m /\ at(i - h) = x /\ of(i - h) = y - h
    BY <1>4, <2>1, <2>2
  <2>4. b[i - h] = bs[x][y - h] /\ i > h
    <3>1. b[i - h] = bs[at(i - h)][of(i - h)]
      BY <1>3, <2>3
    <3>2. i > h
      BY <1>3, <2>1, <2>3
    <3> QED
      BY <2>3, <3>1, <3>2
  <2> QED
    BY <2>2, <2>4 DEF h, l
<1>6. Homed(b, t, d, o)
  BY <1>3, <1>5 DEF Homed
<1> QED
  BY <1>6 DEF b, d

LEMMA InvitedHomed ==
  ASSUME NEW b, NEW t, NEW d, NEW o, NEW c, NEW v, Homed(b, t, d, o)
  PROVE  Homed(Invited(c, v, b), t, Invited(c, v, d), o) /\ Len(Invited(c, v, d)) = Len(d)
<1>1. ASSUME NEW e, IsBody(e), v = c.by PROVE Closed(Invited(c, v, e), Len(e))
  <2> DEFINE f == [i \in DOMAIN e |-> Pass]
             N == Len(e)
  <2>1. N \in Nat /\ DOMAIN e = 1..N
    BY <1>1 DEF IsBody
  <2>2. f \in Seq({Pass}) /\ Len(f) = N
    BY <2>1
  <2>3. \A i \in 1..N : f[i].do # "insert"
    BY <2>1, Kinds
  <2>4. Invited(c, v, e) = f
    BY <1>1 DEF Invited
  <2> QED
    BY <2>1, <2>2, <2>3, <2>4 DEF Closed, IsBody, Adds
<1>2. IsBody(b) /\ IsBody(d) /\ Len(b) = Len(d) /\ Offsets(o)
  BY DEF Homed
<1>3. CASE v = c.by
  <2>1. Closed(Invited(c, v, b), Len(d)) /\ Closed(Invited(c, v, d), Len(d))
    BY <1>1, <1>2, <1>3
  <2> QED
    BY <1>2, <2>1, ClosedHomed DEF Closed
<1>4. CASE v # c.by
  BY <1>4 DEF Invited
<1> QED
  BY <1>3, <1>4

-----------------------------------------------------------------------------
(* Statements and parts that add nobody to a room.                         *)
Shut(st) == \A k : k[1] = "room_members" => ~Adds(st, k)

LEMMA ShutThose ==
  /\ \A K : Shut(Select(K)) /\ Shut(DeleteWhere(K))
  /\ \A p, e : Shut(Require(p, e))
  /\ Shut(Commit) /\ Shut(Return) /\ Shut(Pass)
  /\ \A k : Shut(Refresh(k)) /\ Shut(Delete(k))
  /\ \A s, k, row : Shut(Assign(s, k, row))
  /\ \A k, row, e : k[1] # "room_members" => Shut(InsertOr(k, row, e)) /\ Shut(Insert(k, row))
<1>1. \A st : st.do # "insert" => Shut(st)
  BY DEF Shut, Adds
<1>2. \A s, k, row : Assign(s, k, row).do # "insert"
  BY Kinds DEF Assign
<1>3. ASSUME NEW k, NEW row, NEW e, k[1] # "room_members"
      PROVE  Shut(InsertOr(k, row, e)) /\ Shut(Insert(k, row))
  BY <1>3 DEF Shut, Adds, InsertOr, Insert, Statement
<1>4. \A p, e : Require(p, e).do # "insert"
  <2>1. \A p, e : Require(p, e).do \in {"pass", "raise"}
    BY Kinds
  <2> QED
    BY <2>1
<1>5. /\ \A K : Select(K).do # "insert" /\ DeleteWhere(K).do # "insert"
      /\ Commit.do # "insert" /\ Return.do # "insert" /\ Pass.do # "insert"
      /\ \A k : Refresh(k).do # "insert" /\ Delete(k).do # "insert"
  BY Kinds
<1> QED
  BY <1>1, <1>2, <1>3, <1>4, <1>5

LEMMA ClosedTuples ==
  /\ Closed(<< >>, 0)
  /\ \A a : Shut(a) => Closed(<< a >>, 1)
  /\ \A a, b : Shut(a) /\ Shut(b) => Closed(<< a, b >>, 2)
  /\ \A a, b, c : Shut(a) /\ Shut(b) /\ Shut(c) => Closed(<< a, b, c >>, 3)
<1>1. Closed(<< >>, 0)
  BY DEF Closed, IsBody
<1>2. ASSUME NEW a, Shut(a) PROVE Closed(<< a >>, 1)
  BY <1>2 DEF Closed, IsBody, Shut
<1>3. ASSUME NEW a, NEW b, Shut(a), Shut(b) PROVE Closed(<< a, b >>, 2)
  BY <1>3 DEF Closed, IsBody, Shut
<1>4. ASSUME NEW a, NEW b, NEW c, Shut(a), Shut(b), Shut(c) PROVE Closed(<< a, b, c >>, 3)
  BY <1>4 DEF Closed, IsBody, Shut
<1> QED
  BY <1>1, <1>2, <1>3, <1>4

LEMMA NotOfRooms ==
  /\ \A w : Workspace(w)[1] # "room_members" /\ Room(w)[1] # "room_members"
  /\ \A u, v : Membership(u, v)[1] # "room_members" /\ UserContact(u, v)[1] # "room_members"
<1>1. \A w : Workspace(w)[1] = "workspaces" /\ Room(w)[1] = "rooms"
  BY DEF Workspace, Room
<1>2. \A u, v : Membership(u, v)[1] = "memberships" /\ UserContact(u, v)[1] = "user_contacts"
  BY DEF Membership, UserContact
<1> QED
  BY <1>1, <1>2

LEMMA ClosedParts ==
  ASSUME NEW s
  PROVE  /\ \A c : Closed(get_current_user(s, c), 2)
         /\ \A u, w : Closed(get_workspace_for_user(s, u, w), 2)
         /\ \A u, w : Closed(require_workspace_owner(s, u, w), 3)
         /\ \A w, u : Closed(get_workspace_membership_with_user(s, w, u), 2)
         /\ \A u, r : Closed(get_room_for_user(s, u, r), 2)
         /\ \A u, r : Closed(require_room_manager(s, u, r), 3)
         /\ \A r, u : Closed(get_room_member_with_user(s, r, u), 2)
         /\ \A k, K, e : Closed(AnotherOwner(s, k, K, e), 2)
         /\ \A w, u : Closed(ensure_workspace_membership(s, w, u), 2)
         /\ \A u, v : Closed(ensure_mutual_contacts(s, u, v), 4)
         /\ \A u : Closed(ensure_conversation_workspace(s, u), 5)
<1>1. \A c : Closed(get_current_user(s, c), 2)
  BY ShutThose, ClosedTuples DEF get_current_user
<1>2. \A u, w : Closed(get_workspace_for_user(s, u, w), 2)
  BY ShutThose, ClosedTuples DEF get_workspace_for_user
<1>3. ASSUME NEW u, NEW w PROVE Closed(require_workspace_owner(s, u, w), 3)
  <2> DEFINE st == Require(Role(s, Membership(w, u)) = "owner", "WorkspaceOwnerRequired")
             a == get_workspace_for_user(s, u, w)
             z == << st >>
  <2>1. Closed(a, 2) /\ Closed(z, 1)
    BY <1>2, ShutThose, ClosedTuples
  <2>2. require_workspace_owner(s, u, w) = a \o z
    BY DEF require_workspace_owner
  <2> HIDE DEF a, z
  <2>3. Closed(a \o z, 3)
    BY <2>1, ClosedCat
  <2> QED
    BY <2>2, <2>3
<1>4. \A w, u : Closed(get_workspace_membership_with_user(s, w, u), 2)
  BY ShutThose, ClosedTuples DEF get_workspace_membership_with_user
<1>5. \A u, r : Closed(get_room_for_user(s, u, r), 2)
  BY ShutThose, ClosedTuples DEF get_room_for_user
<1>6. \A u, r : Closed(require_room_manager(s, u, r), 3)
  BY ShutThose, ClosedTuples DEF require_room_manager
<1>7. \A r, u : Closed(get_room_member_with_user(s, r, u), 2)
  BY ShutThose, ClosedTuples DEF get_room_member_with_user
<1>8. \A w, u : Closed(ensure_workspace_membership(s, w, u), 2)
  BY NotOfRooms, ShutThose, ClosedTuples DEF ensure_workspace_membership
<1>9. ASSUME NEW u, NEW v PROVE Closed(ensure_mutual_contacts(s, u, v), 4)
  <2>1. \A x, y : Closed(ensure_contact(s, x, y), 2)
    BY NotOfRooms, ShutThose, ClosedTuples DEF ensure_contact
  <2> DEFINE a == ensure_contact(s, u, v)
             z == ensure_contact(s, v, u)
  <2>2. Closed(a, 2) /\ Closed(z, 2) /\ ensure_mutual_contacts(s, u, v) = a \o z
    BY <2>1 DEF ensure_mutual_contacts
  <2> HIDE DEF a, z
  <2> QED
    BY <2>2, ClosedCat
<1>10. ASSUME NEW u PROVE Closed(ensure_conversation_workspace(s, u), 5)
  <2> DEFINE a == << Select({Workspace(Net)}),
                     IF Exists(s, Workspace(Net)) THEN Pass
                     ELSE InsertOr(Workspace(Net), Plain, "SlugAlreadyExists") >>
             b == ensure_workspace_membership(s, Net, u)
             z == << Commit >>
  <2>1. Closed(a, 2) /\ Closed(b, 2) /\ Closed(z, 1)
    BY <1>8, NotOfRooms, ShutThose, ClosedTuples
  <2>2. ensure_conversation_workspace(s, u) = a \o b \o z
    BY DEF ensure_conversation_workspace
  <2> HIDE DEF a, b, z
  <2>3. Closed(a \o b, 4)
    BY <2>1, ClosedCat
  <2> DEFINE x == a \o b
  <2>4. Closed(x, 4) /\ ensure_conversation_workspace(s, u) = x \o z
    BY <2>2, <2>3
  <2> HIDE DEF x
  <2>5. Closed(x, 4) /\ Closed(z, 1) /\ 5 = 4 + 1
    BY <2>1, <2>4
  <2>6. Closed(x \o z, 5)
    BY <2>5, ClosedCat
  <2> QED
    BY <2>4, <2>6
<1>11. \A k, K, e : Closed(AnotherOwner(s, k, K, e), 2)
  BY ShutThose, ClosedTuples DEF AnotherOwner
<1> QED
  BY <1>1, <1>2, <1>3, <1>4, <1>5, <1>6, <1>7, <1>8, <1>9, <1>10, <1>11

(* Parts that add users to a room.                                         *)
Two == [but |-> NoCall, one |-> 2, all |-> 2]
One == [but |-> NoCall, one |-> 1, all |-> 1]

LEMMA TwoBack ==
  /\ Offsets(Two) /\ \A u : Back(Two, u) = 2
  /\ Offsets(One) /\ \A u : Back(One, u) = 1
BY DEF Two, One, Offsets, Back

LEMMA AddsThose ==
  /\ \A k, row, e, l : Adds(InsertOr(k, row, e), l) <=> l = k
  /\ \A k, row, l : Adds(Insert(k, row), l) <=> l = k
  /\ \A r, u, v, x : RoomMember(r, u) = RoomMember(v, x) <=> r = v /\ u = x
  /\ \A p, e : ~p => Require(p, e).do = "raise"
<1>1. \A k, row, e, l : Adds(InsertOr(k, row, e), l) <=> l = k
  BY DEF Adds, InsertOr, Statement
<1>2. \A k, row, l : Adds(Insert(k, row), l) <=> l = k
  BY <1>1 DEF Insert
<1>3. \A r, u, v, x : RoomMember(r, u) = RoomMember(v, x) <=> r = v /\ u = x
  BY DEF RoomMember
<1>4. \A p, e : ~p => Require(p, e).do = "raise"
  BY Kinds DEF Require
<1> QED
  BY <1>1, <1>2, <1>3, <1>4

\* A body that in its statement n at most adds user u to room r.
Opens(b, n, r, u) ==
  IsBody(b) /\ n \in 1..Len(b) /\ \A i \in 1..Len(b) : \A l, v :
    Adds(b[i], RoomMember(l, v)) => i = n /\ l = r /\ v = u

LEMMA OpensHomed ==
  ASSUME NEW b, NEW t, NEW d, NEW o, NEW n, NEW r, NEW u, Offsets(o), Opens(b, n, r, u),
         Opens(d, n, r, u), Len(b) = Len(d), n > Back(o, u),
         Sure(b[n - Back(o, u)], t, Membership(Home(r), u))
  PROVE  Homed(b, t, d, o)
BY DEF Opens, Homed

LEMMA RoomHomed ==
  ASSUME NEW t, NEW s, NEW u, NEW r
  PROVE  Homed(create_room(t, u, r), t, create_room(s, u, r), Two)
<1> DEFINE k == RoomMember(r, u)
           h == Membership(Home(r), u)
           look == Select({h})
           find(x) == Require(Exists(x, h), "WorkspaceNotFound")
           new == InsertOr(Room(r), Plain, "SlugAlreadyExists")
           add == InsertOr(k, Owner, "SlugAlreadyExists")
           cm == Commit
<1>1. \A x : create_room(x, u, r) = << look, find(x) >> \o << new, add, cm >>
  BY DEF create_room, get_workspace_for_user
<1>2. /\ Shut(look) /\ (\A x : Shut(find(x))) /\ Shut(new) /\ Shut(cm)
      /\ \A l, v : Adds(add, RoomMember(l, v)) => l = r /\ v = u
  BY ShutThose, NotOfRooms, AddsThose
<1>3. \A x : Sure(find(x), x, h)
  BY AddsThose DEF Sure
<1> HIDE DEF look, find, new, add, cm, k
<1>4. ASSUME NEW x
      PROVE  LET b == create_room(x, u, r) IN
             Opens(b, 4, r, u) /\ Len(b) = 5 /\ b[2] = find(x)
  <2> DEFINE b == create_room(x, u, r)
  <2>0. b = << look, find(x) >> \o << new, add, cm >>
    BY <1>1
  <2> DEFINE f == find(x)
  <2> HIDE DEF b, f
  <2>1. /\ IsBody(b) /\ Len(b) = 5 /\ b[1] = look /\ b[2] = find(x) /\ b[3] = new /\ b[4] = add
        /\ b[5] = cm
    <3>1. Len(b) = 5 /\ b[1] = look /\ b[2] = f /\ b[3] = new /\ b[4] = add /\ b[5] = cm
      BY <2>0 DEF f
    <3>2. IsBody(b)
      BY <2>0 DEF IsBody
    <3> QED
      BY <3>1, <3>2 DEF f
  <2>2. \A i \in 1..5 : i # 4 => Shut(b[i])
    BY <1>2, <2>1
  <2>3. ASSUME NEW i \in 1..5, NEW l, NEW v, Adds(b[i], RoomMember(l, v))
        PROVE  i = 4 /\ l = r /\ v = u
    BY <1>2, <2>1, <2>2, <2>3, RoomMemberTable DEF Shut
  <2> QED
    BY <2>1, <2>3 DEF Opens, b
<1>5. Sure(create_room(t, u, r)[4 - Back(Two, u)], t, h) /\ 4 > Back(Two, u)
  <2>1. Back(Two, u) = 2 /\ 4 - 2 = 2
    BY TwoBack
  <2> QED
    BY <1>3, <1>4, <2>1
<1> QED
  BY <1>4, <1>5, TwoBack, OpensHomed

\* ensure_workspace_membership, then ensure_room_membership.
Welcomed(s, r, u, role) ==
  ensure_workspace_membership(s, Home(r), u) \o ensure_room_membership(s, r, u, role)

LEMMA WelcomedHomed ==
  ASSUME NEW t, NEW s, NEW u, NEW r, NEW role
  PROVE  Homed(Welcomed(t, r, u, role), t, Welcomed(s, r, u, role), Two)
<1> DEFINE k == RoomMember(r, u)
           h == Membership(Home(r), u)
           look == Select({h})
           find(x) == IF Exists(x, h) THEN Pass ELSE Insert(h, Member)
           seek == Select({k})
           add(x) == IF ~Exists(x, k) THEN Insert(k, AsRole(role))
                     ELSE IF Role(x, k) = "owner" THEN Pass ELSE Assign(x, k, AsRole(role))
<1>1. \A x : Welcomed(x, r, u, role) = << look, find(x) >> \o << seek, add(x) >>
  BY DEF Welcomed, ensure_workspace_membership, ensure_room_membership
<1>2. /\ Shut(look) /\ (\A x : Shut(find(x))) /\ Shut(seek)
      /\ \A x, l, v : Adds(add(x), RoomMember(l, v)) => l = r /\ v = u
  <2>1. Shut(look) /\ (\A x : Shut(find(x))) /\ Shut(seek)
    BY ShutThose, NotOfRooms
  <2>2. ASSUME NEW x, NEW l, NEW v, Adds(add(x), RoomMember(l, v)) PROVE l = r /\ v = u
    <3>1. \A row : Shut(Pass) /\ Shut(Assign(x, k, row))
      BY ShutThose
    <3>2. Adds(Insert(k, AsRole(role)), RoomMember(l, v)) => l = r /\ v = u
      BY AddsThose
    <3> QED
      BY <2>2, <3>1, <3>2, RoomMemberTable DEF Shut
  <2> QED
    BY <2>1, <2>2
<1>3. \A x : Sure(find(x), x, h)
  BY AddsThose DEF Sure
<1> HIDE DEF look, find, seek, add, k
<1>4. ASSUME NEW x
      PROVE  LET b == Welcomed(x, r, u, role) IN
             Opens(b, 4, r, u) /\ Len(b) = 4 /\ b[2] = find(x)
  <2> DEFINE b == Welcomed(x, r, u, role)
  <2>0. b = << look, find(x) >> \o << seek, add(x) >>
    BY <1>1
  <2> DEFINE f == find(x)
             g == add(x)
  <2> HIDE DEF b, f, g
  <2>1. /\ IsBody(b) /\ Len(b) = 4 /\ b[1] = look /\ b[2] = find(x) /\ b[3] = seek
        /\ b[4] = add(x)
    <3>1. Len(b) = 4 /\ b[1] = look /\ b[2] = f /\ b[3] = seek /\ b[4] = g
      BY <2>0 DEF f, g
    <3>2. IsBody(b)
      BY <2>0 DEF IsBody
    <3> QED
      BY <3>1, <3>2 DEF f, g
  <2>2. \A i \in 1..4 : i # 4 => Shut(b[i])
    BY <1>2, <2>1
  <2>3. ASSUME NEW i \in 1..4, NEW l, NEW v, Adds(b[i], RoomMember(l, v))
        PROVE  i = 4 /\ l = r /\ v = u
    BY <1>2, <2>1, <2>2, <2>3, RoomMemberTable DEF Shut
  <2> QED
    BY <2>1, <2>3 DEF Opens, b
<1>5. Sure(Welcomed(t, r, u, role)[4 - Back(Two, u)], t, h) /\ 4 > Back(Two, u)
  <2>1. Back(Two, u) = 2 /\ 4 - 2 = 2
    BY TwoBack
  <2> QED
    BY <1>3, <1>4, <2>1
<1> QED
  BY <1>4, <1>5, TwoBack, OpensHomed

\* The statements of a body that is made of two.
Meets(a, b) ==
  /\ IsBody(a \o b) /\ Len(a \o b) = Len(a) + Len(b)
  /\ \A i \in 1..Len(a) : (a \o b)[i] = a[i]
  /\ \A i \in 1..Len(b) : (a \o b)[Len(a) + i] = b[i]

LEMMA Meet ==
  ASSUME NEW a, NEW b, IsBody(a), IsBody(b)
  PROVE  Meets(a, b)
<1> DEFINE n == Len(a)
           m == Len(b)
<1>1. n \in Nat /\ m \in Nat
  BY DEF IsBody
<1>2. /\ IsBody(a \o b) /\ Len(a \o b) = n + m
      /\ \A i \in 1..n : (a \o b)[i] = a[i]
      /\ \A i \in n + 1..n + m : (a \o b)[i] = b[i - n]
  BY <1>1, Joins
<1>3. ASSUME NEW i \in 1..m PROVE (a \o b)[n + i] = b[i]
  <2> DEFINE j == n + i
  <2>1. j \in n + 1..n + m /\ j - n = i
    BY <1>1
  <2> HIDE DEF j
  <2>2. (a \o b)[j] = b[i]
    BY <1>2, <2>1
  <2> QED
    BY <2>2 DEF j
<1> QED
  BY <1>2, <1>3 DEF Meets

(* The same for a body c that is named, with the lengths of its parts.     *)
Spliced(a, b, c, n, m) ==
  /\ IsBody(c) /\ Len(c) = n + m
  /\ (\A i \in 1..n : c[i] = a[i]) /\ \A i \in 1..m : c[n + i] = b[i]

LEMMA Splice ==
  ASSUME NEW a, NEW b, NEW c, IsBody(a), IsBody(b), c = a \o b
  PROVE  Spliced(a, b, c, Len(a), Len(b))
<1>1. Meets(a, b)
  BY Meet
<1> QED
  BY <1>1 DEF Meets, Spliced

LEMMA ClosedThen ==
  ASSUME NEW a, NEW b, NEW n, NEW m, Closed(a, n), Closed(b, m)
  PROVE  Closed(a \o b, n + m)
<1> DEFINE l == n + m
<1>1. l = n + m
  OBVIOUS
<1> HIDE DEF l
<1>2. Closed(a \o b, l)
  BY <1>1, ClosedCat
<1> QED
  BY <1>1, <1>2

LEMMA InviteHomed ==
  ASSUME NEW t, NEW s, NEW u, NEW r, NEW v, NEW role
  PROVE  Homed(invite_room_member_by_email(t, u, r, v, role), t,
               invite_room_member_by_email(s, u, r, v, role), Two)
<1> DEFINE look(x) == << Select({User(v)}), Require(Active(x, v), "UserNotFound"),
                         Require(u # v, "SelfConversation") >>
           front(x) == get_room_for_user(x, u, r) \o require_room_manager(x, u, r) \o look(x)
           mem(x) == ensure_workspace_membership(x, Home(r), v)
           one(x) == ensure_room_membership(x, r, v, role)
           last == << Commit, Refresh(RoomMember(r, v)) >>
<1>1. ASSUME NEW x PROVE Closed(front(x), 8)
  <2> DEFINE a == get_room_for_user(x, u, r)
             b == require_room_manager(x, u, r)
             d == look(x)
  <2>1. Closed(a, 2) /\ Closed(b, 3)
    BY ClosedParts
  <2>2. Closed(d, 3)
    BY ShutThose, ClosedTuples
  <2>3. front(x) = (a \o b) \o d
    OBVIOUS
  <2> HIDE DEF a, b, d, front
  <2> DEFINE y == a \o b
  <2>4. Closed(y, 5)
    BY <2>1, ClosedCat
  <2> HIDE DEF y
  <2>6. Closed(y \o d, 5 + 3)
    BY <2>2, <2>4, ClosedThen
  <2> QED
    BY <2>3, <2>6 DEF y
<1>2. ASSUME NEW x
      PROVE  /\ invite_room_member_by_email(x, u, r, v, role) = front(x) \o mem(x) \o one(x) \o last
             /\ Welcomed(x, r, v, role) = mem(x) \o one(x)
  BY DEF invite_room_member_by_email, Welcomed
<1>3. Closed(last, 2)
  BY ShutThose, ClosedTuples
<1>4. ASSUME NEW x PROVE IsBody(mem(x)) /\ IsBody(one(x))
  BY DEF ensure_workspace_membership, ensure_room_membership, IsBody
<1> HIDE DEF front, mem, one, last
<1>5. ASSUME NEW x
      PROVE  invite_room_member_by_email(x, u, r, v, role)
               = (front(x) \o Welcomed(x, r, v, role)) \o last
  <2> DEFINE a == front(x)
             b == mem(x)
             d == one(x)
  <2>1. IsBody(a) /\ IsBody(b) /\ IsBody(d)
    BY <1>1, <1>4 DEF Closed
  <2>2. /\ Welcomed(x, r, v, role) = b \o d
        /\ invite_room_member_by_email(x, u, r, v, role) = ((a \o b) \o d) \o last
    BY <1>2
  <2> HIDE DEF a, b, d
  <2>3. Sticks(a, b, d)
    BY <2>1, GluedTwice
  <2> QED
    BY <2>2, <2>3, Zenon DEF Sticks, Glue, a
<1>6. Homed(front(t), t, front(s), Two) /\ Homed(last, t, last, Two)
  BY <1>1, <1>3, TwoBack, ClosedHomed
<1>7. Homed(Welcomed(t, r, v, role), t, Welcomed(s, r, v, role), Two)
  BY WelcomedHomed
<1> DEFINE f == front(t)
           g == front(s)
           y == Welcomed(t, r, v, role)
           z == Welcomed(s, r, v, role)
<1> HIDE DEF f, g, y, z
<1>8. Homed(f \o y, t, g \o z, Two)
  BY <1>6, <1>7, HomedCat DEF f, g, y, z
<1>9. Homed((f \o y) \o last, t, (g \o z) \o last, Two)
  BY <1>6, <1>8, HomedCat
<1>10. /\ invite_room_member_by_email(t, u, r, v, role) = (f \o y) \o last
       /\ invite_room_member_by_email(s, u, r, v, role) = (g \o z) \o last
  BY <1>5 DEF f, g, y, z
<1> QED
  BY <1>9, <1>10, Zenon

LEMMA MemberAdds ==
  ASSUME NEW x, NEW r, NEW u, NEW role
  PROVE  LET b == ensure_room_membership(x, r, u, role) IN
         /\ IsBody(b) /\ Len(b) = 2 /\ Shut(b[1])
         /\ \A l, v : Adds(b[2], RoomMember(l, v)) => l = r /\ v = u
<1> DEFINE k == RoomMember(r, u)
           add == IF ~Exists(x, k) THEN Insert(k, AsRole(role))
                  ELSE IF Role(x, k) = "owner" THEN Pass ELSE Assign(x, k, AsRole(role))
           look == Select({k})
           b == ensure_room_membership(x, r, u, role)
<1>1. b = << look, add >>
  BY DEF ensure_room_membership
<1>2. Shut(look)
  BY ShutThose
<1>3. ASSUME NEW l, NEW v, Adds(add, RoomMember(l, v)) PROVE l = r /\ v = u
  <2>1. \A row : Shut(Pass) /\ Shut(Assign(x, k, row))
    BY ShutThose
  <2>2. Adds(Insert(k, AsRole(role)), RoomMember(l, v)) => l = r /\ v = u
    BY AddsThose
  <2> QED
    BY <1>3, <2>1, <2>2, RoomMemberTable DEF Shut
<1> HIDE DEF b, add, look
<1>4. IsBody(b) /\ Len(b) = 2 /\ b[1] = look /\ b[2] = add
  BY <1>1 DEF IsBody
<1> QED
  BY <1>2, <1>3, <1>4 DEF b

\* For a direct conversation the caller is known to be a member long before.
Direct(v) == [but |-> v, one |-> 10, all |-> 13]

LEMMA DirectHomed ==
  ASSUME NEW t, NEW s, NEW u, NEW w, NEW v
  PROVE  Homed(start_direct_conversation(t, u, w, v), t,
               start_direct_conversation(s, u, w, v), Direct(v))
<1> DEFINE r == <<w, direct_conversation_slug(u, v)>>
           h(y) == Membership(w, y)
           a(x) == << Select({h(u)}), Require(Exists(x, h(u)), "WorkspaceNotFound") >>
           look(x) == << Select({User(v)}), Require(Active(x, v), "UserNotFound"),
                         Require(u # v, "SelfConversation") >>
           mem(x) == << Select({h(v)}), IF Exists(x, h(v)) THEN Pass ELSE Insert(h(v), Member) >>
           con(x) == ensure_mutual_contacts(x, u, v)
           open(x) == << Select({Room(r)}),
                         IF Exists(x, Room(r)) THEN Pass ELSE Insert(Room(r), Plain) >>
           one(x) == ensure_room_membership(x, r, u, "owner")
           two(x) == ensure_room_membership(x, r, v, "member")
           last == << Commit >>
           front(x) == a(x) \o look(x) \o mem(x) \o con(x) \o open(x)
           body(x) == start_direct_conversation(x, u, w, v)
<1>1. ASSUME NEW x
      PROVE  /\ Closed(front(x), 13) /\ Sure(front(x)[2], x, h(u)) /\ Sure(front(x)[7], x, h(v))
             /\ (u = v => front(x)[5].do = "raise")
  <2> DEFINE b == a(x)
             d == look(x)
             e == mem(x)
             f == con(x)
             g == open(x)
  <2>1. /\ Closed(b, 2) /\ Closed(d, 3) /\ Closed(e, 2) /\ Closed(g, 2) /\ Closed(f, 4)
    BY ShutThose, NotOfRooms, ClosedTuples, ClosedParts
  <2>2. Sure(b[2], x, h(u)) /\ Sure(e[2], x, h(v)) /\ (u = v => d[3].do = "raise")
    BY AddsThose DEF Sure
  <2> HIDE DEF b, d, e, f, g, h
  <2>3. /\ IsBody(b) /\ IsBody(d) /\ IsBody(e) /\ IsBody(f) /\ IsBody(g)
        /\ Len(b) = 2 /\ Len(d) = 3 /\ Len(e) = 2 /\ Len(f) = 4 /\ Len(g) = 2
    BY <2>1 DEF Closed
  <2> DEFINE y == b \o d
  <2>4. Closed(y, 5)
    <3>1. Closed(b \o d, 2 + 3)
      BY <2>1, <2>3, ClosedThen
    <3> QED
      BY <3>1
  <2>5. y[2] = b[2] /\ y[5] = d[3]
    <3>1. IsBody(b) /\ Len(b) = 2 /\ IsBody(d) /\ Len(d) = 3 /\ y = b \o d
      BY <2>3 DEF Closed
    <3> HIDE DEF y
    <3>2. Spliced(b, d, y, 2, 3)
      BY <3>1, Splice
    <3> QED
      BY <3>2 DEF Spliced
  <2> HIDE DEF y
  <2> DEFINE z == y \o e
  <2>6. Closed(z, 7)
    <3>1. Closed(y \o e, 5 + 2)
      BY <2>1, <2>3, <2>4, ClosedThen
    <3> QED
      BY <3>1
  <2>7. z[2] = y[2] /\ z[5] = y[5] /\ z[7] = e[2]
    <3>1. IsBody(y) /\ Len(y) = 5 /\ IsBody(e) /\ Len(e) = 2 /\ z = y \o e
      BY <2>3, <2>4 DEF Closed
    <3> HIDE DEF z
    <3>2. Spliced(y, e, z, 5, 2)
      BY <3>1, Splice
    <3> QED
      BY <3>2 DEF Spliced
  <2> HIDE DEF z
  <2> DEFINE m == z \o f
  <2>8. Closed(m, 11)
    <3>1. Closed(z \o f, 7 + 4)
      BY <2>1, <2>3, <2>6, ClosedThen
    <3> QED
      BY <3>1
  <2>9. m[2] = z[2] /\ m[5] = z[5] /\ m[7] = z[7]
    <3>1. IsBody(z) /\ Len(z) = 7 /\ IsBody(f) /\ Len(f) = 4 /\ m = z \o f
      BY <2>3, <2>6 DEF Closed
    <3> HIDE DEF m
    <3>2. Spliced(z, f, m, 7, 4)
      BY <3>1, Splice
    <3> QED
      BY <3>2 DEF Spliced
  <2> HIDE DEF m
  <2> DEFINE n == m \o g
  <2>10. Closed(n, 13)
    <3>1. Closed(m \o g, 11 + 2)
      BY <2>1, <2>3, <2>8, ClosedThen
    <3> QED
      BY <3>1
  <2>11. n[2] = m[2] /\ n[5] = m[5] /\ n[7] = m[7]
    <3>1. IsBody(m) /\ Len(m) = 11 /\ IsBody(g) /\ Len(g) = 2 /\ n = m \o g
      BY <2>3, <2>8 DEF Closed
    <3> HIDE DEF n
    <3>2. Spliced(m, g, n, 11, 2)
      BY <3>1, Splice
    <3> QED
      BY <3>2 DEF Spliced
  <2> HIDE DEF n
  <2>12. front(x) = n
    BY DEF n, m, z, y, b, d, e, f, g
  <2> HIDE DEF front
  <2> QED
    BY <2>2, <2>5, <2>7, <2>9, <2>10, <2>11, <2>12
<1>2. ASSUME NEW x PROVE body(x) = front(x) \o one(x) \o two(x) \o last
  BY DEF start_direct_conversation, get_workspace_for_user, ensure_workspace_membership
<1>3. ASSUME NEW x
      PROVE  /\ IsBody(one(x)) /\ Len(one(x)) = 2 /\ Shut(one(x)[1])
             /\ IsBody(two(x)) /\ Len(two(x)) = 2 /\ Shut(two(x)[1])
             /\ \A l, y : Adds(one(x)[2], RoomMember(l, y)) => l = r /\ y = u
             /\ \A l, y : Adds(two(x)[2], RoomMember(l, y)) => l = r /\ y = v
  BY MemberAdds
<1>4. Shut(last[1]) /\ IsBody(last) /\ Len(last) = 1
  BY ShutThose DEF IsBody
<1>5. Home(r) = w
  BY DEF Home
<1> HIDE DEF front, one, two, last, r, body
<1>6. ASSUME NEW x
      PROVE  /\ IsBody(body(x)) /\ Len(body(x)) = 18
             /\ \A i \in 1..13 : body(x)[i] = front(x)[i]
             /\ body(x)[14] = one(x)[1] /\ body(x)[15] = one(x)[2]
             /\ body(x)[16] = two(x)[1] /\ body(x)[17] = two(x)[2] /\ body(x)[18] = last[1]
  <2> DEFINE f == front(x)
             g == one(x)
             d == two(x)
             y == f \o g
             z == y \o d
  <2>1. IsBody(f) /\ Len(f) = 13 /\ IsBody(g) /\ Len(g) = 2 /\ IsBody(d) /\ Len(d) = 2
    BY <1>1, <1>3 DEF Closed
  <2> HIDE DEF f, g, d
  <2>2. IsBody(y) /\ Len(y) = 15 /\ (\A i \in 1..13 : y[i] = f[i]) /\ y[14] = g[1] /\ y[15] = g[2]
    <3>1. IsBody(f) /\ Len(f) = 13 /\ IsBody(g) /\ Len(g) = 2 /\ y = f \o g
      BY <2>1
    <3> HIDE DEF y
    <3>2. Spliced(f, g, y, 13, 2)
      BY <3>1, Splice
    <3> QED
      BY <3>2 DEF Spliced
  <2> HIDE DEF y
  <2>3. IsBody(z) /\ Len(z) = 17 /\ (\A i \in 1..15 : z[i] = y[i]) /\ z[16] = d[1] /\ z[17] = d[2]
    <3>1. IsBody(y) /\ Len(y) = 15 /\ IsBody(d) /\ Len(d) = 2 /\ z = y \o d
      BY <2>1, <2>2
    <3> HIDE DEF z
    <3>2. Spliced(y, d, z, 15, 2)
      BY <3>1, Splice
    <3> QED
      BY <3>2 DEF Spliced
  <2> HIDE DEF z
  <2> DEFINE m == z \o last
  <2>4. IsBody(m) /\ Len(m) = 18 /\ (\A i \in 1..17 : m[i] = z[i]) /\ m[18] = last[1]
    <3>1. IsBody(z) /\ Len(z) = 17 /\ IsBody(last) /\ Len(last) = 1 /\ m = z \o last
      BY <1>4, <2>3
    <3> HIDE DEF m
    <3>2. Spliced(z, last, m, 17, 1)
      BY <3>1, Splice
    <3> QED
      BY <3>2 DEF Spliced
  <2> HIDE DEF m
  <2>5. body(x) = m
    BY <1>2 DEF f, g, d, y, z, m
  <2>6. /\ \A i \in 1..13 : body(x)[i] = f[i]
        /\ body(x)[14] = g[1] /\ body(x)[15] = g[2] /\ body(x)[16] = d[1] /\ body(x)[17] = d[2]
    BY <2>2, <2>3, <2>4, <2>5
  <2> QED
    BY <2>4, <2>5, <2>6 DEF f, g, d
<1>7. ASSUME NEW l, NEW y, NEW i \in 1..18, Adds(body(s)[i], RoomMember(l, y))
      PROVE  l = r /\ ((i = 15 /\ y = u) \/ (i = 17 /\ y = v))
  <2>1. CASE i \in 1..13
    BY <1>1, <1>6, <1>7, <2>1, RoomMemberTable DEF Closed
  <2>2. CASE i \in {14, 16, 18}
    <3>1. Shut(body(s)[i])
      BY <1>3, <1>4, <1>6, <2>2
    <3> QED
      BY <1>7, <3>1, RoomMemberTable DEF Shut
  <2>3. CASE i = 15
    BY <1>3, <1>6, <1>7, <2>3
  <2>4. CASE i = 17
    BY <1>3, <1>6, <1>7, <2>4
  <2> QED
    BY <2>1, <2>2, <2>3, <2>4
<1>8. /\ Offsets(Direct(v)) /\ Back(Direct(v), v) = 10 /\ \A y : y # v => Back(Direct(v), y) = 13
  BY DEF Direct, Offsets, Back
<1>9. /\ body(t)[2] = front(t)[2] /\ body(t)[5] = front(t)[5] /\ body(t)[7] = front(t)[7]
  BY <1>6
<1>10. ASSUME NEW l, NEW y, NEW i \in 1..18, Adds(body(s)[i], RoomMember(l, y))
       PROVE  /\ i > Back(Direct(v), y)
              /\ Sure(body(t)[i - Back(Direct(v), y)], t, Membership(Home(l), y))
  <2>1. Membership(Home(l), y) = h(y)
    BY <1>5, <1>7, <1>10
  <2>2. CASE i = 17 /\ y = v
    <3>1. 17 - 10 = 7 /\ Sure(body(t)[7], t, h(v))
      BY <1>1, <1>9
    <3> QED
      BY <1>8, <2>1, <2>2, <3>1
  <2>3. CASE i = 15 /\ y = u /\ u = v
    <3>1. 15 - 10 = 5 /\ Sure(body(t)[5], t, h(y))
      BY <1>1, <1>9, <2>3 DEF Sure
    <3> QED
      BY <1>8, <2>1, <2>3, <3>1
  <2>4. CASE i = 15 /\ y = u /\ u # v
    <3>1. 15 - 13 = 2 /\ Sure(body(t)[2], t, h(u))
      BY <1>1, <1>9
    <3> QED
      BY <1>8, <2>1, <2>4, <3>1
  <2> QED
    BY <1>7, <1>10, <2>2, <2>3, <2>4
<1>11. Homed(body(t), t, body(s), Direct(v))
  BY <1>6, <1>8, <1>10 DEF Homed
<1> QED
  BY <1>11 DEF body

-----------------------------------------------------------------------------
(* The endpoints.                                                          *)
HomedIn(r) == \E o : \A s, t : Homed(Statements(r, t), t, Statements(r, s), o)
SignedHome(r, s, t, o) ==
  \E b, d : /\ Homed(b, t, d, o)
            /\ Statements(r, t) = get_current_user(t, r.args) \o b
            /\ Statements(r, s) = get_current_user(s, r.args) \o d

LEMMA SignedHomed ==
  ASSUME NEW r, NEW o, \A s, t : SignedHome(r, s, t, o)
  PROVE  HomedIn(r)
<1>1. ASSUME NEW s, NEW t PROVE Homed(Statements(r, t), t, Statements(r, s), o)
  <2>1. PICK b, d : /\ Homed(b, t, d, o)
                    /\ Statements(r, t) = get_current_user(t, r.args) \o b
                    /\ Statements(r, s) = get_current_user(s, r.args) \o d
    BY DEF SignedHome
  <2>2. Homed(get_current_user(t, r.args), t, get_current_user(s, r.args), o)
    BY <2>1, ClosedParts, ClosedHomed DEF Homed
  <2> QED
    BY <2>1, <2>2, HomedCat
<1> QED
  BY <1>1 DEF HomedIn

LEMMA AddHomed ==
  ASSUME NEW t, NEW s, NEW c
  PROVE  Homed(add_room_member(t, c), t, add_room_member(s, c), Two)
<1> DEFINE k == RoomMember(c.room, c.user)
           h == Membership(Home(c.room), c.user)
           a(x) == get_room_for_user(x, c.by, c.room)
           b(x) == require_room_manager(x, c.by, c.room)
           sel == Select({User(c.user)})
           usr(x) == Require(Exists(x, User(c.user)), "UserNotFound")
           look == Select({h})
           find(x) == Require(Exists(x, h), "WorkspaceMembershipRequired")
           seek == Select({k})
           add(x) == IF Exists(x, k) THEN Assign(x, k, AsRole(c.role)) ELSE Insert(k, AsRole(c.role))
           d(x) == << sel, usr(x), look, find(x) >>
           e(x) == << seek, add(x) >>
           last == << Commit, Refresh(k) >>
<1>1. \A x : add_room_member(x, c) = a(x) \o b(x) \o d(x) \o e(x) \o last
  BY DEF add_room_member, Upsert
<1>2. /\ Shut(sel) /\ (\A x : Shut(usr(x)) /\ Shut(find(x))) /\ Shut(look) /\ Shut(seek)
      /\ \A x : \A l, v : Adds(add(x), RoomMember(l, v)) => l = c.room /\ v = c.user
  <2>1. /\ Shut(sel) /\ (\A x : Shut(usr(x)) /\ Shut(find(x))) /\ Shut(look) /\ Shut(seek)
    BY ShutThose
  <2>2. ASSUME NEW x, NEW l, NEW v, Adds(add(x), RoomMember(l, v)) PROVE l = c.room /\ v = c.user
    <3>1. \A row : Shut(Assign(x, k, row))
      BY ShutThose
    <3>2. Adds(Insert(k, AsRole(c.role)), RoomMember(l, v)) => l = c.room /\ v = c.user
      BY AddsThose
    <3> QED
      BY <2>2, <3>1, <3>2, RoomMemberTable DEF Shut
  <2> QED
    BY <2>1, <2>2
<1>3. \A x : Sure(find(x), x, h)
  BY AddsThose DEF Sure
<1>4. \A x : Closed(a(x), 2) /\ Closed(b(x), 3) /\ Closed(last, 2)
  BY ClosedParts, ShutThose, ClosedTuples
<1>5. Homed(a(t), t, a(s), Two) /\ Homed(b(t), t, b(s), Two) /\ Homed(last, t, last, Two)
  BY <1>4, TwoBack, ClosedHomed
<1> HIDE DEF k, a, b, sel, usr, look, find, seek, add, last
<1>6. ASSUME NEW x
      PROVE  LET z == d(x) \o e(x) IN
             Opens(z, 6, c.room, c.user) /\ Len(z) = 6 /\ z[4] = find(x) /\ IsBody(d(x)) /\ IsBody(e(x))
  <2> DEFINE z == d(x) \o e(x)
             f == find(x)
             g == add(x)
             i == usr(x)
  <2>0. z = << sel, i, look, f >> \o << seek, g >>
    OBVIOUS
  <2> HIDE DEF z, f, g, i
  <2>1. /\ IsBody(z) /\ Len(z) = 6 /\ z[1] = sel /\ z[2] = i /\ z[3] = look
        /\ z[4] = f /\ z[5] = seek /\ z[6] = g
    <3>1. Len(z) = 6 /\ z[1] = sel /\ z[2] = i /\ z[3] = look /\ z[4] = f /\ z[5] = seek /\ z[6] = g
      BY <2>0
    <3>2. IsBody(z)
      BY <2>0 DEF IsBody
    <3> QED
      BY <3>1, <3>2
  <2>2. \A j \in 1..6 : j # 6 => Shut(z[j])
    BY <1>2, <2>1 DEF i, f
  <2>3. ASSUME NEW j \in 1..6, NEW l, NEW v, Adds(z[j], RoomMember(l, v))
        PROVE  j = 6 /\ l = c.room /\ v = c.user
    BY <1>2, <2>1, <2>2, <2>3, RoomMemberTable DEF Shut, g
  <2>4. Opens(z, 6, c.room, c.user)
    BY <2>1, <2>3 DEF Opens
  <2>5. IsBody(d(x)) /\ IsBody(e(x))
    BY DEF IsBody
  <2> QED
    BY <2>1, <2>4, <2>5 DEF z, f
<1>7. Homed(d(t) \o e(t), t, d(s) \o e(s), Two)
  <2>1. Back(Two, c.user) = 2
    BY TwoBack
  <2> DEFINE y == d(t) \o e(t)
             z == d(s) \o e(s)
  <2>2. /\ Opens(y, 6, c.room, c.user) /\ Opens(z, 6, c.room, c.user) /\ Len(y) = Len(z)
        /\ Sure(y[4], t, h)
    BY <1>3, <1>6
  <2> HIDE DEF y, z
  <2>3. 6 > Back(Two, c.user) /\ Sure(y[6 - Back(Two, c.user)], t, h)
    BY <2>1, <2>2
  <2>4. Homed(y, t, z, Two)
    BY <2>2, <2>3, TwoBack, OpensHomed
  <2> QED
    BY <2>4 DEF y, z
<1>8. ASSUME NEW x PROVE add_room_member(x, c) = (a(x) \o b(x)) \o (d(x) \o e(x)) \o last
  <2> DEFINE f == a(x) \o b(x)
             g == d(x)
             i == e(x)
  <2>1. IsBody(a(x)) /\ IsBody(b(x))
    BY <1>4 DEF Closed
  <2>2. IsBody(f) /\ IsBody(g) /\ IsBody(i)
    BY <1>6, <2>1, Joins
  <2>3. add_room_member(x, c) = f \o g \o i \o last
    BY <1>1
  <2> HIDE DEF f, g, i
  <2>4. Sticks(f, g, i)
    BY <2>2, GluedTwice
  <2>5. add_room_member(x, c) = f \o (g \o i) \o last
    BY <2>3, <2>4, Zenon DEF Sticks, Glue
  <2> QED
    BY <2>5 DEF f, g, i
<1> HIDE DEF d, e
<1>9. Homed(a(t) \o b(t), t, a(s) \o b(s), Two)
  BY <1>5, HomedCat
<1>10. Homed((a(t) \o b(t)) \o (d(t) \o e(t)), t, (a(s) \o b(s)) \o (d(s) \o e(s)), Two)
  BY <1>7, <1>9, HomedCat
<1>11. Homed((a(t) \o b(t)) \o (d(t) \o e(t)) \o last, t, (a(s) \o b(s)) \o (d(s) \o e(s)) \o last, Two)
  BY <1>5, <1>10, HomedCat
<1> DEFINE y == add_room_member(t, c)
           z == add_room_member(s, c)
<1>12. y = (a(t) \o b(t)) \o (d(t) \o e(t)) \o last /\ z = (a(s) \o b(s)) \o (d(s) \o e(s)) \o last
  BY <1>8
<1> HIDE DEF y, z
<1>13. Homed(y, t, z, Two)
  BY <1>11, <1>12, Zenon
<1> QED
  BY <1>13 DEF y, z

LEMMA JoinHomed ==
  ASSUME NEW t, NEW s, NEW c
  PROVE  Homed(join_room(t, c), t, join_room(s, c), One)
<1> DEFINE k == RoomMember(c.room, c.by)
           h == Membership(Home(c.room), c.by)
           look == Select({Room(c.room), h, k})
           find(x) == Require(Exists(x, Room(c.room)) /\ Exists(x, h), "RoomNotFound")
           add(x) == IF Exists(x, k) THEN Return ELSE Insert(k, Member)
           last == Commit
<1>1. \A x : join_room(x, c) = << look, find(x) >> \o << add(x), last >>
  BY DEF join_room, get_room_for_user
<1>2. /\ Shut(look) /\ (\A x : Shut(find(x))) /\ Shut(last)
      /\ \A x : \A l, v : Adds(add(x), RoomMember(l, v)) => l = c.room /\ v = c.by
  <2>1. Shut(look) /\ (\A x : Shut(find(x))) /\ Shut(last) /\ Shut(Return)
    BY ShutThose
  <2>2. ASSUME NEW x, NEW l, NEW v, Adds(add(x), RoomMember(l, v)) PROVE l = c.room /\ v = c.by
    <3>1. Adds(Insert(k, Member), RoomMember(l, v)) => l = c.room /\ v = c.by
      BY AddsThose
    <3> QED
      BY <2>1, <2>2, <3>1, RoomMemberTable DEF Shut
  <2> QED
    BY <2>1, <2>2
<1>3. \A x : Sure(find(x), x, h)
  BY AddsThose DEF Sure
<1> HIDE DEF look, find, add, last, k
<1>4. ASSUME NEW x
      PROVE  LET z == join_room(x, c) IN
             Opens(z, 3, c.room, c.by) /\ Len(z) = 4 /\ z[2] = find(x)
  <2> DEFINE z == join_room(x, c)
             f == find(x)
             g == add(x)
  <2>0. z = << look, f >> \o << g, last >>
    BY <1>1
  <2> HIDE DEF z, f, g
  <2>1. IsBody(z) /\ Len(z) = 4 /\ z[1] = look /\ z[2] = f /\ z[3] = g /\ z[4] = last
    <3>1. Len(z) = 4 /\ z[1] = look /\ z[2] = f /\ z[3] = g /\ z[4] = last
      BY <2>0
    <3>2. IsBody(z)
      BY <2>0 DEF IsBody
    <3> QED
      BY <3>1, <3>2
  <2>2. \A j \in 1..4 : j # 3 => Shut(z[j])
    BY <1>2, <2>1 DEF f
  <2>3. ASSUME NEW j \in 1..4, NEW l, NEW v, Adds(z[j], RoomMember(l, v))
        PROVE  j = 3 /\ l = c.room /\ v = c.by
    BY <1>2, <2>1, <2>2, <2>3, RoomMemberTable DEF Shut, g
  <2>4. Opens(z, 3, c.room, c.by)
    BY <2>1, <2>3 DEF Opens
  <2> QED
    BY <2>1, <2>4 DEF z, f
<1>5. Back(One, c.by) = 1
  BY TwoBack
<1> DEFINE y == join_room(t, c)
           z == join_room(s, c)
<1>6. /\ Opens(y, 3, c.room, c.by) /\ Opens(z, 3, c.room, c.by) /\ Len(y) = Len(z)
      /\ Sure(y[2], t, h)
  BY <1>3, <1>4
<1> HIDE DEF y, z
<1>7. 3 > Back(One, c.by) /\ Sure(y[3 - Back(One, c.by)], t, h)
  BY <1>5, <1>6
<1>8. Homed(y, t, z, One)
  BY <1>6, <1>7, TwoBack, OpensHomed
<1> QED
  BY <1>8 DEF y, z

LEMMA GlobalHomed ==
  ASSUME NEW t, NEW s, NEW c
  PROVE  Homed(start_global_direct_conversation(t, c), t,
               start_global_direct_conversation(s, c), Direct(c.user))
<1> DEFINE a(x) == ensure_conversation_workspace(x, c.by)
           z(x) == start_direct_conversation(x, c.by, Net, c.user)
<1>1. \A x : start_global_direct_conversation(x, c) = a(x) \o z(x)
  BY DEF start_global_direct_conversation
<1>2. Homed(z(t), t, z(s), Direct(c.user))
  BY DirectHomed
<1>3. Offsets(Direct(c.user))
  BY DEF Direct, Offsets
<1>4. Homed(a(t), t, a(s), Direct(c.user))
  BY <1>3, ClosedParts, ClosedHomed
<1> HIDE DEF a, z
<1>5. Homed(a(t) \o z(t), t, a(s) \o z(s), Direct(c.user))
  BY <1>2, <1>4, HomedCat
<1> DEFINE y == start_global_direct_conversation(t, c)
           x == start_global_direct_conversation(s, c)
<1>6. y = a(t) \o z(t) /\ x = a(s) \o z(s)
  BY <1>1
<1> HIDE DEF y, x
<1>7. Homed(y, t, x, Direct(c.user))
  BY <1>5, <1>6
<1> QED
  BY <1>7 DEF y, x

LEMMA JoinersHomed ==
  ASSUME NEW r, r.args.op \in {"create_room", "join_room", "add_room_member", "invite_room_member",
                               "start_direct_conversation", "start_global_direct"}
  PROVE  HomedIn(r)
<1> DEFINE c == r.args
<1>1. CASE c.op = "create_room"
  <2>1. ASSUME NEW s, NEW t
        PROVE  /\ Homed(create_room(t, c.by, c.room), t, create_room(s, c.by, c.room), Two)
               /\ Statements(r, s) = get_current_user(s, c) \o create_room(s, c.by, c.room)
    <3>1. Statements(r, s) = get_current_user(s, c) \o create_room(s, c.by, c.room)
      BY <1>1, Zenon DEF Statements, ApiEndpoint, create_room_endpoint, Authenticated, Handler
    <3> QED
      BY <3>1, RoomHomed
  <2>2. \A s, t : SignedHome(r, s, t, Two)
    BY <2>1 DEF SignedHome
  <2> QED
    BY <2>2, SignedHomed
<1>2. CASE c.op = "join_room"
  <2>1. ASSUME NEW s, NEW t
        PROVE  /\ Homed(join_room(t, c), t, join_room(s, c), One)
               /\ Statements(r, s) = get_current_user(s, c) \o join_room(s, c)
    <3>1. Statements(r, s) = get_current_user(s, c) \o join_room(s, c)
      BY <1>2, Zenon DEF Statements, ApiEndpoint, join_room_endpoint, Authenticated, Handler
    <3> QED
      BY <3>1, JoinHomed
  <2>2. \A s, t : SignedHome(r, s, t, One)
    BY <2>1 DEF SignedHome
  <2> QED
    BY <2>2, SignedHomed
<1>3. CASE c.op = "add_room_member"
  <2>1. ASSUME NEW s, NEW t
        PROVE  /\ Homed(add_room_member(t, c), t, add_room_member(s, c), Two)
               /\ Statements(r, s) = get_current_user(s, c) \o add_room_member(s, c)
    <3>1. Statements(r, s) = get_current_user(s, c) \o add_room_member(s, c)
      BY <1>3, Zenon DEF Statements, ApiEndpoint, add_room_member_endpoint, Authenticated, Handler
    <3> QED
      BY <3>1, AddHomed
  <2>2. \A s, t : SignedHome(r, s, t, Two)
    BY <2>1 DEF SignedHome
  <2> QED
    BY <2>2, SignedHomed
<1>4. CASE c.op = "invite_room_member"
  <2>1. ASSUME NEW s, NEW t
        PROVE  /\ Homed(invite_room_member_by_email(t, c.by, c.room, c.user, c.role), t, invite_room_member_by_email(s, c.by, c.room, c.user, c.role), Two)
               /\ Statements(r, s) = get_current_user(s, c) \o invite_room_member_by_email(s, c.by, c.room, c.user, c.role)
    <3>1. Statements(r, s) = get_current_user(s, c) \o invite_room_member_by_email(s, c.by, c.room, c.user, c.role)
      BY <1>4, Zenon DEF Statements, ApiEndpoint, invite_room_member_endpoint, Authenticated, Handler
    <3> QED
      BY <3>1, InviteHomed
  <2>2. \A s, t : SignedHome(r, s, t, Two)
    BY <2>1 DEF SignedHome
  <2> QED
    BY <2>2, SignedHomed
<1>5. CASE c.op = "start_direct_conversation"
  <2>1. ASSUME NEW s, NEW t
        PROVE  /\ Homed(start_direct_conversation(t, c.by, c.ws, c.user), t, start_direct_conversation(s, c.by, c.ws, c.user), Direct(c.user))
               /\ Statements(r, s) = get_current_user(s, c) \o start_direct_conversation(s, c.by, c.ws, c.user)
    <3>1. Statements(r, s) = get_current_user(s, c) \o start_direct_conversation(s, c.by, c.ws, c.user)
      BY <1>5, Zenon DEF Statements, ApiEndpoint, start_direct_conversation_endpoint, Authenticated, Handler
    <3> QED
      BY <3>1, DirectHomed
  <2>2. \A s, t : SignedHome(r, s, t, Direct(c.user))
    BY <2>1 DEF SignedHome
  <2> QED
    BY <2>2, SignedHomed
<1>6. CASE c.op = "start_global_direct"
  <2>1. ASSUME NEW s, NEW t
        PROVE  /\ Homed(start_global_direct_conversation(t, c), t, start_global_direct_conversation(s, c), Direct(c.user))
               /\ Statements(r, s) = get_current_user(s, c) \o start_global_direct_conversation(s, c)
    <3>1. Statements(r, s) = get_current_user(s, c) \o start_global_direct_conversation(s, c)
      BY <1>6, Zenon DEF Statements, ApiEndpoint, start_global_direct_endpoint, Authenticated, Handler
    <3> QED
      BY <3>1, GlobalHomed
  <2>2. \A s, t : SignedHome(r, s, t, Direct(c.user))
    BY <2>1 DEF SignedHome
  <2> QED
    BY <2>2, SignedHomed
<1> QED
  BY <1>1, <1>2, <1>3, <1>4, <1>5, <1>6

LEMMA GroupHomed ==
  ASSUME NEW s, NEW t, NEW c, NEW id, c.users \in Seq(Users)
  PROVE  Homed(create_group_conversation(t, c, id), t, create_group_conversation(s, c, id), Two)
<1> DEFINE r == <<Net, <<"group", id>>>>
           m == Len(c.users)
           check(x, i) == << Select({User(c.users[i])}),
                             Require(Active(x, c.users[i]), "UserNotFound") >>
           invite(x, i) == invite_room_member_by_email(x, c.by, r, c.users[i], "member")
           checks(x) == [i \in DOMAIN c.users |-> Invited(c, c.users[i], check(x, i))]
           invites(x) == [i \in DOMAIN c.users |-> Invited(c, c.users[i], invite(x, i))]
<1>1. m \in Nat /\ DOMAIN c.users = 1..m
  OBVIOUS
<1>2. \A i : Homed(check(t, i), t, check(s, i), Two) /\ Len(check(s, i)) = 2
  BY ShutThose, ClosedTuples, ClosedHomed, TwoBack DEF Closed
<1>3. \A i : Homed(invite(t, i), t, invite(s, i), Two)
  BY InviteHomed
<1>4. \A i : Len(invite(s, i)) = 14
  BY DEF invite_room_member_by_email, get_room_for_user, require_room_manager,
     ensure_workspace_membership, ensure_room_membership
<1>5. Homed(InTurn(checks(t)), t, InTurn(checks(s)), Two)
  <2> DEFINE bs == checks(t)
             ds == checks(s)
  <2>1. ASSUME NEW i \in 1..m
        PROVE  bs[i] = Invited(c, c.users[i], check(t, i)) /\ ds[i] = Invited(c, c.users[i], check(s, i))
    BY <1>1
  <2>2. Listed(bs, m) /\ Listed(ds, m)
    BY <1>1 DEF Listed
  <2> HIDE DEF bs, ds, m, check
  <2>3. ASSUME NEW i \in 1..m PROVE Homed(bs[i], t, ds[i], Two) /\ Len(ds[i]) = 2
    <3> DEFINE u == c.users[i]
               x == check(t, i)
               y == check(s, i)
    <3>1. Homed(x, t, y, Two) /\ Len(y) = 2 /\ bs[i] = Invited(c, u, x) /\ ds[i] = Invited(c, u, y)
      BY <1>2, <2>1
    <3> HIDE DEF u, x, y
    <3>2. \A b, d : Homed(b, t, d, Two) =>
            Homed(Invited(c, u, b), t, Invited(c, u, d), Two) /\ Len(Invited(c, u, d)) = Len(d)
      BY InvitedHomed
    <3>3. Homed(x, t, y, Two)
      BY <3>1
    <3>4. Homed(Invited(c, u, x), t, Invited(c, u, y), Two)
      BY <3>2, <3>3
    <3>5. Len(Invited(c, u, y)) = Len(y) /\ Len(y) = 2
      BY <3>1, <3>2, <3>3, Zenon
    <3>6. bs[i] = Invited(c, u, x) /\ ds[i] = Invited(c, u, y)
      BY <3>1
    <3> QED
      BY <3>4, <3>5, <3>6, Zenon
  <2>4. \A i \in 1..m : Homed(bs[i], t, ds[i], Two) /\ Len(ds[i]) = 2
    BY <2>3
  <2>5. m \in Nat /\ 2 \in Nat \ {0} /\ Offsets(Two)
    BY <1>1, TwoBack
  <2>6. Homed(InTurn(bs), t, InTurn(ds), Two)
    BY <2>2, <2>4, <2>5, TurnHomed, Zenon
  <2> QED
    BY <2>6 DEF bs, ds
<1>6. Homed(InTurn(invites(t)), t, InTurn(invites(s)), Two)
  <2> DEFINE bs == invites(t)
             ds == invites(s)
  <2>1. ASSUME NEW i \in 1..m
        PROVE  bs[i] = Invited(c, c.users[i], invite(t, i)) /\ ds[i] = Invited(c, c.users[i], invite(s, i))
    BY <1>1
  <2>2. Listed(bs, m) /\ Listed(ds, m)
    BY <1>1 DEF Listed
  <2> HIDE DEF bs, ds, m, invite
  <2>3. ASSUME NEW i \in 1..m PROVE Homed(bs[i], t, ds[i], Two) /\ Len(ds[i]) = 14
    <3> DEFINE u == c.users[i]
               x == invite(t, i)
               y == invite(s, i)
    <3>1. Homed(x, t, y, Two) /\ Len(y) = 14 /\ bs[i] = Invited(c, u, x) /\ ds[i] = Invited(c, u, y)
      BY <1>3, <1>4, <2>1
    <3> HIDE DEF u, x, y
    <3>2. \A b, d : Homed(b, t, d, Two) =>
            Homed(Invited(c, u, b), t, Invited(c, u, d), Two) /\ Len(Invited(c, u, d)) = Len(d)
      BY InvitedHomed
    <3>3. Homed(x, t, y, Two)
      BY <3>1
    <3>4. Homed(Invited(c, u, x), t, Invited(c, u, y), Two)
      BY <3>2, <3>3
    <3>5. Len(Invited(c, u, y)) = Len(y) /\ Len(y) = 14
      BY <3>1, <3>2, <3>3, Zenon
    <3>6. bs[i] = Invited(c, u, x) /\ ds[i] = Invited(c, u, y)
      BY <3>1
    <3> QED
      BY <3>4, <3>5, <3>6, Zenon
  <2>4. \A i \in 1..m : Homed(bs[i], t, ds[i], Two) /\ Len(ds[i]) = 14
    BY <2>3
  <2>5. m \in Nat /\ 14 \in Nat \ {0} /\ Offsets(Two)
    BY <1>1, TwoBack
  <2>6. Homed(InTurn(bs), t, InTurn(ds), Two)
    BY <2>2, <2>4, <2>5, TurnHomed, Zenon
  <2> QED
    BY <2>6 DEF bs, ds
<1> DEFINE a(x) == ensure_conversation_workspace(x, c.by)
           b(x) == validate_group_invite_emails(x, c)
           d(x) == create_room(x, c.by, r)
           e(x) == InTurn(invites(x))
<1>7. /\ create_group_conversation(t, c, id) = a(t) \o b(t) \o d(t) \o e(t)
      /\ create_group_conversation(s, c, id) = a(s) \o b(s) \o d(s) \o e(s)
  BY DEF create_group_conversation
<1>8. /\ Homed(a(t), t, a(s), Two) /\ Homed(b(t), t, b(s), Two) /\ Homed(d(t), t, d(s), Two)
  BY <1>5, ClosedParts, ClosedHomed, TwoBack, RoomHomed DEF validate_group_invite_emails
<1>9. Homed(e(t), t, e(s), Two)
  BY <1>6
<1> HIDE DEF a, b, d, e
<1>10. Homed(a(t) \o b(t), t, a(s) \o b(s), Two)
  BY <1>8, HomedCat
<1>11. Homed(a(t) \o b(t) \o d(t), t, a(s) \o b(s) \o d(s), Two)
  BY <1>8, <1>10, HomedCat
<1>12. Homed(a(t) \o b(t) \o d(t) \o e(t), t, a(s) \o b(s) \o d(s) \o e(s), Two)
  BY <1>9, <1>11, HomedCat
<1> QED
  BY <1>7, <1>12


LEMMA GroupsHomed ==
  ASSUME NEW r, r.args \in Calls, r.args.op = "create_group_conversation"
  PROVE  HomedIn(r)
<1> DEFINE c == r.args
<1>1. c.users \in Seq(Users)
  BY CallsAssumption DEF Calls
<1>2. ASSUME NEW s
      PROVE  Statements(r, s) = get_current_user(s, c) \o create_group_conversation(s, c, r.id)
  BY Zenon DEF Statements, ApiEndpoint, create_group_conversation_endpoint, Authenticated, Handler
<1>3. ASSUME NEW s, NEW t
      PROVE  Homed(create_group_conversation(t, c, r.id), t,
                   create_group_conversation(s, c, r.id), Two)
  BY <1>1, GroupHomed
<1>4. \A s, t : SignedHome(r, s, t, Two)
  BY <1>2, <1>3 DEF SignedHome
<1> QED
  BY <1>4, SignedHomed

(* Endpoints that change rooms and add nobody.                             *)
LEMMA LeaversClosed ==
  ASSUME NEW r, r.args.op \in {"update_room_member", "remove_room_member", "leave_room",
                               "remove_workspace_member"}, NEW s
  PROVE  \E n : Closed(Statements(r, s), n)
<1> DEFINE c == r.args
           g == get_current_user(s, c)
<1>1. Closed(g, 2)
  BY ClosedParts
<1>2. CASE c.op = "update_room_member" \/ c.op = "remove_room_member"
  <2> DEFINE k == RoomMember(c.room, c.user)
             a == get_room_for_user(s, c.by, c.room)
             b == require_room_manager(s, c.by, c.room)
             d == get_room_member_with_user(s, c.room, c.user)
             e == ensure_room_has_another_owner(s, c.room, c.user)
             f == IF c.role = "owner" THEN << >> ELSE e
             y == << Assign(s, k, AsRole(c.role)), Commit, Refresh(k) >>
             z == << Delete(k), Commit >>
  <2>1. /\ Closed(a, 2) /\ Closed(b, 3) /\ Closed(d, 2) /\ Closed(e, 2)
        /\ (Closed(f, 0) \/ Closed(f, 2)) /\ Closed(y, 3) /\ Closed(z, 2)
    <3>1. Closed(a, 2) /\ Closed(b, 3) /\ Closed(d, 2)
      BY ClosedParts
    <3>2. Closed(e, 2)
      BY ClosedParts DEF ensure_room_has_another_owner
    <3>3. Closed(y, 3) /\ Closed(z, 2) /\ Closed(<< >>, 0)
      BY ShutThose, ClosedTuples
    <3> HIDE DEF e
    <3> QED
      BY <3>1, <3>2, <3>3
  <2>2. /\ c.op = "update_room_member" => Statements(r, s) = g \o (a \o b \o d \o f \o y)
        /\ c.op = "remove_room_member" => Statements(r, s) = g \o (a \o b \o d \o e \o z)
    <3>1. c.op = "update_room_member" => Statements(r, s) = g \o update_room_member_role(s, c)
      BY Zenon DEF Statements, ApiEndpoint, update_room_member_endpoint, Authenticated, Handler
    <3>2. c.op = "remove_room_member" => Statements(r, s) = g \o remove_room_member(s, c)
      BY Zenon DEF Statements, ApiEndpoint, remove_room_member_endpoint, Authenticated, Handler
    <3>3. /\ update_room_member_role(s, c) = a \o b \o d \o f \o y
          /\ remove_room_member(s, c) = a \o b \o d \o e \o z
      BY DEF update_room_member_role, remove_room_member
    <3> HIDE DEF g, a, b, d, e, f, y, z
    <3> QED
      BY <3>1, <3>2, <3>3
  <2> HIDE DEF g, a, b, d, e, f, y, z
  <2>3. Closed(a \o b \o d, (2 + 3) + 2)
    <3>1. Closed(a \o b, 2 + 3)
      BY <2>1, ClosedThen
    <3> HIDE DEF c
    <3> QED
      BY <2>1, <3>1, ClosedThen
  <2> DEFINE i == a \o b \o d
  <2>4. \E m : Closed(i, m)
    BY <2>3
  <2> HIDE DEF i
  <2>5. \A v, n, m : Closed(i, n) /\ Closed(v, m) => Closed(i \o v, n + m)
    BY ClosedThen
  <2>6. (\E m : Closed(i \o e, m)) /\ \E m : Closed(i \o f, m)
    BY <2>1, <2>4, <2>5
  <2>7. /\ \E m : Closed((i \o e) \o z, m)
        /\ \E m : Closed((i \o f) \o y, m)
    BY <2>1, <2>6, ClosedThen
  <2>8. /\ \E m : Closed(g \o ((i \o e) \o z), m)
        /\ \E m : Closed(g \o ((i \o f) \o y), m)
    BY <1>1, <2>7, ClosedThen
  <2> QED
    BY <1>2, <2>2, <2>8 DEF i
<1>3. CASE c.op = "leave_room"
  <2> DEFINE k == RoomMember(c.room, c.by)
             a == get_room_for_user(s, c.by, c.room)
             z == << IF Exists(s, k) THEN DeleteWhere({k}) ELSE Return, Commit >>
  <2>1. Closed(a, 2) /\ Closed(z, 2)
    BY ClosedParts, ShutThose, ClosedTuples
  <2>2. Statements(r, s) = g \o leave_room(s, c)
    BY <1>3, Zenon DEF Statements, ApiEndpoint, leave_room_endpoint, Authenticated, Handler
  <2>3. leave_room(s, c) = a \o z
    BY DEF leave_room
  <2> HIDE DEF g, a, z
  <2>4. Closed(a \o z, 2 + 2)
    BY <2>1, ClosedThen
  <2>5. \E m : Closed(g \o (a \o z), m)
    BY <1>1, <2>4, ClosedThen
  <2> QED
    BY <2>2, <2>3, <2>5
<1>4. CASE c.op = "remove_workspace_member"
  <2> DEFINE k == Membership(c.ws, c.user)
             a == require_workspace_owner(s, c.by, c.ws)
             b == get_workspace_membership_with_user(s, c.ws, c.user)
             d == ensure_workspace_has_another_owner(s, c.ws, c.user)
             z == << DeleteWhere({RoomMember(x, c.user) : x \in RoomsOf(c.ws)}), Delete(k), Commit >>
  <2>1. Closed(a, 3) /\ Closed(b, 2) /\ Closed(d, 2) /\ Closed(z, 3)
    <3>1. Closed(a, 3) /\ Closed(b, 2)
      BY ClosedParts
    <3>2. Closed(d, 2)
      BY ClosedParts DEF ensure_workspace_has_another_owner
    <3>3. Closed(z, 3)
      BY ShutThose, ClosedTuples
    <3> QED
      BY <3>1, <3>2, <3>3
  <2>2. Statements(r, s) = g \o remove_workspace_member(s, c)
    BY <1>4, Zenon DEF Statements, ApiEndpoint, remove_workspace_member_endpoint, Authenticated,
       Handler
  <2>3. remove_workspace_member(s, c) = a \o b \o d \o z
    BY DEF remove_workspace_member
  <2> HIDE DEF g, a, b, d, z
  <2>4. \E m : Closed(a \o b, m)
    BY <2>1, ClosedThen
  <2>5. \E m : Closed(a \o b \o d, m)
    BY <2>1, <2>4, ClosedThen
  <2>6. \E m : Closed(a \o b \o d \o z, m)
    BY <2>1, <2>5, ClosedThen
  <2>7. \E m : Closed(g \o (a \o b \o d \o z), m)
    BY <1>1, <2>6, ClosedThen
  <2> QED
    BY <2>2, <2>3, <2>7
<1> QED
  BY <1>2, <1>3, <1>4

-----------------------------------------------------------------------------
(* Endpoints that end no membership but one.                               *)
Keeping(b) == IsBody(b) /\ \A i \in 1..Len(b) : b[i].do \notin {"delete", "delete_where"}

LEMMA KeepingCat ==
  ASSUME NEW a, NEW b, Keeping(a), Keeping(b)
  PROVE  Keeping(a \o b)
<1>1. Meets(a, b) /\ Len(a) \in Nat /\ Len(b) \in Nat
  BY Meet DEF Keeping, IsBody
<1> DEFINE n == Len(a)
           m == Len(b)
           d == a \o b
<1>2. /\ IsBody(d) /\ Len(d) = n + m /\ n \in Nat /\ m \in Nat
      /\ (\A i \in 1..n : d[i] = a[i]) /\ \A i \in 1..m : d[n + i] = b[i]
  BY <1>1 DEF Meets
<1>3. /\ \A i \in 1..n : a[i].do \notin {"delete", "delete_where"}
      /\ \A i \in 1..m : b[i].do \notin {"delete", "delete_where"}
  BY DEF Keeping
<1> HIDE DEF d, n, m
<1>4. ASSUME NEW i \in 1..n + m PROVE d[i].do \notin {"delete", "delete_where"}
  <2>1. CASE i <= n
    BY <1>2, <1>3, <2>1
  <2>2. CASE i > n
    <3> DEFINE j == i - n
    <3>1. j \in 1..m /\ n + j = i
      BY <1>2, <2>2
    <3> HIDE DEF j
    <3> QED
      BY <1>2, <1>3, <3>1
  <2> QED
    BY <1>2, <2>1, <2>2
<1>5. Keeping(d)
  BY <1>2, <1>4 DEF Keeping
<1> QED
  BY <1>5 DEF d

LEMMA KeepingTuples ==
  /\ Keeping(<< >>)
  /\ \A a, b : a.do \notin {"delete", "delete_where"} /\ b.do \notin {"delete", "delete_where"} =>
       Keeping(<< a, b >>)
  /\ \A a, b, d : a.do \notin {"delete", "delete_where"} /\ b.do \notin {"delete", "delete_where"}
                    /\ d.do \notin {"delete", "delete_where"} => Keeping(<< a, b, d >>)
  /\ \A b, n : Looking(b, n) => Keeping(b)
<1>1. Keeping(<< >>)
  BY DEF Keeping, IsBody
<1>2. ASSUME NEW a, NEW b, a.do \notin {"delete", "delete_where"}, b.do \notin {"delete", "delete_where"}
      PROVE  Keeping(<< a, b >>)
  BY <1>2 DEF Keeping, IsBody
<1>3. ASSUME NEW a, NEW b, NEW d, a.do \notin {"delete", "delete_where"},
             b.do \notin {"delete", "delete_where"}, d.do \notin {"delete", "delete_where"}
      PROVE  Keeping(<< a, b, d >>)
  BY <1>3 DEF Keeping, IsBody
<1>4. \A b, n : Looking(b, n) => Keeping(b)
  BY DEF Looking, Keeping
<1> QED
  BY <1>1, <1>2, <1>3, <1>4

LEMMA RolesKeep ==
  ASSUME NEW r, r.args.op \in {"add_workspace_member", "update_workspace_member"}, NEW s
  PROVE  Keeping(Statements(r, s))
<1> DEFINE c == r.args
           k == Membership(c.ws, c.user)
           g == get_current_user(s, c)
           a == require_workspace_owner(s, c.by, c.ws)
           u == << Select({User(c.user)}), Require(Exists(s, User(c.user)), "UserNotFound") >>
           v == Upsert(s, k, c.role)
           b == get_workspace_membership_with_user(s, c.ws, c.user)
           d == ensure_workspace_has_another_owner(s, c.ws, c.user)
           e == IF c.role = "owner" THEN << >> ELSE d
           x == << Commit, Refresh(k) >>
           y == << Assign(s, k, AsRole(c.role)), Commit, Refresh(k) >>
<1>1. /\ \A K : Select(K).do = "select"
      /\ \A p, f : Require(p, f).do \in {"pass", "raise"}
      /\ \A row : Assign(s, k, row).do \in {"pass", "update"} /\ Insert(k, row).do = "insert"
      /\ Commit.do = "commit" /\ Refresh(k).do = "refresh" /\ Pass.do = "pass"
  <2>1. \A row : Assign(s, k, row).do \in {"pass", "update"}
    BY DEF Assign, Pass, Update, Statement
  <2>2. \A row : Insert(k, row).do = "insert"
    BY DEF Insert, InsertOr, Statement
  <2> QED
    BY <2>1, <2>2, Kinds
<1>2. Keeping(g) /\ Keeping(a)
  BY LookingParts, KeepingTuples
<1>3. Keeping(u) /\ Keeping(x) /\ Keeping(y)
  <2>1. \A p, f : Require(p, f).do \notin {"delete", "delete_where"}
    BY <1>1
  <2>2. \A row : Assign(s, k, row).do \notin {"delete", "delete_where"}
    BY <1>1
  <2> QED
    BY <1>1, <2>1, <2>2, KeepingTuples
<1>4. Keeping(v)
  <2> DEFINE h == Select({k})
             l == IF Exists(s, k) THEN Assign(s, k, AsRole(c.role)) ELSE Insert(k, AsRole(c.role))
  <2>1. v = << h, l >>
    BY DEF Upsert
  <2>2. h.do \notin {"delete", "delete_where"} /\ l.do \notin {"delete", "delete_where"}
    <3>1. h.do = "select" /\ l.do \in {"pass", "update", "insert"}
      BY <1>1
    <3> HIDE DEF h, l
    <3> QED
      BY <3>1
  <2> HIDE DEF v, h, l
  <2> QED
    BY <2>1, <2>2, KeepingTuples
<1>5. Keeping(b) /\ Keeping(d)
  <2>1. Keeping(b)
    <3>1. \A p, f : Require(p, f).do \notin {"delete", "delete_where"}
      BY <1>1
    <3> QED
      BY <1>1, <3>1, KeepingTuples DEF get_workspace_membership_with_user
  <2>2. ASSUME NEW K, NEW f PROVE Keeping(AnotherOwner(s, k, K, f))
    <3> DEFINE h == IF Role(s, k) = "owner" THEN Select(K) ELSE Pass
               p == Role(s, k) = "owner" => \E o \in K : Role(s, o) = "owner"
               l == Require(p, f)
    <3>1. AnotherOwner(s, k, K, f) = << h, l >>
      BY DEF AnotherOwner
    <3>2. h.do \in {"select", "pass"} /\ l.do \in {"pass", "raise"}
      BY <1>1
    <3> HIDE DEF h, l
    <3>3. h.do \notin {"delete", "delete_where"} /\ l.do \notin {"delete", "delete_where"}
      BY <3>2
    <3> QED
      BY <3>1, <3>3, KeepingTuples
  <2> QED
    BY <2>1, <2>2 DEF ensure_workspace_has_another_owner
<1>6. Keeping(e)
  <2> HIDE DEF d
  <2> QED
    BY <1>5, KeepingTuples
<1>7. /\ c.op = "add_workspace_member" => Statements(r, s) = g \o (a \o u \o v \o x)
      /\ c.op = "update_workspace_member" => Statements(r, s) = g \o (a \o b \o e \o y)
  <2>1. c.op = "add_workspace_member" => Statements(r, s) = g \o add_workspace_member(s, c)
    BY Zenon DEF Statements, ApiEndpoint, add_workspace_member_endpoint, Authenticated, Handler
  <2>2. c.op = "update_workspace_member" => Statements(r, s) = g \o update_workspace_member_role(s, c)
    BY Zenon DEF Statements, ApiEndpoint, update_workspace_member_endpoint, Authenticated, Handler
  <2>3. /\ add_workspace_member(s, c) = a \o u \o v \o x
        /\ update_workspace_member_role(s, c) = a \o b \o e \o y
    BY DEF add_workspace_member, update_workspace_member_role
  <2> HIDE DEF g, a, u, v, b, d, e, x, y
  <2> QED
    BY <2>1, <2>2, <2>3
<1> HIDE DEF g, a, u, v, b, d, e, x, y
<1>8. Keeping(g \o (a \o u \o v \o x))
  <2>1. Keeping(a \o u)
    BY <1>2, <1>3, KeepingCat
  <2>2. Keeping(a \o u \o v)
    BY <1>4, <2>1, KeepingCat
  <2>3. Keeping(a \o u \o v \o x)
    BY <1>3, <2>2, KeepingCat
  <2> QED
    BY <1>2, <2>3, KeepingCat
<1>9. Keeping(g \o (a \o b \o e \o y))
  <2>1. Keeping(a \o b)
    BY <1>2, <1>5, KeepingCat
  <2>2. Keeping(a \o b \o e)
    BY <1>6, <2>1, KeepingCat
  <2>3. Keeping(a \o b \o e \o y)
    BY <1>3, <2>2, KeepingCat
  <2> QED
    BY <1>2, <2>3, KeepingCat
<1> QED
  BY <1>7, <1>8, <1>9

LEMMA LookingThen ==
  ASSUME NEW a, NEW b, NEW n, NEW m, Looking(a, n), Looking(b, m)
  PROVE  Looking(a \o b, n + m)
<1> DEFINE l == n + m
<1>1. l = n + m
  OBVIOUS
<1> HIDE DEF l
<1>2. Looking(a \o b, l)
  BY <1>1, LookingCat
<1> QED
  BY <1>1, <1>2

\* What remove_workspace_member does once it may.
LEMMA Removal ==
  ASSUME NEW r, r.args.op = "remove_workspace_member", NEW s
  PROVE  LET b == Statements(r, s) IN
         /\ Len(b) = 12 /\ \A i \in 1..9 : b[i].do \in {"select", "pass", "raise"}
         /\ b[10] = DeleteWhere({RoomMember(x, r.args.user) : x \in RoomsOf(r.args.ws)})
         /\ b[11] = Delete(Membership(r.args.ws, r.args.user)) /\ b[12] = Commit
<1> DEFINE c == r.args
           k == Membership(c.ws, c.user)
           g == get_current_user(s, c)
           a == require_workspace_owner(s, c.by, c.ws)
           d == get_workspace_membership_with_user(s, c.ws, c.user)
           e == ensure_workspace_has_another_owner(s, c.ws, c.user)
           wh == DeleteWhere({RoomMember(x, c.user) : x \in RoomsOf(c.ws)})
           dl == Delete(k)
           cm == Commit
           z == << wh, dl, cm >>
           b == Statements(r, s)
<1>1. Looking(g, 2) /\ Looking(a, 3)
  BY LookingParts
<1>2. Looking(d \o e, 4) /\ IsBody(d) /\ IsBody(e)
  <2>1. \A K : Asking(d \o AnotherOwner(s, k, K, "WorkspaceLastOwner"), s, k, K)
    BY AskingParts DEF get_workspace_membership_with_user
  <2>2. \A x, K : Asking(x, s, k, K) => Looking(x, 4)
    <3> SUFFICES ASSUME NEW x, NEW K, Asking(x, s, k, K) PROVE Looking(x, 4)
      OBVIOUS
    <3>1. /\ IsBody(x) /\ Len(x) = 4 /\ x[1] = Select({k}) /\ x[2].do \in {"pass", "raise"}
          /\ x[3] \in {Pass, Select(K)} /\ x[4].do \in {"pass", "raise"}
      BY DEF Asking
    <3>2. x[1].do = "select" /\ x[3].do \in {"pass", "select"}
      BY <3>1, Kinds
    <3> QED
      BY <3>1, <3>2 DEF Looking
  <2>3. IsBody(d) /\ IsBody(e)
    BY DEF get_workspace_membership_with_user, ensure_workspace_has_another_owner, AnotherOwner, IsBody
  <2> QED
    BY <2>1, <2>2, <2>3 DEF ensure_workspace_has_another_owner
<1>3. b = g \o (a \o d \o e \o z)
  <2>1. b = g \o remove_workspace_member(s, c)
    BY Zenon DEF Statements, ApiEndpoint, remove_workspace_member_endpoint, Authenticated, Handler
  <2>2. remove_workspace_member(s, c) = a \o d \o e \o z
    BY DEF remove_workspace_member
  <2> HIDE DEF g, a, d, e, z
  <2> QED
    BY <2>1, <2>2
<1> HIDE DEF b, g, a, d, e, wh, dl, cm
<1>4. IsBody(z) /\ Len(z) = 3 /\ z[1] = wh /\ z[2] = dl /\ z[3] = cm
  BY DEF IsBody
<1> HIDE DEF z
<1>5. b = (g \o a) \o (d \o e) \o z
  <2>1. IsBody(g) /\ IsBody(a)
    BY <1>1 DEF Looking
  <2>2. Regroups(g, a, d, e, z)
    BY <1>2, <1>4, <2>1, Regroup
  <2> QED
    BY <1>3, <2>2, Zenon DEF Regroups
<1> DEFINE x == g \o a
           y == d \o e
<1>6. Looking(x, 5)
  <2>1. 5 = 2 + 3
    OBVIOUS
  <2> QED
    BY <1>1, <2>1, LookingCat
<1>7. Looking(y, 4) /\ b = x \o y \o z
  BY <1>2, <1>5
<1> HIDE DEF x, y
<1> DEFINE w == x \o y
<1>8. Looking(w, 9)
  <2>1. Looking(y, 4)
    BY <1>7
  <2>2. Looking(x \o y, 5 + 4)
    BY <1>6, <2>1, LookingThen
  <2> QED
    BY <2>2
<1>9. b = w \o z
  BY <1>7
<1> HIDE DEF w
<1>10. Meets(w, z) /\ Len(w) = 9 /\ \A i \in 1..9 : w[i].do \in {"select", "pass", "raise"}
  BY <1>4, <1>8, Meet DEF Looking
<1>11. /\ Len(b) = 12 /\ (\A i \in 1..9 : b[i] = w[i])
       /\ b[10] = z[1] /\ b[11] = z[2] /\ b[12] = z[3]
  <2>1. /\ Len(b) = 9 + 3 /\ (\A i \in 1..9 : b[i] = w[i]) /\ \A i \in 1..3 : b[9 + i] = z[i]
    BY <1>4, <1>9, <1>10 DEF Meets
  <2> QED
    BY <2>1
<1> QED
  BY <1>4, <1>10, <1>11 DEF b, wh, dl, cm

-----------------------------------------------------------------------------
(* Every call that adds a user to a room has made sure before that he is a *)
(* member of its workspace, and one endpoint only ends such memberships.   *)
LEMMA Joining ==
  ASSUME NEW r, r.args \in Calls, NEW s, NEW i \in 1..Len(Statements(r, s)), NEW x, NEW u,
         Adds(Statements(r, s)[i], RoomMember(x, u))
  PROVE  \E j \in Nat \ {0} : j < i /\ Ensures(r, Membership(Home(x), u), j)
<1> DEFINE c == r.args
           k == RoomMember(x, u)
           l == Membership(Home(x), u)
<1>1. Sound(Statements(r, s), Tables(c.op))
  BY EndpointsKept DEF Kept, Statements
<1>2. k[1] = "room_members"
  BY RoomMemberTable
<1>3. "room_members" \in Tables(c.op)
  BY <1>1, <1>2 DEF Sound, Safe, Adds, Writing
<1>4. CASE c.op \in {"remove_workspace_member", "leave_room", "update_room_member",
                     "remove_room_member"}
  BY <1>2, <1>4, LeaversClosed DEF Closed
<1>5. CASE HomedIn(r)
  <2>1. PICK o : \A t, y : Homed(Statements(r, y), y, Statements(r, t), o)
    BY <1>5 DEF HomedIn
  <2> DEFINE h == Back(o, u)
             j == i - h
  <2>2. h \in Nat \ {0} /\ i > h /\ \A y : Sure(Statements(r, y)[j], y, l)
    BY <2>1, BackIs DEF Homed
  <2>3. Len(Statements(r, s)) \in Nat
    BY <1>1 DEF Sound, IsBody
  <2> HIDE DEF h, l
  <2>4. j \in Nat \ {0} /\ j < i
    BY <2>2, <2>3
  <2>5. Ensures(r, l, j)
    BY <2>2 DEF Ensures, Sure, Adds
  <2> QED
    BY <2>4, <2>5 DEF l
<1>6. \/ HomedIn(r)
      \/ c.op \in {"remove_workspace_member", "leave_room", "update_room_member",
                   "remove_room_member"}
  BY <1>3, JoinersHomed, GroupsHomed DEF Tables, WrittenBy
<1> QED
  BY <1>4, <1>5, <1>6

LEMMA MembersLast ==
  ASSUME NEW r, r.args \in Calls, NEW w, NEW u
  PROVE  \/ Lasting(r, Membership(w, u))
         \/ r.args.op = "remove_workspace_member" /\ w = r.args.ws /\ u = r.args.user
<1> DEFINE c == r.args
           k == Membership(w, u)
<1>1. k[1] = "memberships"
  BY RoomMemberTable
<1> HIDE DEF k
<1>2. ASSUME NEW s
      PROVE  /\ Sound(Statements(r, s), Tables(c.op)) /\ Len(Statements(r, s)) \in Nat
             /\ IsBody(Statements(r, s))
  BY EndpointsKept DEF Kept, Statements, Sound, IsBody
<1>3. CASE "memberships" \notin Tables(c.op)
  <2>1. ASSUME NEW s, NEW i \in 1..Len(Statements(r, s)), Drops(Statements(r, s)[i], k)
        PROVE  FALSE
    <3>1. Safe(Statements(r, s)[i], Tables(c.op))
      BY <1>2 DEF Sound
    <3> QED
      BY <1>1, <1>3, <2>1, <3>1 DEF Safe, Drops, Writing
  <2> QED
    BY <2>1 DEF Lasting, k
<1>4. CASE MildIn(r)
  <2>1. ASSUME NEW s, NEW i \in 1..Len(Statements(r, s)), Drops(Statements(r, s)[i], k)
        PROVE  FALSE
    <3> DEFINE st == Statements(r, s)[i]
    <3>1. Alters(st, k)
      BY <2>1 DEF Alters, Drops, Writing
    <3>2. Spares(st) \/ st.do = "update"
      BY <1>1, <1>4, <3>1 DEF MildIn, Mild, Belongs
    <3> HIDE DEF st
    <3>3. st.do \in {"insert", "update"}
      BY <1>1, <3>1, <3>2 DEF Spares, Belongs
    <3> QED
      BY <2>1, <3>3 DEF Drops, st
  <2> QED
    BY <2>1 DEF Lasting, k
<1>5. CASE c.op \in {"add_workspace_member", "update_workspace_member"}
  BY <1>5, RolesKeep DEF Keeping, Lasting, Drops, k
<1>6. CASE c.op = "remove_workspace_member" /\ ~(w = c.ws /\ u = c.user)
  <2>1. ASSUME NEW s, NEW i \in 1..Len(Statements(r, s)), Drops(Statements(r, s)[i], k)
        PROVE  FALSE
    <3> DEFINE b == Statements(r, s)
               m == {RoomMember(x, c.user) : x \in RoomsOf(c.ws)}
    <3>1. /\ Len(b) = 12 /\ \A j \in 1..9 : b[j].do \in {"select", "pass", "raise"}
          /\ b[10] = DeleteWhere(m) /\ b[11] = Delete(Membership(c.ws, c.user)) /\ b[12] = Commit
      BY <1>6, Removal
    <3>2. i \in 1..9 \/ i = 10 \/ i = 11 \/ i = 12
      BY <3>1
    <3>3. k \notin m
      BY <1>1, RoomMemberTable
    <3>4. k # Membership(c.ws, c.user)
      BY <1>6 DEF Membership, k
    <3>5. /\ DeleteWhere(m).keys = m /\ Delete(Membership(c.ws, c.user)).keys = {Membership(c.ws, c.user)}
          /\ Commit.do = "commit"
      BY DEF DeleteWhere, Delete, Commit, Statement
    <3> HIDE DEF b, m
    <3>6. Drops(b[i], k)
      BY <2>1 DEF b
    <3> QED
      BY <3>1, <3>2, <3>3, <3>4, <3>5, <3>6 DEF Drops
  <2> QED
    BY <2>1 DEF Lasting, k
<1>7. \/ "memberships" \notin Tables(c.op) \/ MildIn(r)
      \/ c.op \in {"add_workspace_member", "update_workspace_member", "remove_workspace_member"}
  BY AddersMild, GroupsMild DEF Tables, WrittenBy
<1> QED
  BY <1>3, <1>4, <1>5, <1>6, <1>7 DEF k

(* What the requests that write members know.                              *)
\* The call is sure of k before its statement number p.
Vouched(r, k, p) == \E j \in Nat \ {0} : j < p /\ Ensures(r, k, j)
\* A member of a room that the call adds is vouched for.
Belonging(q) ==
  \A x \in Rooms, u \in Users :
    LET in == RoomMember(x, u) IN
    /\ in \in DOMAIN writes[q] /\ writes[q][in] # Absent /\ db[in] = Absent
    /\ in \notin overtaken[q]
    => Vouched(call[q], Membership(Home(x), u), pc[q])
\* A committed row that the call deletes nowhere is visible to it.
Staying(q) == \A k \in Rows : Lasting(call[q], k) /\ db[k] # Absent => Here(q, k)
BInv == SInv /\ \A q \in Requests : Open(q) => Belonging(q) /\ Staying(q)

LEMMA MemberKeys ==
  ASSUME NEW x \in Rooms, NEW u \in Users
  PROVE  RoomMember(x, u) \in Rows /\ Membership(Home(x), u) \in Rows
BY KeysAssumption, RoomMemberTable DEF Rows, Schema

LEMMA Stepping ==
  ASSUME Routed, SInv, NEW q \in Requests, Goes(q)
  PROVE  LET r == call[q] IN
         /\ Open(q) /\ call'[q] = r /\ overtaken'[q] = overtaken[q] /\ RInv /\ r.args \in Calls
         /\ gone[q] \subseteq overtaken[q]
         /\ pc[q] \in Nat \ {0} /\ pc'[q] \in Nat /\ pc'[q] > pc[q]
         /\ pc[q] \in 1..Len(Statements(r, seen[q]))
         /\ current[q] = Statements(r, seen[q])[pc[q]]
<1>1. Open(q) /\ RInv /\ IInv
  BY DEF Goes, SInv, KInv, RInv, WInv
<1>2. call[q].args \in Calls
  BY <1>1, ArgsInCalls
<1>3. gone[q] \subseteq overtaken[q]
  BY <1>1 DEF IInv, TypeOK
<1> QED
  BY <1>1, <1>2, <1>3, CurrentIs DEF Goes, Open

LEMMA BelongingKept ==
  ASSUME Routed, BInv, NEW q \in Requests, Goes(q), Effect(q)
  PROVE  Belonging(q)'
<1> DEFINE r == call[q]
<1>1. /\ Open(q) /\ call'[q] = r /\ overtaken'[q] = overtaken[q] /\ RInv /\ r.args \in Calls
      /\ gone[q] \subseteq overtaken[q]
      /\ pc[q] \in Nat \ {0} /\ pc'[q] \in Nat /\ pc'[q] > pc[q]
      /\ pc[q] \in 1..Len(Statements(r, seen[q]))
      /\ current[q] = Statements(r, seen[q])[pc[q]]
  BY Stepping DEF BInv
<1>2. SUFFICES ASSUME NEW x \in Rooms, NEW u \in Users,
                      RoomMember(x, u) \in DOMAIN writes'[q], writes'[q][RoomMember(x, u)] # Absent,
                      db'[RoomMember(x, u)] = Absent, RoomMember(x, u) \notin overtaken[q]
               PROVE  Vouched(r, Membership(Home(x), u), pc'[q])
  BY <1>1 DEF Belonging
<1> DEFINE in == RoomMember(x, u)
           of == Membership(Home(x), u)
<1>3. db' = db /\ in \in Rows
  BY <1>2, NotCommitted, MemberKeys
<1>4. Vouched(r, of, pc[q]) => Vouched(r, of, pc'[q])
  BY <1>1 DEF Vouched
<1>5. in \in DOMAIN writes[q] /\ writes[q][in] # Absent => Vouched(r, of, pc[q])
  BY <1>1, <1>2, <1>3 DEF BInv, Belonging
<1>6. CASE Visible(q, in) # Absent
  BY <1>2, <1>3, <1>4, <1>5, <1>6 DEF Visible
<1>7. CASE Visible(q, in) = Absent
  <2>1. Alters(current[q], in)
    <3> SUFFICES ASSUME ~Alters(current[q], in) PROVE FALSE
      OBVIOUS
    <3>1. Visible(q, in)' = Visible(q, in)
      BY <1>1, <1>3, EffectVisible
    <3> QED
      BY <1>2, <1>7, <3>1 DEF Visible
  <2>2. current[q].do = "insert"
    <3>1. current[q].do # "update"
      BY <1>7, <2>1, RowWritten
    <3>2. ASSUME current[q].do \in {"delete", "delete_where"} PROVE FALSE
      <4>1. Dropped(q)
        BY <3>2 DEF Effect, Looked, Tallied, Reloaded, Added, Changed, Committed
      <4>2. in \notin Locks(q)
        BY <1>7, <3>2 DEF Locks
      <4> DEFINE K == Locks(q) \ (IF current[q].do = "delete" THEN gone[q] ELSE {})
      <4>3. in \notin K /\ writes'[q] = Over([i \in K |-> Absent], writes[q])
        BY <4>1, <4>2 DEF Dropped
      <4> HIDE DEF K, in
      <4>4. in \in DOMAIN writes[q] /\ writes'[q][in] = writes[q][in]
        BY <1>2, <4>3 DEF Over, in
      <4> QED
        BY <1>2, <1>7, <4>4 DEF Visible, in
    <3> QED
      BY <2>1, <3>1, <3>2 DEF Alters, Writing
  <2>3. Adds(Statements(r, seen[q])[pc[q]], in)
    BY <1>1, <2>1, <2>2 DEF Adds, Alters
  <2>4. \E j \in Nat \ {0} : j < pc[q] /\ Ensures(r, of, j)
    BY <1>1, <2>3, Joining
  <2> QED
    BY <1>4, <2>4 DEF Vouched
<1> QED
  BY <1>6, <1>7

LEMMA StayingKept ==
  ASSUME Routed, BInv, NEW q \in Requests, Goes(q), Effect(q)
  PROVE  Staying(q)'
<1>1. /\ Open(q) /\ call'[q] = call[q] /\ overtaken'[q] = overtaken[q] /\ RInv
      /\ pc[q] \in 1..Len(Statements(call[q], seen[q]))
      /\ current[q] = Statements(call[q], seen[q])[pc[q]]
  BY Stepping DEF BInv
<1>2. ASSUME NEW k \in Rows, Lasting(call[q], k), db'[k] # Absent PROVE Here(q, k)'
  <2>1. CASE k \notin DOMAIN writes'[q]
    BY <1>2, <2>1 DEF Here, Visible
  <2>2. CASE k \in DOMAIN writes'[q]
    <3>1. db' = db
      BY <2>2, NotCommitted
    <3>2. Here(q, k)
      BY <1>1, <1>2, <3>1 DEF BInv, Staying
    <3>3. ~Drops(current[q], k)
      BY <1>1, <1>2 DEF Lasting
    <3> QED
      BY <1>1, <3>2, <3>3, EffectHere
  <2> QED
    BY <2>1, <2>2
<1> QED
  BY <1>1, <1>2 DEF Staying

LEMMA MembersHold ==
  ASSUME Routed
  PROVE  /\ Init => BInv
         /\ BInv /\ [Next]_vars => BInv'
<1>1. Init => BInv
  BY SureHold DEF Init, BInv, Open
<1>2. ASSUME BInv, [Next]_vars PROVE BInv'
  <2>1. Runnable /\ WInv /\ SInv'
    BY <1>2, RoutedRuns, SureHold DEF BInv, SInv, KInv, RInv
  <2>2. ASSUME NEW q \in Requests, Open(q)' PROVE (Belonging(q) /\ Staying(q))'
    <3>1. CASE Aside(q)
      <4>1. /\ pc'[q] = pc[q] /\ call'[q] = call[q] /\ writes'[q] = writes[q]
            /\ overtaken[q] \subseteq overtaken'[q]
            /\ \A k \in Rows : k \notin overtaken'[q] => db'[k] = db[k]
            /\ Belonging(q) /\ Staying(q)
        BY <1>2, <3>1 DEF Aside, Rows, BInv
      <4>2. Belonging(q)'
        <5> SUFFICES ASSUME NEW x \in Rooms, NEW u \in Users,
                            RoomMember(x, u) \in DOMAIN writes'[q],
                            writes'[q][RoomMember(x, u)] # Absent,
                            db'[RoomMember(x, u)] = Absent, RoomMember(x, u) \notin overtaken'[q]
                     PROVE  Vouched(call'[q], Membership(Home(x), u), pc'[q])
          BY DEF Belonging
        <5>1. db[RoomMember(x, u)] = Absent /\ RoomMember(x, u) \notin overtaken[q]
          BY <4>1, MemberKeys
        <5> QED
          BY <4>1, <5>1 DEF Belonging
      <4>3. Staying(q)'
        BY <4>1 DEF Staying, Here, Visible
      <4> QED
        BY <4>2, <4>3
    <3>2. CASE Arrives(q)
      BY <3>2 DEF Arrives, Belonging, Staying, Here, Visible, NoRows
    <3>3. CASE Goes(q) /\ Effect(q)
      BY <1>2, <3>3, BelongingKept, StayingKept
    <3> QED
      BY <1>2, <2>1, <2>2, <3>1, <3>2, <3>3, StepCases
  <2> QED
    BY <2>1, <2>2 DEF BInv
<1> QED
  BY <1>1, <1>2

\* When remove_workspace_member commits, the user's rows in the rooms are gone.
LEMMA RemovesMembers ==
  ASSUME NEW r, r.args.op = "remove_workspace_member", NEW x \in Rooms, Home(x) = r.args.ws
  PROVE  /\ Removes(r, RoomMember(x, r.args.user), 10)
         /\ \A s : \A i \in 1..Len(Statements(r, s)) : Statements(r, s)[i].do = "commit" => i = 12
<1> DEFINE c == r.args
           k == RoomMember(x, c.user)
           m == {RoomMember(y, c.user) : y \in RoomsOf(c.ws)}
<1>1. k \in m
  BY DEF RoomsOf
<1>2. ASSUME NEW s
      PROVE  /\ Drops(Statements(r, s)[10], k)
             /\ \A i \in 1..Len(Statements(r, s)) :
                  /\ Statements(r, s)[i].do # "insert"
                  /\ Statements(r, s)[i].do = "commit" => i = 12
  <2> DEFINE b == Statements(r, s)
             e == Delete(Membership(c.ws, c.user))
  <2>1. /\ Len(b) = 12 /\ \A j \in 1..9 : b[j].do \in {"select", "pass", "raise"}
        /\ b[10] = DeleteWhere(m) /\ b[11] = e /\ b[12] = Commit
    BY Removal
  <2>2. /\ DeleteWhere(m).keys = m /\ DeleteWhere(m).do = "delete_where" /\ e.do = "delete"
        /\ Commit.do = "commit"
    BY DEF DeleteWhere, Delete, Commit, Statement
  <2> HIDE DEF b, e, m, k
  <2>3. Drops(b[10], k)
    BY <1>1, <2>1, <2>2 DEF Drops
  <2>4. ASSUME NEW i \in 1..12 PROVE b[i].do # "insert" /\ (b[i].do = "commit" => i = 12)
    <3>1. i \in 1..9 \/ i = 10 \/ i = 11 \/ i = 12
      OBVIOUS
    <3>2. CASE i \in 1..9
      <4>1. b[i].do \in {"select", "pass", "raise"}
        BY <2>1, <3>2
      <4> QED
        BY <4>1
    <3>3. CASE i \in {10, 11, 12}
      BY <2>1, <2>2, <3>3
    <3> QED
      BY <3>1, <3>2, <3>3
  <2> QED
    BY <2>1, <2>3, <2>4 DEF b
<1> QED
  BY <1>2 DEF Removes

(***************************************************************************)
(* A member of a room is a member of its workspace, although no constraint *)
(* of the database says so: every endpoint that adds somebody to a room    *)
(* has made sure of the membership, and the only one that ends a           *)
(* membership ends those in the rooms with it, unless another request      *)
(* changed one of the two rows meanwhile.                                  *)
(***************************************************************************)
THEOREM MembersAreKnown ==
  ASSUME Routed PROVE Spec => MembersBelong
<1>1. ASSUME BInv, [Next]_vars, NEW q \in Requests, NEW x \in Rooms, NEW u \in Users, Commits(q),
             There(db', RoomMember(x, u)), ~There(db', Membership(Home(x), u)),
             ~(There(db, RoomMember(x, u)) /\ ~There(db, Membership(Home(x), u))),
             {RoomMember(x, u), Membership(Home(x), u)} \cap overtaken[q] = {}
      PROVE  FALSE
  <2> DEFINE in == RoomMember(x, u)
             of == Membership(Home(x), u)
             r == call[q]
  <2>1. in \in Rows /\ of \in Rows /\ in \in Keys /\ of \in Keys
    BY MemberKeys DEF Rows
  <2>2. /\ SInv /\ WInv /\ RInv /\ Open(q) /\ current[q].do = "commit"
        /\ db'[in] = Visible(q, in) /\ db'[of] = Visible(q, of)
    <3>1. SInv /\ WInv /\ RInv
      BY <1>1 DEF BInv, SInv, KInv, RInv
    <3> QED
      BY <1>1, <2>1, <3>1, CommittedRow
  <2>3. /\ current[q] = Statements(r, seen[q])[pc[q]] /\ pc[q] \in Nat
        /\ pc[q] \in 1..Len(Statements(r, seen[q]))
    BY <2>2, CurrentIs
  <2>4. r.args \in Calls
    BY <2>2, ArgsInCalls DEF WInv
  <2>5. Visible(q, in) # Absent /\ Visible(q, of) = Absent
    BY <1>1, <2>2 DEF There
  <2>6. ~Here(q, of) /\ ~Away(q, in)
    BY <1>1, <2>5 DEF Here, Away
  <2>7. CASE Lasting(r, of)
    <3>1. db[of] = Absent
      BY <1>1, <2>1, <2>2, <2>6, <2>7 DEF BInv, Staying
    <3>2. db[in] = Absent
      BY <1>1, <3>1 DEF There
    <3>3. in \in DOMAIN writes[q] /\ writes[q][in] # Absent
      BY <2>5, <3>2 DEF Visible
    <3>4. Vouched(r, of, pc[q])
      BY <1>1, <2>2, <3>2, <3>3 DEF BInv, Belonging
    <3>5. KnowsEnsured(q, of)
      BY <2>1, <2>2 DEF SInv
    <3> QED
      BY <2>3, <2>6, <2>7, <3>4, <3>5 DEF Vouched, KnowsEnsured
  <2>8. CASE r.args.op = "remove_workspace_member" /\ Home(x) = r.args.ws /\ u = r.args.user
    <3>1. Removes(r, in, 10) /\ pc[q] = 12
      BY <2>2, <2>3, <2>8, RemovesMembers
    <3>2. KnowsRemoved(q, in)
      BY <2>1, <2>2 DEF SInv
    <3>3. Away(q, in)
      BY <3>1, <3>2 DEF KnowsRemoved
    <3> QED
      BY <2>6, <3>3
  <2> QED
    BY <2>4, <2>7, <2>8, MembersLast
<1>2. ASSUME BInv, [Next]_vars
      PROVE  [\A q \in Requests, r \in Rooms, u \in Users :
                LET in == RoomMember(r, u)
                    of == Membership(Home(r), u)
                IN  /\ Commits(q)
                    /\ There(db', in) /\ ~There(db', of)
                    /\ ~(There(db, in) /\ ~There(db, of))
                    => {in, of} \cap overtaken[q] # {}]_vars
  BY <1>1, <1>2
<1> QED
  BY <1>2, MembersHold, PTL DEF Spec, MembersBelong
=============================================================================
