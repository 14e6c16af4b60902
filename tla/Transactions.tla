---------------------------- MODULE Transactions ----------------------------
(***************************************************************************)
(* Request handlers of the API over one PostgreSQL database.               *)
(*                                                                         *)
(* Every endpoint is a straight sequence of database statements: the       *)
(* services await one statement after the other, and between two awaits    *)
(* any other request may run.  This module executes such sequences, one    *)
(* statement per step, the way the code uses the database: READ COMMITTED  *)
(* transactions, row locks held to the end of the transaction, unique      *)
(* constraints, deadlock detection, and SQLAlchemy's session (a handler    *)
(* decides by the rows as it last selected them, an UPDATE of a vanished   *)
(* row raises StaleDataError, a DELETE of one only warns).  The sequences  *)
(* themselves are in WorkspaceService, MessageService and AccountService.  *)
(*                                                                         *)
(* A row is known by its key, the table with the columns of the unique     *)
(* constraint it falls under, so that a unique violation is an INSERT of a *)
(* key that is taken.                                                      *)
(***************************************************************************)
EXTENDS Integers, Sequences, FiniteSets

CONSTANTS Keys,            \* keys of all rows there can be
          NoCall,          \* the call of an idle server task
          Requests,        \* server tasks, each handles one call at a time
          Scenarios,       \* databases to start from, the number of calls they
                           \* are the result of and the calls clients go on with
          MaxCalls,        \* bound on the calls of a behaviour
          Endpoint(_, _)   \* call and values seen |-> statements, errors caught

VARIABLES db,         \* committed rows
          family,     \* the calls clients make in this behaviour
          made,       \* calls made so far
          call,       \* the call a task handles
          pc,         \* number of its current statement, 0 when idle
          current,    \* that statement
          seen,       \* rows as the session has loaded them
          writes,     \* rows written and not committed, which it has locked
          overtaken,  \* keys others have committed since the call began
          gone,       \* loaded rows others have deleted since
          outcome     \* how the task's last call ended

ASSUME ScenariosAssumption ==
  /\ MaxCalls \in Nat
  /\ \A x \in Scenarios : DOMAIN x.db = Keys /\ x.made \in 0..MaxCalls

vars == <<db, family, made, call, pc, current, seen, writes, overtaken, gone, outcome>>
-----------------------------------------------------------------------------
(* Statements.                                                             *)

\* In place of a row that does not exist.
Absent == [absent |-> TRUE]

Statement(do, keys, row, error) ==
  [do |-> do, keys |-> keys, row |-> row, error |-> error]

Select(K) == Statement("select", K, Absent, "")
\* A count(*), apart from the objects the session holds of the same rows.
Count(K) == Statement("count", K, Absent, "")
Counted(k) == <<"counted", k>>
InsertOr(k, row, error) == Statement("insert", {k}, row, error)
Insert(k, row) == InsertOr(k, row, "IntegrityError")
InsertAll(K, row) == Statement("insert", K, row, "IntegrityError")
Update(k, change) == Statement("update", {k}, change, "StaleDataError")
DeleteWhere(K) == Statement("delete_where", K, Absent, "")
Delete(k) == Statement("delete", {k}, Absent, "")
Refresh(k) == Statement("refresh", {k}, Absent, "InvalidRequestError")
Commit == Statement("commit", {}, Absent, "")
Return == Statement("return", {}, Absent, "")
Pass == Statement("pass", {}, Absent, "")
\* Several rows, one flush.
UpdateAll(K, change) ==
  IF K = {} THEN Pass ELSE Statement("update", K, change, "StaleDataError")
Raise(error) == Statement("raise", {}, Absent, error)
Require(cond, error) == IF cond THEN Pass ELSE Raise(error)

NoRows == [k \in {} |-> Absent]
Row(s, k) == IF k \in DOMAIN s THEN s[k] ELSE Absent
Exists(s, k) == Row(s, k) # Absent
Has(s, k, f, v) == IF Exists(s, k) THEN Row(s, k)[f] = v ELSE FALSE
\* The attribute events of SQLAlchemy: no UPDATE when nothing changes.
Assign(s, k, change) ==
  IF \A f \in DOMAIN change : Has(s, k, f, change[f]) THEN Pass
  ELSE Update(k, change)
-----------------------------------------------------------------------------
Open(q) == pc[q] # 0
Doing(q, do) == Open(q) /\ current[q].do = do

\* What a statement of q sees: committed rows and its own writes.
Visible(q, k) == IF k \in DOMAIN writes[q] THEN writes[q][k] ELSE db[k]
Over(new, old) ==
  [k \in DOMAIN new \cup DOMAIN old |->
     IF k \in DOMAIN new THEN new[k] ELSE old[k]]

\* Rows a statement must lock: an INSERT its key, a change the rows it finds.
Locks(q) ==
  CASE current[q].do = "insert" -> current[q].keys
    [] current[q].do \in {"update", "delete", "delete_where"} ->
         {k \in current[q].keys : Visible(q, k) # Absent}
    [] OTHER -> {}
WaitsFor(q) ==
  IF Open(q) THEN {p \in Requests \ {q} : DOMAIN writes[p] \cap Locks(q) # {}}
  ELSE {}
Deadlocked(q) ==
  \E S \in SUBSET Requests :
    /\ q \in S
    /\ \A p \in S : /\ \E r \in S : r \in WaitsFor(p)
                    /\ \E r \in S : p \in WaitsFor(r)

\* Mutant: the session of a request that ends is not closed.
EndWithoutRollback(q, result) ==
  /\ call' = [call EXCEPT ![q] = NoCall]
  /\ pc' = [pc EXCEPT ![q] = 0]
  /\ current' = [current EXCEPT ![q] = Pass]
  /\ seen' = [seen EXCEPT ![q] = NoRows]
  /\ outcome' = [outcome EXCEPT ![q] = result]
  /\ UNCHANGED writes

\* The task is free again; an exception the endpoint does not catch is a 500.
End(q, result) ==
  /\ call' = [call EXCEPT ![q] = NoCall]
  /\ pc' = [pc EXCEPT ![q] = 0]
  /\ current' = [current EXCEPT ![q] = Pass]
  /\ seen' = [seen EXCEPT ![q] = NoRows]
  /\ writes' = [writes EXCEPT ![q] = NoRows]
  /\ outcome' = [outcome EXCEPT ![q] = result]
Fail(q, c, error) ==
  End(q, IF error \in Endpoint(c, NoRows).catches THEN "refused"
         ELSE "crashed")

\* The next statement after number p of body b, if any.
After(b, p) ==
  LET rest == {i \in p + 1 .. Len(b) : b[i].do # "pass"} IN
  IF rest = {} THEN 0 ELSE CHOOSE i \in rest : \A j \in rest : i <= j

\* Call c goes on with its next statement, with values loaded and writes w
\* uncommitted.
Continue(q, c, loaded, w) ==
  \E s \in {loaded} : \E b \in {Endpoint(c, s).body} : \E i \in {After(b, pc[q])} :
    IF i = 0 THEN End(q, "ok")
    ELSE IF b[i].do = "return" THEN End(q, "ok")
    ELSE IF b[i].do = "raise" THEN Fail(q, c, b[i].error)
    ELSE /\ call' = [call EXCEPT ![q] = c]
         /\ pc' = [pc EXCEPT ![q] = i]
         /\ current' = [current EXCEPT ![q] = b[i]]
         /\ seen' = [seen EXCEPT ![q] = s]
         /\ writes' = [writes EXCEPT ![q] = w]
         /\ UNCHANGED outcome
GoOn(q, s, w) == Continue(q, call[q], s, w)

\* What the other tasks, and q itself, must know of a step of q later on.
Note(q, changed, deleted, reloaded) ==
  /\ overtaken' = [p \in Requests |->
       IF pc'[p] = 0 THEN {} ELSE IF p = q THEN overtaken[p]
       ELSE overtaken[p] \cup changed]
  /\ gone' = [p \in Requests |->
       IF pc'[p] = 0 THEN {} ELSE IF p = q THEN gone[p] \ reloaded
       ELSE gone[p] \cup deleted]
-----------------------------------------------------------------------------
Init ==
  /\ \E x \in Scenarios : db = x.db /\ family = x.calls /\ made = x.made
  /\ call = [q \in Requests |-> NoCall]
  /\ pc = [q \in Requests |-> 0]
  /\ current = [q \in Requests |-> Pass]
  /\ seen = [q \in Requests |-> NoRows]
  /\ writes = [q \in Requests |-> NoRows]
  /\ overtaken = [q \in Requests |-> {}]
  /\ gone = [q \in Requests |-> {}]
  /\ outcome = [q \in Requests |-> "none"]

\* A call arrives.  Its number stands for the ids (uuid4) it generates.
Begin(q, c) ==
  /\ pc[q] = 0 /\ made < MaxCalls
  /\ made' = made + 1
  /\ Continue(q, [id |-> made + 1, args |-> c], NoRows, NoRows)
  /\ UNCHANGED <<db, family, overtaken, gone>>

Read(q) ==
  LET K == current[q].keys IN
  /\ Doing(q, "select")
  /\ GoOn(q, Over([k \in K |-> Visible(q, k)], seen[q]), writes[q])
  /\ Note(q, {}, {}, K)
  /\ UNCHANGED <<db, family, made>>

Tally(q) ==
  LET found == [k \in current[q].keys |-> Visible(q, k)]
      K == {Counted(k) : k \in current[q].keys}
  IN
  /\ Doing(q, "count")
  /\ GoOn(q, Over([n \in K |-> found[n[2]]], seen[q]), writes[q])
  /\ Note(q, {}, {}, {})
  /\ UNCHANGED <<db, family, made>>

\* session.refresh: the row is read again by its id, for the answer.  It
\* stands only where the row may have been deleted in between.
Reload(q) ==
  LET K == current[q].keys IN
  /\ Doing(q, "refresh")
  /\ IF \E k \in K : Visible(q, k) = Absent \/ k \in gone[q]
     THEN Fail(q, call[q], current[q].error)
     ELSE GoOn(q, seen[q], writes[q])
  /\ Note(q, {}, {}, {})
  /\ UNCHANGED <<db, family, made>>

\* INSERT waits while another transaction has written its key.
Add(q) ==
  LET st == current[q] IN
  /\ Doing(q, "insert") /\ WaitsFor(q) = {}
  /\ IF \E k \in st.keys : Visible(q, k) # Absent
     THEN Fail(q, call[q], st.error)
     ELSE GoOn(q, seen[q], Over([k \in st.keys |-> st.row], writes[q]))
  /\ Note(q, {}, {}, st.keys)
  /\ UNCHANGED <<db, family, made>>

\* UPDATE of the columns that changed, by id, once nobody else has the row.
Change(q) ==
  LET st == current[q] IN
  /\ Doing(q, "update") /\ WaitsFor(q) = {}
  /\ IF \E k \in st.keys : Visible(q, k) = Absent \/ k \in gone[q]
     THEN Fail(q, call[q], st.error)
     ELSE GoOn(q, seen[q], Over([k \in st.keys |-> Over(st.row, Visible(q, k))],
                                writes[q]))
  /\ Note(q, {}, {}, {})
  /\ UNCHANGED <<db, family, made>>

\* DELETE: of the rows found, or of one row by its id.
Drop(q) ==
  LET st == current[q]
      K == Locks(q) \ (IF st.do = "delete" THEN gone[q] ELSE {})
  IN  /\ Open(q) /\ st.do \in {"delete", "delete_where"} /\ WaitsFor(q) = {}
      /\ GoOn(q, seen[q], Over([k \in K |-> Absent], writes[q]))
      /\ Note(q, {}, {}, {})
      /\ UNCHANGED <<db, family, made>>

CommitTransaction(q) ==
  LET w == writes[q] IN
  /\ Doing(q, "commit")
  /\ db' = [k \in Keys |-> IF k \in DOMAIN w THEN w[k] ELSE db[k]]
  /\ GoOn(q, seen[q], NoRows)
  /\ Note(q, DOMAIN w, {k \in DOMAIN w : w[k] = Absent}, {})
  /\ UNCHANGED <<family, made>>

\* PostgreSQL cancels one of the transactions that wait for each other.
Cancel(q) ==
  /\ Deadlocked(q)
  /\ Fail(q, call[q], "DeadlockDetected")
  /\ Note(q, {}, {}, {})
  /\ UNCHANGED <<db, family, made>>

Run(q) == Read(q) \/ Tally(q) \/ Reload(q) \/ Add(q) \/ Change(q) \/ Drop(q)
            \/ CommitTransaction(q) \/ Cancel(q)
Next == \E q \in Requests : Run(q) \/ \E c \in family : Begin(q, c)
Spec == Init /\ [][Next]_vars
\* A server task that can go on does.
FairSpec == Spec /\ \A q \in Requests : WF_vars(Run(q))
-----------------------------------------------------------------------------
\* Types, and what keeps requests apart: an idle task holds no row and no
\* memory of its last call (get_db_session closes the session), one that works
\* does so for a call of a client, and no two requests have written a row that
\* is not committed.
TypeOK ==
  /\ DOMAIN db = Keys /\ made \in 0..MaxCalls
  /\ family \in {x.calls : x \in Scenarios}
  /\ outcome \in [Requests -> {"none", "ok", "refused", "crashed"}]
  /\ \A q \in Requests :
       /\ gone[q] \subseteq overtaken[q]
       /\ IF Open(q) THEN call[q].args \in family
          ELSE /\ call[q] = NoCall /\ seen[q] = NoRows
               /\ writes[q] = NoRows /\ overtaken[q] = {}
  /\ \A p, q \in Requests : p # q => DOMAIN writes[p] \cap DOMAIN writes[q] = {}

\* A row a request has written keeps its committed value until the request
\* commits or ends: what others read of it meanwhile is what they would have
\* read before (READ COMMITTED with row locks).
LocksHold ==
  [][\A q \in Requests : \A k \in DOMAIN writes[q] \cap Keys :
       db'[k] # db[k] => Doing(q, "commit") /\ db'[k] = writes[q][k]]_vars

\* Every request ends, those that wait for each other included.
RequestsEnd == \A q \in Requests : Open(q) ~> ~Open(q)
=============================================================================
