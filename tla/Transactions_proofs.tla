------------------------ MODULE Transactions_proofs ------------------------
(***************************************************************************)
(* Proofs about Transactions, for any endpoints: what separates requests   *)
(* from each other does not depend on the statements they execute.         *)
(***************************************************************************)
EXTENDS Transactions, WellFoundedInduction, TLAPS

Shaped ==
  /\ DOMAIN call = Requests /\ DOMAIN pc = Requests /\ DOMAIN current = Requests
  /\ DOMAIN seen = Requests /\ DOMAIN writes = Requests
  /\ DOMAIN overtaken = Requests /\ DOMAIN gone = Requests
IInv == Shaped /\ TypeOK

Ended(q) ==
  /\ pc'[q] = 0 /\ call'[q] = NoCall /\ seen'[q] = NoRows /\ writes'[q] = NoRows
Working(q, c, w) == pc'[q] # 0 /\ call'[q] = c /\ writes'[q] = w
\* What a step of q leaves alone.
OthersSame(q) ==
  \A p \in Requests \ {q} :
    /\ pc'[p] = pc[p] /\ call'[p] = call[p] /\ current'[p] = current[p]
    /\ seen'[p] = seen[p] /\ writes'[p] = writes[p]
ShapedSame ==
  /\ DOMAIN call' = Requests /\ DOMAIN pc' = Requests /\ DOMAIN current' = Requests
  /\ DOMAIN seen' = Requests /\ DOMAIN writes' = Requests
  /\ outcome' \in [Requests -> {"none", "ok", "refused", "crashed"}]
Outcome(q, c, w) ==
  /\ Ended(q) \/ Working(q, c, w)
  /\ OthersSame(q) /\ ShapedSame

LEMMA EndSteps ==
  ASSUME IInv, NEW q \in Requests, NEW result \in {"ok", "refused", "crashed"},
         End(q, result)
  PROVE  Ended(q) /\ OthersSame(q) /\ ShapedSame
BY DEF IInv, Shaped, TypeOK, End, Ended, OthersSame, ShapedSame

LEMMA FailSteps ==
  ASSUME IInv, NEW q \in Requests, NEW c, NEW error, Fail(q, c, error)
  PROVE  Ended(q) /\ OthersSame(q) /\ ShapedSame
<1>1. CASE error \in Endpoint(c, NoRows).catches
  <2>1. End(q, "refused")
    BY <1>1 DEF Fail
  <2> QED
    BY <2>1, EndSteps
<1>2. CASE error \notin Endpoint(c, NoRows).catches
  <2>1. End(q, "crashed")
    BY <1>2 DEF Fail
  <2> QED
    BY <2>1, EndSteps
<1> QED
  BY <1>1, <1>2

(* A call goes on with the writes it is given, or ends.                    *)
LEMMA ContinueSteps ==
  ASSUME IInv, NEW q \in Requests, NEW c, NEW s, NEW w, Continue(q, c, s, w)
  PROVE  Outcome(q, c, w)
<1>1. PICK b \in {Endpoint(c, s).body} : \E i \in {After(b, pc[q])} :
        IF i = 0 THEN End(q, "ok")
        ELSE IF b[i].do = "return" THEN End(q, "ok")
        ELSE IF b[i].do = "raise" THEN Fail(q, c, b[i].error)
        ELSE /\ call' = [call EXCEPT ![q] = c]
             /\ pc' = [pc EXCEPT ![q] = i]
             /\ current' = [current EXCEPT ![q] = b[i]]
             /\ seen' = [seen EXCEPT ![q] = s]
             /\ writes' = [writes EXCEPT ![q] = w]
             /\ UNCHANGED outcome
  BY DEF Continue
<1>2. PICK i \in {After(b, pc[q])} :
        \/ End(q, "ok")
        \/ Fail(q, c, b[i].error)
        \/ /\ i # 0
           /\ call' = [call EXCEPT ![q] = c]
           /\ pc' = [pc EXCEPT ![q] = i]
           /\ current' = [current EXCEPT ![q] = b[i]]
           /\ seen' = [seen EXCEPT ![q] = s]
           /\ writes' = [writes EXCEPT ![q] = w]
           /\ UNCHANGED outcome
  BY <1>1
<1>3. CASE End(q, "ok")
  BY <1>3, EndSteps DEF Outcome
<1>4. CASE Fail(q, c, b[i].error)
  BY <1>4, FailSteps DEF Outcome
<1>5. CASE /\ i # 0
           /\ call' = [call EXCEPT ![q] = c]
           /\ pc' = [pc EXCEPT ![q] = i]
           /\ current' = [current EXCEPT ![q] = b[i]]
           /\ seen' = [seen EXCEPT ![q] = s]
           /\ writes' = [writes EXCEPT ![q] = w]
           /\ UNCHANGED outcome
  BY <1>5 DEF IInv, Shaped, TypeOK, Outcome, Working, OthersSame, ShapedSame
<1> QED
  BY <1>2, <1>3, <1>4, <1>5

(* The bookkeeping of the other tasks: a deleted row is a committed row.   *)
LEMMA NoteSteps ==
  ASSUME IInv, NEW q \in Requests, NEW changed, NEW deleted, NEW reloaded,
         deleted \subseteq changed, Note(q, changed, deleted, reloaded)
  PROVE  /\ DOMAIN overtaken' = Requests /\ DOMAIN gone' = Requests
         /\ \A p \in Requests : gone'[p] \subseteq overtaken'[p]
         /\ \A p \in Requests : pc'[p] = 0 => overtaken'[p] = {}
BY DEF IInv, Shaped, TypeOK, Note

Apart(q, w) == \A p \in Requests \ {q} : DOMAIN writes[p] \cap DOMAIN w = {}

(* A step of q on its own rows keeps the invariant.                        *)
LEMMA StepKeeps ==
  ASSUME IInv, NEW q \in Requests, Open(q), NEW w, Outcome(q, call[q], w),
         Apart(q, w), NEW changed, NEW deleted, NEW reloaded,
         deleted \subseteq changed, Note(q, changed, deleted, reloaded),
         DOMAIN db' = Keys, family' = family, made' = made
  PROVE  IInv'
<1>1. Shaped'
  BY NoteSteps DEF Shaped, Outcome, ShapedSame
<1>2. DOMAIN NoRows = {}
  BY DEF NoRows
<1>3. ASSUME NEW p \in Requests
      PROVE  IF Open(p)' THEN call'[p].args \in family'
             ELSE /\ call'[p] = NoCall /\ seen'[p] = NoRows
                  /\ writes'[p] = NoRows /\ overtaken'[p] = {}
  <2>1. pc'[p] = 0 => overtaken'[p] = {}
    BY NoteSteps
  <2>2. CASE p = q
    BY <2>1, <2>2 DEF Outcome, Ended, Working, Open, IInv, TypeOK
  <2>3. CASE p # q
    BY <2>1, <2>3 DEF Outcome, OthersSame, Open, IInv, TypeOK
  <2> QED
    BY <2>2, <2>3
<1>4. ASSUME NEW p \in Requests \ {q}
      PROVE  DOMAIN writes'[p] \cap DOMAIN writes'[q] = {}
  <2>1. writes'[p] = writes[p] /\ (writes'[q] = NoRows \/ writes'[q] = w)
    BY DEF Outcome, OthersSame, Ended, Working
  <2> QED
    BY <1>2, <2>1 DEF Apart
<1>5. ASSUME NEW p \in Requests, NEW r \in Requests, p # r
      PROVE  DOMAIN writes'[p] \cap DOMAIN writes'[r] = {}
  <2>1. CASE p = q \/ r = q
    BY <1>4, <1>5, <2>1
  <2>2. CASE p # q /\ r # q
    <3>1. writes'[p] = writes[p] /\ writes'[r] = writes[r]
      BY <2>2 DEF Outcome, OthersSame
    <3> QED
      BY <1>5, <3>1 DEF IInv, TypeOK
  <2> QED
    BY <2>1, <2>2
<1>6. \A p \in Requests : gone'[p] \subseteq overtaken'[p]
  BY NoteSteps
<1>7. /\ DOMAIN db' = Keys /\ made' \in 0..MaxCalls
      /\ family' \in {x.calls : x \in Scenarios}
      /\ outcome' \in [Requests -> {"none", "ok", "refused", "crashed"}]
  BY DEF IInv, TypeOK, Outcome, ShapedSame
<1>8. TypeOK'
  BY <1>3, <1>5, <1>6, <1>7 DEF TypeOK
<1> QED
  BY <1>1, <1>8 DEF IInv

(* Where nobody holds a row of the statement, its writes stay apart.       *)
LEMMA UnlockedApart ==
  ASSUME IInv, NEW q \in Requests, Open(q), WaitsFor(q) = {},
         NEW new, NEW K, DOMAIN new = K, K \subseteq Locks(q)
  PROVE  Apart(q, Over(new, writes[q]))
<1>1. \A p \in Requests \ {q} : DOMAIN writes[p] \cap Locks(q) = {}
  BY DEF WaitsFor
<1>2. \A p \in Requests \ {q} : DOMAIN writes[p] \cap DOMAIN writes[q] = {}
  BY DEF IInv, TypeOK
<1>3. DOMAIN Over(new, writes[q]) = K \cup DOMAIN writes[q]
  BY DEF Over
<1> QED
  BY <1>1, <1>2, <1>3 DEF Apart

LEMMA OwnApart ==
  ASSUME IInv, NEW q \in Requests
  PROVE  Apart(q, writes[q]) /\ Apart(q, NoRows)
BY DEF IInv, TypeOK, Apart, NoRows

(* A statement that fails ends the call.                                   *)
LEMMA FailOutcome ==
  ASSUME IInv, NEW q \in Requests, NEW error, Fail(q, call[q], error)
  PROVE  Outcome(q, call[q], writes[q])
BY FailSteps DEF Outcome

-----------------------------------------------------------------------------
(* One lemma per action.                                                   *)

LEMMA ReadKeeps ==
  ASSUME IInv, NEW q \in Requests, Read(q) PROVE IInv'
<1>1. Open(q) /\ Outcome(q, call[q], writes[q])
  BY ContinueSteps DEF Read, Doing, GoOn
<1>2. Note(q, {}, {}, current[q].keys) /\ DOMAIN db' = Keys
  BY DEF Read, IInv, TypeOK
<1> QED
  BY <1>1, <1>2, OwnApart, StepKeeps DEF Read

LEMMA TallyKeeps ==
  ASSUME IInv, NEW q \in Requests, Tally(q) PROVE IInv'
<1>1. Open(q) /\ Outcome(q, call[q], writes[q])
  BY ContinueSteps DEF Tally, Doing, GoOn
<1>2. Note(q, {}, {}, {}) /\ DOMAIN db' = Keys
  BY DEF Tally, IInv, TypeOK
<1> QED
  BY <1>1, <1>2, OwnApart, StepKeeps DEF Tally

LEMMA ReloadKeeps ==
  ASSUME IInv, NEW q \in Requests, Reload(q) PROVE IInv'
<1>1. Open(q) /\ Note(q, {}, {}, {}) /\ DOMAIN db' = Keys
  BY DEF Reload, Doing, IInv, TypeOK
<1>2. Fail(q, call[q], current[q].error) \/ GoOn(q, seen[q], writes[q])
  BY DEF Reload
<1>3. Outcome(q, call[q], writes[q])
  BY <1>2, FailOutcome, ContinueSteps DEF GoOn
<1> QED
  BY <1>1, <1>3, OwnApart, StepKeeps DEF Reload

LEMMA AddKeeps ==
  ASSUME IInv, NEW q \in Requests, Add(q) PROVE IInv'
<1> DEFINE new == [k \in current[q].keys |-> current[q].row]
<1>1. Open(q) /\ Note(q, {}, {}, current[q].keys) /\ DOMAIN db' = Keys
  BY DEF Add, Doing, IInv, TypeOK
<1>2. CASE Fail(q, call[q], current[q].error)
  BY <1>1, <1>2, FailOutcome, OwnApart, StepKeeps DEF Add
<1>3. CASE GoOn(q, seen[q], Over(new, writes[q]))
  <2>1. DOMAIN new = current[q].keys /\ current[q].keys = Locks(q)
    BY DEF Add, Doing, Locks
  <2>2. Apart(q, Over(new, writes[q]))
    BY <1>1, <2>1, UnlockedApart DEF Add
  <2>3. Outcome(q, call[q], Over(new, writes[q]))
    BY <1>3, ContinueSteps DEF GoOn
  <2> QED
    BY <1>1, <2>2, <2>3, StepKeeps DEF Add
<1> QED
  BY <1>2, <1>3 DEF Add

LEMMA ChangeKeeps ==
  ASSUME IInv, NEW q \in Requests, Change(q) PROVE IInv'
<1> DEFINE new == [k \in current[q].keys |-> Over(current[q].row, Visible(q, k))]
<1>1. Open(q) /\ Note(q, {}, {}, {}) /\ DOMAIN db' = Keys
  BY DEF Change, Doing, IInv, TypeOK
<1>2. CASE Fail(q, call[q], current[q].error)
  BY <1>1, <1>2, FailOutcome, OwnApart, StepKeeps DEF Change
<1>3. CASE /\ \A k \in current[q].keys : Visible(q, k) # Absent
           /\ GoOn(q, seen[q], Over(new, writes[q]))
  <2>1. DOMAIN new = current[q].keys /\ current[q].keys \subseteq Locks(q)
    BY <1>3 DEF Change, Doing, Locks
  <2>2. Apart(q, Over(new, writes[q]))
    BY <1>1, <2>1, UnlockedApart DEF Change
  <2>3. Outcome(q, call[q], Over(new, writes[q]))
    BY <1>3, ContinueSteps DEF GoOn
  <2> QED
    BY <1>1, <2>2, <2>3, StepKeeps DEF Change
<1> QED
  BY <1>2, <1>3 DEF Change

LEMMA DropKeeps ==
  ASSUME IInv, NEW q \in Requests, Drop(q) PROVE IInv'
<1> DEFINE K == Locks(q) \ (IF current[q].do = "delete" THEN gone[q] ELSE {})
           new == [k \in K |-> Absent]
<1>1. Open(q) /\ Note(q, {}, {}, {}) /\ DOMAIN db' = Keys
  BY DEF Drop, IInv, TypeOK
<1>2. DOMAIN new = K /\ K \subseteq Locks(q)
  OBVIOUS
<1>3. Apart(q, Over(new, writes[q]))
  <2> HIDE DEF K, new
  <2> QED
    BY <1>1, <1>2, UnlockedApart DEF Drop
<1>4. Outcome(q, call[q], Over(new, writes[q]))
  BY ContinueSteps DEF Drop, GoOn
<1> HIDE DEF K, new
<1> QED
  BY <1>1, <1>3, <1>4, StepKeeps DEF Drop

LEMMA CommitKeeps ==
  ASSUME IInv, NEW q \in Requests, CommitTransaction(q) PROVE IInv'
<1> DEFINE changed == DOMAIN writes[q]
           deleted == {k \in DOMAIN writes[q] : writes[q][k] = Absent}
<1>1. Open(q) /\ Outcome(q, call[q], NoRows)
  BY ContinueSteps DEF CommitTransaction, Doing, GoOn
<1>2. Note(q, changed, deleted, {}) /\ deleted \subseteq changed /\ DOMAIN db' = Keys
  BY DEF CommitTransaction
<1> HIDE DEF changed, deleted
<1> QED
  BY <1>1, <1>2, OwnApart, StepKeeps DEF CommitTransaction

LEMMA CancelKeeps ==
  ASSUME IInv, NEW q \in Requests, Cancel(q) PROVE IInv'
<1>1. Open(q)
  <2>1. PICK p \in Requests : p \in WaitsFor(q)
    BY DEF Cancel, Deadlocked
  <2> QED
    BY <2>1 DEF WaitsFor
<1>2. Outcome(q, call[q], writes[q])
  BY FailOutcome DEF Cancel
<1>3. Note(q, {}, {}, {}) /\ DOMAIN db' = Keys
  BY DEF Cancel, IInv, TypeOK
<1> QED
  BY <1>1, <1>2, <1>3, OwnApart, StepKeeps DEF Cancel

(* A call that arrives finds its task with nothing on its hands.           *)
LEMMA BeginKeeps ==
  ASSUME IInv, NEW q \in Requests, NEW c \in family, Begin(q, c) PROVE IInv'
<1> DEFINE new == [id |-> made + 1, args |-> c]
<1>1. Outcome(q, new, NoRows)
  BY ContinueSteps DEF Begin
<1>2. /\ pc[q] = 0 /\ overtaken[q] = {} /\ made' \in 0..MaxCalls
      /\ DOMAIN db' = Keys /\ family' = family
      /\ overtaken' = overtaken /\ gone' = gone
  BY ScenariosAssumption DEF Begin, IInv, TypeOK, Open
<1>3. Shaped'
  BY <1>1, <1>2 DEF Outcome, ShapedSame, IInv, Shaped
<1>4. ASSUME NEW p \in Requests
      PROVE  IF Open(p)' THEN call'[p].args \in family'
             ELSE /\ call'[p] = NoCall /\ seen'[p] = NoRows
                  /\ writes'[p] = NoRows /\ overtaken'[p] = {}
  <2>1. CASE p = q
    BY <1>1, <1>2, <2>1 DEF Outcome, Ended, Working, Open
  <2>2. CASE p # q
    BY <1>1, <1>2, <2>2 DEF Outcome, OthersSame, Open, IInv, TypeOK
  <2> QED
    BY <2>1, <2>2
<1>5. DOMAIN NoRows = {} /\ writes'[q] = NoRows
  BY <1>1 DEF NoRows, Outcome, Ended, Working
<1>6. ASSUME NEW p \in Requests, NEW r \in Requests, p # r
      PROVE  DOMAIN writes'[p] \cap DOMAIN writes'[r] = {}
  <2>1. CASE p = q \/ r = q
    BY <1>5, <2>1
  <2>2. CASE p # q /\ r # q
    <3>1. writes'[p] = writes[p] /\ writes'[r] = writes[r]
      BY <1>1, <2>2 DEF Outcome, OthersSame
    <3> QED
      BY <1>6, <3>1 DEF IInv, TypeOK
  <2> QED
    BY <2>1, <2>2
<1>7. /\ outcome' \in [Requests -> {"none", "ok", "refused", "crashed"}]
      /\ family' \in {x.calls : x \in Scenarios}
      /\ \A p \in Requests : gone'[p] \subseteq overtaken'[p]
  BY <1>1, <1>2 DEF Outcome, ShapedSame, IInv, TypeOK
<1>8. TypeOK'
  BY <1>2, <1>4, <1>6, <1>7 DEF TypeOK
<1> QED
  BY <1>3, <1>8 DEF IInv

-----------------------------------------------------------------------------
LEMMA InitHolds == Init => IInv
<1> SUFFICES ASSUME Init PROVE IInv
  OBVIOUS
<1>1. Shaped
  BY DEF Init, Shaped
<1>2. \A q \in Requests : ~Open(q)
  BY DEF Init, Open
<1>3. /\ DOMAIN db = Keys /\ made \in 0..MaxCalls
      /\ family \in {x.calls : x \in Scenarios}
  BY ScenariosAssumption DEF Init
<1>4. DOMAIN NoRows = {}
  BY DEF NoRows
<1>5. TypeOK
  BY <1>2, <1>3, <1>4 DEF Init, TypeOK
<1> QED
  BY <1>1, <1>5 DEF IInv

LEMMA StepHolds == IInv /\ [Next]_vars => IInv'
<1> SUFFICES ASSUME IInv, [Next]_vars PROVE IInv'
  OBVIOUS
<1>1. CASE UNCHANGED vars
  BY <1>1 DEF vars, IInv, Shaped, TypeOK, Open
<1>2. ASSUME NEW q \in Requests, Run(q) PROVE IInv'
  BY <1>2, ReadKeeps, TallyKeeps, ReloadKeeps, AddKeeps, ChangeKeeps, DropKeeps,
     CommitKeeps, CancelKeeps DEF Run
<1>3. ASSUME NEW q \in Requests, NEW c \in family, Begin(q, c) PROVE IInv'
  BY <1>3, BeginKeeps
<1> QED
  BY <1>1, <1>2, <1>3 DEF Next

(***************************************************************************)
(* Requests stay apart, whatever the endpoints do: idle tasks hold nothing *)
(* and no two requests have written the same uncommitted row.              *)
(***************************************************************************)
THEOREM RequestsApart == Spec => []TypeOK
<1>1. IInv => TypeOK
  BY DEF IInv
<1> QED
  BY <1>1, InitHolds, StepHolds, PTL DEF Spec

(***************************************************************************)
(* A row that a request has written changes only by its own commit.        *)
(***************************************************************************)
THEOREM RowLocksHold == Spec => LocksHold
<1>1. ASSUME IInv, [Next]_vars
      PROVE  [\A q \in Requests : \A k \in DOMAIN writes[q] \cap Keys :
                db'[k] # db[k] => Doing(q, "commit") /\ db'[k] = writes[q][k]]_vars
  <2> SUFFICES ASSUME NEW q \in Requests, NEW k \in DOMAIN writes[q] \cap Keys,
                      db'[k] # db[k]
               PROVE  Doing(q, "commit") /\ db'[k] = writes[q][k]
    OBVIOUS
  <2>1. PICK p \in Requests : CommitTransaction(p)
    <3>1. db' # db
      OBVIOUS
    <3> QED
      BY <1>1, <3>1 DEF Next, Run, Read, Tally, Reload, Add, Change, Drop, Cancel,
         Begin, vars
  <2>2. k \in DOMAIN writes[p] /\ db'[k] = writes[p][k]
    BY <2>1 DEF CommitTransaction
  <2>3. p = q
    BY <1>1, <2>2 DEF IInv, TypeOK
  <2> QED
    BY <2>1, <2>2, <2>3 DEF CommitTransaction
<1> QED
  BY <1>1, InitHolds, StepHolds, PTL DEF Spec, LocksHold
-----------------------------------------------------------------------------
(* Where a request stands in the body of its endpoint, and what a step of  *)
(* it or of another does.                                                  *)

IsBody(b) == Len(b) \in Nat /\ b = [i \in 1..Len(b) |-> b[i]]
Calls == UNION {x.calls : x \in Scenarios}
Runnable == \A r, s : r.args \in Calls => IsBody(Endpoint(r, s).body)
Body(q) == Endpoint(call[q], seen[q]).body
Control == {"pass", "return", "raise"}
Placed ==
  \A q \in Requests : Open(q) =>
    /\ pc[q] \in 1..Len(Body(q)) /\ current[q] = Body(q)[pc[q]]
    /\ current[q].do \notin Control
WInv == IInv /\ Placed

LEMMA AfterFirst ==
  ASSUME NEW b, IsBody(b), NEW p \in Nat, After(b, p) # 0
  PROVE  LET i == After(b, p) IN
         /\ i \in p + 1..Len(b) /\ b[i].do # "pass"
         /\ \A j \in p + 1..i - 1 : b[j].do = "pass"
<1> DEFINE rest == {i \in p + 1 .. Len(b) : b[i].do # "pass"}
<1>1. rest # {} /\ After(b, p) = CHOOSE i \in rest : \A j \in rest : i <= j
  BY DEF After
<1>2. \E i \in rest : \A j \in rest : i <= j
  <2>1. rest \subseteq Nat
    BY DEF IsBody
  <2>2. PICK i \in rest : \A j \in rest : ~(<<j, i>> \in OpToRel(<, Nat))
    <3> HIDE DEF rest
    <3> QED BY <1>1, <2>1, NatLessThanWellFounded, WFMin
  <2>3. \A j \in rest : ~(j < i)
    BY <2>1, <2>2 DEF OpToRel
  <2> QED BY <2>1, <2>3
<1>3. After(b, p) \in rest /\ \A j \in rest : After(b, p) <= j
  <2> HIDE DEF rest
  <2> QED BY <1>1, <1>2
<1> QED
  BY <1>3 DEF IsBody

LEMMA ContinueGoes ==
  ASSUME Runnable, WInv, NEW q \in Requests, NEW c, c.args \in Calls, NEW s, NEW w,
         Continue(q, c, s, w), Open(q)'
  PROVE  LET b == Endpoint(c, s).body IN
         /\ call'[q] = c /\ seen'[q] = s /\ writes'[q] = w
         /\ pc'[q] \in pc[q] + 1..Len(b) /\ current'[q] = b[pc'[q]]
         /\ current'[q].do \notin Control
         /\ \A i \in pc[q] + 1..pc'[q] - 1 : b[i].do = "pass"
<1> DEFINE b == Endpoint(c, s).body
           i == After(b, pc[q])
<1>1. pc[q] \in Nat
  BY DEF WInv, Placed, Open
<1>2. IsBody(b)
  BY DEF Runnable
<1>3. i # 0 => i \in pc[q] + 1..Len(b) /\ b[i].do # "pass" /\ \A j \in pc[q] + 1..i - 1 : b[j].do = "pass"
  <2> HIDE DEF b
  <2> QED BY <1>1, <1>2, AfterFirst
<1>4. ~End(q, "ok") /\ ~Fail(q, c, b[i].error)
  <2>1. \A result \in {"ok", "refused", "crashed"} : ~End(q, result)
    BY EndSteps DEF WInv, Ended, Open
  <2> QED BY FailSteps, <2>1 DEF WInv, Ended, Open
<1>5. /\ i # 0 /\ b[i].do # "return" /\ b[i].do # "raise"
      /\ call' = [call EXCEPT ![q] = c]
      /\ pc' = [pc EXCEPT ![q] = i]
      /\ current' = [current EXCEPT ![q] = b[i]]
      /\ seen' = [seen EXCEPT ![q] = s]
      /\ writes' = [writes EXCEPT ![q] = w]
  <2> HIDE DEF i, b
  <2>1. \E bb \in {b} : \E ii \in {i} :
        IF ii = 0 THEN End(q, "ok")
        ELSE IF bb[ii].do = "return" THEN End(q, "ok")
        ELSE IF bb[ii].do = "raise" THEN Fail(q, c, bb[ii].error)
        ELSE /\ call' = [call EXCEPT ![q] = c]
             /\ pc' = [pc EXCEPT ![q] = ii]
             /\ current' = [current EXCEPT ![q] = bb[ii]]
             /\ seen' = [seen EXCEPT ![q] = s]
             /\ writes' = [writes EXCEPT ![q] = w]
             /\ UNCHANGED outcome
    BY DEF Continue, i, b
  <2> QED BY <1>4, <2>1
<1>6. /\ call'[q] = c /\ seen'[q] = s /\ writes'[q] = w /\ pc'[q] = i /\ current'[q] = b[i]
  BY <1>5 DEF WInv, IInv, Shaped
<1> QED
  <2> HIDE DEF i, b
  <2>1. b[i].do \notin Control
    BY <1>3, <1>5 DEF Control
  <2>2. /\ call'[q] = c /\ seen'[q] = s /\ writes'[q] = w
         /\ pc'[q] \in pc[q] + 1..Len(b) /\ current'[q] = b[pc'[q]]
         /\ current'[q].do \notin Control
         /\ \A j \in pc[q] + 1..pc'[q] - 1 : b[j].do = "pass"
    BY <1>3, <1>5, <1>6, <2>1
  <2> QED BY <2>2 DEF b
(* q has done its statement and goes on with the next one that stands.     *)
Goes(q) ==
  LET b == Body(q)' IN
  /\ Open(q) /\ call'[q] = call[q] /\ overtaken'[q] = overtaken[q]
  /\ pc'[q] \in pc[q] + 1..Len(b) /\ current'[q] = b[pc'[q]]
  /\ current'[q].do \notin Control
  /\ \A i \in pc[q] + 1..pc'[q] - 1 : b[i].do = "pass"

Looked(q) ==
  /\ current[q].do = "select" /\ db' = db /\ writes'[q] = writes[q]
  /\ seen'[q] = Over([k \in current[q].keys |-> Visible(q, k)], seen[q])
Tallied(q) ==
  LET found == [k \in current[q].keys |-> Visible(q, k)] IN
  /\ current[q].do = "count" /\ db' = db /\ writes'[q] = writes[q]
  /\ seen'[q] = Over([n \in {Counted(k) : k \in current[q].keys} |-> found[n[2]]], seen[q])
Reloaded(q) ==
  /\ current[q].do = "refresh" /\ db' = db /\ writes'[q] = writes[q] /\ seen'[q] = seen[q]
Added(q) ==
  /\ current[q].do = "insert" /\ db' = db /\ seen'[q] = seen[q]
  /\ \A k \in current[q].keys : Visible(q, k) = Absent
  /\ writes'[q] = Over([k \in current[q].keys |-> current[q].row], writes[q])
Changed(q) ==
  /\ current[q].do = "update" /\ db' = db /\ seen'[q] = seen[q]
  /\ \A k \in current[q].keys : Visible(q, k) # Absent
  /\ writes'[q] = Over([k \in current[q].keys |-> Over(current[q].row, Visible(q, k))],
                       writes[q])
Dropped(q) ==
  LET K == Locks(q) \ (IF current[q].do = "delete" THEN gone[q] ELSE {}) IN
  /\ current[q].do \in {"delete", "delete_where"} /\ db' = db /\ seen'[q] = seen[q]
  /\ writes'[q] = Over([k \in K |-> Absent], writes[q])
Committed(q) ==
  LET w == writes[q] IN
  /\ current[q].do = "commit" /\ seen'[q] = seen[q] /\ writes'[q] = NoRows
  /\ db' = [k \in Keys |-> IF k \in DOMAIN w THEN w[k] ELSE db[k]]
Effect(q) ==
  \/ Looked(q) \/ Tallied(q) \/ Reloaded(q) \/ Added(q) \/ Changed(q) \/ Dropped(q)
  \/ Committed(q)

Arrives(q) ==
  LET b == Body(q)' IN
  /\ ~Open(q) /\ call'[q].args \in family /\ call'[q].id = made + 1
  /\ seen'[q] = NoRows /\ writes'[q] = NoRows /\ overtaken'[q] = {} /\ db' = db
  /\ pc'[q] \in 1..Len(b) /\ current'[q] = b[pc'[q]] /\ current'[q].do \notin Control
  /\ \A i \in 1..pc'[q] - 1 : b[i].do = "pass"

(* What a step of another task does to q.                                  *)
Aside(q) ==
  /\ Open(q) /\ pc'[q] = pc[q] /\ call'[q] = call[q] /\ current'[q] = current[q]
  /\ seen'[q] = seen[q] /\ writes'[q] = writes[q]
  /\ overtaken[q] \subseteq overtaken'[q]
  /\ \A k \in Keys : db'[k] # db[k] => k \in overtaken'[q]

LEMMA ArgsInCalls ==
  ASSUME IInv, NEW q \in Requests, Open(q)
  PROVE  call[q].args \in Calls
BY DEF IInv, TypeOK, Calls

LEMMA NoteOwn ==
  ASSUME NEW q \in Requests, NEW a, NEW b, NEW c, Note(q, a, b, c), Open(q)'
  PROVE  overtaken'[q] = overtaken[q]
BY DEF Note, Open

(* A continuation of the call of q, in the terms above.                    *)
LEMMA GoOnGoes ==
  ASSUME Runnable, WInv, NEW q \in Requests, Open(q), NEW s, NEW w, GoOn(q, s, w),
         NEW a, NEW b, NEW c, Note(q, a, b, c), Open(q)'
  PROVE  Goes(q) /\ seen'[q] = s /\ writes'[q] = w
<1>1. call[q].args \in Calls
  BY ArgsInCalls DEF WInv
<1>2. overtaken'[q] = overtaken[q]
  BY NoteOwn
<1> QED
  BY <1>1, <1>2, ContinueGoes DEF GoOn, Goes, Body

LEMMA NoFail ==
  ASSUME IInv, NEW q \in Requests, NEW c, NEW error, Open(q)'
  PROVE  ~Fail(q, c, error)
BY FailSteps DEF Ended, Open

LEMMA RunEffect ==
  ASSUME Runnable, WInv, NEW q \in Requests, Run(q), Open(q)'
  PROVE  Goes(q) /\ Effect(q)
<1> USE DEF Doing
<1>0. IInv /\ \A e : ~Fail(q, call[q], e)
  BY NoFail DEF WInv
<1>1. CASE Read(q)
  <2>1. Goes(q) /\ Looked(q)
    BY <1>1, GoOnGoes DEF Read, Looked
  <2> QED BY <2>1 DEF Effect
<1>2. CASE Tally(q)
  <2>1. Goes(q) /\ Tallied(q)
    BY <1>2, GoOnGoes DEF Tally, Tallied
  <2> QED BY <2>1 DEF Effect
<1>3. CASE Reload(q)
  <2>1. GoOn(q, seen[q], writes[q]) /\ Note(q, {}, {}, {}) /\ Open(q)
    BY <1>0, <1>3 DEF Reload
  <2>2. Goes(q) /\ Reloaded(q)
    BY <1>3, <2>1, GoOnGoes DEF Reload, Reloaded
  <2> QED BY <2>2 DEF Effect
<1>4. CASE Add(q)
  <2>1. /\ GoOn(q, seen[q], Over([k \in current[q].keys |-> current[q].row], writes[q]))
        /\ Note(q, {}, {}, current[q].keys) /\ Open(q)
        /\ \A k \in current[q].keys : Visible(q, k) = Absent
    BY <1>0, <1>4 DEF Add
  <2>2. Goes(q) /\ Added(q)
    BY <1>4, <2>1, GoOnGoes DEF Add, Added
  <2> QED BY <2>2 DEF Effect
<1>5. CASE Change(q)
  <2>1. /\ GoOn(q, seen[q], Over([k \in current[q].keys |->
                                   Over(current[q].row, Visible(q, k))], writes[q]))
        /\ Note(q, {}, {}, {}) /\ Open(q)
        /\ \A k \in current[q].keys : Visible(q, k) # Absent
    BY <1>0, <1>5 DEF Change
  <2>2. Goes(q) /\ Changed(q)
    BY <1>5, <2>1, GoOnGoes DEF Change, Changed
  <2> QED BY <2>2 DEF Effect
<1>6. CASE Drop(q)
  <2>1. Goes(q) /\ Dropped(q)
    BY <1>6, GoOnGoes DEF Drop, Dropped
  <2> QED BY <2>1 DEF Effect
<1>7. CASE CommitTransaction(q)
  <2>1. Goes(q) /\ Committed(q)
    BY <1>7, GoOnGoes DEF CommitTransaction, Committed
  <2> QED BY <2>1 DEF Effect
<1>8. CASE Cancel(q)
  BY <1>0, <1>8 DEF Cancel
<1> QED
  BY <1>1, <1>2, <1>3, <1>4, <1>5, <1>6, <1>7, <1>8 DEF Run

LEMMA RunAside ==
  ASSUME WInv, NEW p \in Requests, Run(p), NEW q \in Requests \ {p}, Open(q)
  PROVE  Aside(q)
<1>1. IInv /\ Open(p)
  <2>1. CASE Cancel(p)
    <3>1. PICK r \in Requests : r \in WaitsFor(p)
      BY <2>1 DEF Cancel, Deadlocked
    <3> QED
      BY <3>1 DEF WaitsFor, WInv
  <2> QED
    BY <2>1 DEF Run, Read, Tally, Reload, Add, Change, Drop, CommitTransaction, Doing, WInv
<1>2. OthersSame(p)
  BY <1>1, ContinueSteps, FailSteps DEF Run, Read, Tally, Reload, Add, Change, Drop,
     CommitTransaction, Cancel, GoOn, Outcome
<1>3. \E changed, deleted, reloaded :
        /\ Note(p, changed, deleted, reloaded)
        /\ \A k \in Keys : db'[k] # db[k] => k \in changed
  BY DEF Run, Read, Tally, Reload, Add, Change, Drop, CommitTransaction, Cancel
<1>4. /\ overtaken[q] \subseteq overtaken'[q]
      /\ \A k \in Keys : db'[k] # db[k] => k \in overtaken'[q]
  BY <1>2, <1>3 DEF Note, OthersSame, Open
<1> QED
  BY <1>2, <1>4 DEF Aside, OthersSame

LEMMA BeginAside ==
  ASSUME WInv, NEW p \in Requests, NEW c \in family, Begin(p, c),
         NEW q \in Requests \ {p}, Open(q)
  PROVE  Aside(q)
<1>1. OthersSame(p)
  BY ContinueSteps DEF Begin, Outcome, WInv
<1> QED
  BY <1>1 DEF Aside, OthersSame, Begin

LEMMA BeginArrives ==
  ASSUME Runnable, WInv, NEW q \in Requests, NEW c \in family, Begin(q, c), Open(q)'
  PROVE  Arrives(q)
<1> DEFINE r == [id |-> made + 1, args |-> c]
<1>1. r.args \in Calls
  BY DEF WInv, IInv, TypeOK, Calls
<1>2. pc[q] = 0 /\ overtaken[q] = {} /\ ~Open(q)
  BY DEF Begin, WInv, IInv, TypeOK, Open
<1>3. Continue(q, r, NoRows, NoRows)
  BY DEF Begin
<1>4. LET b == Endpoint(r, NoRows).body IN
         /\ call'[q] = r /\ seen'[q] = NoRows /\ writes'[q] = NoRows
         /\ pc'[q] \in pc[q] + 1..Len(b) /\ current'[q] = b[pc'[q]]
         /\ current'[q].do \notin Control
         /\ \A i \in pc[q] + 1..pc'[q] - 1 : b[i].do = "pass"
  <2> HIDE DEF r
  <2> QED
    BY <1>1, <1>3, ContinueGoes
<1>5. call'[q].args = c /\ call'[q].id = made + 1
  BY <1>4
<1> QED
  <2> HIDE DEF r
  <2> QED
  BY <1>2, <1>4, <1>5 DEF Begin, Arrives, Body

(* The three ways a request at work comes about.                           *)
LEMMA StepCases ==
  ASSUME Runnable, WInv, [Next]_vars, NEW q \in Requests, Open(q)'
  PROVE  Aside(q) \/ Arrives(q) \/ (Run(q) /\ Goes(q) /\ Effect(q))
<1>1. CASE UNCHANGED vars
  BY <1>1 DEF vars, Open, Aside
<1>2. ASSUME NEW p \in Requests, Run(p)
      PROVE  Aside(q) \/ (Run(q) /\ Goes(q) /\ Effect(q))
  <2>1. CASE p = q
    BY <1>2, <2>1, RunEffect
  <2>2. CASE p # q /\ Open(q)
    BY <1>2, <2>2, RunAside
  <2>3. CASE p # q /\ ~Open(q)
    <3>1. OthersSame(p)
      BY <1>2, ContinueSteps, FailSteps DEF Run, Read, Tally, Reload, Add, Change, Drop,
         CommitTransaction, Cancel, GoOn, Outcome, WInv
    <3> QED
      BY <2>3, <3>1 DEF OthersSame, Open
  <2> QED
    BY <2>1, <2>2, <2>3
<1>3. ASSUME NEW p \in Requests, NEW c \in family, Begin(p, c)
      PROVE  Aside(q) \/ Arrives(q)
  <2>1. CASE p = q
    BY <1>3, <2>1, BeginArrives
  <2>2. CASE p # q /\ Open(q)
    BY <1>3, <2>2, BeginAside
  <2>3. CASE p # q /\ ~Open(q)
    <3>1. OthersSame(p)
      BY <1>3, ContinueSteps DEF Begin, Outcome, WInv
    <3> QED
      BY <2>3, <3>1 DEF OthersSame, Open
  <2> QED
    BY <2>1, <2>2, <2>3
<1> QED
  BY <1>1, <1>2, <1>3 DEF Next

LEMMA PlacedHolds ==
  /\ Init => WInv
  /\ Runnable /\ WInv /\ [Next]_vars => WInv'
<1>1. Init => WInv
  BY InitHolds DEF Init, WInv, Placed, Open
<1>2. ASSUME Runnable, WInv, [Next]_vars, NEW q \in Requests, Open(q)'
      PROVE  (/\ pc[q] \in 1..Len(Body(q)) /\ current[q] = Body(q)[pc[q]]
              /\ current[q].do \notin Control)'
  <2>1. CASE Aside(q)
    BY <1>2, <2>1 DEF Aside, WInv, Placed, Body
  <2>2. CASE Arrives(q)
    BY <1>2, <2>2 DEF Arrives, Body
  <2>3. CASE Goes(q)
    BY <1>2, <2>3 DEF Goes, Body, WInv, Placed
  <2> QED
    BY <1>2, <2>1, <2>2, <2>3, StepCases
<1>3. ASSUME Runnable, WInv, [Next]_vars PROVE WInv'
  BY <1>2, <1>3, StepHolds DEF WInv, Placed
<1> QED
  BY <1>1, <1>3

(* The step at which a request leaves a commit is that commit.             *)
LEMMA CommitActs ==
  ASSUME WInv, [Next]_vars, NEW q \in Requests, Doing(q, "commit"), pc'[q] # pc[q]
  PROVE  CommitTransaction(q)
<1>1. Open(q) /\ ~Deadlocked(q)
  <2>1. Locks(q) = {}
    BY DEF Doing, Locks
  <2>2. WaitsFor(q) = {}
    BY <2>1 DEF WaitsFor
  <2> QED
    BY <2>2 DEF Doing, Deadlocked
<1>2. ASSUME NEW p \in Requests, Run(p) PROVE CommitTransaction(q)
  <2>1. p = q
    BY <1>1, <1>2, RunAside DEF Aside
  <2> QED
    BY <1>1, <1>2, <2>1 DEF Run, Read, Tally, Reload, Add, Change, Drop, Cancel, Doing
<1>3. ASSUME NEW p \in Requests, NEW c \in family, Begin(p, c) PROVE FALSE
  <2>1. p = q
    BY <1>1, <1>3, BeginAside DEF Aside
  <2> QED
    BY <1>1, <1>3, <2>1 DEF Begin, Open
<1> QED
  BY <1>2, <1>3 DEF Next, vars

(* The statement j that q crosses on its way was passed over, if it was    *)
(* not the one q has done.                                                 *)
LEMMA Crossed ==
  ASSUME NEW q, Goes(q), NEW j \in Nat, pc[q] <= j, j < pc'[q], pc[q] \in Nat
  PROVE  pc[q] = j \/ (Body(q)[j])'.do = "pass"
BY DEF Goes
====
