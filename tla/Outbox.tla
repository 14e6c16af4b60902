------------------------------- MODULE Outbox -------------------------------
(***************************************************************************)
(* The outbox publisher (services/outbox.py, workers/outbox_publisher.py). *)
(*                                                                         *)
(* Each round of a worker is one transaction: it loads a batch of pending  *)
(* rows, publishes them to Redis one after the other while it changes its  *)
(* own copies of the rows, and writes the copies back in one commit.  Rows *)
(* are not locked: two workers may hold the same row, and a worker that    *)
(* dies before its commit has published rows the table still calls         *)
(* pending.                                                                *)
(*                                                                         *)
(* Rows are numbered in the order of created_at.  Rows of one room become  *)
(* visible in that order (OutboxOrder and AppendOnly of EventLog).         *)
(***************************************************************************)
EXTENDS Naturals, FiniteSets, Sequences

CONSTANTS
  RowCount,     \* number of event_outbox rows
  RoomOf,       \* event_outbox.room_id, a function from rows to rooms
  Workers,      \* publisher processes
  BatchSize,    \* settings.outbox_publisher_batch_size
  MaxAttempts,  \* settings.outbox_publisher_max_attempts
  MaxCrashes    \* bound on the crashes of workers

OutboxRows == 1 .. RowCount

ASSUME OutboxAssumption ==
  /\ RowCount \in Nat
  /\ DOMAIN RoomOf = OutboxRows
  /\ BatchSize \in Nat \ {0}
  /\ MaxAttempts \in Nat \ {0}
  /\ MaxCrashes \in Nat

VARIABLES
  enqueued,  \* committed rows
  status,    \* event_outbox.status
  attempts,  \* event_outbox.attempts
  sent,      \* rows Redis has accepted at least once
  todo,      \* rows of each worker's batch it has not tried yet
  copy,      \* each worker's changed copies of rows: status and attempts
  busy,      \* which workers are in a round
  crashes    \* crashes so far

table == <<enqueued, status, attempts>>
vars == <<table, sent, todo, copy, busy, crashes>>

Statuses == {"pending", "published", "failed"}
Copies == [status : Statuses, attempts : 0 .. MaxAttempts]
NoCopy == [r \in {} |-> r]

Pending == {r \in enqueued : status[r] = "pending"}

-----------------------------------------------------------------------------
(* list_pending_outbox: the oldest rows of S, in order.  next_attempt_at   *)
(* is never set, so every pending row is due.                              *)
Rank(r, S) == Cardinality({s \in S : s <= r})
Oldest(S) ==
  [i \in {n \in 1 .. BatchSize : n <= Cardinality(S)} |->
     CHOOSE r \in S : Rank(r, S) = i]

(* Seeded faults: newest first; rows of any status; no row twice.          *)
NewestBatch == LET s == Oldest(Pending) IN [i \in 1 .. Len(s) |-> s[Len(s) + 1 - i]]
AnyStatusBatch == Oldest({r \in enqueued : status[r] # "failed"})
UntriedBatch == Oldest({r \in Pending : attempts[r] = 0})

PendingBatch == Oldest(Pending)

Init ==
  /\ enqueued = {}
  /\ status = [r \in OutboxRows |-> "pending"]
  /\ attempts = [r \in OutboxRows |-> 0]
  /\ sent = {}
  /\ todo = [p \in Workers |-> <<>>]
  /\ copy = [p \in Workers |-> NoCopy]
  /\ busy = [p \in Workers |-> FALSE]
  /\ crashes = 0

(* A handler's transaction commits (EventLog).                             *)
Enqueue(r) ==
  /\ r \notin enqueued
  /\ \A s \in 1 .. r - 1 : RoomOf[s] = RoomOf[r] => s \in enqueued
  /\ enqueued' = enqueued \cup {r}
  /\ UNCHANGED <<status, attempts, sent, todo, copy, busy, crashes>>

(* A round with nothing to publish commits nothing and sleeps.             *)
SelectBatch(p) ==
  /\ ~busy[p]
  /\ PendingBatch # <<>>
  /\ busy' = [busy EXCEPT ![p] = TRUE]
  /\ todo' = [todo EXCEPT ![p] = PendingBatch]
  /\ copy' = [copy EXCEPT ![p] =
       [r \in {PendingBatch[i] : i \in 1 .. Len(PendingBatch)} |->
          [status |-> "pending", attempts |-> attempts[r]]]]
  /\ UNCHANGED <<table, sent, crashes>>

Tried(p, r, outcome) ==
  /\ busy[p] /\ todo[p] # <<>> /\ r = Head(todo[p])
  /\ todo' = [todo EXCEPT ![p] = Tail(@)]
  /\ copy' = [copy EXCEPT ![p][r] =
       [status |-> outcome, attempts |-> @.attempts + 1]]
  /\ UNCHANGED <<table, busy, crashes>>

(* Seeded faults: an exception does not keep the row from being marked     *)
(* published; a failed attempt is not counted.                             *)
StatusIgnoringFailure(n) == "published"
StatusAlwaysRetry(n) == "pending"

(* The status after a failed attempt, `n` counting it.                     *)
StatusAfterFailure(n) == IF n >= MaxAttempts THEN "failed" ELSE "pending"

PublishOk(p, r) ==
  /\ Tried(p, r, "published")
  /\ sent' = sent \cup {r}

(* publish() raises: Redis is away, or it took the message and the reply   *)
(* was lost.  The loop goes on with the next row.                          *)
PublishFails(p, r) ==
  /\ r \in DOMAIN copy[p]
  /\ Tried(p, r, StatusAfterFailure(copy[p][r].attempts + 1))
  /\ sent' \in {sent, sent \cup {r}}

(* Seeded fault: the commit writes every column of the loaded rows.        *)
FullWriteback(p, r) == copy[p][r].status

(* The commit updates the columns the worker changed: attempts, and status *)
(* unless it left the row pending.                                         *)
WrittenStatus(p, r) ==
  IF copy[p][r].status = "pending" THEN status[r] ELSE copy[p][r].status

CommitBatch(p) ==
  /\ busy[p] /\ todo[p] = <<>>
  /\ status' = [r \in OutboxRows |->
                  IF r \in DOMAIN copy[p] THEN WrittenStatus(p, r) ELSE status[r]]
  /\ attempts' = [r \in OutboxRows |->
                    IF r \in DOMAIN copy[p] THEN copy[p][r].attempts ELSE attempts[r]]
  /\ copy' = [copy EXCEPT ![p] = NoCopy]
  /\ busy' = [busy EXCEPT ![p] = FALSE]
  /\ UNCHANGED <<enqueued, sent, todo, crashes>>

(* The process dies, or its commit fails and the loop exits; the container *)
(* starts it again.                                                        *)
Crash(p) ==
  /\ busy[p] /\ crashes < MaxCrashes
  /\ crashes' = crashes + 1
  /\ todo' = [todo EXCEPT ![p] = <<>>]
  /\ copy' = [copy EXCEPT ![p] = NoCopy]
  /\ busy' = [busy EXCEPT ![p] = FALSE]
  /\ UNCHANGED <<table, sent>>

Work(p) ==
  \/ SelectBatch(p)
  \/ \E r \in OutboxRows : PublishOk(p, r) \/ PublishFails(p, r)
  \/ CommitBatch(p)

Next ==
  \/ \E r \in OutboxRows : Enqueue(r)
  \/ \E p \in Workers : Work(p) \/ Crash(p)

Spec == Init /\ [][Next]_vars

(* run_forever: some worker keeps working.  Nothing is assumed about Redis. *)
FairSpec == Spec /\ WF_vars(\E p \in Workers : Work(p))

-----------------------------------------------------------------------------
(* Type invariant. *)
TypeOK ==
  /\ enqueued \subseteq OutboxRows
  /\ status \in [OutboxRows -> Statuses]
  /\ attempts \in [OutboxRows -> 0 .. MaxAttempts]
  /\ sent \subseteq OutboxRows
  /\ todo \in [Workers -> Seq(OutboxRows)]
  /\ copy \in [Workers -> UNION {[S -> Copies] : S \in SUBSET OutboxRows}]
  /\ busy \in [Workers -> BOOLEAN]
  /\ crashes \in 0 .. MaxCrashes

(* Reliable: no crash, failure or overlap of workers makes the table call  *)
(* a row published that Redis never accepted (commit after publish).       *)
PublishedWasSent ==
  \A r \in OutboxRows : status[r] = "published" => r \in sent

(* A row that left `pending` never returns to it, although a worker with   *)
(* an older copy may commit later.                                         *)
NeverPendingAgain ==
  [][\A r \in OutboxRows : status[r] # "pending" => status'[r] # "pending"]_vars

(* Once a row is published and no worker still holds it, no worker takes   *)
(* it up again: duplicates come only from overlapping or interrupted       *)
(* rounds.                                                                 *)
Held(r) == \E p \in Workers : r \in DOMAIN copy[p]
NoLateDuplicate ==
  [][\A r \in OutboxRows : status[r] = "published" /\ ~Held(r) => ~Held(r)']_vars

(* The table or some worker knows of an attempt at row r.                  *)
AttemptSeen(r) ==
  attempts[r] > 0 \/ \E p \in Workers :
                       r \in DOMAIN copy[p] /\ copy[p][r].attempts > 0

(* A row overtakes an older row of its room only if an attempt to send the *)
(* older one had failed: neither batches, nor overlapping workers, nor     *)
(* restarts reorder a room while Redis answers.                            *)
OvertakenOnlyAfterAttempt ==
  [][\A r \in sent' \ sent : \A s \in 1 .. r - 1 :
       RoomOf[s] = RoomOf[r] => s \in sent \/ AttemptSeen(s)]_vars

(* policies.py, DURABLE_DELIVERY: the lane of room events is ordered.      *)
RoomOrder ==
  [][\A r \in sent' \ sent : \A s \in 1 .. r - 1 :
       RoomOf[s] = RoomOf[r] => s \in sent]_vars

(* Every row is settled, published or given up, even while Redis is away:  *)
(* rows that keep failing do not block the ones behind them for ever.      *)
EveryRowSettles ==
  \A r \in OutboxRows : r \in enqueued ~> status[r] # "pending"

-----------------------------------------------------------------------------
(***************************************************************************)
(* The inductive invariant.  A worker's batch is sorted, its untried rows  *)
(* are unchanged copies, its other rows have been tried; a row that can be *)
(* tried has an attempt left; a row that is not pending was tried once.    *)
(***************************************************************************)
InTodo(p, r) == \E i \in 1 .. Len(todo[p]) : todo[p][i] = r

TodoSorted ==
  \A p \in Workers : \A i, j \in 1 .. Len(todo[p]) :
    i < j => todo[p][i] < todo[p][j]

TodoUntried ==
  \A p \in Workers : \A i \in 1 .. Len(todo[p]) :
    todo[p][i] \in DOMAIN copy[p] /\ copy[p][todo[p][i]].status = "pending"

RestTried ==
  \A p \in Workers : \A r \in DOMAIN copy[p] : InTodo(p, r) \/ copy[p][r].attempts > 0

AttemptLeft ==
  /\ \A r \in OutboxRows : status[r] = "pending" => attempts[r] < MaxAttempts
  /\ \A p \in Workers : \A r \in DOMAIN copy[p] :
       copy[p][r].status = "pending" => copy[p][r].attempts < MaxAttempts

SettledTried == \A r \in OutboxRows : status[r] # "pending" => attempts[r] > 0

CopyWasSent ==
  \A p \in Workers : \A r \in DOMAIN copy[p] : copy[p][r].status = "published" => r \in sent

(* Rows become visible in the order of their room (Enqueue); of a row in a *)
(* batch, the older rows of the room are in the batch or settled.          *)
EnqueuedInOrder ==
  \A r \in enqueued : \A s \in 1 .. r - 1 : RoomOf[s] = RoomOf[r] => s \in enqueued

OlderKnown ==
  \A p \in Workers : \A r \in DOMAIN copy[p] : \A s \in 1 .. r - 1 :
    RoomOf[s] = RoomOf[r] => s \in DOMAIN copy[p] \/ status[s] # "pending"

IInv ==
  /\ TypeOK /\ TodoSorted /\ TodoUntried /\ RestTried /\ AttemptLeft
  /\ SettledTried /\ PublishedWasSent /\ CopyWasSent
  /\ EnqueuedInOrder /\ OlderKnown

=============================================================================
