------------------------------ MODULE EventLog ------------------------------
(***************************************************************************)
(* Allocation of sequence numbers for durable events (services/message.py, *)
(* services/read_state.py, services/outbox.py, models/event.py).           *)
(*                                                                         *)
(* Every handler that changes a room - create_message, create_bot_message, *)
(* update_message, delete_message, add_reaction, remove_reaction and       *)
(* update_room_read_state - runs in one database transaction and publishes *)
(* its change the same way: it reads max(room_event_seq) and then          *)
(* max(workspace_event_seq), adds an Event carrying both values plus one,  *)
(* flushes the INSERT, adds the outbox row and commits.  The two reads and *)
(* the INSERT are separate statements of a READ COMMITTED transaction, so  *)
(* other transactions commit between them; what protects the numbering is  *)
(* the pair of unique constraints on table events.                         *)
(***************************************************************************)
EXTENDS Naturals

CONSTANTS
  Rooms,        \* rooms.id
  Workspaces,   \* workspaces.id
  WorkspaceOf,  \* rooms.workspace_id, a function from rooms to workspaces
  Requests,     \* handler invocations; each writes at most one event
  MaxTime       \* bound on the wall clock

ASSUME EventLogAssumption ==
  /\ WorkspaceOf \in [Rooms -> Workspaces]
  /\ MaxTime \in Nat

VARIABLES
  events,  \* committed rows of table events, joined with their outbox row
  stage,   \* how far each request has got
  target,  \* the room each request writes to (the handler's input)
  rseq,    \* room_event_seq computed by each request
  wseq,    \* workspace_event_seq computed by each request
  stamp,   \* event_outbox.created_at computed by each request
  clock    \* the wall clock, shared by the API processes

vars == <<events, stage, target, rseq, wseq, stamp, clock>>

Running == {"started", "room_seq_read", "seqs_read",
            "room_key_claimed", "flushed", "enqueued"}
Finished == {"committed", "conflict", "aborted"}
Stages == {"waiting"} \cup Running \cup Finished

Row == [id : Requests, room : Rooms, room_event_seq : Nat \ {0},
        workspace_event_seq : Nat \ {0}, enqueued_at : Nat]

-----------------------------------------------------------------------------
(* Queries.  coalesce(max(s), 0) over the committed rows a statement sees. *)

MaxSeq(S) == IF S = {} THEN 0 ELSE CHOOSE n \in S : \A m \in S : m <= n

RoomEvents(r) == {e \in events : e.room = r}
WorkspaceEvents(w) == {e \in events : WorkspaceOf[e.room] = w}

RoomSeqs(r) == {e.room_event_seq : e \in RoomEvents(r)}
WorkspaceSeqs(w) == {e.workspace_event_seq : e \in WorkspaceEvents(w)}

TargetWorkspace(q) == WorkspaceOf[target[q]]

(* Seeded fault: a failed transaction that is never rolled back.           *)
HoldsRoomKeyUntilReset(q) ==
  stage[q] \in {"room_key_claimed", "flushed", "enqueued", "conflict"}

(***************************************************************************)
(* Index entries of an uncommitted INSERT.  PostgreSQL adds the row to the *)
(* unique indexes one after the other, so a request waiting for the second *)
(* index already blocks others on the first.                               *)
(***************************************************************************)
HoldsRoomKey(q) == stage[q] \in {"room_key_claimed", "flushed", "enqueued"}
HoldsWorkspaceKey(q) == stage[q] \in {"flushed", "enqueued"}

(* Seeded fault: an empty room counts from zero.                           *)
RoomHeadFromZero(r) == IF RoomSeqs(r) = {} THEN 0 - 1 ELSE MaxSeq(RoomSeqs(r))

(* Seeded faults: numbers handed out to open transactions count as used,   *)
(* as they would with a database sequence or a dirty read.                 *)
ReservedRoomHead(r) ==
  MaxSeq(RoomSeqs(r)
           \cup {rseq[q] : q \in {p \in Requests : HoldsRoomKey(p) /\ target[p] = r}})
ReservedWorkspaceHead(w) ==
  MaxSeq(WorkspaceSeqs(w)
           \cup {wseq[q] : q \in {p \in Requests : /\ HoldsWorkspaceKey(p)
                                                  /\ TargetWorkspace(p) = w}})

RoomHead(r) == MaxSeq(RoomSeqs(r))
WorkspaceHead(w) == MaxSeq(WorkspaceSeqs(w))

(* Seeded fault: the constraint is missing.                                *)
Unconstrained(q) == FALSE

RoomKeyTaken(q) == rseq[q] \in RoomSeqs(target[q])
WorkspaceKeyTaken(q) == wseq[q] \in WorkspaceSeqs(TargetWorkspace(q))

RoomKeyPending(q) ==
  \E p \in Requests \ {q} :
    HoldsRoomKey(p) /\ target[p] = target[q] /\ rseq[p] = rseq[q]
WorkspaceKeyPending(q) ==
  \E p \in Requests \ {q} :
    /\ HoldsWorkspaceKey(p)
    /\ TargetWorkspace(p) = TargetWorkspace(q)
    /\ wseq[p] = wseq[q]

-----------------------------------------------------------------------------
Init ==
  /\ events = {}
  /\ stage = [q \in Requests |-> "waiting"]
  /\ target \in [Requests -> Rooms]
  /\ rseq = [q \in Requests |-> 0]
  /\ wseq = [q \in Requests |-> 0]
  /\ stamp = [q \in Requests |-> 0]
  /\ clock = 0

Advance(q, from, to) ==
  /\ stage[q] = from
  /\ stage' = [stage EXCEPT ![q] = to]

(* Access checks pass and the handler's own rows are written (not here).   *)
Start(q) ==
  /\ Advance(q, "waiting", "started")
  /\ UNCHANGED <<events, target, rseq, wseq, stamp, clock>>

ReadRoomSeq(q) ==
  /\ Advance(q, "started", "room_seq_read")
  /\ rseq' = [rseq EXCEPT ![q] = RoomHead(target[q]) + 1]
  /\ UNCHANGED <<events, target, wseq, stamp, clock>>

ReadWorkspaceSeq(q) ==
  /\ Advance(q, "room_seq_read", "seqs_read")
  /\ wseq' = [wseq EXCEPT ![q] = WorkspaceHead(TargetWorkspace(q)) + 1]
  /\ UNCHANGED <<events, target, rseq, stamp, clock>>

(***************************************************************************)
(* The flush.  A key held by another open transaction makes the INSERT     *)
(* wait (the action is disabled); a committed key fails it.                *)
(***************************************************************************)
ClaimRoomKey(q) ==
  /\ Advance(q, "seqs_read", "room_key_claimed")
  /\ ~RoomKeyTaken(q)
  /\ ~RoomKeyPending(q)
  /\ UNCHANGED <<events, target, rseq, wseq, stamp, clock>>

ClaimWorkspaceKey(q) ==
  /\ Advance(q, "room_key_claimed", "flushed")
  /\ ~WorkspaceKeyTaken(q)
  /\ ~WorkspaceKeyPending(q)
  /\ UNCHANGED <<events, target, rseq, wseq, stamp, clock>>

(* Seeded fault: giving up on a key that is only pending (a lock timeout). *)
UniqueViolationNoWait(q) ==
  /\ stage[q] = "seqs_read" /\ (RoomKeyTaken(q) \/ RoomKeyPending(q))
  /\ stage' = [stage EXCEPT ![q] = "conflict"]
  /\ UNCHANGED <<events, target, rseq, wseq, stamp, clock>>

(* IntegrityError: no handler catches it, the session rolls back.          *)
UniqueViolation(q) ==
  /\ \/ stage[q] = "seqs_read" /\ RoomKeyTaken(q)
     \/ stage[q] = "room_key_claimed" /\ WorkspaceKeyTaken(q)
  /\ stage' = [stage EXCEPT ![q] = "conflict"]
  /\ UNCHANGED <<events, target, rseq, wseq, stamp, clock>>

(* enqueue_event_outbox; created_at is taken when the row is flushed.      *)
EnqueueOutbox(q) ==
  /\ Advance(q, "flushed", "enqueued")
  /\ stamp' = [stamp EXCEPT ![q] = clock]
  /\ UNCHANGED <<events, target, rseq, wseq, clock>>

NewRow(q) ==
  [id |-> q, room |-> target[q], room_event_seq |-> rseq[q],
   workspace_event_seq |-> wseq[q], enqueued_at |-> stamp[q]]

Commit(q) ==
  /\ Advance(q, "enqueued", "committed")
  /\ events' = events \cup {NewRow(q)}
  /\ UNCHANGED <<target, rseq, wseq, stamp, clock>>

(* The process dies or loses its connection: the transaction rolls back.   *)
Abort(q) ==
  /\ stage[q] \in Running
  /\ stage' = [stage EXCEPT ![q] = "aborted"]
  /\ UNCHANGED <<events, target, rseq, wseq, stamp, clock>>

Tick ==
  /\ clock < MaxTime
  /\ clock' = clock + 1
  /\ UNCHANGED <<events, stage, target, rseq, wseq, stamp>>

Handle(q) ==
  \/ ReadRoomSeq(q)
  \/ ReadWorkspaceSeq(q)
  \/ ClaimRoomKey(q)
  \/ ClaimWorkspaceKey(q)
  \/ UniqueViolation(q)
  \/ EnqueueOutbox(q)
  \/ Commit(q)

Next == (\E q \in Requests : Start(q) \/ Handle(q) \/ Abort(q)) \/ Tick

Spec == Init /\ [][Next]_vars

(* A started handler keeps running; its lock waits end when holders do.    *)
FairSpec == Spec /\ \A q \in Requests : WF_vars(Handle(q))

-----------------------------------------------------------------------------
(* Type invariant. *)
TypeOK ==
  /\ events \subseteq Row
  /\ stage \in [Requests -> Stages]
  /\ target \in [Requests -> Rooms]
  /\ rseq \in [Requests -> Nat]
  /\ wseq \in [Requests -> Nat]
  /\ stamp \in [Requests -> Nat]
  /\ clock \in Nat

(* The numbers of a room, and of a workspace, are 1..n with no hole, in    *)
(* whatever order handlers overlap, fail and commit (next_room_event_seq,  *)
(* next_workspace_event_seq): a client can detect a missed event.          *)
RoomGapFree(r) == RoomSeqs(r) = 1 .. RoomHead(r)
WorkspaceGapFree(w) == WorkspaceSeqs(w) = 1 .. WorkspaceHead(w)
GapFree ==
  /\ \A r \in Rooms : RoomGapFree(r)
  /\ \A w \in Workspaces : WorkspaceGapFree(w)

(* Two events never share a number in their room or in their workspace,    *)
(* although both computed it from the same max() (UniqueConstraint).       *)
SameRoomKey(e, f) == e.room = f.room /\ e.room_event_seq = f.room_event_seq
SameWorkspaceKey(e, f) ==
  /\ WorkspaceOf[e.room] = WorkspaceOf[f.room]
  /\ e.workspace_event_seq = f.workspace_event_seq
UniqueKeys ==
  \A e, f \in events : SameRoomKey(e, f) \/ SameWorkspaceKey(e, f) => e = f

(* The constraints end up as a lock: between its INSERT and its commit a   *)
(* handler is alone in its workspace, whichever rooms the others write to. *)
SingleWriter ==
  \A p, q \in Requests :
    /\ HoldsWorkspaceKey(p) /\ HoldsWorkspaceKey(q)
    /\ TargetWorkspace(p) = TargetWorkspace(q)
    => p = q

(* The order of event_outbox.created_at, by which the publisher sends      *)
(* (list_pending_outbox), agrees with the event numbers of a workspace.    *)
OutboxOrder ==
  \A e, f \in events :
    /\ WorkspaceOf[e.room] = WorkspaceOf[f.room]
    /\ e.workspace_event_seq < f.workspace_event_seq
    => e.enqueued_at <= f.enqueued_at

(* A handler fails with IntegrityError only because another one committed  *)
(* the number it had computed: the loser of a race, never both.            *)
ConflictHasWinner ==
  \A q \in Requests : stage[q] = "conflict" =>
    \E e \in events \ {NewRow(q)} :
      \/ e.room = target[q] /\ e.room_event_seq = rseq[q]
      \/ /\ WorkspaceOf[e.room] = TargetWorkspace(q)
         /\ e.workspace_event_seq = wseq[q]

(* A committed event never appears at or below a number that a reader may  *)
(* already have passed, and never disappears: what makes the `seq > cursor`*)
(* queries of list_room_events sound.                                      *)
AppendOnly ==
  [][/\ events \subseteq events'
     /\ \A e \in events' \ events :
          /\ \A f \in RoomEvents(e.room) : f.room_event_seq < e.room_event_seq
          /\ \A f \in WorkspaceEvents(WorkspaceOf[e.room]) :
               f.workspace_event_seq < e.workspace_event_seq]_vars

(* Handlers waiting for each other's index entries never deadlock: every   *)
(* started request ends (both indexes are always entered in one order).    *)
RequestsEnd ==
  \A q \in Requests : stage[q] = "started" ~> stage[q] \in Finished

-----------------------------------------------------------------------------
(***************************************************************************)
(* The inductive invariant.  A number that was read is at most one above   *)
(* the head, and whoever holds an index entry holds exactly the next       *)
(* number, hence alone: nobody commits between its INSERT and its commit.  *)
(***************************************************************************)
HeadsInNat ==
  /\ \A r \in Rooms : RoomHead(r) \in Nat
  /\ \A w \in Workspaces : WorkspaceHead(w) \in Nat

ReadBound ==
  \A q \in Requests :
    /\ stage[q] \in Running \ {"started"}
         => rseq[q] \in 1 .. RoomHead(target[q]) + 1
    /\ stage[q] \in Running \ {"started", "room_seq_read"}
         => wseq[q] \in 1 .. WorkspaceHead(TargetWorkspace(q)) + 1

HolderIsNext ==
  \A q \in Requests :
    /\ HoldsRoomKey(q) => rseq[q] = RoomHead(target[q]) + 1
    /\ HoldsWorkspaceKey(q) => wseq[q] = WorkspaceHead(TargetWorkspace(q)) + 1

SingleRoomWriter ==
  \A p, q \in Requests :
    HoldsRoomKey(p) /\ HoldsRoomKey(q) /\ target[p] = target[q] => p = q

Provenance == \A e \in events : stage[e.id] = "committed"

StampBound ==
  /\ \A e \in events : e.enqueued_at <= clock
  /\ \A q \in Requests : stage[q] = "enqueued" =>
       /\ stamp[q] <= clock
       /\ \A e \in WorkspaceEvents(TargetWorkspace(q)) : e.enqueued_at <= stamp[q]

Numbering ==
  HeadsInNat /\ GapFree /\ ReadBound /\ HolderIsNext /\ SingleRoomWriter /\ SingleWriter

IInv ==
  /\ TypeOK /\ Numbering
  /\ UniqueKeys /\ Provenance /\ ConflictHasWinner
  /\ StampBound /\ OutboxOrder

=============================================================================
