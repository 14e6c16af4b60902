-------------------------- MODULE EventLog_proofs --------------------------
(* Proofs about EventLog, for any rooms, workspaces and requests, and its  *)
(* readers (SseFeed), who miss and repeat nothing, whatever the log, their *)
(* number and the size of a page.                                          *)
EXTENDS SseFeed, SequenceTheorems, FiniteSetTheorems, TLAPS

-----------------------------------------------------------------------------
(* The log.                                                                *)

(***************************************************************************)
(* MaxSeq, the model of coalesce(max(seq), 0), on the sets it is applied   *)
(* to.                                                                     *)
(***************************************************************************)
LEMMA MaxSeqInterval ==
  ASSUME NEW n \in Nat
  PROVE  MaxSeq(1 .. n) = n
<1>1. CASE n = 0
  <2>1. 1 .. n = {}
    BY <1>1
  <2> QED
    BY <1>1, <2>1 DEF MaxSeq
<1>2. CASE n # 0
  <2>1. n \in 1 .. n /\ \A m \in 1 .. n : m <= n
    BY <1>2
  <2>2. \A k \in 1 .. n : (\A m \in 1 .. n : m <= k) => k = n
    BY <2>1
  <2> QED
    BY <2>1, <2>2 DEF MaxSeq
<1> QED
  BY <1>1, <1>2

(* Adding the number after the last one extends the numbering by one.      *)
LEMMA MaxSeqExtend ==
  ASSUME NEW n \in Nat
  PROVE  /\ (1 .. n) \cup {n + 1} = 1 .. n + 1
         /\ MaxSeq((1 .. n) \cup {n + 1}) = n + 1
<1>1. (1 .. n) \cup {n + 1} = 1 .. n + 1
  OBVIOUS
<1> QED
  BY <1>1, MaxSeqInterval, n + 1 \in Nat

-----------------------------------------------------------------------------
(* Before the first request there is no event and every head is 0.         *)
LEMMA InitInv == Init => IInv
<1> SUFFICES ASSUME Init PROVE IInv
  OBVIOUS
<1> USE DEF Init
<1>1. TypeOK
  BY DEF TypeOK, Stages
<1>2. /\ \A r : RoomSeqs(r) = {} /\ RoomHead(r) = 0
      /\ \A w : WorkspaceSeqs(w) = {} /\ WorkspaceHead(w) = 0
  BY DEF RoomSeqs, RoomEvents, WorkspaceSeqs, WorkspaceEvents, RoomHead, WorkspaceHead, MaxSeq
<1>3. 1 .. 0 = {}
  OBVIOUS
<1>4. HeadsInNat
  BY <1>2 DEF HeadsInNat
<1>5. GapFree
  BY <1>2, <1>3 DEF GapFree, RoomGapFree, WorkspaceGapFree
<1>6. ReadBound /\ HolderIsNext /\ SingleRoomWriter /\ SingleWriter
  BY DEF ReadBound, HolderIsNext, SingleRoomWriter, SingleWriter, HoldsRoomKey,
         HoldsWorkspaceKey, Running
<1>7. UniqueKeys /\ Provenance /\ ConflictHasWinner /\ StampBound /\ OutboxOrder
  BY DEF UniqueKeys, Provenance, ConflictHasWinner, StampBound, OutboxOrder
<1> QED
  BY <1>1, <1>4, <1>5, <1>6, <1>7 DEF IInv, Numbering

-----------------------------------------------------------------------------
(***************************************************************************)
(* Steps that leave the committed rows alone.                              *)
(***************************************************************************)
LEMMA RowsFixed ==
  ASSUME IInv, UNCHANGED <<events, target>>
  PROVE  /\ \A r : RoomSeqs(r)' = RoomSeqs(r) /\ RoomHead(r)' = RoomHead(r)
         /\ \A w : /\ WorkspaceSeqs(w)' = WorkspaceSeqs(w)
                  /\ WorkspaceHead(w)' = WorkspaceHead(w)
                  /\ WorkspaceEvents(w)' = WorkspaceEvents(w)
         /\ \A q : TargetWorkspace(q)' = TargetWorkspace(q)
         /\ HeadsInNat' /\ GapFree' /\ UniqueKeys' /\ OutboxOrder'
<1>1. /\ \A r : RoomSeqs(r)' = RoomSeqs(r) /\ RoomHead(r)' = RoomHead(r)
      /\ \A w : /\ WorkspaceSeqs(w)' = WorkspaceSeqs(w)
               /\ WorkspaceHead(w)' = WorkspaceHead(w)
               /\ WorkspaceEvents(w)' = WorkspaceEvents(w)
      /\ \A q : TargetWorkspace(q)' = TargetWorkspace(q)
  BY DEF RoomSeqs, RoomEvents, WorkspaceSeqs, WorkspaceEvents, RoomHead, WorkspaceHead,
         TargetWorkspace
<1>2. HeadsInNat' /\ GapFree'
  BY <1>1 DEF IInv, Numbering, HeadsInNat, GapFree, RoomGapFree, WorkspaceGapFree
<1>3. UniqueKeys' /\ OutboxOrder'
  BY DEF IInv, UniqueKeys, OutboxOrder, SameRoomKey, SameWorkspaceKey
<1> QED
  BY <1>1, <1>2, <1>3

(* One lemma per action: the step keeps the inductive invariant.           *)
LEMMA StartInv ==
  ASSUME IInv, NEW q \in Requests, Start(q)
  PROVE  IInv'
<1> USE DEF IInv, Numbering, Start, Advance
<1>0. TypeOK /\ UNCHANGED <<events, target, rseq, wseq, stamp, clock>>
  OBVIOUS
<1>1. stage \in [Requests -> Stages] /\ stage[q] = "waiting"
      /\ stage' = [stage EXCEPT ![q] = "started"]
  BY DEF TypeOK
<1>2. TypeOK'
  BY <1>0, <1>1 DEF TypeOK, Stages, Running, Finished
<1>3. ReadBound' /\ HolderIsNext' /\ SingleRoomWriter' /\ SingleWriter'
  BY <1>0, <1>1, RowsFixed
  DEF ReadBound, HolderIsNext, SingleRoomWriter, SingleWriter, HoldsRoomKey,
      HoldsWorkspaceKey, Running
<1>4. Provenance' /\ ConflictHasWinner' /\ StampBound'
  BY <1>0, <1>1, RowsFixed
  DEF TypeOK, Row, Provenance, ConflictHasWinner, StampBound, NewRow
<1> QED
  BY <1>2, <1>3, <1>4, <1>0, RowsFixed

(* The number read is at most head + 1, now and after later commits.       *)
LEMMA ReadRoomSeqInv ==
  ASSUME IInv, NEW q \in Requests, ReadRoomSeq(q)
  PROVE  IInv'
<1> USE DEF IInv, Numbering, ReadRoomSeq, Advance
<1>0. TypeOK /\ UNCHANGED <<events, target, wseq, stamp, clock>>
  OBVIOUS
<1>1. /\ stage[q] = "started" /\ stage' = [stage EXCEPT ![q] = "room_seq_read"]
      /\ stage \in [Requests -> Stages] /\ rseq \in [Requests -> Nat]
      /\ rseq' = [rseq EXCEPT ![q] = RoomHead(target[q]) + 1]
      /\ target[q] \in Rooms /\ RoomHead(target[q]) \in Nat
  BY DEF TypeOK, HeadsInNat
<1>2. TypeOK'
  BY <1>0, <1>1 DEF TypeOK, Stages, Running, Finished
<1>3. ReadBound' /\ HolderIsNext'
  BY <1>0, <1>1, RowsFixed
  DEF ReadBound, HolderIsNext, HoldsRoomKey, HoldsWorkspaceKey, Running
<1>4. SingleRoomWriter' /\ SingleWriter'
  BY <1>0, <1>1, RowsFixed
  DEF SingleRoomWriter, SingleWriter, HoldsRoomKey, HoldsWorkspaceKey
<1>5. Provenance' /\ StampBound'
  BY <1>0, <1>1, RowsFixed DEF TypeOK, Row, Provenance, StampBound
<1>6. ConflictHasWinner'
  BY <1>0, <1>1, RowsFixed DEF TypeOK, ConflictHasWinner, NewRow
<1> QED
  BY <1>2, <1>3, <1>4, <1>5, <1>6, <1>0, RowsFixed

(* The same for the number of the workspace.                               *)
LEMMA ReadWorkspaceSeqInv ==
  ASSUME IInv, NEW q \in Requests, ReadWorkspaceSeq(q)
  PROVE  IInv'
<1> USE DEF IInv, Numbering, ReadWorkspaceSeq, Advance
<1>0. TypeOK /\ UNCHANGED <<events, target, rseq, stamp, clock>>
  OBVIOUS
<1>1. /\ stage[q] = "room_seq_read" /\ stage' = [stage EXCEPT ![q] = "seqs_read"]
      /\ stage \in [Requests -> Stages] /\ wseq \in [Requests -> Nat]
      /\ wseq' = [wseq EXCEPT ![q] = WorkspaceHead(TargetWorkspace(q)) + 1]
      /\ WorkspaceHead(TargetWorkspace(q)) \in Nat
  BY EventLogAssumption DEF TypeOK, HeadsInNat, TargetWorkspace
<1>2. TypeOK'
  BY <1>0, <1>1 DEF TypeOK, Stages, Running, Finished
<1>3. ReadBound' /\ HolderIsNext'
  BY <1>0, <1>1, RowsFixed
  DEF ReadBound, HolderIsNext, HoldsRoomKey, HoldsWorkspaceKey, Running
<1>4. SingleRoomWriter' /\ SingleWriter'
  BY <1>0, <1>1, RowsFixed
  DEF SingleRoomWriter, SingleWriter, HoldsRoomKey, HoldsWorkspaceKey
<1>5. Provenance' /\ StampBound'
  BY <1>0, <1>1, RowsFixed DEF TypeOK, Row, Provenance, StampBound
<1>6. ConflictHasWinner'
  BY <1>0, <1>1, RowsFixed DEF TypeOK, ConflictHasWinner, NewRow
<1> QED
  BY <1>2, <1>3, <1>4, <1>5, <1>6, <1>0, RowsFixed

(***************************************************************************)
(* Entering an index.  The number is neither committed nor above head + 1, *)
(* so it is head + 1; every holder has that number; it is not pending, so  *)
(* there is no other holder.                                               *)
(***************************************************************************)
LEMMA ClaimRoomKeyInv ==
  ASSUME IInv, NEW q \in Requests, ClaimRoomKey(q)
  PROVE  IInv'
<1> USE DEF IInv, Numbering, ClaimRoomKey, Advance
<1>0. TypeOK /\ UNCHANGED <<events, target, rseq, wseq, stamp, clock>>
  OBVIOUS
<1>1. /\ stage[q] = "seqs_read" /\ stage' = [stage EXCEPT ![q] = "room_key_claimed"]
      /\ stage \in [Requests -> Stages]
      /\ target[q] \in Rooms /\ RoomHead(target[q]) \in Nat
  BY DEF TypeOK, HeadsInNat
<1>2. rseq[q] = RoomHead(target[q]) + 1
  <2>1. rseq[q] \in 1 .. RoomHead(target[q]) + 1
    BY <1>1 DEF ReadBound, Running
  <2>2. rseq[q] \notin 1 .. RoomHead(target[q])
    BY <1>1 DEF RoomKeyTaken, GapFree, RoomGapFree
  <2> QED
    BY <1>1, <2>1, <2>2
<1>3. \A p \in Requests : HoldsRoomKey(p) /\ target[p] = target[q] => p = q
  BY <1>2 DEF HolderIsNext, RoomKeyPending
<1>4. TypeOK'
  BY <1>0, <1>1 DEF TypeOK, Stages, Running, Finished
<1>5. ReadBound' /\ HolderIsNext'
  BY <1>0, <1>1, <1>2, RowsFixed
  DEF ReadBound, HolderIsNext, HoldsRoomKey, HoldsWorkspaceKey, Running
<1>6. SingleRoomWriter'
  BY <1>0, <1>1, <1>3, RowsFixed DEF SingleRoomWriter, HoldsRoomKey
<1>7. SingleWriter'
  BY <1>0, <1>1, RowsFixed DEF SingleWriter, HoldsWorkspaceKey
<1>8. Provenance' /\ StampBound'
  BY <1>0, <1>1, RowsFixed DEF TypeOK, Row, Provenance, StampBound
<1>9. ConflictHasWinner'
  BY <1>0, <1>1, RowsFixed DEF TypeOK, ConflictHasWinner, NewRow
<1> QED
  BY <1>4, <1>5, <1>6, <1>7, <1>8, <1>9, <1>0, RowsFixed

(* The same argument on the index of the workspace.                        *)
LEMMA ClaimWorkspaceKeyInv ==
  ASSUME IInv, NEW q \in Requests, ClaimWorkspaceKey(q)
  PROVE  IInv'
<1> USE DEF IInv, Numbering, ClaimWorkspaceKey, Advance
<1> DEFINE w == TargetWorkspace(q)
<1>0. TypeOK /\ UNCHANGED <<events, target, rseq, wseq, stamp, clock>>
  OBVIOUS
<1>1. /\ stage[q] = "room_key_claimed" /\ stage' = [stage EXCEPT ![q] = "flushed"]
      /\ stage \in [Requests -> Stages]
      /\ w \in Workspaces /\ WorkspaceHead(w) \in Nat
  BY EventLogAssumption DEF TypeOK, HeadsInNat, TargetWorkspace
<1>2. wseq[q] = WorkspaceHead(w) + 1
  <2>1. wseq[q] \in 1 .. WorkspaceHead(w) + 1
    BY <1>1 DEF ReadBound, Running
  <2>2. wseq[q] \notin 1 .. WorkspaceHead(w)
    BY <1>1 DEF WorkspaceKeyTaken, GapFree, WorkspaceGapFree
  <2> QED
    BY <1>1, <2>1, <2>2
<1>3. \A p \in Requests : HoldsWorkspaceKey(p) /\ TargetWorkspace(p) = w => p = q
  BY <1>2 DEF HolderIsNext, WorkspaceKeyPending
<1>4. TypeOK'
  BY <1>0, <1>1 DEF TypeOK, Stages, Running, Finished
<1>5. ReadBound' /\ HolderIsNext'
  BY <1>0, <1>1, <1>2, RowsFixed
  DEF ReadBound, HolderIsNext, HoldsRoomKey, HoldsWorkspaceKey, Running
<1>6. SingleRoomWriter'
  BY <1>0, <1>1, RowsFixed DEF SingleRoomWriter, HoldsRoomKey
<1>7. SingleWriter'
  BY <1>0, <1>1, <1>3, RowsFixed DEF SingleWriter, HoldsWorkspaceKey
<1>8. Provenance' /\ StampBound'
  BY <1>0, <1>1, RowsFixed DEF TypeOK, Row, Provenance, StampBound
<1>9. ConflictHasWinner'
  BY <1>0, <1>1, RowsFixed DEF TypeOK, ConflictHasWinner, NewRow
<1> QED
  BY <1>4, <1>5, <1>6, <1>7, <1>8, <1>9, <1>0, RowsFixed

(* The row that took the key is not the failing request's own.             *)
LEMMA UniqueViolationInv ==
  ASSUME IInv, NEW q \in Requests, UniqueViolation(q)
  PROVE  IInv'
<1> USE DEF IInv, Numbering, UniqueViolation
<1>0. TypeOK /\ UNCHANGED <<events, target, rseq, wseq, stamp, clock>>
  OBVIOUS
<1>1. /\ stage[q] \in {"seqs_read", "room_key_claimed"}
      /\ stage' = [stage EXCEPT ![q] = "conflict"]
      /\ stage \in [Requests -> Stages]
  BY DEF TypeOK
<1>2. TypeOK'
  BY <1>0, <1>1 DEF TypeOK, Stages, Running, Finished
<1>3. ReadBound' /\ HolderIsNext'
  BY <1>0, <1>1, RowsFixed
  DEF ReadBound, HolderIsNext, HoldsRoomKey, HoldsWorkspaceKey, Running
<1>4. SingleRoomWriter' /\ SingleWriter'
  BY <1>0, <1>1, RowsFixed
  DEF SingleRoomWriter, SingleWriter, HoldsRoomKey, HoldsWorkspaceKey
<1>5. Provenance' /\ StampBound'
  BY <1>0, <1>1, RowsFixed DEF TypeOK, Row, Provenance, StampBound
<1>6. ConflictHasWinner'
  <2>1. \E e \in events \ {NewRow(q)} :
          \/ e.room = target[q] /\ e.room_event_seq = rseq[q]
          \/ /\ WorkspaceOf[e.room] = TargetWorkspace(q)
             /\ e.workspace_event_seq = wseq[q]
    <3>1. \A e \in events : e # NewRow(q)
      BY <1>1 DEF Provenance, NewRow
    <3>2. CASE RoomKeyTaken(q)
      BY <3>1, <3>2 DEF RoomKeyTaken, RoomSeqs, RoomEvents
    <3>3. CASE WorkspaceKeyTaken(q)
      BY <3>1, <3>3 DEF WorkspaceKeyTaken, WorkspaceSeqs, WorkspaceEvents
    <3> QED
      BY <3>2, <3>3
  <2> QED
    BY <1>0, <1>1, <2>1 DEF ConflictHasWinner, NewRow, TargetWorkspace
<1> QED
  BY <1>2, <1>3, <1>4, <1>5, <1>6, <1>0, RowsFixed

(* No committed row was stamped later than the present.                    *)
LEMMA EnqueueOutboxInv ==
  ASSUME IInv, NEW q \in Requests, EnqueueOutbox(q)
  PROVE  IInv'
<1> USE DEF IInv, Numbering, EnqueueOutbox, Advance
<1>0. TypeOK /\ UNCHANGED <<events, target, rseq, wseq, clock>>
  OBVIOUS
<1>1. /\ stage[q] = "flushed" /\ stage' = [stage EXCEPT ![q] = "enqueued"]
      /\ stage \in [Requests -> Stages]
      /\ stamp \in [Requests -> Nat] /\ clock \in Nat
      /\ stamp' = [stamp EXCEPT ![q] = clock]
  BY DEF TypeOK
<1>2. TypeOK'
  BY <1>0, <1>1 DEF TypeOK, Stages, Running, Finished
<1>3. ReadBound' /\ HolderIsNext'
  BY <1>0, <1>1, RowsFixed
  DEF ReadBound, HolderIsNext, HoldsRoomKey, HoldsWorkspaceKey, Running
<1>4. SingleRoomWriter' /\ SingleWriter'
  BY <1>0, <1>1, RowsFixed
  DEF SingleRoomWriter, SingleWriter, HoldsRoomKey, HoldsWorkspaceKey
<1>5. Provenance'
  BY <1>0, <1>1 DEF TypeOK, Row, Provenance
<1>6. StampBound'
  <2>1. \A e \in WorkspaceEvents(TargetWorkspace(q)) : e.enqueued_at <= clock
    BY DEF StampBound, WorkspaceEvents
  <2> QED
    BY <1>0, <1>1, <2>1, RowsFixed DEF StampBound
<1>7. ConflictHasWinner'
  BY <1>0, <1>1, RowsFixed DEF TypeOK, ConflictHasWinner, NewRow
<1> QED
  BY <1>2, <1>3, <1>4, <1>5, <1>6, <1>7, <1>0, RowsFixed

(* A rollback only frees keys.                                             *)
LEMMA AbortInv ==
  ASSUME IInv, NEW q \in Requests, Abort(q)
  PROVE  IInv'
<1> USE DEF IInv, Numbering, Abort
<1>0. TypeOK /\ UNCHANGED <<events, target, rseq, wseq, stamp, clock>>
  OBVIOUS
<1>1. /\ stage[q] \in Running /\ stage' = [stage EXCEPT ![q] = "aborted"]
      /\ stage \in [Requests -> Stages]
  BY DEF TypeOK
<1>2. TypeOK'
  BY <1>0, <1>1 DEF TypeOK, Stages, Running, Finished
<1>3. ReadBound' /\ HolderIsNext'
  BY <1>0, <1>1, RowsFixed
  DEF ReadBound, HolderIsNext, HoldsRoomKey, HoldsWorkspaceKey, Running
<1>4. SingleRoomWriter' /\ SingleWriter'
  BY <1>0, <1>1, RowsFixed
  DEF SingleRoomWriter, SingleWriter, HoldsRoomKey, HoldsWorkspaceKey
<1>5. Provenance' /\ StampBound'
  BY <1>0, <1>1, RowsFixed DEF TypeOK, Row, Running, Provenance, StampBound
<1>6. ConflictHasWinner'
  BY <1>0, <1>1, RowsFixed DEF TypeOK, ConflictHasWinner, NewRow
<1> QED
  BY <1>2, <1>3, <1>4, <1>5, <1>6, <1>0, RowsFixed

(* Time passing moves no stamp.                                            *)
LEMMA TickInv ==
  ASSUME IInv, Tick
  PROVE  IInv'
<1> USE DEF IInv, Numbering, Tick
<1>0. UNCHANGED <<events, stage, target, rseq, wseq, stamp>>
      /\ clock \in Nat /\ clock' = clock + 1
  BY DEF TypeOK
<1>1. TypeOK'
  BY <1>0 DEF TypeOK
<1>2. ReadBound' /\ HolderIsNext' /\ SingleRoomWriter' /\ SingleWriter'
  BY <1>0, RowsFixed
  DEF ReadBound, HolderIsNext, SingleRoomWriter, SingleWriter, HoldsRoomKey,
      HoldsWorkspaceKey
<1>3. Provenance' /\ ConflictHasWinner'
  BY <1>0, RowsFixed DEF Provenance, ConflictHasWinner, NewRow
<1>4. StampBound'
  BY <1>0, RowsFixed DEF TypeOK, Row, StampBound
<1> QED
  BY <1>1, <1>2, <1>3, <1>4, <1>0, RowsFixed

-----------------------------------------------------------------------------
(***************************************************************************)
(* A commit puts the new row directly after the head of its room and of    *)
(* its workspace, and moves no other head.                                 *)
(***************************************************************************)
LEMMA CommitRows ==
  ASSUME IInv, NEW q \in Requests, Commit(q)
  PROVE  /\ rseq[q] = RoomHead(target[q]) + 1
         /\ wseq[q] = WorkspaceHead(TargetWorkspace(q)) + 1
         /\ \A r \in Rooms :
              RoomSeqs(r)' = IF r = target[q] THEN RoomSeqs(r) \cup {rseq[q]} ELSE RoomSeqs(r)
         /\ \A w \in Workspaces :
              WorkspaceSeqs(w)' = IF w = TargetWorkspace(q)
                                    THEN WorkspaceSeqs(w) \cup {wseq[q]}
                                    ELSE WorkspaceSeqs(w)
         /\ \A r \in Rooms :
              RoomHead(r)' = IF r = target[q] THEN RoomHead(r) + 1 ELSE RoomHead(r)
         /\ \A w \in Workspaces :
              WorkspaceHead(w)' = IF w = TargetWorkspace(q)
                                    THEN WorkspaceHead(w) + 1 ELSE WorkspaceHead(w)
<1> USE DEF IInv, Numbering, Commit, Advance
<1>1. /\ stage[q] = "enqueued" /\ target[q] \in Rooms /\ events' = events \cup {NewRow(q)}
      /\ TargetWorkspace(q) \in Workspaces
  BY EventLogAssumption DEF TypeOK, TargetWorkspace
<1>2. /\ rseq[q] = RoomHead(target[q]) + 1
      /\ wseq[q] = WorkspaceHead(TargetWorkspace(q)) + 1
  BY <1>1 DEF HolderIsNext, HoldsRoomKey, HoldsWorkspaceKey
<1>3. \A r \in Rooms :
        RoomSeqs(r)' = IF r = target[q] THEN RoomSeqs(r) \cup {rseq[q]} ELSE RoomSeqs(r)
  <2>1. NewRow(q).room = target[q] /\ NewRow(q).room_event_seq = rseq[q]
    BY DEF NewRow
  <2>2. \A r \in Rooms : RoomEvents(r)' =
          IF r = target[q] THEN RoomEvents(r) \cup {NewRow(q)} ELSE RoomEvents(r)
    BY <1>1, <2>1 DEF RoomEvents
  <2> QED
    BY <2>1, <2>2 DEF RoomSeqs
<1>4. \A w \in Workspaces :
        WorkspaceSeqs(w)' = IF w = TargetWorkspace(q)
                              THEN WorkspaceSeqs(w) \cup {wseq[q]}
                              ELSE WorkspaceSeqs(w)
  <2>1. /\ WorkspaceOf[NewRow(q).room] = TargetWorkspace(q)
        /\ NewRow(q).workspace_event_seq = wseq[q]
    BY DEF NewRow, TargetWorkspace
  <2>2. \A w \in Workspaces : WorkspaceEvents(w)' =
          IF w = TargetWorkspace(q) THEN WorkspaceEvents(w) \cup {NewRow(q)}
                                    ELSE WorkspaceEvents(w)
    BY <1>1, <2>1 DEF WorkspaceEvents
  <2> QED
    BY <2>1, <2>2 DEF WorkspaceSeqs
<1>5. ASSUME NEW r \in Rooms
      PROVE  RoomHead(r)' = IF r = target[q] THEN RoomHead(r) + 1 ELSE RoomHead(r)
  <2>1. RoomHead(r) \in Nat /\ RoomSeqs(r) = 1 .. RoomHead(r)
    BY DEF HeadsInNat, GapFree, RoomGapFree
  <2>2. CASE r = target[q]
    <3>1. MaxSeq(RoomSeqs(r)') = RoomHead(r) + 1
      BY <1>2, <1>3, <2>1, <2>2, MaxSeqExtend
    <3> QED
      BY <2>2, <3>1 DEF RoomHead
  <2>3. CASE r # target[q]
    BY <1>3, <2>3 DEF RoomHead
  <2> QED
    BY <2>2, <2>3
<1>6. ASSUME NEW w \in Workspaces
      PROVE  WorkspaceHead(w)' = IF w = TargetWorkspace(q)
                                   THEN WorkspaceHead(w) + 1 ELSE WorkspaceHead(w)
  <2>1. WorkspaceHead(w) \in Nat /\ WorkspaceSeqs(w) = 1 .. WorkspaceHead(w)
    BY DEF HeadsInNat, GapFree, WorkspaceGapFree
  <2>2. CASE w = TargetWorkspace(q)
    <3>1. MaxSeq(WorkspaceSeqs(w)') = WorkspaceHead(w) + 1
      BY <1>2, <1>4, <2>1, <2>2, MaxSeqExtend
    <3> QED
      BY <2>2, <3>1 DEF WorkspaceHead
  <2>3. CASE w # TargetWorkspace(q)
    BY <1>4, <2>3 DEF WorkspaceHead
  <2> QED
    BY <2>2, <2>3
<1> QED
  BY <1>2, <1>3, <1>4, <1>5, <1>6

(* The committing request was alone in its room and in its workspace, so   *)
(* no other holder's number becomes stale.                                 *)
LEMMA CommitInv ==
  ASSUME IInv, NEW q \in Requests, Commit(q)
  PROVE  IInv'
<1> USE DEF IInv, Numbering, Commit, Advance
<1> DEFINE row == NewRow(q)
<1>0. /\ TypeOK /\ UNCHANGED <<target, rseq, wseq, stamp, clock>>
      /\ \A p : TargetWorkspace(p)' = TargetWorkspace(p) /\ NewRow(p)' = NewRow(p)
  BY DEF TargetWorkspace, NewRow
<1>1. /\ stage[q] = "enqueued" /\ stage' = [stage EXCEPT ![q] = "committed"]
      /\ stage \in [Requests -> Stages] /\ events' = events \cup {row}
      /\ row \in Row /\ row.id = q /\ row.room = target[q]
      /\ row.room_event_seq = rseq[q] /\ row.workspace_event_seq = wseq[q]
      /\ row.enqueued_at = stamp[q]
  <2>1. rseq[q] \in Nat \ {0} /\ wseq[q] \in Nat \ {0}
    BY DEF TypeOK, ReadBound, HeadsInNat, Running, TargetWorkspace
  <2> QED
    BY <2>1 DEF TypeOK, Row, NewRow
<1>5. \A p \in Requests :
        /\ target[p] \in Rooms /\ RoomHead(target[p]) \in Nat
        /\ RoomSeqs(target[p]) = 1 .. RoomHead(target[p])
        /\ TargetWorkspace(p) \in Workspaces /\ WorkspaceHead(TargetWorkspace(p)) \in Nat
        /\ WorkspaceSeqs(TargetWorkspace(p)) = 1 .. WorkspaceHead(TargetWorkspace(p))
  BY EventLogAssumption
  DEF TypeOK, TargetWorkspace, HeadsInNat, GapFree, RoomGapFree, WorkspaceGapFree
<1>2. TypeOK'
  BY <1>0, <1>1 DEF TypeOK, Stages, Finished
<1>3. HeadsInNat'
  <2>1. \A r \in Rooms : RoomHead(r)' \in {RoomHead(r), RoomHead(r) + 1}
    BY CommitRows
  <2>2. \A w \in Workspaces : WorkspaceHead(w)' \in {WorkspaceHead(w), WorkspaceHead(w) + 1}
    BY CommitRows
  <2>3. HeadsInNat
    OBVIOUS
  <2> QED
    BY <2>1, <2>2, <2>3 DEF HeadsInNat
<1>4. GapFree'
  <2>1. ASSUME NEW r \in Rooms PROVE RoomGapFree(r)'
    <3>1. RoomHead(r) \in Nat /\ RoomSeqs(r) = 1 .. RoomHead(r)
      BY DEF HeadsInNat, GapFree, RoomGapFree
    <3>2. /\ rseq[q] = RoomHead(target[q]) + 1
          /\ RoomSeqs(r)' = IF r = target[q] THEN RoomSeqs(r) \cup {rseq[q]} ELSE RoomSeqs(r)
          /\ RoomHead(r)' = IF r = target[q] THEN RoomHead(r) + 1 ELSE RoomHead(r)
      BY CommitRows
    <3> QED
      BY <3>1, <3>2, MaxSeqExtend DEF RoomGapFree
  <2>2. ASSUME NEW w \in Workspaces PROVE WorkspaceGapFree(w)'
    <3>1. /\ WorkspaceHead(w) \in Nat
          /\ WorkspaceSeqs(w) = 1 .. WorkspaceHead(w)
      BY DEF HeadsInNat, GapFree, WorkspaceGapFree
    <3>2. /\ wseq[q] = WorkspaceHead(TargetWorkspace(q)) + 1
          /\ WorkspaceSeqs(w)' = IF w = TargetWorkspace(q)
                                   THEN WorkspaceSeqs(w) \cup {wseq[q]}
                                   ELSE WorkspaceSeqs(w)
          /\ WorkspaceHead(w)' = IF w = TargetWorkspace(q)
                                   THEN WorkspaceHead(w) + 1 ELSE WorkspaceHead(w)
      BY CommitRows
    <3> QED
      BY <3>1, <3>2, MaxSeqExtend DEF WorkspaceGapFree
  <2> QED
    BY <2>1, <2>2 DEF GapFree
<1>6. ReadBound'
  <2> SUFFICES ASSUME NEW p \in Requests
               PROVE  /\ stage'[p] \in Running \ {"started"}
                           => rseq[p] \in 1 .. RoomHead(target[p])' + 1
                      /\ stage'[p] \in Running \ {"started", "room_seq_read"}
                           => wseq[p] \in 1 .. WorkspaceHead(TargetWorkspace(p))' + 1
    BY <1>0 DEF ReadBound
  <2>1. /\ RoomHead(target[p])' \in {RoomHead(target[p]), RoomHead(target[p]) + 1}
        /\ WorkspaceHead(TargetWorkspace(p))' \in
             {WorkspaceHead(TargetWorkspace(p)), WorkspaceHead(TargetWorkspace(p)) + 1}
    BY <1>0, <1>5, CommitRows
  <2>2. stage'[p] \in Running => stage[p] = stage'[p]
    BY <1>1 DEF Running
  <2> QED
    BY <1>5, <2>1, <2>2 DEF ReadBound
<1>7. HolderIsNext'
  <2> SUFFICES ASSUME NEW p \in Requests
               PROVE  /\ HoldsRoomKey(p)' => rseq[p] = RoomHead(target[p])' + 1
                      /\ HoldsWorkspaceKey(p)' =>
                           wseq[p] = WorkspaceHead(TargetWorkspace(p))' + 1
    BY <1>0 DEF HolderIsNext
  <2>1. ~HoldsRoomKey(q)' /\ ~HoldsWorkspaceKey(q)'
    BY <1>1 DEF HoldsRoomKey, HoldsWorkspaceKey
  <2>2. HoldsRoomKey(p)' => HoldsRoomKey(p) /\ target[p] # target[q]
    BY <1>1, <2>1 DEF HoldsRoomKey, SingleRoomWriter
  <2>3. HoldsWorkspaceKey(p)' =>
          HoldsWorkspaceKey(p) /\ TargetWorkspace(p) # TargetWorkspace(q)
    BY <1>1, <2>1 DEF HoldsWorkspaceKey, SingleWriter
  <2>4. /\ target[p] # target[q] => RoomHead(target[p])' = RoomHead(target[p])
        /\ TargetWorkspace(p) # TargetWorkspace(q)
             => WorkspaceHead(TargetWorkspace(p))' = WorkspaceHead(TargetWorkspace(p))
    BY <1>0, <1>5, CommitRows
  <2> QED
    BY <2>2, <2>3, <2>4 DEF HolderIsNext
<1>8. SingleRoomWriter' /\ SingleWriter'
  BY <1>0, <1>1 DEF SingleRoomWriter, SingleWriter, HoldsRoomKey, HoldsWorkspaceKey
<1>9. UniqueKeys'
  <2>1. \A e \in events : ~SameRoomKey(e, row) /\ ~SameRoomKey(row, e)
    <3>1. rseq[q] \notin RoomSeqs(target[q])
      <4>1. rseq[q] = RoomHead(target[q]) + 1
        BY CommitRows
      <4> QED
        BY <1>5, <4>1
    <3> QED
      BY <1>1, <3>1 DEF SameRoomKey, RoomSeqs, RoomEvents
  <2>2. \A e \in events : ~SameWorkspaceKey(e, row) /\ ~SameWorkspaceKey(row, e)
    <3>1. wseq[q] \notin WorkspaceSeqs(TargetWorkspace(q))
      <4>1. wseq[q] = WorkspaceHead(TargetWorkspace(q)) + 1
        BY CommitRows
      <4> QED
        BY <1>5, <4>1
    <3> QED
      BY <1>1, <3>1 DEF SameWorkspaceKey, WorkspaceSeqs, WorkspaceEvents, TargetWorkspace
  <2> QED
    BY <1>1, <2>1, <2>2 DEF UniqueKeys, SameRoomKey, SameWorkspaceKey
<1>10. Provenance'
  BY <1>0, <1>1 DEF TypeOK, Row, Provenance
<1>11. ConflictHasWinner'
  BY <1>0, <1>1 DEF ConflictHasWinner
<1>12. StampBound'
  <2>1. \A e \in events' : e.enqueued_at <= clock
    BY <1>1 DEF StampBound
  <2>2. ASSUME NEW p \in Requests, stage'[p] = "enqueued"
        PROVE  /\ stamp[p] <= clock
               /\ WorkspaceEvents(TargetWorkspace(p))' = WorkspaceEvents(TargetWorkspace(p))
    <3>1. stage[p] = "enqueued" /\ p # q
      BY <1>1, <2>2
    <3>2. TargetWorkspace(p) # TargetWorkspace(q)
      BY <1>1, <3>1 DEF SingleWriter, HoldsWorkspaceKey
    <3> QED
      BY <1>0, <1>1, <3>1, <3>2 DEF StampBound, WorkspaceEvents, TargetWorkspace
  <2> QED
    BY <1>0, <1>1, <2>1, <2>2 DEF StampBound
<1>13. OutboxOrder'
  <2>1. \A e \in events : WorkspaceOf[e.room] = TargetWorkspace(q) =>
          e.workspace_event_seq < wseq[q] /\ e.enqueued_at <= stamp[q]
    <3>1. \A e \in events : WorkspaceOf[e.room] = TargetWorkspace(q) =>
            e.workspace_event_seq \in 1 .. WorkspaceHead(TargetWorkspace(q))
      BY <1>5 DEF WorkspaceSeqs, WorkspaceEvents
    <3>2. \A e \in events : WorkspaceOf[e.room] = TargetWorkspace(q) =>
            e.enqueued_at <= stamp[q]
      BY <1>1 DEF StampBound, WorkspaceEvents
    <3>3. wseq[q] = WorkspaceHead(TargetWorkspace(q)) + 1
      BY CommitRows
    <3> QED
      BY <1>5, <3>1, <3>2, <3>3
  <2> QED
    BY <1>0, <1>1, <2>1 DEF OutboxOrder, TargetWorkspace, TypeOK, Row
<1> QED
  BY <1>2, <1>3, <1>4, <1>6, <1>7, <1>8, <1>9, <1>10, <1>11, <1>12, <1>13

-----------------------------------------------------------------------------
(* Every step of Next, and stuttering, keeps the inductive invariant.      *)
LEMMA NextInv == IInv /\ [Next]_vars => IInv'
<1> SUFFICES ASSUME IInv, [Next]_vars PROVE IInv'
  OBVIOUS
<1>1. ASSUME NEW q \in Requests, Start(q) \/ Handle(q) \/ Abort(q)
      PROVE  IInv'
  BY <1>1, StartInv, ReadRoomSeqInv, ReadWorkspaceSeqInv, ClaimRoomKeyInv,
     ClaimWorkspaceKeyInv, UniqueViolationInv, EnqueueOutboxInv, CommitInv, AbortInv
  DEF Handle
<1>2. CASE Tick
  BY <1>2, TickInv
<1>3. CASE UNCHANGED vars
  <2> USE <1>3 DEF vars, IInv, Numbering
  <2>1. TypeOK' /\ UNCHANGED <<events, target>>
    BY DEF TypeOK
  <2>2. ReadBound' /\ HolderIsNext' /\ SingleRoomWriter' /\ SingleWriter'
    BY RowsFixed
    DEF ReadBound, HolderIsNext, SingleRoomWriter, SingleWriter, HoldsRoomKey,
        HoldsWorkspaceKey
  <2>3. Provenance' /\ ConflictHasWinner' /\ StampBound'
    BY RowsFixed DEF Provenance, ConflictHasWinner, StampBound, NewRow
  <2> QED
    BY <2>1, <2>2, <2>3, RowsFixed
<1> QED
  BY <1>1, <1>2, <1>3 DEF Next

(* The inductive invariant of the event log holds in every reachable state.*)
THEOREM Invariance == Spec => []IInv
<1> QED
  BY InitInv, NextInv, PTL DEF Spec

(* Every reachable state is well typed.                                    *)
THEOREM TypeCorrect == Spec => []TypeOK
<1>1. IInv => TypeOK
  BY DEF IInv
<1> QED
  BY <1>1, Invariance, PTL

(* However handlers overlap, fail or die, the numbers of every room and of *)
(* every workspace are consecutive from 1 (next_room_event_seq,            *)
(* next_workspace_event_seq and the unique constraints on events).         *)
THEOREM NumbersGapFree == Spec => []GapFree
<1>1. IInv => GapFree
  BY DEF IInv, Numbering
<1> QED
  BY <1>1, Invariance, PTL

(* No number is ever given to two events.                                  *)
THEOREM NumbersUnique == Spec => []UniqueKeys
<1>1. IInv => UniqueKeys
  BY DEF IInv
<1> QED
  BY <1>1, Invariance, PTL

(* The unique constraints act as a lock on the workspace.                  *)
THEOREM OneWriter == Spec => []SingleWriter
<1>1. IInv => SingleWriter
  BY DEF IInv, Numbering
<1> QED
  BY <1>1, Invariance, PTL

(* created_at of the outbox rows follows the numbers of the events.        *)
THEOREM OutboxInOrder == Spec => []OutboxOrder
<1>1. IInv => OutboxOrder
  BY DEF IInv
<1> QED
  BY <1>1, Invariance, PTL

(* A handler that fails with IntegrityError lost a race to a committed row.*)
THEOREM LoserHasWinner == Spec => []ConflictHasWinner
<1>1. IInv => ConflictHasWinner
  BY DEF IInv
<1> QED
  BY <1>1, Invariance, PTL

(* No row appears behind a reader's cursor and none disappears.            *)
THEOREM LogAppendOnly == Spec => AppendOnly
<1> DEFINE New(e) == /\ \A f \in RoomEvents(e.room) : f.room_event_seq < e.room_event_seq
                     /\ \A f \in WorkspaceEvents(WorkspaceOf[e.room]) :
                          f.workspace_event_seq < e.workspace_event_seq
           Grow == events \subseteq events' /\ \A e \in events' \ events : New(e)
<1>1. ASSUME IInv, NEW q \in Requests, Commit(q) PROVE Grow
  <2>1. events' = events \cup {NewRow(q)}
    BY <1>1 DEF Commit
  <2>2. /\ target[q] \in Rooms /\ RoomHead(target[q]) \in Nat
        /\ RoomSeqs(target[q]) = 1 .. RoomHead(target[q])
        /\ TargetWorkspace(q) \in Workspaces /\ WorkspaceHead(TargetWorkspace(q)) \in Nat
        /\ WorkspaceSeqs(TargetWorkspace(q)) = 1 .. WorkspaceHead(TargetWorkspace(q))
    BY <1>1, EventLogAssumption
    DEF IInv, Numbering, TypeOK, TargetWorkspace, HeadsInNat, GapFree, RoomGapFree,
        WorkspaceGapFree
  <2>3. /\ rseq[q] = RoomHead(target[q]) + 1
        /\ wseq[q] = WorkspaceHead(TargetWorkspace(q)) + 1
    BY <1>1, CommitRows
  <2>4. \A f \in RoomEvents(target[q]) : f.room_event_seq \in 1 .. RoomHead(target[q])
    BY <2>2 DEF RoomSeqs
  <2>5. \A f \in WorkspaceEvents(TargetWorkspace(q)) :
          f.workspace_event_seq \in 1 .. WorkspaceHead(TargetWorkspace(q))
    BY <2>2 DEF WorkspaceSeqs
  <2>6. /\ \A f \in RoomEvents(target[q]) : f.room_event_seq < rseq[q]
        /\ \A f \in WorkspaceEvents(TargetWorkspace(q)) : f.workspace_event_seq < wseq[q]
    BY <2>2, <2>3, <2>4, <2>5
  <2>7. New(NewRow(q))
    BY <2>6 DEF NewRow, TargetWorkspace
  <2> QED
    BY <2>1, <2>7
<1>2. IInv /\ [Next]_vars => [Grow]_vars
  <2>1. ASSUME NEW q \in Requests, Start(q) \/ Abort(q) \/ (Handle(q) /\ ~Commit(q))
        PROVE  events' = events
    BY <2>1 DEF Start, Abort, Handle, ReadRoomSeq, ReadWorkspaceSeq, ClaimRoomKey,
                ClaimWorkspaceKey, UniqueViolation, EnqueueOutbox
  <2>2. Tick => events' = events
    BY DEF Tick
  <2>3. events' = events => Grow
    OBVIOUS
  <2> QED
    BY <1>1, <2>1, <2>2, <2>3 DEF Next, Handle
<1> QED
  BY <1>2, Invariance, PTL DEF Spec, AppendOnly

-----------------------------------------------------------------------------
(* Its readers.                                                            *)

(***************************************************************************)
(* A page read above `after` from a gap-free room continues at after + 1.  *)
(***************************************************************************)
LEMMA RankInInterval ==
  ASSUME NEW a \in Nat, NEW h \in Nat, NEW n \in (a + 1) .. h
  PROVE  Rank(n, (a + 1) .. h) = n - a
<1>1. {m \in (a + 1) .. h : m <= n} = (a + 1) .. n
  OBVIOUS
<1>2. Cardinality((a + 1) .. n) = n - (a + 1) + 1
  BY FS_Interval
<1>3. Rank(n, (a + 1) .. h) = Cardinality((a + 1) .. n)
  BY <1>1 DEF Rank
<1> QED
  BY <1>2, <1>3

(* FirstOf lists the first numbers of an interval in order.                *)
LEMMA FirstOfInterval ==
  ASSUME NEW a \in Nat, NEW h \in Nat, a <= h
  PROVE  /\ FirstOf((a + 1) .. h) \in Seq(Nat)
         /\ Len(FirstOf((a + 1) .. h)) \in 0 .. h - a
         /\ Len(FirstOf((a + 1) .. h)) <= PageLimit
         /\ Consecutive(FirstOf((a + 1) .. h), a)
<1> DEFINE S == (a + 1) .. h
           k == Smaller(PageLimit, h - a)
<1>1. Cardinality(S) = h - a
  <2>1. Cardinality(S) = IF a + 1 > h THEN 0 ELSE h - (a + 1) + 1
    BY FS_Interval
  <2> QED
    BY <2>1
<1>2. k \in 0 .. h - a /\ k <= PageLimit
  BY SseFeedAssumption DEF Smaller
<1>3. ASSUME NEW i \in 1 .. k PROVE (CHOOSE n \in S : Rank(n, S) = i) = a + i
  <2>1. a + i \in S /\ Rank(a + i, S) = i
    BY <1>2, RankInInterval
  <2>2. \A n \in S : Rank(n, S) = i => n = a + i
    BY <1>2, RankInInterval
  <2> QED
    BY <2>1, <2>2
<1>4. FirstOf(S) = [i \in 1 .. k |-> a + i]
  BY <1>1, <1>3 DEF FirstOf
<1>5. [i \in 1 .. k |-> a + i] \in Seq(Nat) /\ Len([i \in 1 .. k |-> a + i]) = k
  BY <1>2
<1>6. Consecutive([i \in 1 .. k |-> a + i], a)
  BY <1>5 DEF Consecutive
<1> QED
  BY <1>2, <1>4, <1>5, <1>6

(* The same of Page.                                                       *)
LEMMA PageContinues ==
  ASSUME IInv, NEW r \in Rooms, NEW a \in Nat, a <= RoomHead(r)
  PROVE  /\ Page(r, a) \in Seq(Nat)
         /\ Len(Page(r, a)) \in 0 .. RoomHead(r) - a
         /\ Len(Page(r, a)) <= PageLimit
         /\ Consecutive(Page(r, a), a)
<1>1. RoomHead(r) \in Nat /\ RoomSeqs(r) = 1 .. RoomHead(r)
  BY DEF IInv, Numbering, HeadsInNat, GapFree, RoomGapFree
<1>2. {n \in RoomSeqs(r) : n > a} = (a + 1) .. RoomHead(r)
  BY <1>1
<1> QED
  BY <1>1, <1>2, FirstOfInterval DEF Page

-----------------------------------------------------------------------------
(* Taking the first of a run of consecutive numbers leaves a run.          *)
LEMMA TailOfRun ==
  ASSUME NEW n \in Nat, NEW s \in Seq(Nat), s # <<>>, Consecutive(s, n)
  PROVE  /\ Head(s) = n + 1
         /\ Tail(s) \in Seq(Nat) /\ Len(s) \in Nat \ {0} /\ Len(Tail(s)) = Len(s) - 1
         /\ Consecutive(Tail(s), n + 1)
<1>1. /\ Tail(s) \in Seq(Nat) /\ Len(s) \in Nat \ {0} /\ Len(Tail(s)) = Len(s) - 1
      /\ Head(s) = s[1] /\ \A i \in 1 .. Len(Tail(s)) : Tail(s)[i] = s[i + 1]
  BY HeadTailProperties, EmptySeq
<1>2. Head(s) = n + 1
  BY <1>1 DEF Consecutive
<1>3. ASSUME NEW i \in 1 .. Len(Tail(s)) PROVE Tail(s)[i] = (n + 1) + i
  <2>1. i + 1 \in 1 .. Len(s) /\ i \in Nat
    BY <1>1
  <2>2. s[i + 1] = n + (i + 1)
    BY <2>1 DEF Consecutive
  <2> QED
    BY <1>1, <2>1, <2>2
<1> QED
  BY <1>1, <1>2, <1>3 DEF Consecutive

(* Appending the next number to a run gives a run.                         *)
LEMMA AppendToRun ==
  ASSUME NEW n \in Nat, NEW s \in Seq(Nat), Consecutive(s, n),
         NEW h \in Nat, h = n + Len(s) + 1
  PROVE  /\ Append(s, h) \in Seq(Nat) /\ Len(Append(s, h)) = Len(s) + 1
         /\ Consecutive(Append(s, h), n)
<1>1. /\ Append(s, h) \in Seq(Nat) /\ Len(Append(s, h)) = Len(s) + 1 /\ Len(s) \in Nat
      /\ \A i \in 1 .. Len(s) : Append(s, h)[i] = s[i]
      /\ Append(s, h)[Len(s) + 1] = h
  OBVIOUS
<1>2. ASSUME NEW i \in 1 .. Len(s) + 1 PROVE Append(s, h)[i] = n + i
  <2>1. CASE i \in 1 .. Len(s)
    BY <1>1, <2>1 DEF Consecutive
  <2>2. CASE i = Len(s) + 1
    BY <1>1, <2>2
  <2> QED
    BY <1>1, <2>1, <2>2
<1> QED
  BY <1>1, <1>2 DEF Consecutive

-----------------------------------------------------------------------------
(***************************************************************************)
(* A step of the log moves the head of at most one room, by one.           *)
(***************************************************************************)
LEMMA HeadStep ==
  ASSUME IInv, [Next]_vars
  PROVE  \/ \A r \in Rooms : RoomHead(r)' = RoomHead(r)
         \/ \E s \in Rooms : \A r \in Rooms :
              RoomHead(r)' = IF r = s THEN RoomHead(r) + 1 ELSE RoomHead(r)
<1>1. ASSUME NEW q \in Requests, Commit(q)
      PROVE  \E s \in Rooms : \A r \in Rooms :
               RoomHead(r)' = IF r = s THEN RoomHead(r) + 1 ELSE RoomHead(r)
  <2>1. target[q] \in Rooms
    BY DEF IInv, TypeOK
  <2> QED
    BY <1>1, <2>1, CommitRows
<1>2. ASSUME NEW q \in Requests, Start(q) \/ Abort(q) \/ (Handle(q) /\ ~Commit(q))
      PROVE  UNCHANGED <<events, target>>
  BY <1>2 DEF Start, Abort, Handle, ReadRoomSeq, ReadWorkspaceSeq, ClaimRoomKey,
              ClaimWorkspaceKey, UniqueViolation, EnqueueOutbox, Advance
<1>3. Tick \/ UNCHANGED vars => UNCHANGED <<events, target>>
  BY DEF Tick, vars
<1> QED
  BY <1>1, <1>2, <1>3, RowsFixed DEF Next, Handle

-----------------------------------------------------------------------------
(* Nothing is in flight before the first connection.                       *)
LEMMA FeedInitInv == FeedInit => FeedInv
<1> SUFFICES ASSUME FeedInit PROVE FeedInv
  OBVIOUS
<1>1. IInv
  BY InitInv DEF FeedInit
<1>2. FeedTypeOK
  <2>1. PageBound
    BY SseFeedAssumption DEF FeedInit, PageBound
  <2> QED
    BY <1>1, <2>1 DEF IInv, FeedInit, FeedTypeOK
<1>3. PageState
  BY DEF FeedInit, PageState
<1>4. NothingSkipped
  BY <1>1, SseFeedAssumption
  DEF FeedInit, NothingSkipped, Consecutive, IInv, Numbering, HeadsInNat
<1> QED
  BY <1>1, <1>2, <1>3, <1>4 DEF FeedInv

(***************************************************************************)
(* What NothingSkipped says of one reader; a step of a reader changes no   *)
(* other reader and not the log.                                           *)
(***************************************************************************)
Unbroken(c) ==
  /\ Consecutive(net[c], received[c])
  /\ stream[c] # "closed" => cursor[c] = received[c] + Len(net[c])
  /\ Consecutive(page[c], received[c] + Len(net[c]))
  /\ received[c] + Len(net[c]) + Len(page[c]) <= RoomHead(RoomOf[c])

(* Replacing the page of one reader by a short one.                        *)
LEMMA PageBoundKept ==
  ASSUME FeedTypeOK, NEW c \in Readers, NEW p, Len(p) <= PageLimit,
         page' = [page EXCEPT ![c] = p]
  PROVE  PageBound'
BY DEF FeedTypeOK, PageBound

(* A step of the log leaves what is in flight below the head.              *)
LEMMA LogStepInv ==
  ASSUME FeedInv, Next, UNCHANGED feedVars
  PROVE  FeedInv'
<1>1. IInv'
  BY NextInv DEF FeedInv
<1>2. FeedTypeOK' /\ PageState'
  BY <1>1 DEF FeedInv, IInv, FeedTypeOK, PageBound, PageState, feedVars
<1>3. ASSUME NEW c \in Readers PROVE Unbroken(c)'
  <2>1. RoomOf[c] \in Rooms /\ RoomHead(RoomOf[c]) \in Nat
    BY SseFeedAssumption DEF FeedInv, IInv, Numbering, HeadsInNat
  <2>2. RoomHead(RoomOf[c])' \in {RoomHead(RoomOf[c]), RoomHead(RoomOf[c]) + 1}
    BY <2>1, HeadStep DEF FeedInv
  <2>3. received[c] \in Nat /\ Len(net[c]) \in Nat /\ Len(page[c]) \in Nat
    BY DEF FeedInv, FeedTypeOK
  <2>4. UNCHANGED <<received, net, cursor, stream, page>>
    BY DEF feedVars
  <2>5. Unbroken(c)
    BY DEF FeedInv, NothingSkipped, Unbroken
  <2>6. received[c] + Len(net[c]) + Len(page[c]) <= RoomHead(RoomOf[c])'
    BY <2>1, <2>2, <2>3, <2>5 DEF Unbroken
  <2> QED
    BY <2>4, <2>5, <2>6 DEF Unbroken, Consecutive
<1> QED
  BY <1>1, <1>2, <1>3 DEF FeedInv, NothingSkipped, Unbroken

(* A step of reader c: only c's part has to be looked at.                  *)
LEMMA ReaderFrame ==
  ASSUME FeedInv, NEW c \in Readers, UNCHANGED vars, FeedTypeOK',
         \A d \in Readers \ {c} :
           /\ stream'[d] = stream[d] /\ cursor'[d] = cursor[d] /\ page'[d] = page[d]
           /\ net'[d] = net[d] /\ received'[d] = received[d],
         stream'[c] = "yielding" <=> page'[c] # <<>>,
         Unbroken(c)'
  PROVE  FeedInv'
<1>1. IInv'
  BY NextInv DEF FeedInv
<1>2. \A r \in Rooms : RoomHead(r)' = RoomHead(r)
  BY RowsFixed DEF FeedInv, vars
<1>3. PageState'
  BY DEF FeedInv, PageState
<1>4. ASSUME NEW d \in Readers PROVE Unbroken(d)'
  <2>1. CASE d # c
    <3>1. RoomHead(RoomOf[d])' = RoomHead(RoomOf[d])
      BY <1>2, SseFeedAssumption
    <3> QED
      BY <2>1, <3>1 DEF FeedInv, NothingSkipped, Unbroken, Consecutive
  <2> QED
    BY <2>1
<1> QED
  BY <1>1, <1>3, <1>4 DEF FeedInv, NothingSkipped, Unbroken

(* Facts about reader c that every step below starts from.                 *)
LEMMA ReaderFacts ==
  ASSUME FeedInv, NEW c \in Readers
  PROVE  /\ IInv /\ FeedTypeOK /\ Unbroken(c)
         /\ stream[c] = "yielding" <=> page[c] # <<>>
         /\ RoomOf[c] \in Rooms /\ RoomHead(RoomOf[c]) \in Nat
         /\ stream[c] \in {"closed", "polling", "yielding"}
         /\ cursor[c] \in Nat /\ received[c] \in Nat
         /\ page[c] \in Seq(Nat) /\ net[c] \in Seq(Nat)
         /\ Len(page[c]) \in Nat /\ Len(net[c]) \in Nat
         /\ UNCHANGED vars => RoomHead(RoomOf[c])' = RoomHead(RoomOf[c])
<1>1. IInv /\ FeedTypeOK /\ Unbroken(c) /\ (stream[c] = "yielding" <=> page[c] # <<>>)
  BY DEF FeedInv, NothingSkipped, PageState, Unbroken
<1>2. RoomOf[c] \in Rooms /\ RoomHead(RoomOf[c]) \in Nat
  BY SseFeedAssumption DEF FeedInv, IInv, Numbering, HeadsInNat
<1>3. UNCHANGED vars => RoomHead(RoomOf[c])' = RoomHead(RoomOf[c])
  BY <1>1, RowsFixed DEF vars
<1>4. Len(page[c]) \in Nat /\ Len(net[c]) \in Nat
  BY <1>1 DEF FeedTypeOK
<1> QED
  BY <1>1, <1>2, <1>3, <1>4 DEF FeedTypeOK

(* The new generator starts where the client stopped.                      *)
LEMMA ConnectInv ==
  ASSUME FeedInv, NEW c \in Readers, Connect(c)
  PROVE  FeedInv'
<1> USE DEF Connect
<1>1. FeedTypeOK' /\ UNCHANGED vars
  BY ReaderFacts DEF FeedTypeOK, PageBound, TypeOK, vars
<1>2. /\ stream'[c] = "polling" /\ cursor'[c] = received[c]
      /\ stream[c] = "closed" /\ net[c] = <<>>
      /\ net' = net /\ page' = page /\ received' = received
  BY ReaderFacts DEF FeedTypeOK
<1>3. Unbroken(c)'
  BY <1>1, <1>2, ReaderFacts DEF Unbroken, Consecutive
<1>4. \A d \in Readers \ {c} : stream'[d] = stream[d] /\ cursor'[d] = cursor[d]
  BY ReaderFacts DEF FeedTypeOK
<1> QED
  BY <1>1, <1>2, <1>3, <1>4, ReaderFacts, ReaderFrame

(* The page continues after the cursor, whatever was committed meanwhile.  *)
LEMMA PollInv ==
  ASSUME FeedInv, NEW c \in Readers, Poll(c)
  PROVE  FeedInv'
<1> USE DEF Poll
<1> DEFINE p == Page(RoomOf[c], cursor[c])
<1>1. /\ page[c] = <<>> /\ cursor[c] = received[c] + Len(net[c])
      /\ cursor[c] <= RoomHead(RoomOf[c])
  BY ReaderFacts DEF Unbroken
<1>2. /\ p \in Seq(Nat) /\ Len(p) \in 0 .. RoomHead(RoomOf[c]) - cursor[c]
      /\ Consecutive(p, cursor[c]) /\ Len(p) <= PageLimit
  BY <1>1, ReaderFacts, PageContinues
<1>3. /\ page'[c] = p
      /\ stream'[c] = IF p = <<>> THEN Rest(c) ELSE "yielding"
      /\ net' = net /\ received' = received /\ cursor' = cursor /\ UNCHANGED vars
  BY ReaderFacts DEF FeedTypeOK
<1>4. Rest(c) \in {"closed", "polling"}
  BY DEF Rest
<1>5. FeedTypeOK'
  <2>1. page' = [page EXCEPT ![c] = p]
    BY <1>3
  <2>2. PageBound'
    BY <1>2, <2>1, ReaderFacts, PageBoundKept
  <2> QED
    BY <1>2, <1>3, <1>4, <2>2, ReaderFacts DEF FeedTypeOK, TypeOK, vars
<1>6. Unbroken(c)'
  <2>1. RoomHead(RoomOf[c])' = RoomHead(RoomOf[c]) /\ RoomHead(RoomOf[c]) \in Nat
    BY <1>3, ReaderFacts
  <2>2. /\ cursor[c] \in Nat /\ received[c] \in Nat /\ Len(net[c]) \in Nat
        /\ Consecutive(net[c], received[c])
    BY ReaderFacts DEF Unbroken
  <2>3. cursor[c] + Len(p) <= RoomHead(RoomOf[c])
    BY <1>1, <1>2, <2>1, <2>2
  <2> QED
    BY <1>1, <1>2, <1>3, <2>1, <2>2, <2>3 DEF Unbroken, Consecutive
<1>7. \A d \in Readers \ {c} : stream'[d] = stream[d] /\ page'[d] = page[d]
  BY ReaderFacts DEF FeedTypeOK
<1> QED
  BY <1>3, <1>4, <1>5, <1>6, <1>7, ReaderFrame

(* Yielding moves one event from the page to the wire.                     *)
LEMMA YieldInv ==
  ASSUME FeedInv, NEW c \in Readers, Yield(c)
  PROVE  FeedInv'
<1> DEFINE h == Head(page[c])
           t == Tail(page[c])
<1>1. /\ page[c] # <<>> /\ cursor[c] = received[c] + Len(net[c])
      /\ Consecutive(page[c], cursor[c]) /\ Consecutive(net[c], received[c])
      /\ received[c] + Len(net[c]) + Len(page[c]) <= RoomHead(RoomOf[c])
  BY ReaderFacts DEF Yield, Unbroken
<1>2. /\ h = cursor[c] + 1 /\ t \in Seq(Nat) /\ Len(t) = Len(page[c]) - 1
      /\ Consecutive(t, cursor[c] + 1)
  BY <1>1, ReaderFacts, TailOfRun
<1>3. /\ Append(net[c], h) \in Seq(Nat) /\ Len(Append(net[c], h)) = Len(net[c]) + 1
      /\ Consecutive(Append(net[c], h), received[c])
  <2>1. h = received[c] + Len(net[c]) + 1 /\ h \in Nat
    BY <1>1, <1>2, ReaderFacts
  <2> QED
    BY <1>1, <2>1, ReaderFacts, AppendToRun
<1>4. /\ cursor'[c] = h /\ page'[c] = t /\ net'[c] = Append(net[c], h)
      /\ stream'[c] = IF t = <<>> THEN Rest(c) ELSE stream[c]
      /\ received' = received /\ UNCHANGED vars /\ stream[c] = "yielding"
  BY ReaderFacts DEF Yield, FeedTypeOK
<1>5. Rest(c) \in {"closed", "polling"}
  BY DEF Rest
<1>6. FeedTypeOK'
  <2>1. TypeOK'
    BY <1>4, ReaderFacts DEF FeedTypeOK, TypeOK, vars
  <2>2. h \in Nat
    BY <1>2, ReaderFacts
  <2>3. PageBound'
    <3>1. Len(page[c]) \in Nat /\ Len(page[c]) <= PageLimit /\ PageLimit \in Nat
      BY ReaderFacts, SseFeedAssumption DEF FeedTypeOK, PageBound
    <3>2. Len(t) <= PageLimit
      BY <1>2, <3>1
    <3> QED
      BY <3>2, ReaderFacts, PageBoundKept DEF Yield
  <2> QED
    BY <1>2, <1>3, <1>5, <2>1, <2>2, <2>3, ReaderFacts DEF FeedTypeOK, Yield
<1>7. received[c] + Len(net'[c]) = cursor[c] + 1
  <2>1. received[c] \in Nat /\ Len(net[c]) \in Nat /\ Len(net'[c]) = Len(net[c]) + 1
    BY <1>3, <1>4, ReaderFacts
  <2> QED
    BY <1>1, <2>1
<1>8. received[c] + Len(net'[c]) + Len(page'[c]) <= RoomHead(RoomOf[c])
  <2>1. /\ cursor[c] \in Nat /\ Len(page[c]) \in Nat /\ RoomHead(RoomOf[c]) \in Nat
        /\ cursor[c] + Len(page[c]) <= RoomHead(RoomOf[c])
    BY <1>1, ReaderFacts
  <2>2. Len(page'[c]) = Len(page[c]) - 1
    BY <1>2, <1>4
  <2> QED
    BY <1>7, <2>1, <2>2
<1>9. Unbroken(c)'
  <2>1. RoomHead(RoomOf[c])' = RoomHead(RoomOf[c])
    BY <1>4, ReaderFacts
  <2> QED
    BY <1>2, <1>3, <1>4, <1>7, <1>8, <2>1 DEF Unbroken, Consecutive
<1>10. \A d \in Readers \ {c} :
         /\ stream'[d] = stream[d] /\ page'[d] = page[d]
         /\ net'[d] = net[d] /\ cursor'[d] = cursor[d]
  BY ReaderFacts DEF Yield, FeedTypeOK
<1> QED
  BY <1>4, <1>5, <1>6, <1>9, <1>10, ReaderFrame

(* Receiving moves the client's resume point over the first event sent.    *)
LEMMA ReceiveInv ==
  ASSUME FeedInv, NEW c \in Readers, Receive(c)
  PROVE  /\ FeedInv'
         /\ received[c] < RoomHead(RoomOf[c])
         /\ received' = [received EXCEPT ![c] = @ + 1]
<1> DEFINE t == Tail(net[c])
<1>1. /\ net[c] # <<>>
      /\ Consecutive(net[c], received[c])
      /\ stream[c] # "closed" => cursor[c] = received[c] + Len(net[c])
      /\ Consecutive(page[c], received[c] + Len(net[c]))
      /\ received[c] + Len(net[c]) + Len(page[c]) <= RoomHead(RoomOf[c])
  BY ReaderFacts DEF Receive, Unbroken
<1>2. /\ Head(net[c]) = received[c] + 1 /\ t \in Seq(Nat) /\ Len(t) = Len(net[c]) - 1
      /\ Len(net[c]) \in Nat \ {0} /\ Consecutive(t, received[c] + 1)
  BY <1>1, ReaderFacts, TailOfRun
<1>3. /\ received' = [received EXCEPT ![c] = @ + 1]
      /\ received'[c] = received[c] + 1 /\ net'[c] = t /\ page' = page
      /\ stream' = stream /\ cursor' = cursor /\ UNCHANGED vars
  BY <1>2, ReaderFacts DEF Receive, FeedTypeOK
<1>4. FeedTypeOK'
  <2>1. TypeOK'
    BY <1>3, ReaderFacts DEF FeedTypeOK, TypeOK, vars
  <2>2. Head(net[c]) \in Nat
    BY <1>2, ReaderFacts
  <2> QED
    BY <1>2, <2>1, <2>2, ReaderFacts DEF FeedTypeOK, PageBound, Receive
<1>5. received[c] + 1 + Len(t) = received[c] + Len(net[c])
  <2>1. ASSUME NEW a \in Nat, NEW n \in Nat \ {0} PROVE a + 1 + (n - 1) = a + n
    OBVIOUS
  <2> QED
    BY <1>2, <2>1, ReaderFacts
<1>6. Unbroken(c)'
  <2>1. RoomHead(RoomOf[c])' = RoomHead(RoomOf[c])
    BY <1>3, ReaderFacts
  <2> QED
    BY <1>1, <1>2, <1>3, <1>5, <2>1 DEF Unbroken, Consecutive
<1>7. \A d \in Readers \ {c} : net'[d] = net[d] /\ received'[d] = received[d]
  BY ReaderFacts DEF Receive, FeedTypeOK
<1>8. FeedInv'
  BY <1>3, <1>4, <1>6, <1>7, ReaderFacts, ReaderFrame
<1>9. received[c] < RoomHead(RoomOf[c])
  <2>1. ASSUME NEW a \in Nat, NEW n \in Nat \ {0}, NEW m \in Nat, NEW k \in Nat,
               a + n + m <= k
        PROVE  a < k
    BY <2>1
  <2> QED
    BY <1>1, <1>2, <2>1, ReaderFacts
<1> QED
  BY <1>3, <1>8, <1>9

(* Ending a stream, losing a connection, joining and leaving only discard. *)
LEMMA QuietInv ==
  ASSUME FeedInv, NEW c \in Readers, PollRefused(c) \/ Drop(c) \/ ChangeMembership(c)
  PROVE  FeedInv' /\ received' = received
<1>1. CASE PollRefused(c)
  <2> USE <1>1 DEF PollRefused
  <2>1. FeedTypeOK' /\ UNCHANGED vars /\ stream'[c] = "closed" /\ page[c] = <<>>
    BY ReaderFacts DEF FeedTypeOK, PageBound, TypeOK, vars
  <2>2. Unbroken(c)'
    BY <2>1, ReaderFacts DEF Unbroken, Consecutive
  <2>3. \A d \in Readers \ {c} : stream'[d] = stream[d]
    BY ReaderFacts DEF FeedTypeOK
  <2> QED
    BY <2>1, <2>2, <2>3, ReaderFrame
<1>2. CASE Drop(c)
  <2> USE <1>2 DEF Drop
  <2>1. /\ FeedTypeOK' /\ UNCHANGED vars /\ stream'[c] = "closed" /\ received' = received
        /\ page'[c] = <<>> /\ net'[c] = <<>>
    <3>1. PageBound'
      <4>1. Len(<<>>) <= PageLimit
        BY SseFeedAssumption
      <4> QED
        BY <4>1, ReaderFacts, PageBoundKept
    <3> QED
      BY <3>1, ReaderFacts DEF FeedTypeOK, TypeOK, vars
  <2>2. received[c] \in Nat /\ received[c] <= RoomHead(RoomOf[c])
    <3>1. /\ received[c] \in Nat /\ Len(net[c]) \in Nat /\ Len(page[c]) \in Nat
          /\ RoomHead(RoomOf[c]) \in Nat
          /\ received[c] + Len(net[c]) + Len(page[c]) <= RoomHead(RoomOf[c])
      BY ReaderFacts DEF Unbroken
    <3> QED
      BY <3>1
  <2>3. Unbroken(c)'
    <3>1. RoomHead(RoomOf[c])' = RoomHead(RoomOf[c]) /\ Len(<<>>) = 0
      BY <2>1, ReaderFacts
    <3> QED
      BY <2>1, <2>2, <3>1 DEF Unbroken, Consecutive
  <2>4. \A d \in Readers \ {c} :
          stream'[d] = stream[d] /\ page'[d] = page[d] /\ net'[d] = net[d]
    BY ReaderFacts DEF FeedTypeOK
  <2> QED
    BY <2>1, <2>3, <2>4, ReaderFrame
<1>3. CASE ChangeMembership(c)
  <2> USE <1>3 DEF ChangeMembership
  <2>1. FeedTypeOK' /\ UNCHANGED vars
    BY ReaderFacts DEF FeedTypeOK, PageBound, TypeOK, vars
  <2>2. Unbroken(c)'
    BY <2>1, ReaderFacts DEF Unbroken, Consecutive
  <2> QED
    BY <2>1, <2>2, ReaderFacts, ReaderFrame
<1> QED
  BY <1>1, <1>2, <1>3

-----------------------------------------------------------------------------
(* Every step of FeedNext, and stuttering, keeps the inductive invariant.  *)
LEMMA FeedNextInv == FeedInv /\ [FeedNext]_readVars => FeedInv'
<1> SUFFICES ASSUME FeedInv, [FeedNext]_readVars PROVE FeedInv'
  OBVIOUS
<1>1. CASE Next /\ UNCHANGED feedVars
  BY <1>1, LogStepInv
<1>2. ASSUME NEW c \in Readers,
             Connect(c) \/ Serve(c) \/ Drop(c) \/ ChangeMembership(c)
      PROVE  FeedInv'
  BY <1>2, ConnectInv, PollInv, YieldInv, ReceiveInv, QuietInv DEF Serve
<1>3. CASE UNCHANGED readVars
  <2>1. IInv'
    BY <1>3, NextInv DEF FeedInv, readVars
  <2>2. \A r \in Rooms : RoomHead(r)' = RoomHead(r)
    BY <1>3, RowsFixed DEF FeedInv, readVars, vars
  <2>3. FeedTypeOK' /\ PageState'
    BY <1>3, <2>1 DEF FeedInv, IInv, FeedTypeOK, PageBound, PageState, readVars, feedVars
  <2>4. NothingSkipped'
    BY <1>3, <2>2, SseFeedAssumption
    DEF FeedInv, NothingSkipped, Consecutive, readVars, feedVars
  <2> QED
    BY <2>1, <2>3, <2>4 DEF FeedInv
<1> QED
  BY <1>1, <1>2, <1>3 DEF FeedNext

(* The inductive invariant of the feed holds in every reachable state.     *)
THEOREM FeedInvariance == FeedSpec => []FeedInv
<1> QED
  BY FeedInitInv, FeedNextInv, PTL DEF FeedSpec

(* Every reachable state is well typed, and no page exceeds PageLimit.      *)
THEOREM FeedTypeCorrect == FeedSpec => []FeedTypeOK
<1>1. FeedInv => FeedTypeOK
  BY DEF FeedInv
<1> QED
  BY <1>1, FeedInvariance, PTL

(* Client, wire and generator follow each other without hole or overlap,   *)
(* for every history of commits, pages, disconnects and resumptions.       *)
THEOREM FeedSkipsNothing == FeedSpec => []NothingSkipped
<1>1. FeedInv => NothingSkipped
  BY DEF FeedInv
<1> QED
  BY <1>1, FeedInvariance, PTL

-----------------------------------------------------------------------------
(***************************************************************************)
(* The feed implements the abstract event stream.                          *)
(***************************************************************************)
LEMMA FeedInitRefines == FeedInit => Stream!Init
<1> SUFFICES ASSUME FeedInit PROVE Stream!Init
  OBVIOUS
<1>1. \A r \in Rooms : RoomHead(r) = 0
  BY DEF FeedInit, Init, RoomHead, RoomSeqs, RoomEvents, MaxSeq
<1> QED
  BY <1>1 DEF FeedInit, Stream!Init

(* A commit is an Append, a receipt a Deliver, any other step a stutter.   *)
LEMMA FeedNextRefines ==
  ASSUME FeedInv, [FeedNext]_readVars
  PROVE  [Stream!Next]_<<[r \in Rooms |-> RoomHead(r)], received>>
<1> DEFINE length == [r \in Rooms |-> RoomHead(r)]
<1>1. ASSUME NEW c \in Readers, Receive(c)
      PROVE  Stream!Deliver(c)
  <2>1. \A r \in Rooms : RoomHead(r)' = RoomHead(r)
    BY <1>1, RowsFixed DEF FeedInv, Receive, vars
  <2>2. length' = length /\ RoomOf[c] \in Rooms
    BY <2>1, SseFeedAssumption
  <2> QED
    BY <1>1, <2>2, ReceiveInv DEF Stream!Deliver
<1>2. ASSUME NEW c \in Readers,
             Connect(c) \/ Poll(c) \/ PollRefused(c) \/ Yield(c) \/ Drop(c)
               \/ ChangeMembership(c)
      PROVE  UNCHANGED <<length, received>>
  <2>1. UNCHANGED <<vars, received>>
    BY <1>2 DEF Connect, Poll, PollRefused, Yield, Drop, ChangeMembership
  <2>2. \A r \in Rooms : RoomHead(r)' = RoomHead(r)
    BY <2>1, RowsFixed DEF FeedInv, vars
  <2> QED
    BY <2>1, <2>2
<1>3. ASSUME [Next]_vars, UNCHANGED feedVars
      PROVE  (\E s \in Rooms : Stream!Append(s)) \/ UNCHANGED <<length, received>>
  <2>1. received' = received
    BY <1>3 DEF feedVars
  <2>2. CASE \A r \in Rooms : RoomHead(r)' = RoomHead(r)
    BY <2>1, <2>2
  <2>3. ASSUME NEW s \in Rooms,
               \A r \in Rooms :
                 RoomHead(r)' = IF r = s THEN RoomHead(r) + 1 ELSE RoomHead(r)
        PROVE  Stream!Append(s)
    BY <2>1, <2>3 DEF Stream!Append
  <2> QED
    BY <1>3, <2>2, <2>3, HeadStep DEF FeedInv
<1> QED
  BY <1>1, <1>2, <1>3 DEF FeedNext, Serve, Stream!Next, readVars

(* Every behaviour of the feed is a behaviour of the abstract stream: each *)
(* reader receives the events of its room in order, exactly once.          *)
THEOREM FeedImplementsStream == FeedSpec => ImplementsEventStream
<1>1. FeedInv /\ [FeedNext]_readVars
        => [Stream!Next]_<<[r \in Rooms |-> RoomHead(r)], received>>
  BY FeedNextRefines
<1> QED
  BY <1>1, FeedInvariance, FeedInitRefines, PTL
  DEF FeedSpec, ImplementsEventStream, Stream!Spec

=============================================================================
