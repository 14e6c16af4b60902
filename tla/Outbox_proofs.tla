---------------------------- MODULE Outbox_proofs ----------------------------
(* Proofs about Outbox, for any number of rows and workers, any batch size *)
(* and any number of attempts.                                             *)
EXTENDS Outbox, Functions, SequenceTheorems, FiniteSetTheorems, TLAPS

-----------------------------------------------------------------------------
(***************************************************************************)
(* Rank numbers the rows of a set from 1 in their order.  That every       *)
(* number is met follows by counting: an injection between sets of the     *)
(* same size is onto.                                                      *)
(***************************************************************************)
LEMMA RankFacts ==
  ASSUME NEW S \in SUBSET OutboxRows
  PROVE  /\ IsFiniteSet(S) /\ Cardinality(S) \in Nat
         /\ \A r \in S : Rank(r, S) \in 1 .. Cardinality(S)
         /\ \A r, s \in S : s < r => Rank(s, S) < Rank(r, S)
         /\ \A i \in 1 .. Cardinality(S) : \E r \in S : Rank(r, S) = i
<1> DEFINE UpTo(r) == {s \in S : s <= r}
<1>0. \A r \in S : r \in Nat
  BY OutboxAssumption DEF OutboxRows
<1>1. IsFiniteSet(S) /\ Cardinality(S) \in Nat
  <2>1. IsFiniteSet(OutboxRows)
    BY OutboxAssumption, FS_Interval DEF OutboxRows
  <2> QED
    BY <2>1, FS_Subset, FS_CardinalityType
<1>2. \A r \in S : IsFiniteSet(UpTo(r)) /\ Cardinality(UpTo(r)) \in Nat
  BY <1>1, FS_Subset, FS_CardinalityType
<1>3. ASSUME NEW r \in S PROVE Rank(r, S) \in 1 .. Cardinality(S)
  <2>1. Cardinality(UpTo(r)) <= Cardinality(S)
    BY <1>1, FS_Subset
  <2>2. UpTo(r) # {}
    BY <1>0
  <2>3. Cardinality(UpTo(r)) # 0
    BY <1>2, <2>2, FS_EmptySet
  <2> QED
    BY <1>1, <1>2, <2>1, <2>3 DEF Rank
<1>4. ASSUME NEW r \in S, NEW s \in S, s < r PROVE Rank(s, S) < Rank(r, S)
  <2>1. UpTo(s) \in SUBSET UpTo(r) /\ r \in UpTo(r) /\ r \notin UpTo(s)
    BY <1>0, <1>4
  <2>2. Cardinality(UpTo(s)) <= Cardinality(UpTo(r))
        /\ Cardinality(UpTo(s)) # Cardinality(UpTo(r))
    BY <1>2, <2>1, FS_Subset
  <2> QED
    BY <1>2, <2>2 DEF Rank
<1>5. ASSUME NEW i \in 1 .. Cardinality(S) PROVE \E r \in S : Rank(r, S) = i
  <2> DEFINE T == 1 .. Cardinality(S)
             f == [r \in S |-> Rank(r, S)]
  <2>1. \A r, s \in S : f[r] = f[s] => r = s
    <3> SUFFICES ASSUME NEW r \in S, NEW s \in S, Rank(r, S) = Rank(s, S)
                 PROVE  r = s
      OBVIOUS
    <3>1. r \in Nat /\ s \in Nat /\ Rank(r, S) \in Nat
      BY <1>0, <1>1, <1>3
    <3>2. ~(s < r) /\ ~(r < s)
      BY <1>4, <3>1
    <3> QED
      BY <3>1, <3>2
  <2>2. f \in Injection(S, T)
    BY <1>3, <2>1 DEF Injection, IsInjective
  <2>3. IsFiniteSet(T) /\ Cardinality(T) = Cardinality(S)
    <3>1. /\ IsFiniteSet(T)
          /\ Cardinality(T) = IF 1 > Cardinality(S) THEN 0 ELSE Cardinality(S) - 1 + 1
      BY <1>1, FS_Interval
    <3> QED
      BY <1>1, <3>1
  <2>4. f \in Surjection(S, T)
    BY <2>2, <2>3, FS_Injection
  <2> QED
    BY <2>4 DEF Surjection
<1> QED
  BY <1>1, <1>3, <1>4, <1>5

(***************************************************************************)
(* Oldest lists rows of the set in order, and with a row it lists every    *)
(* older row of the set.                                                   *)
(***************************************************************************)
LEMMA OldestFacts ==
  ASSUME NEW S \in SUBSET OutboxRows
  PROVE  /\ Oldest(S) \in Seq(S)
         /\ \A i, j \in 1 .. Len(Oldest(S)) : i < j => Oldest(S)[i] < Oldest(S)[j]
         /\ \A i \in 1 .. Len(Oldest(S)) : \A s \in S :
              s < Oldest(S)[i] => \E j \in 1 .. Len(Oldest(S)) : Oldest(S)[j] = s
<1> DEFINE c == Cardinality(S)
           k == IF BatchSize <= c THEN BatchSize ELSE c
           At(i) == CHOOSE r \in S : Rank(r, S) = i
<1>0. \A r \in S : r \in Nat
  BY OutboxAssumption DEF OutboxRows
<1>1. c \in Nat /\ k \in Nat /\ k <= c
  BY RankFacts, OutboxAssumption
<1>2. {n \in 1 .. BatchSize : n <= Cardinality(S)} = 1 .. k
  BY <1>1, OutboxAssumption
<1>3. Oldest(S) = [i \in 1 .. k |-> At(i)]
  BY <1>2 DEF Oldest
<1>4. \A i \in 1 .. k : At(i) \in S /\ Rank(At(i), S) = i
  BY <1>1, RankFacts
<1> HIDE DEF k, At
<1>5. Oldest(S) \in Seq(S) /\ Len(Oldest(S)) = k /\ \A i \in 1 .. k : Oldest(S)[i] = At(i)
  BY <1>1, <1>3, <1>4
<1>6. ASSUME NEW i \in 1 .. k, NEW j \in 1 .. k, i < j PROVE At(i) < At(j)
  <2>1. At(i) \in Nat /\ At(j) \in Nat
    BY <1>0, <1>4
  <2>2. ~(At(j) < At(i)) /\ At(i) # At(j)
    BY <1>4, <1>6, RankFacts
  <2> QED
    BY <2>1, <2>2
<1>7. ASSUME NEW i \in 1 .. k, NEW s \in S, s < At(i)
      PROVE  \E j \in 1 .. k : At(j) = s
  <2>1. Rank(s, S) \in 1 .. k
    <3>1. Rank(s, S) \in 1 .. c /\ Rank(s, S) < i
      BY <1>4, <1>7, RankFacts
    <3> QED
      BY <1>1, <3>1
  <2>2. At(Rank(s, S)) \in S /\ Rank(At(Rank(s, S)), S) = Rank(s, S)
    BY <1>4, <2>1
  <2>3. At(Rank(s, S)) = s
    <3>1. Rank(s, S) \in Nat /\ s \in Nat /\ At(Rank(s, S)) \in Nat
      BY <1>0, <2>1, <2>2
    <3>2. ~(s < At(Rank(s, S))) /\ ~(At(Rank(s, S)) < s)
      BY <2>2, <3>1, RankFacts
    <3> QED
      BY <3>1, <3>2
  <2> QED
    BY <2>1, <2>3
<1> QED
  BY <1>5, <1>6, <1>7

-----------------------------------------------------------------------------
(* A worker's copies are functions on rows.                                *)
LEMMA CopyType ==
  ASSUME TypeOK, NEW p \in Workers
  PROVE  /\ DOMAIN copy[p] \in SUBSET OutboxRows
         /\ copy[p] \in [DOMAIN copy[p] -> Copies]
         /\ \A r \in DOMAIN copy[p] : copy[p][r].attempts \in 0 .. MaxAttempts
<1>1. PICK S \in SUBSET OutboxRows : copy[p] \in [S -> Copies]
  BY DEF TypeOK
<1>2. DOMAIN copy[p] = S
  BY <1>1
<1> QED
  BY <1>1, <1>2 DEF Copies

(* An empty table, no batches.                                             *)
LEMMA InitInv == Init => IInv
<1> SUFFICES ASSUME Init PROVE IInv
  OBVIOUS
<1> USE OutboxAssumption DEF Init
<1>1. TypeOK
  <2>1. copy \in [Workers -> UNION {[S -> Copies] : S \in SUBSET OutboxRows}]
    <3>1. NoCopy \in [{} -> Copies]
      BY DEF NoCopy
    <3>2. {} \in SUBSET OutboxRows
      OBVIOUS
    <3>3. NoCopy \in UNION {[S -> Copies] : S \in SUBSET OutboxRows}
      BY <3>1, <3>2
    <3> QED
      BY <3>3
  <2>2. todo \in [Workers -> Seq(OutboxRows)]
    BY EmptySeq
  <2> QED
    BY <2>1, <2>2 DEF TypeOK, Statuses
<1>2. /\ \A p \in Workers : DOMAIN copy[p] = {} /\ Len(todo[p]) = 0
      /\ \A r \in OutboxRows : status[r] = "pending" /\ attempts[r] = 0
  BY EmptySeq DEF NoCopy
<1>3. TodoSorted /\ TodoUntried /\ RestTried /\ CopyWasSent /\ OlderKnown
  BY <1>2 DEF TodoSorted, TodoUntried, RestTried, CopyWasSent, OlderKnown
<1>4. AttemptLeft /\ SettledTried /\ PublishedWasSent /\ EnqueuedInOrder
  BY <1>2 DEF AttemptLeft, SettledTried, PublishedWasSent, EnqueuedInOrder
<1> QED
  BY <1>1, <1>3, <1>4 DEF IInv

(* A new row is pending, untried, and the older rows of its room exist.    *)
LEMMA EnqueueInv ==
  ASSUME IInv, NEW r \in OutboxRows, Enqueue(r)
  PROVE  IInv'
<1>1. TypeOK'
  BY DEF IInv, TypeOK, Enqueue
<1>2. EnqueuedInOrder'
  BY DEF IInv, EnqueuedInOrder, Enqueue
<1>3. /\ TodoSorted' /\ TodoUntried' /\ RestTried' /\ AttemptLeft'
      /\ SettledTried' /\ PublishedWasSent' /\ CopyWasSent' /\ OlderKnown'
  BY DEF IInv, TodoSorted, TodoUntried, RestTried, InTodo, AttemptLeft, SettledTried,
         PublishedWasSent, CopyWasSent, OlderKnown, Enqueue
<1> QED
  BY <1>1, <1>2, <1>3 DEF IInv

(***************************************************************************)
(* The batch is sorted, pending and unchanged; an older row of the room    *)
(* that is still pending is visible, so it is in the batch too.            *)
(***************************************************************************)
LEMMA SelectBatchInv ==
  ASSUME IInv, NEW p \in Workers, SelectBatch(p)
  PROVE  IInv'
<1> DEFINE b == PendingBatch
           D == {b[i] : i \in 1 .. Len(b)}
           loaded == [r \in D |-> [status |-> "pending", attempts |-> attempts[r]]]
<1>1. TypeOK /\ Pending \in SUBSET OutboxRows
  BY DEF IInv, TypeOK, Pending
<1>2. /\ b \in Seq(Pending)
      /\ \A i, j \in 1 .. Len(b) : i < j => b[i] < b[j]
      /\ \A i \in 1 .. Len(b) : \A s \in Pending :
           s < b[i] => \E j \in 1 .. Len(b) : b[j] = s
  BY <1>1, OldestFacts DEF PendingBatch
<1> HIDE DEF b
<1>3. b \in Seq(OutboxRows) /\ D \in SUBSET Pending /\ Len(b) \in Nat
  BY <1>1, <1>2, SeqMonotonic, ElementOfSeq, LenProperties
<1>4. /\ todo' = [todo EXCEPT ![p] = b]
      /\ copy' = [copy EXCEPT ![p] = loaded]
      /\ busy' = [busy EXCEPT ![p] = TRUE]
      /\ UNCHANGED <<enqueued, status, attempts, sent, crashes>>
  BY DEF SelectBatch, b, table
<1>5. todo'[p] = b /\ copy'[p] = loaded
  BY <1>1, <1>4 DEF TypeOK
<1>6. \A q \in Workers \ {p} : todo'[q] = todo[q] /\ copy'[q] = copy[q]
  BY <1>1, <1>4 DEF TypeOK
<1>7. /\ DOMAIN loaded = D
      /\ \A r \in D : loaded[r].status = "pending" /\ loaded[r].attempts = attempts[r]
      /\ \A r \in D : r \in OutboxRows /\ r \in enqueued /\ status[r] = "pending"
  BY <1>1, <1>3 DEF Pending
<1>8. loaded \in [D -> Copies]
  BY <1>1, <1>7 DEF TypeOK, Copies, Statuses
<1> HIDE DEF loaded
<1>9. TypeOK'
  <2>1. loaded \in UNION {[S -> Copies] : S \in SUBSET OutboxRows}
    BY <1>7, <1>8
  <2> QED
    BY <1>1, <1>3, <1>4, <2>1 DEF TypeOK
<1>10. TodoSorted'
  BY <1>2, <1>5, <1>6 DEF IInv, TodoSorted
<1>11. TodoUntried'
  BY <1>5, <1>6, <1>7 DEF IInv, TodoUntried
<1>12. RestTried'
  BY <1>5, <1>6, <1>7 DEF IInv, RestTried, InTodo
<1>13. AttemptLeft'
  BY <1>4, <1>5, <1>6, <1>7 DEF IInv, AttemptLeft
<1>14. CopyWasSent'
  BY <1>4, <1>5, <1>6, <1>7 DEF IInv, CopyWasSent
<1>15. OlderKnown'
  <2> SUFFICES ASSUME NEW q \in Workers, NEW r \in DOMAIN copy'[q], NEW s \in 1 .. r - 1,
                      RoomOf[s] = RoomOf[r]
               PROVE  s \in DOMAIN copy'[q] \/ status'[s] # "pending"
    BY DEF OlderKnown
  <2>1. CASE q # p
    BY <1>4, <1>6, <2>1 DEF IInv, OlderKnown
  <2>2. CASE q = p
    <3>1. r \in D
      BY <1>5, <1>7, <2>2
    <3>2. PICK i \in 1 .. Len(b) : b[i] = r
      BY <3>1
    <3>3. s \in enqueued /\ s < r
      BY <1>7, <3>1, OutboxAssumption DEF IInv, EnqueuedInOrder, OutboxRows
    <3>4. CASE status[s] = "pending"
      <4>1. s \in Pending
        BY <3>3, <3>4 DEF Pending
      <4> QED
        BY <1>2, <1>5, <1>7, <2>2, <3>2, <3>3, <4>1
    <3> QED
      BY <1>4, <3>4
  <2> QED
    BY <2>1, <2>2
<1>16. SettledTried' /\ PublishedWasSent' /\ EnqueuedInOrder'
  BY <1>4 DEF IInv, SettledTried, PublishedWasSent, EnqueuedInOrder
<1> QED
  BY <1>9, <1>10, <1>11, <1>12, <1>13, <1>14, <1>15, <1>16 DEF IInv

(***************************************************************************)
(* An attempt at the first untried row of worker p.  Its copy was pending, *)
(* so an attempt was left; the rest of the batch stays sorted and untried. *)
(***************************************************************************)
LEMMA TriedInv ==
  ASSUME IInv, NEW p \in Workers, NEW r, NEW outcome \in Statuses,
         Tried(p, r, outcome),
         outcome = "pending" => copy[p][r].attempts + 1 < MaxAttempts,
         sent \subseteq sent', sent' \subseteq OutboxRows,
         outcome = "published" => r \in sent'
  PROVE  IInv'
<1> DEFINE t == todo[p]
           u == Tail(todo[p])
           done == [status |-> outcome, attempts |-> copy[p][r].attempts + 1]
<1>1. TypeOK /\ t \in Seq(OutboxRows) /\ t # <<>> /\ r = t[1]
  BY DEF IInv, TypeOK, Tried
<1>2. /\ u \in Seq(OutboxRows) /\ Len(t) \in Nat \ {0}
      /\ Len(u) = Len(t) - 1 /\ Len(u) \in Nat
      /\ \A i \in 1 .. Len(u) : u[i] = t[i + 1] /\ i + 1 \in 1 .. Len(t)
  BY <1>1, HeadTailProperties, LenProperties, EmptySeq
<1>3. r \in DOMAIN copy[p] /\ copy[p][r].status = "pending" /\ r \in OutboxRows
  BY <1>1, <1>2, ElementOfSeq DEF IInv, TodoUntried
<1>4. copy[p][r].attempts \in Nat /\ copy[p][r].attempts < MaxAttempts
  BY <1>1, <1>3, CopyType, OutboxAssumption DEF IInv, AttemptLeft
<1>5. done \in Copies /\ done.attempts > 0
  BY <1>4, OutboxAssumption DEF Copies
<1>6. /\ todo' = [todo EXCEPT ![p] = u]
      /\ copy' = [copy EXCEPT ![p] = [copy[p] EXCEPT ![r] = done]]
      /\ UNCHANGED <<enqueued, status, attempts, busy, crashes>>
  BY DEF Tried, table
<1>7. todo'[p] = u /\ copy'[p] = [copy[p] EXCEPT ![r] = done]
  BY <1>1, <1>6 DEF TypeOK
<1>8. \A q \in Workers \ {p} : todo'[q] = todo[q] /\ copy'[q] = copy[q]
  BY <1>1, <1>6 DEF TypeOK
<1>9. /\ DOMAIN copy'[p] = DOMAIN copy[p]
      /\ copy'[p][r] = done
      /\ \A s \in DOMAIN copy[p] \ {r} : copy'[p][s] = copy[p][s]
  BY <1>3, <1>7
<1>10. \A i \in 1 .. Len(u) : t[i + 1] # r
  <2>1. \A i \in 1 .. Len(u) : t[1] < t[i + 1]
    BY <1>2 DEF IInv, TodoSorted
  <2>2. \A i \in 1 .. Len(t) : t[i] \in Nat
    BY <1>1, ElementOfSeq, OutboxAssumption DEF OutboxRows
  <2> QED
    BY <1>1, <1>2, <2>1, <2>2
<1> HIDE DEF t, u, done
<1>11. TypeOK'
  <2>1. copy'[p] \in [DOMAIN copy[p] -> Copies]
    BY <1>1, <1>3, <1>5, <1>7, CopyType
  <2>2. copy'[p] \in UNION {[S -> Copies] : S \in SUBSET OutboxRows}
    BY <1>1, <2>1, CopyType
  <2>3. copy' \in [Workers -> UNION {[S -> Copies] : S \in SUBSET OutboxRows}]
    BY <1>1, <1>6, <1>7, <2>2 DEF TypeOK
  <2>4. todo' \in [Workers -> Seq(OutboxRows)]
    BY <1>1, <1>2, <1>6 DEF TypeOK
  <2> QED
    BY <1>1, <1>6, <2>3, <2>4 DEF TypeOK
<1>12. TodoSorted'
  <2>1. \A i, j \in 1 .. Len(u) : i < j => u[i] < u[j]
    <3> SUFFICES ASSUME NEW i \in 1 .. Len(u), NEW j \in 1 .. Len(u), i < j
                 PROVE  u[i] < u[j]
      OBVIOUS
    <3>1. \A k, l \in 1 .. Len(t) : k < l => t[k] < t[l]
      BY DEF IInv, TodoSorted, t
    <3>2. i + 1 < j + 1
      BY <1>2
    <3>3. t[i + 1] < t[j + 1]
      BY <1>2, <3>1, <3>2
    <3> QED
      BY <1>2, <3>3
  <2>2. \A q \in Workers \ {p} :
          \A i, j \in 1 .. Len(todo'[q]) : i < j => todo'[q][i] < todo'[q][j]
    BY <1>8 DEF IInv, TodoSorted
  <2>3. \A q \in Workers :
          \A i, j \in 1 .. Len(todo'[q]) : i < j => todo'[q][i] < todo'[q][j]
    BY <1>7, <2>1, <2>2
  <2> QED
    BY <2>3 DEF TodoSorted
<1>13. TodoUntried'
  <2>1. \A i \in 1 .. Len(u) :
          u[i] \in DOMAIN copy'[p] /\ copy'[p][u[i]].status = "pending"
    <3>1. \A i \in 1 .. Len(t) : t[i] \in DOMAIN copy[p] /\ copy[p][t[i]].status = "pending"
      BY DEF IInv, TodoUntried, t
    <3> QED
      BY <1>2, <1>9, <1>10, <3>1
  <2>2. \A q \in Workers \ {p} : \A i \in 1 .. Len(todo'[q]) :
          todo'[q][i] \in DOMAIN copy'[q] /\ copy'[q][todo'[q][i]].status = "pending"
    BY <1>8 DEF IInv, TodoUntried
  <2>3. \A q \in Workers : \A i \in 1 .. Len(todo'[q]) :
          todo'[q][i] \in DOMAIN copy'[q] /\ copy'[q][todo'[q][i]].status = "pending"
    BY <1>7, <2>1, <2>2
  <2> QED
    BY <2>3 DEF TodoUntried
<1>14. RestTried'
  <2>1. ASSUME NEW s \in DOMAIN copy[p], s # r, InTodo(p, s)
        PROVE  \E i \in 1 .. Len(u) : u[i] = s
    <3>1. PICK i \in 1 .. Len(t) : t[i] = s
      BY <2>1 DEF InTodo, t
    <3>2. i \in 1 .. Len(t) /\ i # 1
      BY <1>1, <2>1, <3>1
    <3>3. i - 1 \in 1 .. Len(u) /\ (i - 1) + 1 = i
      BY <1>2, <3>2
    <3>4. u[i - 1] = t[(i - 1) + 1]
      BY <1>2, <3>3
    <3> QED
      BY <3>1, <3>3, <3>4
  <2> QED
    <3>1. \A s \in DOMAIN copy'[p] : InTodo(p, s)' \/ copy'[p][s].attempts > 0
      <4>1. copy'[p][r].attempts > 0
        BY <1>5, <1>9
      <4>2. ASSUME NEW s \in DOMAIN copy[p], s # r
            PROVE  InTodo(p, s)' \/ copy'[p][s].attempts > 0
        BY <1>7, <1>9, <2>1, <4>2 DEF IInv, RestTried, InTodo
      <4> QED
        BY <1>9, <4>1, <4>2
    <3>2. \A q \in Workers \ {p} : \A s \in DOMAIN copy'[q] :
            InTodo(q, s)' \/ copy'[q][s].attempts > 0
      BY <1>8 DEF IInv, RestTried, InTodo
    <3> QED
      BY <3>1, <3>2 DEF RestTried
<1>15. AttemptLeft'
  BY <1>6, <1>8, <1>9 DEF IInv, AttemptLeft, done
<1>16. CopyWasSent' /\ PublishedWasSent'
  BY <1>6, <1>8, <1>9 DEF IInv, CopyWasSent, PublishedWasSent, done
<1>17. OlderKnown'
  BY <1>6, <1>8, <1>9 DEF IInv, OlderKnown
<1>18. SettledTried' /\ EnqueuedInOrder'
  BY <1>6 DEF IInv, SettledTried, EnqueuedInOrder
<1> QED
  BY <1>11, <1>12, <1>13, <1>14, <1>15, <1>16, <1>17, <1>18 DEF IInv

(* Redis took the message.                                                 *)
LEMMA PublishOkInv ==
  ASSUME IInv, NEW p \in Workers, NEW r \in OutboxRows, PublishOk(p, r)
  PROVE  IInv'
<1>1. Tried(p, r, "published") /\ sent' = sent \cup {r} /\ "published" \in Statuses
  BY DEF PublishOk, Statuses
<1>2. sent \subseteq sent' /\ sent' \subseteq OutboxRows
  BY <1>1 DEF IInv, TypeOK
<1> QED
  BY <1>1, <1>2, TriedInv

(* Redis did not answer; the row stays pending only with an attempt left.  *)
LEMMA PublishFailsInv ==
  ASSUME IInv, NEW p \in Workers, NEW r \in OutboxRows, PublishFails(p, r)
  PROVE  IInv'
<1> DEFINE n == copy[p][r].attempts + 1
<1>1. /\ r \in DOMAIN copy[p]
      /\ Tried(p, r, StatusAfterFailure(n))
      /\ sent' \in {sent, sent \cup {r}}
  BY DEF PublishFails
<1>2. n \in Nat
  BY <1>1, CopyType DEF IInv
<1>3. /\ StatusAfterFailure(n) \in Statuses
      /\ StatusAfterFailure(n) = "pending" => n < MaxAttempts
      /\ StatusAfterFailure(n) # "published"
  BY <1>2, OutboxAssumption DEF StatusAfterFailure, Statuses
<1>4. sent \subseteq sent' /\ sent' \subseteq OutboxRows
  BY <1>1 DEF IInv, TypeOK
<1> HIDE DEF n
<1>5. StatusAfterFailure(n) = "pending" => copy[p][r].attempts + 1 < MaxAttempts
  BY <1>3 DEF n
<1> QED
  BY <1>1, <1>3, <1>4, <1>5, TriedInv

(***************************************************************************)
(* The commit.  Every copy has been tried; a row that was settled stays    *)
(* so, because a copy left pending does not write the status.              *)
(***************************************************************************)
LEMMA CommitFacts ==
  ASSUME IInv, NEW p \in Workers, CommitBatch(p)
  PROVE  /\ \A r \in OutboxRows :
              \/ status'[r] = status[r]
              \/ /\ r \in DOMAIN copy[p]
                 /\ status'[r] = copy[p][r].status /\ status'[r] # "pending"
         /\ \A r \in OutboxRows :
              attempts'[r] = IF r \in DOMAIN copy[p] THEN copy[p][r].attempts ELSE attempts[r]
         /\ \A r \in DOMAIN copy[p] : copy[p][r].attempts > 0
         /\ DOMAIN copy'[p] = {} /\ todo' = todo /\ todo[p] = <<>>
         /\ \A q \in Workers \ {p} : copy'[q] = copy[q]
<1>1. TypeOK /\ todo[p] = <<>> /\ Len(todo[p]) = 0
  BY EmptySeq DEF IInv, CommitBatch
<1>2. copy' = [copy EXCEPT ![p] = NoCopy]
  BY DEF CommitBatch
<1>3. DOMAIN copy'[p] = {} /\ \A q \in Workers \ {p} : copy'[q] = copy[q]
  BY <1>1, <1>2 DEF TypeOK, NoCopy
<1>4. \A r \in DOMAIN copy[p] : copy[p][r].attempts > 0
  BY <1>1 DEF IInv, RestTried, InTodo
<1> QED
  BY <1>1, <1>3, <1>4 DEF CommitBatch, WrittenStatus

(* Hence the commit keeps the inductive invariant.                         *)
LEMMA CommitBatchInv ==
  ASSUME IInv, NEW p \in Workers, CommitBatch(p)
  PROVE  IInv'
<1>1. TypeOK
  BY DEF IInv
<1>2. UNCHANGED <<enqueued, sent, todo, crashes>>
  BY DEF CommitBatch
<1>3. /\ \A r \in DOMAIN copy[p] : r \in OutboxRows /\ copy[p][r] \in Copies
      /\ \A r \in DOMAIN copy[p] : /\ copy[p][r].status \in Statuses
                                   /\ copy[p][r].attempts \in 0 .. MaxAttempts
  BY <1>1, CopyType DEF Copies
<1>4. TypeOK'
  <2>1. status' \in [OutboxRows -> Statuses]
    BY <1>1, <1>3 DEF CommitBatch, WrittenStatus, TypeOK
  <2>2. attempts' \in [OutboxRows -> 0 .. MaxAttempts]
    BY <1>1, <1>3 DEF CommitBatch, TypeOK
  <2>3. copy' \in [Workers -> UNION {[S -> Copies] : S \in SUBSET OutboxRows}]
    <3>1. NoCopy \in [{} -> Copies] /\ {} \in SUBSET OutboxRows
      BY DEF NoCopy
    <3>2. NoCopy \in UNION {[S -> Copies] : S \in SUBSET OutboxRows}
      BY <3>1
    <3> QED
      BY <1>1, <3>2 DEF CommitBatch, TypeOK
  <2> QED
    BY <1>1, <1>2, <2>1, <2>2, <2>3 DEF CommitBatch, TypeOK
<1>5. TodoSorted'
  BY <1>2 DEF IInv, TodoSorted
<1>6. TodoUntried'
  <2>1. Len(todo[p]) = 0
    BY CommitFacts, EmptySeq
  <2> QED
    BY <1>2, <2>1, CommitFacts DEF IInv, TodoUntried
<1>7. RestTried'
  BY <1>2, CommitFacts DEF IInv, RestTried, InTodo
<1>8. AttemptLeft'
  <2>1. ASSUME NEW r \in OutboxRows, status'[r] = "pending"
        PROVE  attempts'[r] < MaxAttempts
    <3>1. status[r] = "pending"
      BY <2>1, CommitFacts
    <3>2. CASE r \in DOMAIN copy[p]
      <4>1. copy[p][r].status = "pending"
        BY <2>1, <3>2 DEF CommitBatch, WrittenStatus
      <4> QED
        BY <3>2, <4>1, CommitFacts DEF IInv, AttemptLeft
    <3> QED
      BY <2>1, <3>1, <3>2, CommitFacts DEF IInv, AttemptLeft
  <2>2. \A q \in Workers : \A r \in DOMAIN copy'[q] :
          copy'[q][r].status = "pending" => copy'[q][r].attempts < MaxAttempts
    BY CommitFacts DEF IInv, AttemptLeft
  <2> QED
    BY <2>1, <2>2 DEF AttemptLeft
<1>9. SettledTried'
  BY CommitFacts DEF IInv, SettledTried
<1>10. PublishedWasSent' /\ CopyWasSent'
  BY <1>2, CommitFacts DEF IInv, PublishedWasSent, CopyWasSent
<1>11. EnqueuedInOrder'
  BY <1>2 DEF IInv, EnqueuedInOrder
<1>12. OlderKnown'
  <2> SUFFICES ASSUME NEW q \in Workers, NEW r \in DOMAIN copy'[q], NEW s \in 1 .. r - 1,
                      RoomOf[s] = RoomOf[r]
               PROVE  s \in DOMAIN copy'[q] \/ status'[s] # "pending"
    BY DEF OlderKnown
  <2>1. q # p /\ copy'[q] = copy[q]
    BY CommitFacts
  <2>2. s \in OutboxRows
    <3>1. r \in OutboxRows
      BY <1>1, <2>1, CopyType
    <3> QED
      BY <3>1, OutboxAssumption DEF OutboxRows
  <2> QED
    BY <2>1, <2>2, CommitFacts DEF IInv, OlderKnown
<1> QED
  BY <1>4, <1>5, <1>6, <1>7, <1>8, <1>9, <1>10, <1>11, <1>12 DEF IInv

(* A crash forgets the batch and changes nothing else.                     *)
LEMMA CrashInv ==
  ASSUME IInv, NEW p \in Workers, Crash(p)
  PROVE  IInv'
<1>1. TypeOK
  BY DEF IInv
<1>2. /\ todo' = [todo EXCEPT ![p] = <<>>]
      /\ copy' = [copy EXCEPT ![p] = NoCopy]
      /\ UNCHANGED <<enqueued, status, attempts, sent>>
  BY DEF Crash, table
<1>3. DOMAIN copy'[p] = {} /\ Len(todo'[p]) = 0
  BY <1>1, <1>2, EmptySeq DEF TypeOK, NoCopy
<1>4. \A q \in Workers \ {p} : todo'[q] = todo[q] /\ copy'[q] = copy[q]
  BY <1>1, <1>2 DEF TypeOK
<1>5. TypeOK'
  <2>1. NoCopy \in [{} -> Copies] /\ {} \in SUBSET OutboxRows
    BY DEF NoCopy
  <2>2. NoCopy \in UNION {[S -> Copies] : S \in SUBSET OutboxRows}
    BY <2>1
  <2>3. <<>> \in Seq(OutboxRows)
    BY EmptySeq
  <2>4. crashes' \in 0 .. MaxCrashes /\ busy' \in [Workers -> BOOLEAN]
    BY <1>1, OutboxAssumption DEF Crash, TypeOK
  <2> QED
    BY <1>1, <1>2, <2>2, <2>3, <2>4 DEF TypeOK
<1>6. TodoSorted' /\ TodoUntried'
  BY <1>3, <1>4 DEF IInv, TodoSorted, TodoUntried
<1>7. RestTried'
  BY <1>3, <1>4 DEF IInv, RestTried, InTodo
<1>8. AttemptLeft' /\ CopyWasSent' /\ OlderKnown'
  BY <1>2, <1>3, <1>4 DEF IInv, AttemptLeft, CopyWasSent, OlderKnown
<1>9. SettledTried' /\ PublishedWasSent' /\ EnqueuedInOrder'
  BY <1>2 DEF IInv, SettledTried, PublishedWasSent, EnqueuedInOrder
<1> QED
  BY <1>5, <1>6, <1>7, <1>8, <1>9 DEF IInv

(* Every step of Next, and stuttering, keeps the inductive invariant.      *)
LEMMA NextInv == IInv /\ [Next]_vars => IInv'
<1> SUFFICES ASSUME IInv, [Next]_vars PROVE IInv'
  OBVIOUS
<1>1. CASE \E r \in OutboxRows : Enqueue(r)
  BY <1>1, EnqueueInv
<1>2. CASE \E p \in Workers : Work(p)
  BY <1>2, SelectBatchInv, PublishOkInv, PublishFailsInv, CommitBatchInv DEF Work
<1>3. CASE \E p \in Workers : Crash(p)
  BY <1>3, CrashInv
<1>4. CASE UNCHANGED vars
  <2>1. UNCHANGED <<enqueued, status, attempts, sent, todo, copy, busy, crashes>>
    BY <1>4 DEF vars, table
  <2> QED
    BY <2>1 DEF IInv, TypeOK, TodoSorted, TodoUntried, RestTried, InTodo, AttemptLeft,
                SettledTried, PublishedWasSent, CopyWasSent, EnqueuedInOrder, OlderKnown
<1> QED
  BY <1>1, <1>2, <1>3, <1>4 DEF Next

(* The inductive invariant of the outbox holds in every reachable state.   *)
THEOREM OutboxInvariance == Spec => []IInv
<1> QED
  BY InitInv, NextInv, PTL DEF Spec

(* Every reachable state is well typed; in particular no row is ever tried *)
(* more often than outbox_publisher_max_attempts.                          *)
THEOREM OutboxTypeCorrect == Spec => []TypeOK
<1>1. IInv => TypeOK
  BY DEF IInv
<1> QED
  BY <1>1, OutboxInvariance, PTL

(* The table never calls a row published that Redis has not accepted,      *)
(* whatever fails, crashes or overlaps (publish before commit).            *)
THEOREM PublishedIsTrue == Spec => []PublishedWasSent
<1>1. IInv => PublishedWasSent
  BY DEF IInv
<1> QED
  BY <1>1, OutboxInvariance, PTL

-----------------------------------------------------------------------------
(* A settled row is never pending again: only changed columns are written. *)
THEOREM SettledStaysSettled == Spec => NeverPendingAgain
<1> DEFINE A == \A r \in OutboxRows : status[r] # "pending" => status'[r] # "pending"
<1>1. ASSUME IInv, [Next]_vars PROVE [A]_vars
  <2>1. CASE \E p \in Workers : CommitBatch(p)
    BY <1>1, <2>1, CommitFacts
  <2>2. CASE ~\E p \in Workers : CommitBatch(p)
    <3>1. UNCHANGED status
      BY <1>1, <2>2 DEF Next, Work, Enqueue, SelectBatch, PublishOk, PublishFails, Tried,
                        Crash, vars, table
    <3> QED
      BY <3>1
  <2> QED
    BY <2>1, <2>2
<1> QED
  BY <1>1, OutboxInvariance, PTL DEF Spec, NeverPendingAgain

(* Only SelectBatch adds rows to a batch, and it adds pending ones.        *)
LEMMA BatchGrowth ==
  ASSUME IInv, Next, NEW p \in Workers, NEW r \in DOMAIN copy'[p]
  PROVE  r \in DOMAIN copy[p] \/ status[r] = "pending"
<1>1. TypeOK
  BY DEF IInv
<1>2. CASE \E q \in Workers : SelectBatch(q)
  <2>1. PICK q \in Workers : SelectBatch(q)
    BY <1>2
  <2> DEFINE b == PendingBatch
             D == {b[i] : i \in 1 .. Len(b)}
             loaded == [s \in D |-> [status |-> "pending", attempts |-> attempts[s]]]
  <2>2. Pending \in SUBSET OutboxRows
    BY <1>1 DEF TypeOK, Pending
  <2>3. b \in Seq(Pending)
    BY <2>2, OldestFacts DEF PendingBatch
  <2>4. copy' = [copy EXCEPT ![q] = loaded]
    BY <2>1 DEF SelectBatch
  <2> HIDE DEF b
  <2>5. D \in SUBSET Pending
    BY <2>3, ElementOfSeq
  <2>6. DOMAIN loaded = D
    OBVIOUS
  <2> HIDE DEF loaded
  <2>7. copy'[q] = loaded /\ \A o \in Workers \ {q} : copy'[o] = copy[o]
    BY <1>1, <2>4 DEF TypeOK
  <2> QED
    BY <2>5, <2>6, <2>7 DEF Pending
<1>3. CASE \E q \in Workers : \E s \in OutboxRows : PublishOk(q, s) \/ PublishFails(q, s)
  <2>1. PICK q \in Workers, s \in OutboxRows, o \in {"pending", "failed", "published"} :
          Tried(q, s, o)
    BY <1>3 DEF PublishOk, PublishFails, StatusAfterFailure
  <2> DEFINE tried == [copy[q] EXCEPT ![s] = [status |-> o, attempts |-> @.attempts + 1]]
  <2>2. copy' = [copy EXCEPT ![q] = tried] /\ DOMAIN tried = DOMAIN copy[q]
    BY <2>1 DEF Tried
  <2> HIDE DEF tried
  <2>3. copy'[q] = tried /\ \A w \in Workers \ {q} : copy'[w] = copy[w]
    BY <1>1, <2>2 DEF TypeOK
  <2> QED
    BY <2>2, <2>3
<1>4. CASE \E q \in Workers : CommitBatch(q)
  BY <1>4, CommitFacts
<1>5. CASE \E q \in Workers : Crash(q)
  <2>1. PICK q \in Workers : copy' = [copy EXCEPT ![q] = NoCopy]
    BY <1>5 DEF Crash
  <2>2. DOMAIN copy'[q] = {} /\ \A w \in Workers \ {q} : copy'[w] = copy[w]
    BY <1>1, <2>1 DEF TypeOK, NoCopy
  <2> QED
    BY <2>2
<1>6. CASE \E s \in OutboxRows : Enqueue(s)
  BY <1>6 DEF Enqueue
<1> QED
  BY <1>2, <1>3, <1>4, <1>5, <1>6 DEF Next, Work

(* A published row that no worker holds is never taken up again: repeated  *)
(* deliveries come only from rounds that overlapped or were interrupted.   *)
THEOREM PublishedIsLeftAlone == Spec => NoLateDuplicate
<1> DEFINE A == \A r \in OutboxRows : status[r] = "published" /\ ~Held(r) => ~Held(r)'
<1>1. ASSUME IInv, [Next]_vars PROVE [A]_vars
  <2>1. CASE Next
    BY <1>1, <2>1, BatchGrowth DEF Held
  <2> QED
    BY <1>1, <2>1
<1> QED
  BY <1>1, OutboxInvariance, PTL DEF Spec, NoLateDuplicate

(***************************************************************************)
(* Rows overtake only tried rows: the older rows of the room are in the    *)
(* batch, where they were tried first, or settled, hence tried.            *)
(***************************************************************************)
THEOREM OvertakenWasTried == Spec => OvertakenOnlyAfterAttempt
<1> DEFINE A == \A r \in sent' \ sent : \A s \in 1 .. r - 1 :
                  RoomOf[s] = RoomOf[r] => s \in sent \/ AttemptSeen(s)
<1>1. ASSUME IInv, NEW p \in Workers, NEW r \in OutboxRows,
             busy[p] /\ todo[p] # <<>> /\ r = Head(todo[p]),
             NEW s \in 1 .. r - 1, RoomOf[s] = RoomOf[r]
      PROVE  AttemptSeen(s)
  <2>1. TypeOK /\ todo[p] \in Seq(OutboxRows) /\ Len(todo[p]) \in Nat \ {0} /\ r = todo[p][1]
    BY <1>1, EmptySeq, LenProperties DEF IInv, TypeOK
  <2>2. r \in DOMAIN copy[p] /\ s \in OutboxRows /\ s < r /\ s \in Nat
    BY <1>1, <2>1, OutboxAssumption DEF IInv, TodoUntried, OutboxRows
  <2>3. CASE s \in DOMAIN copy[p]
    <3>1. ~InTodo(p, s)
      <4>1. \A i \in 1 .. Len(todo[p]) : todo[p][i] \in Nat
        BY <2>1, ElementOfSeq, OutboxAssumption DEF OutboxRows
      <4>2. \A i \in 1 .. Len(todo[p]) : 1 < i => todo[p][1] < todo[p][i]
        BY <1>1, <2>1 DEF IInv, TodoSorted
      <4> QED
        BY <2>1, <2>2, <4>1, <4>2 DEF InTodo
    <3> QED
      BY <1>1, <2>3, <3>1 DEF IInv, RestTried, AttemptSeen
  <2>4. CASE status[s] # "pending"
    BY <1>1, <2>2, <2>4 DEF IInv, SettledTried, AttemptSeen
  <2> QED
    BY <1>1, <2>2, <2>3, <2>4 DEF IInv, OlderKnown
<1>2. ASSUME IInv, [Next]_vars PROVE [A]_vars
  <2> SUFFICES ASSUME NEW r \in sent' \ sent, NEW s \in 1 .. r - 1, RoomOf[s] = RoomOf[r]
               PROVE  AttemptSeen(s)
    OBVIOUS
  <2>1. PICK p \in Workers, q \in OutboxRows : PublishOk(p, q) \/ PublishFails(p, q)
    BY <1>2 DEF Next, Work, Enqueue, SelectBatch, CommitBatch, Crash, vars, table
  <2>2. r = q
    BY <2>1 DEF PublishOk, PublishFails
  <2>3. busy[p] /\ todo[p] # <<>> /\ q = Head(todo[p])
    BY <2>1 DEF PublishOk, PublishFails, Tried
  <2> QED
    BY <1>1, <1>2, <2>2, <2>3
<1> QED
  BY <1>2, OutboxInvariance, PTL DEF Spec, OvertakenOnlyAfterAttempt

=============================================================================
