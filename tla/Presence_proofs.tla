--------------------------- MODULE Presence_proofs ---------------------------
(***************************************************************************)
(* Proofs about Presence, for any connections, users and rooms.            *)
(***************************************************************************)
EXTENDS Presence, FiniteSetTheorems, TLAPS

(* Rooms only hold what the registry knows.                                *)
Registered == \A c \in Connections : c \notin known => rooms[c] = {}

(* Only what taints a room and user makes a counter exceed the connections. *)
CountExact ==
  \A r \in Rooms, u \in Users :
    <<r, u>> \notin tainted => count[r][u] = Cardinality(Subscribed(r, u))

(* A pending mark is for a room its connection is subscribed to.           *)
MarksBacked ==
  \A c \in Connections : \A i \in DOMAIN todo[c] :
    todo[c][i].op = "mark" =>
      todo[c][i].room \in rooms[c] \/ <<todo[c][i].room, UserOf[c]>> \in tainted

(* What a handler left behind when it ended is recorded.                   *)
DeadTainted ==
  \A c \in Connections : socket[c] = "dead" =>
    \A r \in rooms[c] : <<r, UserOf[c]>> \in tainted

(* What the registry says of the entries, whether or not anyone is left to *)
(* clean up: with DeadTainted it gives GhostsHaveCause.                    *)
EntriesBacked ==
  \A e \in live :
    \/ Subscribed(e[2], e[3]) # {}
    \/ BeingCleared(e)
    \/ <<e[2], e[3]>> \in tainted

(* What makes SubscribersListed inductive: subscribe asks the counter, not *)
(* the connections, whether it has to mark the user.                       *)
Listed(r, u) ==
  \/ <<"presence", r, u>> \in live \cup lapsed
  \/ MarkPending(r, u)
  \/ <<r, u>> \in undone
CountedListed ==
  \A r \in Rooms, u \in Users : count[r][u] > 0 => Listed(r, u)

IInv ==
  /\ TypeOK /\ Registered /\ SubscribersCounted /\ CountExact
  /\ MarksBacked /\ DeadTainted /\ EntriesBacked /\ CountedListed

-----------------------------------------------------------------------------
(* Counters.                                                               *)

LEMMA SubscribedFinite ==
  ASSUME NEW r, NEW u
  PROVE  IsFiniteSet(Subscribed(r, u)) /\ Cardinality(Subscribed(r, u)) \in Nat
<1>1. Subscribed(r, u) \subseteq Connections
  BY DEF Subscribed
<1> QED
  BY <1>1, PresenceAssumption, FS_Subset, FS_CardinalityType

LEMMA WithoutFacts ==
  ASSUME TypeOK, NEW D \in SUBSET Connections, NEW r \in Rooms, NEW u \in Users
  PROVE  /\ Without(D, r, u) \in 0 .. MaxCount /\ Without(D, r, u) <= count[r][u]
         /\ count[r][u] >= Cardinality(Subscribed(r, u))
              => Without(D, r, u) >= Cardinality(Subscribed(r, u) \ D)
         /\ count[r][u] = Cardinality(Subscribed(r, u))
              => Without(D, r, u) = Cardinality(Subscribed(r, u) \ D)
<1> DEFINE S == Subscribed(r, u)
           L == {d \in D : UserOf[d] = u /\ CanUnsubscribe(d, r)}
<1>1. L = S \cap D
  BY DEF Subscribed, CanUnsubscribe
<1>2. IsFiniteSet(S) /\ Cardinality(S) \in Nat
  BY SubscribedFinite
<1>3. IsFiniteSet(S \cap D) /\ IsFiniteSet(S \ D)
  BY <1>2, FS_Subset
<1>4. Cardinality(S \ D) = Cardinality(S) - Cardinality(S \cap D)
  BY <1>2, <1>3, FS_Difference, FS_Subset
<1>5. Cardinality(L) \in Nat /\ Cardinality(S \ D) \in Nat
  BY <1>1, <1>3, FS_CardinalityType
<1>6. Leaving(D, r, u) = Cardinality(L)
  BY DEF Leaving
<1>7. count[r][u] \in 0 .. MaxCount /\ MaxCount \in Nat
  BY PresenceAssumption DEF TypeOK
<1> HIDE DEF S, L
<1>8. /\ Without(D, r, u) \in 0 .. MaxCount /\ Without(D, r, u) <= count[r][u]
      /\ count[r][u] >= Cardinality(S) => Without(D, r, u) >= Cardinality(S \ D)
      /\ count[r][u] = Cardinality(S) => Without(D, r, u) = Cardinality(S \ D)
  BY <1>1, <1>2, <1>4, <1>5, <1>6, <1>7 DEF Without
<1> QED
  BY <1>8 DEF S

(* What manager.disconnect for the connections in D does to the counters.  *)
LEMMA ForgetFacts ==
  ASSUME TypeOK, SubscribersCounted, CountExact, NEW D \in SUBSET Connections, Forget(D)
  PROVE  /\ known' \subseteq Connections
         /\ rooms' \in [Connections -> SUBSET Rooms]
         /\ count' \in [Rooms -> [Users -> 0 .. MaxCount]]
         /\ \A r \in Rooms, u \in Users :
              /\ Subscribed(r, u)' = Subscribed(r, u) \ D
              /\ count'[r][u] = Without(D, r, u) /\ count'[r][u] <= count[r][u]
              /\ count'[r][u] >= Cardinality(Subscribed(r, u)')
              /\ <<r, u>> \notin tainted => count'[r][u] = Cardinality(Subscribed(r, u)')
<1>1. known' \subseteq Connections /\ rooms' \in [Connections -> SUBSET Rooms]
  BY DEF TypeOK, Forget
<1>2. ASSUME NEW r \in Rooms, NEW u \in Users
      PROVE  /\ Subscribed(r, u)' = Subscribed(r, u) \ D
             /\ count'[r][u] = Without(D, r, u)
  BY DEF Forget, Subscribed
<1>3. count' \in [Rooms -> [Users -> 0 .. MaxCount]]
  BY WithoutFacts DEF Forget
<1>4. ASSUME NEW r \in Rooms, NEW u \in Users
      PROVE  /\ count'[r][u] <= count[r][u]
             /\ count'[r][u] >= Cardinality(Subscribed(r, u)')
             /\ <<r, u>> \notin tainted => count'[r][u] = Cardinality(Subscribed(r, u)')
  <2>1. /\ count'[r][u] = Without(D, r, u) /\ Subscribed(r, u)' = Subscribed(r, u) \ D
        /\ count[r][u] >= Cardinality(Subscribed(r, u))
        /\ <<r, u>> \notin tainted => count[r][u] = Cardinality(Subscribed(r, u))
    BY <1>2 DEF SubscribersCounted, CountExact
  <2> QED
    BY <2>1, WithoutFacts
<1> QED
  BY <1>1, <1>2, <1>3, <1>4

(* The commands of a cleanup.                                              *)
LEMMA CleanupFacts ==
  ASSUME TypeOK, NEW c \in Connections, NEW s \in Cleanups(c)
  PROVE  /\ s \in Seq(Commands)
         /\ \A i \in DOMAIN s : s[i].op = "clear"
         /\ \A r \in OfflineRooms(c), k \in Kinds : \E i \in DOMAIN s : s[i] = Clear(k, r)
<1> DEFINE O == OfflineRooms(c)
           N == Cardinality(O)
<1>1. PICK f \in [1 .. N -> O] : s = ClearAll(f) /\ \A r \in O : \E i \in DOMAIN f : f[i] = r
  BY DEF Cleanups
<1>2. O \subseteq Rooms
  BY DEF OfflineRooms, TypeOK
<1>3. N \in Nat
  BY <1>2, PresenceAssumption, FS_Subset, FS_CardinalityType
<1>4. f \in Seq(Rooms) /\ Len(f) = N /\ DOMAIN f = 1 .. N
  BY <1>2, <1>3
<1> HIDE DEF O, N
<1>5. /\ DOMAIN s = 1 .. 2 * N
      /\ \A i \in 1 .. 2 * N :
           /\ (i + 1) \div 2 \in 1 .. N
           /\ s[i] = Clear(IF i % 2 = 1 THEN "presence" ELSE "typing", f[(i + 1) \div 2])
  BY <1>1, <1>3, <1>4 DEF ClearAll
<1>6. \A i \in 1 .. 2 * N : s[i] \in Commands /\ s[i].op = "clear"
  BY <1>4, <1>5 DEF Clear, Commands, Kinds
<1>7. s \in Seq(Commands)
  <2>1. s = [i \in 1 .. 2 * N |-> s[i]]
    BY <1>1, <1>4, <1>5 DEF ClearAll
  <2>2. s \in [1 .. 2 * N -> Commands] /\ 2 * N \in Nat
    BY <2>1, <1>6, <1>3
  <2> QED
    BY <2>2
<1>8. ASSUME NEW r \in O, NEW k \in Kinds
      PROVE  \E i \in DOMAIN s : s[i] = Clear(k, r)
  <2>1. PICK j \in 1 .. N : f[j] = r
    BY <1>1, <1>4
  <2>2. CASE k = "presence"
    <3>1. 2 * j - 1 \in 1 .. 2 * N /\ (2 * j - 1) % 2 = 1 /\ (2 * j - 1 + 1) \div 2 = j
      BY <1>3
    <3> QED
      BY <3>1, <2>1, <2>2, <1>5
  <2>3. CASE k = "typing"
    <3>1. 2 * j \in 1 .. 2 * N /\ (2 * j) % 2 # 1 /\ (2 * j + 1) \div 2 = j
      BY <1>3
    <3> QED
      BY <3>1, <2>1, <2>3, <1>5
  <2> QED
    BY <2>2, <2>3 DEF Kinds
<1> QED
  BY <1>5, <1>6, <1>7, <1>8 DEF O

(* Commands that wait stay commands when the first is sent.                *)
LEMMA TailFacts ==
  ASSUME NEW s \in Seq(Commands), s # <<>>
  PROVE  /\ Tail(s) \in Seq(Commands) /\ Head(s) = s[1] /\ Head(s) \in Commands
         /\ 1 \in DOMAIN s
         /\ \A i \in DOMAIN Tail(s) : i + 1 \in DOMAIN s /\ Tail(s)[i] = s[i + 1]
         /\ \A i \in DOMAIN s : i = 1 \/ (i - 1 \in DOMAIN Tail(s) /\ s[i] = Tail(s)[i - 1])
  OBVIOUS

(* A user stays listed, or about to be, while nothing takes the entry, the *)
(* pending command or the record away.                                     *)
LEMMA ListedKept ==
  ASSUME \A c \in Connections : \A i \in DOMAIN todo[c] :
           todo[c][i].op = "mark" => \E j \in DOMAIN todo'[c] : todo'[c][j] = todo[c][i],
         live \cup lapsed \subseteq live' \cup lapsed', undone \subseteq undone',
         NEW r, NEW u, Listed(r, u)
  PROVE  Listed(r, u)'
<1>1. ASSUME MarkPending(r, u) PROVE MarkPending(r, u)'
  <2>1. PICK c \in Connections : \E i \in DOMAIN todo[c] :
          UserOf[c] = u /\ todo[c][i] = Mark("presence", r)
    BY <1>1 DEF MarkPending
  <2>2. Mark("presence", r).op = "mark"
    BY DEF Mark
  <2>3. \E j \in DOMAIN todo'[c] : todo'[c][j] = Mark("presence", r)
    BY <2>1, <2>2
  <2> QED
    BY <2>1, <2>3 DEF MarkPending, Mark
<1> QED
  BY <1>1 DEF Listed

LEMMA ClearsKept ==
  ASSUME \A c \in Connections : todo[c] = <<>> \/ todo'[c] = todo[c], NEW e, BeingCleared(e)
  PROVE  BeingCleared(e)'
<1>1. PICK c \in Connections : \E i \in DOMAIN todo[c] :
        todo[c][i].op = "clear" /\ Entry(c, todo[c][i]) = e
  BY DEF BeingCleared
<1>2. todo'[c] = todo[c]
  BY <1>1
<1> QED
  BY <1>1, <1>2 DEF BeingCleared, Entry

-----------------------------------------------------------------------------
(* One lemma per action.                                                   *)

LEMMA InitIInv == Init => IInv
<1> SUFFICES ASSUME Init PROVE IInv
  OBVIOUS
<1>1. \A r \in Rooms, u \in Users : Subscribed(r, u) = {}
  BY DEF Init, Subscribed
<1>2. Cardinality({}) = 0
  BY FS_EmptySet
<1>3. TypeOK
  BY PresenceAssumption DEF Init, TypeOK
<1>4. Registered /\ MarksBacked /\ DeadTainted /\ EntriesBacked /\ CountedListed
  BY DEF Init, Registered, MarksBacked, DeadTainted, EntriesBacked, CountedListed
<1>5. SubscribersCounted /\ CountExact
  <2>1. \A r \in Rooms, u \in Users : count[r][u] = 0 /\ Cardinality(Subscribed(r, u)) = 0
    BY <1>1, <1>2 DEF Init
  <2> QED
    BY <2>1 DEF SubscribersCounted, CountExact
<1> QED
  BY <1>3, <1>4, <1>5 DEF IInv

LEMMA ConnectKeeps ==
  ASSUME IInv, NEW c \in Connections, Connect(c)
  PROVE  IInv'
<1> USE DEF IInv, Connect, stores, history, bounds
<1>1. TypeOK'
  BY DEF TypeOK
<1>2. Registered'
  BY DEF Registered, TypeOK
<1>4. \A r, u : Subscribed(r, u)' = Subscribed(r, u)
  BY DEF Subscribed
<1>5. SubscribersCounted' /\ CountExact' /\ MarksBacked'
  BY <1>4 DEF SubscribersCounted, CountExact, MarksBacked
<1>6. EntriesBacked'
  BY <1>4 DEF EntriesBacked, BeingCleared, Entry
<1>7. DeadTainted' /\ CountedListed'
  BY DEF DeadTainted, CountedListed, Listed, MarkPending, TypeOK
<1> QED
  BY <1>1, <1>2, <1>5, <1>6, <1>7

LEMMA HangUpKeeps ==
  ASSUME IInv, NEW c \in Connections, HangUp(c)
  PROVE  IInv'
<1> USE DEF IInv, HangUp, manager, stores, history, bounds
<1>1. TypeOK'
  BY DEF TypeOK
<1>2. Registered'
  BY DEF Registered, TypeOK
<1>4. \A r, u : Subscribed(r, u)' = Subscribed(r, u)
  BY DEF Subscribed
<1>5. SubscribersCounted' /\ CountExact' /\ MarksBacked'
  BY <1>4 DEF SubscribersCounted, CountExact, MarksBacked
<1>6. EntriesBacked'
  BY <1>4 DEF EntriesBacked, BeingCleared, Entry
<1>7. DeadTainted' /\ CountedListed'
  BY DEF DeadTainted, CountedListed, Listed, MarkPending, TypeOK
<1> QED
  BY <1>1, <1>2, <1>5, <1>6, <1>7

LEMMA UnknownSocketKeeps ==
  ASSUME IInv, NEW c \in Connections, UnknownSocket(c)
  PROVE  IInv'
<1> USE DEF IInv, UnknownSocket, Idle, Die, manager, stores, history, bounds
<1>1. TypeOK'
  BY DEF TypeOK
<1>2. Registered'
  BY DEF Registered, TypeOK
<1>4. \A r, u : Subscribed(r, u)' = Subscribed(r, u)
  BY DEF Subscribed
<1>5. SubscribersCounted' /\ CountExact' /\ MarksBacked'
  BY <1>4 DEF SubscribersCounted, CountExact, MarksBacked
<1>6. EntriesBacked'
  BY <1>4 DEF EntriesBacked, BeingCleared, Entry
<1>7. DeadTainted' /\ CountedListed'
  BY DEF DeadTainted, CountedListed, Listed, MarkPending, Registered, TypeOK
<1> QED
  BY <1>1, <1>2, <1>5, <1>6, <1>7

LEMMA HandlerFailsKeeps ==
  ASSUME IInv, NEW c \in Connections, HandlerFails(c)
  PROVE  IInv'
<1> USE DEF IInv, HandlerFails, Idle, Die, manager, stores
<1>t. /\ tainted \subseteq tainted' /\ tainted' \subseteq Rooms \X Users
      /\ \A r \in rooms[c] : <<r, UserOf[c]>> \in tainted'
  BY PresenceAssumption DEF Abandoned, TypeOK
<1>1. TypeOK'
  <2>1. failures' \in 0 .. MaxFailures
    BY PresenceAssumption DEF TypeOK
  <2> QED
    BY <1>t, <2>1 DEF TypeOK
<1>2. Registered'
  BY DEF Registered
<1>4. \A r, u : Subscribed(r, u)' = Subscribed(r, u)
  BY DEF Subscribed
<1>5. SubscribersCounted' /\ CountExact' /\ MarksBacked'
  BY <1>t, <1>4 DEF SubscribersCounted, CountExact, MarksBacked
<1>6. EntriesBacked'
  BY <1>t, <1>4 DEF EntriesBacked, BeingCleared, Entry
<1>7. DeadTainted'
  BY <1>t DEF DeadTainted, TypeOK
<1>8. CountedListed'
  BY DEF CountedListed, Listed, MarkPending
<1> QED
  BY <1>1, <1>2, <1>5, <1>6, <1>7, <1>8

LEMMA UpdateKeeps ==
  ASSUME IInv, NEW c \in Connections, NEW cmd \in Commands, Update(c, cmd)
  PROVE  IInv'
<1> USE DEF IInv, Update, Idle, manager, stores
<1>1. TypeOK'
  <2>1. <<cmd>> \in Seq(Commands) /\ updates + 1 \in 0 .. MaxUpdates
    BY PresenceAssumption DEF TypeOK
  <2>2. cmd.room \in Rooms /\ UserOf[c] \in Users
    BY PresenceAssumption DEF Commands
  <2> QED
    BY <2>1, <2>2 DEF TypeOK
<1>2. Registered'
  BY DEF Registered, TypeOK
<1>4. \A r, u : Subscribed(r, u)' = Subscribed(r, u)
  BY DEF Subscribed
<1>5. SubscribersCounted' /\ CountExact'
  BY <1>4 DEF SubscribersCounted, CountExact
<1>8. MarksBacked'
  BY DEF MarksBacked, TypeOK
<1>6. EntriesBacked'
  <2>0. \A d \in Connections : todo[d] = <<>> \/ todo'[d] = todo[d]
    BY DEF TypeOK
  <2>1. \A e : BeingCleared(e) => BeingCleared(e)'
    BY <2>0, ClearsKept
  <2> QED
    BY <1>4, <2>1 DEF EntriesBacked
<1>7. DeadTainted'
  BY DEF DeadTainted, TypeOK
<1>9. CountedListed'
  <2>1. \A d \in Connections : todo[d] = <<>> \/ todo'[d] = todo[d]
    BY DEF TypeOK
  <2>2. \A q \in Rooms, v \in Users : Listed(q, v) => Listed(q, v)'
    BY <2>1, ListedKept
  <2> QED
    BY <2>2 DEF CountedListed
<1> QED
  BY <1>1, <1>2, <1>5, <1>6, <1>7, <1>8, <1>9

LEMMA ExpireKeeps ==
  ASSUME IInv, NEW e \in Entries, Expire(e) \/ PurgeExpired(e)
  PROVE  IInv'
<1> USE DEF IInv, Expire, PurgeExpired, manager, history, bounds
<1>1. TypeOK'
  BY DEF TypeOK
<1>2. Registered'
  BY DEF Registered, TypeOK
<1>4. \A r, u : Subscribed(r, u)' = Subscribed(r, u)
  BY DEF Subscribed
<1>5. SubscribersCounted' /\ CountExact' /\ MarksBacked'
  BY <1>4 DEF SubscribersCounted, CountExact, MarksBacked
<1>6. EntriesBacked'
  BY <1>4 DEF EntriesBacked, BeingCleared, Entry
<1>7. DeadTainted'
  BY DEF DeadTainted
<1>8. CountedListed'
  <2>1. \A r, u : <<"presence", r, u>> \in live \cup lapsed
                   => <<"presence", r, u>> \in live' \cup lapsed'
    OBVIOUS
  <2>2. \A r, u : Listed(r, u) => Listed(r, u)'
    BY <2>1 DEF Listed, MarkPending
  <2> QED
    BY <2>2 DEF CountedListed
<1> QED
  BY <1>1, <1>2, <1>5, <1>6, <1>7, <1>8

LEMMA CrashKeeps ==
  ASSUME IInv, Crash
  PROVE  IInv'
<1> USE DEF IInv, Crash, stores
<1>1. TypeOK'
  BY PresenceAssumption DEF TypeOK
<1>2. Registered' /\ MarksBacked'
  BY DEF Registered, MarksBacked, TypeOK
<1>3. \A r \in Rooms, u \in Users : Subscribed(r, u)' = {}
  BY DEF Subscribed
<1>4. SubscribersCounted' /\ CountExact'
  <2>1. \A r \in Rooms, u \in Users :
          count'[r][u] = 0 /\ Cardinality(Subscribed(r, u)') = 0
    BY <1>3, FS_EmptySet
  <2> QED
    BY <2>1 DEF SubscribersCounted, CountExact
<1>5. EntriesBacked'
  BY DEF EntriesBacked, TypeOK, Entries
<1>6. DeadTainted' /\ CountedListed'
  BY DEF DeadTainted, CountedListed, TypeOK
<1> QED
  BY <1>1, <1>2, <1>4, <1>5, <1>6

LEMMA SubscribeKeeps ==
  ASSUME IInv, NEW c \in Connections, NEW r \in Rooms, Subscribe(c, r)
  PROVE  IInv'
<1> DEFINE u == UserOf[c]
<1> USE DEF IInv, Subscribe, Idle, stores, history, bounds
<1>0. u \in Users /\ count[r][u] \in 0 .. MaxCount /\ MaxCount \in Nat
  BY PresenceAssumption DEF TypeOK
<1>1. TypeOK'
  <2>1. <<Mark("presence", r)>> \in Seq(Commands) /\ <<>> \in Seq(Commands)
    BY DEF Mark, Commands, Kinds
  <2>2. count[r][u] + 1 \in 0 .. MaxCount
    BY <1>0
  <2>3. count' \in [Rooms -> [Users -> 0 .. MaxCount]]
    BY <2>2, <1>0 DEF TypeOK
  <2>4. todo' \in [Connections -> Seq(Commands)]
    BY <2>1 DEF TypeOK
  <2> QED
    BY <2>3, <2>4, <1>0 DEF TypeOK
<1>2. Registered'
  BY DEF Registered, TypeOK
<1>4. ASSUME NEW q \in Rooms, NEW v \in Users
      PROVE  /\ <<q, v>> # <<r, u>> => /\ count'[q][v] = count[q][v]
                                      /\ Subscribed(q, v)' = Subscribed(q, v)
             /\ count'[r][u] = count[r][u] + 1
             /\ Subscribed(r, u)' = Subscribed(r, u) \cup {c}
  <2>1. Subscribed(r, u)' = Subscribed(r, u) \cup {c}
    BY DEF Subscribed, TypeOK
  <2>2. count'[r][u] = count[r][u] + 1
    BY <1>0 DEF TypeOK
  <2>3. <<q, v>> # <<r, u>> => Subscribed(q, v)' = Subscribed(q, v)
    BY DEF Subscribed, TypeOK
  <2>4. <<q, v>> # <<r, u>> => count'[q][v] = count[q][v]
    BY <1>0 DEF TypeOK
  <2> QED
    BY <2>1, <2>2, <2>3, <2>4
<1>5. /\ Cardinality(Subscribed(r, u) \cup {c}) <= Cardinality(Subscribed(r, u)) + 1
      /\ r \notin rooms[c] =>
           Cardinality(Subscribed(r, u) \cup {c}) = Cardinality(Subscribed(r, u)) + 1
      /\ Cardinality(Subscribed(r, u)) \in Nat
      /\ Cardinality(Subscribed(r, u) \cup {c}) \in Nat
  <2>1. IsFiniteSet(Subscribed(r, u)) /\ Cardinality(Subscribed(r, u)) \in Nat
    BY SubscribedFinite
  <2>2. c \in Subscribed(r, u) <=> r \in rooms[c]
    BY DEF Subscribed
  <2>3. Cardinality(Subscribed(r, u) \cup {c}) =
          IF c \in Subscribed(r, u) THEN Cardinality(Subscribed(r, u))
          ELSE Cardinality(Subscribed(r, u)) + 1
    BY <2>1, FS_AddElement
  <2> HIDE DEF IInv, Subscribe
  <2> QED
    BY <2>1, <2>2, <2>3
<1>6. SubscribersCounted' /\ CountExact'
  <2>1. /\ count[r][u] >= Cardinality(Subscribed(r, u))
        /\ <<r, u>> \notin tainted => count[r][u] = Cardinality(Subscribed(r, u))
    BY <1>0 DEF SubscribersCounted, CountExact
  <2>2. /\ count'[r][u] >= Cardinality(Subscribed(r, u)')
        /\ <<r, u>> \notin tainted' => count'[r][u] = Cardinality(Subscribed(r, u)')
    <3>1. /\ count'[r][u] = count[r][u] + 1
          /\ Subscribed(r, u)' = Subscribed(r, u) \cup {c}
      BY <1>0, <1>4
    <3>2. <<r, u>> \notin tainted' => r \notin rooms[c] /\ <<r, u>> \notin tainted
      OBVIOUS
    <3> HIDE DEF IInv, Subscribe
    <3> QED
      BY <1>0, <1>5, <2>1, <3>1, <3>2
  <2>3. ASSUME NEW q \in Rooms, NEW v \in Users, <<q, v>> # <<r, u>>
        PROVE  /\ count'[q][v] >= Cardinality(Subscribed(q, v)')
               /\ <<q, v>> \notin tainted' => count'[q][v] = Cardinality(Subscribed(q, v)')
    <3>1. tainted \subseteq tainted'
      OBVIOUS
    <3> QED
      BY <1>4, <2>3, <3>1 DEF SubscribersCounted, CountExact
  <2> QED
    BY <2>2, <2>3 DEF SubscribersCounted, CountExact
<1>7. MarksBacked'
  BY DEF MarksBacked, TypeOK, Mark
<1>8. EntriesBacked'
  <2>1. \A q, v : Subscribed(q, v) \subseteq Subscribed(q, v)'
    BY DEF Subscribed, TypeOK
  <2>0. \A d \in Connections : todo[d] = <<>> \/ todo'[d] = todo[d]
    BY DEF TypeOK
  <2>2. \A e : BeingCleared(e) => BeingCleared(e)'
    BY <2>0, ClearsKept
  <2>3. tainted \subseteq tainted'
    OBVIOUS
  <2> QED
    BY <2>1, <2>2, <2>3 DEF EntriesBacked
<1>a. DeadTainted'
  BY DEF DeadTainted, TypeOK
<1>9. CountedListed'
  <2>1. \A d \in Connections : todo[d] = <<>> \/ todo'[d] = todo[d]
    BY DEF TypeOK
  <2>2. \A q \in Rooms, v \in Users : Listed(q, v) => Listed(q, v)'
    BY <2>1, ListedKept
  <2>3. count[r][u] > 0 => Listed(r, u)
    BY <1>0 DEF CountedListed
  <2>4. count[r][u] = 0 => Listed(r, u)'
    <3>1. count[r][u] = 0 => todo'[c] = <<Mark("presence", r)>>
      BY DEF WasOffline, TypeOK
    <3> QED
      BY <3>1 DEF Listed, MarkPending, Mark
  <2>5. Listed(r, u)'
    BY <1>0, <2>2, <2>3, <2>4
  <2>6. \A q \in Rooms, v \in Users : <<q, v>> # <<r, u>> /\ count'[q][v] > 0 => Listed(q, v)'
    BY <1>4, <2>2 DEF CountedListed
  <2> QED
    BY <2>5, <2>6 DEF CountedListed
<1> QED
  BY <1>1, <1>2, <1>6, <1>7, <1>8, <1>9, <1>a

LEMMA UnsubscribeKeeps ==
  ASSUME IInv, NEW c \in Connections, NEW r \in Rooms, Unsubscribe(c, r)
  PROVE  IInv'
<1> DEFINE u == UserOf[c]
<1> USE DEF IInv, Unsubscribe, Idle, stores, history, bounds
<1>0. u \in Users /\ count[r][u] \in 0 .. MaxCount /\ MaxCount \in Nat
  BY PresenceAssumption DEF TypeOK
<1>w. /\ Without({c}, r, u) \in 0 .. MaxCount /\ Without({c}, r, u) <= count[r][u]
      /\ Without({c}, r, u) >= Cardinality(Subscribed(r, u) \ {c})
      /\ <<r, u>> \notin tainted => Without({c}, r, u) = Cardinality(Subscribed(r, u) \ {c})
  <2>1. /\ count[r][u] >= Cardinality(Subscribed(r, u))
        /\ <<r, u>> \notin tainted => count[r][u] = Cardinality(Subscribed(r, u))
    BY <1>0 DEF SubscribersCounted, CountExact
  <2> QED
    BY <1>0, <2>1, WithoutFacts
<1>1. TypeOK'
  <2>1. ClearBoth(r) \in Seq(Commands) /\ <<>> \in Seq(Commands)
    BY DEF ClearBoth, Clear, Commands, Kinds
  <2>2. count' \in [Rooms -> [Users -> 0 .. MaxCount]]
    BY <1>w, <1>0 DEF TypeOK
  <2>3. todo' \in [Connections -> Seq(Commands)]
    BY <2>1 DEF TypeOK
  <2>4. rooms' \in [Connections -> SUBSET Rooms]
    BY DEF TypeOK
  <2> QED
    BY <2>2, <2>3, <2>4 DEF TypeOK
<1>2. Registered'
  BY DEF Registered, TypeOK
<1>4. ASSUME NEW q \in Rooms, NEW v \in Users
      PROVE  /\ <<q, v>> # <<r, u>> => /\ count'[q][v] = count[q][v]
                                      /\ Subscribed(q, v)' = Subscribed(q, v)
             /\ count'[r][u] = Without({c}, r, u)
             /\ Subscribed(r, u)' = Subscribed(r, u) \ {c}
             /\ count'[q][v] <= count[q][v]
  <2>1. Subscribed(r, u)' = Subscribed(r, u) \ {c}
    BY DEF Subscribed, TypeOK
  <2>2. count'[r][u] = Without({c}, r, u)
    BY <1>0 DEF TypeOK
  <2>3. <<q, v>> # <<r, u>> => Subscribed(q, v)' = Subscribed(q, v)
    BY DEF Subscribed, TypeOK
  <2>4. <<q, v>> # <<r, u>> => count'[q][v] = count[q][v]
    BY <1>0 DEF TypeOK
  <2>5. count[q][v] \in 0 .. MaxCount
    BY DEF TypeOK
  <2>6. count'[q][v] <= count[q][v]
    BY <2>2, <2>4, <2>5, <1>w, <1>0
  <2> QED
    BY <2>1, <2>2, <2>3, <2>4, <2>6
<1>6. SubscribersCounted' /\ CountExact'
  <2>1. ASSUME NEW q \in Rooms, NEW v \in Users
        PROVE  /\ count'[q][v] >= Cardinality(Subscribed(q, v)')
               /\ <<q, v>> \notin tainted' => count'[q][v] = Cardinality(Subscribed(q, v)')
    <3>1. CASE <<q, v>> = <<r, u>>
      <4>1. q = r /\ v = u /\ tainted' = tainted
        BY <3>1
      <4>2. count'[r][u] = Without({c}, r, u) /\ Subscribed(r, u)' = Subscribed(r, u) \ {c}
        BY <1>0, <1>4
      <4> HIDE DEF IInv, Unsubscribe
      <4> QED
        BY <1>w, <4>1, <4>2
    <3>2. CASE <<q, v>> # <<r, u>>
      BY <1>4, <3>2 DEF SubscribersCounted, CountExact
    <3> QED
      BY <3>1, <3>2
  <2> QED
    BY <2>1 DEF SubscribersCounted, CountExact
<1>7. MarksBacked'
  BY DEF MarksBacked, TypeOK, ClearBoth, Clear
<1>8. EntriesBacked'
  <2> SUFFICES ASSUME NEW e \in live, Subscribed(e[2], e[3])' = {}, <<e[2], e[3]>> \notin tainted
               PROVE  BeingCleared(e)'
    BY DEF EntriesBacked
  <2>0. e \in Entries /\ e[1] \in Kinds /\ e[2] \in Rooms /\ e[3] \in Users /\ e = <<e[1], e[2], e[3]>>
    BY DEF TypeOK, Entries
  <2>1. CASE BeingCleared(e)
    <3>1. PICK d \in Connections : \E i \in DOMAIN todo[d] :
            todo[d][i].op = "clear" /\ Entry(d, todo[d][i]) = e
      BY <2>1 DEF BeingCleared
    <3>2. todo'[d] = todo[d]
      BY <3>1 DEF TypeOK
    <3> HIDE DEF IInv, Unsubscribe
    <3> QED
      BY <3>1, <3>2 DEF BeingCleared, Entry
  <2>2. CASE ~BeingCleared(e)
    <3>1. Subscribed(e[2], e[3]) # {}
      BY <2>2 DEF EntriesBacked
    <3>2. <<e[2], e[3]>> = <<r, u>>
      BY <3>1, <2>0, <1>4
    <3>3. e[2] = r /\ e[3] = u
      BY <3>2
    <3>4. count'[r][u] = 0
      <4>1. count'[r][u] = Without({c}, r, u) /\ Subscribed(r, u) \ {c} = {}
        BY <1>0, <1>4, <3>3
      <4> QED
        BY <4>1, <1>w, <3>3, FS_EmptySet
    <3>5. r \in rooms[c]
      BY <1>0, <1>4, <3>1, <3>3 DEF Subscribed
    <3>6. todo'[c] = ClearBoth(r)
      BY <3>4, <3>5 DEF CanUnsubscribe, TypeOK
    <3>7. \E i \in DOMAIN todo'[c] : todo'[c][i] = Clear(e[1], r)
      <4>1. /\ DOMAIN ClearBoth(r) = 1 .. 2 /\ ClearBoth(r)[1] = Clear("presence", r)
            /\ ClearBoth(r)[2] = Clear("typing", r)
        BY DEF ClearBoth
      <4>2. e[1] = "presence" \/ e[1] = "typing"
        BY <2>0 DEF Kinds
      <4> HIDE DEF IInv, Unsubscribe
      <4> QED
        BY <3>6, <4>1, <4>2
    <3>8. Entry(c, Clear(e[1], r)) = e
      BY <2>0, <3>3 DEF Entry, Clear
    <3>9. Clear(e[1], r).op = "clear"
      BY DEF Clear
    <3> QED
      BY <3>7, <3>8, <3>9 DEF BeingCleared, Entry
  <2> QED
    BY <2>1, <2>2
<1>a. DeadTainted'
  BY DEF DeadTainted, TypeOK
<1>9. CountedListed'
  <2>1. \A d \in Connections : todo[d] = <<>> \/ todo'[d] = todo[d]
    BY DEF TypeOK
  <2>2. \A q \in Rooms, v \in Users : Listed(q, v) => Listed(q, v)'
    BY <2>1, ListedKept
  <2>3. \A q \in Rooms, v \in Users : count'[q][v] > 0 => count[q][v] > 0
    <3>1. \A q \in Rooms, v \in Users : count[q][v] \in 0 .. MaxCount /\ count'[q][v] \in 0 .. MaxCount
      BY <1>1 DEF TypeOK
    <3>2. \A q \in Rooms, v \in Users : count'[q][v] <= count[q][v]
      BY <1>4
    <3> HIDE DEF IInv, Unsubscribe
    <3> QED
      BY <3>1, <3>2, PresenceAssumption
  <2> QED
    BY <2>2, <2>3 DEF CountedListed
<1> QED
  BY <1>1, <1>2, <1>6, <1>7, <1>8, <1>9, <1>a

LEMMA DisconnectKeeps ==
  ASSUME IInv, NEW c \in Connections, Disconnect(c)
  PROVE  IInv'
<1> DEFINE u == UserOf[c]
<1> USE DEF IInv, Disconnect, stores, history, bounds
<1>0. u \in Users /\ {c} \in SUBSET Connections /\ MaxCount \in Nat
  BY PresenceAssumption
<1>f. /\ known' \subseteq Connections
      /\ rooms' \in [Connections -> SUBSET Rooms]
      /\ count' \in [Rooms -> [Users -> 0 .. MaxCount]]
      /\ \A r \in Rooms, v \in Users :
           /\ Subscribed(r, v)' = Subscribed(r, v) \ {c}
           /\ count'[r][v] = Without({c}, r, v) /\ count'[r][v] <= count[r][v]
           /\ count'[r][v] >= Cardinality(Subscribed(r, v)')
           /\ <<r, v>> \notin tainted => count'[r][v] = Cardinality(Subscribed(r, v)')
  BY <1>0, ForgetFacts
<1>s. PICK s \in Cleanups(c) : todo' = [todo EXCEPT ![c] = s]
  OBVIOUS
<1>k. /\ s \in Seq(Commands)
      /\ \A i \in DOMAIN s : s[i].op = "clear"
      /\ \A r \in OfflineRooms(c), k \in Kinds : \E i \in DOMAIN s : s[i] = Clear(k, r)
  BY CleanupFacts
<1>1. TypeOK'
  BY <1>f, <1>s, <1>k DEF TypeOK
<1>2. Registered'
  BY <1>s DEF Registered, Forget, TypeOK
<1>6. SubscribersCounted' /\ CountExact'
  BY <1>f DEF SubscribersCounted, CountExact
<1>7. MarksBacked'
  <2>1. \A d \in Connections : d # c => todo'[d] = todo[d] /\ rooms'[d] = rooms[d]
    BY <1>s DEF TypeOK, Forget
  <2>2. todo'[c] = s
    BY <1>s DEF TypeOK
  <2> QED
    BY <1>k, <2>1, <2>2 DEF MarksBacked
<1>8. EntriesBacked'
  <2> SUFFICES ASSUME NEW e \in live, Subscribed(e[2], e[3])' = {}, <<e[2], e[3]>> \notin tainted
               PROVE  BeingCleared(e)'
    BY DEF EntriesBacked
  <2>0. e \in Entries /\ e[1] \in Kinds /\ e[2] \in Rooms /\ e[3] \in Users /\ e = <<e[1], e[2], e[3]>>
    BY DEF TypeOK, Entries
  <2>1. CASE BeingCleared(e)
    BY <2>1, <1>s DEF BeingCleared, Entry, TypeOK
  <2>2. CASE ~BeingCleared(e)
    <3>1. Subscribed(e[2], e[3]) # {} /\ Subscribed(e[2], e[3]) \ {c} = {}
      BY <2>2, <2>0, <1>f DEF EntriesBacked
    <3>3. e[3] = u /\ e[2] \in rooms[c]
      BY <3>1 DEF Subscribed
    <3>4. Without({c}, e[2], u) = 0
      <4>1. Without({c}, e[2], u) = Cardinality(Subscribed(e[2], u)')
        <5>1. /\ count'[e[2]][u] = Without({c}, e[2], u)
              /\ count'[e[2]][u] = Cardinality(Subscribed(e[2], u)')
          BY <2>0, <3>3, <1>0, <1>f
        <5> QED
          BY <5>1
      <4> QED
        BY <4>1, <3>3, FS_EmptySet
    <3>5. e[2] \in OfflineRooms(c)
      BY <3>3, <3>4 DEF OfflineRooms
    <3>6. todo'[c] = s
      BY <1>s DEF TypeOK
    <3>7. \E i \in DOMAIN todo'[c] : todo'[c][i] = Clear(e[1], e[2])
      BY <3>5, <3>6, <2>0, <1>k
    <3>8. Entry(c, Clear(e[1], e[2])) = e
      BY <2>0, <3>3 DEF Entry, Clear
    <3>9. Clear(e[1], e[2]).op = "clear"
      BY DEF Clear
    <3> QED
      BY <3>7, <3>8, <3>9 DEF BeingCleared, Entry
  <2> QED
    BY <2>1, <2>2
<1>a. DeadTainted'
  BY DEF DeadTainted, Forget, TypeOK
<1>9. CountedListed'
  <2>1. \A d \in Connections : todo[d] = <<>> \/ todo'[d] = todo[d]
    BY <1>s DEF TypeOK
  <2>2. \A q \in Rooms, v \in Users : Listed(q, v) => Listed(q, v)'
    BY <2>1, ListedKept
  <2>3. \A q \in Rooms, v \in Users : count'[q][v] > 0 => count[q][v] > 0
    <3>1. \A q \in Rooms, v \in Users : count[q][v] \in 0 .. MaxCount /\ count'[q][v] \in 0 .. MaxCount
      BY <1>1 DEF TypeOK
    <3>2. \A q \in Rooms, v \in Users : count'[q][v] <= count[q][v]
      BY <1>f
    <3> HIDE DEF IInv, Disconnect
    <3> QED
      BY <3>1, <3>2, PresenceAssumption
  <2> QED
    BY <2>2, <2>3 DEF CountedListed
<1> QED
  BY <1>1, <1>2, <1>6, <1>7, <1>8, <1>9, <1>a

LEMMA SweepKeeps ==
  ASSUME IInv, NEW D \in SUBSET Connections, Sweep(D)
  PROVE  IInv'
<1> USE DEF IInv, Sweep, stores, history, bounds
<1>f. /\ known' \subseteq Connections
      /\ rooms' \in [Connections -> SUBSET Rooms]
      /\ count' \in [Rooms -> [Users -> 0 .. MaxCount]]
      /\ \A r \in Rooms, v \in Users :
           /\ Subscribed(r, v)' = Subscribed(r, v) \ D
           /\ count'[r][v] = Without(D, r, v) /\ count'[r][v] <= count[r][v]
           /\ count'[r][v] >= Cardinality(Subscribed(r, v)')
           /\ <<r, v>> \notin tainted => count'[r][v] = Cardinality(Subscribed(r, v)')
  BY ForgetFacts
<1>t. /\ tainted \subseteq tainted' /\ tainted' \subseteq Rooms \X Users
      /\ \A d \in D : \A r \in rooms[d] : <<r, UserOf[d]>> \in tainted'
  BY PresenceAssumption DEF Abandoned, TypeOK
<1>1. TypeOK'
  BY <1>f, <1>t DEF TypeOK
<1>2. Registered'
  BY DEF Registered, Forget, TypeOK
<1>6. SubscribersCounted' /\ CountExact'
  BY <1>f, <1>t DEF SubscribersCounted, CountExact
<1>7. MarksBacked'
  <2> SUFFICES ASSUME NEW d \in Connections, NEW i \in DOMAIN todo[d], todo[d][i].op = "mark"
               PROVE  \/ todo[d][i].room \in rooms'[d]
                      \/ <<todo[d][i].room, UserOf[d]>> \in tainted'
    BY DEF MarksBacked
  <2>2. CASE d \in D
    BY <2>2, <1>t DEF MarksBacked
  <2>3. CASE d \notin D
    BY <2>3, <1>t DEF MarksBacked, Forget
  <2> QED
    BY <2>2, <2>3
<1>8. EntriesBacked'
  <2> SUFFICES ASSUME NEW e \in live, Subscribed(e[2], e[3])' = {}, <<e[2], e[3]>> \notin tainted'
               PROVE  BeingCleared(e)'
    BY DEF EntriesBacked
  <2>0. e[2] \in Rooms /\ e[3] \in Users
    BY DEF TypeOK, Entries
  <2>1. Subscribed(e[2], e[3]) \cap D = {}
    BY <2>0, <1>t DEF Subscribed
  <2>2. Subscribed(e[2], e[3]) = {}
    BY <2>0, <2>1, <1>f
  <2>3. BeingCleared(e)
    BY <2>2, <1>t DEF EntriesBacked
  <2> QED
    BY <2>3 DEF BeingCleared
<1>a. DeadTainted'
  BY <1>t DEF DeadTainted, Forget
<1>9. CountedListed'
  <2>1. \A q \in Rooms, v \in Users : Listed(q, v) => Listed(q, v)'
    BY DEF Listed, MarkPending
  <2>2. \A q \in Rooms, v \in Users : count'[q][v] > 0 => count[q][v] > 0
    <3>1. \A q \in Rooms, v \in Users : count[q][v] \in 0 .. MaxCount /\ count'[q][v] \in 0 .. MaxCount
      BY <1>1 DEF TypeOK
    <3>2. \A q \in Rooms, v \in Users : count'[q][v] <= count[q][v]
      BY <1>f
    <3> HIDE DEF IInv, Sweep
    <3> QED
      BY <3>1, <3>2, PresenceAssumption
  <2> QED
    BY <2>1, <2>2 DEF CountedListed
<1> QED
  BY <1>1, <1>2, <1>6, <1>7, <1>8, <1>9, <1>a

(* One Redis command of a handler, or the failure of all that are left.    *)
LEMMA ApplyFacts ==
  ASSUME TypeOK, NEW c \in Connections, todo[c] # <<>>, Apply(c, Head(todo[c]))
  PROVE  /\ Head(todo[c]) \in Commands /\ Entry(c, Head(todo[c])) \in Entries
         /\ live' \subseteq Entries /\ lapsed' = lapsed
         /\ Head(todo[c]).op = "mark" => live' = live \cup {Entry(c, Head(todo[c]))}
         /\ Head(todo[c]).op = "clear" => live' = live \ {Entry(c, Head(todo[c]))}
<1>1. Head(todo[c]) \in Commands
  BY TailFacts DEF TypeOK
<1>2. Entry(c, Head(todo[c])) \in Entries
  BY <1>1, PresenceAssumption DEF Entry, Entries, Commands
<1>3. live' \subseteq Entries /\ lapsed' = lapsed
  BY <1>2 DEF Apply, TypeOK
<1>4. /\ Head(todo[c]).op = "mark" => live' = live \cup {Entry(c, Head(todo[c]))}
      /\ Head(todo[c]).op = "clear" => live' = live \ {Entry(c, Head(todo[c]))}
  BY DEF Apply
<1> QED
  BY <1>1, <1>2, <1>3, <1>4

LEMMA SendCommandKeeps ==
  ASSUME IInv, NEW c \in Connections, SendCommand(c)
  PROVE  IInv'
<1> DEFINE cmd == Head(todo[c])
<1> USE DEF IInv, SendCommand, manager, history, bounds
<1>a. /\ cmd \in Commands /\ Entry(c, cmd) \in Entries
      /\ live' \subseteq Entries /\ lapsed' = lapsed
      /\ cmd.op = "mark" => live' = live \cup {Entry(c, cmd)}
      /\ cmd.op = "clear" => live' = live \ {Entry(c, cmd)}
  BY ApplyFacts
<1>b. /\ todo[c] \in Seq(Commands) /\ todo'[c] = Tail(todo[c])
      /\ \A d \in Connections : d # c => todo'[d] = todo[d]
  BY DEF TypeOK
<1>c. /\ Tail(todo[c]) \in Seq(Commands) /\ cmd = todo[c][1] /\ 1 \in DOMAIN todo[c]
      /\ \A i \in DOMAIN Tail(todo[c]) :
           i + 1 \in DOMAIN todo[c] /\ Tail(todo[c])[i] = todo[c][i + 1]
      /\ \A i \in DOMAIN todo[c] :
           i = 1 \/ (i - 1 \in DOMAIN Tail(todo[c]) /\ todo[c][i] = Tail(todo[c])[i - 1])
  BY <1>b, TailFacts
<1>d. /\ socket' = socket /\ known' = known /\ rooms' = rooms /\ count' = count
      /\ tainted' = tainted /\ todo[c] # <<>>
      /\ \A r, u : Subscribed(r, u)' = Subscribed(r, u)
  BY DEF Subscribed
<1>u. undone' = IF TooLate(c, cmd) THEN undone \cup {<<cmd.room, UserOf[c]>>} ELSE undone
  OBVIOUS
<1>1. TypeOK'
  <2>1. undone' \subseteq Rooms \X Users
    <3>1. cmd.room \in Rooms /\ UserOf[c] \in Users /\ undone \subseteq Rooms \X Users
      BY <1>a, PresenceAssumption DEF TypeOK, Commands
    <3> HIDE DEF IInv, SendCommand
    <3> QED
      BY <1>u, <3>1
  <2> QED
    BY <2>1, <1>a, <1>c, <1>d DEF TypeOK
<1>2. Registered'
  BY <1>b, <1>d DEF Registered, TypeOK
<1>3. SubscribersCounted' /\ CountExact' /\ DeadTainted'
  BY <1>d DEF SubscribersCounted, CountExact, DeadTainted
<1>m. MarksBacked
  OBVIOUS
<1>7. MarksBacked'
  <2> HIDE DEF IInv, SendCommand
  <2> SUFFICES ASSUME NEW d \in Connections, NEW i \in DOMAIN todo'[d], todo'[d][i].op = "mark"
               PROVE  \/ todo'[d][i].room \in rooms[d]
                      \/ <<todo'[d][i].room, UserOf[d]>> \in tainted
    BY <1>d DEF MarksBacked
  <2>1. \E j \in DOMAIN todo[d] : todo'[d][i] = todo[d][j]
    <3>1. CASE d = c
      <4>1. i \in DOMAIN Tail(todo[c]) /\ todo'[d][i] = Tail(todo[c])[i]
        BY <3>1, <1>b
      <4> QED
        BY <4>1, <3>1, <1>c
    <3>2. CASE d # c
      BY <3>2, <1>b
    <3> QED
      BY <3>1, <3>2
  <2> QED
    BY <2>1, <1>m DEF MarksBacked
<1>8. EntriesBacked'
  <2> SUFFICES ASSUME NEW e \in live', Subscribed(e[2], e[3]) = {}, <<e[2], e[3]>> \notin tainted
               PROVE  BeingCleared(e)'
    BY <1>d DEF EntriesBacked
  <2>1. cmd.op \in {"mark", "clear"}
    BY <1>a DEF Commands
  <2>2. e \in live
    <3> SUFFICES ASSUME cmd.op = "mark", e = Entry(c, cmd)
                 PROVE  FALSE
      BY <1>a, <2>1
    <3>1. e[2] = cmd.room /\ e[3] = UserOf[c]
      BY DEF Entry
    <3>2. cmd.room \in rooms[c]
      BY <1>c, <3>1 DEF MarksBacked
    <3> QED
      BY <3>1, <3>2 DEF Subscribed
  <2>3. PICK d \in Connections : \E i \in DOMAIN todo[d] :
          todo[d][i].op = "clear" /\ Entry(d, todo[d][i]) = e
    BY <2>2 DEF EntriesBacked, BeingCleared
  <2>4. CASE d = c
    <3>1. PICK i \in DOMAIN todo[c] : todo[c][i].op = "clear" /\ Entry(c, todo[c][i]) = e
      BY <2>3, <2>4
    <3>2. i # 1
      BY <3>1, <1>a, <1>c
    <3>3. i - 1 \in DOMAIN todo'[c] /\ todo'[c][i - 1] = todo[c][i]
      BY <3>2, <1>b, <1>c
    <3> HIDE DEF IInv, SendCommand
    <3> QED
      BY <3>1, <3>3 DEF BeingCleared, Entry
  <2>5. CASE d # c
    <3>1. todo'[d] = todo[d]
      BY <2>5, <1>b
    <3> HIDE DEF IInv, SendCommand
    <3> QED
      BY <2>3, <3>1 DEF BeingCleared, Entry
  <2> QED
    BY <2>4, <2>5
<1>9. CountedListed'
  <2> SUFFICES ASSUME NEW q \in Rooms, NEW v \in Users, count[q][v] > 0
               PROVE  Listed(q, v)'
    BY <1>d DEF CountedListed
  <2> DEFINE e == <<"presence", q, v>>
  <2>1. Listed(q, v)
    BY DEF CountedListed
  <2> HIDE DEF IInv, SendCommand
  <2>2. CASE cmd = Mark("presence", q) /\ UserOf[c] = v
    <3>1. e \in live'
      BY <2>2, <1>a DEF Mark, Entry
    <3> QED
      BY <3>1 DEF Listed
  <2>3. CASE cmd = Clear("presence", q) /\ UserOf[c] = v /\ ~MarkPending(q, v)
    <3>1. cmd.room = q
      BY <2>3 DEF Clear
    <3>2. TooLate(c, cmd)
      BY <2>3, <3>1 DEF TooLate
    <3> QED
      BY <1>u, <2>3, <3>1, <3>2 DEF Listed
  <2>4. ASSUME ~(cmd = Mark("presence", q) /\ UserOf[c] = v), MarkPending(q, v)
        PROVE  MarkPending(q, v)'
    <3>1. PICK d \in Connections : \E i \in DOMAIN todo[d] :
            UserOf[d] = v /\ todo[d][i] = Mark("presence", q)
      BY <2>4 DEF MarkPending
    <3>2. PICK i \in DOMAIN todo[d] : UserOf[d] = v /\ todo[d][i] = Mark("presence", q)
      BY <3>1
    <3>3. CASE d = c
      <4>1. i # 1
        BY <2>4, <3>2, <3>3, <1>c
      <4>2. i - 1 \in DOMAIN todo'[c] /\ todo'[c][i - 1] = todo[c][i]
        BY <3>3, <4>1, <1>b, <1>c
      <4> QED
        BY <3>2, <3>3, <4>2 DEF MarkPending, Mark
    <3>4. CASE d # c
      <4>1. todo'[d] = todo[d]
        BY <3>4, <1>b
      <4> QED
        BY <3>2, <4>1 DEF MarkPending, Mark
    <3> QED
      BY <3>3, <3>4
  <2>5. ASSUME ~(cmd = Clear("presence", q) /\ UserOf[c] = v), e \in live \cup lapsed
        PROVE  e \in live' \cup lapsed'
    <3>1. CASE cmd.op = "mark"
      BY <2>5, <3>1, <1>a
    <3>2. CASE cmd.op = "clear"
      <4>1. ~(cmd.kind = "presence" /\ cmd.room = q /\ UserOf[c] = v)
        BY <2>5, <3>2, <1>a DEF Commands, Clear
      <4>2. Entry(c, cmd) # e
        BY <4>1 DEF Entry
      <4> QED
        BY <2>5, <3>2, <4>2, <1>a
    <3> QED
      BY <3>1, <3>2, <1>a DEF Commands
  <2>6. undone \subseteq undone'
    BY <1>u
  <2> QED
    BY <2>1, <2>2, <2>3, <2>4, <2>5, <2>6 DEF Listed
<1> QED
  BY <1>1, <1>2, <1>3, <1>7, <1>8, <1>9

LEMMA CommandFailsKeeps ==
  ASSUME IInv, NEW c \in Connections, CommandFails(c)
  PROVE  IInv'
<1> USE DEF IInv, CommandFails, Die, manager, stores
<1>a. /\ live' \subseteq Entries /\ lapsed' = lapsed
      /\ live' \subseteq live \cup {Entry(c, Head(todo[c]))}
      /\ live \subseteq live' \cup {Entry(c, Head(todo[c]))}
  <2>1. CASE Apply(c, Head(todo[c]))
    <3>1. /\ live' \subseteq live \cup {Entry(c, Head(todo[c]))}
          /\ live \subseteq live' \cup {Entry(c, Head(todo[c]))}
      BY <2>1 DEF Apply
    <3> QED
      BY <2>1, <3>1, ApplyFacts
  <2>2. CASE UNCHANGED stores
    BY <2>2 DEF TypeOK
  <2> QED
    BY <2>1, <2>2
<1>b. /\ todo'[c] = <<>>
      /\ \A d \in Connections : d # c => todo'[d] = todo[d]
      /\ \A i \in DOMAIN todo[c] : todo[c][i] \in Commands
      /\ todo[c] # <<>> /\ 1 \in DOMAIN todo[c] /\ Head(todo[c]) = todo[c][1]
  BY TailFacts DEF TypeOK
<1>t. /\ tainted \subseteq tainted' /\ tainted' \subseteq Rooms \X Users
      /\ undone \subseteq undone' /\ undone' \subseteq Rooms \X Users
      /\ \A i \in DOMAIN todo[c] :
           /\ <<todo[c][i].room, UserOf[c]>> \in tainted'
           /\ todo[c][i].kind = "presence" => <<todo[c][i].room, UserOf[c]>> \in undone'
      /\ \A r \in rooms[c] : <<r, UserOf[c]>> \in tainted'
  <2>1. \A i \in DOMAIN todo[c] : todo[c][i].room \in Rooms /\ todo[c][i].kind \in Kinds
    BY <1>b DEF Commands
  <2>2. /\ tainted' = tainted \cup Abandoned(c) \cup Waiting(c, Kinds)
        /\ undone' = undone \cup Waiting(c, {"presence"})
    OBVIOUS
  <2>3. /\ tainted \subseteq Rooms \X Users /\ undone \subseteq Rooms \X Users
        /\ rooms[c] \subseteq Rooms /\ UserOf[c] \in Users
    BY PresenceAssumption DEF TypeOK
  <2> HIDE DEF IInv, CommandFails
  <2> QED
    BY <2>1, <2>2, <2>3 DEF Abandoned, Waiting
<1>d. /\ socket' = [socket EXCEPT ![c] = "dead"]
      /\ known' = known /\ rooms' = rooms /\ count' = count
      /\ \A r, u : Subscribed(r, u)' = Subscribed(r, u)
  BY DEF Subscribed
<1>1. TypeOK'
  <2>1. todo' \in [Connections -> Seq(Commands)] /\ failures' \in 0 .. MaxFailures
    BY PresenceAssumption DEF TypeOK
  <2> QED
    BY <1>a, <1>t, <1>d, <2>1 DEF TypeOK
<1>2. Registered'
  BY <1>d DEF Registered, TypeOK
<1>3. SubscribersCounted' /\ CountExact'
  BY <1>d, <1>t DEF SubscribersCounted, CountExact
<1>4. DeadTainted'
  BY <1>d, <1>t DEF DeadTainted, TypeOK
<1>7. MarksBacked'
  BY <1>b, <1>d, <1>t DEF MarksBacked
<1>8. EntriesBacked'
  <2> SUFFICES ASSUME NEW e \in live', Subscribed(e[2], e[3]) = {}, <<e[2], e[3]>> \notin tainted'
               PROVE  BeingCleared(e)'
    BY <1>d DEF EntriesBacked
  <2>1. \A i \in DOMAIN todo[c] : Entry(c, todo[c][i]) # e
    BY <1>t DEF Entry
  <2>2. e \in live
    BY <2>1, <1>a, <1>b
  <2>3. PICK d \in Connections : \E i \in DOMAIN todo[d] :
          todo[d][i].op = "clear" /\ Entry(d, todo[d][i]) = e
    BY <2>2, <1>t DEF EntriesBacked, BeingCleared
  <2>4. d # c
    BY <2>1, <2>3
  <2>5. todo'[d] = todo[d]
    BY <2>4, <1>b
  <2> HIDE DEF IInv, CommandFails
  <2> QED
    BY <2>3, <2>5 DEF BeingCleared, Entry
<1>9. CountedListed'
  <2> SUFFICES ASSUME NEW q \in Rooms, NEW v \in Users, count[q][v] > 0
               PROVE  Listed(q, v)'
    BY <1>d DEF CountedListed
  <2> DEFINE e == <<"presence", q, v>>
  <2>1. Listed(q, v)
    BY DEF CountedListed
  <2> HIDE DEF IInv, CommandFails
  <2>2. ASSUME e \in live \cup lapsed PROVE e \in live' \cup lapsed' \/ <<q, v>> \in undone'
    <3>1. CASE e = Entry(c, Head(todo[c]))
      <4>1. todo[c][1].kind = "presence" /\ todo[c][1].room = q /\ UserOf[c] = v
        BY <3>1, <1>b DEF Entry
      <4> QED
        BY <4>1, <1>b, <1>t
    <3>2. CASE e # Entry(c, Head(todo[c]))
      BY <2>2, <3>2, <1>a
    <3> QED
      BY <3>1, <3>2
  <2>3. ASSUME MarkPending(q, v) PROVE MarkPending(q, v)' \/ <<q, v>> \in undone'
    <3>1. PICK d \in Connections : \E i \in DOMAIN todo[d] :
            UserOf[d] = v /\ todo[d][i] = Mark("presence", q)
      BY <2>3 DEF MarkPending
    <3>2. PICK i \in DOMAIN todo[d] : UserOf[d] = v /\ todo[d][i] = Mark("presence", q)
      BY <3>1
    <3>3. CASE d = c
      <4>1. todo[c][i].kind = "presence" /\ todo[c][i].room = q
        BY <3>2, <3>3 DEF Mark
      <4> QED
        BY <4>1, <3>2, <3>3, <1>t
    <3>4. CASE d # c
      <4>1. todo'[d] = todo[d]
        BY <3>4, <1>b
      <4> QED
        BY <3>2, <4>1 DEF MarkPending, Mark
    <3> QED
      BY <3>3, <3>4
  <2> QED
    BY <2>1, <2>2, <2>3, <1>t DEF Listed
<1> QED
  BY <1>1, <1>2, <1>3, <1>4, <1>7, <1>8, <1>9

LEMMA NextKeeps == IInv /\ [Next]_vars => IInv'
<1> SUFFICES ASSUME IInv, [Next]_vars PROVE IInv'
  OBVIOUS
<1>1. ASSUME NEW c \in Connections,
             \/ Connect(c) \/ HangUp(c) \/ HandlerFails(c) \/ UnknownSocket(c)
             \/ \E r \in Rooms : Subscribe(c, r) \/ Unsubscribe(c, r)
             \/ \E cmd \in Commands : Update(c, cmd)
             \/ Disconnect(c) \/ SendCommand(c) \/ CommandFails(c)
      PROVE  IInv'
  BY <1>1, ConnectKeeps, HangUpKeeps, HandlerFailsKeeps, UnknownSocketKeeps,
     SubscribeKeeps, UnsubscribeKeeps, UpdateKeeps, DisconnectKeeps, SendCommandKeeps, CommandFailsKeeps
<1>2. ASSUME NEW D \in SUBSET Connections, Sweep(D)
      PROVE  IInv'
  BY <1>2, SweepKeeps
<1>3. ASSUME NEW e \in Entries, Expire(e) \/ PurgeExpired(e)
      PROVE  IInv'
  BY <1>3, ExpireKeeps
<1>4. CASE Crash
  BY <1>4, CrashKeeps
<1>5. CASE UNCHANGED vars
  <2> USE <1>5 DEF vars, manager, stores, history, bounds, IInv
  <2>1. TypeOK' /\ Registered' /\ DeadTainted'
    BY DEF TypeOK, Registered, DeadTainted
  <2>2. \A r, u : Subscribed(r, u)' = Subscribed(r, u)
    BY DEF Subscribed
  <2>3. SubscribersCounted' /\ CountExact' /\ MarksBacked'
    BY <2>2 DEF SubscribersCounted, CountExact, MarksBacked
  <2>4. EntriesBacked'
    BY <2>2 DEF EntriesBacked, BeingCleared, Entry
  <2>5. CountedListed'
    BY DEF CountedListed, Listed, MarkPending
  <2> QED
    BY <2>1, <2>3, <2>4, <2>5
<1> QED
  BY <1>1, <1>2, <1>3, <1>4, <1>5 DEF Next

-----------------------------------------------------------------------------
(* The inductive invariant of registry and stores, for any connections,    *)
(* users, rooms and bounds.                                                *)
THEOREM PresenceInvariance == Spec => []IInv
<1> QED
  BY InitIInv, NextKeeps, PTL DEF Spec

(* Counters stay in their bounds and handlers send known commands only.    *)
THEOREM PresenceTypeCorrect == Spec => []TypeOK
<1>1. IInv => TypeOK
  BY DEF IInv
<1> QED
  BY <1>1, PresenceInvariance, PTL

(* manager.unsubscribe and disconnect never report a user offline who has  *)
(* another connection in the room.                                         *)
THEOREM NobodyReportedOfflineEarly == Spec => []SubscribersCounted
<1>1. IInv => SubscribersCounted
  BY DEF IInv
<1> QED
  BY <1>1, PresenceInvariance, PTL

(* Whoever the stores list without a connection whose handler still runs   *)
(* is about to be cleared or met one of the causes GhostsHaveCause names;  *)
(* a connection that its handler left in the registry excuses nobody.      *)
THEOREM GhostsExplained == Spec => []GhostsHaveCause
<1>1. IInv => GhostsHaveCause
  <2> SUFFICES ASSUME IInv, NEW e \in live, ~BeingCleared(e), <<e[2], e[3]>> \notin tainted
               PROVE  Attended(e[2], e[3]) # {}
    BY DEF GhostsHaveCause
  <2>1. PICK c \in Connections : UserOf[c] = e[3] /\ e[2] \in rooms[c]
    BY DEF IInv, EntriesBacked, Subscribed
  <2>2. socket[c] # "dead"
    BY <2>1 DEF IInv, DeadTainted
  <2> QED
    BY <2>1, <2>2 DEF Attended, Subscribed
<1> QED
  BY <1>1, PresenceInvariance, PTL

(* A user subscribed over any number of connections, their handlers        *)
(* interleaved, is listed or about to be, unless the entry expired, a late *)
(* report of another handler removed it, or its command failed.            *)
THEOREM SubscribersAreListed == Spec => []SubscribersListed
<1>1. IInv => SubscribersListed
  <2> SUFFICES ASSUME IInv, NEW r \in Rooms, NEW u \in Users, Subscribed(r, u) # {}
               PROVE  Listed(r, u)
    BY DEF SubscribersListed, Listed
  <2>1. Cardinality(Subscribed(r, u)) # 0
    BY SubscribedFinite, FS_EmptySet
  <2>2. /\ count[r][u] >= Cardinality(Subscribed(r, u))
        /\ count[r][u] \in 0 .. MaxCount
    BY DEF IInv, SubscribersCounted, TypeOK
  <2>3. count[r][u] > 0
    BY <2>1, <2>2, SubscribedFinite, PresenceAssumption
  <2> QED
    BY <2>3 DEF IInv, CountedListed
<1> QED
  BY <1>1, PresenceInvariance, PTL
=============================================================================
