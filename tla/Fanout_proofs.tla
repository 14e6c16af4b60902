---------------------------- MODULE Fanout_proofs ----------------------------
(* Proofs about Fanout: replay and live delivery leave no hole, for any    *)
(* connections, page size and capacity of the memory.                      *)
EXTENDS Fanout, SequenceTheorems, TLAPS

(***************************************************************************)
(* A connection stays without holes when nothing it has or awaits is taken *)
(* from it, and each broadcast that starts includes it.                    *)
(***************************************************************************)
LEMMA NoHoleKept ==
  ASSUME HoleTypes, OnlyCommitted, NoHole,
         length' \in {length, length + 1},
         \A c \in Connections : Following(c)' =>
            /\ Following(c) /\ since'[c] = since[c] /\ upto'[c] = upto[c]
            /\ got[c] \subseteq got'[c]
            /\ \A n \in 1 .. length : OnItsWay(c, n) => OnItsWay(c, n)' \/ n \in got'[c],
         \A n \in Events : starts'[n] = starts[n]
            \/ \A c \in Connections : Following(c)' => OnItsWay(c, n)',
         length' > length => UNCHANGED starts /\ length' \in Events
  PROVE  NoHole'
<1> SUFFICES ASSUME NEW c \in Connections, Following(c)', NEW n \in since'[c] + 1 .. length'
             PROVE  \/ n \in got'[c] \/ OnItsWay(c, n)' \/ BeyondPage(c, n)'
                    \/ NotYetBroadcast(c, n)'
  BY DEF NoHole
<1>1. /\ Following(c) /\ since'[c] = since[c] /\ upto'[c] = upto[c]
      /\ since[c] \in Nat /\ upto[c] \in Nat /\ length \in Nat /\ upto[c] <= length
  BY DEF HoleTypes, OnlyCommitted
<1>2. n \in Nat /\ n >= 1
  BY <1>1
<1>3. CASE n <= length
  <2>1. n \in since[c] + 1 .. length /\ n \in 1 .. length /\ n \in Events
    BY <1>1, <1>2, <1>3, FanoutAssumption DEF OnlyCommitted, Events
  <2>2. n \in got[c] \/ OnItsWay(c, n) \/ BeyondPage(c, n) \/ NotYetBroadcast(c, n)
    BY <1>1, <2>1 DEF NoHole
  <2>3. CASE n \in got[c] \/ OnItsWay(c, n)
    BY <2>1, <2>3
  <2>4. CASE BeyondPage(c, n)
    BY <1>1, <2>4 DEF BeyondPage
  <2>5. CASE NotYetBroadcast(c, n)
    BY <1>1, <2>1, <2>5 DEF NotYetBroadcast
  <2> QED
    BY <2>2, <2>3, <2>4, <2>5
<1>4. CASE n > length
  <2>1. length' > length /\ n = length' /\ n \in Events
    BY <1>1, <1>2, <1>4
  <2>2. starts[n] = 0
    <3>1. starts[n] \in Nat
      BY <2>1 DEF HoleTypes
    <3>2. ~(starts[n] > 0)
      BY <1>1, <1>2, <1>4, <2>1 DEF OnlyCommitted
    <3> QED
      BY <3>1, <3>2
  <2>3. upto'[c] < n
    BY <1>1, <1>2, <1>4
  <2> QED
    BY <2>1, <2>2, <2>3 DEF NotYetBroadcast
<1> QED
  BY <1>1, <1>2, <1>3, <1>4

(* Nothing on its way to c is disturbed by a step that leaves the loops    *)
(* and the pages alone.                                                    *)
LEMMA SameWay ==
  ASSUME UNCHANGED <<page, cast>>, NEW c, NEW n, OnItsWay(c, n)
  PROVE  OnItsWay(c, n)'
BY DEF OnItsWay

(* What a loop that starts on an idle source leaves on its way.            *)
LEMMA StartedWay ==
  ASSUME HoleTypes, NEW s \in Sources, NEW new,
         cast[s].kind # "event" \/ cast[s].left = {},
         cast' = [cast EXCEPT ![s] = new], UNCHANGED page,
         NEW c, NEW n, OnItsWay(c, n)
  PROVE  OnItsWay(c, n)'
<1>1. CASE n \in ToSet(page[c])
  BY <1>1 DEF OnItsWay
<1>2. CASE \E t \in Sources : cast[t].kind = "event" /\ cast[t].event = n /\ c \in cast[t].left
  <2>1. PICK t \in Sources : cast[t].kind = "event" /\ cast[t].event = n /\ c \in cast[t].left
    BY <1>2
  <2>2. t # s /\ cast'[t] = cast[t]
    BY <2>1 DEF HoleTypes
  <2> QED
    BY <2>1, <2>2 DEF OnItsWay
<1> QED
  BY <1>1, <1>2 DEF OnItsWay

-----------------------------------------------------------------------------
LEMMA HoleInit == Init => HoleInv
<1> SUFFICES ASSUME Init PROVE HoleInv
  OBVIOUS
<1>1. HoleTypes
  <2>1. NoCast \in Casts
    BY DEF NoCast, Casts, Kinds
  <2>2. <<>> \in Seq(Nat) /\ <<>> \in Seq(Messages)
    OBVIOUS
  <2> QED
    BY <2>1, <2>2 DEF Init, HoleTypes, Steps, SocketStates
<1>2. OnlyCommitted
  BY FanoutAssumption DEF Init, OnlyCommitted, Events
<1>3. OneLoopEach
  BY DEF Init, OneLoopEach, Sources
<1>4. NoHole
  BY DEF Init, NoHole, Following
<1> QED
  BY <1>1, <1>2, <1>3, <1>4 DEF HoleInv

-----------------------------------------------------------------------------
(* A message is put on the wire, or is lost.                               *)
LEMMA PutKeeps ==
  ASSUME HoleTypes, OnlyCommitted, NEW m \in Messages, m.event \in 1 .. length, Put(m)
  PROVE  /\ wire' \in Seq(Messages)
         /\ \A i \in 1 .. Len(wire') : wire'[i].event \in 1 .. length
<1>1. CASE wire' = wire
  BY <1>1 DEF HoleTypes, OnlyCommitted
<1>2. CASE wire' = Append(wire, m)
  <2>1. /\ wire' \in Seq(Messages) /\ Len(wire') = Len(wire) + 1 /\ Len(wire) \in Nat
        /\ \A i \in 1 .. Len(wire) : wire'[i] = wire[i]
        /\ wire'[Len(wire) + 1] = m
    BY <1>2, AppendProperties, LenProperties DEF HoleTypes
  <2>2. \A i \in 1 .. Len(wire') : i \in 1 .. Len(wire) \/ i = Len(wire) + 1
    BY <2>1
  <2> QED
    BY <2>1, <2>2 DEF OnlyCommitted
<1> QED
  BY <1>1, <1>2 DEF Put

(* Steps that only move messages, or the subscription.                     *)
LEMMA WireStep ==
  ASSUME HoleInv,
         UNCHANGED <<length, starts, sockets, handler, cast, got>>,
         wire' \in Seq(Messages), remote' \subseteq remote,
         \A i \in 1 .. Len(wire') : wire'[i].event \in 1 .. length
  PROVE  HoleInv'
<1>1. HoleTypes'
  BY DEF HoleInv, HoleTypes, sockets, handler
<1>2. OnlyCommitted'
  BY DEF HoleInv, OnlyCommitted, handler
<1>3. OneLoopEach'
  BY DEF HoleInv, OneLoopEach, handler
<1>4. NoHole'
  BY DEF HoleInv, NoHole, Following, OnItsWay, BeyondPage, NotYetBroadcast, sockets, handler
<1> QED
  BY <1>1, <1>2, <1>3, <1>4 DEF HoleInv

LEMMA NotifyElsewhereInv ==
  ASSUME HoleInv, NEW n \in Events, NotifyElsewhere(n) PROVE HoleInv'
<1> DEFINE m == Message("notice", n, "elsewhere")
<1>1. m \in Messages /\ m.event = n /\ n \in 1 .. length
  BY FanoutAssumption
  DEF HoleInv, OnlyCommitted, NotifyElsewhere, Message, Messages, Kinds, Origins, Events
<1>2. Put(m)
  BY DEF NotifyElsewhere
<1> QED
  BY <1>1, <1>2, PutKeeps, WireStep DEF NotifyElsewhere, HoleInv, memory, client

LEMMA PublishEventInv ==
  ASSUME HoleInv, NEW n \in Events, PublishEvent(n) PROVE HoleInv'
<1> DEFINE m == Message("event", n, "outbox")
<1>1. m \in Messages /\ m.event = n /\ n \in 1 .. length
  BY FanoutAssumption
  DEF HoleInv, HoleTypes, PublishEvent, Message, Messages, Kinds, Origins, Events
<1>2. Put(m)
  BY DEF PublishEvent
<1> QED
  BY <1>1, <1>2, PutKeeps, WireStep DEF PublishEvent, HoleInv, memory, client

LEMMA LinkDownInv == ASSUME HoleInv, LinkDown PROVE HoleInv'
<1>1. wire \in Seq(Messages) /\ Len(wire) \in Nat
  BY LenProperties DEF HoleInv, HoleTypes
<1>2. PICK k \in 0 .. Len(wire) : wire' = SubSeq(wire, 1, k)
  BY DEF LinkDown
<1>3. \A i \in 1 .. k : wire[i] \in Messages
  BY <1>1, <1>2, ElementOfSeq
<1>4. /\ wire' \in Seq(Messages)
      /\ Len(wire') = k
      /\ \A i \in 1 .. k : wire'[i] = wire[i]
  BY <1>1, <1>2, <1>3, SubSeqProperties
<1>5. \A i \in 1 .. Len(wire') : wire'[i].event \in 1 .. length
  BY <1>1, <1>4 DEF HoleInv, OnlyCommitted
<1> QED
  BY <1>4, <1>5, WireStep DEF LinkDown, log, memory, client

LEMMA LinkUpInv == ASSUME HoleInv, LinkUp PROVE HoleInv'
BY WireStep DEF LinkUp, log, memory, client, HoleInv, HoleTypes, OnlyCommitted

-----------------------------------------------------------------------------
(* A commit, here or elsewhere: nobody has broadcast the new event yet.    *)
LEMMA CommitElsewhereInv == ASSUME HoleInv, CommitElsewhere PROVE HoleInv'
<1>1. length \in Nat /\ length < MaxEvents /\ length' = length + 1
  BY DEF HoleInv, HoleTypes, CommitElsewhere
<1>2. HoleTypes'
  BY <1>1 DEF HoleInv, HoleTypes, CommitElsewhere, sockets, handler, redis, memory, client
<1>3. OnlyCommitted'
  <2>1. length' <= MaxEvents /\ remote' \subseteq 1 .. length'
    BY <1>1, FanoutAssumption DEF HoleInv, OnlyCommitted, CommitElsewhere
  <2>2. \A n \in Events : starts'[n] > 0 => n <= length'
    BY <1>1, FanoutAssumption
    DEF HoleInv, OnlyCommitted, HoleTypes, CommitElsewhere, memory, Events
  <2>3. \A c \in Connections : since'[c] <= length' /\ upto'[c] <= length'
    BY <1>1 DEF HoleInv, OnlyCommitted, HoleTypes, CommitElsewhere, handler
  <2>4. \A c \in Connections : step'[c] \in {"acking", "notifying", "publishing", "casting"}
                               => sending'[c] \in 1 .. length'
    BY <1>1 DEF HoleInv, OnlyCommitted, HoleTypes, CommitElsewhere, handler
  <2>5. \A i \in 1 .. Len(wire') : wire'[i].event \in 1 .. length'
    BY <1>1 DEF HoleInv, OnlyCommitted, CommitElsewhere, redis
  <2> QED
    BY <2>1, <2>2, <2>3, <2>4, <2>5 DEF OnlyCommitted
<1>4. OneLoopEach'
  BY DEF HoleInv, OneLoopEach, CommitElsewhere, handler
<1>5. NoHole'
  <2>1. length' \in Events
    BY <1>1, FanoutAssumption DEF Events
  <2>2. /\ UNCHANGED <<starts, page, cast, since, upto, got, registered, socket, step>>
    BY DEF CommitElsewhere, memory, handler, client, sockets
  <2>3. \A c \in Connections : Following(c)' => Following(c)
    BY <2>2 DEF Following
  <2> QED
    BY <1>1, <2>1, <2>2, <2>3, SameWay, NoHoleKept DEF HoleInv
<1> QED
  BY <1>2, <1>3, <1>4, <1>5 DEF HoleInv

LEMMA MessageSendInv ==
  ASSUME HoleInv, NEW c \in Connections, MessageSend(c) PROVE HoleInv'
<1>1. length \in Nat /\ length < MaxEvents /\ length' = length + 1
  BY DEF HoleInv, HoleTypes, MessageSend
<1>2. /\ step' = [step EXCEPT ![c] = "acking"] /\ step[c] = "idle"
      /\ sending' = [sending EXCEPT ![c] = length + 1]
      /\ UNCHANGED <<remote, starts, page, cast, since, upto, got, registered, socket, wire>>
  BY DEF MessageSend, Idle, memory, client, sockets, redis
<1>3. HoleTypes'
  BY <1>1, <1>2 DEF HoleInv, HoleTypes, Steps
<1>4. OnlyCommitted'
  <2>1. length' <= MaxEvents /\ remote' \subseteq 1 .. length'
    <3>1. length' <= MaxEvents
      BY <1>1, FanoutAssumption
    <3>2. remote \subseteq 1 .. length
      BY DEF HoleInv, OnlyCommitted
    <3> QED
      BY <1>1, <1>2, <3>1, <3>2
  <2>2. \A n \in Events : starts'[n] > 0 => n <= length'
    BY <1>1, <1>2, FanoutAssumption DEF HoleInv, OnlyCommitted, HoleTypes, Events
  <2>3. \A d \in Connections : since'[d] <= length' /\ upto'[d] <= length'
    BY <1>1, <1>2 DEF HoleInv, OnlyCommitted, HoleTypes
  <2>4. \A d \in Connections : step'[d] \in {"acking", "notifying", "publishing", "casting"}
                               => sending'[d] \in 1 .. length'
    BY <1>1, <1>2 DEF HoleInv, OnlyCommitted, HoleTypes
  <2>5. \A i \in 1 .. Len(wire') : wire'[i].event \in 1 .. length'
    BY <1>1, <1>2 DEF HoleInv, OnlyCommitted
  <2> QED
    BY <2>1, <2>2, <2>3, <2>4, <2>5 DEF OnlyCommitted
<1>5. OneLoopEach'
  BY <1>2 DEF HoleInv, HoleTypes, OneLoopEach
<1>6. NoHole'
  <2>1. length' \in Events
    BY <1>1, FanoutAssumption DEF Events
  <2>2. \A d \in Connections : Following(d)' => Following(d)
    BY <1>2 DEF Following, HoleInv, HoleTypes
  <2> QED
    BY <1>1, <1>2, <2>1, <2>2, SameWay, NoHoleKept DEF HoleInv
<1> QED
  BY <1>3, <1>4, <1>5, <1>6 DEF HoleInv

-----------------------------------------------------------------------------
(* A loop's end: its snapshot is used up, so it leaves nothing on its way, *)
(* and it only takes connections that are no longer open from the room.    *)
LEMMA DropStaleFacts ==
  ASSUME HoleInv, NEW s \in Sources, DropStale(s), UNCHANGED <<page, got, length, starts>>,
         UNCHANGED <<since, upto>>,
         \A c \in Connections : (step'[c] = "reading") = (step[c] = "reading")
  PROVE  /\ cast' \in [Sources -> Casts] /\ cast'[s] = NoCast
         /\ \A t \in Sources \ {s} : cast'[t] = cast[t]
         /\ registered' \subseteq Connections
         /\ socket' \in [Connections -> SocketStates]
         /\ NoHole'
<1>1. /\ cast' = [cast EXCEPT ![s] = NoCast] /\ cast \in [Sources -> Casts]
      /\ cast[s].left = {} /\ NoCast \in Casts
  BY DEF DropStale, Finished, HoleInv, HoleTypes, NoCast, Casts, Kinds
<1>2. \A c \in Connections : Following(c)' => Following(c)
  BY DEF DropStale, Disconnect, Following
<1>3. registered' \subseteq Connections /\ socket' \in [Connections -> SocketStates]
  BY DEF DropStale, Disconnect, HoleInv, HoleTypes, SocketStates
<1>4. \A c \in Connections, n \in 1 .. length : OnItsWay(c, n) => OnItsWay(c, n)'
  BY <1>1, StartedWay DEF HoleInv
<1>5. NoHole'
  BY <1>2, <1>4, NoHoleKept DEF HoleInv, HoleTypes
<1> QED
  BY <1>1, <1>3, <1>5

(* A broadcast starts on a source where nothing is under way.              *)
LEMMA BroadcastFacts ==
  ASSUME HoleInv, NEW s \in Sources, NEW n \in 1 .. length, Broadcast(s, n),
         cast[s].kind # "event" \/ cast[s].left = {},
         UNCHANGED <<page, got, length, since, upto, sockets>>,
         \A c \in Connections : (step'[c] = "reading") = (step[c] = "reading")
  PROVE  /\ cast' \in [Sources -> Casts]
         /\ \A t \in Sources \ {s} : cast'[t] = cast[t]
         /\ starts' \in [Events -> Nat]
         /\ \A m \in Events : starts'[m] > 0 => m <= length
         /\ NoHole'
<1> DEFINE new == Cast("event", n, Audience)
<1>0. length \in Nat /\ length <= MaxEvents /\ n \in Events /\ n \in Nat
  BY FanoutAssumption DEF HoleInv, HoleTypes, OnlyCommitted, Events
<1>1. /\ cast' = [cast EXCEPT ![s] = new] /\ cast \in [Sources -> Casts]
      /\ new \in Casts /\ new.kind = "event" /\ new.event = n /\ new.left = registered
  BY <1>0 DEF Broadcast, Cast, Casts, Kinds, Audience, HoleInv, HoleTypes
<1>2. cast'[s] = new /\ \A t \in Sources \ {s} : cast'[t] = cast[t]
  BY <1>1
<1>3. starts' = [starts EXCEPT ![n] = @ + 1] /\ starts \in [Events -> Nat]
  BY DEF Broadcast, Remember, HoleInv, HoleTypes
<1>4. \A c \in Connections : Following(c)' => Following(c)
  BY DEF Following, sockets
<1>5. \A c \in Connections, m \in 1 .. length : OnItsWay(c, m) => OnItsWay(c, m)'
  BY <1>1, StartedWay DEF HoleInv
<1>6. \A c \in Connections : Following(c)' => OnItsWay(c, n)'
  BY <1>1, <1>2 DEF Following, OnItsWay, sockets
<1>7. \A m \in Events : starts'[m] = starts[m]
                        \/ \A c \in Connections : Following(c)' => OnItsWay(c, m)'
  BY <1>3, <1>6
<1>8. NoHole'
  BY <1>0, <1>4, <1>5, <1>7, NoHoleKept DEF HoleInv, HoleTypes
<1>9. ASSUME NEW m \in Events, starts'[m] > 0 PROVE m <= length
  <2>1. m # n => starts'[m] = starts[m]
    BY <1>3
  <2>2. m # n => m <= length
    BY <1>9, <2>1 DEF HoleInv, OnlyCommitted
  <2> QED
    BY <1>0, <2>2
<1> QED
  BY <1>0, <1>1, <1>2, <1>3, <1>8, <1>9

LEMMA NotifyHereInv ==
  ASSUME HoleInv, NEW c \in Connections, NotifyHere(c) PROVE HoleInv'
<1> DEFINE new == Cast("notice", sending[c], {d \in Member : socket[d] # "closed"})
<1>1. /\ step[c] = "acking" /\ step' = [step EXCEPT ![c] = "notifying"]
      /\ cast' = [cast EXCEPT ![c] = new]
      /\ UNCHANGED <<length, remote, starts, sending, page, since, upto, got, registered, socket, wire>>
  BY DEF NotifyHere, SendUser, log, sockets, redis, memory, client
<1>2. new \in Casts /\ new.kind = "notice"
  BY FanoutAssumption DEF Cast, Casts, Kinds, HoleInv, HoleTypes
<1>3. cast[c] = NoCast /\ cast[c].left = {} /\ c \in Sources
  BY <1>1 DEF HoleInv, OneLoopEach, NoCast, Sources
<1> HIDE DEF new
<1>4. HoleTypes'
  BY <1>1, <1>2 DEF HoleInv, HoleTypes, Steps
<1>5. OnlyCommitted'
  BY <1>1 DEF HoleInv, HoleTypes, OnlyCommitted
<1>6. OneLoopEach'
  BY <1>1, <1>2, <1>3 DEF HoleInv, HoleTypes, OneLoopEach, Sources
<1>7. NoHole'
  <2>1. \A d \in Connections : Following(d)' => Following(d)
    BY <1>1 DEF Following, HoleInv, HoleTypes
  <2>2. \A d \in Connections, n \in 1 .. length : OnItsWay(d, n) => OnItsWay(d, n)'
    BY <1>1, <1>3, StartedWay DEF HoleInv
  <2> QED
    BY <1>1, <2>1, <2>2, NoHoleKept DEF HoleInv, HoleTypes
<1> QED
  BY <1>4, <1>5, <1>6, <1>7 DEF HoleInv

LEMMA PublishUserInv ==
  ASSUME HoleInv, NEW c \in Connections, PublishUser(c) PROVE HoleInv'
<1> DEFINE m == Message("notice", sending[c], "here")
<1>1. /\ step[c] = "notifying" /\ step' = [step EXCEPT ![c] = "publishing"]
      /\ DropStale(c) /\ Put(m) /\ c \in Sources
      /\ UNCHANGED <<length, remote, starts, sending, page, since, upto, got>>
  BY DEF PublishUser, log, memory, client, Sources
<1>2. /\ m \in Messages /\ m.event \in 1 .. length
  BY <1>1 DEF Message, Messages, Kinds, Origins, HoleInv, HoleTypes, OnlyCommitted
<1>3. /\ wire' \in Seq(Messages)
      /\ \A i \in 1 .. Len(wire') : wire'[i].event \in 1 .. length
  BY <1>1, <1>2, PutKeeps DEF HoleInv
<1>4. \A d \in Connections : (step'[d] = "reading") = (step[d] = "reading")
  BY <1>1 DEF HoleInv, HoleTypes
<1>5. /\ cast' \in [Sources -> Casts] /\ cast'[c] = NoCast
      /\ \A t \in Sources \ {c} : cast'[t] = cast[t]
      /\ registered' \subseteq Connections /\ socket' \in [Connections -> SocketStates]
      /\ NoHole'
  BY <1>1, <1>4, DropStaleFacts
<1> HIDE DEF m
<1>6. HoleTypes'
  BY <1>1, <1>3, <1>5 DEF HoleInv, HoleTypes, Steps
<1>7. OnlyCommitted'
  BY <1>1, <1>3 DEF HoleInv, HoleTypes, OnlyCommitted
<1>8. OneLoopEach'
  BY <1>1, <1>5 DEF HoleInv, HoleTypes, OneLoopEach, Sources
<1> QED
  BY <1>5, <1>6, <1>7, <1>8 DEF HoleInv

LEMMA BroadcastOwnInv ==
  ASSUME HoleInv, NEW c \in Connections, BroadcastOwn(c) PROVE HoleInv'
<1>1. /\ step[c] \in {"acking", "publishing"} /\ step' = [step EXCEPT ![c] = "casting"]
      /\ Broadcast(c, sending[c]) /\ c \in Sources
      /\ UNCHANGED <<length, remote, sending, page, since, upto, got, sockets, wire>>
  BY DEF BroadcastOwn, log, redis, client, Sources
<1>2. sending[c] \in 1 .. length /\ cast[c] = NoCast /\ cast[c].left = {}
  BY <1>1 DEF HoleInv, OnlyCommitted, OneLoopEach, NoCast
<1>3. \A d \in Connections : (step'[d] = "reading") = (step[d] = "reading")
  BY <1>1 DEF HoleInv, HoleTypes
<1>4. /\ cast' \in [Sources -> Casts]
      /\ \A t \in Sources \ {c} : cast'[t] = cast[t]
      /\ starts' \in [Events -> Nat]
      /\ \A n \in Events : starts'[n] > 0 => n <= length
      /\ NoHole'
  BY <1>1, <1>2, <1>3, BroadcastFacts
<1>5. HoleTypes'
  BY <1>1, <1>4 DEF HoleInv, HoleTypes, Steps, sockets
<1>6. OnlyCommitted'
  BY <1>1, <1>4 DEF HoleInv, HoleTypes, OnlyCommitted
<1>7. OneLoopEach'
  BY <1>1, <1>4 DEF HoleInv, HoleTypes, OneLoopEach, Sources
<1> QED
  BY <1>4, <1>5, <1>6, <1>7 DEF HoleInv

LEMMA SendDoneInv ==
  ASSUME HoleInv, NEW c \in Connections, SendDone(c) PROVE HoleInv'
<1>1. /\ step[c] = "casting" /\ step' = [step EXCEPT ![c] = "idle"]
      /\ sending' = [sending EXCEPT ![c] = 0] /\ DropStale(c) /\ c \in Sources
      /\ UNCHANGED <<length, remote, starts, page, since, upto, got, wire>>
  BY DEF SendDone, log, memory, client, redis, Sources
<1>2. \A d \in Connections : (step'[d] = "reading") = (step[d] = "reading")
  BY <1>1 DEF HoleInv, HoleTypes
<1>3. /\ cast' \in [Sources -> Casts] /\ cast'[c] = NoCast
      /\ \A t \in Sources \ {c} : cast'[t] = cast[t]
      /\ registered' \subseteq Connections /\ socket' \in [Connections -> SocketStates]
      /\ NoHole'
  BY <1>1, <1>2, DropStaleFacts
<1>4. HoleTypes'
  BY <1>1, <1>3 DEF HoleInv, HoleTypes, Steps
<1>5. OnlyCommitted'
  BY <1>1 DEF HoleInv, HoleTypes, OnlyCommitted
<1>6. OneLoopEach'
  BY <1>1, <1>3 DEF HoleInv, HoleTypes, OneLoopEach, Sources
<1> QED
  BY <1>3, <1>4, <1>5, <1>6 DEF HoleInv

(* One send: the event leaves the snapshot when the client has it.         *)
LEMMA SendOneInv ==
  ASSUME HoleInv, NEW s \in Sources, NEW c \in Connections, SendOne(s, c) PROVE HoleInv'
<1>1. /\ c \in cast[s].left
      /\ UNCHANGED <<length, remote, starts, step, sending, page, since, upto, registered, socket, wire>>
  BY DEF SendOne, log, sockets, handler, redis, memory
<1>2. /\ cast' \in [Sources -> Casts] /\ \A t \in Sources \ {s} : cast'[t] = cast[t]
      /\ cast'[s].kind = cast[s].kind /\ cast'[s].event = cast[s].event
      /\ cast'[s].left = cast[s].left \ {c}
  <2>1. cast[s] \in Casts
    BY DEF HoleInv, HoleTypes
  <2>2. \E raised \in {{}, {c}} : cast' = [cast EXCEPT ![s] = AfterSend(cast[s], c, raised)]
    BY DEF SendOne
  <2>3. PICK raised \in {{}, {c}} : cast' = [cast EXCEPT ![s] = AfterSend(cast[s], c, raised)]
    BY <2>2
  <2>4. AfterSend(cast[s], c, raised) \in Casts
    BY <2>1 DEF AfterSend, Casts
  <2> QED
    BY <2>3, <2>4 DEF AfterSend, HoleInv, HoleTypes
<1>3. /\ got' \in [Connections -> SUBSET Nat]
      /\ \A d \in Connections : got[d] \subseteq got'[d]
      /\ socket[c] = "open" /\ cast[s].kind = "event" => cast[s].event \in got'[c]
  <2>1. cast[s].event \in Nat
    BY DEF HoleInv, HoleTypes, Casts
  <2>2. got \in [Connections -> SUBSET Nat]
    BY DEF HoleInv, HoleTypes
  <2>3. CASE UNCHANGED got /\ ~(socket[c] = "open" /\ cast[s].kind = "event")
    BY <2>2, <2>3
  <2>4. CASE got' = [got EXCEPT ![c] = @ \cup {cast[s].event}]
    BY <2>1, <2>2, <2>4
  <2>5. \/ UNCHANGED got /\ ~(socket[c] = "open" /\ cast[s].kind = "event")
        \/ got' = [got EXCEPT ![c] = @ \cup {cast[s].event}]
    BY DEF SendOne, Receives, client
  <2> QED
    BY <2>3, <2>4, <2>5
<1>4. HoleTypes'
  BY <1>1, <1>2, <1>3 DEF HoleInv, HoleTypes
<1>5. OnlyCommitted'
  BY <1>1 DEF HoleInv, OnlyCommitted
<1>6. OneLoopEach'
  <2>1. ASSUME NEW d \in Connections
        PROVE  cast'[d].kind = cast[d].kind /\ (cast[d] = NoCast => cast'[d] = NoCast)
    BY <1>1, <1>2 DEF NoCast, Sources
  <2> QED
    BY <1>1, <2>1 DEF HoleInv, OneLoopEach
<1>7. NoHole'
  <2>1. \A d \in Connections : Following(d)' => Following(d) /\ socket[d] = "open"
    BY <1>1 DEF Following
  <2>2. ASSUME NEW d \in Connections, socket[d] = "open", NEW n \in 1 .. length, OnItsWay(d, n)
        PROVE  OnItsWay(d, n)' \/ n \in got'[d]
    <3>1. CASE n \in ToSet(page[d])
      BY <1>1, <3>1 DEF OnItsWay
    <3>2. CASE \E t \in Sources : cast[t].kind = "event" /\ cast[t].event = n /\ d \in cast[t].left
      <4>1. PICK t \in Sources : cast[t].kind = "event" /\ cast[t].event = n /\ d \in cast[t].left
        BY <3>2
      <4>2. CASE t = s /\ d = c
        BY <1>3, <2>2, <4>1, <4>2
      <4>3. CASE t # s \/ d # c
        <5>1. cast'[t].kind = "event" /\ cast'[t].event = n /\ d \in cast'[t].left
          BY <1>2, <4>1, <4>3
        <5> QED
          BY <5>1 DEF OnItsWay
      <4> QED
        BY <4>2, <4>3
    <3> QED
      BY <2>2, <3>1, <3>2 DEF OnItsWay
  <2> QED
    BY <1>1, <1>3, <2>1, <2>2, NoHoleKept DEF HoleInv, HoleTypes
<1> QED
  BY <1>4, <1>5, <1>6, <1>7 DEF HoleInv

-----------------------------------------------------------------------------
(* Subscribing: the range of events owed starts anew.                      *)
LEMMA SubscribeInv ==
  ASSUME HoleInv, NEW c \in Connections, Subscribe(c) PROVE HoleInv'
<1>1. /\ step[c] = "idle"
      /\ UNCHANGED <<length, remote, starts, sending, page, cast, got, socket, wire>>
      /\ registered' = registered \cup {c}
      /\ length \in Nat
  BY DEF Subscribe, Idle, log, redis, memory, client, HoleInv, HoleTypes
<1>2. \/ \E v \in 0 .. length : /\ since' = [since EXCEPT ![c] = v]
                                /\ step' = [step EXCEPT ![c] = "reading"]
                                /\ UNCHANGED upto
      \/ /\ since' = [since EXCEPT ![c] = length] /\ upto' = [upto EXCEPT ![c] = length]
         /\ UNCHANGED step
  BY DEF Subscribe
<1>3. /\ since' \in [Connections -> Nat] /\ upto' \in [Connections -> Nat]
      /\ \A d \in Connections : since'[d] <= length /\ upto'[d] <= length
      /\ step' \in [Connections -> Steps]
      /\ \A d \in Connections : step'[d] = step[d] \/ (step[d] = "idle" /\ step'[d] = "reading")
  <2>0. /\ since \in [Connections -> Nat] /\ upto \in [Connections -> Nat]
        /\ \A d \in Connections : since[d] <= length /\ upto[d] <= length
        /\ step \in [Connections -> Steps]
    BY DEF HoleInv, HoleTypes, OnlyCommitted
  <2>1. CASE UNCHANGED step
    BY <1>1, <1>2, <2>0, <2>1
  <2>2. ASSUME NEW v \in 0 .. length, since' = [since EXCEPT ![c] = v],
               step' = [step EXCEPT ![c] = "reading"], UNCHANGED upto
        PROVE  <1>3!1 /\ <1>3!2 /\ <1>3!3 /\ <1>3!4
    <3>1. v \in Nat /\ v <= length
      BY <1>1
    <3> QED
      BY <1>1, <2>0, <2>2, <3>1 DEF Steps
  <2> QED
    BY <1>2, <2>1, <2>2
<1>7. HoleTypes'
  BY <1>1, <1>3 DEF HoleInv, HoleTypes
<1>4. OnlyCommitted'
  BY <1>1, <1>3 DEF HoleInv, OnlyCommitted
<1>5. OneLoopEach'
  BY <1>1, <1>3 DEF HoleInv, OneLoopEach
<1>6. NoHole'
  <2> SUFFICES ASSUME NEW d \in Connections, Following(d)', NEW n \in since'[d] + 1 .. length
               PROVE  \/ n \in got'[d] \/ OnItsWay(d, n)' \/ BeyondPage(d, n)'
                      \/ NotYetBroadcast(d, n)'
    BY <1>1 DEF NoHole
  <2>1. d # c
    <3>1. CASE step'[c] = "reading"
      BY <3>1 DEF Following
    <3>2. CASE since'[c] = length
      BY <1>1, <3>2
    <3> QED
      BY <1>2, <3>1, <3>2 DEF HoleInv, HoleTypes
  <2>2. Following(d) /\ since'[d] = since[d] /\ upto'[d] = upto[d]
    BY <1>1, <1>2, <2>1 DEF Following, HoleInv, HoleTypes
  <2>3. n \in got[d] \/ OnItsWay(d, n) \/ BeyondPage(d, n) \/ NotYetBroadcast(d, n)
    BY <2>2 DEF HoleInv, NoHole
  <2> QED
    BY <1>1, <2>2, <2>3 DEF OnItsWay, BeyondPage, NotYetBroadcast
<1> QED
  BY <1>4, <1>5, <1>6, <1>7 DEF HoleInv

(* The page holds what was missed, up to the limit.                        *)
LEMMA MissedFacts ==
  ASSUME HoleInv, NEW c \in Connections
  PROVE  /\ Missed(c) \in Seq(Nat)
         /\ \A n \in since[c] + 1 .. length :
              n \in ToSet(Missed(c)) \/ since[c] + PageLimit < n
<1> DEFINE k == Min({PageLimit, length - since[c]})
<1>1. /\ since[c] \in Nat /\ length \in Nat /\ since[c] <= length
      /\ PageLimit \in Nat /\ length - since[c] \in Nat
  BY FanoutAssumption DEF HoleInv, HoleTypes, OnlyCommitted
<1>2. k \in Nat /\ (k = PageLimit \/ k = length - since[c])
  <2>1. \E x \in {PageLimit, length - since[c]} : \A y \in {PageLimit, length - since[c]} : x =< y
    BY <1>1
  <2>2. k \in {PageLimit, length - since[c]}
    BY <2>1 DEF Min
  <2> QED
    BY <1>1, <2>2
<1>3. Missed(c) = [i \in 1 .. k |-> since[c] + i]
  BY DEF Missed
<1> HIDE DEF k
<1>4. Missed(c) \in Seq(Nat)
  BY <1>1, <1>2, <1>3
<1>5. ASSUME NEW n \in since[c] + 1 .. length, ~(since[c] + PageLimit < n)
      PROVE  n \in ToSet(Missed(c))
  <2>1. n - since[c] \in 1 .. k
    BY <1>1, <1>2, <1>5
  <2>2. Missed(c)[n - since[c]] = n /\ n - since[c] \in DOMAIN Missed(c)
    BY <1>1, <1>3, <2>1
  <2> QED
    BY <2>2 DEF ToSet
<1> QED
  BY <1>4, <1>5

(* The read: older events are in the page or beyond it, and what is newer  *)
(* than the log cannot have been broadcast.                                *)
LEMMA ReadMissedInv ==
  ASSUME HoleInv, NEW c \in Connections, ReadMissed(c) PROVE HoleInv'
<1>1. /\ step[c] = "reading" /\ page' = [page EXCEPT ![c] = Missed(c)]
      /\ step' = [step EXCEPT ![c] = IF Missed(c) = <<>> THEN "idle" ELSE "replaying"]
      /\ upto' = [upto EXCEPT ![c] = length]
      /\ UNCHANGED <<length, remote, starts, sending, since, registered, cast, got, socket, wire>>
  BY DEF ReadMissed, Replay, log, sockets, redis, memory, client
<1>2. HoleTypes'
  BY <1>1, MissedFacts DEF HoleInv, HoleTypes, Steps
<1>3. OnlyCommitted'
  BY <1>1 DEF HoleInv, HoleTypes, OnlyCommitted
<1>4. OneLoopEach'
  BY <1>1 DEF HoleInv, HoleTypes, OneLoopEach
<1>5. NoHole'
  <2> SUFFICES ASSUME NEW d \in Connections, Following(d)', NEW n \in since[d] + 1 .. length
               PROVE  \/ n \in got'[d] \/ OnItsWay(d, n)' \/ BeyondPage(d, n)'
                      \/ NotYetBroadcast(d, n)'
    BY <1>1 DEF NoHole
  <2>1. CASE d = c
    <3>1. n <= length /\ upto'[c] = length /\ page'[c] = Missed(c)
      BY <1>1, <2>1 DEF HoleInv, HoleTypes
    <3>2. n \in ToSet(Missed(c)) \/ since[c] + PageLimit < n
      BY <2>1, MissedFacts
    <3> QED
      BY <1>1, <2>1, <3>1, <3>2 DEF OnItsWay, BeyondPage
  <2>2. CASE d # c
    <3>1. Following(d) /\ page'[d] = page[d] /\ upto'[d] = upto[d]
      BY <1>1, <2>2 DEF Following, HoleInv, HoleTypes
    <3>2. n \in got[d] \/ OnItsWay(d, n) \/ BeyondPage(d, n) \/ NotYetBroadcast(d, n)
      BY <3>1 DEF HoleInv, NoHole
    <3> QED
      BY <1>1, <3>1, <3>2 DEF OnItsWay, BeyondPage, NotYetBroadcast
  <2> QED
    BY <2>1, <2>2
<1> QED
  BY <1>2, <1>3, <1>4, <1>5 DEF HoleInv

LEMMA SendMissedInv ==
  ASSUME HoleInv, NEW c \in Connections, SendMissed(c) PROVE HoleInv'
<1> DEFINE t == Tail(page[c])
<1>1. /\ step[c] = "replaying" /\ page' = [page EXCEPT ![c] = t]
      /\ step' = [step EXCEPT ![c] = IF t = <<>> THEN "idle" ELSE "replaying"]
      /\ got' = [got EXCEPT ![c] = @ \cup {Head(page[c])}]
      /\ UNCHANGED <<length, remote, starts, sending, since, upto, registered, cast, socket, wire>>
  BY DEF SendMissed, Replay, log, sockets, redis, memory
<1>2. /\ page[c] \in Seq(Nat) /\ page[c] # <<>>
      /\ t \in Seq(Nat) /\ Head(page[c]) \in Nat
      /\ Len(t) = Len(page[c]) - 1 /\ Len(page[c]) \in Nat \ {0}
      /\ \A i \in 1 .. Len(t) : t[i] = page[c][i + 1]
      /\ DOMAIN t = 1 .. Len(t) /\ DOMAIN page[c] = 1 .. Len(page[c])
      /\ Head(page[c]) = page[c][1]
  <2>1. page[c] \in Seq(Nat) /\ page[c] # <<>>
    BY DEF HoleInv, HoleTypes, OneLoopEach, SendMissed
  <2> QED
    BY <2>1, HeadTailProperties, LenProperties, EmptySeq
<1>3. \A n \in ToSet(page[c]) : n = Head(page[c]) \/ n \in ToSet(t)
  <2> SUFFICES ASSUME NEW i \in 1 .. Len(page[c]), i # 1 PROVE page[c][i] \in ToSet(t)
    BY <1>2 DEF ToSet
  <2>1. i - 1 \in 1 .. Len(t) /\ (i - 1) + 1 = i
    BY <1>2
  <2>2. t[i - 1] = page[c][i]
    BY <1>2, <2>1
  <2> QED
    BY <1>2, <2>1, <2>2 DEF ToSet
<1> HIDE DEF t
<1>4. HoleTypes'
  BY <1>1, <1>2 DEF HoleInv, HoleTypes, Steps
<1>5. OnlyCommitted'
  BY <1>1 DEF HoleInv, HoleTypes, OnlyCommitted
<1>6. OneLoopEach'
  BY <1>1 DEF HoleInv, HoleTypes, OneLoopEach
<1>7. NoHole'
  <2>1. \A d \in Connections : Following(d)' => Following(d)
    BY <1>1 DEF Following, HoleInv, HoleTypes
  <2>2. \A d \in Connections : got[d] \subseteq got'[d]
    BY <1>1 DEF HoleInv, HoleTypes
  <2>3. ASSUME NEW d \in Connections, NEW n \in 1 .. length, OnItsWay(d, n)
        PROVE  OnItsWay(d, n)' \/ n \in got'[d]
    <3>1. CASE n \in ToSet(page[d]) /\ d = c
      <4>1. page'[c] = t /\ Head(page[c]) \in got'[c]
        BY <1>1, <1>2 DEF HoleInv, HoleTypes
      <4> QED
        BY <1>3, <3>1, <4>1 DEF OnItsWay
    <3>2. CASE n \in ToSet(page[d]) /\ d # c
      BY <1>1, <3>2 DEF OnItsWay, HoleInv, HoleTypes
    <3>3. CASE n \notin ToSet(page[d])
      BY <1>1, <2>3, <3>3 DEF OnItsWay
    <3> QED
      BY <3>1, <3>2, <3>3
  <2> QED
    BY <1>1, <2>1, <2>2, <2>3, NoHoleKept DEF HoleInv, HoleTypes
<1> QED
  BY <1>4, <1>5, <1>6, <1>7 DEF HoleInv

(* A connection that unsubscribes, or whose client leaves, is owed nothing *)
(* more; the others are not touched.                                       *)
LEMMA LeaveStep ==
  ASSUME HoleInv, NEW c \in Connections,
         UNCHANGED <<length, remote, starts, since, upto, cast, got, wire>>,
         registered' \subseteq registered,
         \A d \in Connections \ {c} : /\ socket'[d] = socket[d] /\ step'[d] = step[d]
                                      /\ page'[d] = page[d] /\ sending'[d] = sending[d],
         socket' \in [Connections -> SocketStates],
         step' \in [Connections -> Steps] /\ sending' \in [Connections -> Nat]
         /\ page' \in [Connections -> Seq(Nat)],
         \/ step'[c] = step[c] /\ page'[c] = page[c] /\ sending'[c] = sending[c]
         \/ step'[c] = "ended" /\ step[c] \notin {"notifying", "casting"},
         Following(c)' => step'[c] = step[c] /\ page'[c] = page[c] /\ socket'[c] = socket[c]
  PROVE  HoleInv'
<1>1. HoleTypes'
  BY DEF HoleInv, HoleTypes
<1>2. OnlyCommitted'
  <2>1. \A d \in Connections : step'[d] \in {"acking", "notifying", "publishing", "casting"}
                               => sending'[d] \in 1 .. length'
    BY DEF HoleInv, OnlyCommitted
  <2> QED
    BY <2>1 DEF HoleInv, OnlyCommitted
<1>3. OneLoopEach'
  BY DEF HoleInv, OneLoopEach
<1>4. NoHole'
  <2>1. \A d \in Connections : Following(d)' =>
          page'[d] = page[d] /\ step'[d] = step[d] /\ socket'[d] = socket[d]
    OBVIOUS
  <2>2. \A d \in Connections : Following(d)' => Following(d)
    BY <2>1 DEF Following
  <2> SUFFICES ASSUME NEW d \in Connections, Following(d)', NEW n \in since[d] + 1 .. length
               PROVE  \/ n \in got[d] \/ OnItsWay(d, n)' \/ BeyondPage(d, n)'
                      \/ NotYetBroadcast(d, n)'
    BY DEF NoHole
  <2>3. n \in got[d] \/ OnItsWay(d, n) \/ BeyondPage(d, n) \/ NotYetBroadcast(d, n)
    BY <2>2 DEF HoleInv, NoHole
  <2> QED
    BY <2>1, <2>3 DEF OnItsWay, BeyondPage, NotYetBroadcast
<1> QED
  BY <1>1, <1>2, <1>3, <1>4 DEF HoleInv

LEMMA UnsubscribeInv ==
  ASSUME HoleInv, NEW c \in Connections, Unsubscribe(c) PROVE HoleInv'
BY LeaveStep
DEF Unsubscribe, log, sockets, handler, redis, memory, client, HoleInv, HoleTypes

LEMMA HangUpInv ==
  ASSUME HoleInv, NEW c \in Connections, HangUp(c) PROVE HoleInv'
<1>1. /\ socket' = [socket EXCEPT ![c] = "gone"]
      /\ UNCHANGED <<length, remote, starts, since, upto, cast, got, wire, registered, step, sending, page>>
  BY DEF HangUp, log, handler, redis, memory, client
<1>2. ~Following(c)'
  BY <1>1 DEF Following, HoleInv, HoleTypes
<1> QED
  BY <1>1, <1>2, LeaveStep DEF HoleInv, HoleTypes, SocketStates

LEMMA HandlerEndsInv ==
  ASSUME HoleInv, NEW c \in Connections, HandlerEnds(c) PROVE HoleInv'
<1>1. /\ socket[c] # "open" /\ step[c] \notin {"notifying", "casting"}
      /\ step' = [step EXCEPT ![c] = "ended"]
      /\ sending' = [sending EXCEPT ![c] = 0] /\ page' = [page EXCEPT ![c] = <<>>]
      /\ UNCHANGED <<length, remote, starts, since, upto, cast, got, wire>>
  BY DEF HandlerEnds, log, redis, memory, client
<1>2. /\ registered' \subseteq registered /\ socket' \in [Connections -> SocketStates]
      /\ socket'[c] # "open"
      /\ \A d \in Connections \ {c} : socket'[d] = socket[d]
  BY <1>1 DEF HandlerEnds, Disconnect, sockets, SocketStates, HoleInv, HoleTypes
<1>3. /\ step' \in [Connections -> Steps] /\ step'[c] = "ended"
      /\ sending' \in [Connections -> Nat] /\ page' \in [Connections -> Seq(Nat)]
      /\ \A d \in Connections \ {c} :
           step'[d] = step[d] /\ page'[d] = page[d] /\ sending'[d] = sending[d]
  BY <1>1 DEF HoleInv, HoleTypes, Steps
<1>4. ~Following(c)'
  BY <1>2 DEF Following
<1> QED
  BY <1>1, <1>2, <1>3, <1>4, LeaveStep

-----------------------------------------------------------------------------
(* The Redis subscriber.                                                   *)
LEMMA BusTakeInv == ASSUME HoleInv, BusTake PROVE HoleInv'
<1> DEFINE m == Head(wire)
           new == Cast("notice", m.event, {d \in Member : socket[d] # "closed"})
<1>1. /\ cast["bus"] = NoCast /\ wire # <<>> /\ wire' = Tail(wire) /\ "bus" \in Sources
      /\ \A c \in Connections : c # "bus" /\ c \in Sources
      /\ UNCHANGED <<length, remote, step, sending, page, since, upto, got, registered, socket>>
  BY FanoutAssumption DEF BusTake, Running, Sources, log, sockets, handler, client
<1>2. /\ wire' \in Seq(Messages) /\ m.event \in 1 .. length
      /\ \A i \in 1 .. Len(wire') : wire'[i].event \in 1 .. length
  <2>1. wire \in Seq(Messages) /\ \A i \in 1 .. Len(wire) : wire[i].event \in 1 .. length
    BY DEF HoleInv, HoleTypes, OnlyCommitted
  <2>2. /\ wire' \in Seq(Messages) /\ Len(wire) \in Nat \ {0} /\ Len(wire') = Len(wire) - 1
        /\ \A i \in 1 .. Len(wire') : wire'[i] = wire[i + 1]
    BY <1>1, <2>1, HeadTailProperties, EmptySeq
  <2>3. m = wire[1]
    BY <1>1, <2>1
  <2>4. \A i \in 1 .. Len(wire') : i + 1 \in 1 .. Len(wire)
    BY <2>2
  <2> QED
    BY <2>1, <2>2, <2>3, <2>4
<1> HIDE DEF m
<1>3. CASE UNCHANGED <<cast, starts>>
  BY <1>1, <1>2, <1>3, WireStep DEF sockets, handler
<1>4. CASE Broadcast("bus", m.event)
  <2>1. cast["bus"].left = {}
    BY <1>1 DEF NoCast
  <2>2. /\ cast' \in [Sources -> Casts] /\ \A t \in Sources \ {"bus"} : cast'[t] = cast[t]
        /\ starts' \in [Events -> Nat] /\ \A n \in Events : starts'[n] > 0 => n <= length
        /\ NoHole'
    BY <1>1, <1>2, <1>4, <2>1, BroadcastFacts DEF sockets
  <2>3. HoleTypes'
    BY <1>1, <1>2, <2>2 DEF HoleInv, HoleTypes
  <2>4. OnlyCommitted'
    BY <1>1, <1>2, <2>2 DEF HoleInv, OnlyCommitted
  <2>5. OneLoopEach'
    BY <1>1, <2>2 DEF HoleInv, OneLoopEach
  <2> QED
    BY <2>2, <2>3, <2>4, <2>5 DEF HoleInv
<1>5. CASE SendUser("bus", m.event) /\ UNCHANGED starts
  <2>1. cast["bus"].left = {} /\ cast' = [cast EXCEPT !["bus"] = new]
    BY <1>1, <1>5 DEF NoCast, SendUser
  <2>2. new \in Casts
    BY <1>2, FanoutAssumption DEF Cast, Casts, Kinds, HoleInv, HoleTypes
  <2> HIDE DEF new
  <2>3. HoleTypes'
    BY <1>1, <1>2, <1>5, <2>1, <2>2 DEF HoleInv, HoleTypes
  <2>4. OnlyCommitted'
    BY <1>1, <1>2, <1>5 DEF HoleInv, OnlyCommitted
  <2>5. OneLoopEach'
    <3>1. \A c \in Connections : cast'[c] = cast[c]
      BY <1>1, <2>1 DEF HoleInv, HoleTypes
    <3> QED
      BY <1>1, <3>1 DEF HoleInv, OneLoopEach
  <2>6. NoHole'
    <3>1. \A d \in Connections : Following(d)' => Following(d)
      BY <1>1 DEF Following
    <3>2. \A d \in Connections, n \in 1 .. length : OnItsWay(d, n) => OnItsWay(d, n)'
      BY <1>1, <2>1, StartedWay DEF HoleInv
    <3> QED
      BY <1>1, <1>5, <3>1, <3>2, NoHoleKept DEF HoleInv, HoleTypes
  <2> QED
    BY <2>3, <2>4, <2>5, <2>6 DEF HoleInv
<1> QED
  BY <1>3, <1>4, <1>5 DEF BusTake, memory, m

LEMMA BusDoneInv == ASSUME HoleInv, BusDone PROVE HoleInv'
<1>1. /\ DropStale("bus") /\ "bus" \in Sources
      /\ \A c \in Connections : c # "bus" /\ c \in Sources
      /\ UNCHANGED <<length, remote, starts, step, sending, page, since, upto, got, wire>>
  BY FanoutAssumption DEF BusDone, Sources, log, handler, redis, memory, client
<1>2. /\ cast' \in [Sources -> Casts] /\ cast'["bus"] = NoCast
      /\ \A t \in Sources \ {"bus"} : cast'[t] = cast[t]
      /\ registered' \subseteq Connections /\ socket' \in [Connections -> SocketStates]
      /\ NoHole'
  BY <1>1, DropStaleFacts
<1>3. HoleTypes'
  BY <1>1, <1>2 DEF HoleInv, HoleTypes
<1>4. OnlyCommitted'
  BY <1>1 DEF HoleInv, OnlyCommitted
<1>5. OneLoopEach'
  BY <1>1, <1>2 DEF HoleInv, OneLoopEach
<1> QED
  BY <1>2, <1>3, <1>4, <1>5 DEF HoleInv

-----------------------------------------------------------------------------
LEMMA HoleStutter == ASSUME HoleInv, UNCHANGED vars PROVE HoleInv'
<1> USE DEF vars, log, sockets, handler, redis, memory, client
<1>1. HoleTypes' /\ OnlyCommitted' /\ OneLoopEach'
  BY DEF HoleInv, HoleTypes, OnlyCommitted, OneLoopEach
<1>2. NoHole'
  BY DEF HoleInv, NoHole, Following, OnItsWay, BeyondPage, NotYetBroadcast
<1> QED
  BY <1>1, <1>2 DEF HoleInv

LEMMA HoleNext == HoleInv /\ [Next]_vars => HoleInv'
<1> SUFFICES ASSUME HoleInv, [Next]_vars PROVE HoleInv'
  OBVIOUS
<1>1. CASE UNCHANGED vars
  BY <1>1, HoleStutter
<1>2. ASSUME NEW c \in Connections, Command(c) PROVE HoleInv'
  BY <1>2, MessageSendInv, SubscribeInv, UnsubscribeInv DEF Command
<1>3. ASSUME NEW c \in Connections, Handle(c) PROVE HoleInv'
  BY <1>3, NotifyHereInv, PublishUserInv, BroadcastOwnInv, SendDoneInv, ReadMissedInv,
     SendMissedInv, SendOneInv DEF Handle, Sends, Sources
<1>4. ASSUME Listen PROVE HoleInv'
  BY <1>4, BusTakeInv, BusDoneInv, SendOneInv DEF Listen, Sends, Sources
<1>5. ASSUME NEW c \in Connections, HangUp(c) \/ HandlerEnds(c) PROVE HoleInv'
  BY <1>5, HangUpInv, HandlerEndsInv
<1>6. ASSUME NEW n \in Events, NotifyElsewhere(n) \/ PublishEvent(n) PROVE HoleInv'
  BY <1>6, NotifyElsewhereInv, PublishEventInv
<1>7. CASE CommitElsewhere \/ LinkDown \/ LinkUp
  BY <1>7, CommitElsewhereInv, LinkDownInv, LinkUpInv
<1> QED
  BY <1>1, <1>2, <1>3, <1>4, <1>5, <1>6, <1>7 DEF Next

(***************************************************************************)
(* The inductive invariant holds.                                          *)
(***************************************************************************)
THEOREM HoleInvariance == Spec => []HoleInv
BY HoleInit, HoleNext, PTL DEF Spec

(***************************************************************************)
(* A subscriber has no hole between replay and live delivery, whatever     *)
(* handlers, Redis and other connections do meanwhile.                     *)
(***************************************************************************)
THEOREM ReplayMeetsLive == Spec => []NoHole
<1>1. HoleInv => NoHole
  BY DEF HoleInv
<1> QED
  BY <1>1, HoleInvariance, PTL

-----------------------------------------------------------------------------
(***************************************************************************)
(* How often an event is broadcast and a notification is told, for any     *)
(* connections, capacity and number of publishes.                          *)
(***************************************************************************)
(* c's handler has committed n and has still to broadcast it.              *)
Sending == {"acking", "notifying", "publishing"}
Owes(c, n) == step[c] \in Sending /\ sending[c] = n
Owed(n) == IF \E c \in Connections : Owes(c, n) THEN 1 ELSE 0

Remembered ==
  /\ seen \in Seq(Nat) /\ Len(seen) <= SeenCapacity
  /\ evictions \in [Events -> Nat]
OneSender ==
  \A c, d \in Connections : step[c] \in Sending /\ step[d] \in Sending
                              /\ sending[c] = sending[d] => c = d

(* A forgotten event may be broadcast once more than a remembered one that *)
(* was forgotten as often; one that is still owed, once less.              *)
Bounded ==
  \A n \in Events :
    starts[n] + Owed(n) <= evictions[n] + (IF n \in ToSet(seen) THEN 2 ELSE 1)

BoundInv == HoleInv /\ Remembered /\ OneSender /\ Bounded

LEMMA BoundInit == Init => BoundInv
<1> SUFFICES ASSUME Init PROVE BoundInv
  OBVIOUS
<1>1. Remembered
  BY FanoutAssumption DEF Init, Remembered
<1>2. OneSender /\ \A n \in Events : Owed(n) = 0
  BY DEF Init, OneSender, Owed, Owes, Sending
<1>3. Bounded
  BY <1>2 DEF Init, Bounded
<1> QED
  BY <1>1, <1>2, <1>3, HoleInit DEF BoundInv

(* Nobody starts to send, and nothing is broadcast.                        *)
LEMMA BoundKept ==
  ASSUME BoundInv, HoleInv', UNCHANGED <<seen, starts, evictions>>,
         \A c \in Connections : step'[c] \in Sending => step[c] \in Sending /\ sending'[c] = sending[c]
  PROVE  BoundInv'
<1>1. Remembered' /\ OneSender'
  BY DEF BoundInv, Remembered, OneSender
<1>2. \A n \in Events : Owed(n)' = 0 \/ Owed(n) = 1
  BY DEF Owed, Owes
<1>3. Bounded'
  <2> SUFFICES ASSUME NEW n \in Events
               PROVE  starts[n] + Owed(n)' <= evictions[n] + (IF n \in ToSet(seen) THEN 2 ELSE 1)
    BY DEF Bounded
  <2>1. starts[n] + Owed(n) <= evictions[n] + (IF n \in ToSet(seen) THEN 2 ELSE 1)
    BY DEF BoundInv, Bounded
  <2>2. starts[n] \in Nat /\ evictions[n] \in Nat
    BY DEF BoundInv, HoleInv, HoleTypes, Remembered
  <2>3. Owed(n) \in {0, 1} /\ Owed(n)' \in {0, 1}
    BY DEF Owed
  <2> QED
    BY <1>2, <2>1, <2>2, <2>3
<1> QED
  BY <1>1, <1>3 DEF BoundInv

LEMMA RemoveFacts ==
  ASSUME NEW S, NEW q \in Seq(S), NEW i \in 1 .. Len(q)
  PROVE  /\ RemoveAt(q, i) \in Seq(S) /\ Len(RemoveAt(q, i)) = Len(q) - 1
         /\ \A j \in 1 .. Len(q) : j < i => RemoveAt(q, i)[j] = q[j]
         /\ \A j \in 1 .. Len(q) : j > i => RemoveAt(q, i)[j - 1] = q[j]
<1> DEFINE a == SubSeq(q, 1, i - 1)
           b == SubSeq(q, i + 1, Len(q))
<1>0. Len(q) \in Nat
  OBVIOUS
<1>1. a \in Seq(S) /\ Len(a) = i - 1 /\ \A j \in 1 .. i - 1 : a[j] = q[j]
  OBVIOUS
<1>2. b \in Seq(S) /\ Len(b) = Len(q) - i /\ \A j \in 1 .. Len(q) - i : b[j] = q[i + j]
  OBVIOUS
<1>3. RemoveAt(q, i) = a \o b
  BY DEF RemoveAt
<1> HIDE DEF a, b
<1>4. /\ a \o b \in Seq(S) /\ Len(a \o b) = Len(q) - 1
      /\ \A j \in 1 .. Len(q) - 1 : (a \o b)[j] = IF j <= i - 1 THEN a[j] ELSE b[j - (i - 1)]
  <2>1. Len(a) + Len(b) = Len(q) - 1 /\ Len(a) = i - 1
    BY <1>0, <1>1, <1>2
  <2>2. a \in Seq(S) /\ b \in Seq(S)
    BY <1>1, <1>2
  <2>3. /\ a \o b \in Seq(S) /\ Len(a \o b) = Len(a) + Len(b)
        /\ \A j \in 1 .. Len(a) + Len(b) :
             (a \o b)[j] = IF j <= Len(a) THEN a[j] ELSE b[j - Len(a)]
    BY <2>2, ConcatProperties
  <2> HIDE DEF a, b
  <2> QED
    BY <2>1, <2>3
<1>5. ASSUME NEW j \in 1 .. Len(q), j < i PROVE RemoveAt(q, i)[j] = q[j]
  BY <1>0, <1>1, <1>3, <1>4, <1>5
<1>6. ASSUME NEW j \in 1 .. Len(q), j > i PROVE RemoveAt(q, i)[j - 1] = q[j]
  <2>1. j - 1 \in 1 .. Len(q) - 1 /\ ~(j - 1 <= i - 1) /\ j - i \in 1 .. Len(q) - i
    BY <1>0, <1>6
  <2>2. (a \o b)[j - 1] = b[j - i]
    <3>1. (j - 1) - (i - 1) = j - i
      BY <1>0, <1>6
    <3>2. (a \o b)[j - 1] = b[(j - 1) - (i - 1)]
      BY <2>1, <1>4
    <3> QED
      BY <3>1, <3>2
  <2>3. b[j - i] = q[j]
    BY <2>1, <1>2
  <2> QED
    BY <1>3, <2>2, <2>3
<1> QED
  BY <1>3, <1>4, <1>5, <1>6

(* What _remember_event does: the id is there afterwards, and every id that *)
(* is there no more was counted as an eviction.                            *)
LEMMA RememberFacts ==
  ASSUME HoleTypes, Remembered, NEW n \in Events, Remember(n)
  PROVE  /\ Remembered' /\ n \in ToSet(seen')
         /\ starts' = [starts EXCEPT ![n] = @ + 1]
         /\ \A m \in Events :
              /\ evictions'[m] \in {evictions[m], evictions[m] + 1}
              /\ m \in ToSet(seen) /\ m \notin ToSet(seen') => evictions'[m] = evictions[m] + 1
<1> DEFINE rest == IF n \in ToSet(seen) THEN RemoveAt(seen, Place(n)) ELSE seen
<1>0. /\ seen \in Seq(Nat) /\ Len(seen) \in Nat /\ DOMAIN seen = 1 .. Len(seen)
      /\ Len(seen) <= SeenCapacity /\ SeenCapacity \in Nat \ {0} /\ n \in Nat
  BY FanoutAssumption DEF Remembered, Events
<1>1. /\ rest \in Seq(Nat) /\ Len(rest) <= Len(seen)
      /\ \A m \in ToSet(seen) : m # n => m \in ToSet(rest)
  <2>1. CASE n \notin ToSet(seen)
    BY <1>0, <2>1
  <2>2. CASE n \in ToSet(seen)
    <3>1. Place(n) \in 1 .. Len(seen) /\ seen[Place(n)] = n
      BY <1>0, <2>2 DEF Place, ToSet
    <3>2. /\ rest = RemoveAt(seen, Place(n))
          /\ rest \in Seq(Nat) /\ Len(rest) = Len(seen) - 1
          /\ \A j \in 1 .. Len(seen) : j < Place(n) => rest[j] = seen[j]
          /\ \A j \in 1 .. Len(seen) : j > Place(n) => rest[j - 1] = seen[j]
      BY <1>0, <2>2, <3>1, RemoveFacts
    <3> HIDE DEF rest
    <3>3. ASSUME NEW m \in ToSet(seen), m # n PROVE m \in ToSet(rest)
      <4>1. PICK j \in 1 .. Len(seen) : seen[j] = m
        BY <1>0 DEF ToSet
      <4>2. j # Place(n)
        BY <3>1, <3>3, <4>1
      <4>3. CASE j < Place(n)
        <5>1. j \in 1 .. Len(rest) /\ rest[j] = m
          BY <4>1, <4>3, <3>1, <3>2, <1>0
        <5> QED
          BY <5>1, <3>2 DEF ToSet
      <4>4. CASE j > Place(n)
        <5>1. j - 1 \in 1 .. Len(rest) /\ rest[j - 1] = m
          BY <4>1, <4>4, <3>1, <3>2, <1>0
        <5> QED
          BY <5>1, <3>2 DEF ToSet
      <4> QED
        BY <4>2, <4>3, <4>4, <3>1, <1>0
    <3> QED
      BY <1>0, <3>2, <3>3
  <2> QED
    BY <2>1, <2>2
<1>2. Moved(n) = Append(rest, n)
  BY DEF Moved
<1> HIDE DEF rest
<1> DEFINE ids == Append(rest, n)
<1>3. /\ ids \in Seq(Nat) /\ Len(ids) = Len(rest) + 1 /\ ids[Len(ids)] = n
      /\ DOMAIN ids = 1 .. Len(ids) /\ Len(ids) \in Nat \ {0}
      /\ \A i \in 1 .. Len(rest) : ids[i] = rest[i]
  BY <1>0, <1>1
<1>4. \A m \in ToSet(seen) : m \in ToSet(ids)
  <2> SUFFICES ASSUME NEW m \in ToSet(seen) PROVE m \in ToSet(ids)
    OBVIOUS
  <2>1. CASE m = n
    BY <2>1, <1>3 DEF ToSet
  <2>2. CASE m # n
    <3>1. PICK i \in 1 .. Len(rest) : rest[i] = m
      BY <2>2, <1>1 DEF ToSet
    <3> QED
      BY <3>1, <1>1, <1>3 DEF ToSet
  <2> QED
    BY <2>1, <2>2
<1> HIDE DEF ids
<1>5. /\ seen' = Trimmed(ids)
      /\ starts' = [starts EXCEPT ![n] = @ + 1]
      /\ evictions' = [m \in Events |->
            IF m \in ToSet(ids) \ ToSet(Trimmed(ids)) THEN evictions[m] + 1 ELSE evictions[m]]
  BY <1>2 DEF Remember, Forgotten, ids
<1>6. seen' \in Seq(Nat) /\ Len(seen') <= SeenCapacity /\ n \in ToSet(seen')
  <2>1. CASE Len(ids) > SeenCapacity
    <3>1. /\ seen' = Tail(ids) /\ Tail(ids) \in Seq(Nat) /\ Len(Tail(ids)) = Len(ids) - 1
          /\ Len(ids) - 1 \in 1 .. Len(Tail(ids))
          /\ Tail(ids)[Len(ids) - 1] = n
      BY <2>1, <1>0, <1>3, <1>5 DEF Trimmed
    <3>2. n \in ToSet(Tail(ids))
      <4>1. DOMAIN Tail(ids) = 1 .. Len(Tail(ids))
        BY <3>1
      <4> QED
        BY <3>1, <4>1 DEF ToSet
    <3> QED
      BY <3>1, <3>2, <1>0, <1>1, <1>3
  <2>2. CASE ~(Len(ids) > SeenCapacity)
    <3>1. seen' = ids
      BY <2>2, <1>5 DEF Trimmed
    <3>2. Len(ids) \in DOMAIN ids
      BY <1>3
    <3>3. n \in ToSet(ids)
      BY <3>2, <1>3 DEF ToSet
    <3> QED
      BY <2>2, <3>1, <3>3, <1>0, <1>3
  <2> QED
    BY <2>1, <2>2
<1>7. evictions' \in [Events -> Nat]
  BY <1>5 DEF Remembered
<1>8. ASSUME NEW m \in Events
      PROVE  /\ evictions'[m] \in {evictions[m], evictions[m] + 1}
             /\ m \in ToSet(seen) /\ m \notin ToSet(seen') => evictions'[m] = evictions[m] + 1
  BY <1>4, <1>5
<1> QED
  BY <1>5, <1>6, <1>7, <1>8 DEF Remembered

(* A broadcast of n by one who owes it, or of an id that is not remembered. *)
LEMMA BroadcastBounded ==
  ASSUME BoundInv, HoleInv', NEW n \in Events, Remember(n),
         \A m \in Events \ {n} : Owed(m)' = 0 \/ Owed(m) = 1,
         Owed(n)' = 0 \/ (n \notin ToSet(seen) /\ Owed(n)' = Owed(n)),
         n \notin ToSet(seen) \/ Owed(n) = 1
  PROVE  Remembered' /\ Bounded'
<1>1. /\ Remembered' /\ n \in ToSet(seen')
      /\ starts' = [starts EXCEPT ![n] = @ + 1]
      /\ \A m \in Events :
           /\ evictions'[m] \in {evictions[m], evictions[m] + 1}
           /\ m \in ToSet(seen) /\ m \notin ToSet(seen') => evictions'[m] = evictions[m] + 1
  BY RememberFacts DEF BoundInv, HoleInv
<1>2. \A m \in Events : Owed(m) \in {0, 1} /\ Owed(m)' \in {0, 1}
  BY DEF Owed
<1>3. \A m \in Events : starts[m] \in Nat /\ evictions[m] \in Nat
  BY DEF BoundInv, HoleInv, HoleTypes, Remembered
<1>4. Bounded'
  <2> SUFFICES ASSUME NEW m \in Events
               PROVE  starts'[m] + Owed(m)'
                        <= evictions'[m] + (IF m \in ToSet(seen') THEN 2 ELSE 1)
    BY DEF Bounded
  <2>1. starts[m] + Owed(m) <= evictions[m] + (IF m \in ToSet(seen) THEN 2 ELSE 1)
    BY DEF BoundInv, Bounded
  <2>2. CASE m = n
    <3>1. starts'[n] = starts[n] + 1
      BY <1>1, <1>3 DEF BoundInv, HoleInv, HoleTypes
    <3>2. Owed(n)' = 0 \/ Owed(n)' = Owed(n)
      OBVIOUS
    <3>3. n \notin ToSet(seen) \/ (Owed(n) = 1 /\ Owed(n)' = 0)
      OBVIOUS
    <3> HIDE DEF Owed
    <3> QED
      BY <1>1, <1>2, <1>3, <2>1, <2>2, <3>1, <3>2, <3>3
  <2>3. CASE m # n
    <3>1. starts'[m] = starts[m]
      BY <1>1, <2>3 DEF BoundInv, HoleInv, HoleTypes
    <3>2. Owed(m)' = 0 \/ Owed(m) = 1
      BY <2>3
    <3> QED
      BY <1>1, <1>2, <1>3, <2>1, <3>1, <3>2
  <2> QED
    BY <2>2, <2>3
<1> QED
  BY <1>1, <1>4

LEMMA MessageSendBound ==
  ASSUME BoundInv, HoleInv', NEW c \in Connections, MessageSend(c) PROVE BoundInv'
<1>1. /\ length \in Nat /\ length + 1 \in Events /\ length' = length + 1
      /\ step' = [step EXCEPT ![c] = "acking"] /\ sending' = [sending EXCEPT ![c] = length + 1]
      /\ step[c] = "idle"
      /\ UNCHANGED <<seen, starts, evictions>>
  BY FanoutAssumption
  DEF BoundInv, HoleInv, HoleTypes, MessageSend, Idle, memory, Events
<1>2. \A d \in Connections \ {c} : step'[d] = step[d] /\ sending'[d] = sending[d]
  BY <1>1 DEF BoundInv, HoleInv, HoleTypes
<1>3. step'[c] = "acking" /\ sending'[c] = length + 1
  BY <1>1 DEF BoundInv, HoleInv, HoleTypes
<1>4. \A d \in Connections : step[d] \in Sending => sending[d] \in 1 .. length
  BY DEF BoundInv, HoleInv, OnlyCommitted, Sending
<1>5. OneSender'
  <2> SUFFICES ASSUME NEW d \in Connections, NEW e \in Connections,
                      step'[d] \in Sending, step'[e] \in Sending, sending'[d] = sending'[e]
               PROVE  d = e
    BY DEF OneSender
  <2>1. CASE d = c \/ e = c
    BY <2>1, <1>1, <1>2, <1>3, <1>4
  <2>2. CASE d # c /\ e # c
    BY <2>2, <1>2 DEF BoundInv, OneSender
  <2> QED
    BY <2>1, <2>2
<1>6. Remembered'
  BY <1>1 DEF BoundInv, Remembered
<1>7. Bounded'
  <2> SUFFICES ASSUME NEW n \in Events
               PROVE  starts[n] + Owed(n)' <= evictions[n] + (IF n \in ToSet(seen) THEN 2 ELSE 1)
    BY <1>1 DEF Bounded
  <2>1. starts[n] + Owed(n) <= evictions[n] + (IF n \in ToSet(seen) THEN 2 ELSE 1)
    BY DEF BoundInv, Bounded
  <2>2. Owed(n) \in {0, 1} /\ Owed(n)' \in {0, 1} /\ starts[n] \in Nat /\ evictions[n] \in Nat
    BY DEF Owed, BoundInv, HoleInv, HoleTypes, Remembered
  <2>3. CASE n = length + 1
    <3>1. starts[n] = 0
      <4>1. ~(n <= length)
        BY <1>1, <2>3
      <4>2. ~(starts[n] > 0)
        BY <4>1 DEF BoundInv, HoleInv, OnlyCommitted
      <4> QED
        BY <2>2, <4>2
    <3> QED
      BY <2>2, <3>1
  <2>4. CASE n # length + 1
    <3>1. Owed(n)' = 0 \/ Owed(n) = 1
      BY <2>4, <1>2, <1>3 DEF Owed, Owes
    <3> QED
      BY <2>1, <2>2, <3>1
  <2> QED
    BY <2>3, <2>4
<1> QED
  BY <1>5, <1>6, <1>7 DEF BoundInv

LEMMA BroadcastOwnBound ==
  ASSUME BoundInv, HoleInv', NEW c \in Connections, BroadcastOwn(c) PROVE BoundInv'
<1>1. /\ step[c] \in Sending /\ step' = [step EXCEPT ![c] = "casting"]
      /\ Remember(sending[c]) /\ sending' = sending
  BY DEF BroadcastOwn, Broadcast, Sending, handler
<1>2. sending[c] \in Events
  <2>1. sending[c] \in 1 .. length /\ length \in Nat /\ length <= MaxEvents
    BY <1>1 DEF BoundInv, HoleInv, HoleTypes, OnlyCommitted, Sending
  <2> QED
    BY <2>1, FanoutAssumption DEF Events
<1>n. PICK n \in Events : n = sending[c]
  BY <1>2
<1>3. /\ \A d \in Connections \ {c} : step'[d] = step[d]
      /\ step'[c] = "casting"
  BY <1>1 DEF BoundInv, HoleInv, HoleTypes
<1>4. Owed(n) = 1
  BY <1>1, <1>n DEF Owed, Owes
<1>5. Owed(n)' = 0
  <2> SUFFICES ASSUME NEW d \in Connections, Owes(d, n)' PROVE FALSE
    BY <1>1, <1>n DEF Owed, Owes
  <2>1. d # c
    BY <1>3 DEF Owes, Sending
  <2>2. step[d] \in Sending /\ sending[d] = sending[c]
    BY <1>1, <1>n, <1>3, <2>1 DEF Owes
  <2> QED
    BY <1>1, <2>1, <2>2 DEF BoundInv, OneSender
<1>6. \A m \in Events \ {n} : Owed(m)' = 0 \/ Owed(m) = 1
  BY <1>1, <1>n, <1>3 DEF Owed, Owes, Sending
<1>7. OneSender'
  BY <1>1, <1>3 DEF BoundInv, OneSender, Sending
<1> QED
  BY <1>1, <1>n, <1>4, <1>5, <1>6, <1>7, BroadcastBounded DEF BoundInv

LEMMA BusTakeBound == ASSUME BoundInv, HoleInv', BusTake PROVE BoundInv'
<1>1. UNCHANGED <<step, sending>>
  BY DEF BusTake, handler
<1>2. CASE UNCHANGED memory
  BY <1>1, <1>2, BoundKept DEF memory
<1>3. CASE ~UNCHANGED memory
  <2> DEFINE n == Head(wire).event
  <2>1. /\ wire # <<>> /\ n \notin ToSet(seen) /\ Remember(n)
    BY <1>3 DEF BusTake, Dropped, Broadcast
  <2>2. n \in Events
    <3>1. wire \in Seq(Messages) /\ wire # <<>>
      BY <2>1 DEF BoundInv, HoleInv, HoleTypes
    <3>2. Len(wire) \in Nat /\ 1 \in 1 .. Len(wire) /\ Head(wire) = wire[1]
      BY <3>1
    <3>3. n \in 1 .. length
      BY <3>2 DEF BoundInv, HoleInv, OnlyCommitted
    <3> QED
      BY <3>3, FanoutAssumption DEF BoundInv, HoleInv, HoleTypes, OnlyCommitted, Events
  <2>3. \A m \in Events : Owed(m)' = Owed(m) /\ Owed(m) \in {0, 1}
    BY <1>1 DEF Owed, Owes
  <2>4. OneSender'
    BY <1>1 DEF BoundInv, OneSender
  <2> HIDE DEF n
  <2> QED
    BY <2>1, <2>2, <2>3, <2>4, BroadcastBounded DEF BoundInv
<1> QED
  BY <1>2, <1>3

LEMMA BoundNext == BoundInv /\ [Next]_vars => BoundInv'
<1> SUFFICES ASSUME BoundInv, [Next]_vars PROVE BoundInv'
  OBVIOUS
<1>0. HoleInv'
  BY HoleNext DEF BoundInv
<1> USE DEF log, sockets, handler, redis, memory, client, bounds
<1>t. step \in [Connections -> Steps] /\ sending \in [Connections -> Nat]
  BY DEF BoundInv, HoleInv, HoleTypes
<1>1. CASE UNCHANGED vars
  BY <1>0, <1>1, BoundKept DEF vars
<1>2. ASSUME NEW c \in Connections, Command(c) PROVE BoundInv'
  <2>1. CASE MessageSend(c)
    BY <1>0, <2>1, MessageSendBound
  <2>2. CASE Subscribe(c)
    BY <1>0, <1>t, <2>2, BoundKept DEF Subscribe, Sending
  <2>3. CASE Unsubscribe(c)
    BY <1>0, <2>3, BoundKept DEF Unsubscribe
  <2> QED
    BY <1>2, <2>1, <2>2, <2>3 DEF Command
<1>3. ASSUME NEW c \in Connections, Handle(c) PROVE BoundInv'
  <2>1. CASE NotifyHere(c)
    BY <1>0, <1>t, <2>1, BoundKept DEF NotifyHere, Sending
  <2>2. CASE PublishUser(c)
    BY <1>0, <1>t, <2>2, BoundKept DEF PublishUser, Sending
  <2>3. CASE BroadcastOwn(c)
    BY <1>0, <2>3, BroadcastOwnBound
  <2>4. CASE SendDone(c)
    <3>1. \A d \in Connections : step'[d] \in Sending => step[d] \in Sending /\ sending'[d] = sending[d]
      BY <1>t, <2>4 DEF SendDone, Sending
    <3> QED
      BY <1>0, <2>4, <3>1, BoundKept DEF SendDone
  <2>5. CASE ReadMissed(c) \/ SendMissed(c)
    BY <1>0, <1>t, <2>5, BoundKept DEF ReadMissed, SendMissed, Replay, Sending
  <2>6. CASE Sends(c)
    BY <1>0, <2>6, BoundKept DEF Sends, SendOne
  <2> QED
    BY <1>3, <2>1, <2>2, <2>3, <2>4, <2>5, <2>6 DEF Handle
<1>4. CASE Listen
  BY <1>0, <1>4, BusTakeBound, BoundKept DEF Listen, BusDone, Sends, SendOne
<1>5. ASSUME NEW c \in Connections, HangUp(c) \/ HandlerEnds(c) PROVE BoundInv'
  <2>1. \A d \in Connections : step'[d] \in Sending => step[d] \in Sending /\ sending'[d] = sending[d]
    BY <1>t, <1>5 DEF HangUp, HandlerEnds, Sending
  <2> QED
    BY <1>0, <1>5, <2>1, BoundKept DEF HangUp, HandlerEnds
<1>6. ASSUME NEW n \in Events, NotifyElsewhere(n) \/ PublishEvent(n) PROVE BoundInv'
  BY <1>0, <1>6, BoundKept DEF NotifyElsewhere, PublishEvent
<1>7. CASE CommitElsewhere \/ LinkDown \/ LinkUp
  BY <1>0, <1>7, BoundKept DEF CommitElsewhere, LinkDown, LinkUp
<1> QED
  BY <1>1, <1>2, <1>3, <1>4, <1>5, <1>6, <1>7 DEF Next

LEMMA BoundInvariance == Spec => []BoundInv
BY BoundInit, BoundNext, PTL DEF Spec

(***************************************************************************)
(* An event is broadcast at most twice, and once more for each time its id *)
(* was forgotten (manager.broadcast_room and _remember_event).             *)
(***************************************************************************)
THEOREM EventsBroadcastSparingly == Spec => []BroadcastBound
<1>1. BoundInv => BroadcastBound
  <2> SUFFICES ASSUME BoundInv, NEW n \in Events PROVE starts[n] <= 2 + evictions[n]
    BY DEF BroadcastBound
  <2>1. starts[n] + Owed(n) <= evictions[n] + (IF n \in ToSet(seen) THEN 2 ELSE 1)
    BY DEF BoundInv, Bounded
  <2>2. starts[n] \in Nat /\ evictions[n] \in Nat /\ Owed(n) \in {0, 1}
    BY DEF Owed, BoundInv, HoleInv, HoleTypes, Remembered
  <2> QED
    BY <2>1, <2>2
<1> QED
  BY <1>1, BoundInvariance, PTL

-----------------------------------------------------------------------------
(***************************************************************************)
(* The notification of an event is at one place at a time: with the event  *)
(* that is not committed or that another node has still to notify, with    *)
(* the handler that sent the event, in one message from elsewhere, or with *)
(* one loop that tells it.  Until a loop tells it nobody was told, and a   *)
(* loop has not told those it has still to tell.                           *)
(***************************************************************************)
Unsent(n) == n > length \/ n \in remote
Waiting(c, n) == step[c] = "acking" /\ sending[c] = n
Carried(i, n) == wire[i].kind = "notice" /\ wire[i].event = n /\ wire[i].origin # "here"
Telling(s, n) == cast[s].kind = "notice" /\ cast[s].event = n

Untold(n) == \A c \in Connections : told[c][n] = 0
NotWaiting(n) == \A c \in Connections : ~Waiting(c, n)
NotCarried(n) == \A i \in 1 .. Len(wire) : ~Carried(i, n)
NotTelling(n) == \A s \in Sources : ~Telling(s, n)

ToldOnce(n) ==
  /\ Unsent(n) => Untold(n) /\ NotWaiting(n) /\ NotCarried(n) /\ NotTelling(n)
  /\ \A c \in Connections : Waiting(c, n) =>
       /\ Untold(n) /\ NotCarried(n) /\ NotTelling(n)
       /\ \A d \in Connections : Waiting(d, n) => d = c
  /\ \A i \in 1 .. Len(wire) : Carried(i, n) =>
       /\ Untold(n) /\ NotTelling(n)
       /\ \A j \in 1 .. Len(wire) : Carried(j, n) => j = i
  /\ \A s \in Sources : Telling(s, n) =>
       /\ \A c \in cast[s].left : told[c][n] = 0
       /\ \A t \in Sources : Telling(t, n) => t = s
  /\ \A c \in Connections : told[c][n] <= 1

NoticeInv ==
  /\ HoleInv /\ told \in [Connections -> [Events -> Nat]]
  /\ \A n \in Events : ToldOnce(n)

LEMMA NoticeInit == Init => NoticeInv
<1> SUFFICES ASSUME Init PROVE NoticeInv
  OBVIOUS
<1>1. told \in [Connections -> [Events -> Nat]]
  BY DEF Init
<1>2. ASSUME NEW n \in Events PROVE ToldOnce(n)
  <2>1. Untold(n) /\ NotWaiting(n)
    BY DEF Init, Untold, NotWaiting, Waiting
  <2>2. wire = <<>> /\ Len(wire) = 0
    BY DEF Init
  <2>3. NotCarried(n)
    BY <2>2 DEF NotCarried
  <2>4. NotTelling(n)
    BY DEF Init, NotTelling, Telling, NoCast
  <2>5. \A c \in Connections : told[c][n] <= 1
    BY <2>1 DEF Untold
  <2> QED
    BY <2>1, <2>3, <2>4, <2>5 DEF ToldOnce, NotWaiting, NotCarried, NotTelling
<1> QED
  BY <1>1, <1>2, HoleInit DEF NoticeInv

(* Nothing is told and the notification of n goes nowhere new; the first k *)
(* messages may leave the wire.                                            *)
LEMMA StaysPut ==
  ASSUME NEW n \in Events, ToldOnce(n), NEW k \in Nat,
         Unsent(n)' => Unsent(n),
         \A c \in Connections : Waiting(c, n)' => Waiting(c, n),
         \A i \in 1 .. Len(wire') : Carried(i, n)' => i + k \in 1 .. Len(wire) /\ Carried(i + k, n),
         \A s \in Sources : Telling(s, n)' => Telling(s, n) /\ cast'[s].left \subseteq cast[s].left,
         told' = told
  PROVE  ToldOnce(n)'
<1>1. Untold(n) => Untold(n)'
  BY DEF Untold
<1>2. NotWaiting(n) => NotWaiting(n)'
  BY DEF NotWaiting
<1>3. NotCarried(n) => NotCarried(n)'
  BY DEF NotCarried
<1>4. NotTelling(n) => NotTelling(n)'
  BY DEF NotTelling
<1>5. Unsent(n)' => (Untold(n) /\ NotWaiting(n) /\ NotCarried(n) /\ NotTelling(n))'
  BY <1>1, <1>2, <1>3, <1>4 DEF ToldOnce
<1>6. ASSUME NEW c \in Connections, Waiting(c, n)'
      PROVE  /\ (Untold(n) /\ NotCarried(n) /\ NotTelling(n))'
             /\ \A d \in Connections : Waiting(d, n)' => d = c
  <2>1. Waiting(c, n)
    BY <1>6
  <2> QED
    BY <2>1, <1>1, <1>3, <1>4 DEF ToldOnce
<1>7. ASSUME NEW i \in 1 .. Len(wire'), Carried(i, n)'
      PROVE  /\ (Untold(n) /\ NotTelling(n))'
             /\ \A j \in 1 .. Len(wire') : Carried(j, n)' => j = i
  <2>1. i + k \in 1 .. Len(wire) /\ Carried(i + k, n)
    BY <1>7
  <2>2. ASSUME NEW j \in 1 .. Len(wire'), Carried(j, n)' PROVE j = i
    <3>1. j + k \in 1 .. Len(wire) /\ Carried(j + k, n)
      BY <2>2
    <3>2. j + k = i + k
      BY <2>1, <3>1 DEF ToldOnce
    <3> QED
      BY <3>2
  <2>3. Untold(n) /\ NotTelling(n)
    BY <2>1 DEF ToldOnce
  <2> QED
    BY <2>2, <2>3, <1>1, <1>4
<1>8. ASSUME NEW s \in Sources, Telling(s, n)'
      PROVE  /\ \A c \in cast'[s].left : told'[c][n] = 0
             /\ \A t \in Sources : Telling(t, n)' => t = s
  <2>1. Telling(s, n) /\ cast'[s].left \subseteq cast[s].left
    BY <1>8
  <2> QED
    BY <2>1 DEF ToldOnce
<1>9. \A c \in Connections : told'[c][n] <= 1
  BY DEF ToldOnce
<1> QED
  BY <1>5, <1>6, <1>7, <1>8, <1>9 DEF ToldOnce

(* A message is put on the wire that is no notice of n from elsewhere.     *)
LEMMA PutElse ==
  ASSUME HoleInv, NEW m, Put(m), NEW n,
         m.kind # "notice" \/ m.event # n \/ m.origin = "here"
  PROVE  \A i \in 1 .. Len(wire') : Carried(i, n)' => i \in 1 .. Len(wire) /\ Carried(i, n)
<1>0. wire \in Seq(Messages)
  BY DEF HoleInv, HoleTypes
<1>1. CASE wire' = wire
  BY <1>1 DEF Carried
<1>2. CASE wire' = Append(wire, m)
  <2>1. /\ Len(wire) \in Nat /\ Len(wire') = Len(wire) + 1
        /\ \A i \in 1 .. Len(wire) : wire'[i] = wire[i]
        /\ wire'[Len(wire) + 1] = m
    BY <1>0, <1>2
  <2> SUFFICES ASSUME NEW i \in 1 .. Len(wire'), Carried(i, n)'
               PROVE  i \in 1 .. Len(wire) /\ Carried(i, n)
    OBVIOUS
  <2>2. i # Len(wire) + 1
    BY <2>1 DEF Carried
  <2>3. i \in 1 .. Len(wire)
    BY <2>1, <2>2
  <2> QED
    BY <2>1, <2>3 DEF Carried
<1> QED
  BY <1>1, <1>2 DEF Put

LEMMA StaysHere ==
  ASSUME NEW n \in Events, ToldOnce(n),
         Unsent(n)' => Unsent(n),
         \A c \in Connections : Waiting(c, n)' => Waiting(c, n),
         \A i \in 1 .. Len(wire') : Carried(i, n)' => i \in 1 .. Len(wire) /\ Carried(i, n),
         \A s \in Sources : Telling(s, n)' => Telling(s, n) /\ cast'[s].left \subseteq cast[s].left,
         told' = told
  PROVE  ToldOnce(n)'
<1>1. ASSUME NEW i \in 1 .. Len(wire'), Carried(i, n)'
      PROVE  i + 0 \in 1 .. Len(wire) /\ Carried(i + 0, n)
  <2>1. i + 0 = i
    OBVIOUS
  <2> QED
    BY <1>1, <2>1
<1> QED
  BY <1>1, StaysPut

(* A loop that ends, is idle or broadcasts an event tells no notification. *)
LEMMA QuietCast ==
  ASSUME HoleInv, NEW s \in Sources, NEW new,
         cast' = [cast EXCEPT ![s] = new], new.kind # "notice"
  PROVE  \A n : \A t \in Sources :
           Telling(t, n)' => Telling(t, n) /\ cast'[t].left \subseteq cast[t].left
BY DEF HoleInv, HoleTypes, Telling

LEMMA MessageSendTold ==
  ASSUME NoticeInv, NEW c \in Connections, MessageSend(c), NEW n \in Events
  PROVE  ToldOnce(n)'
<1>1. /\ length \in Nat /\ length' = length + 1
      /\ step' = [step EXCEPT ![c] = "acking"] /\ sending' = [sending EXCEPT ![c] = length + 1]
      /\ UNCHANGED <<remote, wire, cast, told>>
  BY DEF NoticeInv, HoleInv, HoleTypes, MessageSend, redis, client
<1>2. /\ \A d \in Connections \ {c} : step'[d] = step[d] /\ sending'[d] = sending[d]
      /\ step'[c] = "acking" /\ sending'[c] = length + 1
  BY <1>1 DEF NoticeInv, HoleInv, HoleTypes
<1>3. ToldOnce(n) /\ n \in Nat
  BY FanoutAssumption DEF NoticeInv, Events
<1>4. UNCHANGED <<Untold(n), NotCarried(n), NotTelling(n)>>
  BY <1>1 DEF Untold, NotCarried, Carried, NotTelling, Telling
<1>5. CASE n = length + 1
  <2>1. Untold(n) /\ NotWaiting(n) /\ NotCarried(n) /\ NotTelling(n)
    BY <1>1, <1>5, <1>3 DEF ToldOnce, Unsent
  <2>2. ~Unsent(n)'
    <3>1. ~(n > length') /\ ~(n \in 1 .. length)
      BY <1>1, <1>5
    <3>2. remote \subseteq 1 .. length
      BY DEF NoticeInv, HoleInv, OnlyCommitted
    <3> QED
      BY <1>1, <3>1, <3>2 DEF Unsent
  <2>3. \A d \in Connections : Waiting(d, n)' => d = c
    BY <2>1, <1>2 DEF NotWaiting, Waiting
  <2>4. \A d \in Connections : told'[d][n] <= 1
    BY <1>1, <1>3 DEF ToldOnce
  <2>5. (Untold(n) /\ NotCarried(n) /\ NotTelling(n))'
    BY <1>4, <2>1
  <2> QED
    BY <2>2, <2>3, <2>4, <2>5 DEF ToldOnce, NotCarried, NotTelling
<1>6. CASE n # length + 1
  <2>1. Unsent(n)' => Unsent(n)
    BY <1>1, <1>3 DEF Unsent
  <2>2. \A d \in Connections : Waiting(d, n)' => Waiting(d, n)
    BY <1>2, <1>6 DEF Waiting
  <2>3. \A i \in 1 .. Len(wire') : Carried(i, n)' => i \in 1 .. Len(wire) /\ Carried(i, n)
    BY <1>1 DEF Carried
  <2>4. \A s \in Sources : Telling(s, n)' => Telling(s, n) /\ cast'[s].left \subseteq cast[s].left
    BY <1>1 DEF Telling
  <2> QED
    BY <1>1, <1>3, <2>1, <2>2, <2>3, <2>4, StaysHere
<1> QED
  BY <1>5, <1>6

(* The handler that sent n starts to tell it.                              *)
LEMMA NotifyHereTold ==
  ASSUME NoticeInv, NEW c \in Connections, NotifyHere(c), NEW n \in Events
  PROVE  ToldOnce(n)'
<1> DEFINE new == Cast("notice", sending[c], {d \in Member : socket[d] # "closed"})
<1>1. /\ step[c] = "acking" /\ step' = [step EXCEPT ![c] = "notifying"]
      /\ cast' = [cast EXCEPT ![c] = new] /\ c \in Sources
      /\ UNCHANGED <<length, remote, sending, wire, told>>
  BY DEF NotifyHere, SendUser, log, redis, client, Sources
<1>2. /\ step'[c] = "notifying" /\ \A d \in Connections \ {c} : step'[d] = step[d]
      /\ cast'[c] = new /\ \A s \in Sources \ {c} : cast'[s] = cast[s]
  BY <1>1 DEF NoticeInv, HoleInv, HoleTypes
<1>3. new.kind = "notice" /\ new.event = sending[c] /\ new.left \subseteq Connections
  BY FanoutAssumption DEF Cast
<1> HIDE DEF new
<1>4. ToldOnce(n)
  BY DEF NoticeInv
<1>5. UNCHANGED <<Unsent(n), Untold(n), NotCarried(n)>>
  BY <1>1 DEF Unsent, Untold, NotCarried, Carried
<1>6. CASE n = sending[c]
  <2>1. Waiting(c, n)
    BY <1>1, <1>6 DEF Waiting
  <2>2. /\ Untold(n) /\ NotCarried(n) /\ NotTelling(n)
        /\ \A d \in Connections : Waiting(d, n) => d = c
    BY <1>4, <2>1 DEF ToldOnce
  <2>3. ~Unsent(n)'
    BY <1>4, <1>5, <2>1 DEF ToldOnce, NotWaiting
  <2>4. NotWaiting(n)'
    BY <1>1, <1>2, <2>2 DEF NotWaiting, Waiting
  <2>5. \A s \in Sources : Telling(s, n)' => s = c
    BY <1>2, <2>2 DEF NotTelling, Telling
  <2>6. \A d \in Connections : told'[d][n] = 0
    BY <1>1, <2>2 DEF Untold
  <2>7. NotCarried(n)' /\ cast'[c].left \subseteq Connections
    BY <1>2, <1>3, <1>5, <2>2
  <2> QED
    BY <2>3, <2>4, <2>5, <2>6, <2>7 DEF ToldOnce, NotWaiting, NotCarried
<1>7. CASE n # sending[c]
  <2>1. \A d \in Connections : Waiting(d, n)' => Waiting(d, n)
    BY <1>1, <1>2, <1>7 DEF Waiting
  <2>2. \A i \in 1 .. Len(wire') : Carried(i, n)' => i \in 1 .. Len(wire) /\ Carried(i, n)
    BY <1>1 DEF Carried
  <2>3. \A s \in Sources : Telling(s, n)' => Telling(s, n) /\ cast'[s].left \subseteq cast[s].left
    BY <1>2, <1>3, <1>7 DEF Telling
  <2> QED
    BY <1>1, <1>4, <1>5, <2>1, <2>2, <2>3, StaysHere
<1> QED
  BY <1>6, <1>7

LEMMA CommitElsewhereTold ==
  ASSUME NoticeInv, CommitElsewhere, NEW n \in Events
  PROVE  ToldOnce(n)'
<1>1. /\ length \in Nat /\ length' = length + 1 /\ remote' = remote \cup ({length + 1} \cap Sent)
      /\ UNCHANGED <<step, sending, wire, cast, told>>
  BY DEF NoticeInv, HoleInv, HoleTypes, CommitElsewhere, handler, redis, client
<1>2. n \in Nat /\ ToldOnce(n)
  BY FanoutAssumption DEF NoticeInv, Events
<1>3. Unsent(n)' => Unsent(n)
  BY <1>1, <1>2 DEF Unsent
<1> QED
  BY <1>1, <1>2, <1>3, StaysHere DEF Waiting, Carried, Telling

(* Another node publishes the notification of n, and will not again.       *)
LEMMA NotifyElsewhereTold ==
  ASSUME NoticeInv, NEW m \in Events, NotifyElsewhere(m), NEW n \in Events
  PROVE  ToldOnce(n)'
<1> DEFINE notice == Message("notice", m, "elsewhere")
<1>1. /\ m \in remote /\ remote' = remote \ {m} /\ Put(notice)
      /\ UNCHANGED <<length, step, sending, cast, told>>
  BY DEF NotifyElsewhere, handler, client
<1>2. notice.kind = "notice" /\ notice.event = m /\ notice.origin # "here"
  BY DEF Message
<1> HIDE DEF notice
<1>3. ToldOnce(n)
  BY DEF NoticeInv
<1>4. CASE n = m
  <2>1. Untold(n) /\ NotWaiting(n) /\ NotCarried(n) /\ NotTelling(n)
    BY <1>1, <1>3, <1>4 DEF ToldOnce, Unsent
  <2>2. (Untold(n) /\ NotWaiting(n) /\ NotTelling(n))'
    BY <1>1, <2>1 DEF Untold, NotWaiting, Waiting, NotTelling, Telling
  <2>3. ~Unsent(n)'
    <3>1. n \in 1 .. length /\ length \in Nat
      BY <1>1, <1>4 DEF NoticeInv, HoleInv, HoleTypes, OnlyCommitted
    <3> QED
      BY <1>1, <1>4, <3>1 DEF Unsent
  <2>4. \A i, j \in 1 .. Len(wire') : Carried(i, n)' /\ Carried(j, n)' => j = i
    <3>1. CASE wire' = wire
      BY <2>1, <3>1 DEF NotCarried, Carried
    <3>2. CASE wire' = Append(wire, notice)
      <4>1. /\ Len(wire) \in Nat /\ Len(wire') = Len(wire) + 1
            /\ \A i \in 1 .. Len(wire) : wire'[i] = wire[i]
        BY <3>2 DEF NoticeInv, HoleInv, HoleTypes
      <4>2. \A i \in 1 .. Len(wire') : Carried(i, n)' => i = Len(wire) + 1
        <5> SUFFICES ASSUME NEW i \in 1 .. Len(wire'), Carried(i, n)', i # Len(wire) + 1
                     PROVE  FALSE
          OBVIOUS
        <5>1. i \in 1 .. Len(wire)
          BY <4>1
        <5> QED
          BY <5>1, <4>1, <2>1 DEF NotCarried, Carried
      <4> QED
        BY <4>2
    <3> QED
      BY <1>1, <3>1, <3>2 DEF Put
  <2>5. \A c \in Connections : told'[c][n] <= 1
    BY <2>2 DEF Untold
  <2> QED
    BY <2>2, <2>3, <2>4, <2>5 DEF ToldOnce, NotWaiting, NotTelling
<1>5. CASE n # m
  <2>1. \A i \in 1 .. Len(wire') : Carried(i, n)' => i \in 1 .. Len(wire) /\ Carried(i, n)
    BY <1>1, <1>2, <1>5, PutElse DEF NoticeInv
  <2> QED
    BY <1>1, <1>3, <2>1, StaysHere DEF Unsent, Waiting, Telling
<1> QED
  BY <1>4, <1>5

(* The subscriber takes the first message, and may start to tell it.       *)
LEMMA BusTakeTold ==
  ASSUME NoticeInv, BusTake, NEW n \in Events
  PROVE  ToldOnce(n)'
<1>1. /\ wire # <<>> /\ wire' = Tail(wire) /\ "bus" \in Sources
      /\ UNCHANGED <<length, remote, step, sending, told>>
  BY DEF BusTake, log, handler, client, Sources
<1>2. /\ Len(wire) \in Nat /\ 1 \in 1 .. Len(wire) /\ Len(wire') = Len(wire) - 1
      /\ \A i \in 1 .. Len(wire') : wire'[i] = wire[i + 1] /\ i + 1 \in 1 .. Len(wire)
  BY <1>1 DEF NoticeInv, HoleInv, HoleTypes
<1>3. ToldOnce(n) /\ UNCHANGED <<Unsent(n), Untold(n), NotWaiting(n)>>
  BY <1>1 DEF NoticeInv, Unsent, Untold, NotWaiting, Waiting
<1>4. \A i \in 1 .. Len(wire') : Carried(i, n)' => i + 1 \in 1 .. Len(wire) /\ Carried(i + 1, n)
  BY <1>2 DEF Carried
<1>5. ASSUME \A s \in Sources : Telling(s, n)' => Telling(s, n) /\ cast'[s].left \subseteq cast[s].left
      PROVE  ToldOnce(n)'
  BY <1>1, <1>3, <1>4, <1>5, StaysPut DEF Waiting
<1> DEFINE m == Head(wire)
<1>6. m = wire[1]
  BY <1>1, <1>2
<1>7. CASE cast' = cast
  BY <1>5, <1>7 DEF Telling
<1>8. CASE Broadcast("bus", m.event)
  <2>1. Cast("event", m.event, Audience).kind # "notice"
    BY DEF Cast
  <2> QED
    BY <1>1, <1>5, <1>8, <2>1, QuietCast DEF Broadcast, NoticeInv
<1>9. CASE ~Dropped(m) /\ m.kind = "notice" /\ SendUser("bus", m.event)
  <2> DEFINE new == Cast("notice", m.event, {d \in Member : socket[d] # "closed"})
  <2>1. cast' = [cast EXCEPT !["bus"] = new] /\ m.kind = "notice" /\ m.origin # "here"
    BY <1>9 DEF SendUser, Dropped
  <2>2. new.event = m.event /\ new.left \subseteq Connections
    BY FanoutAssumption DEF Cast
  <2> HIDE DEF new
  <2>3. cast'["bus"] = new /\ \A s \in Sources \ {"bus"} : cast'[s] = cast[s]
    BY <1>1, <2>1 DEF NoticeInv, HoleInv, HoleTypes
  <2>4. CASE n = m.event
    <3>1. Carried(1, n)
      BY <1>6, <2>1, <2>4 DEF Carried
    <3>2. /\ Untold(n) /\ NotTelling(n)
          /\ \A j \in 1 .. Len(wire) : Carried(j, n) => j = 1
      BY <1>2, <1>3, <3>1 DEF ToldOnce
    <3>3. NotWaiting(n)
      BY <1>2, <1>3, <3>1 DEF ToldOnce, NotWaiting, NotCarried
    <3>4. ~Unsent(n)'
      BY <1>2, <1>3, <3>1 DEF ToldOnce, NotCarried
    <3>5. NotCarried(n)'
      <4> SUFFICES ASSUME NEW i \in 1 .. Len(wire'), Carried(i, n)' PROVE FALSE
        BY DEF NotCarried
      <4>1. i + 1 = 1
        BY <1>4, <3>2
      <4> QED
        BY <1>2, <4>1
    <3>6. \A s \in Sources : Telling(s, n)' => s = "bus"
      BY <2>3, <3>2 DEF NotTelling, Telling
    <3>7. \A d \in Connections : told'[d][n] = 0
      BY <1>1, <3>2 DEF Untold
    <3>8. NotWaiting(n)' /\ cast'["bus"].left \subseteq Connections
      BY <1>3, <2>2, <2>3, <3>3
    <3> QED
      BY <3>4, <3>5, <3>6, <3>7, <3>8 DEF ToldOnce, NotWaiting, NotCarried
  <2>5. CASE n # m.event
    <3>1. \A s \in Sources : Telling(s, n)' => Telling(s, n) /\ cast'[s].left \subseteq cast[s].left
      BY <2>2, <2>3, <2>5 DEF Telling
    <3> QED
      BY <3>1, <1>5
  <2> QED
    BY <2>4, <2>5
<1> QED
  BY <1>7, <1>8, <1>9 DEF BusTake

(* A loop tells one connection.                                            *)
LEMMA SendOneTold ==
  ASSUME NoticeInv, NEW s \in Sources, NEW c \in Connections, SendOne(s, c), NEW n \in Events
  PROVE  ToldOnce(n)'
<1>1. /\ c \in cast[s].left
      /\ UNCHANGED <<length, remote, step, sending, wire>>
  BY DEF SendOne, log, handler, redis
<1>2. PICK raised : cast' = [cast EXCEPT ![s] = AfterSend(@, c, raised)]
  BY DEF SendOne
<1>3. /\ cast'[s].kind = cast[s].kind /\ cast'[s].event = cast[s].event
      /\ cast'[s].left = cast[s].left \ {c}
      /\ \A t \in Sources \ {s} : cast'[t] = cast[t]
  BY <1>2 DEF NoticeInv, HoleInv, HoleTypes, AfterSend
<1>4. told \in [Connections -> [Events -> Nat]] /\ ToldOnce(n)
  BY DEF NoticeInv
<1>5. \A t \in Sources : Telling(t, n)' = Telling(t, n) /\ cast'[t].left \subseteq cast[t].left
  BY <1>3 DEF Telling
<1>6. CASE told'[c][n] = told[c][n] + 1
           /\ Telling(s, n) /\ \A d \in Connections \ {c} : told'[d][n] = told[d][n]
  <2>1. /\ told[c][n] = 0 /\ \A d \in cast[s].left : told[d][n] = 0
        /\ \A t \in Sources : Telling(t, n) => t = s
    BY <1>1, <1>4, <1>6 DEF ToldOnce
  <2>2. cast[s].left \subseteq Connections
    BY DEF NoticeInv, HoleInv, HoleTypes, Casts
  <2>3. ~NotTelling(n)
    BY <1>6 DEF NotTelling
  <2>4. ~Unsent(n)' /\ NotWaiting(n)' /\ NotCarried(n)'
    BY <1>1, <1>4, <2>3 DEF ToldOnce, Unsent, NotWaiting, Waiting, NotCarried, Carried
  <2>5. \A d \in Connections : told'[d][n] <= 1
    <3> SUFFICES ASSUME NEW d \in Connections PROVE told'[d][n] <= 1
      OBVIOUS
    <3>1. CASE d = c
      BY <1>6, <2>1, <3>1
    <3>2. CASE d # c
      BY <1>4, <1>6, <3>2 DEF ToldOnce
    <3> QED
      BY <3>1, <3>2
  <2>6. ASSUME NEW t \in Sources, Telling(t, n)'
        PROVE  /\ \A d \in cast'[t].left : told'[d][n] = 0
               /\ \A u \in Sources : Telling(u, n)' => u = t
    <3>1. t = s
      BY <1>5, <2>1, <2>6
    <3>2. \A d \in cast[s].left \ {c} : told'[d][n] = 0
      BY <1>6, <2>1, <2>2
    <3> QED
      BY <1>3, <1>5, <2>1, <3>1, <3>2
  <2> QED
    BY <2>4, <2>5, <2>6 DEF ToldOnce, NotWaiting, NotCarried
<1>7. CASE \A d \in Connections : told'[d][n] = told[d][n]
  <2>1. UNCHANGED <<Unsent(n), NotWaiting(n), NotCarried(n)>>
    BY <1>1 DEF Unsent, NotWaiting, Waiting, NotCarried, Carried
  <2>2. Untold(n)' = Untold(n)
    BY <1>7 DEF Untold
  <2>3. NotTelling(n)' = NotTelling(n)
    BY <1>5 DEF NotTelling
  <2>4. cast[s].left \subseteq Connections /\ \A t \in Sources : cast[t].left \subseteq Connections
    BY DEF NoticeInv, HoleInv, HoleTypes, Casts
  <2>5. \A d \in Connections : Waiting(d, n)' = Waiting(d, n)
    BY <1>1 DEF Waiting
  <2>6. Len(wire') = Len(wire) /\ \A i \in 1 .. Len(wire') : Carried(i, n)' = Carried(i, n)
    BY <1>1 DEF Carried
  <2>7. ASSUME NEW t \in Sources, Telling(t, n)'
        PROVE  /\ \A d \in cast'[t].left : told'[d][n] = 0
               /\ \A u \in Sources : Telling(u, n)' => u = t
    BY <1>4, <1>5, <1>7, <2>4, <2>7 DEF ToldOnce
  <2>8. \A d \in Connections : told'[d][n] <= 1
    BY <1>4, <1>7 DEF ToldOnce
  <2>9. Unsent(n)' => (Untold(n) /\ NotWaiting(n) /\ NotCarried(n) /\ NotTelling(n))'
    BY <1>4, <2>1, <2>2, <2>3 DEF ToldOnce
  <2>10. \A d \in Connections : Waiting(d, n)' =>
           /\ (Untold(n) /\ NotCarried(n) /\ NotTelling(n))'
           /\ \A e \in Connections : Waiting(e, n)' => e = d
    BY <1>4, <2>1, <2>2, <2>3, <2>5 DEF ToldOnce
  <2>11. \A i \in 1 .. Len(wire') : Carried(i, n)' =>
           /\ (Untold(n) /\ NotTelling(n))'
           /\ \A j \in 1 .. Len(wire') : Carried(j, n)' => j = i
    BY <1>4, <2>2, <2>3, <2>6 DEF ToldOnce
  <2> QED
    BY <2>7, <2>8, <2>9, <2>10, <2>11 DEF ToldOnce
<1>8. CASE UNCHANGED client
  BY <1>7, <1>8 DEF client
<1>9. CASE Receives(c, cast[s].kind, cast[s].event)
  <2>1. CASE cast[s].kind = "notice"
    <3>1. told' = [told EXCEPT ![c][cast[s].event] = @ + 1]
      BY <1>9, <2>1 DEF Receives
    <3>2. CASE cast[s].event = n
      BY <1>4, <1>6, <2>1, <3>1, <3>2 DEF Telling
    <3>3. CASE cast[s].event # n
      BY <1>4, <1>7, <3>1, <3>3
    <3> QED
      BY <3>2, <3>3
  <2>2. CASE cast[s].kind # "notice"
    BY <1>7, <1>9, <2>2 DEF Receives
  <2> QED
    BY <2>1, <2>2
<1> QED
  BY <1>8, <1>9 DEF SendOne

LEMMA SendOneTypes ==
  ASSUME NoticeInv, NEW s \in Sources, NEW c \in Connections, SendOne(s, c)
  PROVE  told' \in [Connections -> [Events -> Nat]]
<1>0. told \in [Connections -> [Events -> Nat]]
  BY DEF NoticeInv
<1>1. CASE told' = told
  BY <1>0, <1>1
<1>2. CASE told' = [told EXCEPT ![c][cast[s].event] = @ + 1]
  <2>1. \A n \in Events : told[c][n] + 1 \in Nat
    BY <1>0
  <2> QED
    BY <1>0, <1>2, <2>1
<1> QED
  BY <1>1, <1>2 DEF SendOne, Receives, client

(* The wire loses its end, or gets something that is no notice.            *)
LEMMA LinkDownTold ==
  ASSUME NoticeInv, LinkDown, NEW n \in Events
  PROVE  ToldOnce(n)'
<1>1. UNCHANGED <<length, remote, step, sending, cast, told>>
  BY DEF LinkDown, log, handler, client
<1>2. PICK k \in 0 .. Len(wire) : wire' = SubSeq(wire, 1, k)
  BY DEF LinkDown
<1>3. wire \in Seq(Messages) /\ Len(wire) \in Nat
  BY DEF NoticeInv, HoleInv, HoleTypes
<1>4. Len(wire') = k /\ \A i \in 1 .. k : wire'[i] = wire[i]
  BY <1>2, <1>3
<1>5. \A i \in 1 .. Len(wire') : Carried(i, n)' => i \in 1 .. Len(wire) /\ Carried(i, n)
  BY <1>3, <1>4 DEF Carried
<1> QED
  BY <1>1, <1>5, StaysHere DEF NoticeInv, Unsent, Waiting, Telling

LEMMA PutTold ==
  ASSUME NoticeInv, NEW m, Put(m), NEW n \in Events,
         m.kind # "notice" \/ m.origin = "here",
         UNCHANGED <<length, remote, told>>,
         \A c \in Connections : Waiting(c, n)' => Waiting(c, n),
         \A s \in Sources : Telling(s, n)' => Telling(s, n) /\ cast'[s].left \subseteq cast[s].left
  PROVE  ToldOnce(n)'
<1>1. \A i \in 1 .. Len(wire') : Carried(i, n)' => i \in 1 .. Len(wire) /\ Carried(i, n)
  BY PutElse DEF NoticeInv
<1> QED
  BY <1>1, StaysHere DEF NoticeInv, Unsent

(* What leaves the wire and the log alone and does not tell.               *)
LEMMA QuietTold ==
  ASSUME NoticeInv, NEW n \in Events,
         UNCHANGED <<length, remote, wire, told>>,
         \A c \in Connections : Waiting(c, n)' => Waiting(c, n),
         \A s \in Sources : Telling(s, n)' => Telling(s, n) /\ cast'[s].left \subseteq cast[s].left
  PROVE  ToldOnce(n)'
<1>1. \A i \in 1 .. Len(wire') : Carried(i, n)' => i \in 1 .. Len(wire) /\ Carried(i, n)
  BY DEF Carried
<1> QED
  BY <1>1, StaysHere DEF NoticeInv, Unsent

LEMMA HandleTold ==
  ASSUME NoticeInv, NEW c \in Connections, Handle(c), NEW n \in Events
  PROVE  ToldOnce(n)'
<1> USE DEF log, sockets, handler, redis, memory, client, bounds
<1>0. step \in [Connections -> Steps] /\ sending \in [Connections -> Nat] /\ c \in Sources
  BY DEF NoticeInv, HoleInv, HoleTypes, Sources
<1>1. CASE NotifyHere(c)
  BY <1>1, NotifyHereTold
<1>2. CASE PublishUser(c)
  <2> DEFINE m == Message("notice", sending[c], "here")
  <2>1. /\ Put(m) /\ step' = [step EXCEPT ![c] = "publishing"]
        /\ cast' = [cast EXCEPT ![c] = NoCast]
        /\ UNCHANGED <<length, remote, sending, told>>
    BY <1>2 DEF PublishUser, DropStale
  <2>2. m.origin = "here" /\ NoCast.kind # "notice"
    BY DEF Message, NoCast
  <2> HIDE DEF m
  <2>3. \A d \in Connections : Waiting(d, n)' => Waiting(d, n)
    BY <1>0, <2>1 DEF Waiting
  <2>4. \A s \in Sources : Telling(s, n)' => Telling(s, n) /\ cast'[s].left \subseteq cast[s].left
    BY <1>0, <2>1, <2>2, QuietCast DEF NoticeInv
  <2> QED
    BY <2>1, <2>2, <2>3, <2>4, PutTold
<1>3. CASE BroadcastOwn(c)
  <2>1. /\ cast' = [cast EXCEPT ![c] = Cast("event", sending[c], Audience)]
        /\ step' = [step EXCEPT ![c] = "casting"]
        /\ UNCHANGED <<length, remote, wire, sending, told>>
    BY <1>3 DEF BroadcastOwn, Broadcast
  <2>2. Cast("event", sending[c], Audience).kind # "notice"
    BY DEF Cast
  <2>3. \A d \in Connections : Waiting(d, n)' => Waiting(d, n)
    BY <1>0, <2>1 DEF Waiting
  <2>4. \A s \in Sources : Telling(s, n)' => Telling(s, n) /\ cast'[s].left \subseteq cast[s].left
    BY <1>0, <2>1, <2>2, QuietCast DEF NoticeInv
  <2> QED
    BY <2>1, <2>3, <2>4, QuietTold
<1>4. CASE SendDone(c)
  <2>1. /\ cast' = [cast EXCEPT ![c] = NoCast]
        /\ step' = [step EXCEPT ![c] = "idle"] /\ sending' = [sending EXCEPT ![c] = 0]
        /\ UNCHANGED <<length, remote, wire, told>>
    BY <1>4 DEF SendDone, DropStale
  <2>2. NoCast.kind # "notice"
    BY DEF NoCast
  <2>3. \A d \in Connections : Waiting(d, n)' => Waiting(d, n)
    BY <1>0, <2>1 DEF Waiting
  <2>4. \A s \in Sources : Telling(s, n)' => Telling(s, n) /\ cast'[s].left \subseteq cast[s].left
    BY <1>0, <2>1, <2>2, QuietCast DEF NoticeInv
  <2> QED
    BY <2>1, <2>3, <2>4, QuietTold
<1>5. CASE ReadMissed(c) \/ SendMissed(c)
  <2>1. \A d \in Connections : step'[d] = "acking" => step[d] = "acking"
    BY <1>0, <1>5 DEF ReadMissed, SendMissed, Replay
  <2>2. \A d \in Connections : Waiting(d, n)' => Waiting(d, n)
    BY <1>5, <2>1 DEF Waiting, ReadMissed, SendMissed
  <2>3. \A s \in Sources : Telling(s, n)' => Telling(s, n) /\ cast'[s].left \subseteq cast[s].left
    BY <1>5 DEF Telling, ReadMissed, SendMissed
  <2> QED
    BY <1>5, <2>2, <2>3, QuietTold DEF ReadMissed, SendMissed
<1>6. CASE Sends(c)
  BY <1>0, <1>6, SendOneTold DEF Sends
<1> QED
  BY <1>1, <1>2, <1>3, <1>4, <1>5, <1>6 DEF Handle

LEMMA ListenTold ==
  ASSUME NoticeInv, Listen, NEW n \in Events
  PROVE  ToldOnce(n)'
<1>0. "bus" \in Sources
  BY DEF Sources
<1>1. CASE BusTake
  BY <1>1, BusTakeTold
<1>2. CASE BusDone
  <2>1. /\ cast' = [cast EXCEPT !["bus"] = NoCast]
        /\ UNCHANGED <<length, remote, wire, step, sending, told>>
    BY <1>2 DEF BusDone, DropStale, log, handler, redis, client
  <2>2. NoCast.kind # "notice"
    BY DEF NoCast
  <2>3. \A s \in Sources : Telling(s, n)' => Telling(s, n) /\ cast'[s].left \subseteq cast[s].left
    BY <1>0, <2>1, <2>2, QuietCast DEF NoticeInv
  <2> QED
    BY <2>1, <2>3, QuietTold DEF Waiting
<1>3. CASE Sends("bus")
  BY <1>0, <1>3, SendOneTold DEF Sends
<1> QED
  BY <1>1, <1>2, <1>3 DEF Listen

LEMMA OtherTold ==
  ASSUME NoticeInv, NEW n \in Events,
         \/ LinkUp \/ UNCHANGED vars \/ (\E m \in Events : PublishEvent(m))
         \/ \E c \in Connections : Subscribe(c) \/ Unsubscribe(c) \/ HangUp(c) \/ HandlerEnds(c)
  PROVE  ToldOnce(n)'
<1> USE DEF log, sockets, handler, redis, memory, client, bounds
<1>0. step \in [Connections -> Steps] /\ sending \in [Connections -> Nat]
  BY DEF NoticeInv, HoleInv, HoleTypes
<1>1. UNCHANGED <<length, remote, cast, told>>
  BY DEF LinkUp, vars, PublishEvent, Subscribe, Unsubscribe, HangUp, HandlerEnds
<1>2. \A s \in Sources : Telling(s, n)' => Telling(s, n) /\ cast'[s].left \subseteq cast[s].left
  BY <1>1 DEF Telling
<1>3. ASSUME NEW m \in Events, PublishEvent(m) PROVE ToldOnce(n)'
  <2>1. Put(Message("event", m, "outbox")) /\ UNCHANGED <<step, sending>>
    BY <1>3 DEF PublishEvent
  <2>2. Message("event", m, "outbox").kind # "notice"
    BY DEF Message
  <2> QED
    BY <1>1, <1>2, <2>1, <2>2, PutTold DEF Waiting
<1>4. CASE LinkUp \/ UNCHANGED vars
  <2>1. UNCHANGED <<wire, step, sending>>
    BY <1>4 DEF LinkUp, vars
  <2> QED
    BY <1>1, <1>2, <2>1, QuietTold DEF Waiting
<1>5. ASSUME NEW c \in Connections, Subscribe(c) \/ Unsubscribe(c) \/ HangUp(c) \/ HandlerEnds(c)
      PROVE  ToldOnce(n)'
  <2>1. \A d \in Connections : step'[d] = "acking" => step[d] = "acking" /\ sending'[d] = sending[d]
    BY <1>0, <1>5 DEF Subscribe, Unsubscribe, HangUp, HandlerEnds
  <2>2. wire' = wire
    BY <1>5 DEF Subscribe, Unsubscribe, HangUp, HandlerEnds
  <2>3. \A d \in Connections : Waiting(d, n)' => Waiting(d, n)
    BY <2>1 DEF Waiting
  <2> QED
    BY <1>1, <1>2, <2>2, <2>3, QuietTold
<1> QED
  BY <1>3, <1>4, <1>5

LEMMA NoticeNext == NoticeInv /\ [Next]_vars => NoticeInv'
<1> SUFFICES ASSUME NoticeInv, [Next]_vars PROVE NoticeInv'
  OBVIOUS
<1>1. HoleInv'
  BY HoleNext DEF NoticeInv
<1>2. \/ \E c \in Connections : MessageSend(c) \/ Handle(c)
      \/ CommitElsewhere \/ Listen \/ LinkDown
      \/ \E m \in Events : NotifyElsewhere(m)
      \/ LinkUp \/ UNCHANGED vars \/ (\E m \in Events : PublishEvent(m))
      \/ \E c \in Connections : Subscribe(c) \/ Unsubscribe(c) \/ HangUp(c) \/ HandlerEnds(c)
  BY DEF Next, Command
<1>3. \A n \in Events : ToldOnce(n)'
  BY <1>2, MessageSendTold, HandleTold, CommitElsewhereTold, ListenTold, LinkDownTold,
     NotifyElsewhereTold, OtherTold
<1>4. told' \in [Connections -> [Events -> Nat]]
  <2>1. told' = told \/ \E s \in Sources, c \in Connections : SendOne(s, c)
    BY <1>2
    DEF MessageSend, Handle, CommitElsewhere, Listen, LinkDown, NotifyElsewhere, LinkUp, vars,
        PublishEvent, Subscribe, Unsubscribe, HangUp, HandlerEnds, NotifyHere, PublishUser,
        BroadcastOwn, SendDone, ReadMissed, SendMissed, Sends, BusTake, BusDone, client, Sources
  <2> QED
    BY <2>1, SendOneTypes DEF NoticeInv
<1> QED
  BY <1>1, <1>3, <1>4 DEF NoticeInv

(***************************************************************************)
(* A notification reaches a connection at most once, although its node     *)
(* tells it directly and also publishes it (notifications.py, and the      *)
(* origin that redis_bus.py checks).                                       *)
(***************************************************************************)
THEOREM NoticesToldOnce == Spec => []NoticeOnce
<1>1. NoticeInv => NoticeOnce
  BY DEF NoticeInv, ToldOnce, NoticeOnce
<1>2. Spec => []NoticeInv
  BY NoticeInit, NoticeNext, PTL DEF Spec
<1> QED
  BY <1>1, <1>2, PTL

-----------------------------------------------------------------------------
(* The types HoleTypes leaves open: whatever holds an event holds one that *)
(* was committed, and the bounded counters stay in their bounds.           *)
CommittedIn ==
  /\ lost \subseteq 1 .. length /\ seen \in Seq(1 .. length)
  /\ \A c \in Connections :
       /\ sending[c] <= length /\ got[c] \subseteq 1 .. length
       /\ page[c] \in Seq(1 .. length) /\ Len(page[c]) <= PageLimit
  /\ \A s \in Sources : cast[s] = NoCast \/ cast[s].event \in 1 .. length
Counters ==
  /\ publishes \in [Events -> 0 .. MaxPublishes] /\ link \in BOOLEAN
  /\ breaks \in 0 .. MaxBreaks /\ commands \in 0 .. MaxCommands

TypeInv == HoleInv /\ CommittedIn /\ Counters

LEMMA TypeInit == Init => TypeInv
<1> SUFFICES ASSUME Init PROVE TypeInv
  OBVIOUS
<1> USE FanoutAssumption
<1>1. Counters
  BY DEF Init, Counters, Events
<1>2. CommittedIn
  <2>1. \A c \in Connections : /\ page[c] = <<>> /\ got[c] = {} /\ sending[c] = 0
    BY DEF Init
  <2>2. \A s \in Sources : cast[s] = NoCast
    BY DEF Init
  <2>3. length = 0 /\ seen = <<>> /\ lost = {}
    BY DEF Init
  <2>4. \A c \in Connections : Len(page[c]) = 0 /\ page[c] \in Seq(1 .. length)
    <3>1. <<>> \in Seq(1 .. length) /\ Len(<<>>) = 0
      OBVIOUS
    <3> QED
      BY <2>1, <3>1
  <2>5. /\ lost \subseteq 1 .. length /\ seen \in Seq(1 .. length) /\ 0 <= PageLimit
        /\ \A c \in Connections : sending[c] <= length
    BY <2>1, <2>3
  <2> QED
    BY <2>1, <2>2, <2>4, <2>5 DEF CommittedIn
<1> QED
  BY <1>1, <1>2, HoleInit DEF TypeInv

LEMMA MoreCommitted ==
  ASSUME NEW a \in Nat, NEW b \in Nat, a <= b
  PROVE  1 .. a \subseteq 1 .. b /\ \A q \in Seq(1 .. a) : q \in Seq(1 .. b)
<1>1. 1 .. a \subseteq 1 .. b
  OBVIOUS
<1>2. ASSUME NEW q \in Seq(1 .. a) PROVE q \in Seq(1 .. b)
  <2>1. Len(q) \in Nat /\ q \in [1 .. Len(q) -> 1 .. a]
    OBVIOUS
  <2>2. q \in [1 .. Len(q) -> 1 .. b]
    BY <1>1, <2>1
  <2> QED
    BY <2>1, <2>2
<1> QED
  BY <1>1, <1>2

LEMMA Elements ==
  ASSUME NEW S, NEW q \in Seq(S)
  PROVE  ToSet(q) \subseteq S
<1>1. DOMAIN q = 1 .. Len(q) /\ \A i \in 1 .. Len(q) : q[i] \in S
  OBVIOUS
<1> QED
  BY <1>1 DEF ToSet

LEMMA HeadAndTail ==
  ASSUME NEW S, NEW q \in Seq(S), q # <<>>
  PROVE  /\ Head(q) \in S /\ Tail(q) \in Seq(S)
         /\ Len(Tail(q)) = Len(q) - 1 /\ Len(q) \in Nat
OBVIOUS

LEMMA RememberTypes ==
  ASSUME NEW S, seen \in Seq(S), NEW n \in S, Remember(n)
  PROVE  seen' \in Seq(S)
<1> DEFINE rest == IF n \in ToSet(seen) THEN RemoveAt(seen, Place(n)) ELSE seen
<1>1. rest \in Seq(S)
  <2>1. CASE n \in ToSet(seen)
    <3>1. DOMAIN seen = 1 .. Len(seen)
      OBVIOUS
    <3>2. Place(n) \in 1 .. Len(seen)
      BY <2>1, <3>1 DEF Place, ToSet
    <3> QED
      BY <2>1, <3>2, RemoveFacts
  <2> QED
    BY <2>1
<1>2. Moved(n) = Append(rest, n)
  BY DEF Moved
<1> HIDE DEF rest
<1> DEFINE ids == Append(rest, n)
<1>3. ids \in Seq(S) /\ ids # <<>>
  BY <1>1
<1> HIDE DEF ids
<1>4. seen' = ids \/ seen' = Tail(ids)
  BY <1>2 DEF Remember, Trimmed, ids
<1> QED
  BY <1>3, <1>4

(* No event is committed, and what holds events gets only those of the log.*)
LEMMA TypesKept ==
  ASSUME TypeInv, HoleInv', Counters', UNCHANGED length,
         seen' \in Seq(1 .. length), lost' \subseteq 1 .. length,
         \A c \in Connections :
           /\ sending'[c] = sending[c] \/ sending'[c] = 0
           /\ got'[c] \subseteq 1 .. length
           /\ page'[c] \in Seq(1 .. length) /\ Len(page'[c]) <= PageLimit,
         \A s \in Sources : cast'[s] = NoCast \/ cast'[s].event \in 1 .. length
  PROVE  TypeInv'
<1>1. length \in Nat
  BY DEF TypeInv, HoleInv, HoleTypes
<1>2. ASSUME NEW c \in Connections PROVE sending'[c] <= length'
  <2>1. sending[c] <= length /\ 0 <= length
    BY <1>1 DEF TypeInv, CommittedIn
  <2> QED
    BY <2>1
<1>3. CommittedIn'
  BY <1>2 DEF CommittedIn
<1> QED
  BY <1>3 DEF TypeInv

(* A commit, here or elsewhere: the log is longer.                         *)
LEMMA CommitTypes ==
  ASSUME TypeInv, HoleInv', Counters', length' = length + 1,
         UNCHANGED <<lost, seen, got, page, cast>>,
         \A c \in Connections : sending'[c] = sending[c] \/ sending'[c] = length + 1
  PROVE  TypeInv'
<1>1. length \in Nat /\ length + 1 \in Nat /\ length <= length + 1 /\ sending \in [Connections -> Nat]
  BY DEF TypeInv, HoleInv, HoleTypes
<1>2. 1 .. length \subseteq 1 .. length' /\ \A q \in Seq(1 .. length) : q \in Seq(1 .. length')
  BY <1>1, MoreCommitted
<1>3. ASSUME NEW c \in Connections PROVE sending'[c] <= length'
  <2>1. sending[c] <= length /\ sending[c] \in Nat
    BY <1>1 DEF TypeInv, CommittedIn
  <2> QED
    BY <1>1, <2>1
<1>4. CommittedIn'
  BY <1>2, <1>3 DEF TypeInv, CommittedIn
<1> QED
  BY <1>4 DEF TypeInv

LEMMA MissedTypes ==
  ASSUME HoleInv, NEW c \in Connections
  PROVE  Missed(c) \in Seq(1 .. length) /\ Len(Missed(c)) <= PageLimit
<1> DEFINE k == Min({PageLimit, length - since[c]})
<1>1. /\ since[c] \in Nat /\ length \in Nat /\ since[c] <= length
      /\ PageLimit \in Nat /\ length - since[c] \in Nat
  BY FanoutAssumption DEF HoleInv, HoleTypes, OnlyCommitted
<1>2. k \in Nat /\ k <= PageLimit /\ k <= length - since[c]
  <2>1. \E x \in {PageLimit, length - since[c]} : \A y \in {PageLimit, length - since[c]} : x =< y
    BY <1>1
  <2>2. /\ k \in {PageLimit, length - since[c]}
        /\ \A y \in {PageLimit, length - since[c]} : k =< y
    BY <2>1 DEF Min
  <2> QED
    BY <1>1, <2>2
<1>3. Missed(c) = [i \in 1 .. k |-> since[c] + i]
  BY DEF Missed
<1> HIDE DEF k
<1>4. \A i \in 1 .. k : since[c] + i \in 1 .. length
  BY <1>1, <1>2
<1> QED
  BY <1>1, <1>2, <1>3, <1>4

(* What a handler has to send was committed.                               *)
LEMMA SendingCommitted ==
  ASSUME TypeInv, NEW c \in Connections, step[c] \in Sending
  PROVE  sending[c] \in 1 .. length /\ sending[c] \in Events
<1>1. sending[c] \in 1 .. length /\ length \in Nat /\ length <= MaxEvents /\ MaxEvents \in Nat
  BY FanoutAssumption DEF TypeInv, HoleInv, HoleTypes, OnlyCommitted, Sending
<1> QED
  BY <1>1 DEF Events

LEMMA SendOneCommitted ==
  ASSUME TypeInv, HoleInv', NEW s \in Sources, NEW c \in Connections, SendOne(s, c)
  PROVE  TypeInv'
<1>0. /\ CommittedIn /\ Counters
      /\ cast \in [Sources -> Casts] /\ got \in [Connections -> SUBSET Nat]
  BY DEF TypeInv, HoleInv, HoleTypes
<1>1. /\ c \in cast[s].left
      /\ UNCHANGED <<length, publishes, sending, page, link, lost, seen, breaks, commands>>
      /\ got' = got \/ got' = [got EXCEPT ![c] = @ \cup {cast[s].event}]
  BY DEF SendOne, Receives, log, sockets, handler, redis, memory, bounds, client
<1>2. PICK raised : cast' = [cast EXCEPT ![s] = AfterSend(@, c, raised)]
  BY DEF SendOne
<1>3. cast[s].event \in 1 .. length
  BY <1>0, <1>1 DEF CommittedIn, NoCast
<1>4. \A t \in Sources : cast'[t] = cast[t] \/ cast'[t].event = cast[s].event
  BY <1>0, <1>2 DEF AfterSend
<1>5. \A t \in Sources : cast'[t] = NoCast \/ cast'[t].event \in 1 .. length
  BY <1>0, <1>3, <1>4 DEF CommittedIn
<1>6. \A d \in Connections : got'[d] \subseteq 1 .. length
  BY <1>0, <1>1, <1>3 DEF CommittedIn
<1>7. Counters'
  BY <1>0, <1>1 DEF Counters
<1> QED
  BY <1>0, <1>1, <1>5, <1>6, <1>7, TypesKept DEF CommittedIn

LEMMA HandleTypes ==
  ASSUME TypeInv, HoleInv', NEW c \in Connections, Handle(c)
  PROVE  TypeInv'
<1> USE DEF log, sockets, handler, redis, memory, client, bounds
<1>0. /\ CommittedIn /\ Counters /\ c \in Sources
      /\ sending \in [Connections -> Nat] /\ page \in [Connections -> Seq(Nat)]
      /\ cast \in [Sources -> Casts] /\ got \in [Connections -> SUBSET Nat]
  BY DEF TypeInv, HoleInv, HoleTypes, Sources
<1>1. CASE NotifyHere(c)
  <2>1. sending[c] \in 1 .. length
    BY <1>1, SendingCommitted DEF NotifyHere, Sending
  <2>2. \A s \in Sources : cast'[s] = cast[s] \/ cast'[s].event = sending[c]
    BY <1>0, <1>1 DEF NotifyHere, SendUser, Cast
  <2>3. \A s \in Sources : cast'[s] = NoCast \/ cast'[s].event \in 1 .. length
    BY <1>0, <2>1, <2>2 DEF CommittedIn
  <2>4. Counters' /\ UNCHANGED <<length, seen, lost, sending, got, page>>
    BY <1>0, <1>1 DEF NotifyHere, Counters
  <2> QED
    BY <1>0, <2>3, <2>4, TypesKept DEF CommittedIn
<1>2. CASE PublishUser(c) \/ SendDone(c)
  <2>1. \A s \in Sources : cast'[s] = cast[s] \/ cast'[s] = NoCast
    BY <1>0, <1>2 DEF PublishUser, SendDone, DropStale
  <2>2. \A d \in Connections : sending'[d] = sending[d] \/ sending'[d] = 0
    BY <1>0, <1>2 DEF PublishUser, SendDone
  <2>3. Counters' /\ UNCHANGED <<length, seen, lost, got, page>>
    BY <1>0, <1>2 DEF PublishUser, SendDone, Counters
  <2>4. \A s \in Sources : cast'[s] = NoCast \/ cast'[s].event \in 1 .. length
    BY <1>0, <2>1 DEF CommittedIn
  <2> QED
    BY <1>0, <2>2, <2>3, <2>4, TypesKept DEF CommittedIn
<1>3. CASE BroadcastOwn(c)
  <2>1. sending[c] \in 1 .. length
    BY <1>3, SendingCommitted DEF BroadcastOwn, Sending
  <2>2. \A s \in Sources : cast'[s] = cast[s] \/ cast'[s].event = sending[c]
    BY <1>0, <1>3 DEF BroadcastOwn, Broadcast, Cast
  <2>3. \A s \in Sources : cast'[s] = NoCast \/ cast'[s].event \in 1 .. length
    BY <1>0, <2>1, <2>2 DEF CommittedIn
  <2>4. Counters' /\ UNCHANGED <<length, lost, sending, got, page>>
    BY <1>0, <1>3 DEF BroadcastOwn, Counters
  <2>5. seen' \in Seq(1 .. length)
    BY <1>0, <1>3, <2>1, RememberTypes DEF BroadcastOwn, Broadcast, CommittedIn
  <2> QED
    BY <1>0, <2>3, <2>4, <2>5, TypesKept DEF CommittedIn
<1>4. CASE ReadMissed(c)
  <2>1. Counters' /\ UNCHANGED <<length, seen, lost, sending, got, cast>>
    BY <1>0, <1>4 DEF ReadMissed, Counters
  <2>2. \A d \in Connections : page'[d] = page[d] \/ page'[d] = Missed(c)
    BY <1>0, <1>4 DEF ReadMissed, Replay
  <2>3. Missed(c) \in Seq(1 .. length) /\ Len(Missed(c)) <= PageLimit
    BY MissedTypes DEF TypeInv
  <2>4. \A d \in Connections : page'[d] \in Seq(1 .. length) /\ Len(page'[d]) <= PageLimit
    BY <1>0, <2>2, <2>3 DEF CommittedIn
  <2> QED
    BY <1>0, <2>1, <2>4, TypesKept DEF CommittedIn
<1>5. CASE SendMissed(c)
  <2>1. /\ Counters' /\ UNCHANGED <<length, seen, lost, sending, cast>>
        /\ step[c] = "replaying" /\ got' = [got EXCEPT ![c] = @ \cup {Head(page[c])}]
        /\ page' = [page EXCEPT ![c] = Tail(page[c])]
    BY <1>0, <1>5 DEF SendMissed, Replay, Counters
  <2>2. page[c] # <<>> /\ page[c] \in Seq(1 .. length)
    BY <1>0, <2>1 DEF TypeInv, HoleInv, OneLoopEach, CommittedIn
  <2>3. /\ Head(page[c]) \in 1 .. length /\ Tail(page[c]) \in Seq(1 .. length)
        /\ Len(Tail(page[c])) = Len(page[c]) - 1 /\ Len(page[c]) \in Nat
    BY <2>2, HeadAndTail
  <2>4. Len(page[c]) <= PageLimit /\ PageLimit \in Nat
    BY <1>0, FanoutAssumption DEF CommittedIn
  <2>5. Len(Tail(page[c])) <= PageLimit
    BY <2>3, <2>4
  <2>6. \A d \in Connections :
          /\ got'[d] \subseteq 1 .. length
          /\ page'[d] \in Seq(1 .. length) /\ Len(page'[d]) <= PageLimit
    BY <1>0, <2>1, <2>3, <2>5 DEF CommittedIn
  <2> QED
    BY <1>0, <2>1, <2>6, TypesKept DEF CommittedIn
<1>6. CASE Sends(c)
  BY <1>0, <1>6, SendOneCommitted DEF Sends
<1> QED
  BY <1>1, <1>2, <1>3, <1>4, <1>5, <1>6 DEF Handle

(* What Redis holds was committed.                                         *)
LEMMA ListenTypes == ASSUME TypeInv, HoleInv', Listen PROVE TypeInv'
<1> USE DEF log, sockets, handler, redis, memory, client, bounds
<1>0. /\ CommittedIn /\ Counters /\ "bus" \in Sources
      /\ cast \in [Sources -> Casts] /\ wire \in Seq(Messages)
  BY DEF TypeInv, HoleInv, HoleTypes, Sources
<1>1. CASE BusTake
  <2> DEFINE n == Head(wire).event
  <2>1. n \in 1 .. length
    <3>1. wire # <<>> /\ Len(wire) \in Nat /\ Head(wire) = wire[1]
      BY <1>0, <1>1 DEF BusTake
    <3>2. 1 \in 1 .. Len(wire)
      BY <1>0, <3>1
    <3> QED
      BY <3>1, <3>2 DEF TypeInv, HoleInv, OnlyCommitted
  <2>2. \A s \in Sources : cast'[s] = cast[s] \/ cast'[s].event = n
    BY <1>0, <1>1 DEF BusTake, Broadcast, SendUser, Cast
  <2>3. seen' = seen \/ Remember(n)
    BY <1>1 DEF BusTake, Broadcast
  <2>4. Counters' /\ UNCHANGED <<length, lost, sending, got, page>>
    BY <1>0, <1>1 DEF BusTake, Counters
  <2> HIDE DEF n
  <2>5. \A s \in Sources : cast'[s] = NoCast \/ cast'[s].event \in 1 .. length
    BY <1>0, <2>1, <2>2 DEF CommittedIn
  <2>6. seen' \in Seq(1 .. length)
    BY <1>0, <2>1, <2>3, RememberTypes DEF CommittedIn
  <2> QED
    BY <1>0, <2>4, <2>5, <2>6, TypesKept DEF CommittedIn
<1>2. CASE BusDone
  <2>1. \A s \in Sources : cast'[s] = cast[s] \/ cast'[s] = NoCast
    BY <1>0, <1>2 DEF BusDone, DropStale
  <2>2. Counters' /\ UNCHANGED <<length, seen, lost, sending, got, page>>
    BY <1>0, <1>2 DEF BusDone, Counters
  <2>3. \A s \in Sources : cast'[s] = NoCast \/ cast'[s].event \in 1 .. length
    BY <1>0, <2>1 DEF CommittedIn
  <2> QED
    BY <1>0, <2>2, <2>3, TypesKept DEF CommittedIn
<1>3. CASE Sends("bus")
  BY <1>0, <1>3, SendOneCommitted DEF Sends
<1> QED
  BY <1>1, <1>2, <1>3 DEF Listen

(* The clients' own steps, and those of Redis and the worker.              *)
LEMMA OtherTypes ==
  ASSUME TypeInv, HoleInv',
         \/ LinkUp \/ UNCHANGED vars
         \/ \E n \in Events : NotifyElsewhere(n)
         \/ \E c \in Connections : Subscribe(c) \/ Unsubscribe(c) \/ HangUp(c) \/ HandlerEnds(c)
  PROVE  TypeInv'
<1> USE DEF log, sockets, handler, redis, memory, client, bounds
<1>0. CommittedIn /\ Counters /\ MaxCommands \in Nat /\ PageLimit \in Nat
  BY FanoutAssumption DEF TypeInv
<1>1. UNCHANGED <<length, seen, lost, got, cast>>
  BY DEF LinkUp, vars, NotifyElsewhere, Subscribe, Unsubscribe, HangUp, HandlerEnds
<1>2. Counters'
  <2>1. commands' = commands \/ (commands < MaxCommands /\ commands' = commands + 1)
    BY DEF LinkUp, vars, NotifyElsewhere, Subscribe, Unsubscribe, HangUp, HandlerEnds, Asks
  <2>2. commands' \in 0 .. MaxCommands
    BY <1>0, <2>1 DEF Counters
  <2>3. link' = link \/ link' = TRUE
    BY DEF LinkUp, vars, NotifyElsewhere, Subscribe, Unsubscribe, HangUp, HandlerEnds
  <2>4. link' \in BOOLEAN
    BY <1>0, <2>3 DEF Counters
  <2>5. UNCHANGED <<publishes, breaks>>
    BY DEF LinkUp, vars, NotifyElsewhere, Subscribe, Unsubscribe, HangUp, HandlerEnds
  <2> QED
    BY <1>0, <2>2, <2>4, <2>5 DEF Counters
<1>3. \A d \in Connections :
        /\ sending'[d] = sending[d] \/ sending'[d] = 0
        /\ page'[d] = page[d] \/ page'[d] = <<>>
  <2>1. sending \in [Connections -> Nat] /\ page \in [Connections -> Seq(Nat)]
    BY DEF TypeInv, HoleInv, HoleTypes
  <2> QED
    BY <2>1 DEF LinkUp, vars, NotifyElsewhere, Subscribe, Unsubscribe, HangUp, HandlerEnds
<1>4. <<>> \in Seq(1 .. length) /\ Len(<<>>) <= PageLimit
  BY <1>0
<1>5. \A d \in Connections : page'[d] \in Seq(1 .. length) /\ Len(page'[d]) <= PageLimit
  BY <1>0, <1>3, <1>4 DEF CommittedIn
<1> QED
  BY <1>0, <1>1, <1>2, <1>3, <1>5, TypesKept DEF CommittedIn

LEMMA PublishEventTypes ==
  ASSUME TypeInv, HoleInv', NEW n \in Events, PublishEvent(n) PROVE TypeInv'
<1>1. /\ publishes[n] < MaxPublishes /\ publishes' = [publishes EXCEPT ![n] = @ + 1]
      /\ n <= length /\ lost' \subseteq lost \cup {n}
      /\ UNCHANGED <<length, sending, page, cast, link, seen, got, breaks, commands>>
  BY DEF PublishEvent, sockets, handler, memory, client, bounds
<1>2. Counters'
  <2>1. publishes[n] + 1 \in 0 .. MaxPublishes
    BY <1>1, FanoutAssumption DEF TypeInv, Counters
  <2> QED
    BY <1>1, <2>1 DEF TypeInv, Counters
<1>3. n \in 1 .. length
  BY <1>1, FanoutAssumption DEF TypeInv, HoleInv, HoleTypes, Events
<1> QED
  BY <1>1, <1>2, <1>3, TypesKept DEF TypeInv, CommittedIn

LEMMA LinkDownTypes == ASSUME TypeInv, HoleInv', LinkDown PROVE TypeInv'
<1>1. /\ UNCHANGED <<length, publishes, sending, page, cast, seen, got, commands>>
      /\ link' = FALSE /\ breaks < MaxBreaks /\ breaks' = breaks + 1
  BY DEF LinkDown, log, sockets, handler, memory, client
<1>2. Counters'
  <2>1. breaks' \in 0 .. MaxBreaks
    BY <1>1, FanoutAssumption DEF TypeInv, Counters
  <2>2. link' \in BOOLEAN
    BY <1>1
  <2> QED
    BY <1>1, <2>1, <2>2 DEF TypeInv, Counters
<1>3. PICK k \in 0 .. Len(wire) :
        lost' = lost \cup {wire[i].event : i \in {j \in k + 1 .. Len(wire) : wire[j].kind = "event"}}
  BY DEF LinkDown
<1>4. \A i \in k + 1 .. Len(wire) : wire[i].event \in 1 .. length
  <2>1. Len(wire) \in Nat
    BY LenProperties DEF TypeInv, HoleInv, HoleTypes
  <2>2. \A i \in k + 1 .. Len(wire) : i \in 1 .. Len(wire)
    BY <2>1
  <2> QED
    BY <2>2 DEF TypeInv, HoleInv, OnlyCommitted
<1>5. lost' \subseteq 1 .. length
  BY <1>3, <1>4 DEF TypeInv, CommittedIn
<1> QED
  BY <1>1, <1>2, <1>5, TypesKept DEF TypeInv, CommittedIn

LEMMA TypeNext == TypeInv /\ [Next]_vars => TypeInv'
<1> SUFFICES ASSUME TypeInv, [Next]_vars PROVE TypeInv'
  OBVIOUS
<1>0. HoleInv'
  BY HoleNext DEF TypeInv
<1>1. ASSUME NEW c \in Connections, MessageSend(c) PROVE TypeInv'
  <2>1. /\ length' = length + 1 /\ commands < MaxCommands /\ commands' = commands + 1
        /\ sending' = [sending EXCEPT ![c] = length + 1]
        /\ UNCHANGED <<publishes, link, breaks, lost, seen, got, page, cast>>
    BY <1>1 DEF MessageSend, Asks, redis, memory, client
  <2>2. Counters'
    BY <2>1, FanoutAssumption DEF TypeInv, Counters
  <2>3. \A d \in Connections : sending'[d] = sending[d] \/ sending'[d] = length + 1
    BY <2>1 DEF TypeInv, HoleInv, HoleTypes
  <2> QED
    BY <1>0, <2>1, <2>2, <2>3, CommitTypes
<1>2. CASE CommitElsewhere
  <2>1. Counters'
    BY <1>2 DEF TypeInv, Counters, CommitElsewhere, redis, bounds
  <2> QED
    BY <1>0, <1>2, <2>1, CommitTypes DEF CommitElsewhere, handler, redis, memory, client
<1>3. ASSUME NEW n \in Events, PublishEvent(n) PROVE TypeInv'
  BY <1>0, <1>3, PublishEventTypes
<1>4. \/ \E c \in Connections : MessageSend(c) \/ Handle(c)
      \/ CommitElsewhere \/ Listen \/ LinkDown
      \/ \E n \in Events : PublishEvent(n)
      \/ LinkUp \/ UNCHANGED vars \/ (\E n \in Events : NotifyElsewhere(n))
      \/ \E c \in Connections : Subscribe(c) \/ Unsubscribe(c) \/ HangUp(c) \/ HandlerEnds(c)
  BY DEF Next, Command
<1> QED
  BY <1>0, <1>1, <1>2, <1>3, <1>4, HandleTypes, ListenTypes, LinkDownTypes, OtherTypes

(***************************************************************************)
(* The type invariant of the handlers, the manager and the subscriber.     *)
(***************************************************************************)
THEOREM FanoutTypeCorrect == Spec => []TypeOK
<1>1. TypeInv /\ BoundInv => TypeOK
  <2> SUFFICES ASSUME TypeInv, BoundInv PROVE TypeOK
    OBVIOUS
  <2>1. HoleTypes /\ OnlyCommitted /\ CommittedIn /\ Counters /\ Remembered
    BY DEF TypeInv, BoundInv, HoleInv
  <2>2. length \in Nat /\ length <= MaxEvents /\ MaxEvents \in Nat
    BY <2>1, FanoutAssumption DEF HoleTypes, OnlyCommitted
  <2>3. \A c \in Connections : /\ sending[c] \in 0 .. length /\ since[c] \in 0 .. length
                               /\ upto[c] \in 0 .. length /\ got[c] \in SUBSET (1 .. length)
    BY <2>1, <2>2 DEF HoleTypes, OnlyCommitted, CommittedIn
  <2>4. /\ sending \in [Connections -> 0 .. length] /\ since \in [Connections -> 0 .. length]
        /\ upto \in [Connections -> 0 .. length] /\ got \in [Connections -> SUBSET (1 .. length)]
    BY <2>1, <2>3 DEF HoleTypes
  <2>5. \A c \in Connections : ToSet(page[c]) \subseteq 1 .. length /\ Len(page[c]) <= PageLimit
    BY <2>1, Elements DEF CommittedIn
  <2>6. \A s \in Sources : /\ cast[s].kind \in Kinds /\ cast[s].event \in 0 .. length
                           /\ cast[s].left \cup cast[s].stale \subseteq Connections
    <3>1. \A s \in Sources : cast[s].event \in 0 .. length
      BY <2>1, <2>2 DEF CommittedIn, NoCast
    <3> QED
      BY <2>1, <3>1 DEF HoleTypes, Casts
  <2>7. ToSet(seen) \subseteq 1 .. length /\ Len(seen) <= SeenCapacity
    BY <2>1, Elements DEF CommittedIn, Remembered
  <2>8. \A m \in ToSet(wire) : m.kind \in Kinds /\ m.event \in 1 .. length /\ m.origin \in Origins
    <3> SUFFICES ASSUME NEW m \in ToSet(wire)
                 PROVE  m.kind \in Kinds /\ m.event \in 1 .. length /\ m.origin \in Origins
      OBVIOUS
    <3>1. wire \in Seq(Messages) /\ DOMAIN wire = 1 .. Len(wire)
      BY <2>1 DEF HoleTypes
    <3>2. PICK i \in 1 .. Len(wire) : wire[i] = m
      BY <3>1 DEF ToSet
    <3>3. wire[i] \in Messages /\ wire[i].event \in 1 .. length
      BY <2>1, <3>1, <3>2 DEF OnlyCommitted
    <3> QED
      BY <3>2, <3>3 DEF Messages
  <2>9. length \in 0 .. MaxEvents
    BY <2>2
  <2> QED
    BY <2>1, <2>4, <2>5, <2>6, <2>7, <2>8, <2>9
    DEF TypeOK, HoleTypes, OnlyCommitted, CommittedIn, Counters
<1>2. Spec => []TypeInv
  BY TypeInit, TypeNext, PTL DEF Spec
<1> QED
  BY <1>1, <1>2, BoundInvariance, PTL
=============================================================================
