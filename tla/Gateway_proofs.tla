--------------------------- MODULE Gateway_proofs ---------------------------
(***************************************************************************)
(* Proofs about Gateway, for any number of calls, ids and connections: an  *)
(* entry of pendingRequests always stands for a call that waits, and what  *)
(* a call is told agrees with what the API did.                            *)
(***************************************************************************)
EXTENDS Gateway, SequenceTheorems, TLAPS

Shaped ==
  /\ DOMAIN id = Calls /\ DOMAIN stream = Calls
  /\ verdict \in [Calls -> {"none", "done", "refused"}]
\* A verdict is given once: to a call that was sent, at the end of its stream.
Served ==
  \A c \in Calls :
    /\ promise[c] = "none" => stream[c] = "none"
    /\ promise[c] # "none" => id[c] \in Ids
    /\ stream[c] = "none" => reply[c] = "none" /\ c \notin reading
    /\ verdict[c] # "none" => stream[c] = "closed"
\* A frame that answers says what the API did.
ReplyTrue ==
  \A c \in Calls :
    /\ reply[c] = "ack" => verdict[c] = "done"
    /\ reply[c] = "refusal" => verdict[c] = "refused"
IInv == GatewayTypeOK /\ Shaped /\ Served /\ ReplyTrue /\ AnswersTrue

LEMMA InitHolds == Init => IInv
<1> SUFFICES ASSUME Init PROVE IInv
  OBVIOUS
<1>1. GatewayTypeOK
  BY GatewayAssumption DEF Init, GatewayTypeOK
<1> QED
  BY <1>1 DEF Init, IInv, Shaped, Served, ReplyTrue, AnswersTrue, SameId

(* Steps that concern neither answers nor calls.                           *)
LEMMA Unrelated ==
  ASSUME IInv, UNCHANGED <<promise, id, stream, verdict, reply, reading>>
  PROVE  Shaped' /\ Served' /\ ReplyTrue' /\ AnswersTrue'
BY DEF IInv, Shaped, Served, ReplyTrue, AnswersTrue, SameId

LEMMA Down ==
  ASSUME NEW x \in [kind : {"webtransport", "websocket", "sse"}, up : BOOLEAN]
  PROVE  [x EXCEPT !.up = FALSE] \in [kind : {"webtransport", "websocket", "sse"}, up : BOOLEAN]
OBVIOUS

LEMMA Connections ==
  ASSUME IInv, NEW n \in DOMAIN connections
  PROVE  LET s == [connections EXCEPT ![n].up = FALSE] IN
         /\ s \in Seq([kind : {"webtransport", "websocket", "sse"}, up : BOOLEAN])
         /\ Len(s) = Len(connections)
<1> DEFINE T == [kind : {"webtransport", "websocket", "sse"}, up : BOOLEAN]
           v == [connections[n] EXCEPT !.up = FALSE]
<1>1. connections \in Seq(T) /\ n \in 1 .. Len(connections)
  BY DEF IInv, GatewayTypeOK
<1>2. connections[n] \in T
  <2> HIDE DEF T, v
  <2> QED
    BY <1>1, ElementOfSeq
<1>3. v \in T
  BY <1>2, Down
<1>4. /\ [connections EXCEPT ![n] = v] \in Seq(T)
      /\ Len([connections EXCEPT ![n] = v]) = Len(connections)
  <2> HIDE DEF T, v
  <2> QED
    BY <1>1, <1>3, ExceptSeq
<1> QED
  BY <1>4

LEMMA ConnectKeeps == ASSUME IInv, Connect PROVE IInv'
<1>1. GatewayTypeOK'
  BY GatewayAssumption DEF IInv, GatewayTypeOK, Connect, gateway, api
<1> QED
  BY <1>1, Unrelated DEF Connect, gateway, api, IInv

LEMMA CandidateConnectsKeeps == ASSUME IInv, CandidateConnects PROVE IInv'
<1> DEFINE T == [kind : {"webtransport", "websocket", "sse"}, up : BOOLEAN]
           e == [kind |-> Preferred[trying], up |-> TRUE]
<1>1. e \in T
  BY GatewayAssumption DEF IInv, GatewayTypeOK, CandidateConnects
<1>2. connections \in Seq(T)
  BY DEF IInv, GatewayTypeOK
<1>3. Append(connections, e) \in Seq(T) /\ Len(Append(connections, e)) = Len(connections) + 1
  <2> HIDE DEF T, e
  <2> QED
    BY <1>1, <1>2
<1>4. connections' \in Seq(T) /\ Len(connections') = Len(connections) + 1
  BY <1>3 DEF CandidateConnects
<1>5. GatewayTypeOK'
  BY <1>4, GatewayAssumption DEF IInv, GatewayTypeOK, CandidateConnects, gateway, api
<1> QED
  BY <1>5, Unrelated DEF CandidateConnects, gateway, api, IInv

LEMMA CandidateFailsKeeps == ASSUME IInv, CandidateFails PROVE IInv'
<1>1. GatewayTypeOK'
  BY GatewayAssumption DEF IInv, GatewayTypeOK, CandidateFails, gateway, api
<1> QED
  BY <1>1, Unrelated DEF CandidateFails, gateway, api, IInv

LEMMA LostKeeps ==
  ASSUME IInv, NEW n \in DOMAIN connections, Lost(n) PROVE IInv'
<1>1. GatewayTypeOK'
  BY Connections DEF IInv, GatewayTypeOK, Lost, gateway, api
<1> QED
  BY <1>1, Unrelated DEF Lost, gateway, api, IInv

LEMMA AcceptKeeps ==
  ASSUME IInv, NEW n \in DOMAIN connections, Accept(n) PROVE IInv'
<1>1. \/ connections' = connections
      \/ connections' = [connections EXCEPT ![n].up = FALSE]
  BY DEF Accept
<1>2. GatewayTypeOK'
  BY <1>1, Connections DEF IInv, GatewayTypeOK, Accept, api
<1> QED
  BY <1>2, Unrelated DEF Accept, api, IInv

LEMMA QuietKeeps ==
  ASSUME IInv,
         \/ \E n \in DOMAIN connections : Expire(n)
         \/ Deactivate
  PROVE  IInv'
<1>1. UNCHANGED <<client, stream, cut, carry, shape, reply, verdict>>
  BY DEF Expire, Deactivate, gateway, api
<1>2. GatewayTypeOK'
  BY <1>1 DEF IInv, GatewayTypeOK, client
<1> QED
  BY <1>1, <1>2, Unrelated DEF client, IInv

LEMMA CloseKeeps == ASSUME IInv, Close PROVE IInv'
<1>1. transport \in DOMAIN connections
  BY DEF IInv, GatewayTypeOK, Close
<1>2. /\ connections' \in Seq([kind : {"webtransport", "websocket", "sse"}, up : BOOLEAN])
      /\ Len(connections') = Len(connections)
  BY <1>1, Connections DEF Close
<1>3. GatewayTypeOK'
  BY <1>2, GatewayAssumption DEF IInv, GatewayTypeOK, Close, gateway, api
<1>4. \A c \in Calls : promise'[c] = promise[c] \/ promise'[c] = "rejected"
  BY DEF IInv, GatewayTypeOK, Close
<1>5. Shaped' /\ Served' /\ ReplyTrue' /\ AnswersTrue'
  BY <1>4 DEF IInv, Shaped, Served, ReplyTrue, AnswersTrue, SameId, Close, gateway, api,
     GatewayTypeOK
<1> QED
  BY <1>3, <1>5 DEF IInv

LEMMA RequestKeeps ==
  ASSUME IInv, NEW c \in Calls, NEW i \in Ids, Request(c, i) PROVE IInv'
<1>1. GatewayTypeOK'
  <2>1. /\ pending' \in [Ids -> Calls \cup {None}]
        /\ promise' \in [Calls -> {"none", "thrown", "waiting", "resolved", "refused", "rejected"}]
    BY DEF IInv, GatewayTypeOK, Request
  <2>2. timers' = {d \in Calls : promise'[d] = "waiting"}
    BY DEF IInv, GatewayTypeOK, Request
  <2>3. c \notin timers
    BY DEF IInv, GatewayTypeOK, Request
  <2>4. \A j \in Ids : pending'[j] # None => id'[pending'[j]] = j /\ pending'[j] \in timers'
    <3> SUFFICES ASSUME NEW j \in Ids, pending'[j] # None
                 PROVE  id'[pending'[j]] = j /\ pending'[j] \in timers'
      OBVIOUS
    <3>1. CASE j # i
      <4>1. pending'[j] = pending[j]
        BY <3>1 DEF IInv, GatewayTypeOK, Request
      <4>2. id[pending[j]] = j /\ pending[j] \in timers
        BY <4>1 DEF IInv, GatewayTypeOK
      <4>3. id'[pending[j]] = j /\ pending[j] \in timers'
        BY <2>3, <4>2 DEF IInv, GatewayTypeOK, Shaped, Request
      <4> QED
        BY <4>1, <4>3
    <3>2. CASE j = i
      BY <3>2 DEF IInv, GatewayTypeOK, Shaped, Request
    <3> QED
      BY <3>1, <3>2
  <2> QED
    BY <2>1, <2>2, <2>4 DEF IInv, GatewayTypeOK, Request, api
<1>2. promise[c] = "none" /\ verdict[c] = "none" /\ stream[c] = "none"
  BY DEF IInv, Served, Request
<1>3. /\ \A d \in Calls \ {c} : id'[d] = id[d] /\ promise'[d] = promise[d]
                                  /\ stream'[d] = stream[d]
      /\ promise'[c] \in {"thrown", "waiting"}
      /\ verdict' = verdict /\ reply' = reply
  BY DEF IInv, GatewayTypeOK, Shaped, Request, api
<1>4. Shaped' /\ Served' /\ ReplyTrue'
  BY <1>2, <1>3 DEF IInv, Shaped, Served, ReplyTrue, Request, api
<1>5. AnswersTrue'
  <2> SUFFICES ASSUME NEW d \in Calls
      PROVE  /\ promise'[d] = "resolved" => \E e \in SameId(d)' : verdict'[e] = "done"
             /\ promise'[d] = "refused" => \E e \in SameId(d)' : verdict'[e] = "refused"
    BY DEF AnswersTrue
  <2>1. CASE d = c
    BY <1>3, <2>1
  <2>2. CASE d # c
    <3>1. \A e \in SameId(d) : verdict[e] # "none" => e \in SameId(d)'
      BY <1>2, <1>3, <2>2 DEF SameId
    <3> QED
      BY <1>3, <2>2, <3>1 DEF IInv, AnswersTrue, SameId
  <2> QED
    BY <2>1, <2>2
<1> QED
  BY <1>1, <1>4, <1>5 DEF IInv

LEMMA TimeoutKeeps == ASSUME IInv, NEW c \in Calls, Timeout(c) PROVE IInv'
<1>1. GatewayTypeOK'
  <2>1. /\ pending' \in [Ids -> Calls \cup {None}]
        /\ promise' \in [Calls -> {"none", "thrown", "waiting", "resolved", "refused", "rejected"}]
    BY DEF IInv, GatewayTypeOK, Timeout
  <2>2. timers' = {d \in Calls : promise'[d] = "waiting"}
    BY DEF IInv, GatewayTypeOK, Timeout
  <2>3. \A j \in Ids : pending'[j] # None => id'[pending'[j]] = j /\ pending'[j] \in timers'
    <3> SUFFICES ASSUME NEW j \in Ids, pending'[j] # None
                 PROVE  id'[pending'[j]] = j /\ pending'[j] \in timers'
      OBVIOUS
    <3>1. j # id[c] /\ pending'[j] = pending[j]
      BY DEF IInv, GatewayTypeOK, Timeout
    <3>2. id[pending[j]] = j /\ pending[j] \in timers
      BY <3>1 DEF IInv, GatewayTypeOK
    <3>3. pending[j] # c
      BY <3>1, <3>2
    <3> QED
      BY <3>1, <3>2, <3>3 DEF Timeout
  <2> QED
    BY <2>1, <2>2, <2>3 DEF IInv, GatewayTypeOK, Timeout, gateway, api
<1>2. Shaped' /\ Served' /\ ReplyTrue' /\ AnswersTrue'
  BY DEF IInv, GatewayTypeOK, Shaped, Served, ReplyTrue, AnswersTrue, SameId, Timeout,
     gateway, api
<1> QED
  BY <1>1, <1>2 DEF IInv

(* A frame settles at most the call its id stands for.                     *)
LEMMA SettleSteps ==
  ASSUME IInv, NEW i \in Ids, NEW how \in {"resolved", "refused", "rejected"},
         Settle(i, how)
  PROVE  /\ pending' \in [Ids -> Calls \cup {None}]
         /\ promise' \in [Calls -> {"none", "thrown", "waiting", "resolved", "refused", "rejected"}]
         /\ timers' = {c \in Calls : promise'[c] = "waiting"}
         /\ \A j \in Ids : pending'[j] # None => id[pending'[j]] = j /\ pending'[j] \in timers'
         /\ \A d \in Calls : \/ promise'[d] = promise[d]
                             \/ promise'[d] = how /\ id[d] = i /\ promise[d] = "waiting"
BY GatewayAssumption DEF IInv, GatewayTypeOK, Settle

LEMMA DeliverKeeps == ASSUME IInv, NEW c \in Calls, Deliver(c) PROVE IInv'
<1> DEFINE how == CASE reply[c] = "ack" -> "resolved"
                    [] reply[c] = "refusal" -> "refused"
                    [] OTHER -> "rejected"
<1>1. how \in {"resolved", "refused", "rejected"} /\ id[c] \in Ids
  BY DEF Deliver, IInv, Served
<1>2. Settle(id[c], how)
  BY DEF Deliver
<1>3. /\ how = "resolved" => verdict[c] = "done"
      /\ how = "refused" => verdict[c] = "refused"
  BY DEF IInv, ReplyTrue
<1> HIDE DEF how
<1>4. GatewayTypeOK'
  BY <1>1, <1>2, SettleSteps DEF Deliver, IInv, GatewayTypeOK, api
<1>5. Shaped' /\ Served' /\ ReplyTrue'
  BY <1>1, <1>2, SettleSteps
  DEF Deliver, IInv, GatewayTypeOK, Shaped, Served, ReplyTrue, api
<1>6. AnswersTrue'
  BY <1>1, <1>2, <1>3, SettleSteps DEF Deliver, IInv, AnswersTrue, SameId, api
<1> QED
  BY <1>4, <1>5, <1>6 DEF IInv

LEMMA StreamFailsKeeps ==
  ASSUME IInv, NEW c \in Calls, StreamFails(c) PROVE IInv'
<1>1. Settle(id[c], "rejected") /\ id[c] \in Ids
  BY DEF StreamFails, IInv, Served
<1>2. GatewayTypeOK'
  BY <1>1, SettleSteps DEF StreamFails, IInv, GatewayTypeOK, gateway, api
<1>3. Shaped' /\ Served' /\ ReplyTrue'
  BY <1>1, SettleSteps
  DEF StreamFails, IInv, GatewayTypeOK, Shaped, Served, ReplyTrue, gateway, api
<1>4. AnswersTrue'
  BY <1>1, SettleSteps DEF StreamFails, IInv, AnswersTrue, SameId, gateway, api
<1> QED
  BY <1>2, <1>3, <1>4 DEF IInv

(* The gateway's and the API's steps change no promise.                    *)
LEMMA ServeKeeps ==
  ASSUME IInv, NEW c \in Calls,
         UNCHANGED client,
         stream[c] # "none", stream[c] # "closed",
         \E s \in {"open", "half", "line", "closed"} : stream' = [stream EXCEPT ![c] = s],
         carry' \in cut' \cup {None},
         \/ UNCHANGED <<verdict, reply>>
         \/ /\ stream'[c] = "closed"
            /\ \E v \in {"none", "done", "refused"}, r \in {"ack", "refusal", "relay_failed"} :
                 /\ verdict' = [verdict EXCEPT ![c] = v]
                 /\ reply' = [reply EXCEPT ![c] = r]
                 /\ r = "ack" => v = "done"
                 /\ r = "refusal" => v = "refused"
  PROVE  IInv'
<1>1. GatewayTypeOK'
  BY DEF IInv, GatewayTypeOK, client
<1>2. verdict[c] = "none" /\ promise[c] # "none"
  BY DEF IInv, Served
<1>3. Shaped' /\ Served' /\ ReplyTrue'
  BY <1>2 DEF IInv, Shaped, Served, ReplyTrue, GatewayTypeOK, client
<1>4. \A d \in Calls : verdict[d] # "none" => verdict'[d] = verdict[d]
  BY <1>2 DEF IInv, Shaped
<1>5. AnswersTrue'
  BY <1>4 DEF IInv, AnswersTrue, SameId, client
<1> QED
  BY <1>1, <1>3, <1>5 DEF IInv

LEMMA OpenStreamKeeps == ASSUME IInv, NEW c \in Calls, OpenStream(c) PROVE IInv'
<1>1. \E s \in {"open", "closed"} : stream' = [stream EXCEPT ![c] = s]
  BY DEF OpenStream
<1>2. carry' \in cut' \cup {None}
  BY DEF OpenStream, IInv, GatewayTypeOK
<1> QED
  BY <1>1, <1>2, ServeKeeps DEF OpenStream, api

LEMMA ChunksKeep ==
  ASSUME IInv, NEW c \in Calls, FirstChunk(c) \/ SecondChunk(c) PROVE IInv'
<1>1. \E s \in {"half", "line"} : stream' = [stream EXCEPT ![c] = s]
  BY DEF FirstChunk, SecondChunk
<1>2. carry' \in cut' \cup {None}
  BY DEF FirstChunk, SecondChunk
<1> QED
  BY <1>1, <1>2, ServeKeeps DEF FirstChunk, SecondChunk, api

LEMMA RejectLineKeeps == ASSUME IInv, NEW c \in Calls, RejectLine(c) PROVE IInv'
<1>1. carry' \in cut' \cup {None}
  BY DEF RejectLine, IInv, GatewayTypeOK
<1> QED
  BY <1>1, ServeKeeps DEF RejectLine, api

(* What relayCommand or the API itself answers to a command.               *)
LEMMA VerdictSteps ==
  ASSUME IInv, NEW c \in Calls, RelayCommand(c) \/ HandleDirectly(c)
  PROVE  \E v \in {"none", "done", "refused"}, r \in {"ack", "refusal", "relay_failed"} :
           /\ verdict' = [verdict EXCEPT ![c] = v]
           /\ reply' = [reply EXCEPT ![c] = r]
           /\ r = "ack" => v = "done"
           /\ r = "refusal" => v = "refused"
<1>1. verdict[c] = "none" /\ verdict = [verdict EXCEPT ![c] = "none"]
  BY DEF RelayCommand, HandleDirectly, IInv, Served, Shaped
<1>2. CASE /\ verdict' = [verdict EXCEPT ![c] = "done"]
           /\ \E frame \in {"ack", "relay_failed"} : reply' = [reply EXCEPT ![c] = frame]
  BY <1>2
<1>3. CASE /\ verdict' = [verdict EXCEPT ![c] = "refused"]
           /\ reply' = [reply EXCEPT ![c] = "refusal"]
  BY <1>3
<1>4. CASE verdict' = verdict /\ reply' = [reply EXCEPT ![c] = "relay_failed"]
  BY <1>1, <1>4
<1> QED
  BY <1>2, <1>3, <1>4 DEF RelayCommand, HandleDirectly

LEMMA VerdictKeeps ==
  ASSUME IInv, NEW c \in Calls, RelayCommand(c) \/ HandleDirectly(c) PROVE IInv'
<1>1. carry' \in cut' \cup {None} /\ stream' = [stream EXCEPT ![c] = "closed"]
  BY DEF RelayCommand, HandleDirectly, IInv, GatewayTypeOK
<1>2. stream'[c] = "closed"
  BY <1>1 DEF IInv, Shaped
<1>3. UNCHANGED client /\ stream[c] # "none" /\ stream[c] # "closed"
  BY DEF RelayCommand, HandleDirectly
<1> QED
  BY <1>1, <1>2, <1>3, VerdictSteps, ServeKeeps

-----------------------------------------------------------------------------
LEMMA StepHolds == IInv /\ [Next]_vars => IInv'
<1> SUFFICES ASSUME IInv, [Next]_vars PROVE IInv'
  OBVIOUS
<1>1. CASE UNCHANGED vars
  <2>1. GatewayTypeOK'
    BY <1>1 DEF vars, IInv, GatewayTypeOK
  <2> QED
    BY <1>1, <2>1, Unrelated DEF vars, IInv
<1>2. CASE Connect \/ CandidateConnects \/ CandidateFails \/ Close \/ Deactivate
  BY <1>2, ConnectKeeps, CandidateConnectsKeeps, CandidateFailsKeeps, CloseKeeps, QuietKeeps
<1>3. ASSUME NEW n \in DOMAIN connections, Lost(n) \/ Accept(n) \/ Expire(n)
      PROVE  IInv'
  BY <1>3, LostKeeps, AcceptKeeps, QuietKeeps
<1>4. ASSUME NEW c \in Calls, Call(c)
      PROVE  IInv'
  BY <1>4, RequestKeeps, TimeoutKeeps, DeliverKeeps, StreamFailsKeeps, OpenStreamKeeps,
     ChunksKeep, RejectLineKeeps, VerdictKeeps DEF Call
<1> QED
  BY <1>1, <1>2, <1>3, <1>4 DEF Next

(***************************************************************************)
(* An entry of pendingRequests stands for a call that waits, with its      *)
(* timer set, under its own id: settling it can settle no other call.      *)
(***************************************************************************)
THEOREM EntriesWait == Spec => []GatewayTypeOK
<1>1. IInv => GatewayTypeOK
  BY DEF IInv
<1> QED
  BY <1>1, InitHolds, StepHolds, PTL DEF Spec

(***************************************************************************)
(* A call is told that it succeeded, or that it was refused, only if the   *)
(* API decided so about a command with its id.                             *)
(***************************************************************************)
THEOREM AnswersAreTrue == Spec => []AnswersTrue
<1>1. IInv => AnswersTrue
  BY DEF IInv
<1> QED
  BY <1>1, InitHolds, StepHolds, PTL DEF Spec

-----------------------------------------------------------------------------
(***************************************************************************)
(* What the shared decoder does to lines.  A stream that waits for the     *)
(* rest of a character has been cut, and if the decoder holds its          *)
(* beginning no more, another stream was served since.                     *)
(***************************************************************************)
Reached(d) == stream[d] \notin {"none", "sent"}
HalfKept ==
  \A c \in Calls : stream[c] = "half" =>
    /\ c \in cut
    /\ carry = c \/ \E d \in Calls \ {c} : Reached(d)
LineInv ==
  /\ DOMAIN stream = Calls /\ DOMAIN shape = Calls
  /\ carry \in cut \cup {None}
  /\ \A c \in cut : c \in Calls /\ stream[c] \in {"half", "line", "closed"}
  /\ HalfKept /\ RelayedAsSent

LEMMA LineInit == Init => LineInv
BY DEF Init, LineInv, HalfKept, RelayedAsSent

(* No chunk arrives; what the decoder holds may be flushed by a stream     *)
(* other than those that wait.                                             *)
LEMMA NoChunk ==
  ASSUME LineInv, UNCHANGED <<cut, shape>>, DOMAIN stream' = Calls,
         carry' = carry \/ carry' = None,
         \A c \in Calls : \/ stream'[c] = stream[c]
                          \/ stream[c] \in {"none", "sent"} /\ stream'[c] # "half"
                          \/ stream'[c] = "closed",
         carry' # carry => \E d \in Calls : stream[d] = "line"
  PROVE  LineInv'
<1>1. \A c \in Calls : Reached(c) => Reached(c)'
  BY DEF LineInv, Reached
<1>2. HalfKept'
  BY <1>1 DEF LineInv, HalfKept, Reached
<1>3. \A c \in cut' : c \in Calls /\ stream'[c] \in {"half", "line", "closed"}
  BY DEF LineInv
<1>4. RelayedAsSent'
  BY <1>1 DEF LineInv, RelayedAsSent, Reached
<1> QED
  BY <1>2, <1>3, <1>4 DEF LineInv

LEMMA FirstChunkLine == ASSUME LineInv, NEW c \in Calls, FirstChunk(c) PROVE LineInv'
<1>1. /\ stream[c] = "open" /\ cut \subseteq cut'
      /\ shape' = [shape EXCEPT ![c] = IF carry = None THEN "clean" ELSE "invalid"]
      /\ \/ stream' = [stream EXCEPT ![c] = "line"] /\ carry' = None /\ cut' = cut
         \/ stream' = [stream EXCEPT ![c] = "half"] /\ carry' = c /\ cut' = cut \cup {c}
  BY DEF FirstChunk
<1>2. /\ \A d \in Calls \ {c} : stream'[d] = stream[d] /\ shape'[d] = shape[d]
      /\ stream'[c] \in {"line", "half"} /\ c \notin cut
      /\ shape'[c] = IF carry = None THEN "clean" ELSE "invalid"
  BY <1>1 DEF LineInv
<1>3. \A d \in Calls : Reached(d) => Reached(d)'
  BY <1>1, <1>2 DEF Reached
<1>4. Reached(c)'
  BY <1>2 DEF Reached
<1>5. HalfKept'
  <2> SUFFICES ASSUME NEW d \in Calls, stream'[d] = "half"
               PROVE  /\ d \in cut'
                      /\ carry' = d \/ \E e \in Calls \ {d} : Reached(e)'
    BY DEF HalfKept
  <2>1. CASE d = c
    BY <1>1, <2>1 DEF LineInv
  <2>2. CASE d # c
    BY <1>1, <1>2, <1>4, <2>2 DEF LineInv, HalfKept
  <2> QED
    BY <2>1, <2>2
<1>6. RelayedAsSent'
  <2> SUFFICES ASSUME NEW d \in Calls, shape'[d] # "clean"
               PROVE  \E e \in Calls \ {d} :
                        Reached(e)' /\ (IF shape'[d] = "invalid" THEN e ELSE d) \in cut'
    BY DEF RelayedAsSent, Reached
  <2>1. CASE d = c
    <3>1. carry # None /\ shape'[d] = "invalid"
      BY <1>2, <2>1
    <3>2. carry \in cut /\ carry \in Calls \ {c} /\ Reached(carry)
      BY <1>2, <3>1 DEF LineInv, Reached
    <3> QED
      BY <1>1, <1>3, <2>1, <3>1, <3>2
  <2>2. CASE d # c
    <3>1. PICK e \in Calls \ {d} :
            Reached(e) /\ (IF shape[d] = "invalid" THEN e ELSE d) \in cut
      BY <1>2, <2>2 DEF LineInv, RelayedAsSent, Reached
    <3> QED
      BY <1>1, <1>2, <1>3, <2>2, <3>1
  <2> QED
    BY <2>1, <2>2
<1>7. DOMAIN stream' = Calls /\ DOMAIN shape' = Calls /\ carry' \in cut' \cup {None}
  BY <1>1 DEF LineInv
<1>8. \A d \in cut' : d \in Calls /\ stream'[d] \in {"half", "line", "closed"}
  BY <1>1, <1>2 DEF LineInv
<1> QED
  BY <1>5, <1>6, <1>7, <1>8 DEF LineInv

LEMMA SecondChunkLine == ASSUME LineInv, NEW c \in Calls, SecondChunk(c) PROVE LineInv'
<1>1. /\ stream[c] = "half" /\ stream' = [stream EXCEPT ![c] = "line"]
      /\ carry' = None /\ cut' = cut
      /\ shape' = [shape EXCEPT ![c] = IF shape[c] = "invalid" THEN "invalid" ELSE Completed(c)]
  BY DEF SecondChunk
<1>2. /\ \A d \in Calls \ {c} : stream'[d] = stream[d] /\ shape'[d] = shape[d]
      /\ stream'[c] = "line"
      /\ shape'[c] = shape[c] \/ (shape'[c] = "garbled" /\ carry # c)
  BY <1>1 DEF LineInv, Completed
<1>3. \A d \in Calls : Reached(d) => Reached(d)'
  BY <1>2 DEF Reached
<1>4. Reached(c)'
  BY <1>2 DEF Reached
<1>5. HalfKept'
  BY <1>1, <1>2, <1>4 DEF LineInv, HalfKept
<1>6. RelayedAsSent'
  <2> SUFFICES ASSUME NEW d \in Calls, shape'[d] # "clean"
               PROVE  \E e \in Calls \ {d} :
                        Reached(e)' /\ (IF shape'[d] = "invalid" THEN e ELSE d) \in cut'
    BY DEF RelayedAsSent, Reached
  <2>1. CASE shape'[d] = shape[d]
    <3>1. PICK e \in Calls \ {d} :
            Reached(e) /\ (IF shape[d] = "invalid" THEN e ELSE d) \in cut
      BY <2>1 DEF LineInv, RelayedAsSent, Reached
    <3> QED
      BY <1>1, <1>3, <2>1, <3>1
  <2>2. CASE shape'[d] # shape[d]
    <3>1. d = c /\ shape'[c] = "garbled" /\ carry # c
      BY <1>2, <2>2
    <3>2. c \in cut /\ \E e \in Calls \ {c} : Reached(e)
      BY <1>1, <3>1 DEF LineInv, HalfKept
    <3> QED
      BY <1>1, <1>3, <3>1, <3>2
  <2> QED
    BY <2>1, <2>2
<1>7. DOMAIN stream' = Calls /\ DOMAIN shape' = Calls /\ carry' \in cut' \cup {None}
  BY <1>1 DEF LineInv
<1>8. \A d \in cut' : d \in Calls /\ stream'[d] \in {"half", "line", "closed"}
  BY <1>1, <1>2 DEF LineInv
<1> QED
  BY <1>5, <1>6, <1>7, <1>8 DEF LineInv

LEMMA LineStep == IInv /\ LineInv /\ [Next]_vars => LineInv'
<1> SUFFICES ASSUME IInv, LineInv, [Next]_vars PROVE LineInv'
  OBVIOUS
<1> USE DEF client, gateway, api
<1>1. CASE \/ UNCHANGED vars
           \/ Connect \/ CandidateConnects \/ CandidateFails \/ Close \/ Deactivate
           \/ \E n \in DOMAIN connections : Lost(n) \/ Accept(n) \/ Expire(n)
           \/ \E c \in Calls : Timeout(c) \/ Deliver(c) \/ StreamFails(c)
  <2>1. UNCHANGED <<stream, cut, carry, shape>>
    BY <1>1
    DEF vars, Connect, CandidateConnects, CandidateFails, Close, Deactivate, Lost, Accept,
        Expire, Timeout, Deliver, StreamFails
  <2> QED
    BY <2>1, NoChunk DEF LineInv
<1>2. ASSUME NEW c \in Calls, NEW i \in Ids, Request(c, i) PROVE LineInv'
  <2>1. UNCHANGED <<cut, carry, shape>>
    BY <1>2 DEF Request
  <2>2. CASE stream' = stream
    BY <2>1, <2>2, NoChunk DEF LineInv
  <2>3. CASE stream' = [stream EXCEPT ![c] = "sent"] /\ stream[c] = "none"
    BY <2>1, <2>3, NoChunk DEF LineInv
  <2> QED
    BY <1>2, <2>2, <2>3 DEF Request, IInv, Served
<1>3. ASSUME NEW c \in Calls, OpenStream(c) PROVE LineInv'
  BY <1>3, NoChunk DEF OpenStream, LineInv
<1>4. ASSUME NEW c \in Calls, FirstChunk(c) \/ SecondChunk(c) PROVE LineInv'
  BY <1>4, FirstChunkLine, SecondChunkLine
<1>5. ASSUME NEW c \in Calls, RejectLine(c) \/ RelayCommand(c) \/ HandleDirectly(c)
      PROVE  LineInv'
  BY <1>5, NoChunk DEF RejectLine, RelayCommand, HandleDirectly, LineInv
<1> QED
  BY <1>1, <1>2, <1>3, <1>4, <1>5 DEF Next, Call

(***************************************************************************)
(* The API gets the line the client wrote, unless the gateway served       *)
(* another stream and a line was cut within a character.                   *)
(***************************************************************************)
THEOREM LinesRelayedAsSent == Spec => []RelayedAsSent
<1>1. IInv /\ LineInv => RelayedAsSent
  BY DEF LineInv
<1> QED
  BY <1>1, InitHolds, StepHolds, LineInit, LineStep, PTL DEF Spec
=============================================================================
