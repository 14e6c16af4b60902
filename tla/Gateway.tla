------------------------------- MODULE Gateway -------------------------------
(***************************************************************************)
(* Commands of one client of the JavaScript SDK (packages/sdk-js), sent    *)
(* over a WebSocket or, one stream per command, through the WebTransport   *)
(* gateway (gateways/webtransport/src/server.js) to the API.               *)
(*                                                                         *)
(* A call is one use of OpenChatRelayClient.request.  Its answer is found  *)
(* by request id, which the caller may choose: a retry can carry the id of *)
(* the call it repeats.  What the API does with a command is the subject   *)
(* of Api and Fanout; here it is done, refused or never reached.           *)
(***************************************************************************)
EXTENDS Integers, Sequences

CONSTANTS Calls,           \* uses of request()
          Ids,             \* request ids
          Preferred,       \* transports the server offers, in its order
          MaxConnections,  \* bound on successful connects
          None             \* no call

ASSUME GatewayAssumption ==
  /\ None \notin Calls /\ MaxConnections \in Nat
  /\ Preferred \in Seq({"webtransport", "websocket", "sse"})

VARIABLES
  \* the client
  connections,  \* transports that connected: their kind, and whether they are up
  transport,    \* the one in use, 0 for none
  trying,       \* the candidate connect() is waiting for, 0 when it does not run
  pending,      \* pendingRequests: the call an id stands for
  timers,       \* calls whose timeout is set
  promise,      \* what became of each call
  id,           \* the request id of each call
  reading,      \* calls whose stream, or socket, has not failed the client
  on,           \* the connection each call was sent on
  \* the gateway
  session,      \* session of each connection in GatewaySessionRegistry
  stream,       \* how far the stream of a call is
  cut,          \* calls whose line came in two chunks, cut within a character
  carry,        \* the stream whose incomplete character textDecoder holds
  shape,        \* the line as decoded: "clean", "garbled" or "invalid"
  reply,        \* frame with the call's id that is on its way back
  \* the API
  active,       \* the token is valid and the user active
  verdict       \* what the API did with each command

client == <<connections, transport, trying, pending, timers, promise, id, reading, on>>
gateway == <<session, stream, cut, carry, shape, reply>>
api == <<active, verdict>>
vars == <<connections, transport, trying, pending, timers, promise, id, reading, on,
          session, stream, cut, carry, shape, reply, active, verdict>>

Kind(c) == connections[on[c]].kind
Up(c) == connections[on[c]].up
-----------------------------------------------------------------------------
(* The client.                                                             *)

Init ==
  /\ connections = << >> /\ transport = 0 /\ trying = 0
  /\ pending = [i \in Ids |-> None] /\ timers = {}
  /\ promise = [c \in Calls |-> "none"] /\ reading = {}
  /\ on = [c \in Calls |-> 0] /\ id = [c \in Calls |-> None]
  /\ session = [n \in 1..MaxConnections |-> "none"]
  /\ stream = [c \in Calls |-> "none"] /\ cut = {} /\ carry = None
  /\ shape = [c \in Calls |-> "clean"] /\ reply = [c \in Calls |-> "none"]
  /\ active = TRUE /\ verdict = [c \in Calls |-> "none"]

\* connect(): one candidate after the other; a transport already in use is
\* neither closed nor forgotten before another takes its place.
Connect ==
  /\ trying = 0 /\ Len(connections) < MaxConnections /\ Preferred # << >>
  /\ trying' = 1
  /\ UNCHANGED <<connections, transport, pending, timers, promise, id, reading, on, gateway, api>>

CandidateConnects ==
  /\ trying # 0
  /\ connections' = Append(connections, [kind |-> Preferred[trying], up |-> TRUE])
  /\ transport' = Len(connections) + 1
  /\ trying' = 0
  /\ UNCHANGED <<pending, timers, promise, id, reading, on, gateway, api>>

\* It fails or takes longer than connectTimeoutMs, and is closed.
CandidateFails ==
  /\ trying # 0
  /\ trying' = IF trying < Len(Preferred) THEN trying + 1 ELSE 0
  /\ UNCHANGED <<connections, transport, pending, timers, promise, id, reading, on, gateway, api>>

\* send() throws without a transport, on SSE and on a WebSocket that is down.
Throws ==
  IF transport = 0 THEN TRUE
  ELSE \/ connections[transport].kind = "sse"
       \/ connections[transport].kind = "websocket" /\ ~connections[transport].up

\* The entry is written before the command is sent, and replaces one with the
\* same id; when send() throws, the id stands for no call any more.
Request(c, i) ==
  /\ promise[c] = "none"
  /\ id' = [id EXCEPT ![c] = i]
  /\ \/ /\ Throws
        /\ promise' = [promise EXCEPT ![c] = "thrown"]
        /\ pending' = [pending EXCEPT ![i] = None]
        /\ UNCHANGED <<timers, reading, on, stream>>
     \/ /\ ~Throws
        /\ promise' = [promise EXCEPT ![c] = "waiting"]
        /\ pending' = [pending EXCEPT ![i] = c]
        /\ timers' = timers \cup {c}
        /\ reading' = reading \cup {c}
        /\ on' = [on EXCEPT ![c] = transport]
        /\ stream' = [stream EXCEPT ![c] = "sent"]
  /\ UNCHANGED <<connections, transport, trying, session, cut, carry, shape, reply, api>>

\* Mutant: a frame answers a request, whichever waits.
SettleAny(i, how) ==
  LET waiting == {j \in Ids : pending[j] # None} IN
  IF waiting = {} THEN UNCHANGED <<pending, timers, promise>>
  ELSE LET j == CHOOSE j \in waiting : TRUE IN
       /\ promise' = [promise EXCEPT ![pending[j]] = how]
       /\ timers' = timers \ {pending[j]}
       /\ pending' = [pending EXCEPT ![j] = None]

\* settlePendingRequest: a frame with id i resolves or rejects the call the id
\* stands for, if there is one.
Settle(i, how) ==
  IF pending[i] = None THEN UNCHANGED <<pending, timers, promise>>
  ELSE /\ promise' = [promise EXCEPT ![pending[i]] = how]
       /\ timers' = timers \ {pending[i]}
       /\ pending' = [pending EXCEPT ![i] = None]

\* Mutant: the timer looks its call up by the id.
TimeoutOfEntry(c) ==
  /\ c \in timers
  /\ timers' = timers \ {c}
  /\ pending' = [pending EXCEPT ![id[c]] = None]
  /\ promise' = IF pending[id[c]] = None THEN promise
                ELSE [promise EXCEPT ![pending[id[c]]] = "rejected"]
  /\ UNCHANGED <<connections, transport, trying, id, reading, on, gateway, api>>

\* The timer removes the entry of its id, even one of a later call.
Timeout(c) ==
  /\ c \in timers
  /\ timers' = timers \ {c}
  /\ pending' = [pending EXCEPT ![id[c]] = None]
  /\ promise' = [promise EXCEPT ![c] = "rejected"]
  /\ UNCHANGED <<connections, transport, trying, id, reading, on, gateway, api>>

\* The client hears the frame that answers its command.
Deliver(c) ==
  /\ reply[c] # "none" /\ c \in reading /\ Up(c)
  /\ reply' = [reply EXCEPT ![c] = "none"]
  /\ Settle(id[c], CASE reply[c] = "ack" -> "resolved"
                       [] reply[c] = "refusal" -> "refused"
                       [] OTHER -> "rejected")
  /\ UNCHANGED <<connections, transport, trying, id, reading, on,
                 session, stream, cut, carry, shape, api>>

\* A stream that breaks, or whose lines do not parse, before or after the
\* answer: sendCommandStream makes an error frame with the id of the command.
\* (That a stream read to its end fails no more is not told apart.)
StreamFails(c) ==
  /\ c \in reading /\ Kind(c) = "webtransport"
  /\ reading' = reading \ {c}
  /\ Settle(id[c], "rejected")
  /\ UNCHANGED <<connections, transport, trying, id, on, gateway, api>>

\* close(): every call an id stands for is rejected.
Close ==
  LET entries == {pending[i] : i \in Ids} \ {None} IN
  /\ transport # 0
  /\ connections' = [connections EXCEPT ![transport].up = FALSE]
  /\ transport' = 0
  /\ promise' = [c \in Calls |-> IF c \in entries THEN "rejected" ELSE promise[c]]
  /\ timers' = timers \ entries
  /\ pending' = [i \in Ids |-> None]
  /\ UNCHANGED <<trying, id, reading, on, gateway, api>>

\* A connection is lost; the client is not told.
Lost(n) ==
  /\ connections[n].up
  /\ connections' = [connections EXCEPT ![n].up = FALSE]
  /\ UNCHANGED <<transport, trying, pending, timers, promise, id, reading, on, gateway, api>>
-----------------------------------------------------------------------------
(* The gateway.                                                            *)

\* handleWebTransportSession: the client is connected before its token is
\* looked at.
Accept(n) ==
  /\ connections[n].kind = "webtransport" /\ session[n] = "none"
  /\ IF active
     THEN /\ session' = [session EXCEPT ![n] = "registered"]
          /\ UNCHANGED connections
     ELSE /\ session' = [session EXCEPT ![n] = "gone"]
          /\ connections' = [connections EXCEPT ![n].up = FALSE]
  /\ UNCHANGED <<transport, trying, pending, timers, promise, id, reading, on,
                 stream, cut, carry, shape, reply, api>>

\* The ttl or the token's own expiry is reached, or the loop over incoming
\* streams has ended: sessions.get finds nothing any more.
Expire(n) ==
  /\ session[n] = "registered"
  /\ session' = [session EXCEPT ![n] = "gone"]
  /\ UNCHANGED <<client, stream, cut, carry, shape, reply, api>>

\* handleGatewayCommandStream looks the session up once, when a stream starts.
OpenStream(c) ==
  /\ stream[c] = "sent" /\ Kind(c) = "webtransport" /\ Up(c)
  /\ session[on[c]] # "none"
  /\ stream' = [stream EXCEPT ![c] =
                  IF session[on[c]] = "registered" THEN "open" ELSE "closed"]
  /\ UNCHANGED <<client, session, cut, carry, shape, reply, api>>

\* Mutant: every chunk is decoded for itself.
DecodedAlone(c) == IF c \in cut THEN "garbled" ELSE shape[c]

\* The rest of a character joins its beginning if the decoder still has it.
Completed(c) == IF carry = c THEN shape[c] ELSE "garbled"

\* The first chunk of a line, or all of it.  One decoder serves all streams:
\* what it holds of another stream comes before the brace, and is no JSON.
FirstChunk(c) ==
  /\ stream[c] = "open"
  /\ shape' = [shape EXCEPT ![c] = IF carry = None THEN "clean" ELSE "invalid"]
  /\ \/ /\ stream' = [stream EXCEPT ![c] = "line"]
        /\ carry' = None
        /\ UNCHANGED cut
     \/ /\ stream' = [stream EXCEPT ![c] = "half"]
        /\ carry' = c
        /\ cut' = cut \cup {c}
  /\ UNCHANGED <<client, session, reply, api>>

SecondChunk(c) ==
  /\ stream[c] = "half"
  /\ stream' = [stream EXCEPT ![c] = "line"]
  /\ shape' = [shape EXCEPT ![c] = IF shape[c] = "invalid" THEN "invalid" ELSE Completed(c)]
  /\ carry' = None
  /\ UNCHANGED <<client, session, cut, reply, api>>

\* Lines that are no JSON or exceed maxFrameBytes: the error names no request.
\* The stream ends with it; the decoder is flushed, for all streams, unless
\* the line was given up before it was complete.
RejectLine(c) ==
  /\ stream[c] = "line"
  /\ stream' = [stream EXCEPT ![c] = "closed"]
  /\ carry' \in {None, carry}
  /\ UNCHANGED <<client, session, cut, shape, reply, api>>

\* relayCommand: the API checks the token again and handles the command; its
\* answer, or the request itself, may be lost on the way.  Then the stream
\* ends and the decoder is flushed.
RelayCommand(c) ==
  /\ stream[c] = "line" /\ shape[c] # "invalid"
  /\ stream' = [stream EXCEPT ![c] = "closed"]
  /\ carry' = None
  /\ \/ /\ active
        /\ \/ /\ verdict' = [verdict EXCEPT ![c] = "done"]
              /\ \E frame \in {"ack", "relay_failed"} : reply' = [reply EXCEPT ![c] = frame]
           \/ /\ verdict' = [verdict EXCEPT ![c] = "refused"]
              /\ reply' = [reply EXCEPT ![c] = "refusal"]
     \/ /\ reply' = [reply EXCEPT ![c] = "relay_failed"]
        /\ UNCHANGED verdict
  /\ UNCHANGED <<client, session, cut, shape, active>>
-----------------------------------------------------------------------------
(* The API.                                                                *)

\* Over a WebSocket the command reaches the API without a gateway.
HandleDirectly(c) ==
  /\ stream[c] = "sent" /\ Kind(c) = "websocket" /\ Up(c)
  /\ stream' = [stream EXCEPT ![c] = "closed"]
  /\ \/ /\ verdict' = [verdict EXCEPT ![c] = "done"]
        /\ reply' = [reply EXCEPT ![c] = "ack"]
     \/ /\ verdict' = [verdict EXCEPT ![c] = "refused"]
        /\ reply' = [reply EXCEPT ![c] = "refusal"]
  /\ UNCHANGED <<client, session, cut, carry, shape, active>>

Deactivate ==
  /\ active /\ active' = FALSE
  /\ UNCHANGED <<client, gateway, verdict>>

Call(c) ==
  \/ \E i \in Ids : Request(c, i)
  \/ Timeout(c) \/ Deliver(c) \/ StreamFails(c)
  \/ OpenStream(c) \/ FirstChunk(c) \/ SecondChunk(c) \/ RejectLine(c)
  \/ RelayCommand(c) \/ HandleDirectly(c)
Next ==
  \/ Connect \/ CandidateConnects \/ CandidateFails \/ Close \/ Deactivate
  \/ \E n \in DOMAIN connections : Lost(n) \/ Accept(n) \/ Expire(n)
  \/ \E c \in Calls : Call(c)
Spec == Init /\ [][Next]_vars
\* Timers fire.  Nothing else is sure to happen: connections and the API fail.
FairSpec == Spec /\ \A c \in Calls : WF_vars(Timeout(c))
-----------------------------------------------------------------------------
SameId(c) == {d \in Calls : id[d] = id[c]}

\* Types; an entry of pendingRequests stands for a call that waits, with its
\* timer set, under the id the entry has.
GatewayTypeOK ==
  /\ connections \in Seq([kind : {"webtransport", "websocket", "sse"}, up : BOOLEAN])
  /\ transport \in 0..Len(connections) /\ Len(connections) <= MaxConnections
  /\ trying \in 0..Len(Preferred) /\ (trying # 0 => Len(connections) < MaxConnections)
  /\ pending \in [Ids -> Calls \cup {None}]
  /\ promise \in [Calls -> {"none", "thrown", "waiting", "resolved", "refused", "rejected"}]
  /\ timers = {c \in Calls : promise[c] = "waiting"}
  /\ \A i \in Ids : pending[i] # None => id[pending[i]] = i /\ pending[i] \in timers
  /\ reply \in [Calls -> {"none", "ack", "refusal", "relay_failed"}]
  /\ carry \in cut \cup {None}

\* A call is resolved only if the API did what a command with its id asked,
\* and refused only if it refused one: with ids that do not repeat, its own.
\* Late frames and errors of streams that had been answered change nothing of
\* that.
AnswersTrue ==
  \A c \in Calls :
    /\ promise[c] = "resolved" => \E d \in SameId(c) : verdict[d] = "done"
    /\ promise[c] = "refused" => \E d \in SameId(c) : verdict[d] = "refused"

\* The API gets the line the client wrote, unless the gateway served another
\* stream as well and one of the two lines was cut within a character (for a
\* line that no longer parses, the other one): the decoder is one for all
\* streams.
RelayedAsSent ==
  \A c \in Calls : shape[c] # "clean" =>
    \E d \in Calls \ {c} : /\ stream[d] \notin {"none", "sent"}
                           /\ (IF shape[c] = "invalid" THEN d ELSE c) \in cut

\* Every call is settled in the end, also one whose entry was replaced by a
\* retry with the same id or removed by the timer of the call it repeats.
EveryCallSettles ==
  \A c \in Calls : promise[c] = "waiting" ~> promise[c] # "waiting"
=============================================================================
