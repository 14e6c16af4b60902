------------------------------ MODULE SseFeed ------------------------------
(***************************************************************************)
(* Readers of the event log: the SSE stream (api/v1/routes/sse.py) over    *)
(* list_room_events (services/message.py).  The server polls the database  *)
(* for a page of events above its cursor and yields them one by one; the   *)
(* client resumes a lost stream with last_event_seq, the number of the     *)
(* last event it received.  Membership is checked again on every poll.     *)
(***************************************************************************)
EXTENDS EventLog, Sequences, FiniteSets

CONSTANTS
  Readers,      \* clients streaming a room
  RoomOf,       \* the room each of them streams
  PageLimit,    \* limit=100 of event_generator
  MaxConnects   \* bound on the connections of one client

ASSUME SseFeedAssumption ==
  /\ RoomOf \in [Readers -> Rooms]
  /\ PageLimit \in Nat \ {0}
  /\ MaxConnects \in Nat

VARIABLES
  member,    \* is the reader's user a member of the room
  stream,    \* the server's generator: closed, polling or yielding
  once,      \* query parameter: end after one page
  cursor,    \* current_seq of the generator
  page,      \* events the generator has read and not yet yielded
  net,       \* events yielded and not yet received
  received,  \* the client's resume point: number of the last event received
  connects   \* connections opened so far

feedVars == <<member, stream, once, cursor, page, net, received, connects>>
readVars == <<vars, feedVars>>

-----------------------------------------------------------------------------
(* The page as a sequence: the first PageLimit numbers of S, ascending.    *)
Smaller(a, b) == IF a <= b THEN a ELSE b
Rank(n, S) == Cardinality({m \in S : m <= n})
FirstOf(S) ==
  [i \in 1 .. Smaller(PageLimit, Cardinality(S)) |->
     CHOOSE n \in S : Rank(n, S) = i]

(* Seeded faults: the newest events instead of the oldest; the limit       *)
(* applied to the room before the filter; no limit.                        *)
PageNewest(r, after) ==
  LET S == {n \in RoomSeqs(r) : n > after} IN
  FirstOf({n \in S : Cardinality({m \in S : m >= n}) <= PageLimit})
PageOfFirst(r, after) ==
  SelectSeq(FirstOf(RoomSeqs(r)), LAMBDA n : n > after)
PageUnlimited(r, after) ==
  LET S == {n \in RoomSeqs(r) : n > after} IN
  [i \in 1 .. Cardinality(S) |-> CHOOSE n \in S : Rank(n, S) = i]

Page(r, after) == FirstOf({n \in RoomSeqs(r) : n > after})

-----------------------------------------------------------------------------
FeedInit ==
  /\ Init
  /\ member = [c \in Readers |-> TRUE]
  /\ stream = [c \in Readers |-> "closed"]
  /\ once = [c \in Readers |-> FALSE]
  /\ cursor = [c \in Readers |-> 0]
  /\ page = [c \in Readers |-> <<>>]
  /\ net = [c \in Readers |-> <<>>]
  /\ received = [c \in Readers |-> 0]
  /\ connects = [c \in Readers |-> 0]

(* Seeded fault: the stream resumes where the server stopped, not where    *)
(* the client did.                                                         *)
ConnectAtServerCursor(c) ==
  /\ stream[c] = "closed" /\ net[c] = <<>> /\ member[c]
  /\ connects[c] < MaxConnects
  /\ stream' = [stream EXCEPT ![c] = "polling"]
  /\ once' = [once EXCEPT ![c] = FALSE]
  /\ connects' = [connects EXCEPT ![c] = @ + 1]
  /\ UNCHANGED <<vars, member, cursor, page, net, received>>

(* GET /rooms/{room_id}/events/stream?last_event_seq=...; the bearer token *)
(* is not modelled, a non-member is refused and nothing changes.           *)
Connect(c) ==
  /\ stream[c] = "closed" /\ net[c] = <<>> /\ member[c]
  /\ connects[c] < MaxConnects
  /\ stream' = [stream EXCEPT ![c] = "polling"]
  /\ \E o \in BOOLEAN : once' = [once EXCEPT ![c] = o]
  /\ cursor' = [cursor EXCEPT ![c] = received[c]]
  /\ connects' = [connects EXCEPT ![c] = @ + 1]
  /\ UNCHANGED <<vars, member, page, net, received>>

(* The stream after the page has been sent.                                *)
Rest(c) == IF once[c] THEN "closed" ELSE "polling"

(* An empty poll sends a heartbeat and sleeps, unless `once` ends it.      *)
Poll(c) ==
  /\ stream[c] = "polling" /\ member[c]
  /\ page' = [page EXCEPT ![c] = Page(RoomOf[c], cursor[c])]
  /\ stream' = [stream EXCEPT ![c] = IF page'[c] = <<>> THEN Rest(c) ELSE "yielding"]
  /\ UNCHANGED <<vars, member, once, cursor, net, received, connects>>

(* RoomMembershipRequiredError ends the generator.                         *)
PollRefused(c) ==
  /\ stream[c] = "polling" /\ ~member[c]
  /\ stream' = [stream EXCEPT ![c] = "closed"]
  /\ UNCHANGED <<vars, member, once, cursor, page, net, received, connects>>

Yield(c) ==
  /\ stream[c] = "yielding"
  /\ cursor' = [cursor EXCEPT ![c] = Head(page[c])]
  /\ net' = [net EXCEPT ![c] = Append(@, Head(page[c]))]
  /\ page' = [page EXCEPT ![c] = Tail(@)]
  /\ stream' = [stream EXCEPT ![c] = IF Tail(page[c]) = <<>> THEN Rest(c) ELSE @]
  /\ UNCHANGED <<vars, member, once, received, connects>>

Receive(c) ==
  /\ net[c] # <<>>
  /\ received' = [received EXCEPT ![c] = Head(net[c])]
  /\ net' = [net EXCEPT ![c] = Tail(@)]
  /\ UNCHANGED <<vars, member, stream, once, cursor, page, connects>>

(* The connection breaks: what was on its way is lost.                     *)
Drop(c) ==
  /\ stream[c] # "closed" \/ net[c] # <<>>
  /\ stream' = [stream EXCEPT ![c] = "closed"]
  /\ page' = [page EXCEPT ![c] = <<>>]
  /\ net' = [net EXCEPT ![c] = <<>>]
  /\ UNCHANGED <<vars, member, once, cursor, received, connects>>

(* join_room, leave_room, remove_room_member.                              *)
ChangeMembership(c) ==
  /\ member' = [member EXCEPT ![c] = ~@]
  /\ UNCHANGED <<vars, stream, once, cursor, page, net, received, connects>>

Serve(c) == Poll(c) \/ PollRefused(c) \/ Yield(c) \/ Receive(c)

FeedNext ==
  \/ Next /\ UNCHANGED feedVars
  \/ \E c \in Readers :
       Connect(c) \/ Serve(c) \/ Drop(c) \/ ChangeMembership(c)

FeedSpec == FeedInit /\ [][FeedNext]_readVars

(* The generator's loop and the transport keep going.                      *)
FairFeedSpec ==
  FeedSpec /\ \A c \in Readers :
    /\ WF_readVars(Poll(c) \/ PollRefused(c) \/ Yield(c))
    /\ WF_readVars(Receive(c))

-----------------------------------------------------------------------------
(* The limit of the query. *)
PageBound == \A c \in Readers : Len(page[c]) <= PageLimit

(* Type invariant. *)
FeedTypeOK ==
  /\ TypeOK
  /\ member \in [Readers -> BOOLEAN]
  /\ stream \in [Readers -> {"closed", "polling", "yielding"}]
  /\ once \in [Readers -> BOOLEAN]
  /\ cursor \in [Readers -> Nat]
  /\ page \in [Readers -> Seq(Nat)]
  /\ PageBound
  /\ net \in [Readers -> Seq(Nat)]
  /\ received \in [Readers -> Nat]
  /\ connects \in [Readers -> Nat]

(* What the client has, what is on the wire and what the generator still   *)
(* holds follow each other without hole or overlap, and the cursor is the  *)
(* end of the first two, although the log grows meanwhile.                 *)
Consecutive(s, n) == \A i \in 1 .. Len(s) : s[i] = n + i
NothingSkipped ==
  \A c \in Readers :
    /\ Consecutive(net[c], received[c])
    /\ stream[c] # "closed" => cursor[c] = received[c] + Len(net[c])
    /\ Consecutive(page[c], received[c] + Len(net[c]))
    /\ received[c] + Len(net[c]) + Len(page[c]) <= RoomHead(RoomOf[c])

(* The feed implements the abstract stream: a commit appends, a receipt    *)
(* delivers the next event, everything else is invisible.                  *)
Stream == INSTANCE EventStream WITH
            length <- [r \in Rooms |-> RoomHead(r)],
            position <- received
ImplementsEventStream == Stream!Spec

(* A reader that stays connected and stays a member receives every event   *)
(* committed to its room, however the commits fall between its polls.      *)
Following(c) == stream[c] # "closed" /\ ~once[c] /\ member[c]
EventuallyReceived ==
  \A c \in Readers : \A n \in 1 .. Cardinality(Requests) :
    Following(c) /\ n \in RoomSeqs(RoomOf[c])
      ~> received[c] >= n \/ ~Following(c)

-----------------------------------------------------------------------------
(* The inductive invariant: the generator holds unsent events exactly      *)
(* while it is yielding them.                                              *)
PageState ==
  \A c \in Readers : stream[c] = "yielding" <=> page[c] # <<>>

FeedInv == IInv /\ FeedTypeOK /\ PageState /\ NothingSkipped

=============================================================================
