---------------------------- MODULE EventStream ----------------------------
(***************************************************************************)
(* What the durable event stream promises: the events of a room form one   *)
(* list that only grows at its end, and every reader receives that list    *)
(* from the beginning, one event at a time, none skipped, none repeated.   *)
(* Stated without transactions, connections, pages or cursors; SseFeed is  *)
(* shown to implement it.                                                  *)
(***************************************************************************)
EXTENDS Naturals

CONSTANTS
  Rooms,
  Readers,
  RoomOf    \* the room a reader follows, a function from readers to rooms

VARIABLES
  length,   \* number of events in each room
  position  \* number of events each reader has received

Init ==
  /\ length = [r \in Rooms |-> 0]
  /\ position = [c \in Readers |-> 0]

Append(r) ==
  /\ length' = [length EXCEPT ![r] = @ + 1]
  /\ UNCHANGED position

Deliver(c) ==
  /\ position[c] < length[RoomOf[c]]
  /\ position' = [position EXCEPT ![c] = @ + 1]
  /\ UNCHANGED length

Next == (\E r \in Rooms : Append(r)) \/ (\E c \in Readers : Deliver(c))

Spec == Init /\ [][Next]_<<length, position>>

=============================================================================
