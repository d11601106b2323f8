------------------------------ MODULE MCInventory ------------------------------
(***************************************************************************)
(* An instance of Inventory for TLC: two rooms of one type, a horizon of   *)
(* two days, windows of at most three, and stays of up to four nights.     *)
(***************************************************************************)
EXTENDS Inventory, TLC

CONSTANTS A, B, villa

Rooms == {A, B}
Villas == (A :> villa @@ B :> villa)

booked(room, from, to) == [kind |-> "reservation", room |-> room, from |-> from, to |-> to]

\* Beyond the horizon, and across its edge and longer than any window.
Asks == {booked(A, 4, 5), booked(B, 2, 6)}

\* The sub-behaviour of Spec in which room A is blocked and room B is slept in.
RoomStep ==
  \/ \E c \in Booked : Book(c) \/ BookDirect(c)
  \/ \E c \in Booked : c.room = B /\ CheckNights(c)
  \/ \E c \in claims : c.room = B /\ Arrive(c)
  \/ \E c \in claims : Cancel(c) \/ Leave(c)
  \/ OpenBlock(A) \/ StopSale(A) \/ RestoreSale(A)
  \/ \E from \in Start, n \in Length : Read(from, n)
  \/ Search(1, 1, 0) \/ Search(1, 5, 5)
  \/ NextDay

RoomSpec == Init /\ [][RoomStep]_vars
=============================================================================
