--------------------------- MODULE MCGroupBooking ---------------------------
(***************************************************************************)
(* An instance of GroupBooking for TLC: groups over two rooms and one that *)
(* does not exist, beside direct bookings, adjustments and arrivals.       *)
(***************************************************************************)
EXTENDS GroupBooking

CONSTANTS A, B, C

sel(room, from, to) == [room |-> room, from |-> from, to |-> to]
group(rooms, from, to) == [rooms |-> rooms, from |-> from, to |-> to]

\* Two rooms exist, C does not.
Rooms == {A, B}
Named == {A, B, C}
Selections == {sel(A, 1, 3), sel(B, 1, 3), sel(A, 2, 4), sel(B, 2, 4), sel(C, 1, 3)}
Places == {1, 2}
\* Both rooms, in either order; the second alone and a night later; the same
\* room twice; one with an unknown room.
GroupSelections == {group(<<A, B>>, 1, 3), group(<<B, A>>, 1, 3), group(<<B>>, 2, 4),
                    group(<<A, A>>, 1, 3), group(<<A, C>>, 1, 3)}
OneDay == <<1>>

\* Tokens are interchangeable, so they are first used in the order 1, 2, ...
Used(u) ==
  \/ u \in idem
  \/ groups[<<"booking", u>>] # Absent
  \/ \E g \in GroupId : groups[g] # Absent /\ groups[g].stamp = u

InOrder(t) == \A u \in Token : u < t => Used(u)

Both == group(<<A, B>>, 1, 3)
Later == group(<<B>>, 2, 4)

\* The sub-behaviour of GroupSpec in which the group of the first token is
\* re-slotted and confirmed again, beside one prepared group and reservations
\* booked directly.
GroupStep(t) ==
  \/ t = 1 /\ CreateGroup(t, Incomplete, FALSE)
  \/ \E slots \in {Both, Later}, late \in BOOLEAN :
       /\ IF t = 1 THEN slots = Both ELSE t = 2 /\ slots = Later /\ ~late
       /\ PrepareGroupBooking(t, slots, late)
  \/ \E g \in GroupId :
       /\ g[2] = 1
       /\ \/ \E slots \in GroupSlots \ {Both} : UpdateGroup(t, g, slots, FALSE, FALSE)
          \/ UpdateGroup(t, g, Both, FALSE, TRUE)
          \/ QuoteGroup(t, g, FALSE)
          \/ PrepareConfirmGroup(t, g, FALSE)
          \/ CancelGroup(t, g)
  \/ GroupCardStep(t)

SingleStep(t) ==
  \/ CreateReservation(t, sel(A, 2, 4))
  \/ \E r \in Members(<<"booking", 1>>, Both) : CheckIn(t, B, r, 1)
  \/ Replay(t)

GroupsSpec ==
  GroupInit /\ [][\E t \in Token : /\ InOrder(t)
                                  /\ \/ GroupStep(t)
                                     \/ SingleStep(t) /\ UNCHANGED groups]_groupVars
=============================================================================
