---------------------------- MODULE RoomPromises ----------------------------
(***************************************************************************)
(* What the reservation side of the platform promises, without drafts,     *)
(* cards, tokens or stays: each reservation id holds at most one selection *)
(* (a room and a range of nights), two ids never hold the same night of    *)
(* the same room, and the only changes are that ids are granted selections *)
(* (one, or those of a group together), that an id gives its selection up, *)
(* or hands over to a replacement in one step.                             *)
(*                                                                         *)
(* ReservationWorkflow implements it, see Promises there, and GroupBooking *)
(* does with groups added.                                                 *)
(***************************************************************************)
EXTENDS Integers

CONSTANTS ResId,      \* reservation ids
          Selection,  \* records [room, from, to]
          Absent      \* "holds nothing"

VARIABLE held         \* held[r]: the selection r may rely on, or Absent

SharesNight(a, b) ==
  /\ a.room = b.room
  /\ \E n \in a.from .. (a.to - 1) : n \in b.from .. (b.to - 1)

\* No id other than those in "leaving" holds a night of s.
FreeFor(s, leaving) ==
  \A r \in ResId \ leaving : held[r] # Absent => ~SharesNight(s, held[r])

Init == held = [r \in ResId |-> Absent]

\* Ids are granted selections that fit beside each other and beside those of
\* all other ids; an id may be granted another selection than it held.
Grant ==
  LET granted == {r \in ResId : held'[r] # held[r]}
  IN /\ held' \in [ResId -> Selection \cup {Absent}]
     /\ \A r \in granted : held'[r] # Absent
     /\ \A r \in granted :
          /\ FreeFor(held'[r], granted)
          /\ \A q \in granted \ {r} : ~SharesNight(held'[r], held'[q])

GiveUp(r) ==
  /\ held[r] # Absent
  /\ held' = [held EXCEPT ![r] = Absent]

HandOver(r, q, s) ==
  /\ held[r] # Absent
  /\ held[q] = Absent
  /\ r # q
  /\ FreeFor(s, {r, q})
  /\ held' = [held EXCEPT ![r] = Absent, ![q] = s]

Next ==
  \/ Grant
  \/ \E r \in ResId : GiveUp(r)
  \/ \E r, q \in ResId, s \in Selection : HandOver(r, q, s)

Spec == Init /\ [][Next]_held
=============================================================================
