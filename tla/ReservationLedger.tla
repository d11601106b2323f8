-------------------------- MODULE ReservationLedger --------------------------
(***************************************************************************)
(* The tables that say who may sleep where: reservations with their room   *)
(* allocation, stays, and the occupancy of the rooms.  The module holds    *)
(* the read model of a reservation, the two availability tests the         *)
(* handlers use, and what a handler writes when it books, cancels, checks  *)
(* in or checks out.  The handlers themselves are in ReservationWorkflow.  *)
(*                                                                         *)
(* Every id is a hash of the client token it was created from, so an id is *)
(* modelled as the token tagged with the kind of its creator, and with the *)
(* place of the room when the creator is a group draft.                    *)
(***************************************************************************)
EXTENDS Integers, FiniteSets

CONSTANTS
  Token,       \* client tokens and idempotency keys (one shared table)
  Room,        \* room ids a client may name
  Catalog,     \* the rooms that exist
  Closed,      \* the rooms that are blocked or not sellable
  Selection,   \* a room and a date range a client may ask for
  Instants,    \* how many instants the clients' clocks tell apart
  DayOf,       \* DayOf[c]: the date of instant c
  Place,       \* places of a group booking's room selections: 1, 2, ...
  Absent       \* no row, no value

ASSUME RoomAssumption == Closed \subseteq Catalog /\ Catalog \subseteq Room
ASSUME DayAssumption == Instants \in Nat /\ DayOf \in [1..Instants -> Int]
ASSUME SelectionAssumption == Selection \subseteq [room : Room, from : Int, to : Int]

ResId == ({"client", "booking", "adjust", "create"} \X Token)
           \cup ({"client", "booking"} \X Token \X Place)

\* The timestamps requests carry, in the order in which they compare.
Clock == 1 .. Instants

\* When a stay began (checked_in_at) and when its row was last written.
StayRow == [res : ResId, room : Catalog, since : Clock, updated : Clock,
            status : {"inHouse", "checkedOut"}]

ReservationRow == [sel : Selection, status : {"booked", "cancelled"},
                   alloc : {"allocated", "released"}]

ASSUME AbsentAssumption == /\ Absent \notin Int
                           /\ Absent \notin Selection
                           /\ Absent \notin Token
                           /\ Absent \notin StayRow
                           /\ Absent \notin ReservationRow

VARIABLES
  reservations,  \* reservations[r]: the row and its allocation, or Absent
  stays,         \* the rows of the stays table
  occupied       \* rooms whose occupancy status is not vacant

ledgerVars == <<reservations, stays, occupied>>

LedgerTypeOK ==
  /\ reservations \in [ResId -> ReservationRow \cup {Absent}]
  /\ stays \subseteq StayRow
  /\ occupied \subseteq Catalog

LedgerInit ==
  /\ reservations = [r \in ResId |-> Absent]
  /\ stays = {}
  /\ occupied = {}

-----------------------------------------------------------------------------
(* The read model *)

Exists(r) == reservations[r] # Absent

StaysOf(r) == {s \in stays : s.res = r}

\* The stay of r with the newest updated_at.  That is the clock of the client
\* who wrote it, so any stay of r may be the newest.  The code breaks ties by a
\* hash: what comes of one is what comes of clocks that differ.
Latest(r) ==
  IF StaysOf(r) = {} THEN Absent
  ELSE CHOOSE s \in StaysOf(r) : \A o \in StaysOf(r) : o.updated <= s.updated

\* The newest stay hides the status of the row.
Status(r) ==
  IF ~Exists(r) THEN "none"
  ELSE IF Latest(r) = Absent THEN reservations[r].status
  ELSE IF Latest(r).status = "inHouse" THEN "checkedIn" ELSE "checkedOut"

\* Mutant: a guest who was checked in elsewhere no longer holds the booked room.
RoomsHeld_stayOnly(r) ==
  {IF Latest(r) = Absent THEN reservations[r].sel.room ELSE Latest(r).room}

\* A reservation is looked up by room through its latest stay or its allocation.
RoomsHeld(r) ==
  {reservations[r].sel.room} \cup (IF Latest(r) = Absent THEN {} ELSE {Latest(r).room})

Live(r) == Status(r) \in {"booked", "checkedIn"}

-----------------------------------------------------------------------------
(* Availability: by overlapping date ranges when a card is confirmed or a  *)
(* reservation adjusted, night by night when one is created directly.      *)

Overlaps(a, b) == a.from < b.to /\ b.from < a.to

\* Mutant: arrived guests are left out of the conflict test.
Conflicting_bookedOnly(sel, self) ==
  \E r \in ResId \ {self} :
    /\ Status(r) = "booked"
    /\ sel.room \in RoomsHeld(r)
    /\ Overlaps(sel, reservations[r].sel)

\* Mutant: a reservation is looked up by its allocation alone.
Conflicting_allocationOnly(sel, self) ==
  \E r \in ResId \ {self} :
    /\ Live(r)
    /\ sel.room = reservations[r].sel.room
    /\ Overlaps(sel, reservations[r].sel)

Conflicting(sel, self) ==
  \E r \in ResId \ {self} :
    /\ Live(r)
    /\ sel.room \in RoomsHeld(r)
    /\ Overlaps(sel, reservations[r].sel)

Nights(sel) == sel.from .. (sel.to - 1)

\* The inventory horizon is clamped: later nights have no row at all.
HorizonCap == 90

Reserved(room, night) ==
  \E r \in ResId :
    /\ Live(r)
    /\ room \in RoomsHeld(r)
    /\ night \in Nights(reservations[r].sel)

InHouse(room) == {s \in stays : s.room = room /\ s.status = "inHouse"}

\* Mutant: a guest whose read model shows another stay is not seen.
Slept_latestOnly(room, night) ==
  \E s \in InHouse(room) : /\ s = Latest(s.res)
                           /\ DayOf[s.since] <= night
                           /\ night < reservations[s.res].sel.to

Slept(room, night) ==
  \E s \in InHouse(room) : DayOf[s.since] <= night /\ night < reservations[s.res].sel.to

Available(sel) ==
  /\ sel.from < sel.to
  /\ sel.to - sel.from <= HorizonCap
  /\ sel.room \in Catalog \ Closed
  /\ \A n \in Nights(sel) : ~Reserved(sel.room, n) /\ ~Slept(sel.room, n)

-----------------------------------------------------------------------------
(* Writes *)

\* The row is upserted: an id that was cancelled is booked again.
Booking(sel) == [sel |-> sel, status |-> "booked", alloc |-> "allocated"]

Cancelled(row) == [row EXCEPT !.status = "cancelled", !.alloc = "released"]

\* A guest who is in house in the room already keeps the stay there is.
RecordStay(r, room, at) ==
  IF \E s \in InHouse(room) : s.res = r
  THEN UNCHANGED stays
  ELSE stays' = stays \cup {[res |-> r, room |-> room, since |-> at, updated |-> at,
                             status |-> "inHouse"]}

CloseStay(s, at) ==
  stays' = (stays \ {s}) \cup {[s EXCEPT !.status = "checkedOut", !.updated = at]}
=============================================================================
