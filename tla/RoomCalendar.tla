---------------------------- MODULE RoomCalendar ----------------------------
(***************************************************************************)
(* What the inventory promises to whoever asks for it, without tables,     *)
(* windows rebuilt at commits or checks, a dirty mark or a server date:    *)
(* claims on rooms come and go, and every answer is the calendar of the    *)
(* claims at the moment it is given.  A room-day shows the strongest claim *)
(* on it; the intervals are the fewest that say the same; a search offers  *)
(* exactly the rooms nothing claims on any of the nights, and none if the  *)
(* nights do not fit in the window looked at.                              *)
(*                                                                         *)
(* Inventory implements it, see Calendar there.                            *)
(***************************************************************************)
EXTENDS Integers

CONSTANTS Room,
          Claim,    \* records with a kind, a room, a first day and an end
          Longest,  \* the longest window
          Absent    \* no date, no claim, no answer

VARIABLES claims,   \* what binds rooms now
          answer    \* the answer just given, or Absent

Rank == [block |-> 1, sale |-> 2, stay |-> 3, reservation |-> 4]

On(room, day) ==
  {c \in claims : /\ c.room = room
                  /\ c.from = Absent \/ c.from <= day
                  /\ c.to = Absent \/ day < c.to}

\* "cell" is what the room shows on the day.
Shows(cell, room, day) ==
  IF On(room, day) = {} THEN cell = Absent
  ELSE cell \in On(room, day) /\ \A o \in On(room, day) : Rank[cell.kind] <= Rank[o.kind]

\* One row for each room and day of the window.
AreDays(days, from, to) ==
  /\ \A row \in days : /\ row.room \in Room
                       /\ row.day \in from .. (to - 1)
                       /\ Shows(row.cell, row.room, row.day)
  /\ \A r \in Room, d \in from .. (to - 1) : \E row \in days : row.room = r /\ row.day = d
  /\ \A row, other \in days : row.room = other.room /\ row.day = other.day => row = other

\* The fewest intervals that give each row of "days" its cell.
AreIntervals(intervals, days, from, to) ==
  /\ \A i \in intervals : i.room \in Room /\ from <= i.from /\ i.from < i.to /\ i.to <= to
  /\ \A row \in days : \E i \in intervals :
       i.room = row.room /\ i.from <= row.day /\ row.day < i.to /\ i.cell = row.cell
  /\ \A i, j \in intervals :
       i # j /\ i.room = j.room => \/ i.to <= j.from \/ j.to <= i.from
  /\ \A i, j \in intervals : i.room = j.room /\ i.to = j.from => i.cell # j.cell

\* An empty range of nights is its first one.
Nights(from, to) == IF from < to THEN from .. (to - 1) ELSE {from}

Free(from, to) == {r \in Room : \A d \in Nights(from, to) : On(r, d) = {}}

-----------------------------------------------------------------------------
Init == claims = {} /\ answer = Absent

\* Which claims may come and go is decided elsewhere.
Change ==
  /\ claims' \subseteq Claim
  /\ answer' = Absent

Window(from, to) == from \in Int /\ to \in Int /\ to - from \in 1 .. Longest

Read ==
  /\ UNCHANGED claims
  /\ DOMAIN answer' = {"from", "to", "days", "intervals"}
  /\ Window(answer'.from, answer'.to)
  /\ AreDays(answer'.days, answer'.from, answer'.to)
  /\ AreIntervals(answer'.intervals, answer'.days, answer'.from, answer'.to)

Search ==
  /\ UNCHANGED claims
  /\ DOMAIN answer' = {"from", "to", "until", "rooms"}
  /\ Window(answer'.from, answer'.to)
  /\ answer'.rooms = IF Nights(answer'.from, answer'.until) \subseteq answer'.from .. (answer'.to - 1)
                     THEN Free(answer'.from, answer'.until) ELSE {}

Next == Change \/ Read \/ Search

Spec == Init /\ [][Next]_<<claims, answer>>
=============================================================================
