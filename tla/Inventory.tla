------------------------------- MODULE Inventory -------------------------------
(***************************************************************************)
(* The inventory tables: what each room is on each day, the same as        *)
(* intervals, and the day's counts per room type.  They are derived from   *)
(* what binds rooms to days - repair blocks, the sale status, stays and    *)
(* reservations, here all "claims" - and rebuilt window by window: the     *)
(* default horizon when a transaction that touched a claim commits, the    *)
(* asked window when somebody reads, the asked nights when a booking is    *)
(* checked.  Windows of all these sizes overlap in the same tables.        *)
(*                                                                         *)
(* Who may add or remove a claim is the business of ReservationWorkflow    *)
(* and RoomCommands; this module is about what the tables say afterwards.  *)
(* Days are numbers and a window is [from, to), as everywhere in the code. *)
(***************************************************************************)
EXTENDS Integers, FiniteSets

CONSTANTS
  Room,
  Type,            \* room types
  TypeOf,          \* the type of each room
  DefaultHorizon,  \* days rebuilt at a commit (60)
  Cap,             \* longest window that is ever rebuilt (90)
  Booked,          \* reservation claims a client may ask for
  Start,           \* dates a window may start on
  Until,           \* dates a searched stay may end on
  Length,          \* numbers of days a reader may ask for
  LastDay,         \* bound: the clock stops here
  MaxClaims,       \* bound: claims at one time
  Absent           \* no date, no claim

\* A claim on a room: a sale status claims every day, a block all days from
\* its first one on.
Claim == [kind : {"block", "sale", "stay", "reservation"}, room : Room,
          from : Int \cup {Absent}, to : Int \cup {Absent}]

ASSUME HorizonAssumption ==
  /\ DefaultHorizon \in Nat \ {0} /\ Cap \in Nat /\ DefaultHorizon <= Cap
  /\ LastDay \in Nat /\ MaxClaims \in Nat
ASSUME WindowAssumption == Start \subseteq Int /\ Until \subseteq Int /\ Length \subseteq Int
ASSUME RoomAssumption == IsFiniteSet(Room) /\ TypeOf \in [Room -> Type]
ASSUME BookedAssumption ==
  Booked \subseteq [kind : {"reservation"}, room : Room, from : Int, to : Int]
ASSUME AbsentAssumption == Absent \notin Int /\ Absent \notin Claim

Status == {"available", "occupied", "blocked", "reserved"}

Cell == Claim \cup {Absent}   \* what a room-day is bound by

DayRoom == [room : Room, day : Int, cell : Cell]

Interval == [room : Room, from : Int, to : Int, cell : Cell]

VARIABLES
  claims,
  tables,   \* inventory_day_room, inventory_interval_projection and
            \* inventory_summary_day_type
  today,    \* the server's date
  horizon,  \* history: the date of the last rebuild at a commit
  answer    \* the answer to the read or search just made, or Absent

vars == <<claims, tables, today, horizon, answer>>

-----------------------------------------------------------------------------
(* Deriving a room-day *)

Covers(c, day) == /\ c.from # Absent => c.from <= day
                  /\ c.to # Absent => day < c.to

Rank == [block |-> 1, sale |-> 2, stay |-> 3, reservation |-> 4]

StatusOf == [block |-> "blocked", sale |-> "blocked", stay |-> "occupied",
             reservation |-> "reserved"]

CellStatus(cell) == IF cell = Absent THEN "available" ELSE StatusOf[cell.kind]

Claiming(bound, room, day) == {c \in bound : c.room = room /\ Covers(c, day)}

\* The claim a room-day shows: of the strongest kind there is.
DayCell(bound, room, day) ==
  LET all == Claiming(bound, room, day)
  IN IF all = {} THEN Absent
     ELSE CHOOSE c \in all : \A o \in all : Rank[c.kind] <= Rank[o.kind]

-----------------------------------------------------------------------------
(* Rebuilding a window of the tables from the claims "bound" *)

DayRooms(bound, from, to) ==
  {[room |-> r, day |-> d, cell |-> DayCell(bound, r, d)] : r \in Room, d \in from .. (to - 1)}

\* A maximal run of days of the window on which a room shows the same claim.
IsRun(bound, from, to, i) ==
  /\ i.from < i.to
  /\ \A d \in i.from .. (i.to - 1) : DayCell(bound, i.room, d) = i.cell
  /\ i.from = from \/ DayCell(bound, i.room, i.from - 1) # i.cell
  /\ i.to = to \/ DayCell(bound, i.room, i.to) # i.cell

Compressed(bound, from, to) ==
  {i \in [room : Room, from : from .. (to - 1), to : (from + 1) .. to,
          cell : {DayCell(bound, r, d) : r \in Room, d \in from .. (to - 1)}] :
     IsRun(bound, from, to, i)}

Count(rows, day, type, status) ==
  Cardinality({row \in rows : /\ row.day = day /\ TypeOf[row.room] = type
                              /\ CellStatus(row.cell) = status})

Summarized(rows, from, to) ==
  {[day |-> d, type |-> k, count |-> [s \in Status |-> Count(rows, d, k, s)]] :
     d \in from .. (to - 1), k \in {TypeOf[r] : r \in Room}}

\* Mutant: only the intervals that start in the window are cleared.
Cleared_byStart(rows, from, to) ==
  [days |-> {row \in rows.days : row.day < from \/ to <= row.day},
   intervals |-> {i \in rows.intervals : i.from < from \/ to <= i.from},
   summaries |-> {s \in rows.summaries : s.day < from \/ to <= s.day}]

\* An interval that reaches into the window goes as a whole: the days of it
\* outside the window are left without an interval.
Cleared(rows, from, to) ==
  [days |-> {row \in rows.days : row.day < from \/ to <= row.day},
   intervals |-> {i \in rows.intervals : to <= i.from \/ i.to <= from},
   summaries |-> {s \in rows.summaries : s.day < from \/ to <= s.day}]

Rebuilt(rows, bound, from, to) ==
  LET kept == Cleared(rows, from, to)
      new == DayRooms(bound, from, to)
  IN [days |-> kept.days \cup new,
      intervals |-> kept.intervals \cup Compressed(bound, from, to),
      summaries |-> kept.summaries \cup Summarized(new, from, to)]

\* Mutant: the number of days is taken as it is.
Clamped_asAsked(n) == n

\* 30, 60 and 90 are within the bounds anyway.
Clamped(n) == IF n < 1 THEN 1 ELSE IF n > Cap THEN Cap ELSE n

-----------------------------------------------------------------------------
InventoryTypeOK ==
  /\ claims \subseteq Claim
  /\ tables \in [days : SUBSET DayRoom, intervals : SUBSET Interval,
                 summaries : SUBSET [day : Int, type : Type, count : [Status -> Nat]]]
  /\ today \in Int /\ horizon \in Int
  /\ answer # Absent => answer.to - answer.from \in 1 .. Cap

\* The reset of the tables marks the inventory dirty, so it commits with a
\* horizon in place.
Init ==
  /\ claims = {}
  /\ today = 1 /\ horizon = 1
  /\ tables = Rebuilt([days |-> {}, intervals |-> {}, summaries |-> {}], {}, 1,
                      1 + DefaultHorizon)
  /\ answer = Absent

\* What a transaction has made of the claims and the tables, and the dirty
\* mark, which is clear between transactions.
Begin == [claims |-> claims, tables |-> tables, dirty |-> FALSE]

\* Every write of a claim marks the inventory dirty.
Write(tx, bound) == [claims |-> bound, tables |-> tx.tables, dirty |-> TRUE]

\* Every rebuild, of whatever window, clears the mark.
Rebuild(tx, from, to) ==
  [claims |-> tx.claims, tables |-> Rebuilt(tx.tables, tx.claims, from, to), dirty |-> FALSE]

\* A transaction that is still marked at its end rebuilds the default horizon.
Commit(tx) ==
  /\ Cardinality(tx.claims) <= MaxClaims
  /\ claims' = tx.claims
  /\ tables' = IF tx.dirty THEN Rebuild(tx, today, today + DefaultHorizon).tables
                           ELSE tx.tables
  /\ horizon' = IF tx.dirty THEN today ELSE horizon
  /\ answer' = Absent
  /\ UNCHANGED today

\* Confirmed cards, adjustments and imports write without looking here.
Book(c) == Commit(Write(Begin, claims \cup {c}))

\* What a rebuild returns: the rows of its window, not those around it.
Listed(rows, from, to) == {row \in rows.days : from <= row.day /\ row.day < to}

\* The rooms whose listed rows say "available" for all the days.
Available(listed, days) ==
  {r \in Room : \A d \in days : [room |-> r, day |-> d, cell |-> Absent] \in listed}

CheckedUntil(from, to) == from + Clamped(to - from)

\* The nights are rebuilt for the check, at most a window of them.
Checked(from, to) == Rebuild(Begin, from, CheckedUntil(from, to))

\* A night that was not rebuilt is not listed: a stay longer than any window
\* is refused.
BookDirect(c) ==
  LET tx == Checked(c.from, c.to)
      listed == Listed(tx.tables, c.from, CheckedUntil(c.from, c.to))
  IN /\ c.from < c.to
     /\ c.room \in Available(listed, c.from .. (c.to - 1))
     /\ Commit(Write(tx, claims \cup {c}))

\* A check that is refused, or a booking only prepared, still commits the
\* nights it rebuilt, unmarked.
CheckNights(c) == c.from < c.to /\ Commit(Checked(c.from, c.to))

\* A guest checks in: the reservation stays, the stay hides it.
Arrive(c) ==
  /\ c \in claims /\ c.kind = "reservation"
  /\ Commit(Write(Begin, claims \cup {[c EXCEPT !.kind = "stay", !.from = today]}))

\* Mutant: nothing marks the inventory dirty.
Cancel_unmarked(c) ==
  /\ c \in claims /\ c.kind = "reservation"
  /\ \A o \in claims : o.kind = "stay" /\ o.room = c.room => o.to # c.to
  /\ Commit([Begin EXCEPT !.claims = claims \ {c}])

\* Only a reservation nobody has arrived on is cancelled.
Cancel(c) ==
  /\ c \in claims /\ c.kind = "reservation"
  /\ \A o \in claims : o.kind = "stay" /\ o.room = c.room => o.to # c.to
  /\ Commit(Write(Begin, claims \ {c}))

\* A check-out ends the stay and, through the read model, its reservation.
Leave(c) ==
  /\ c \in claims /\ c.kind = "stay"
  /\ Commit(Write(Begin, {o \in claims : o.room = c.room /\ o.to = c.to
                                           => o.kind \notin {"stay", "reservation"}}))

OpenBlock(r) ==
  Commit(Write(Begin,
    claims \cup {[kind |-> "block", room |-> r, from |-> today, to |-> Absent]}))

SaleStop(r) == [kind |-> "sale", room |-> r, from |-> Absent, to |-> Absent]

StopSale(r) == Commit(Write(Begin, claims \cup {SaleStop(r)}))

\* Back on sale: the room's open blocks are closed with the sale status.
RestoreSale(r) ==
  /\ SaleStop(r) \in claims
  /\ Commit(Write(Begin, {c \in claims : c.room = r => c.kind \notin {"block", "sale"}}))

-----------------------------------------------------------------------------
(* Reads *)

\* Mutant: what is stored is current unless the inventory is dirty.
Reread_stored(from, to) == UNCHANGED tables

Reread(from, to) == tables' = Rebuilt(tables, claims, from, to)

Read(from, n) ==
  LET to == from + Clamped(n)
  IN /\ Reread(from, to)
     /\ answer' = [from |-> from, to |-> to,
                   days |-> Listed(tables', from, to),
                   intervals |-> {i \in tables'.intervals : i.from < to /\ from < i.to}]
     /\ UNCHANGED <<claims, today, horizon>>

\* Mutant: the list of nights stops at the longest window.
Asked_atCap(from, to) ==
  IF from < to THEN {d \in from .. (to - 1) : d < from + Cap} ELSE {from}

\* One night more than the longest window is listed, so that a longer search
\* finds nothing; an empty range is a search for its first night.
Asked(from, to) ==
  IF from < to THEN {d \in from .. (to - 1) : d <= from + Cap} ELSE {from}

\* A room needs a row for each night asked, in a window of n days.
Search(from, to, n) ==
  LET end == from + Clamped(n)
  IN /\ Reread(from, end)
     /\ answer' = [from |-> from, to |-> end, until |-> to,
                   rooms |-> Available(Listed(tables', from, end), Asked(from, to))]
     /\ UNCHANGED <<claims, today, horizon>>

NextDay ==
  /\ today < LastDay
  /\ today' = today + 1
  /\ answer' = Absent
  /\ UNCHANGED <<claims, tables, horizon>>

Next ==
  \/ \E c \in Booked : Book(c) \/ BookDirect(c) \/ CheckNights(c)
  \/ \E c \in claims : Arrive(c) \/ Cancel(c) \/ Leave(c)
  \/ \E r \in Room : OpenBlock(r) \/ StopSale(r) \/ RestoreSale(r)
  \/ \E from \in Start, n \in Length : Read(from, n)
  \/ \E from \in Start, to \in Until, n \in Length : Search(from, to, n)
  \/ NextDay

Spec == Init /\ [][Next]_vars

Calendar == INSTANCE RoomCalendar WITH Longest <- Cap
-----------------------------------------------------------------------------
(* Properties *)

\* The three tables tell one story, whatever windows were rebuilt over each
\* other: the intervals of a room are disjoint, each repeats what its days
\* say, and the counts of a day count its rows.
TablesAgree ==
  /\ \A i, j \in tables.intervals :
       i # j /\ i.room = j.room => i.to <= j.from \/ j.to <= i.from
  /\ \A i \in tables.intervals : \A d \in i.from .. (i.to - 1) :
       \A row \in tables.days : row.room = i.room /\ row.day = d => row.cell = i.cell
  /\ \A row, other \in tables.days :
       row.room = other.room /\ row.day = other.day => row = other
  /\ \A s \in tables.summaries : \A k \in Status :
       s.count[k] = Count(tables.days, s.day, s.type, k)

\* After every transaction the default horizon says what the claims say: no
\* change of a claim, and no narrower rebuild, leaves an old row behind.
HorizonIsCurrent ==
  \A r \in Room, d \in horizon .. (horizon + DefaultHorizon - 1) :
    [room |-> r, day |-> d, cell |-> DayCell(claims, r, d)] \in tables.days

\* A reader gets every room-day of the window in exactly one interval, as it
\* is now, and nothing outside the window.
ReadsAreExact ==
  (answer # Absent /\ "intervals" \in DOMAIN answer) =>
    /\ \A r \in Room, d \in answer.from .. (answer.to - 1) :
         \E i \in answer.intervals :
           /\ i.room = r /\ i.from <= d /\ d < i.to
           /\ i.cell = DayCell(claims, r, d)
           /\ \A j \in answer.intervals :
                j.room = r /\ j.from <= d /\ d < j.to => j = i
    /\ \A i \in answer.intervals : answer.from <= i.from /\ i.to <= answer.to

\* A room offered for a stay is free on every one of its nights, also on the
\* nights after the longest window the tables are rebuilt for.
OffersAreFree ==
  (answer # Absent /\ "rooms" \in DOMAIN answer) =>
    \A r \in answer.rooms, d \in answer.from .. (answer.until - 1) :
      Claiming(claims, r, d) = {}

\* Nobody can tell from an answer that it came from stored tables, rebuilt in
\* windows: rows, intervals and offers are those of the claims as they are, no
\* room-day or free room is missing, and no window is longer than the cap.
TablesAreInvisible == Calendar!Spec
=============================================================================
