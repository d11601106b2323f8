--------------------------- MODULE Inventory_proofs ---------------------------
(***************************************************************************)
(* Proofs about Inventory.  Every write of the tables is one rebuild, or   *)
(* two in a row, of a window of days; so what holds of the tables is shown *)
(* once, for a rebuild (RebuiltTyped, RebuiltAgrees, RebuiltHasWindow),    *)
(* and the steps of the specification only say which windows they rebuild  *)
(* from which claims.                                                      *)
(***************************************************************************)
EXTENDS Inventory, FiniteSetTheorems, TLAPS

\* The tables as one value, with its typing and its agreement.
Typed(rows) ==
  rows \in [days : SUBSET DayRoom, intervals : SUBSET Interval,
            summaries : SUBSET [day : Int, type : Type, count : [Status -> Nat]]]

Agree(rows) ==
  /\ \A i, j \in rows.intervals :
       i # j /\ i.room = j.room => i.to <= j.from \/ j.to <= i.from
  /\ \A i \in rows.intervals : \A d \in i.from .. (i.to - 1) :
       \A row \in rows.days : row.room = i.room /\ row.day = d => row.cell = i.cell
  /\ \A row, other \in rows.days :
       row.room = other.room /\ row.day = other.day => row = other
  /\ \A s \in rows.summaries : \A k \in Status :
       s.count[k] = Count(rows.days, s.day, s.type, k)

-----------------------------------------------------------------------------
(* What a rebuild writes *)

\* A room-day shows one of the strongest claims on it, or none if there is none.
LEMMA DayCellIsClaim ==
  ASSUME NEW bound \in SUBSET Claim, NEW r \in Room, NEW d \in Int
  PROVE  /\ DayCell(bound, r, d) \in Cell
         /\ DayCell(bound, r, d) = Absent <=> Claiming(bound, r, d) = {}
         /\ Claiming(bound, r, d) # {} =>
              /\ DayCell(bound, r, d) \in Claiming(bound, r, d)
              /\ \A o \in Claiming(bound, r, d) :
                   Rank[DayCell(bound, r, d).kind] <= Rank[o.kind]
<1> DEFINE all == Claiming(bound, r, d)
<1>1. all \subseteq Claim
  BY DEF Claiming
<1>2. CASE all = {}
  BY <1>2 DEF DayCell, Cell
<1>3. CASE all # {}
  <2>1. \A c \in all : c.kind \in {"block", "sale", "stay", "reservation"}
    BY <1>1 DEF Claim
  <2>2. \E c \in all : \A o \in all : Rank[c.kind] <= Rank[o.kind]
    <3>1. CASE \E c \in all : c.kind = "block"
      BY <2>1, <3>1 DEF Rank
    <3>2. CASE (\A c \in all : c.kind # "block") /\ (\E c \in all : c.kind = "sale")
      BY <2>1, <3>2 DEF Rank
    <3>3. CASE /\ \A c \in all : c.kind \notin {"block", "sale"}
               /\ \E c \in all : c.kind = "stay"
      BY <2>1, <3>3 DEF Rank
    <3>4. CASE \A c \in all : c.kind \notin {"block", "sale", "stay"}
      <4>1. \A c \in all : c.kind = "reservation"
        BY <2>1, <3>4
      <4> QED BY <4>1, <1>3 DEF Rank
    <3> QED BY <3>1, <3>2, <3>3, <3>4
  <2>3. DayCell(bound, r, d) = CHOOSE c \in all : \A o \in all : Rank[c.kind] <= Rank[o.kind]
    BY <1>3 DEF DayCell
  <2>4. /\ DayCell(bound, r, d) \in all
        /\ \A o \in all : Rank[DayCell(bound, r, d).kind] <= Rank[o.kind]
    BY <2>2, <2>3
  <2> QED BY <1>1, <1>3, <2>4, AbsentAssumption DEF Cell
<1> QED BY <1>2, <1>3

\* A window has finitely many room-days.
LEMMA WindowIsFinite ==
  ASSUME NEW bound, NEW from \in Int, NEW to \in Int
  PROVE  IsFiniteSet(DayRooms(bound, from, to))
<1> DEFINE S == Room \X (from .. (to - 1))
           f == [x \in S |-> [room |-> x[1], day |-> x[2], cell |-> DayCell(bound, x[1], x[2])]]
<1>1. IsFiniteSet(from .. (to - 1))
  BY FS_Interval
<1>2. IsFiniteSet(S)
  BY <1>1, FS_Product, RoomAssumption
<1>3. \A x \in S : f[x] \in DayRooms(bound, from, to)
  <2> SUFFICES ASSUME NEW r \in Room, NEW d \in from .. (to - 1)
               PROVE  f[<<r, d>>] \in DayRooms(bound, from, to)
    OBVIOUS
  <2>1. f[<<r, d>>] = [room |-> r, day |-> d, cell |-> DayCell(bound, r, d)]
    OBVIOUS
  <2> QED BY <2>1 DEF DayRooms
<1>4. \A row \in DayRooms(bound, from, to) : \E x \in S : f[x] = row
  <2> SUFFICES ASSUME NEW row \in DayRooms(bound, from, to)
               PROVE  \E x \in S : f[x] = row
    OBVIOUS
  <2>1. PICK r \in Room, d \in from .. (to - 1) :
          row = [room |-> r, day |-> d, cell |-> DayCell(bound, r, d)]
    BY DEF DayRooms
  <2>2. <<r, d>> \in S /\ f[<<r, d>>] = row
    BY <2>1
  <2> QED BY <2>2
<1>5. f \in Surjection(S, DayRooms(bound, from, to))
  <2>1. f = [x \in S |-> f[x]]
    OBVIOUS
  <2> HIDE DEF S, f
  <2>2. f \in [S -> DayRooms(bound, from, to)]
    BY <1>3, <2>1
  <2> QED BY <1>4, <2>2 DEF Surjection
<1> HIDE DEF f, S
<1> QED BY <1>2, <1>5, FS_Surjection

\* A run lies in its window and shows, on each of its days, what they show.
LEMMA RunInWindow ==
  ASSUME NEW bound, NEW from \in Int, NEW to \in Int, NEW i \in Compressed(bound, from, to)
  PROVE  /\ i.room \in Room /\ i.from \in Int /\ i.to \in Int
         /\ from <= i.from /\ i.to <= to /\ i.from < i.to
         /\ \A d \in i.from .. (i.to - 1) : DayCell(bound, i.room, d) = i.cell
  BY DEF Compressed, IsRun

\* Its neighbours in the window show something else.
LEMMA RunIsMaximal ==
  ASSUME NEW bound, NEW from \in Int, NEW to \in Int, NEW i \in Compressed(bound, from, to)
  PROVE  /\ i.from = from \/ DayCell(bound, i.room, i.from - 1) # i.cell
         /\ i.to = to \/ DayCell(bound, i.room, i.to) # i.cell
  BY DEF Compressed, IsRun

\* A run is what its four fields are.
LEMMA RunIsRecord ==
  ASSUME NEW bound, NEW from \in Int, NEW to \in Int, NEW i \in Compressed(bound, from, to)
  PROVE  i = [room |-> i.room, from |-> i.from, to |-> i.to, cell |-> i.cell]
  BY DEF Compressed

\* Two runs of one room in one window do not meet.
LEMMA RunsAreDisjoint ==
  ASSUME NEW bound, NEW from \in Int, NEW to \in Int,
         NEW i \in Compressed(bound, from, to), NEW j \in Compressed(bound, from, to),
         i # j, i.room = j.room
  PROVE  i.to <= j.from \/ j.to <= i.from
<1>1. ASSUME NEW a \in Compressed(bound, from, to), NEW b \in Compressed(bound, from, to),
             a.room = b.room, a.from < b.from
      PROVE  a.to <= b.from
  <2>1. /\ a.from \in Int /\ a.to \in Int /\ from <= a.from
        /\ \A d \in a.from .. (a.to - 1) : DayCell(bound, a.room, d) = a.cell
    BY RunInWindow
  <2>2. /\ b.from \in Int /\ b.to \in Int /\ b.from < b.to
        /\ \A d \in b.from .. (b.to - 1) : DayCell(bound, b.room, d) = b.cell
    BY RunInWindow
  <2>3. b.from = from \/ DayCell(bound, b.room, b.from - 1) # b.cell
    BY RunIsMaximal
  <2>4. CASE b.from < a.to
    <3>1. DayCell(bound, a.room, b.from) = a.cell /\ DayCell(bound, a.room, b.from - 1) = a.cell
      BY <1>1, <2>1, <2>2, <2>4
    <3>2. DayCell(bound, b.room, b.from) = b.cell
      BY <2>2
    <3>3. DayCell(bound, b.room, b.from - 1) = b.cell
      BY <1>1, <3>1, <3>2
    <3> QED BY <1>1, <2>1, <2>2, <2>3, <3>3
  <2> QED BY <2>1, <2>2, <2>4
<1>2. /\ i.from \in Int /\ i.to \in Int /\ i.from < i.to /\ i.to <= to
      /\ \A d \in i.from .. (i.to - 1) : DayCell(bound, i.room, d) = i.cell
  BY RunInWindow
<1>3. /\ j.from \in Int /\ j.to \in Int /\ j.from < j.to /\ j.to <= to
      /\ \A d \in j.from .. (j.to - 1) : DayCell(bound, j.room, d) = j.cell
  BY RunInWindow
<1>4. /\ i.to = to \/ DayCell(bound, i.room, i.to) # i.cell
      /\ j.to = to \/ DayCell(bound, j.room, j.to) # j.cell
  BY RunIsMaximal
<1>5. CASE i.from < j.from
  BY <1>1, <1>5
<1>6. CASE j.from < i.from
  BY <1>1, <1>6
<1>7. CASE i.from = j.from
  <2>1. i.cell = j.cell
    <3>1. DayCell(bound, i.room, i.from) = i.cell
      BY <1>2
    <3>2. DayCell(bound, j.room, j.from) = j.cell
      BY <1>3
    <3> QED BY <1>7, <3>1, <3>2
  <2>2. CASE i.to < j.to
    <3>1. DayCell(bound, j.room, i.to) = j.cell
      BY <1>2, <1>3, <1>7, <2>2
    <3> QED BY <1>2, <1>3, <1>4, <2>1, <2>2, <3>1
  <2>3. CASE j.to < i.to
    <3>1. DayCell(bound, i.room, j.to) = i.cell
      BY <1>2, <1>3, <1>7, <2>3
    <3> QED BY <1>2, <1>3, <1>4, <2>1, <2>3, <3>1
  <2>4. CASE i.to = j.to
    <3>1. /\ i = [room |-> i.room, from |-> i.from, to |-> i.to, cell |-> i.cell]
          /\ j = [room |-> j.room, from |-> j.from, to |-> j.to, cell |-> j.cell]
      BY RunIsRecord
    <3> QED BY <1>7, <2>1, <2>4, <3>1
  <2> QED BY <1>2, <1>3, <2>2, <2>3, <2>4
<1> QED BY <1>2, <1>3, <1>5, <1>6, <1>7

-----------------------------------------------------------------------------
(* What a rebuild keeps *)

\* The rows of a rebuild: the new ones of the window, the old ones outside.
LEMMA RebuiltFields ==
  ASSUME NEW rows, NEW bound, NEW from \in Int, NEW to \in Int
  PROVE  /\ Rebuilt(rows, bound, from, to).days
              = {row \in rows.days : row.day < from \/ to <= row.day} \cup DayRooms(bound, from, to)
         /\ Rebuilt(rows, bound, from, to).intervals
              = {i \in rows.intervals : to <= i.from \/ i.to <= from}
                  \cup Compressed(bound, from, to)
         /\ Rebuilt(rows, bound, from, to).summaries
              = {s \in rows.summaries : s.day < from \/ to <= s.day}
                  \cup Summarized(DayRooms(bound, from, to), from, to)
  BY DEF Rebuilt, Cleared

\* A new row is a day of the window with what the claims say of it.
LEMMA NewRow ==
  ASSUME NEW bound \in SUBSET Claim, NEW from \in Int, NEW to \in Int,
         NEW row \in DayRooms(bound, from, to)
  PROVE  /\ row \in DayRoom
         /\ from <= row.day /\ row.day < to
         /\ row.cell = DayCell(bound, row.room, row.day)
         /\ row = [room |-> row.room, day |-> row.day, cell |-> row.cell]
<1>1. PICK r \in Room, d \in from .. (to - 1) :
        row = [room |-> r, day |-> d, cell |-> DayCell(bound, r, d)]
  BY DEF DayRooms
<1>2. DayCell(bound, r, d) \in Cell
  <2>1. d \in Int
    OBVIOUS
  <2> QED BY <2>1, DayCellIsClaim
<1> QED BY <1>1, <1>2 DEF DayRoom

\* Every room has a row for every day of a window just rebuilt.
LEMMA RebuiltHasWindow ==
  ASSUME NEW rows, NEW bound, NEW from \in Int, NEW to \in Int,
         NEW r \in Room, NEW d \in Int, from <= d, d < to
  PROVE  [room |-> r, day |-> d, cell |-> DayCell(bound, r, d)]
           \in Rebuilt(rows, bound, from, to).days
<1>1. [room |-> r, day |-> d, cell |-> DayCell(bound, r, d)] \in DayRooms(bound, from, to)
  BY DEF DayRooms
<1>2. DayRooms(bound, from, to) \subseteq Rebuilt(rows, bound, from, to).days
  BY DEF Rebuilt
<1> QED BY <1>1, <1>2

\* The counts of a window are numbers, since a window is finite.
LEMMA SummariesTyped ==
  ASSUME NEW bound \in SUBSET Claim, NEW from \in Int, NEW to \in Int,
         NEW s \in Summarized(DayRooms(bound, from, to), from, to)
  PROVE  /\ s \in [day : Int, type : Type, count : [Status -> Nat]]
         /\ from <= s.day /\ s.day < to
         /\ \A k \in Status : s.count[k] = Count(DayRooms(bound, from, to), s.day, s.type, k)
<1> DEFINE new == DayRooms(bound, from, to)
<1> HIDE DEF new
<1>1. IsFiniteSet(new)
  BY WindowIsFinite DEF new
<1>2. PICK d \in from .. (to - 1), k \in {TypeOf[r] : r \in Room} :
        s = [day |-> d, type |-> k, count |-> [v \in Status |-> Count(new, d, k, v)]]
  BY DEF Summarized, new
<1>3. ASSUME NEW v \in Status  PROVE Count(new, d, k, v) \in Nat
  <2>1. PICK T : T = {row \in new : /\ row.day = d /\ TypeOf[row.room] = k
                                    /\ CellStatus(row.cell) = v}
    OBVIOUS
  <2>2. T \in SUBSET new
    BY <2>1
  <2>3. IsFiniteSet(T)
    BY <1>1, <2>2, FS_Subset
  <2>4. Cardinality(T) \in Nat
    BY <2>3, FS_CardinalityType
  <2> QED BY <2>1, <2>4 DEF Count
<1>4. k \in Type
  BY <1>2, RoomAssumption
<1>5. [v \in Status |-> Count(new, d, k, v)] \in [Status -> Nat]
  BY <1>3
<1>6. s \in [day : Int, type : Type, count : [Status -> Nat]]
  BY <1>2, <1>4, <1>5
<1>7. \A v \in Status : s.count[v] = Count(new, s.day, s.type, v)
  BY <1>2
<1> QED BY <1>2, <1>6, <1>7 DEF new

\* A rebuild of typed tables gives typed tables.
LEMMA RebuiltTyped ==
  ASSUME NEW rows, NEW bound \in SUBSET Claim, NEW from \in Int, NEW to \in Int, Typed(rows)
  PROVE  Typed(Rebuilt(rows, bound, from, to))
<1> DEFINE new == DayRooms(bound, from, to)
           all == Rebuilt(rows, bound, from, to)
<1>1. all.days \subseteq DayRoom
  <2>1. new \subseteq DayRoom
    BY NewRow
  <2> QED BY <2>1, RebuiltFields DEF Typed
<1>2. all.intervals \subseteq Interval
  <2>1. ASSUME NEW i \in Compressed(bound, from, to)  PROVE i \in Interval
    <3>1. i.room \in Room /\ i.from \in Int /\ i.to \in Int /\ i.from < i.to
      BY RunInWindow
    <3>2. DayCell(bound, i.room, i.from) = i.cell
      BY <3>1, RunInWindow
    <3>3. i.cell \in Cell
      BY <3>1, <3>2, DayCellIsClaim
    <3> QED BY <3>1, <3>3, RunIsRecord DEF Interval
  <2> QED BY <2>1, RebuiltFields DEF Typed
<1>3. all.summaries \subseteq [day : Int, type : Type, count : [Status -> Nat]]
  <2>1. Summarized(new, from, to) \subseteq [day : Int, type : Type, count : [Status -> Nat]]
    BY SummariesTyped
  <2> QED BY <2>1, RebuiltFields DEF Typed
<1>4. all = [days |-> all.days, intervals |-> all.intervals, summaries |-> all.summaries]
  BY DEF Rebuilt
<1> HIDE DEF all
<1>5. Typed(all)
  BY <1>1, <1>2, <1>3, <1>4 DEF Typed
<1> QED BY <1>5 DEF all

\* The counts of a day depend on the rows of that day.
LEMMA CountIsLocal ==
  ASSUME NEW some, NEW other, NEW d, NEW k, NEW v,
         \A row \in some : row.day = d => row \in other,
         \A row \in other : row.day = d => row \in some
  PROVE  Count(some, d, k, v) = Count(other, d, k, v)
<1>1. {row \in some : row.day = d /\ TypeOf[row.room] = k /\ CellStatus(row.cell) = v}
        = {row \in other : row.day = d /\ TypeOf[row.room] = k /\ CellStatus(row.cell) = v}
  OBVIOUS
<1> QED BY <1>1 DEF Count

\* A rebuild of tables that agree gives tables that agree.
LEMMA RebuiltAgrees ==
  ASSUME NEW rows, NEW bound \in SUBSET Claim, NEW from \in Int, NEW to \in Int,
         Typed(rows), Agree(rows)
  PROVE  Agree(Rebuilt(rows, bound, from, to))
<1>a. PICK new : new = DayRooms(bound, from, to)
  OBVIOUS
<1>b. PICK all : all = Rebuilt(rows, bound, from, to)
  OBVIOUS
<1>c. /\ all.days = {row \in rows.days : row.day < from \/ to <= row.day} \cup new
      /\ all.intervals = {i \in rows.intervals : to <= i.from \/ i.to <= from}
                           \cup Compressed(bound, from, to)
      /\ all.summaries = {s \in rows.summaries : s.day < from \/ to <= s.day}
                           \cup Summarized(new, from, to)
  BY <1>a, <1>b, RebuiltFields
<1>d. \A i \in rows.intervals : \A d \in i.from .. (i.to - 1) :
        \A row \in rows.days : row.room = i.room /\ row.day = d => row.cell = i.cell
  BY DEF Agree
<1>e. \A row \in new : /\ row \in DayRoom /\ from <= row.day /\ row.day < to
                        /\ row.cell = DayCell(bound, row.room, row.day)
                        /\ row = [room |-> row.room, day |-> row.day, cell |-> row.cell]
  BY <1>a, NewRow
<1>0. /\ \A row \in rows.days : row \in DayRoom
      /\ \A i \in rows.intervals : i \in Interval
      /\ \A s \in rows.summaries : s \in [day : Int, type : Type, count : [Status -> Nat]]
  BY DEF Typed
<1>1. ASSUME NEW i \in all.intervals, NEW j \in all.intervals, i # j, i.room = j.room
      PROVE  i.to <= j.from \/ j.to <= i.from
  <2>1. ASSUME NEW a \in Compressed(bound, from, to), NEW b \in rows.intervals,
               to <= b.from \/ b.to <= from
        PROVE  a.to <= b.from \/ b.to <= a.from
    <3>1. a.from \in Int /\ a.to \in Int /\ from <= a.from /\ a.to <= to
      BY RunInWindow
    <3>2. b.from \in Int /\ b.to \in Int
      BY <1>0 DEF Interval
    <3> QED BY <2>1, <3>1, <3>2
  <2>2. CASE i \in Compressed(bound, from, to) /\ j \in Compressed(bound, from, to)
    BY <1>1, <2>2, RunsAreDisjoint
  <2>3. CASE i \in rows.intervals /\ j \in rows.intervals
    BY <1>1, <2>3 DEF Agree
  <2>4. CASE /\ i \in Compressed(bound, from, to)
             /\ j \in rows.intervals /\ (to <= j.from \/ j.to <= from)
    BY <2>1, <2>4
  <2>5. CASE /\ j \in Compressed(bound, from, to)
             /\ i \in rows.intervals /\ (to <= i.from \/ i.to <= from)
    BY <2>1, <2>5
  <2> QED BY <2>2, <2>3, <2>4, <2>5, <1>c
<1>2. ASSUME NEW i \in all.intervals, NEW d \in i.from .. (i.to - 1),
             NEW row \in all.days, row.room = i.room, row.day = d
      PROVE  row.cell = i.cell
  <2>1. CASE i \in Compressed(bound, from, to)
    <3>1. /\ i.from \in Int /\ i.to \in Int /\ from <= i.from /\ i.to <= to
          /\ DayCell(bound, i.room, d) = i.cell
      BY <2>1, RunInWindow
    <3>2. from <= row.day /\ row.day < to
      BY <1>2, <3>1
    <3>3. row \in new
      BY <3>2, <1>0, <1>c DEF DayRoom
    <3>4. row.cell = DayCell(bound, row.room, row.day)
      BY <3>3, <1>e
    <3> QED BY <1>2, <3>1, <3>4
  <2>2. CASE i \in rows.intervals /\ (to <= i.from \/ i.to <= from)
    <3>1. i.from \in Int /\ i.to \in Int
      BY <2>2, <1>0 DEF Interval
    <3>2. row \notin new
      <4> SUFFICES ASSUME row \in new  PROVE FALSE
        OBVIOUS
      <4>1. from <= row.day /\ row.day < to
        BY <1>e
      <4> QED BY <4>1, <1>2, <2>2, <3>1
    <3>3. row \in rows.days
      BY <3>2, <1>c
    <3> QED BY <1>2, <1>d, <2>2, <3>3
  <2> QED BY <2>1, <2>2, <1>c
<1>3. ASSUME NEW row \in all.days, NEW other \in all.days,
             row.room = other.room, row.day = other.day
      PROVE  row = other
  <2>1. CASE row \in new /\ other \in new
    <3>1. /\ row.cell = DayCell(bound, row.room, row.day)
          /\ row = [room |-> row.room, day |-> row.day, cell |-> row.cell]
      BY <2>1, <1>e
    <3>2. /\ other.cell = DayCell(bound, other.room, other.day)
          /\ other = [room |-> other.room, day |-> other.day, cell |-> other.cell]
      BY <2>1, <1>e
    <3> QED BY <1>3, <3>1, <3>2
  <2>2. CASE row \in rows.days /\ other \in rows.days
    BY <1>3, <2>2 DEF Agree
  <2>3. ASSUME NEW a \in new, NEW b \in rows.days, b.day < from \/ to <= b.day, a.day = b.day
        PROVE  FALSE
    <3>1. from <= a.day /\ a.day < to /\ a.day \in Int
      BY <1>e DEF DayRoom
    <3> QED BY <2>3, <3>1
  <2>4. /\ row \in new \/ (row \in rows.days /\ (row.day < from \/ to <= row.day))
        /\ other \in new \/ (other \in rows.days /\ (other.day < from \/ to <= other.day))
    BY <1>c
  <2> QED BY <1>3, <2>1, <2>2, <2>3, <2>4
<1>4. ASSUME NEW s \in all.summaries, NEW v \in Status
      PROVE  s.count[v] = Count(all.days, s.day, s.type, v)
  <2>1. CASE s \in Summarized(new, from, to)
    <3>1. from <= s.day /\ s.day < to /\ s.count[v] = Count(new, s.day, s.type, v)
      BY <1>a, <2>1, SummariesTyped
    <3>2. \A row \in all.days : row.day = s.day => row \in new
      BY <3>1, <1>0, <1>c DEF DayRoom
    <3>3. \A row \in new : row \in all.days
      BY <1>c
    <3>4. Count(all.days, s.day, s.type, v) = Count(new, s.day, s.type, v)
      BY <3>2, <3>3, CountIsLocal
    <3> QED BY <3>1, <3>4
  <2>2. CASE s \in rows.summaries /\ (s.day < from \/ to <= s.day)
    <3>1. s.count[v] = Count(rows.days, s.day, s.type, v)
      BY <2>2 DEF Agree
    <3>2. s.day \in Int
      BY <2>2, <1>0
    <3>3. \A row \in all.days : row.day = s.day => row \in rows.days
      <4> SUFFICES ASSUME NEW row \in new, row.day = s.day  PROVE FALSE
        BY <1>c
      <4>1. from <= row.day /\ row.day < to
        BY <1>e
      <4> QED BY <4>1, <2>2, <3>2
    <3>4. \A row \in rows.days : row.day = s.day => row \in all.days
      BY <2>2, <1>c
    <3>5. Count(all.days, s.day, s.type, v) = Count(rows.days, s.day, s.type, v)
      BY <3>3, <3>4, CountIsLocal
    <3> QED BY <3>1, <3>5
  <2> QED BY <2>1, <2>2, <1>c
<1>5. Agree(all)
  BY <1>1, <1>2, <1>3, <1>4 DEF Agree
<1> QED BY <1>5, <1>b

-----------------------------------------------------------------------------
(* The invariant *)

\* The typing of the state, the agreement of the tables, the default horizon
\* being current, and what the last search offered being free.
InventoryInv ==
  /\ claims \subseteq Claim /\ today \in Int /\ horizon \in Int
  /\ answer # Absent => answer.to - answer.from \in 1 .. Cap
  /\ Typed(tables) /\ Agree(tables)
  /\ HorizonIsCurrent
  /\ OffersAreFree

\* A window a client asks for is never longer than the cap, nor empty.
LEMMA ClampedInRange ==
  ASSUME NEW n \in Int
  PROVE  Clamped(n) \in Int /\ 1 <= Clamped(n) /\ Clamped(n) <= Cap
  BY HorizonAssumption DEF Clamped

\* The end of a transaction that has left the claims "bound", marked, and the
\* tables "rows".
Committed(bound, rows) ==
  /\ claims' = bound
  /\ tables' = Rebuilt(rows, bound, today, today + DefaultHorizon)
  /\ horizon' = today
  /\ answer' = Absent
  /\ UNCHANGED today

\* A write marks the transaction, whatever was rebuilt before it.
LEMMA WriteIsCommitted ==
  ASSUME NEW tx, NEW bound, Commit(Write(tx, bound))
  PROVE  Committed(bound, tx.tables)
BY DEF Commit, Write, Rebuild, Committed

\* The check of a booking leaves typed tables that agree.
LEMMA CheckedIsSound ==
  ASSUME InventoryInv, NEW from \in Int, NEW to \in Int
  PROVE  Typed(Checked(from, to).tables) /\ Agree(Checked(from, to).tables)
<1>1. PICK end : end = from + Clamped(to - from)
  OBVIOUS
<1>2. end \in Int
  <2>1. Clamped(to - from) \in Int
    BY ClampedInRange
  <2> QED BY <1>1, <2>1
<1>3. Typed(tables) /\ Agree(tables) /\ claims \in SUBSET Claim
  BY DEF InventoryInv
<1>4. Checked(from, to).tables = Rebuilt(tables, claims, from, end)
  BY <1>1 DEF Checked, CheckedUntil, Rebuild, Begin
<1> QED BY <1>2, <1>3, <1>4, RebuiltTyped, RebuiltAgrees

\* A commit, from whatever tables the transaction left, ends in a good state.
LEMMA CommitKeepsInv ==
  ASSUME InventoryInv, NEW bound \in SUBSET Claim, NEW rows, Typed(rows), Agree(rows),
         Committed(bound, rows)
  PROVE  InventoryInv'
<1>1. PICK end : end = today + DefaultHorizon
  OBVIOUS
<1>2. today \in Int /\ end \in Int
  BY <1>1, HorizonAssumption DEF InventoryInv
<1>3. /\ claims' = bound /\ today' = today /\ horizon' = today /\ answer' = Absent
      /\ tables' = Rebuilt(rows, bound, today, end)
  BY <1>1 DEF Committed
<1>4. Typed(tables')
  BY <1>2, <1>3, RebuiltTyped
<1>5. Agree(tables')
  BY <1>2, <1>3, RebuiltAgrees
<1>6. HorizonIsCurrent'
  <2> SUFFICES ASSUME NEW r \in Room, NEW d \in today .. (today + DefaultHorizon - 1)
               PROVE  [room |-> r, day |-> d, cell |-> DayCell(bound, r, d)] \in tables'.days
    BY <1>3 DEF HorizonIsCurrent
  <2>1. d \in Int /\ today <= d /\ d < end
    BY <1>1, <1>2, HorizonAssumption
  <2> QED BY <1>2, <1>3, <2>1, RebuiltHasWindow
<1>7. OffersAreFree'
  BY <1>3 DEF OffersAreFree
<1> QED BY <1>2, <1>3, <1>4, <1>5, <1>6, <1>7 DEF InventoryInv

\* A rebuild of any window from the claims as they are keeps the tables typed,
\* in agreement, and current over the default horizon.
LEMMA RereadKeepsTables ==
  ASSUME InventoryInv, NEW from \in Int, NEW to \in Int,
         tables' = Rebuilt(tables, claims, from, to),
         UNCHANGED <<claims, today, horizon>>
  PROVE  /\ claims' \subseteq Claim /\ today' \in Int /\ horizon' \in Int
         /\ Typed(tables') /\ Agree(tables') /\ HorizonIsCurrent'
<1>1. Typed(tables) /\ Agree(tables) /\ claims \in SUBSET Claim
      /\ today \in Int /\ horizon \in Int /\ HorizonIsCurrent
  BY DEF InventoryInv
<1>2. Typed(tables')
  BY <1>1, RebuiltTyped
<1>3. Agree(tables')
  BY <1>1, RebuiltAgrees
<1>4. HorizonIsCurrent'
  <2> SUFFICES ASSUME NEW r \in Room, NEW d \in horizon .. (horizon + DefaultHorizon - 1)
               PROVE  [room |-> r, day |-> d, cell |-> DayCell(claims, r, d)] \in tables'.days
    BY DEF HorizonIsCurrent
  <2>1. PICK row : row = [room |-> r, day |-> d, cell |-> DayCell(claims, r, d)]
    OBVIOUS
  <2>2. row \in tables.days /\ row.day = d /\ d \in Int
    BY <1>1, <2>1, HorizonAssumption DEF HorizonIsCurrent
  <2>3. CASE from <= d /\ d < to
    BY <2>2, <2>3, RebuiltHasWindow
  <2>4. CASE d < from \/ to <= d
    BY <2>1, <2>2, <2>4, RebuiltFields
  <2> QED BY <2>2, <2>3, <2>4
<1> QED BY <1>1, <1>2, <1>3, <1>4

\* The first tables are a rebuild of empty ones.
LEMMA InventoryInitial == Init => InventoryInv
<1> SUFFICES ASSUME Init  PROVE InventoryInv
  OBVIOUS
<1>1. PICK none : none = [days |-> {}, intervals |-> {}, summaries |-> {}]
  OBVIOUS
<1>2. PICK end : end = 1 + DefaultHorizon
  OBVIOUS
<1>3. end \in Int
  BY <1>2, HorizonAssumption
<1>4. /\ claims = {} /\ today = 1 /\ horizon = 1 /\ answer = Absent
      /\ tables = Rebuilt(none, {}, 1, end)
  BY <1>1, <1>2 DEF Init
<1>5. Typed(none)
  BY <1>1 DEF Typed
<1>6. Agree(none)
  BY <1>1 DEF Agree
<1>7. {} \in SUBSET Claim /\ 1 \in Int
  OBVIOUS
<1>8. Typed(tables)
  BY <1>3, <1>4, <1>5, <1>7, RebuiltTyped
<1>9. Agree(tables)
  BY <1>3, <1>4, <1>5, <1>6, <1>7, RebuiltAgrees
<1>10. HorizonIsCurrent
  <2> SUFFICES ASSUME NEW r \in Room, NEW d \in horizon .. (horizon + DefaultHorizon - 1)
               PROVE  [room |-> r, day |-> d, cell |-> DayCell(claims, r, d)] \in tables.days
    BY DEF HorizonIsCurrent
  <2>1. d \in Int /\ 1 <= d /\ d < end
    BY <1>2, <1>4, HorizonAssumption
  <2> QED BY <1>3, <1>4, <1>7, <2>1, RebuiltHasWindow
<1>11. OffersAreFree
  BY <1>4 DEF OffersAreFree
<1> QED BY <1>4, <1>7, <1>8, <1>9, <1>10, <1>11 DEF InventoryInv

-----------------------------------------------------------------------------
(* The steps *)

\* Commits that start from the stored tables need a legal set of claims only.
LEMMA StoredCommitKeepsInv ==
  ASSUME InventoryInv, NEW bound, bound \subseteq Claim, Commit(Write(Begin, bound))
  PROVE  InventoryInv'
<1>1. Typed(tables) /\ Agree(tables) /\ bound \in SUBSET Claim
  BY DEF InventoryInv
<1>2. Begin.tables = tables
  BY DEF Begin
<1>3. Committed(bound, tables)
  BY <1>2, WriteIsCommitted
<1> QED BY <1>1, <1>3, CommitKeepsInv

\* A booking, with or without the check, and the check alone.
LEMMA BookingKeepsInv ==
  ASSUME InventoryInv, NEW c \in Booked, Book(c) \/ BookDirect(c) \/ CheckNights(c)
  PROVE  InventoryInv'
<1>1. c \in Claim /\ c.from \in Int /\ c.to \in Int
  BY BookedAssumption DEF Claim
<1>2. claims \cup {c} \in SUBSET Claim
  BY <1>1 DEF InventoryInv
<1>3. CASE Book(c)
  <2>1. Commit(Write(Begin, claims \cup {c}))
    BY <1>3 DEF Book
  <2> QED BY <1>2, <2>1, StoredCommitKeepsInv
<1>4. CASE BookDirect(c)
  <2>1. PICK rows : rows = Checked(c.from, c.to).tables
    OBVIOUS
  <2>2. Typed(rows) /\ Agree(rows)
    BY <1>1, <2>1, CheckedIsSound
  <2>3. Committed(claims \cup {c}, rows)
    BY <1>4, <2>1, WriteIsCommitted DEF BookDirect
  <2> QED BY <1>2, <2>2, <2>3, CommitKeepsInv
<1>5. CASE CheckNights(c)
  <2>1. PICK end : end = c.from + Clamped(c.to - c.from)
    OBVIOUS
  <2>2. end \in Int
    <3>1. Clamped(c.to - c.from) \in Int
      BY <1>1, ClampedInRange
    <3> QED BY <1>1, <2>1, <3>1
  <2>3. /\ tables' = Rebuilt(tables, claims, c.from, end)
        /\ answer' = Absent /\ UNCHANGED <<claims, today, horizon>>
    BY <1>5, <2>1 DEF CheckNights, Checked, CheckedUntil, Rebuild, Begin, Commit
  <2>4. /\ claims' \subseteq Claim /\ today' \in Int /\ horizon' \in Int
        /\ Typed(tables') /\ Agree(tables') /\ HorizonIsCurrent'
    BY <1>1, <2>2, <2>3, RereadKeepsTables
  <2>5. OffersAreFree'
    BY <2>3 DEF OffersAreFree
  <2> QED BY <2>3, <2>4, <2>5 DEF InventoryInv
<1> QED BY <1>3, <1>4, <1>5

\* Arrivals, cancellations and departures.
LEMMA StayStepKeepsInv ==
  ASSUME InventoryInv, NEW c \in claims, Arrive(c) \/ Cancel(c) \/ Leave(c)
  PROVE  InventoryInv'
<1>0. claims \subseteq Claim /\ c \in Claim /\ today \in Int
  BY DEF InventoryInv
<1>1. CASE Arrive(c)
  <2>1. [c EXCEPT !.kind = "stay", !.from = today] \in Claim
    BY <1>0 DEF Claim
  <2>2. claims \cup {[c EXCEPT !.kind = "stay", !.from = today]} \subseteq Claim
    BY <1>0, <2>1
  <2> QED BY <1>1, <2>2, StoredCommitKeepsInv DEF Arrive
<1>2. CASE Cancel(c)
  <2>1. claims \ {c} \subseteq Claim
    BY <1>0
  <2> QED BY <1>2, <2>1, StoredCommitKeepsInv DEF Cancel
<1>3. CASE Leave(c)
  <2>1. {o \in claims : o.room = c.room /\ o.to = c.to
                          => o.kind \notin {"stay", "reservation"}} \subseteq Claim
    BY <1>0
  <2> QED BY <1>3, <2>1, StoredCommitKeepsInv DEF Leave
<1> QED BY <1>1, <1>2, <1>3

\* Repair blocks and sale stops.
LEMMA RoomStepKeepsInv ==
  ASSUME InventoryInv, NEW r \in Room, OpenBlock(r) \/ StopSale(r) \/ RestoreSale(r)
  PROVE  InventoryInv'
<1>0. claims \subseteq Claim /\ today \in Int
  BY DEF InventoryInv
<1>1. CASE OpenBlock(r)
  <2>1. [kind |-> "block", room |-> r, from |-> today, to |-> Absent] \in Claim
    BY <1>0 DEF Claim
  <2>2. claims \cup {[kind |-> "block", room |-> r, from |-> today, to |-> Absent]}
          \subseteq Claim
    BY <1>0, <2>1
  <2> QED BY <1>1, <2>2, StoredCommitKeepsInv DEF OpenBlock
<1>2. CASE StopSale(r)
  <2>1. SaleStop(r) \in Claim
    BY DEF SaleStop, Claim
  <2>2. claims \cup {SaleStop(r)} \subseteq Claim
    BY <1>0, <2>1
  <2> QED BY <1>2, <2>2, StoredCommitKeepsInv DEF StopSale
<1>3. CASE RestoreSale(r)
  <2>1. {o \in claims : o.room = r => o.kind \notin {"block", "sale"}} \subseteq Claim
    BY <1>0
  <2> QED BY <1>3, <2>1, StoredCommitKeepsInv DEF RestoreSale
<1> QED BY <1>1, <1>2, <1>3

\* Reading the tables, whatever the window.
LEMMA ReadKeepsInv ==
  ASSUME InventoryInv, NEW from \in Start, NEW n \in Length, Read(from, n)
  PROVE  InventoryInv'
<1>1. PICK to : to = from + Clamped(n)
  OBVIOUS
<1>2. from \in Int /\ to \in Int /\ to - from \in 1 .. Cap
  <2>1. from \in Int /\ n \in Int
    BY WindowAssumption
  <2>2. Clamped(n) \in Int /\ 1 <= Clamped(n) /\ Clamped(n) <= Cap
    BY <2>1, ClampedInRange
  <2> QED BY <1>1, <2>1, <2>2, HorizonAssumption
<1>3. /\ tables' = Rebuilt(tables, claims, from, to)
      /\ UNCHANGED <<claims, today, horizon>>
      /\ answer' = [from |-> from, to |-> to,
                    days |-> Listed(tables', from, to),
                    intervals |-> {i \in tables'.intervals : i.from < to /\ from < i.to}]
  BY <1>1 DEF Read, Reread
<1>4. /\ claims' \subseteq Claim /\ today' \in Int /\ horizon' \in Int
      /\ Typed(tables') /\ Agree(tables') /\ HorizonIsCurrent'
  BY <1>2, <1>3, RereadKeepsTables
<1>5. answer'.to - answer'.from \in 1 .. Cap
  BY <1>2, <1>3
<1>6. OffersAreFree'
  <2>1. "rooms" \notin DOMAIN answer'
    BY <1>3
  <2> QED BY <2>1 DEF OffersAreFree
<1> QED BY <1>4, <1>5, <1>6 DEF InventoryInv

\* What a search offers: a night it asks for has a row of the window that says
\* "available", and the rows of the window say what the claims say.
LEMMA SearchKeepsInv ==
  ASSUME InventoryInv, NEW from \in Start, NEW to \in Until, NEW n \in Length,
         Search(from, to, n)
  PROVE  InventoryInv'
<1>1. PICK end : end = from + Clamped(n)
  OBVIOUS
<1>2. from \in Int /\ to \in Int /\ end \in Int /\ from < end /\ end <= from + Cap
  <2>1. from \in Int /\ to \in Int /\ n \in Int
    BY WindowAssumption
  <2>2. Clamped(n) \in Int /\ 1 <= Clamped(n) /\ Clamped(n) <= Cap
    BY <2>1, ClampedInRange
  <2> QED BY <1>1, <2>1, <2>2, HorizonAssumption
<1>3. PICK listed : listed = Listed(tables', from, end)
  OBVIOUS
<1>4. /\ tables' = Rebuilt(tables, claims, from, end)
      /\ UNCHANGED <<claims, today, horizon>>
      /\ answer' = [from |-> from, to |-> end, until |-> to,
                    rooms |-> Available(listed, Asked(from, to))]
  BY <1>1, <1>3 DEF Search, Reread
<1>5. /\ claims' \subseteq Claim /\ today' \in Int /\ horizon' \in Int
      /\ Typed(tables') /\ Agree(tables') /\ HorizonIsCurrent'
  BY <1>2, <1>4, RereadKeepsTables
<1>6. answer'.to - answer'.from \in 1 .. Cap
  BY <1>2, <1>4, HorizonAssumption
<1>7. listed = {row \in tables'.days : from <= row.day /\ row.day < end}
  BY <1>3 DEF Listed
<1>8. ASSUME NEW r \in Available(listed, Asked(from, to)), NEW d \in from .. (to - 1)
      PROVE  Claiming(claims, r, d) = {}
  <2>1. r \in Room
    BY DEF Available
  <2>2. \A night \in Asked(from, to) : [room |-> r, day |-> night, cell |-> Absent] \in listed
    BY DEF Available
  <2>3. ASSUME NEW night \in Asked(from, to)  PROVE from <= night /\ night < end
    <3>1. PICK row : row = [room |-> r, day |-> night, cell |-> Absent]
      OBVIOUS
    <3>2. row \in listed /\ row.day = night
      BY <2>2, <3>1
    <3> QED BY <1>7, <3>2
  <2>4. Asked(from, to) = {night \in from .. (to - 1) : night <= from + Cap}
    BY <1>2 DEF Asked
  <2>5. d <= from + Cap
    <3>1. CASE d > from + Cap
      <4>1. from + Cap \in Asked(from, to)
        BY <1>2, <2>4, <3>1, HorizonAssumption
      <4> QED BY <1>2, <2>3, <4>1, HorizonAssumption
    <3> QED BY <1>2, <3>1, HorizonAssumption
  <2>6. d \in Asked(from, to) /\ d \in Int
    BY <1>2, <2>4, <2>5
  <2>7. PICK said : said = [room |-> r, day |-> d, cell |-> Absent]
    OBVIOUS
  <2>8. PICK true : true = [room |-> r, day |-> d, cell |-> DayCell(claims, r, d)]
    OBVIOUS
  <2>9. said \in tables'.days
    BY <1>7, <2>2, <2>6, <2>7
  <2>10. true \in tables'.days
    BY <1>2, <1>4, <2>1, <2>3, <2>6, <2>8, RebuiltHasWindow
  <2>11. said = true
    BY <1>5, <2>7, <2>8, <2>9, <2>10 DEF Agree
  <2>12. DayCell(claims, r, d) = Absent
    BY <2>7, <2>8, <2>11
  <2>13. claims \in SUBSET Claim
    BY DEF InventoryInv
  <2> QED BY <2>1, <2>6, <2>12, <2>13, DayCellIsClaim
<1>9. OffersAreFree'
  <2>1. answer'.rooms = Available(listed, Asked(from, to)) /\ answer'.from = from
        /\ answer'.until = to /\ claims' = claims
    BY <1>4
  <2> QED BY <1>8, <2>1 DEF OffersAreFree
<1> QED BY <1>5, <1>6, <1>9 DEF InventoryInv

\* Midnight touches the date only.
LEMMA NextDayKeepsInv ==
  ASSUME InventoryInv, NextDay
  PROVE  InventoryInv'
<1>1. today' \in Int /\ answer' = Absent /\ UNCHANGED <<claims, tables, horizon>>
  BY DEF NextDay, InventoryInv
<1>2. HorizonIsCurrent'
  BY <1>1 DEF HorizonIsCurrent, InventoryInv
<1>3. OffersAreFree'
  BY <1>1 DEF OffersAreFree
<1> QED BY <1>1, <1>2, <1>3 DEF InventoryInv

\* The invariant is inductive.
LEMMA InventoryStepKeepsInv == InventoryInv /\ [Next]_vars => InventoryInv'
<1> SUFFICES ASSUME InventoryInv, [Next]_vars  PROVE InventoryInv'
  OBVIOUS
<1>1. CASE Next
  <2>1. CASE \E c \in Booked : Book(c) \/ BookDirect(c) \/ CheckNights(c)
    BY <2>1, BookingKeepsInv
  <2>2. CASE \E c \in claims : Arrive(c) \/ Cancel(c) \/ Leave(c)
    BY <2>2, StayStepKeepsInv
  <2>3. CASE \E r \in Room : OpenBlock(r) \/ StopSale(r) \/ RestoreSale(r)
    BY <2>3, RoomStepKeepsInv
  <2>4. CASE \E from \in Start, n \in Length : Read(from, n)
    BY <2>4, ReadKeepsInv
  <2>5. CASE \E from \in Start, to \in Until, n \in Length : Search(from, to, n)
    BY <2>5, SearchKeepsInv
  <2>6. CASE NextDay
    BY <2>6, NextDayKeepsInv
  <2> QED BY <1>1, <2>1, <2>2, <2>3, <2>4, <2>5, <2>6 DEF Next
<1>2. CASE UNCHANGED vars
  BY <1>2 DEF vars, InventoryInv, HorizonIsCurrent, OffersAreFree
<1> QED BY <1>1, <1>2

-----------------------------------------------------------------------------
(* The theorems *)

\* The invariant holds of every reachable state.
THEOREM InventoryInvariant == Spec => []InventoryInv
  BY InventoryInitial, InventoryStepKeepsInv, PTL DEF Spec

\* Claims, tables and answers have their types, and no window exceeds the cap.
THEOREM InventoryTypeCorrect == Spec => []InventoryTypeOK
<1>1. InventoryInv => InventoryTypeOK
  BY DEF InventoryInv, InventoryTypeOK, Typed
<1> QED BY <1>1, InventoryInvariant, PTL

\* The day rows, the intervals and the counts never contradict each other,
\* for any rooms, claims and windows, overlapping as they may.
THEOREM TablesAlwaysAgree == Spec => []TablesAgree
<1>1. InventoryInv => TablesAgree
  BY DEF InventoryInv, TablesAgree, Agree
<1> QED BY <1>1, InventoryInvariant, PTL

\* The default horizon, as of the last commit, says what the claims say.
THEOREM HorizonStaysCurrent == Spec => []HorizonIsCurrent
<1>1. InventoryInv => HorizonIsCurrent
  BY DEF InventoryInv
<1> QED BY <1>1, InventoryInvariant, PTL

\* A search offers no room that anything claims on one of the nights, however
\* long the stay.
THEOREM OffersAreSound == Spec => []OffersAreFree
<1>1. InventoryInv => OffersAreFree
  BY DEF InventoryInv
<1> QED BY <1>1, InventoryInvariant, PTL

-----------------------------------------------------------------------------
(* A run for every day: the first and the last day of the run around a day *)
(* exist because the days before and after it in the window are bounded.   *)

\* The naturals are well ordered.
LEMMA NatHasLeast ==
  ASSUME NEW T \in SUBSET Nat, T # {}
  PROVE  \E x \in T : \A y \in T : x <= y
<1> DEFINE R == OpToRel(<, Nat)
<1>1. IsWellFoundedOn(R, Nat)
  BY NatLessThanWellFounded, Zenon
<1> HIDE DEF R
<1>2. PICK x \in T : \A y \in T : ~(<<y, x>> \in R)
  BY <1>1, WFMin
<1>3. \A y \in T : ~(y < x)
  BY <1>2 DEF R, OpToRel
<1> QED BY <1>3

\* A set of integers that is bounded below has a least element.
LEMMA IntHasLeast ==
  ASSUME NEW b \in Int, NEW T \in SUBSET Int, T # {}, \A x \in T : b <= x
  PROVE  \E x \in T : \A y \in T : x <= y
<1> DEFINE S == {n \in Nat : n + b \in T}
<1>1. PICK t \in T : TRUE
  OBVIOUS
<1>2. t - b \in S
  <2>1. t - b \in Nat /\ (t - b) + b = t
    OBVIOUS
  <2> QED BY <2>1
<1>3. S \in SUBSET Nat /\ S # {}
  BY <1>2
<1>4. PICK n \in S : \A m \in S : n <= m
  <2> HIDE DEF S
  <2> QED BY <1>3, NatHasLeast
<1>5. \A y \in T : n + b <= y
  <2> SUFFICES ASSUME NEW y \in T PROVE n + b <= y
    OBVIOUS
  <2>1. y - b \in Nat /\ (y - b) + b = y
    OBVIOUS
  <2>2. n <= y - b
    BY <1>4, <2>1
  <2> QED BY <2>2, <1>4
<1> QED BY <1>4, <1>5

\* A set of integers that is bounded above has a greatest element.
LEMMA IntHasGreatest ==
  ASSUME NEW b \in Int, NEW T \in SUBSET Int, T # {}, \A x \in T : x <= b
  PROVE  \E x \in T : \A y \in T : y <= x
<1> DEFINE S == {z \in Int : -z \in T}
<1>1. S \in SUBSET Int /\ S # {} /\ \A z \in S : -b <= z
  <2>1. PICK t \in T : TRUE
    OBVIOUS
  <2>2. -t \in Int /\ -(-t) = t
    OBVIOUS
  <2>3. -t \in S
    BY <2>1, <2>2
  <2>4. \A z \in S : -b <= z
    <3> SUFFICES ASSUME NEW z \in S PROVE -b <= z
      OBVIOUS
    <3>1. -z <= b
      OBVIOUS
    <3> QED BY <3>1
  <2> QED BY <2>3, <2>4
<1>2. PICK z \in S : \A y \in S : z <= y
  <2> HIDE DEF S
  <2>1. -b \in Int
    OBVIOUS
  <2> QED BY <1>1, <2>1, IntHasLeast
<1>3. \A y \in T : y <= -z
  <2> SUFFICES ASSUME NEW y \in T PROVE y <= -z
    OBVIOUS
  <2>1. -y \in Int /\ -(-y) = y
    OBVIOUS
  <2>2. -y \in S
    BY <2>1
  <2>3. z <= -y
    BY <1>2, <2>2
  <2> QED BY <2>3
<1> QED BY <1>2, <1>3

\* Every room-day of the window lies in a run that shows what the day shows.
LEMMA RunExists ==
  ASSUME NEW bound, NEW from \in Int, NEW to \in Int, NEW r \in Room, NEW d \in from .. (to - 1)
  PROVE  \E i \in Compressed(bound, from, to) :
           i.room = r /\ i.from <= d /\ d < i.to /\ i.cell = DayCell(bound, r, d)
<1> DEFINE cell == DayCell(bound, r, d)
           Firsts == {s \in from .. d : \A e \in s .. d : DayCell(bound, r, e) = cell}
           Ends == {t \in (d + 1) .. to : \A e \in d .. (t - 1) : DayCell(bound, r, e) = cell}
<1>1. d \in Firsts /\ Firsts \in SUBSET Int /\ \A s \in Firsts : from <= s
  OBVIOUS
<1>2. d + 1 \in Ends /\ Ends \in SUBSET Int /\ \A t \in Ends : t <= to
  OBVIOUS
<1>3. PICK s \in Firsts : \A y \in Firsts : s <= y
  <2> HIDE DEF Firsts
  <2> QED BY <1>1, IntHasLeast
<1>4. PICK t \in Ends : \A y \in Ends : y <= t
  <2> HIDE DEF Ends
  <2> QED BY <1>2, IntHasGreatest
<1>5. /\ s \in from .. d /\ t \in (d + 1) .. to
      /\ \A e \in s .. (t - 1) : DayCell(bound, r, e) = cell
  OBVIOUS
<1>6. s = from \/ DayCell(bound, r, s - 1) # cell
  <2> SUFFICES ASSUME s # from, DayCell(bound, r, s - 1) = cell  PROVE FALSE
    OBVIOUS
  <2>1. s - 1 \in Firsts
    OBVIOUS
  <2> QED BY <1>3, <2>1
<1>7. t = to \/ DayCell(bound, r, t) # cell
  <2> SUFFICES ASSUME t # to, DayCell(bound, r, t) = cell  PROVE FALSE
    OBVIOUS
  <2>1. t + 1 \in Ends
    OBVIOUS
  <2> QED BY <1>4, <2>1
<1> DEFINE i == [room |-> r, from |-> s, to |-> t, cell |-> cell]
<1>8. IsRun(bound, from, to, i)
  <2> HIDE DEF cell, Firsts, Ends
  <2> QED BY <1>5, <1>6, <1>7 DEF IsRun
<1>9. i \in Compressed(bound, from, to)
  BY <1>5, <1>8 DEF Compressed
<1>10. i.room = r /\ i.from = s /\ i.to = t /\ i.cell = cell
  OBVIOUS
<1> QED BY <1>5, <1>9, <1>10

\* What a reader gets are the runs of the window just rebuilt: the intervals
\* the rebuild keeps do not touch the window.
LEMMA ReadGetsRuns ==
  ASSUME NEW rows, Typed(rows), NEW bound, NEW from \in Int, NEW to \in Int
  PROVE  {i \in Rebuilt(rows, bound, from, to).intervals : i.from < to /\ from < i.to}
           = Compressed(bound, from, to)
<1> DEFINE new == Rebuilt(rows, bound, from, to)
<1>1. new.intervals = {i \in rows.intervals : to <= i.from \/ i.to <= from}
                        \cup Compressed(bound, from, to)
  BY DEF Rebuilt, Cleared
<1>2. \A i \in rows.intervals : i.from \in Int /\ i.to \in Int
  BY DEF Typed, Interval
<1>3. \A i \in Compressed(bound, from, to) : i.from < to /\ from < i.to
  <2> SUFFICES ASSUME NEW i \in Compressed(bound, from, to)  PROVE i.from < to /\ from < i.to
    OBVIOUS
  <2> QED BY RunInWindow
<1> QED BY <1>1, <1>2, <1>3

\* A read of a window is exact.
LEMMA ReadIsExact ==
  ASSUME InventoryInv, NEW from \in Start, NEW n \in Length, Read(from, n)
  PROVE  ReadsAreExact'
<1>1. PICK to : to = from + Clamped(n)
  OBVIOUS
<1>2. from \in Int /\ to \in Int
  <2>1. from \in Int /\ n \in Int
    BY WindowAssumption
  <2> QED BY <1>1, <2>1, ClampedInRange, HorizonAssumption
<1>3. /\ answer'.from = from /\ answer'.to = to /\ claims' = claims
      /\ answer'.intervals = {i \in tables'.intervals : i.from < to /\ from < i.to}
      /\ tables' = Rebuilt(tables, claims, from, to)
  BY <1>1 DEF Read, Reread
<1>4. answer'.intervals = Compressed(claims, from, to)
  BY <1>2, <1>3, ReadGetsRuns DEF InventoryInv
<1>5. ASSUME NEW r \in Room, NEW d \in from .. (to - 1)
      PROVE  \E i \in Compressed(claims, from, to) :
               /\ i.room = r /\ i.from <= d /\ d < i.to
               /\ i.cell = DayCell(claims, r, d)
               /\ \A j \in Compressed(claims, from, to) :
                    j.room = r /\ j.from <= d /\ d < j.to => j = i
  <2>1. PICK i \in Compressed(claims, from, to) :
          i.room = r /\ i.from <= d /\ d < i.to /\ i.cell = DayCell(claims, r, d)
    BY <1>2, RunExists
  <2>2. ASSUME NEW j \in Compressed(claims, from, to),
               j.room = r, j.from <= d, d < j.to, j # i
        PROVE  FALSE
    <3>1. i.to <= j.from \/ j.to <= i.from
      BY <1>2, <2>1, <2>2, RunsAreDisjoint
    <3>2. i.from \in Int /\ i.to \in Int /\ j.from \in Int /\ j.to \in Int
      BY <1>2, RunInWindow
    <3> QED BY <1>2, <2>1, <2>2, <3>1, <3>2
  <2> QED BY <2>1, <2>2
<1>6. \A i \in Compressed(claims, from, to) : from <= i.from /\ i.to <= to
  BY <1>2, RunInWindow
<1> QED BY <1>3, <1>4, <1>5, <1>6 DEF ReadsAreExact

\* No other step leaves intervals in the answer.
LEMMA StepKeepsReadsExact ==
  ASSUME InventoryInv, ReadsAreExact, [Next]_vars
  PROVE  ReadsAreExact'
<1>1. ASSUME answer' = Absent  PROVE ReadsAreExact'
  BY <1>1 DEF ReadsAreExact
<1>2. CASE \E c \in Booked : Book(c) \/ BookDirect(c) \/ CheckNights(c)
  BY <1>1, <1>2 DEF Book, BookDirect, CheckNights, Commit
<1>3. CASE \E c \in claims : Arrive(c) \/ Cancel(c) \/ Leave(c)
  BY <1>1, <1>3 DEF Arrive, Cancel, Leave, Commit
<1>4. CASE \E r \in Room : OpenBlock(r) \/ StopSale(r) \/ RestoreSale(r)
  BY <1>1, <1>4 DEF OpenBlock, StopSale, RestoreSale, Commit
<1>5. CASE \E from \in Start, n \in Length : Read(from, n)
  BY <1>5, ReadIsExact
<1>6. ASSUME NEW from \in Start, NEW to \in Until, NEW n \in Length, Search(from, to, n)
      PROVE  ReadsAreExact'
  <2>1. "intervals" \notin DOMAIN answer'
    BY <1>6 DEF Search
  <2> QED BY <2>1 DEF ReadsAreExact
<1>7. CASE NextDay
  BY <1>1, <1>7 DEF NextDay
<1>8. CASE UNCHANGED vars
  BY <1>8 DEF vars, ReadsAreExact
<1> QED BY <1>2, <1>3, <1>4, <1>5, <1>6, <1>7, <1>8 DEF Next

\* A reader gets every room-day of the window in exactly one interval, as the
\* claims have it now, whatever the tables held before.
THEOREM ReadsAreAlwaysExact == Spec => []ReadsAreExact
<1>1. Init => ReadsAreExact
  BY DEF Init, ReadsAreExact
<1>2. InventoryInv /\ ReadsAreExact /\ [Next]_vars => ReadsAreExact'
  BY StepKeepsReadsExact
<1> QED BY <1>1, <1>2, InventoryInvariant, PTL DEF Spec

-----------------------------------------------------------------------------
(* Nobody can see the tables: what is read and what is offered is what      *)
(* RoomCalendar says of the claims, and no other step has an answer.        *)

\* Both modules mean the same by the claims on a room-day.
LEMMA OnIsClaiming ==
  ASSUME NEW r, NEW d
  PROVE  Calendar!On(r, d) = Claiming(claims, r, d)
  BY DEF Calendar!On, Claiming, Covers

\* The cell of a row is what the calendar shows.
LEMMA DayCellShows ==
  ASSUME claims \subseteq Claim, NEW r \in Room, NEW d \in Int
  PROVE  Calendar!Shows(DayCell(claims, r, d), r, d)
<1>1. claims \in SUBSET Claim
  OBVIOUS
<1>2. Calendar!Rank = Rank
  BY DEF Calendar!Rank, Rank
<1> QED BY <1>1, <1>2, OnIsClaiming, DayCellIsClaim DEF Calendar!Shows

\* What is listed after a rebuild is what the rebuild wrote.
LEMMA ListedAreNew ==
  ASSUME NEW rows, Typed(rows), NEW bound \in SUBSET Claim, NEW from \in Int, NEW to \in Int
  PROVE  Listed(Rebuilt(rows, bound, from, to), from, to) = DayRooms(bound, from, to)
<1>1. PICK all : all = Rebuilt(rows, bound, from, to)
  OBVIOUS
<1>2. all.days = {row \in rows.days : row.day < from \/ to <= row.day} \cup DayRooms(bound, from, to)
  BY <1>1, RebuiltFields
<1>3. \A row \in rows.days : row.day \in Int
  BY DEF Typed, DayRoom
<1>4. \A row \in DayRooms(bound, from, to) : from <= row.day /\ row.day < to
  BY NewRow
<1>5. Listed(all, from, to) = DayRooms(bound, from, to)
  BY <1>2, <1>3, <1>4 DEF Listed
<1> QED BY <1>1, <1>5

\* Runs of one room that meet show different cells: none could be merged.
LEMMA RunsDiffer ==
  ASSUME NEW bound, NEW from \in Int, NEW to \in Int,
         NEW i \in Compressed(bound, from, to), NEW j \in Compressed(bound, from, to),
         i.room = j.room, i.to = j.from
  PROVE  i.cell # j.cell
<1>1. /\ j.from \in Int /\ j.to \in Int /\ j.from < j.to /\ j.to <= to
      /\ \A d \in j.from .. (j.to - 1) : DayCell(bound, j.room, d) = j.cell
  BY RunInWindow
<1>2. i.to = to \/ DayCell(bound, i.room, i.to) # i.cell
  BY RunIsMaximal
<1>3. DayCell(bound, j.room, j.from) = j.cell
  BY <1>1
<1> QED BY <1>1, <1>2, <1>3

\* The rows of a window are the days of the calendar.
LEMMA RowsAreDays ==
  ASSUME claims \subseteq Claim, NEW from \in Int, NEW to \in Int
  PROVE  Calendar!AreDays(DayRooms(claims, from, to), from, to)
<1>0. claims \in SUBSET Claim
  OBVIOUS
<1>1. ASSUME NEW row \in DayRooms(claims, from, to)
      PROVE  /\ row.room \in Room /\ row.day \in from .. (to - 1)
             /\ Calendar!Shows(row.cell, row.room, row.day)
  <2>1. /\ row \in DayRoom /\ from <= row.day /\ row.day < to
        /\ row.cell = DayCell(claims, row.room, row.day)
    BY <1>0, NewRow
  <2>2. row.room \in Room /\ row.day \in Int
    BY <2>1 DEF DayRoom
  <2>3. Calendar!Shows(DayCell(claims, row.room, row.day), row.room, row.day)
    BY <2>2, DayCellShows
  <2> QED BY <2>1, <2>2, <2>3
<1>2. ASSUME NEW r \in Room, NEW d \in from .. (to - 1)
      PROVE  \E row \in DayRooms(claims, from, to) : row.room = r /\ row.day = d
  <2>1. PICK row : row = [room |-> r, day |-> d, cell |-> DayCell(claims, r, d)]
    OBVIOUS
  <2>2. row \in DayRooms(claims, from, to) /\ row.room = r /\ row.day = d
    BY <2>1 DEF DayRooms
  <2> QED BY <2>2
<1>3. ASSUME NEW row \in DayRooms(claims, from, to), NEW other \in DayRooms(claims, from, to),
             row.room = other.room, row.day = other.day
      PROVE  row = other
  <2>1. /\ row.cell = DayCell(claims, row.room, row.day)
        /\ row = [room |-> row.room, day |-> row.day, cell |-> row.cell]
    BY <1>0, NewRow
  <2>2. /\ other.cell = DayCell(claims, other.room, other.day)
        /\ other = [room |-> other.room, day |-> other.day, cell |-> other.cell]
    BY <1>0, NewRow
  <2> QED BY <1>3, <2>1, <2>2
<1> QED BY <1>1, <1>2, <1>3 DEF Calendar!AreDays

\* The runs of a window are the fewest intervals that say what its rows say.
LEMMA RunsAreIntervals ==
  ASSUME claims \subseteq Claim, NEW from \in Int, NEW to \in Int
  PROVE  Calendar!AreIntervals(Compressed(claims, from, to), DayRooms(claims, from, to), from, to)
<1>1. ASSUME NEW i \in Compressed(claims, from, to)
      PROVE  i.room \in Room /\ from <= i.from /\ i.from < i.to /\ i.to <= to
  BY RunInWindow
<1>2. ASSUME NEW row \in DayRooms(claims, from, to)
      PROVE  \E i \in Compressed(claims, from, to) :
               i.room = row.room /\ i.from <= row.day /\ row.day < i.to /\ i.cell = row.cell
  <2>1. PICK r \in Room, d \in from .. (to - 1) :
          row = [room |-> r, day |-> d, cell |-> DayCell(claims, r, d)]
    BY DEF DayRooms
  <2>2. PICK i \in Compressed(claims, from, to) :
          i.room = r /\ i.from <= d /\ d < i.to /\ i.cell = DayCell(claims, r, d)
    BY RunExists
  <2> QED BY <2>1, <2>2
<1>3. ASSUME NEW i \in Compressed(claims, from, to), NEW j \in Compressed(claims, from, to),
             i # j, i.room = j.room
      PROVE  i.to <= j.from \/ j.to <= i.from
  BY <1>3, RunsAreDisjoint
<1>4. ASSUME NEW i \in Compressed(claims, from, to), NEW j \in Compressed(claims, from, to),
             i.room = j.room, i.to = j.from
      PROVE  i.cell # j.cell
  BY <1>4, RunsDiffer
<1> QED BY <1>1, <1>2, <1>3, <1>4 DEF Calendar!AreIntervals

\* Reading the tables is reading the calendar.
LEMMA ReadIsCalendarRead ==
  ASSUME InventoryInv, NEW from \in Start, NEW n \in Length, Read(from, n)
  PROVE  Calendar!Read
<1>1. PICK to : to = from + Clamped(n)
  OBVIOUS
<1>2. from \in Int /\ to \in Int /\ to - from \in 1 .. Cap
  <2>1. from \in Int /\ n \in Int
    BY WindowAssumption
  <2>2. Clamped(n) \in Int /\ 1 <= Clamped(n) /\ Clamped(n) <= Cap
    BY <2>1, ClampedInRange
  <2> QED BY <1>1, <2>1, <2>2, HorizonAssumption
<1>3. /\ answer' = [from |-> from, to |-> to, days |-> Listed(tables', from, to),
                    intervals |-> {i \in tables'.intervals : i.from < to /\ from < i.to}]
      /\ tables' = Rebuilt(tables, claims, from, to) /\ claims' = claims
  BY <1>1 DEF Read, Reread
<1>4. Typed(tables) /\ claims \in SUBSET Claim
  BY DEF InventoryInv
<1>5. answer'.days = DayRooms(claims, from, to)
  BY <1>2, <1>3, <1>4, ListedAreNew
<1>6. answer'.intervals = Compressed(claims, from, to)
  BY <1>2, <1>3, <1>4, ReadGetsRuns
<1>7. /\ DOMAIN answer' = {"from", "to", "days", "intervals"}
      /\ answer'.from = from /\ answer'.to = to
  BY <1>3
<1>8. Calendar!Window(answer'.from, answer'.to)
  BY <1>2, <1>7 DEF Calendar!Window
<1>9. Calendar!AreDays(answer'.days, answer'.from, answer'.to)
  BY <1>2, <1>4, <1>5, <1>7, RowsAreDays
<1>10. Calendar!AreIntervals(answer'.intervals, answer'.days, answer'.from, answer'.to)
  BY <1>2, <1>4, <1>5, <1>6, <1>7, RunsAreIntervals
<1> QED BY <1>3, <1>7, <1>8, <1>9, <1>10 DEF Calendar!Read

\* The nights a search lists are all in its window exactly if the nights of
\* the stay are: of a stay longer than any window one night too many is listed.
LEMMA AskedInWindow ==
  ASSUME NEW from \in Int, NEW to \in Int, NEW end \in Int, from < end, end <= from + Cap
  PROVE  /\ Calendar!Nights(from, to) \subseteq from .. (end - 1) <=>
              Asked(from, to) \subseteq from .. (end - 1)
         /\ Asked(from, to) \subseteq from .. (end - 1) =>
              Asked(from, to) = Calendar!Nights(from, to)
<1>0. Cap \in Int /\ Cap >= 0
  BY HorizonAssumption
<1>1. CASE from < to
  <2>1. /\ Asked(from, to) = {d \in from .. (to - 1) : d <= from + Cap}
        /\ Calendar!Nights(from, to) = from .. (to - 1)
    BY <1>1 DEF Asked, Calendar!Nights
  <2>2. CASE to <= from + Cap + 1
    <3>1. Asked(from, to) = Calendar!Nights(from, to)
      BY <1>0, <2>1, <2>2
    <3> QED BY <3>1
  <2>3. CASE to > from + Cap + 1
    <3>1. from + Cap \in Asked(from, to) /\ from + Cap \in Calendar!Nights(from, to)
      BY <1>0, <2>1, <2>3
    <3>2. from + Cap \notin from .. (end - 1)
      BY <1>0
    <3> QED BY <3>1, <3>2
  <2> QED BY <1>0, <2>2, <2>3
<1>2. CASE ~(from < to)
  BY <1>2 DEF Asked, Calendar!Nights
<1> QED BY <1>1, <1>2

\* A room is offered for the nights of a window exactly if nothing claims it
\* on any of them.
LEMMA AvailableMeansFree ==
  ASSUME claims \subseteq Claim, NEW from \in Int, NEW to \in Int,
         NEW days, days \subseteq from .. (to - 1)
  PROVE  Available(DayRooms(claims, from, to), days)
           = {r \in Room : \A d \in days : Calendar!On(r, d) = {}}
<1>0. claims \in SUBSET Claim
  OBVIOUS
<1>1. ASSUME NEW r \in Room, NEW d \in days
      PROVE  [room |-> r, day |-> d, cell |-> Absent] \in DayRooms(claims, from, to)
               <=> Calendar!On(r, d) = {}
  <2>1. PICK said : said = [room |-> r, day |-> d, cell |-> Absent]
    OBVIOUS
  <2>2. d \in from .. (to - 1) /\ d \in Int
    OBVIOUS
  <2>3. DayCell(claims, r, d) = Absent <=> Claiming(claims, r, d) = {}
    BY <1>0, <2>2, DayCellIsClaim
  <2>4. ASSUME said \in DayRooms(claims, from, to)  PROVE DayCell(claims, r, d) = Absent
    <3>1. said.cell = DayCell(claims, said.room, said.day)
      BY <1>0, <2>4, NewRow
    <3> QED BY <2>1, <3>1
  <2>5. ASSUME DayCell(claims, r, d) = Absent  PROVE said \in DayRooms(claims, from, to)
    BY <2>1, <2>2, <2>5 DEF DayRooms
  <2> QED BY <2>1, <2>3, <2>4, <2>5, OnIsClaiming
<1> QED BY <1>1 DEF Available

\* Searching the tables is searching the calendar.
LEMMA SearchIsCalendarSearch ==
  ASSUME InventoryInv, NEW from \in Start, NEW to \in Until, NEW n \in Length,
         Search(from, to, n)
  PROVE  Calendar!Search
<1>1. PICK end : end = from + Clamped(n)
  OBVIOUS
<1>2. /\ from \in Int /\ to \in Int /\ end \in Int /\ end - from \in 1 .. Cap
      /\ from < end /\ end <= from + Cap
  <2>1. from \in Int /\ to \in Int /\ n \in Int
    BY WindowAssumption
  <2>2. Clamped(n) \in Int /\ 1 <= Clamped(n) /\ Clamped(n) <= Cap
    BY <2>1, ClampedInRange
  <2> QED BY <1>1, <2>1, <2>2, HorizonAssumption
<1>3. PICK listed : listed = Listed(tables', from, end)
  OBVIOUS
<1>4. /\ answer' = [from |-> from, to |-> end, until |-> to,
                    rooms |-> Available(listed, Asked(from, to))]
      /\ tables' = Rebuilt(tables, claims, from, end) /\ claims' = claims
  BY <1>1, <1>3 DEF Search, Reread
<1>5. Typed(tables) /\ claims \in SUBSET Claim
  BY DEF InventoryInv
<1>6. listed = DayRooms(claims, from, end)
  BY <1>2, <1>3, <1>4, <1>5, ListedAreNew
<1>7. /\ DOMAIN answer' = {"from", "to", "until", "rooms"}
      /\ answer'.from = from /\ answer'.to = end /\ answer'.until = to
      /\ answer'.rooms = Available(listed, Asked(from, to))
  BY <1>4
<1>8. Calendar!Window(answer'.from, answer'.to)
  BY <1>2, <1>7 DEF Calendar!Window
<1>9. CASE Calendar!Nights(from, to) \subseteq from .. (end - 1)
  <2>1. Asked(from, to) \subseteq from .. (end - 1) /\ Asked(from, to) = Calendar!Nights(from, to)
    BY <1>2, <1>9, AskedInWindow
  <2>2. Available(listed, Asked(from, to)) = Calendar!Free(from, to)
    BY <1>2, <1>5, <1>6, <2>1, AvailableMeansFree DEF Calendar!Free
  <2> QED BY <1>4, <1>7, <1>8, <1>9, <2>2 DEF Calendar!Search
<1>10. CASE ~(Calendar!Nights(from, to) \subseteq from .. (end - 1))
  <2>1. PICK d \in Asked(from, to) : d \notin from .. (end - 1)
    BY <1>2, <1>10, AskedInWindow
  <2>2. ASSUME NEW r \in Room, [room |-> r, day |-> d, cell |-> Absent] \in listed
        PROVE  FALSE
    <3>1. PICK row : row = [room |-> r, day |-> d, cell |-> Absent]
      OBVIOUS
    <3>2. row.day \in Int /\ from <= row.day /\ row.day < end
      BY <1>2, <1>5, <1>6, <2>2, <3>1, NewRow DEF DayRoom
    <3> QED BY <1>2, <2>1, <3>1, <3>2
  <2>3. Available(listed, Asked(from, to)) = {}
    BY <2>1, <2>2 DEF Available
  <2> QED BY <1>4, <1>7, <1>8, <1>10, <2>3 DEF Calendar!Search
<1> QED BY <1>9, <1>10

\* Every step is a step of the calendar or one it does not see.
LEMMA StepIsCalendarStep ==
  ASSUME InventoryInv, InventoryInv', [Next]_vars
  PROVE  [Calendar!Next]_<<claims, answer>>
<1>1. ASSUME answer' = Absent  PROVE Calendar!Next
  BY <1>1 DEF InventoryInv, Calendar!Next, Calendar!Change
<1>2. CASE \E c \in Booked : Book(c) \/ BookDirect(c) \/ CheckNights(c)
  BY <1>1, <1>2 DEF Book, BookDirect, CheckNights, Commit
<1>3. CASE \E c \in claims : Arrive(c) \/ Cancel(c) \/ Leave(c)
  BY <1>1, <1>3 DEF Arrive, Cancel, Leave, Commit
<1>4. CASE \E r \in Room : OpenBlock(r) \/ StopSale(r) \/ RestoreSale(r)
  BY <1>1, <1>4 DEF OpenBlock, StopSale, RestoreSale, Commit
<1>5. CASE \E from \in Start, n \in Length : Read(from, n)
  BY <1>5, ReadIsCalendarRead DEF Calendar!Next
<1>6. CASE \E from \in Start, to \in Until, n \in Length : Search(from, to, n)
  BY <1>6, SearchIsCalendarSearch DEF Calendar!Next
<1>7. CASE NextDay
  BY <1>1, <1>7 DEF NextDay
<1>8. CASE UNCHANGED vars
  BY <1>8 DEF vars
<1> QED BY <1>2, <1>3, <1>4, <1>5, <1>6, <1>7, <1>8 DEF Next

\* The inventory implements the calendar: whatever windows were rebuilt over
\* each other, a reader gets the claims as they are, and a search exactly the
\* free rooms.
THEOREM TablesStayInvisible == Spec => TablesAreInvisible
<1>1. Init => Calendar!Init
  BY DEF Init, Calendar!Init
<1>2. InventoryInv /\ InventoryInv' /\ [Next]_vars => [Calendar!Next]_<<claims, answer>>
  BY StepIsCalendarStep
<1> QED BY <1>1, <1>2, InventoryInvariant, PTL DEF Spec, TablesAreInvisible, Calendar!Spec

\* A direct booking takes its room only for nights that nothing claims when
\* the booking commits, and never for more nights than a window has, whatever
\* older rows the tables hold next to the nights just rebuilt.
THEOREM DirectBookingsTakeFreeNights ==
  Spec => [][\A c \in Booked : BookDirect(c) =>
               /\ c.to - c.from <= Cap
               /\ \A d \in c.from .. (c.to - 1) : Claiming(claims, c.room, d) = {}]_vars
<1>1. ASSUME InventoryInv, NEW c \in Booked, BookDirect(c)
      PROVE  /\ c.to - c.from <= Cap
             /\ \A d \in c.from .. (c.to - 1) : Claiming(claims, c.room, d) = {}
  <2>1. c.room \in Room /\ c.from \in Int /\ c.to \in Int
    BY BookedAssumption
  <2>2. PICK end : end = CheckedUntil(c.from, c.to)
    OBVIOUS
  <2>3. end \in Int /\ end <= c.from + Cap
    <3>1. Clamped(c.to - c.from) \in Int /\ Clamped(c.to - c.from) <= Cap
      BY <2>1, ClampedInRange
    <3> QED BY <2>1, <2>2, <3>1, HorizonAssumption DEF CheckedUntil
  <2>4. Typed(tables) /\ claims \in SUBSET Claim
    BY <1>1 DEF InventoryInv
  <2>5. PICK listed : listed = Listed(Checked(c.from, c.to).tables, c.from, end)
    OBVIOUS
  <2>6. listed = DayRooms(claims, c.from, end)
    BY <2>1, <2>2, <2>3, <2>4, <2>5, ListedAreNew DEF Checked, Rebuild, Begin
  <2>7. c.from < c.to /\ c.room \in Available(listed, c.from .. (c.to - 1))
    BY <1>1, <2>2, <2>5 DEF BookDirect
  <2>8. ASSUME NEW d \in c.from .. (c.to - 1)
        PROVE  d < end /\ Claiming(claims, c.room, d) = {}
    <3>1. PICK row : row = [room |-> c.room, day |-> d, cell |-> Absent]
      OBVIOUS
    <3>2. row \in DayRooms(claims, c.from, end)
      BY <2>6, <2>7, <3>1 DEF Available
    <3>3. /\ row.day < end
          /\ row.cell = DayCell(claims, row.room, row.day)
      BY <2>1, <2>3, <2>4, <3>2, NewRow
    <3>4. d \in Int /\ DayCell(claims, c.room, d) = Absent
      BY <2>1, <3>1, <3>3
    <3> QED BY <2>1, <2>4, <3>1, <3>3, <3>4, DayCellIsClaim
  <2>9. c.to - 1 < end
    BY <2>1, <2>7, <2>8
  <2> QED BY <2>1, <2>3, <2>8, <2>9, HorizonAssumption
<1>2. InventoryInv /\ [Next]_vars =>
        [\A c \in Booked : BookDirect(c) =>
           /\ c.to - c.from <= Cap
           /\ \A d \in c.from .. (c.to - 1) : Claiming(claims, c.room, d) = {}]_vars
  BY <1>1
<1> QED BY <1>2, InventoryInvariant, PTL DEF Spec
=============================================================================
