\* The message a cancelled draft is refused with, against histories in which its
\* card is answered late and an earlier-stamped update arrives afterwards.
SPECIFICATION HistorySpec
CONSTANTS
  Token = {t1, t2, t3, t4}
  A = A
  B = B
  Room <- Rooms
  Catalog <- Rooms
  Closed = {}
  Selection <- Two
  Instants = 1
  DayOf <- OneDay
  Place = {}
  Absent = Absent
  Incomplete = Incomplete
SYMMETRY TokenSymmetry
CHECK_DEADLOCK FALSE
INVARIANT CancelledDraftIsNeverPrepared
