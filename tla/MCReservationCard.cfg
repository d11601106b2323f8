\* Drafts re-slotted, re-quoted, cancelled and expired under their cards, in
\* histories of up to five stored responses.
SPECIFICATION CardSpec
CONSTANTS
  Token = {t1, t2, t3, t4, t5}
  A = A
  B = B
  Room <- Rooms
  Catalog <- Rooms
  Closed = {}
  Selection <- Two
  Instants = 1
  DayOf <- OneDay
  Place = {}
  Absent = Absent
  Incomplete = Incomplete
SYMMETRY TokenSymmetry
INVARIANTS CardBindsSelection
PROPERTIES OnlyCardConfirmationCommits
