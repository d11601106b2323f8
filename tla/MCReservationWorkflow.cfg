\* Every kind of request in histories of up to three stored responses: the types,
\* and the pairing of each ledger write with a stored response.
SPECIFICATION Spec
CONSTANTS
  Token = {t1, t2, t3}
  A = A
  B = B
  Room <- Rooms
  Catalog <- Rooms
  Closed = {B}
  Selection <- Two
  Instants = 1
  DayOf <- OneDay
  Place = {}
  Absent = Absent
  Incomplete = Incomplete
SYMMETRY TokenSymmetry
INVARIANTS TypeOK
PROPERTIES LedgerWritesAreAnswered
