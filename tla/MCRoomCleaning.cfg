\* Guests and housekeeping: callers name tasks of any room.
SPECIFICATION CleaningSpec
CONSTANTS
  k1 = k1
  k2 = k2
  k3 = k3
  k4 = k4
  a = a
  b = b
  c = c
  Room = {r1, r2}
  Seeded <- ReadyOrDueOut
  Key <- Keys
  Id <- Ids
  Suffix <- SharedSuffix
  Absent = Absent
SYMMETRY Symmetry
INVARIANTS WaitingRoomHasTask
PROPERTIES FinishedMeansClean
