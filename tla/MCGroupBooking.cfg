\* Groups confirmed, re-slotted and confirmed again among single bookings, in
\* histories of up to six stored responses.
SPECIFICATION GroupsSpec
CONSTANTS
  Token = {1,2,3,4,5,6}
  A = A
  B = B
  C = C
  Room <- Named
  Catalog <- Rooms
  Closed = {}
  Selection <- Selections
  Instants = 1
  DayOf <- OneDay
  Place <- Places
  GroupSelection <- GroupSelections
  Absent = Absent
  Incomplete = Incomplete
INVARIANTS GroupTypeOK NoDoubleBooking GroupCardBindsSelection
PROPERTIES GroupIsBookedWhole GroupPromisesKept
