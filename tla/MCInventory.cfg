\* Two rooms, up to three claims at a time, on two server dates.
SPECIFICATION RoomSpec
CONSTANTS
  A = A
  B = B
  villa = villa
  Room <- Rooms
  Type = {villa}
  TypeOf <- Villas
  DefaultHorizon = 2
  Cap = 3
  Booked <- Asks
  Start = {1}
  Until = {1,5}
  Length = {0,5}
  LastDay = 2
  MaxClaims = 3
  Absent = Absent
INVARIANTS InventoryTypeOK TablesAgree HorizonIsCurrent ReadsAreExact
PROPERTY TablesAreInvisible
