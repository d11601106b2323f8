\* Bookings by all three routes, adjusted, cancelled, checked in and out, in
\* histories of up to five stored responses.
SPECIFICATION BookingSpec
CONSTANTS
  Token = {t1, t2, t3, t4, t5}
  A = A
  B = B
  Room <- Rooms
  Catalog <- Rooms
  Closed = {}
  Selection <- Overlapping
  Instants = 2
  DayOf <- TwoDays
  Place = {}
  Absent = Absent
  Incomplete = Incomplete
SYMMETRY TokenSymmetry
INVARIANTS NoDoubleBooking
PROPERTIES BookingsKeepOff SleepersKeepTheirNights ArrivedGuestKeepsReservation AdjustMovesOnePromise PromisesKept
