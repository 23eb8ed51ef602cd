SPECIFICATION Spec
CONSTANTS
  Rooms = {r1, r2}
  Guests = {g1}
  Bookings = {b1, b2}
  Stays = {s1}
  DayUses = {}
  None = None
  LastDay = 1
  MaxOpen = 1
SYMMETRY Symmetry
INVARIANTS TypeOK NoOverlappingBookings StayMatchesBooking
PROPERTY KeepsReservations
