SPECIFICATION DeskSpec
CONSTANTS
  Rooms = {r1, r2}
  Guests = {g1}
  Bookings = {b1, b2}
  Stays = {}
  DayUses = {}
  Workers = {w1, w2, w3}
  None = None
  LastDay = 0
  MaxOpen = 1
  Traffic = {"booking", "confirm", "cancel", "update", "relocate"}
SYMMETRY Symmetry
INVARIANT NoOverlappingBookings
