SPECIFICATION Spec
CONSTANTS
  Rooms = {r1}
  Guests = {g1}
  Bookings = {b1}
  Stays = {s1}
  DayUses = {}
  None = None
  LastDay = 1
  MaxOpen = 1
SYMMETRY Symmetry
INVARIANTS ConfirmedRoomNotForSale
