SPECIFICATION Spec
CONSTANTS
  Rooms = {r1}
  Guests = {g1}
  Bookings = {b1}
  Stays = {s1}
  DayUses = {d1}
  None = None
  LastDay = 0
  MaxOpen = 1
SYMMETRY Symmetry
PROPERTIES CleanedBeforeAvailable
