SPECIFICATION Spec
CONSTANTS
  Rooms = {r1, r2}
  Guests = {g1, g2}
  Bookings = {b1}
  Stays = {s1, s2}
  DayUses = {}
  None = None
  LastDay = 1
  MaxOpen = 1
SYMMETRY Symmetry
INVARIANTS CachedStatusSound
PROPERTIES ArrivalsInFitRooms
