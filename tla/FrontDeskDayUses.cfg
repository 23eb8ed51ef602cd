SPECIFICATION Spec
CONSTANTS
  Rooms = {r1, r2}
  Guests = {g1}
  Bookings = {b1}
  Stays = {s1}
  DayUses = {d1}
  None = None
  LastDay = 1
  MaxOpen = 1
SYMMETRY Symmetry
INVARIANTS CachedStatusSound OccupancyExclusive
PROPERTIES ArrivalsInFitRooms
