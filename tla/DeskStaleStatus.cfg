SPECIFICATION DeskSpec
CONSTANTS
  Rooms = {r1}
  Guests = {g1}
  Bookings = {b1}
  Stays = {s1, s2}
  DayUses = {}
  Workers = {w1, w2}
  None = None
  LastDay = 0
  MaxOpen = 1
  Traffic = {"walk_in", "dashboard", "task", "check_out"}
SYMMETRY Symmetry
INVARIANT OccupiedNotForSale
