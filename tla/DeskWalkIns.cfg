SPECIFICATION DeskSpec
CONSTANTS
  Rooms = {r1}
  Guests = {g1, g2}
  Bookings = {}
  Stays = {s1, s2}
  DayUses = {}
  Workers = {w1, w2}
  None = None
  LastDay = 0
  MaxOpen = 1
  Traffic = {"walk_in", "dashboard"}
SYMMETRY Symmetry
INVARIANT OneStayPerRoom
