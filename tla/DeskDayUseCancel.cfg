SPECIFICATION DeskSpec
CONSTANTS
  Rooms = {r1}
  Guests = {g1}
  Bookings = {}
  Stays = {}
  DayUses = {d1}
  Workers = {w1, w2}
  None = None
  LastDay = 0
  MaxOpen = 1
  Traffic = {"day_use", "close_day_use", "dashboard"}
SYMMETRY Symmetry
PROPERTY LeavingCleans
