SPECIFICATION DeskSpec
CONSTANTS
  Rooms = {r1}
  Guests = {g1}
  Bookings = {b1}
  Stays = {}
  DayUses = {}
  Workers = {w1, w2}
  None = None
  LastDay = 0
  MaxOpen = 1
  Traffic = {"booking", "cancel", "update", "dashboard"}
SYMMETRY Symmetry
PROPERTY BookingLifeCycle
