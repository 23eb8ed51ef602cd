SPECIFICATION DeskSpec
CONSTANTS
  Rooms = {r1, r2}
  Guests = {g1}
  Bookings = {b1}
  Stays = {s1, s2}
  DayUses = {}
  Workers = {w1, w2}
  None = None
  LastDay = 0
  MaxOpen = 1
  Traffic = {"booking", "confirm", "cancel", "no_show", "check_in", "walk_in", "check_out", "update", "relocate", "task"}
SYMMETRY Symmetry
INVARIANTS DeskTypeOK CheckedInOnce
