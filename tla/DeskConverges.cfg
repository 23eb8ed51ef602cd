SPECIFICATION FairDeskSpec
CONSTANTS
  Rooms = {r1}
  Guests = {g1}
  Bookings = {b1}
  Stays = {s1}
  DayUses = {d1}
  Workers = {w1, w2}
  None = None
  LastDay = 1
  MaxOpen = 1
  Traffic = {"dashboard", "day_use", "close_day_use", "walk_in", "check_out", "task", "convert", "check_in"}
PROPERTY StatusConverges
