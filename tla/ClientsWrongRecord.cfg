SPECIFICATION Spec
CONSTANTS
  Items = {"i", "j"}
  Words = {}
  Profiles = {{"view", "create", "update", "act"}}
  MaxAlike = 1
  MaxWrites = 1
  MaxInputs = 3
  MaxFailures = 0
CHECK_DEADLOCK FALSE
INVARIANT ArchivesTheClientNamed
