SPECIFICATION Spec
CONSTANTS
  Items = {"i", "j"}
  Words = {"w"}
  Profiles = {{"view", "create", "update", "act"}}
  MaxAlike = 2
  MaxWrites = 1
  MaxInputs = 3
  MaxFailures = 1
CHECK_DEADLOCK FALSE
INVARIANTS TypeOK BusyHasRequest InvoicesOfQuery ClientOfSelection ClientsFresh
