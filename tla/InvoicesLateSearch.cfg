SPECIFICATION Spec
CONSTANTS
  Items = {"i"}
  Words = {"w"}
  Profiles = {{"view", "create", "update", "act"}}
  MaxAlike = 2
  MaxWrites = 0
  MaxInputs = 3
  MaxFailures = 0
CHECK_DEADLOCK FALSE
INVARIANT InvoicesAsChosen
