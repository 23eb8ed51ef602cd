SPECIFICATION Spec
CONSTANTS
  Items = {"i", "j"}
  Words = {"w"}
  Profiles = {{"view", "create", "update", "act"}, {"view"}, {}}
  MaxAlike = 2
  MaxWrites = 2
  MaxInputs = 3
  MaxFailures = 1
CHECK_DEADLOCK FALSE
INVARIANTS TypeOK NoDoubleWrite BusyHasRequest GuardHasRequest InvoiceOfSelection ListOfQuery
PROPERTY DraftsKept
