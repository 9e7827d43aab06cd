\* Two requests at a time check out two rows of an item.
CONSTANTS
  e1 = e1
  s1 = s1
  s2 = s2
  s3 = s3
  h1 = h1
  h2 = h2
  Equipment = {e1}
  Shows = {s1, s2}
  MaxQuantity = 1
  MaxRows = 2
  MigratedSchema = TRUE
  Handlers = {h1, h2}
  Endpoints = {"add", "checkout", "return"}
  QueriesMayFail = FALSE
  InitialInventory <- NoInventory
SPECIFICATION Spec
INVARIANTS OutWithinStock
CHECK_DEADLOCK FALSE
