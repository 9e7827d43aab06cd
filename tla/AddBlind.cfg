\* One request at a time, a SUM that fails counts as nothing allocated.
CONSTANTS
  e1 = e1
  s1 = s1
  s2 = s2
  s3 = s3
  h1 = h1
  h2 = h2
  Equipment = {e1}
  Shows = {s1, s2}
  MaxQuantity = 2
  MaxRows = 3
  MigratedSchema = TRUE
  Handlers = {h1}
  Endpoints = {"add"}
  QueriesMayFail = TRUE
  InitialInventory <- NoInventory
SPECIFICATION Spec
PROPERTIES InsertWithinStock
CHECK_DEADLOCK FALSE
