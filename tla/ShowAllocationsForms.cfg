\* One request at a time, the forms that write quantities, no failing statement.
CONSTANTS
  e1 = e1
  s1 = s1
  s2 = s2
  s3 = s3
  h1 = h1
  h2 = h2
  Equipment = {e1}
  Shows = {s1, s2}
  MaxQuantity = 2
  MaxRows = 2
  MigratedSchema = TRUE
  Handlers = {h1}
  Endpoints = {"add", "update", "update_status", "legacy", "checkout", "return", "remove"}
  QueriesMayFail = FALSE
  InitialInventory <- NoInventory
SPECIFICATION Spec
PROPERTIES InsertWithinStock WorkflowRespected
CHECK_DEADLOCK FALSE
