\* A row is removed while it is checked out.
CONSTANTS
  e1 = e1
  s1 = s1
  s2 = s2
  s3 = s3
  h1 = h1
  h2 = h2
  Equipment = {e1}
  Shows = {s1}
  MaxQuantity = 1
  MaxRows = 1
  MigratedSchema = TRUE
  Handlers = {h1, h2}
  Endpoints = {"add", "checkout", "remove"}
  QueriesMayFail = FALSE
  InitialInventory <- NoInventory
SPECIFICATION Spec
PROPERTIES NoOutRowDeleted
CHECK_DEADLOCK FALSE
