\* Two requests at a time, the schema with its unique and foreign keys.
CONSTANTS
  e1 = e1
  s1 = s1
  s2 = s2
  s3 = s3
  h1 = h1
  h2 = h2
  Equipment = {e1}
  Shows = {s1, s2, s3}
  MaxQuantity = 1
  MaxRows = 3
  MigratedSchema = TRUE
  Handlers = {h1, h2}
  Endpoints = {"add", "update_status", "checkout", "return", "remove", "delete_show"}
  QueriesMayFail = FALSE
  InitialInventory <- NoInventory
SPECIFICATION Spec
INVARIANTS  OneRowPerShow NoDanglingRows OutBounded
SYMMETRY Alike
CHECK_DEADLOCK FALSE
