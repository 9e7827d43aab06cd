\* One request at a time, the endpoints that validate what they write.
CONSTANTS
  e1 = e1
  s1 = s1
  s2 = s2
  s3 = s3
  h1 = h1
  h2 = h2
  Equipment = {e1}
  Shows = {s1, s2}
  MaxQuantity = 2
  MaxRows = 3
  MigratedSchema = FALSE
  Handlers = {h1}
  Endpoints = {"add", "update_status", "checkout", "return", "remove", "delete_show"}
  QueriesMayFail = TRUE
  InitialInventory <- SomeInventory
SPECIFICATION Spec
INVARIANTS TypeOK OutWithinStock OneRowPerShow NoDanglingRows
PROPERTIES NoOutRowDeleted ImplementsLoans
CHECK_DEADLOCK FALSE
