\* One request at a time, the buttons of the check-out desk only.
CONSTANTS
  e1 = e1
  s1 = s1
  s2 = s2
  s3 = s3
  h1 = h1
  h2 = h2
  Equipment = {e1}
  Shows = {s1, s2}
  MaxQuantity = 2
  MaxRows = 3
  MigratedSchema = FALSE
  Handlers = {h1}
  Endpoints = {"add", "checkout", "return", "remove", "delete_show"}
  QueriesMayFail = FALSE
  InitialInventory <- SomeInventory
SPECIFICATION Spec
INVARIANTS SingleItemStatusAgrees
CHECK_DEADLOCK FALSE
