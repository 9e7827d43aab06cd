\* One request at a time, the edit form of a row.
CONSTANTS
  e1 = e1
  s1 = s1
  s2 = s2
  s3 = s3
  h1 = h1
  h2 = h2
  Equipment = {e1}
  Shows = {s1}
  MaxQuantity = 2
  MaxRows = 1
  MigratedSchema = TRUE
  Handlers = {h1}
  Endpoints = {"add", "update"}
  QueriesMayFail = FALSE
  InitialInventory <- NoInventory
SPECIFICATION Spec
PROPERTIES NoShortRowTaken
CHECK_DEADLOCK FALSE
