SPECIFICATION Spec
CONSTANTS
  n1 = n1
  v1 = v1
  v2 = v2
  b1 = b1
  b2 = b2
  t1 = t1
  NoName = NoName
  Lists <- MCLists
  Stores <- MCStores
  StoreOf <- MCStoreOf
  Fleet = "fleet"
  Defaults <- MCDefaults
  Names <- MCNames
  Stamps = {t1}
  Vals = {v1, v2}
  Admins = {v1}
  Batches = {b1, b2}
  Imports <- MCImports
  MaxCount = 2
  MaxOps = 2
  MaxStops = 1
INVARIANTS TypeOK AckedKept SavedAgrees TempsGone
PROPERTIES BatchLaunchesOwn
CHECK_DEADLOCK FALSE
