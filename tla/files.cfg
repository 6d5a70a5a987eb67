SPECIFICATION Spec
CHECK_DEADLOCK FALSE
CONSTANTS
  Files = {f1, f2}
  Curated = {hub}
  Custom = {url}
  Deletes = {del1}
  Rescans = {}
  Hashed = {f1}
  Repos = {f2}
  Shipped = {f2}
  None = None
INVARIANTS WholeFilesOnly InventoryCurrent
PROPERTIES DeleteSpares
