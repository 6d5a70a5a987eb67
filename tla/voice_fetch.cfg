SPECIFICATION Spec
CHECK_DEADLOCK FALSE
CONSTANTS
  None = None
  Slots = {s1}
  Convs = {c1}
  SlotFiles = {{"checkpoint.pth"}}
  AssetSets = {{}, {"rmvpe.pt"}}
  MaxChanges = 2
INVARIANTS
  FetchedRuns
