SPECIFICATION Spec
CONSTANTS
  Starts = {start1, start2}
  Stops = {stop1}
  Cancels = TRUE
  None = None
INVARIANTS
  HandedOver
