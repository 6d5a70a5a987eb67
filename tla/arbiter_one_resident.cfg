SPECIFICATION Spec
CONSTANTS
  Backends = {s1, p1, p2}
  Servers = {s1}
  Parkable = {p1, p2}
  Fixed = {p2}
  Direct = {}
  Owners = {job}
  Pins = {api}
  SharedLanes = {tts}
  Requests = {r1}
  VoiceLane = voice
  Configs = {1, 2}
  MaxLost = 1
  PoolMax = 2
  LateRecycle = TRUE
  None = None
INVARIANTS
  OneResident
