SPECIFICATION MCSpec
CONSTANTS
  None = None
  Builds = {build1, build2, build3}
  Callers = {r1, r2}
  Keep = 2
  MaxCalls = 4
  MaxQueue = 2
  MaxChanges = 2
  MaxConnects = 2
  Saves = {save1, save2}
  SettingKeys = {"attention", "ctx", "bin"}
  PatchOf <- MCPatchOf
  Tuned = {"attention"}
  Managed = {"bin"}
  Launch = {"ctx"}
  DefaultValue = "default"
  Hardware = "hardware"
  Live = "live"
  MaxEnds = 2
  Tokens = {"token", "other"}
  Ttl = 1
  MaxTime = 3
  MaxRestarts = 1
  MaxSessions = 1
  Clients = {"first", "second"}
  MaxStarts = 2
  MaxJobs = 2
  Pics = {p1}
  Doctors = {doctor1}
  Deleters = {del1}
  Boot = boot
  Batch = 1
  MaxRows = 2
  MaxCrashes = 2
  Dropped = Dropped
  Uploads = {"long", "short"}
  TextOf <- MCTextOf
  Target = 4
  Overlap = 1
  Budgets = {4, 7, 8}
  LeastRest = 1
  BlockFrame = 1
  Joint = 2
  JointCounted = 0
  MaxSends = 1
  Texts <- MCTexts
  RagTarget = 4
  RagOverlap = 3
  ModelOrder <- MCModelOrder
  Indexings = {"first", "second", "third"}
  MaxMoves = 2
  MaxPictures = 2
  Page = 1
  MaxReloads = 2
  MaxRowChanges = 2
  Shown = {la, lb}
  Selection <- MCSelection
  Patches = {patch1, patch2}
  PatchImage <- MCPatchImage
  PatchChange <- MCPatchChange
  Contents = {"image", "large"}
  BackupRuns = {"first", "second", "third"}
  Keeps = {1, 2}
  MaxKills = 1
  Updates = {u1, u2, u3}
  TuningPatch <- MCTuningPatch
  KeyOrder <- MCKeyOrder
  TuningDefaults <- MCTuningDefaults
  Bad = Bad
  Writers = {w1, w2}
  Presets = {v1, v2}
  MaxPosts = 3
  MaxTuningEnds = 1
  Torn = Torn
  Voices = {va, vb}
  LiveVoice = LiveVoice
  Conversions = {v1}
  MaxSwitches = 2
  MaxLives = 2
  MaxAired = 1
  MaxChunks = 2
  MaxTakes = 2
  Stoppers = {q1, q2}
  Exporters = {x1}
  Slots = {vslot}
  Convs = {vconv1, vconv2}
  SlotFiles <- MCSlotFiles
  AssetSets <- MCAssetSets
  DeskMaxChanges = 1
  Threads = {"conversion", "session"}
  MaxPasses = 2
  MaxFaults = 1
  m1 = m1
  m2 = m2
  m3 = m3
  Asked = Asked
  l1 = l1
  l2 = l2
  l3 = l3
  canny = canny
  save1 = save1
  save2 = save2
  q1 = q1
  q2 = q2
  x1 = x1
  va = va
  vb = vb
  v1 = v1
  u1 = u1
  u2 = u2
  u3 = u3
  w1 = w1
  w2 = w2
  v2 = v2
  la = la
  lb = lb
  patch1 = patch1
  patch2 = patch2
  vconv1 = vconv1
  vconv2 = vconv2
  vslot = vslot
CHECK_DEADLOCK FALSE
INVARIANTS
  TypeOK
  BuildsTrue
  TabConverges
  PipelinesTrue
  
  StoreTrue
  ForecastsTrue
  DurableTrue
  SpeaksTrue
  ServingTrue
