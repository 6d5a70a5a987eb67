SPECIFICATION MCSpec
CHECK_DEADLOCK FALSE
CONSTANTS
  None = None
  Sends = {s1, s2, s3}
  Slash = {s3}
  WithImages = {s1}
  WithDocs = {s1, s2}
  MaxJobs = 5
  MaxDowns = 1
  Nobody = Nobody
  Pids = {1, 2}
  ChatModels = {c1, c2}
  EmbedModels = {e1, e2}
  MaxBorn = 4
  Syntheses = {t1, t2}
  Transcriptions = {h1}
  MaxSessions = 2
  MaxDeaths = 1
INVARIANTS
  OneJobPerReply
  PlaceholderLive
  NoUnknownServer
  AnsweredByOwnModel
  LanesLeft
  ShownUnlessShared
  NoneForgotten
  ResultsWhole
PROPERTIES
  ReapsOnlyItsOwn
