SPECIFICATION FairSpec
CONSTANTS
  chat = chat
  image = image
  reply = reply
  llm = llm
  sd = sd
  Jobs <- MCJobs
  Submitted <- MCSubmitted
  Chats = {chat}
  Follow <- MCFollow
  Models <- MCModels
  ModelOf <- MCModelOf
  Clients = {c1}
  DbFails = TRUE
  MaxStarts = 2
  None = None
INVARIANTS
  RunningIsWorkers
  ResultsOnce
  CancelWhileGenerating
PROPERTIES
  ImplementsJobLife
  QueueMoves
