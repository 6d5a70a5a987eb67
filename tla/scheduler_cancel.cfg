SPECIFICATION Spec
CONSTANTS
  chat = chat
  image = image
  reply = reply
  llm = llm
  sd = sd
  Jobs <- MCTwoJobs
  Submitted <- MCTwoJobs
  Chats = {chat}
  Follow <- MCTwoFollow
  Models <- MCModels
  ModelOf <- MCTwoModelOf
  Clients = {c1}
  DbFails = FALSE
  MaxStarts = 1
  None = None
PROPERTIES
  CancelHonoured
