SPECIFICATION MuxFairSpec
CONSTANTS
  Clients = {1, 2, 3}
  IdModulus = 2
  SendOutcomes = {TRUE}
  DynamicClient = FALSE
  MaxClients = 1
  ReplyCodes = {"OK"}
  BufferFits = {TRUE}
  Capacity = 2
  Callers = {1, 3}
INVARIANTS
  SessionsUndisturbed
PROPERTIES
  ReplyStaysInSession
  LostSessionsRemoved
