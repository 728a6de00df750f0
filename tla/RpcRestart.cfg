SPECIFICATION FairRestartSpec
CONSTANTS
  Clients = {c1}
  IdModulus = 3
  MaxRestarts = 2
  SendOutcomes = {TRUE}
  DynamicClient = FALSE
  MaxClients = 1
  ReplyCodes = {"OK"}
INVARIANTS
  BusyServerHasHolder
PROPERTIES
  ServerBecomesIdle
