CONSTANTS
  Clients = {1, 2}
  IdModulus = 2
  SendOutcomes = {TRUE}
  DynamicClient = FALSE
  MaxClients = 2
  ReplyCodes = {"OK"}
  DrainFirst = TRUE
SPECIFICATION ServicesFairSpec
INVARIANT RequestAccounted
PROPERTY EveryServiceServed
