CONSTANTS
  Clients = {c1}
  IdModulus = 2
  SendOutcomes = {TRUE, FALSE}
  DynamicClient = FALSE
  MaxClients = 1
  ReplyCodes = {"OK"}
  Calls = {1, 2}
  CancelChoices = {TRUE, FALSE}
  EventDeadline = TRUE
  FutureCancels = TRUE
  SharedClient = FALSE
SPECIFICATION PyFairSpec
INVARIANT ClientReusable
 
PROPERTY FuturesComplete
CHECK_DEADLOCK FALSE
