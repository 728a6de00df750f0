SPECIFICATION CSpec
CONSTANTS
  Clients = {c1}
  IdModulus = 4
  SendOutcomes = {TRUE, FALSE}
  DynamicClient = FALSE
  MaxClients = 1
  ReplyCodes = {"OK"}
  BufferFits = {TRUE}
INVARIANTS
  
  TakenIsInFlight
