SPECIFICATION Spec
CONSTANTS
  Clients = {c1, c2}
  IdModulus = 2
  SendOutcomes = {TRUE, FALSE}
  DynamicClient = TRUE
  MaxClients = 1
  ReplyCodes = {"OK", "UNDEFINED"}
SYMMETRY ClientSymmetry
INVARIANTS
  ServesAwaitedRequest
  NoStaleResponse
  UnregisteredLeaveNoTrace
PROPERTIES
  LateCancelHarmless
  ReusableOnlyAfterResponse
