----------------------------- MODULE RpcServices -----------------------------
(***************************************************************************)
(* RpcServicesClient: one caller with an endpoint for each of several      *)
(* services, whose servers are independent of each other.  Clients are the *)
(* services here, numbered in the order of rpc_endpoints_.  poll() asks    *)
(* the endpoints in that order, each under its own mutex, and returns at   *)
(* the first event, so an early service can keep a later one waiting.      *)
(***************************************************************************)
EXTENDS RpcSystem

CONSTANT DrainFirst  \* the caller polls until NONE before it makes another call

ASSUME ServicesAssumption == Clients \subseteq Nat /\ Clients # {} /\ IsFiniteSet(Clients)

VARIABLES
  remaining,         \* the services the poll() under way has not asked yet
  drained            \* the latest poll() returned NONE

serviceVars == <<remaining, drained>>
servicesVars == <<vars, serviceVars>>

ServicesInit ==
  /\ Init
  /\ remaining = {}
  /\ drained = TRUE

Idle == remaining = {}

(* call, create_request_buffer and send_cancel_request of the service s.    *)
ServicesCall(s) ==
  /\ Idle /\ (DrainFirst => drained)
  /\ client_state[s] = "IDLE"
  /\ CreateRequestBuffer(s) \/ \E finite \in BOOLEAN, sent \in SendOutcomes : Call(s, finite, sent)
  /\ UNCHANGED serviceVars

ServicesCancel(s) ==
  /\ Idle
  /\ \E sent \in SendOutcomes : SendCancelRequest(s, sent)
  /\ UNCHANGED serviceVars

PollBegin ==
  /\ Idle
  /\ remaining' = Clients
  /\ UNCHANGED <<clientVars, transportVars, drained>>

(* Mutant: the first endpoint's answer is the answer. *)
PollServiceFirstOnly(s) ==
  /\ s \in remaining /\ \A t \in remaining : s <= t
  /\ ClientPoll(s)
  /\ remaining' = {}
  /\ drained' = (client_event'[s] = "NONE")

PollService(s) ==
  /\ s \in remaining /\ \A t \in remaining : s <= t
  /\ ClientPoll(s)
  /\ remaining' = IF client_event'[s] = "NONE" THEN remaining \ {s} ELSE {}
  /\ drained' = (client_event'[s] = "NONE")

ServicesPoll == PollBegin \/ \E s \in Clients : PollService(s)

(* The receive callbacks and the time source run at any time. *)
ServicesEnvironment(s) ==
  /\ PutPendingResponse(s) \/ DeadlinePasses(s)
  /\ UNCHANGED serviceVars

ServicesNext ==
  \/ /\ \/ ServicesPoll
        \/ \E s \in Clients : ServicesCall(s) \/ ServicesCancel(s) \/ ServicesEnvironment(s)
     /\ UNCHANGED serverVars
  \/ \E s \in Clients : ServerStep(s) /\ UNCHANGED serviceVars

CancelTimedOut(s) ==
  /\ client_event[s] = "RESPONSE_TIMEOUT"
  /\ ServicesCancel(s)
  /\ UNCHANGED serverVars

(* The caller polls and cancels what timed out, the transport delivers and  *)
(* the servers answer.  A cancel waits for poll() to return, which happens  *)
(* again and again: strong fairness.                                        *)
ServicesFairSpec ==
  /\ ServicesInit /\ [][ServicesNext]_servicesVars
  /\ WF_servicesVars(ServicesPoll /\ UNCHANGED serverVars)
  /\ \A s \in Clients :
       /\ WF_servicesVars(PutPendingResponse(s) /\ UNCHANGED <<serviceVars, serverVars>>)
       /\ WF_servicesVars(ServerStep(s) /\ UNCHANGED serviceVars)
       /\ SF_servicesVars(CancelTimedOut(s))

-----------------------------------------------------------------------------
(* Every service is served: a caller that takes all events before it calls  *)
(* again, and cancels what timed out, sees every call of every service end, *)
(* though poll() starts at the first service each time.                     *)
EveryServiceServed ==
  \A s \in Clients : client_state[s] # "IDLE" ~> client_state[s] = "IDLE"
=============================================================================
