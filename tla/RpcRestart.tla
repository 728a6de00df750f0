----------------------------- MODULE RpcRestart -----------------------------
(***************************************************************************)
(* RpcSystem with clients that are destroyed and created anew while the    *)
(* server keeps running.  A new RpcClientEndpointImpl is IDLE and counts   *)
(* its request ids from the start; the server keeps server_states_ and     *)
(* what its receive callback has already put in pending_requests_.         *)
(***************************************************************************)
EXTENDS RpcSystem

CONSTANT MaxRestarts   \* bound: restarts per client

ASSUME MaxRestartsAssumption == MaxRestarts \in Nat

(* The connection of the old client takes with it the responses on the wire *)
(* and the requests the server has not received yet.                        *)
ClientRestart(c) ==
  /\ incarnation[c] < MaxRestarts
  /\ incarnation' = [incarnation EXCEPT ![c] = @ + 1]
  /\ client_state' = [client_state EXCEPT ![c] = "IDLE"]
  /\ client_request_id' = [client_request_id EXCEPT ![c] = 0]
  /\ current_request_id' = [current_request_id EXCEPT ![c] = 0]
  /\ deadline' = [deadline EXCEPT ![c] = "none"]
  /\ pending_responses' = [pending_responses EXCEPT ![c] = << >>]
  /\ buffered' = [buffered EXCEPT ![c] = FALSE]
  /\ client_event' = [client_event EXCEPT ![c] = "NONE"]
  /\ responses' = [responses EXCEPT ![c] = << >>]
  /\ \E received \in 0 .. Len(requests[c]) :
       requests' = [requests EXCEPT ![c] = SubSeq(@, 1, received)]
  /\ UNCHANGED serverVars

(* Bound: within a run an incarnation does not use up its request ids, so  *)
(* that the application never holds two requests with the same header.     *)
NoWrap(c) == current_request_id'[c] >= current_request_id[c]

RestartNext ==
  \E c \in Clients : \/ (ClientStep(c) \/ ServerStep(c)) /\ NoWrap(c)
                     \/ ClientRestart(c)

RestartSpec == Init /\ [][RestartNext]_vars

FairRestartSpec == RestartSpec /\ PollFairness

-----------------------------------------------------------------------------
(* The server does not stay busy with a request of a client that is gone.   *)
ServerBecomesIdle ==
  \A c \in Clients : server_state[c] # "IDLE" ~> server_state[c] = "IDLE"
=============================================================================
