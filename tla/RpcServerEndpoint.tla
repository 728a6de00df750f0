-------------------------- MODULE RpcServerEndpoint --------------------------
(***************************************************************************)
(* RpcServerEndpointImpl and the application above it.  The endpoint keeps *)
(* one state per client; poll() turns request PDUs into events, and the    *)
(* application answers a request it was given once, with send_reply or,    *)
(* after REQUEST_CANCEL, with send_cancel_reply.                           *)
(***************************************************************************)
EXTENDS RpcTransport, FiniteSets

CONSTANTS
  DynamicClient,       \* dynamic_client_: clients register by their first request
  MaxClients,          \* max_clients_
  ReplyCodes           \* result codes the application puts in a normal reply

ASSUME DynamicClientAssumption == DynamicClient \in BOOLEAN
ASSUME MaxClientsAssumption == MaxClients \in Nat
ASSUME ReplyCodesAssumption == ReplyCodes \subseteq ResultCode \ {"CANCELED"}

VARIABLES
  server_state,        \* server_states_[c].state
  server_request_id,   \* server_states_[c].request_id
  registered_clients,  \* registered_clients_, the keys of server_states_
  held,                \* held[c]: headers of the requests the application has to answer
  cancel_asked         \* cancel_asked[c]: those of them it saw a REQUEST_CANCEL for

serverVars == <<server_state, server_request_id, registered_clients, held,
                cancel_asked>>

ServerState == {"IDLE", "RUNNING", "CANCELLING"}

ServerTypeOK ==
  /\ server_state \in [Clients -> ServerState]
  /\ server_request_id \in [Clients -> RequestId]
  /\ registered_clients \in SUBSET Clients
  /\ held \in [Clients -> SUBSET Header]
  /\ cancel_asked \in [Clients -> SUBSET Header]

ServerInit ==
  /\ server_state = [c \in Clients |-> "IDLE"]
  /\ server_request_id = [c \in Clients |-> 0]
  /\ registered_clients = IF DynamicClient THEN {} ELSE Clients
  /\ held = [c \in Clients |-> {}]
  /\ cancel_asked = [c \in Clients |-> {}]

-----------------------------------------------------------------------------
(* Mutant: send_reply leaves the state of the client as it is. *)
SendReplyWithoutReset(c, reply, sent) ==
  LET live == c \in registered_clients /\ server_state[c] # "IDLE" IN
  /\ UNCHANGED <<server_state, server_request_id>>
  /\ responses' = Send(responses, c, reply, sent /\ live)

(* send_reply: dropped for a client that is unknown or IDLE.  The state is  *)
(* reset before the send and stays reset when the send fails; the id in the *)
(* reply is not compared with the request in flight.                        *)
SendReply(c, reply, sent) ==
  LET live == c \in registered_clients /\ server_state[c] # "IDLE" IN
  /\ server_state' = [server_state EXCEPT ![c] = IF live THEN "IDLE" ELSE @]
  /\ server_request_id' = [server_request_id EXCEPT ![c] = IF live THEN 0 ELSE @]
  /\ responses' = Send(responses, c, reply, sent /\ live)

(* Mutant: send_cancel_reply tests for the wrong state. *)
SendCancelReplyWhileRunning(c, reply, sent) ==
  LET live == c \in registered_clients /\ server_state[c] = "RUNNING" IN
  /\ server_state' = [server_state EXCEPT ![c] = IF live THEN "IDLE" ELSE @]
  /\ server_request_id' = [server_request_id EXCEPT ![c] = IF live THEN 0 ELSE @]
  /\ responses' = Send(responses, c, reply, sent /\ live)

(* send_cancel_reply: the same, for a CANCELLING client only.               *)
SendCancelReply(c, reply, sent) ==
  LET live == c \in registered_clients /\ server_state[c] = "CANCELLING" IN
  /\ server_state' = [server_state EXCEPT ![c] = IF live THEN "IDLE" ELSE @]
  /\ server_request_id' = [server_request_id EXCEPT ![c] = IF live THEN 0 ELSE @]
  /\ responses' = Send(responses, c, reply, sent /\ live)

(* send_error_reply goes through send_reply. *)
SendErrorReply(c, header, code, sent) ==
  /\ SendReply(c, ResponseTo(header, code), sent)
  /\ UNCHANGED <<held, cancel_asked>>

(* Mutant: the limit on dynamic clients is off by one. *)
ValidateHeaderOffByOne(c) ==
  \/ c \in registered_clients
  \/ DynamicClient /\ Cardinality(registered_clients) <= MaxClients

(* validate_header and ensure_dynamic_client: whether c is or can be        *)
(* registered.                                                              *)
ValidateHeader(c) ==
  \/ c \in registered_clients
  \/ DynamicClient /\ Cardinality(registered_clients) < MaxClients

-----------------------------------------------------------------------------
(* handle_request_in *)
HandleRequestIn(c, header, sent) ==
  \/ /\ server_state[c] = "IDLE"
     /\ server_state' = [server_state EXCEPT ![c] = "RUNNING"]
     /\ server_request_id' = [server_request_id EXCEPT ![c] = header.id]
     /\ held' = [held EXCEPT ![c] = @ \cup {header}]
     /\ UNCHANGED <<cancel_asked, responses>>
  \/ /\ server_state[c] # "IDLE"
     /\ SendErrorReply(c, header, "BUSY", sent)

(* Mutants: a cancel of a finished request is answered; a cancel ends the   *)
(* request at once.                                                         *)
HandleCancelRequestAnswersLate(c, header, sent) ==
  /\ responses' = IF server_state[c] = "IDLE"
                  THEN Send(responses, c, ResponseTo(header, "INVALID"), sent)
                  ELSE responses
  /\ server_state' = [server_state EXCEPT ![c] = IF @ = "IDLE" THEN @ ELSE "CANCELLING"]
  /\ cancel_asked' = [cancel_asked EXCEPT ![c] =
                        IF server_state[c] = "IDLE" THEN @ ELSE @ \cup {header}]
  /\ UNCHANGED <<server_request_id, held>>

HandleCancelRequestForgets(c, header, sent) ==
  /\ server_state' = [server_state EXCEPT ![c] = "IDLE"]
  /\ server_request_id' = [server_request_id EXCEPT ![c] = 0]
  /\ UNCHANGED <<held, cancel_asked, responses>>

(* handle_cancel_request *)
HandleCancelRequest(c, header, sent) ==
  \/ /\ server_state[c] = "RUNNING"
     /\ server_request_id[c] # header.id
     /\ SendErrorReply(c, header, "INVALID", sent)
  \/ /\ server_state[c] = "RUNNING"
     /\ server_request_id[c] = header.id
     /\ server_state' = [server_state EXCEPT ![c] = "CANCELLING"]
     /\ cancel_asked' = [cancel_asked EXCEPT ![c] = @ \cup {header}]
     /\ UNCHANGED <<server_request_id, held, responses>>
  \/ /\ server_state[c] = "IDLE"
     /\ UNCHANGED <<server_state, server_request_id, held, cancel_asked, responses>>
  \/ /\ server_state[c] = "CANCELLING"
     /\ SendErrorReply(c, header, "BUSY", sent)

(* poll on the front request PDU of client c. *)
ServerPoll(c, sent) ==
  /\ requests[c] # << >>
  /\ requests' = [requests EXCEPT ![c] = Tail(@)]
  /\ LET request == Head(requests[c])
         header == HeaderOf(request) IN
     \/ /\ ~ValidateHeader(c)
        /\ SendErrorReply(c, header, "ERROR", sent)
        /\ UNCHANGED registered_clients
     \/ /\ ValidateHeader(c)
        /\ registered_clients' = registered_clients \cup {c}
        /\ IF request.op = "CANCEL"
           THEN HandleCancelRequest(c, header, sent)
           ELSE HandleRequestIn(c, header, sent)

-----------------------------------------------------------------------------
(* The application is done with a request of client c. *)
Answered(c, header) ==
  /\ held' = [held EXCEPT ![c] = @ \ {header}]
  /\ cancel_asked' = [cancel_asked EXCEPT ![c] = @ \ {header}]
  /\ UNCHANGED <<registered_clients, requests>>

(* The application answers a request of client c with a normal reply,      *)
(* whether or not a cancel for it was reported in the meantime.             *)
Reply(c, header, code, sent) ==
  /\ header \in held[c]
  /\ SendReply(c, ResponseTo(header, code), sent)
  /\ Answered(c, header)

(* The application confirms the cancellation that poll() reported.          *)
CancelReply(c, header, sent) ==
  /\ header \in cancel_asked[c]
  /\ SendCancelReply(c, ResponseTo(header, "CANCELED"), sent)
  /\ Answered(c, header)
-----------------------------------------------------------------------------
(* A server state that is not IDLE is one the application will reset: the  *)
(* request in flight, or one its reply would stand in for, is still held.  *)
(* Otherwise every later request of the client would be answered BUSY.     *)
BusyServerHasHolder ==
  \A c \in Clients : server_state[c] # "IDLE" =>
    \E header \in held[c] : header.id = server_request_id[c]

(* A client that is not registered has neither a state nor a request at    *)
(* the application nor a response: dynamic clients beyond max_clients_     *)
(* leave no trace in the server.                                           *)
UnregisteredLeaveNoTrace ==
  /\ DynamicClient => Cardinality(registered_clients) <= MaxClients
  /\ \A c \in Clients \ registered_clients :
       server_state[c] = "IDLE" /\ held[c] = {} /\ responses[c] = << >>
=============================================================================
