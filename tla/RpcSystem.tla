----------------------------- MODULE RpcSystem -----------------------------
(***************************************************************************)
(* The clients and the server of one RPC service over their transport,     *)
(* with the applications on both sides.                                    *)
(***************************************************************************)
EXTENDS RpcClientEndpoint, RpcServerEndpoint

vars == <<requests, responses, client_state, client_request_id,
          current_request_id, deadline, pending_responses, client_event,
          buffered, incarnation, server_state, server_request_id,
          registered_clients, held, cancel_asked>>

Init == TransportInit /\ ClientInit /\ ServerInit

(* What the caller of client c, and its time source, may do. *)
ClientStep(c) ==
  /\ \/ CreateRequestBuffer(c)
     \/ \E finite \in BOOLEAN, sent \in SendOutcomes : Call(c, finite, sent)
     \/ \E sent \in SendOutcomes : SendCancelRequest(c, sent)
     \/ PutPendingResponse(c)
     \/ ClientPoll(c)
     \/ DeadlinePasses(c)
  /\ UNCHANGED serverVars

(* What the server and its application may do for client c. *)
ServerStep(c) ==
  /\ \E sent \in SendOutcomes :
       \/ ServerPoll(c, sent)
       \/ \E header \in held[c], code \in ReplyCodes : Reply(c, header, code, sent)
       \/ \E header \in cancel_asked[c] : CancelReply(c, header, sent)
  /\ UNCHANGED clientVars

Next == \E c \in Clients : ClientStep(c) \/ ServerStep(c)

Spec == Init /\ [][Next]_vars

-----------------------------------------------------------------------------
(* All variables stay in their types. *)
TypeOK == TransportTypeOK /\ ClientTypeOK /\ ServerTypeOK

(* Positions of the request PDUs of client c on the wire, cancels left out. *)
RequestPositions(c) == {i \in DOMAIN requests[c] : requests[c][i].op = "REQUEST"}

(* The response PDUs for client c, in pending_responses_ or on the wire. *)
ResponsesFor(c) ==
  {pending_responses[c][i] : i \in DOMAIN pending_responses[c]}
    \cup {responses[c][i] : i \in DOMAIN responses[c]}

(* The request client c waits for, as the server's application sees it. *)
AwaitedHeader(c) == [id |-> client_request_id[c], incarnation |-> incarnation[c]]

(* The server works for a client only on the request that client waits for. *)
(* It is what keeps handle_request_in from answering BUSY and              *)
(* handle_cancel_request from answering INVALID, both of which would reset *)
(* the state of the request in flight.                                     *)
ServesAwaitedRequest ==
  \A c \in Clients : server_state[c] # "IDLE" =>
    /\ client_state[c] # "IDLE"
    /\ server_request_id[c] = client_request_id[c]
    /\ held[c] = {AwaitedHeader(c)}

(* pending_responses_ never holds a response the client does not wait for, *)
(* which poll() would skip for ever: there is at most one response for a   *)
(* client, it answers the request in flight, and a cancel confirmation     *)
(* answers a cancelled one.                                                *)
NoStaleResponse ==
  \A c \in Clients :
    /\ Len(pending_responses[c]) + Len(responses[c]) <= 1
    /\ \A r \in ResponsesFor(c) :
         /\ client_state[c] # "IDLE"
         /\ r.id = client_request_id[c]
         /\ r.code = "CANCELED" => client_state[c] = "CANCELLING"

(* Only the application ends a request: the endpoint never answers on its  *)
(* own with BUSY, INVALID or ERROR through send_error_reply.               *)
OnlyApplicationReplies ==
  \A c \in Clients : \A r \in ResponsesFor(c) : r.code \in ReplyCodes \cup {"CANCELED"}

(* With a transport that does not fail, and room for every client, a       *)
(* request in flight is in exactly one place: on the wire, at the server,  *)
(* or on its way back.  A request in none of them leaves its caller        *)
(* polling for ever.                                                       *)
Room == ~DynamicClient \/ Cardinality(Clients) <= MaxClients

Places(c) ==
  {p \in {"wire", "server", "back"} :
     \/ p = "wire" /\ RequestPositions(c) # {}
     \/ p = "server" /\ server_state[c] # "IDLE"
     \/ p = "back" /\ ResponsesFor(c) # {}}

RequestAccounted ==
  SendOutcomes = {TRUE} /\ Room =>
    \A c \in Clients : client_state[c] # "IDLE" => \E p \in Places(c) : Places(c) = {p}

(* A late cancel: the caller has had the answer, so it is no longer        *)
(* CANCELLING or has already sent its next request behind the cancel.      *)
LateCancel(c) ==
  /\ requests[c] # << >>
  /\ Head(requests[c]).op = "CANCEL"
  /\ client_state[c] # "CANCELLING" \/ RequestPositions(c) # {}

(* A late server-side CANCEL is harmless: polling it changes neither the   *)
(* server's state for the client nor what the client will receive.         *)
LateCancelHarmless ==
  [][\A c \in Clients : LateCancel(c) /\ requests'[c] = Tail(requests[c]) =>
       /\ server_state'[c] = server_state[c]
       /\ server_request_id'[c] = server_request_id[c]
       /\ responses'[c] = responses[c]]_vars

(* An endpoint becomes reusable only when poll() takes a response to the   *)
(* request in flight out of pending_responses_; neither a timeout nor a    *)
(* cancel request frees it.                                                *)
ReusableOnlyAfterResponse ==
  [][\A c \in Clients : client_state[c] # "IDLE" /\ client_state'[c] = "IDLE" =>
       /\ \E r \in ResponsesFor(c) : r.id = client_request_id[c]
       /\ server_state[c] = "IDLE"
       /\ client_event'[c] = "RESPONSE_CANCEL" => client_state[c] = "CANCELLING"]_vars

-----------------------------------------------------------------------------
(* The inductive invariant behind these: where the request in flight of a  *)
(* client is, in four parts.                                               *)
NoResponse(c) == pending_responses[c] = << >> /\ responses[c] = << >>

CancelPdu(c) == RequestPdu(c, "CANCEL", client_request_id[c])

(* The request PDU on the wire is the awaited one, nobody has answered it, *)
(* and at most its own cancel follows it.                                  *)
WireInv(c) ==
  \A i \in 1 .. Len(requests[c]) : requests[c][i].op = "REQUEST" =>
    /\ client_state[c] # "IDLE" /\ server_state[c] = "IDLE" /\ NoResponse(c)
    /\ HeaderOf(requests[c][i]) = AwaitedHeader(c)
    /\ \A j \in i + 1 .. Len(requests[c]) :
         j = i + 1 /\ requests[c][j] = CancelPdu(c) /\ client_state[c] = "CANCELLING"

(* A request the server runs is awaited, unanswered and held once; at most *)
(* its own cancel is on the wire.                                          *)
RunningInv(c) ==
  server_state[c] = "RUNNING" =>
    /\ client_state[c] # "IDLE" /\ NoResponse(c)
    /\ cancel_asked[c] = {}
    /\ \A j \in 1 .. Len(requests[c]) :
         j = 1 /\ requests[c][j] = CancelPdu(c) /\ client_state[c] = "CANCELLING"

(* A request the server cancels is one its client has cancelled.           *)
CancellingInv(c) ==
  server_state[c] = "CANCELLING" =>
    /\ client_state[c] = "CANCELLING" /\ NoResponse(c)
    /\ cancel_asked[c] = {AwaitedHeader(c)}
    /\ requests[c] = << >>

HolderInv(c) ==
  IF server_state[c] = "IDLE" THEN held[c] = {} /\ cancel_asked[c] = {}
  ELSE /\ held[c] = {AwaitedHeader(c)}
       /\ server_request_id[c] = client_request_id[c]
       /\ c \in registered_clients

(* A response is the only one and answers the request in flight.           *)
GoodResponse(c, r) ==
  /\ client_state[c] # "IDLE" /\ server_state[c] = "IDLE"
  /\ r.id = client_request_id[c]
  /\ r.code \in ReplyCodes \cup {"CANCELED"}
  /\ r.code = "CANCELED" => client_state[c] = "CANCELLING"

ResponseInv(c) ==
  /\ Len(pending_responses[c]) + Len(responses[c]) <= 1
  /\ \A i \in 1 .. Len(pending_responses[c]) : GoodResponse(c, pending_responses[c][i])
  /\ \A i \in 1 .. Len(responses[c]) : GoodResponse(c, responses[c][i])

InFlight(c) ==
  WireInv(c) /\ RunningInv(c) /\ CancellingInv(c) /\ HolderInv(c) /\ ResponseInv(c)

(* Every client has at most one request in flight, in one place at a time. *)
InFlightInv == \A c \in Clients : InFlight(c)

-----------------------------------------------------------------------------
(* Fairness: threads that poll keep polling, the transport delivers, and   *)
(* the server's application answers what it holds.                         *)
PollFairness ==
  \A c \in Clients :
    /\ WF_vars(PutPendingResponse(c) /\ UNCHANGED serverVars)
    /\ WF_vars(ClientPoll(c) /\ UNCHANGED serverVars)
    /\ WF_vars(ServerStep(c))
=============================================================================
