------------------------------ MODULE RpcCApi ------------------------------
(***************************************************************************)
(* The C API over RpcSystem (c_rpc.cpp, c_rpc_alloc.cpp, c_rpc_cancel.cpp): *)
(* handles that are created, started and stopped for good, a poll that     *)
(* copies the event into the caller's buffer, and request tokens in place  *)
(* of request headers.  The token table has a mutex of its own, which a    *)
(* reply releases before it calls the services layer: taking the token and *)
(* sending the reply are two steps, and other threads may run in between.  *)
(* The application answers a request once, with one of its tokens.         *)
(***************************************************************************)
EXTENDS RpcSystem

CONSTANT BufferFits    \* outcomes of the copy into a caller's buffer: {TRUE} or {TRUE, FALSE}

ASSUME BufferFitsAssumption == BufferFits \in (SUBSET BOOLEAN) \ {{}}

VARIABLES
  server_handle,       \* rpc and started of the server handle
  client_handle,       \* client_handle[c]: the same of the client handles
  next_token,          \* next_token
  pending_requests,    \* pending_requests, as a set of entries
  taken,               \* entries whose reply is being sent
  c_event              \* c_event[c]: what hako_pdu_rpc_client_poll returned last

apiVars == <<server_handle, client_handle, next_token, pending_requests, taken, c_event>>
cVars == <<vars, apiVars>>

Handle == {"created", "started", "stopped"}

(* A request kept under its token, with the event that reported it.        *)
Entry == [token : Nat, client : Clients, header : Header,
          event : {"REQUEST_IN", "REQUEST_CANCEL"}]

(* The variables of the C layer stay in their types, and a token is the key *)
(* of one request only.                                                     *)
CTypeOK ==
  /\ server_handle \in Handle
  /\ client_handle \in [Clients -> Handle]
  /\ next_token \in Nat
  /\ pending_requests \in SUBSET Entry
  /\ taken \in SUBSET Entry
  /\ c_event \in [Clients -> ClientEventType]
  /\ \A e, f \in pending_requests \cup taken : e.token = f.token => e = f

CInit ==
  /\ Init
  /\ server_handle = "created"
  /\ client_handle = [c \in Clients |-> "created"]
  /\ next_token = 1
  /\ pending_requests = {}
  /\ taken = {}
  /\ c_event = [c \in Clients |-> "NONE"]

-----------------------------------------------------------------------------
(* hako_pdu_rpc_server_start, hako_pdu_rpc_client_start: refused after stop. *)
CServerStart ==
  /\ server_handle = "created"
  /\ server_handle' = "started"
  /\ UNCHANGED <<vars, client_handle, next_token, pending_requests, taken, c_event>>

CClientStart(c) ==
  /\ client_handle[c] = "created"
  /\ client_handle' = [client_handle EXCEPT ![c] = "started"]
  /\ UNCHANGED <<vars, server_handle, next_token, pending_requests, taken, c_event>>

(* hako_pdu_rpc_server_stop: stop_all_services and clear_all_instances drop *)
(* what was received, release_server the tokens and the services.  The      *)
(* caller stops when no other thread is inside a call.                      *)
CServerStop ==
  /\ taken = {}
  /\ server_handle' = "stopped"
  /\ requests' = [c \in Clients |-> << >>]
  /\ pending_requests' = {}
  /\ UNCHANGED <<responses, clientVars, serverVars, client_handle, next_token, taken, c_event>>

(* hako_pdu_rpc_client_stop, of one client. *)
CClientStop(c) ==
  /\ client_handle' = [client_handle EXCEPT ![c] = "stopped"]
  /\ pending_responses' = [pending_responses EXCEPT ![c] = << >>]
  /\ responses' = [responses EXCEPT ![c] = << >>]
  /\ UNCHANGED <<requests, client_state, client_request_id, current_request_id, deadline,
                 client_event, buffered, incarnation, serverVars, server_handle, next_token,
                 pending_requests, taken, c_event>>

(* hako_pdu_rpc_stop_pair: both, server first. *)
CStopPair(c) ==
  /\ taken = {}
  /\ server_handle' = "stopped"
  /\ client_handle' = [client_handle EXCEPT ![c] = "stopped"]
  /\ requests' = [d \in Clients |-> << >>]
  /\ responses' = [responses EXCEPT ![c] = << >>]
  /\ pending_responses' = [pending_responses EXCEPT ![c] = << >>]
  /\ pending_requests' = {}
  /\ UNCHANGED <<client_state, client_request_id, current_request_id, deadline, client_event,
                 buffered, incarnation, serverVars, next_token, taken, c_event>>

-----------------------------------------------------------------------------
(* Bound: a client uses every request id once, so that tokens are finitely *)
(* many.                                                                   *)
IdsLeft(c) == current_request_id[c] + 1 \in RequestId

(* hako_pdu_rpc_client_create_request_buffer (and _alloc) and _call. *)
CClientCall(c) ==
  /\ client_handle[c] = "started"
  /\ \/ IdsLeft(c) /\ CreateRequestBuffer(c)
     \/ \E finite \in BOOLEAN, sent \in SendOutcomes : Call(c, finite, sent)
  /\ UNCHANGED <<serverVars, apiVars>>

(* hako_pdu_rpc_client_cancel *)
CClientCancel(c) ==
  /\ client_handle[c] = "started"
  /\ \E sent \in SendOutcomes : SendCancelRequest(c, sent)
  /\ UNCHANGED <<serverVars, apiVars>>

(* The transport and the clock. *)
CClientEnvironment(c) ==
  /\ client_handle[c] = "started"
  /\ PutPendingResponse(c) \/ DeadlinePasses(c)
  /\ UNCHANGED <<serverVars, apiVars>>

(* hako_pdu_rpc_client_poll: the services layer has taken the response out *)
(* of pending_responses_ when the copy into the caller's buffer fails.  A  *)
(* timeout carries no PDU and always fits.                                 *)
CClientPoll(c, fits) ==
  /\ client_handle[c] = "started"
  /\ ClientPoll(c)
  /\ c_event' = [c_event EXCEPT ![c] =
       IF fits \/ client_event'[c] = "RESPONSE_TIMEOUT" THEN client_event'[c] ELSE "NONE"]
  /\ UNCHANGED <<serverVars, server_handle, client_handle, next_token, pending_requests, taken>>

(* hako_pdu_rpc_client_poll_alloc: the API allocates what it needs. *)
CClientPollAlloc(c) == CClientPoll(c, TRUE)

-----------------------------------------------------------------------------
(* The request that RpcServicesServer::poll returned in this step, if any. *)
Reported(c) ==
  {[header |-> header, event |-> "REQUEST_IN"] : header \in held'[c] \ held[c]}
    \cup {[header |-> header, event |-> "REQUEST_CANCEL"] :
            header \in cancel_asked'[c] \ cancel_asked[c]}

(* The request under a new token.                                          *)
StoreRequest(c, report) ==
  /\ pending_requests' = pending_requests \cup
       {[token |-> next_token, client |-> c, header |-> report.header, event |-> report.event]}
  /\ next_token' = next_token + 1

(* hako_pdu_rpc_server_poll: an event that does not fit the buffer is not   *)
(* stored, and the services layer will not report it again.                 *)
CServerPoll(c, fits, sent) ==
  /\ server_handle = "started"
  /\ ServerPoll(c, sent)
  /\ \/ /\ fits
        /\ \E report \in Reported(c) : StoreRequest(c, report)
     \/ /\ ~fits \/ Reported(c) = {}
        /\ UNCHANGED <<next_token, pending_requests>>
  /\ UNCHANGED <<clientVars, server_handle, client_handle, taken, c_event>>

(* hako_pdu_rpc_server_poll_alloc *)
CServerPollAlloc(c, sent) == CServerPoll(c, TRUE, sent)

(* hako_pdu_rpc_server_send_reply and _send_cancel_reply, first half: find  *)
(* and erase the token.  The application answers a request it has not       *)
(* answered and is not answering.                                           *)
TakeRequest(e) ==
  /\ server_handle = "started"
  /\ e.header \in held[e.client]
  /\ \A f \in taken : f.client # e.client \/ f.header # e.header
  /\ pending_requests' = pending_requests \ {e}
  /\ taken' = taken \cup {e}
  /\ UNCHANGED <<vars, server_handle, client_handle, next_token, c_event>>


(* Second half: send_cancel_reply for a request reported as cancelled, or   *)
(* send_reply.                                                              *)
SendTaken(e, sent) ==
  /\ \/ e.event = "REQUEST_CANCEL" /\ CancelReply(e.client, e.header, sent)
     \/ \E code \in ReplyCodes : Reply(e.client, e.header, code, sent)
  /\ taken' = taken \ {e}
  /\ UNCHANGED <<clientVars, server_handle, client_handle, next_token, pending_requests, c_event>>

CNext ==
  \/ CServerStart
  \/ CServerStop
  \/ \E e \in pending_requests : TakeRequest(e)
  \/ \E e \in taken, sent \in SendOutcomes : SendTaken(e, sent)
  \/ \E c \in Clients :
       \/ CClientStart(c) \/ CClientStop(c) \/ CStopPair(c)
       \/ CClientCall(c) \/ CClientCancel(c) \/ CClientEnvironment(c)
       \/ CClientPollAlloc(c)
       \/ \E sent \in SendOutcomes : CServerPollAlloc(c, sent)
       \/ \E fits \in BufferFits :
            \/ CClientPoll(c, fits)
            \/ \E sent \in SendOutcomes : CServerPoll(c, fits, sent)

CSpec == CInit /\ [][CNext]_cVars

-----------------------------------------------------------------------------

(* A thread about to answer answers the request in flight: between taking  *)
(* the token and sending the reply nobody ends that request or starts      *)
(* another one, so the reply cannot reset the state of a later request.    *)
TakenIsInFlight ==
  \A e \in taken :
    /\ server_state[e.client] # "IDLE"
    /\ server_request_id[e.client] = e.header.id
    /\ e.event = "REQUEST_CANCEL" => server_state[e.client] = "CANCELLING"
=============================================================================
