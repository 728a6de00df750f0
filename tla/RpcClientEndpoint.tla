-------------------------- MODULE RpcClientEndpoint --------------------------
(***************************************************************************)
(* RpcClientEndpointImpl: one in-flight request per client endpoint.       *)
(* Every public method holds mtx_ for its whole body, so each is one       *)
(* action; the receive callback is an action of the transport's thread.    *)
(***************************************************************************)
EXTENDS RpcTransport

VARIABLES
  client_state,        \* client_state_.state
  client_request_id,   \* client_state_.request_id
  current_request_id,  \* current_request_id_, id of the latest request buffer
  deadline,            \* request_start_time_usec_ against current_timeout_usec_
  pending_responses,   \* pending_responses_, filled by the receive callback
  client_event,        \* what the latest poll() returned to the caller
  buffered,            \* the caller has a request buffer it has not sent
  incarnation          \* how often the client process has been restarted

clientVars == <<client_state, client_request_id, current_request_id, deadline,
                pending_responses, client_event, buffered, incarnation>>

ClientState == {"IDLE", "RUNNING", "CANCELLING"}
ClientEventType == {"NONE", "RESPONSE_IN", "RESPONSE_TIMEOUT", "RESPONSE_CANCEL"}

(* "none": timeout_usec is 0; "ahead": less than timeout_usec has elapsed   *)
(* since the call; "passed": more than timeout_usec has elapsed.            *)
Deadline == {"none", "ahead", "passed"}

ClientTypeOK ==
  /\ client_state \in [Clients -> ClientState]
  /\ client_request_id \in [Clients -> RequestId]
  /\ current_request_id \in [Clients -> RequestId]
  /\ deadline \in [Clients -> Deadline]
  /\ pending_responses \in [Clients -> Seq(Response)]
  /\ client_event \in [Clients -> ClientEventType]
  /\ buffered \in [Clients -> BOOLEAN]
  /\ incarnation \in [Clients -> Nat]

ClientInit ==
  /\ client_state = [c \in Clients |-> "IDLE"]
  /\ client_request_id = [c \in Clients |-> 0]
  /\ current_request_id = [c \in Clients |-> 0]
  /\ deadline = [c \in Clients |-> "none"]
  /\ pending_responses = [c \in Clients |-> << >>]
  /\ client_event = [c \in Clients |-> "NONE"]
  /\ buffered = [c \in Clients |-> FALSE]
  /\ incarnation = [c \in Clients |-> 0]

(* The PDU that create_request_buffer fills in. *)
RequestPdu(c, op, id) == [op |-> op, id |-> id, incarnation |-> incarnation[c]]

-----------------------------------------------------------------------------
(* create_request_buffer for a request: the next id, modulo 2^32.  Each     *)
(* endpoint has one caller at a time, so the latest buffer is the one that  *)
(* the caller passes to call().                                             *)
CreateRequestBuffer(c) ==
  /\ current_request_id' = [current_request_id EXCEPT ![c] = (@ + 1) % IdModulus]
  /\ buffered' = [buffered EXCEPT ![c] = TRUE]
  /\ UNCHANGED <<client_state, client_request_id, deadline, pending_responses,
                 client_event, incarnation, requests, responses>>

(* call: refused unless IDLE.  The endpoint commits to RUNNING before it    *)
(* sends and rolls only the state back when the send fails.                 *)
Call(c, finite, sent) ==
  /\ buffered[c]
  /\ client_state[c] = "IDLE"
  /\ client_state' = [client_state EXCEPT ![c] = IF sent THEN "RUNNING" ELSE "IDLE"]
  /\ client_request_id' = [client_request_id EXCEPT ![c] = current_request_id[c]]
  /\ deadline' = [deadline EXCEPT ![c] = IF finite THEN "ahead" ELSE "none"]
  /\ requests' = Send(requests, c, RequestPdu(c, "REQUEST", current_request_id[c]), sent)
  /\ buffered' = [buffered EXCEPT ![c] = ~sent]
  /\ UNCHANGED <<current_request_id, pending_responses, client_event, incarnation, responses>>

(* Mutant: sending a cancel frees the endpoint. *)
SendCancelRequestFrees(c, sent) ==
  /\ client_state[c] = "RUNNING"
  /\ client_state' = [client_state EXCEPT ![c] = IF sent THEN "IDLE" ELSE @]
  /\ requests' = Send(requests, c, RequestPdu(c, "CANCEL", client_request_id[c]), sent)
  /\ UNCHANGED <<client_request_id, current_request_id, deadline,
                 pending_responses, responses, client_event, buffered, incarnation>>

(* send_cancel_request: only while RUNNING; a failed send changes nothing.  *)
SendCancelRequest(c, sent) ==
  /\ client_state[c] = "RUNNING"
  /\ client_state' = [client_state EXCEPT ![c] = IF sent THEN "CANCELLING" ELSE @]
  /\ requests' = Send(requests, c, RequestPdu(c, "CANCEL", client_request_id[c]), sent)
  /\ UNCHANGED <<client_request_id, current_request_id, deadline,
                 pending_responses, responses, client_event, buffered, incarnation>>

(* The receive callback: put_pending_response.                              *)
PutPendingResponse(c) ==
  /\ responses[c] # << >>
  /\ pending_responses' = [pending_responses EXCEPT ![c] = Append(@, Head(responses[c]))]
  /\ responses' = [responses EXCEPT ![c] = Tail(@)]
  /\ UNCHANGED <<client_state, client_request_id, current_request_id, deadline,
                 requests, client_event, buffered, incarnation>>

-----------------------------------------------------------------------------
(* i is the first entry of pending_responses_ that answers the request      *)
(* the client waits for.                                                    *)
Answers(c, i) == pending_responses[c][i].id = client_request_id[c]

FirstAnswer(c, i) ==
  /\ i \in DOMAIN pending_responses[c]
  /\ Answers(c, i)
  /\ \A j \in DOMAIN pending_responses[c] : Answers(c, j) => i <= j

(* Mutant: a response that was handled stays in pending_responses_. *)
EraseNothing(s, i) == s

(* vector::erase at position i. *)
Erase(s, i) == [j \in 1 .. Len(s) - 1 |-> IF j < i THEN s[j] ELSE s[j + 1]]

TimedOut(c) == client_state[c] = "RUNNING" /\ deadline[c] = "passed"

(* Mutant: a timeout frees the endpoint. *)
PollTimeoutFrees(c) ==
  /\ TimedOut(c)
  /\ client_event' = [client_event EXCEPT ![c] = "RESPONSE_TIMEOUT"]
  /\ client_state' = [client_state EXCEPT ![c] = "IDLE"]
  /\ UNCHANGED <<client_request_id, current_request_id, deadline,
                 pending_responses, requests, responses, buffered, incarnation>>

(* poll, past the deadline of a running request: the timeout is reported    *)
(* before pending_responses_ is looked at, and nothing changes.             *)
PollTimeout(c) ==
  /\ TimedOut(c)
  /\ client_event' = [client_event EXCEPT ![c] = "RESPONSE_TIMEOUT"]
  /\ UNCHANGED <<client_state, client_request_id, current_request_id, deadline,
                 pending_responses, requests, responses, buffered, incarnation>>

(* handle_response_in and handle_cancel_response.  validate_header can only *)
(* fail on the result code: the channel fixes the names and the scan of     *)
(* pending_responses_ has already compared the id.                          *)
ResponseEvent(code) ==
  CASE code = "UNDEFINED" -> "NONE"
    [] code = "CANCELED" -> "RESPONSE_CANCEL"
    [] OTHER -> "RESPONSE_IN"

(* poll: the first matching response is taken out and ends the request.     *)
PollResponse(c) ==
  /\ client_state[c] # "IDLE"
  /\ ~TimedOut(c)
  /\ \E i \in DOMAIN pending_responses[c] :
       /\ FirstAnswer(c, i)
       /\ pending_responses' = [pending_responses EXCEPT ![c] = Erase(@, i)]
       /\ client_event' = [client_event EXCEPT ![c] = ResponseEvent(pending_responses[c][i].code)]
  /\ client_state' = [client_state EXCEPT ![c] = "IDLE"]
  /\ UNCHANGED <<client_request_id, current_request_id, deadline,
                 requests, responses, buffered, incarnation>>

(* poll with nothing to report. *)
PollNone(c) ==
  /\ \/ client_state[c] = "IDLE"
     \/ ~TimedOut(c) /\ \A i \in DOMAIN pending_responses[c] : ~Answers(c, i)
  /\ client_event' = [client_event EXCEPT ![c] = "NONE"]
  /\ UNCHANGED <<client_state, client_request_id, current_request_id, deadline,
                 pending_responses, requests, responses, buffered, incarnation>>

ClientPoll(c) == PollTimeout(c) \/ PollResponse(c) \/ PollNone(c)

(* The time source moves past the deadline of the request. *)
DeadlinePasses(c) ==
  /\ deadline[c] = "ahead"
  /\ deadline' = [deadline EXCEPT ![c] = "passed"]
  /\ UNCHANGED <<client_state, client_request_id, current_request_id,
                 pending_responses, client_event, requests, responses, buffered, incarnation>>
=============================================================================
