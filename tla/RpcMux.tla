------------------------------- MODULE RpcMux -------------------------------
(***************************************************************************)
(* RpcServicesMuxServer and its C facade (rpc_services_mux_server.cpp,     *)
(* c_rpc_mux.cpp): one listener, one slot with an RPC server endpoint per  *)
(* accepted session, and tokens that remember the session of a request.    *)
(* A session is a member of Clients: the client process at its other end   *)
(* is a new one, so its request ids start again.  The sessions share one   *)
(* client name, as a client that reconnects does.  mutex_ serialises       *)
(* poll() and the replies; sessions arrive and are lost at any time, and   *)
(* the C facade takes a token before it asks for mutex_.                   *)
(* Clients call once their session has a slot, as the tests do.            *)
(***************************************************************************)
EXTENDS RpcSystem, SequencesExt

CONSTANTS
  Capacity,     \* EndpointCommMultiplexer::expected_count()
  Callers,      \* bound: the sessions whose clients make calls
  BufferFits    \* outcomes of the copy into a caller's buffer: {TRUE} or {TRUE, FALSE}

ASSUME CapacityAssumption == Capacity \in Nat \ {0}
ASSUME MuxBufferFitsAssumption == BufferFits \in (SUBSET BOOLEAN) \ {{}}

VARIABLES
  mux_handle,          \* rpc and started of the C handle
  new_sessions,        \* sessions nobody has made an Endpoint of yet
  waiting,             \* sessions take_endpoints() will return
  disconnected,        \* sessions whose disconnected flag is set
  slots,               \* slots_, as the sequence of their sessions
  connection_id,       \* connection_id[s]: id of the slot of session s
  next_connection_id,  \* next_connection_id_
  remaining,           \* slots poll() has still to visit
  phase,               \* how far the thread inside poll() has come
  next_token, pending_requests, taken    \* as in RpcCApi, with connection ids

muxVars == <<mux_handle, new_sessions, waiting, disconnected, slots, connection_id,
             next_connection_id, remaining, phase, next_token, pending_requests, taken>>
allVars == <<vars, muxVars>>

MuxEntry == [token : Nat, connection_id : Nat, header : Header,
             event : {"REQUEST_IN", "REQUEST_CANCEL"}]

(* Slots are as many as the configuration allows, each with one session.   *)
RpcMuxTypeOK ==
  /\ mux_handle \in {"created", "started", "stopped"}
  /\ new_sessions \subseteq Clients /\ disconnected \subseteq Clients
  /\ waiting \in Seq(Clients) /\ slots \in Seq(Clients) /\ remaining \in Seq(Clients)
  /\ Len(slots) <= Capacity /\ IsInjective(slots)
  /\ connection_id \in [Clients -> Nat] /\ next_connection_id \in Nat /\ next_token \in Nat
  /\ phase \in {"IDLE", "ACCEPT", "SLOTS"}
  /\ pending_requests \cup taken \subseteq MuxEntry

MuxInit ==
  /\ Init
  /\ mux_handle = "created"
  /\ new_sessions = Clients
  /\ waiting = << >> /\ slots = << >> /\ remaining = << >>
  /\ disconnected = {}
  /\ connection_id = [s \in Clients |-> 0]
  /\ next_connection_id = 1
  /\ phase = "IDLE"
  /\ next_token = 1
  /\ pending_requests = {} /\ taken = {}

Slots == ToSet(slots)
Live(s) == s \in Slots \ disconnected

-----------------------------------------------------------------------------
(* The listener: a client connects, and its process is a new one.  Sessions *)
(* are numbered in the order in which they are accepted.                    *)
SessionAccepted(s) ==
  /\ mux_handle = "started"
  /\ s \in new_sessions /\ \A t \in new_sessions : s <= t
  /\ new_sessions' = new_sessions \ {s}
  /\ waiting' = Append(waiting, s)
  /\ incarnation' = [incarnation EXCEPT ![s] = s]
  /\ UNCHANGED <<transportVars, client_state, client_request_id, current_request_id, deadline,
                 pending_responses, client_event, buffered, serverVars, mux_handle, disconnected,
                 slots, connection_id, next_connection_id, remaining, phase, next_token,
                 pending_requests, taken>>

(* The client process ends, and with it its endpoint. *)
ProcessEnds(s) ==
  /\ client_state' = [client_state EXCEPT ![s] = "IDLE"]
  /\ client_request_id' = [client_request_id EXCEPT ![s] = 0]
  /\ current_request_id' = [current_request_id EXCEPT ![s] = 0]
  /\ pending_responses' = [pending_responses EXCEPT ![s] = << >>]
  /\ buffered' = [buffered EXCEPT ![s] = FALSE]
  /\ client_event' = [client_event EXCEPT ![s] = "NONE"]
  /\ UNCHANGED <<deadline, incarnation>>

(* The on-disconnected callback of a slot.  What the server had received    *)
(* stays in pending_requests_.                                              *)
ConnectionLost(s) ==
  /\ Live(s)
  /\ disconnected' = disconnected \cup {s}
  /\ responses' = [responses EXCEPT ![s] = << >>]
  /\ \E received \in 0 .. Len(requests[s]) :
       requests' = [requests EXCEPT ![s] = SubSeq(@, 1, received)]
  /\ ProcessEnds(s)
  /\ UNCHANGED <<serverVars, mux_handle, new_sessions, waiting, slots, connection_id,
                 next_connection_id, remaining, phase, next_token, pending_requests, taken>>

(* The client of a live session calls, cancels and polls, without a        *)
(* deadline.  Bound: it uses every request id once.                        *)
ClientOfSession(s) ==
  /\ Live(s) /\ s \in Callers
  /\ \/ current_request_id[s] + 1 \in RequestId /\ ~buffered[s] /\ CreateRequestBuffer(s)
     \/ Call(s, FALSE, TRUE)
     \/ SendCancelRequest(s, TRUE)
     \/ PutPendingResponse(s)
     \/ PollResponse(s)
  /\ UNCHANGED <<serverVars, muxVars>>

-----------------------------------------------------------------------------
(* hako_pdu_rpc_mux_server_start: refused after stop. *)
MuxStart ==
  /\ mux_handle = "created"
  /\ mux_handle' = "started"
  /\ UNCHANGED <<vars, new_sessions, waiting, disconnected, slots, connection_id,
                 next_connection_id, remaining, phase, next_token, pending_requests, taken>>

(* close_slot_ of the given sessions: the adapter goes, with the states of  *)
(* its endpoint and what it had received.  The application keeps what it    *)
(* was given.                                                               *)
CloseSlots(closed) ==
  /\ requests' = [s \in Clients |-> IF s \in closed THEN << >> ELSE requests[s]]
  /\ responses' = [s \in Clients |-> IF s \in closed THEN << >> ELSE responses[s]]
  /\ server_state' = [s \in Clients |-> IF s \in closed THEN "IDLE" ELSE server_state[s]]
  /\ server_request_id' = [s \in Clients |-> IF s \in closed THEN 0 ELSE server_request_id[s]]
  /\ UNCHANGED <<registered_clients, held, cancel_asked>>

(* hako_pdu_rpc_mux_server_stop.  The caller stops when no other thread is *)
(* inside a call.                                                          *)
MuxStop ==
  /\ phase = "IDLE" /\ taken = {}
  /\ mux_handle' = "stopped"
  /\ CloseSlots(Slots)
  /\ disconnected' = disconnected \cup Slots
  /\ slots' = << >> /\ waiting' = << >>
  /\ pending_requests' = {}
  /\ UNCHANGED <<clientVars, new_sessions, connection_id, next_connection_id,
                 remaining, phase, next_token, taken>>

(* poll, first part: take_endpoints().  A session that arrives while the    *)
(* loop over them runs counts as taken with them.                           *)
PollBegin ==
  /\ mux_handle = "started" /\ phase = "IDLE"
  /\ phase' = "ACCEPT"
  /\ UNCHANGED <<vars, mux_handle, new_sessions, waiting, disconnected, slots, connection_id,
                 next_connection_id, remaining, next_token, pending_requests, taken>>

(* Mutant: the id is the slot's position. *)
InstallAtPosition(s) ==
  IF Len(slots) < Capacity
  THEN /\ slots' = Append(slots, s)
       /\ connection_id' = [connection_id EXCEPT ![s] = Len(slots) + 1]
       /\ UNCHANGED next_connection_id
  ELSE UNCHANGED <<slots, connection_id, next_connection_id>>

(* A session gets a slot and the next id, or is closed when slots_ is full. *)
Install(s) ==
  IF Len(slots) < Capacity
  THEN /\ slots' = Append(slots, s)
       /\ connection_id' = [connection_id EXCEPT ![s] = next_connection_id]
       /\ next_connection_id' = next_connection_id + 1
  ELSE UNCHANGED <<slots, connection_id, next_connection_id>>

(* accept_new_connections_, for the next session. *)
AcceptNewConnection ==
  /\ phase = "ACCEPT" /\ waiting # << >>
  /\ waiting' = Tail(waiting)
  /\ Install(Head(waiting))
  /\ UNCHANGED <<vars, mux_handle, new_sessions, disconnected, remaining, phase, next_token,
                 pending_requests, taken>>

(* Mutant: a slot with a request at the application is kept. *)
CleanupDisconnectedIdle ==
  LET closed == {s \in Slots \cap disconnected : server_state[s] = "IDLE"} IN
  /\ CloseSlots(closed)
  /\ slots' = SelectSeq(slots, LAMBDA s : s \notin closed)

(* cleanup_disconnected_ *)
CleanupDisconnected ==
  LET closed == Slots \cap disconnected IN
  /\ CloseSlots(closed)
  /\ slots' = SelectSeq(slots, LAMBDA s : s \notin closed)

(* poll, the sessions are accepted. *)
PollCleanup ==
  /\ phase = "ACCEPT" /\ waiting = << >>
  /\ phase' = "SLOTS"
  /\ CleanupDisconnected
  /\ remaining' = slots'
  /\ UNCHANGED <<clientVars, mux_handle, new_sessions, waiting, disconnected,
                 connection_id, next_connection_id, next_token, pending_requests, taken>>

(* A send on a lost session fails. *)
Sends(s) == IF s \in disconnected THEN {FALSE} ELSE SendOutcomes

(* The request that the adapter's poll() returned in this step, if any. *)
Reported(s) ==
  {[header |-> header, event |-> "REQUEST_IN"] : header \in held'[s] \ held[s]}
    \cup {[header |-> header, event |-> "REQUEST_CANCEL"] :
            header \in cancel_asked'[s] \ cancel_asked[s]}

(* store_request: a new token, unless the event did not fit the buffer of   *)
(* hako_pdu_rpc_mux_server_poll.                                            *)
StoreRequest(s, report, fits) ==
  IF fits
  THEN /\ pending_requests' = pending_requests \cup
            {[token |-> next_token, connection_id |-> connection_id[s],
              header |-> report.header, event |-> report.event]}
       /\ next_token' = next_token + 1
  ELSE UNCHANGED <<pending_requests, next_token>>

(* poll, the loop over slots_: a slot without a request or with one that    *)
(* makes no event ends its turn; the first event is returned, and the C     *)
(* facade stores it.                                                        *)
VisitSlot ==
  /\ phase = "SLOTS" /\ remaining # << >>
  /\ LET s == Head(remaining) IN
     \/ /\ requests[s] = << >>
        /\ remaining' = Tail(remaining)
        /\ UNCHANGED <<vars, phase, next_token, pending_requests>>
     \/ \E sent \in Sends(s) :
          /\ ServerPoll(s, sent)
          /\ UNCHANGED clientVars
          /\ \/ /\ Reported(s) = {}
                /\ remaining' = Tail(remaining)
                /\ UNCHANGED <<phase, next_token, pending_requests>>
             \/ \E report \in Reported(s), fits \in BufferFits :
                  /\ StoreRequest(s, report, fits)
                  /\ phase' = "IDLE"
                  /\ remaining' = << >>
  /\ UNCHANGED <<mux_handle, new_sessions, waiting, disconnected, slots, connection_id,
                 next_connection_id, taken>>

(* poll, nothing to return: cleanup_disconnected_ once more. *)
PollEnd ==
  /\ phase = "SLOTS" /\ remaining = << >>
  /\ phase' = "IDLE"
  /\ CleanupDisconnected
  /\ UNCHANGED <<clientVars, mux_handle, new_sessions, waiting, disconnected,
                 connection_id, next_connection_id, remaining, next_token, pending_requests, taken>>

-----------------------------------------------------------------------------
(* The session whose request the application got under this token. *)
Origin(e) == e.header.incarnation

(* take_request.  The application answers a request once. *)
TakeRequest(e) ==
  /\ mux_handle = "started"
  /\ e.header \in held[Origin(e)]
  /\ \A f \in taken : f.header # e.header
  /\ pending_requests' = pending_requests \ {e}
  /\ taken' = taken \cup {e}
  /\ UNCHANGED <<vars, mux_handle, new_sessions, waiting, disconnected, slots, connection_id,
                 next_connection_id, remaining, phase, next_token>>

(* Mutant: any slot will do, the client has only one. *)
FindSlotAny(id) == Slots

(* find_slot_ *)
FindSlot(id) == {s \in Slots : connection_id[s] = id}

(* send_reply and send_cancel_reply with mutex_: refused when the slot is   *)
(* gone, and then the token is gone too.  The adapter finds the client by   *)
(* its name.                                                                *)
AdapterReply(s, e, sent) ==
  \/ e.event = "REQUEST_CANCEL" /\ SendCancelReply(s, ResponseTo(e.header, "CANCELED"), sent)
  \/ \E code \in ReplyCodes : SendReply(s, ResponseTo(e.header, code), sent)

SendTaken(e) ==
  /\ phase = "IDLE"
  /\ \/ \E s \in FindSlot(e.connection_id), sent \in BOOLEAN :
          /\ sent \in Sends(s)
          /\ AdapterReply(s, e, sent)
     \/ /\ FindSlot(e.connection_id) = {}
        /\ UNCHANGED <<server_state, server_request_id, responses>>
  /\ Answered(Origin(e), e.header)
  /\ taken' = taken \ {e}
  /\ UNCHANGED <<clientVars, mux_handle, new_sessions, waiting, disconnected, slots, connection_id,
                 next_connection_id, remaining, phase, next_token, pending_requests>>

Poll == PollBegin \/ AcceptNewConnection \/ PollCleanup \/ VisitSlot \/ PollEnd

MuxNext ==
  \/ MuxStart \/ MuxStop \/ Poll
  \/ \E s \in Clients : SessionAccepted(s) \/ ConnectionLost(s) \/ ClientOfSession(s)
  \/ \E e \in pending_requests : TakeRequest(e)
  \/ \E e \in taken : SendTaken(e)

MuxSpec == MuxInit /\ [][MuxNext]_allVars

(* The application keeps polling, in the thread that holds mutex_. *)
MuxFairSpec == MuxSpec /\ WF_allVars(Poll)

-----------------------------------------------------------------------------
(* A reply concerns the session its request came from and no other, even   *)
(* when the client has lost that session and is back on a new one with the *)
(* same name and the same request ids: no other session gets a response or *)
(* loses the state of its request.                                         *)
ReplyStaysInSession ==
  [][\A e \in taken \ taken' : \A s \in Clients \ {Origin(e)} :
       responses'[s] = responses[s] /\ server_state'[s] = server_state[s]]_allVars

(* Inside a live session the protocol of RpcSystem goes on undisturbed by  *)
(* the other sessions: one request in flight, in one place at a time.      *)
SessionsUndisturbed == \A s \in Clients : Live(s) => InFlight(s)

(* A lost session gives up its slot, whatever the other sessions do and    *)
(* whether or not its last request is ever answered.                       *)
LostSessionsRemoved == \A s \in Clients : s \in Slots \cap disconnected ~> s \notin Slots
=============================================================================
