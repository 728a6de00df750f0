-------------------------- MODULE RpcSystemProofs ---------------------------
(***************************************************************************)
(* RpcSystem is type correct, every request is in one place at a time      *)
(* (InFlight, the inductive invariant), and what follows from it, for any  *)
(* set of clients, any number of request ids and any outcome of the sends. *)
(***************************************************************************)
EXTENDS RpcSystem, TLAPS

-----------------------------------------------------------------------------
(* Type correctness.                                                       *)

LEMMA SendType ==
  ASSUME NEW S, NEW channel \in [Clients -> Seq(S)], NEW c \in Clients,
         NEW m \in S, NEW sent \in BOOLEAN
  PROVE  Send(channel, c, m, sent) \in [Clients -> Seq(S)]
BY DEF Send

LEMMA FunctionIsSeq ==
  ASSUME NEW S, NEW n \in Nat, NEW f \in [1 .. n -> S]
  PROVE  f \in Seq(S) /\ Len(f) = n
OBVIOUS

LEMMA EraseType ==
  ASSUME NEW S, NEW s \in Seq(S), NEW i \in DOMAIN s
  PROVE  /\ Erase(s, i) \in Seq(S)
         /\ Len(Erase(s, i)) = Len(s) - 1
         /\ \A j \in 1 .. Len(s) - 1 : Erase(s, i)[j] = IF j < i THEN s[j] ELSE s[j + 1]
<1> DEFINE n == Len(s) - 1
<1>1. n \in Nat /\ \A j \in 1 .. n : j \in 1 .. Len(s) /\ j + 1 \in 1 .. Len(s)
  OBVIOUS
<1>2. \A j \in 1 .. n : s[j] \in S /\ s[j + 1] \in S
  BY <1>1
<1>3. Erase(s, i) \in [1 .. n -> S]
  BY <1>2 DEF Erase
<1>4. Erase(s, i) \in Seq(S) /\ Len(Erase(s, i)) = n
  BY ZenonT(60), <1>1, <1>3, FunctionIsSeq
<1> QED
  BY <1>4 DEF Erase

(* What the assumptions on the constants say of the messages. *)
LEMMA MessageTypes ==
  ASSUME TypeOK, NEW c \in Clients
  PROVE  /\ 0 \in RequestId
         /\ \A op \in Opcode, id \in RequestId : RequestPdu(c, op, id) \in Request
         /\ \A h \in Header, code \in ResultCode : ResponseTo(h, code) \in Response
         /\ \A r \in Request : HeaderOf(r) \in Header
         /\ \A sent \in SendOutcomes : sent \in BOOLEAN
         /\ (current_request_id[c] + 1) % IdModulus \in RequestId
BY SMTT(60), IdModulusAssumption, SendOutcomesAssumption
   DEF TypeOK, ClientTypeOK, RequestId, RequestPdu, Request, ResponseTo, Response,
       HeaderOf, Header

(* A client step keeps the types: one step per disjunct of ClientStep. *)
LEMMA ClientStepType ==
  ASSUME TypeOK, NEW c \in Clients, ClientStep(c)
  PROVE  TypeOK'
<1>0. /\ UNCHANGED serverVars
      /\ ServerTypeOK'
  BY DEF ClientStep, TypeOK, ServerTypeOK, serverVars
<1> USE MessageTypes DEF TypeOK, TransportTypeOK, ClientTypeOK
<1>1. CASE CreateRequestBuffer(c)
  BY ZenonT(60), <1>0, <1>1 DEF CreateRequestBuffer
<1>2. ASSUME NEW finite \in BOOLEAN, NEW sent \in SendOutcomes, Call(c, finite, sent)
      PROVE  TypeOK'
  <2>1. requests' \in [Clients -> Seq(Request)]
    BY ZenonT(60), <1>2, SendType DEF Call, Opcode
  <2> QED
    BY ZenonT(60), <1>0, <1>2, <2>1 DEF Call, ClientState, Deadline
<1>3. ASSUME NEW sent \in SendOutcomes, SendCancelRequest(c, sent)
      PROVE  TypeOK'
  <2>1. requests' \in [Clients -> Seq(Request)]
    BY ZenonT(60), <1>3, SendType DEF SendCancelRequest, Opcode
  <2> QED
    BY ZenonT(60), <1>0, <1>3, <2>1 DEF SendCancelRequest, ClientState
<1>4. CASE PutPendingResponse(c)
  BY SMTT(60), <1>0, <1>4 DEF PutPendingResponse
<1>5. CASE PollTimeout(c)
  BY ZenonT(60), <1>0, <1>5 DEF PollTimeout, ClientEventType
<1>6. CASE PollResponse(c)
  <2>1. PICK i \in DOMAIN pending_responses[c] :
          /\ pending_responses' = [pending_responses EXCEPT ![c] = Erase(@, i)]
          /\ client_event' = [client_event EXCEPT ![c] =
                                ResponseEvent(pending_responses[c][i].code)]
    BY ZenonT(60), <1>6 DEF PollResponse
  <2>2. pending_responses' \in [Clients -> Seq(Response)]
    BY <2>1, EraseType
  <2>3. client_event' \in [Clients -> ClientEventType]
    BY ZenonT(60), <2>1 DEF ResponseEvent, ClientEventType
  <2> QED
    BY ZenonT(60), <1>0, <1>6, <2>2, <2>3 DEF PollResponse, ClientState
<1>7. CASE PollNone(c)
  BY ZenonT(60), <1>0, <1>7 DEF PollNone, ClientEventType
<1>8. CASE DeadlinePasses(c)
  BY ZenonT(60), <1>0, <1>8 DEF DeadlinePasses, Deadline
<1> QED
  BY ZenonT(60), <1>1, <1>2, <1>3, <1>4, <1>5, <1>6, <1>7, <1>8 DEF ClientStep, ClientPoll

(* send_reply and send_cancel_reply keep the types. *)
LEMMA SendReplyType ==
  ASSUME TypeOK, NEW c \in Clients, NEW reply \in Response, NEW sent \in BOOLEAN,
         SendReply(c, reply, sent) \/ SendCancelReply(c, reply, sent)
  PROVE  /\ server_state' \in [Clients -> ServerState]
         /\ server_request_id' \in [Clients -> RequestId]
         /\ responses' \in [Clients -> Seq(Response)]
<1>1. PICK live \in BOOLEAN :
        /\ server_state' = [server_state EXCEPT ![c] = IF live THEN "IDLE" ELSE @]
        /\ server_request_id' = [server_request_id EXCEPT ![c] = IF live THEN 0 ELSE @]
        /\ responses' = Send(responses, c, reply, sent /\ live)
  <2>1. CASE SendReply(c, reply, sent)
    BY <2>1, Zenon DEF SendReply
  <2>2. CASE SendCancelReply(c, reply, sent)
    BY <2>2, Zenon DEF SendCancelReply
  <2> QED
    BY <2>1, <2>2
<1>2. responses' \in [Clients -> Seq(Response)]
  BY ZenonT(60), <1>1, SendType DEF TypeOK, TransportTypeOK
<1> QED
  BY <1>1, <1>2, MessageTypes DEF TypeOK, ServerTypeOK, ServerState

(* A server step keeps the types. *)
LEMMA ServerStepType ==
  ASSUME TypeOK, NEW c \in Clients, ServerStep(c)
  PROVE  TypeOK'
<1>0. /\ UNCHANGED clientVars
      /\ ClientTypeOK'
  BY DEF ServerStep, TypeOK, ClientTypeOK, clientVars
<1>1. PICK sent \in SendOutcomes :
        \/ ServerPoll(c, sent)
        \/ \E header \in held[c], code \in ReplyCodes : Reply(c, header, code, sent)
        \/ \E header \in cancel_asked[c] : CancelReply(c, header, sent)
  BY ZenonT(60) DEF ServerStep
<1>2. sent \in BOOLEAN
  BY MessageTypes
<1>3. CASE ServerPoll(c, sent)
  <2> DEFINE request == Head(requests[c])
             header == HeaderOf(request)
  <2>1. /\ request \in Request
        /\ header \in Header /\ header.id \in RequestId
        /\ requests' \in [Clients -> Seq(Request)]
    <3>1. requests[c] \in Seq(Request) /\ requests[c] # << >>
      BY ZenonT(60), <1>3 DEF ServerPoll, TypeOK, TransportTypeOK
    <3>2. request \in Request /\ Tail(requests[c]) \in Seq(Request)
      BY SMTT(60), <3>1
    <3>3. header \in Header /\ header.id \in RequestId
      BY ZenonT(60), <3>2 DEF HeaderOf, Header, Request
    <3>4. requests' = [requests EXCEPT ![c] = Tail(@)]
      BY <1>3 DEF ServerPoll
    <3> QED
      BY <3>2, <3>3, <3>4 DEF TypeOK, TransportTypeOK
  <2> HIDE DEF request, header
  <2>2. registered_clients' \in SUBSET Clients
    BY ZenonT(60), <1>3 DEF ServerPoll, TypeOK, ServerTypeOK
  <2>3. ASSUME NEW code \in ResultCode, SendErrorReply(c, header, code, sent)
        PROVE  TypeOK'
    <3>1. ResponseTo(header, code) \in Response
      BY ZenonT(60), <2>1, MessageTypes
    <3>2. /\ server_state' \in [Clients -> ServerState]
          /\ server_request_id' \in [Clients -> RequestId]
          /\ responses' \in [Clients -> Seq(Response)]
      BY <1>2, <2>3, <3>1, SendReplyType DEF SendErrorReply
    <3> QED
      BY <1>0, <2>1, <2>2, <2>3, <3>2
      DEF SendErrorReply, TypeOK, ServerTypeOK, TransportTypeOK
  <2>4. CASE HandleRequestIn(c, header, sent)
    <3>1. CASE server_state[c] = "IDLE"
      <4>1. /\ server_state' = [server_state EXCEPT ![c] = "RUNNING"]
            /\ server_request_id' = [server_request_id EXCEPT ![c] = header.id]
            /\ held' = [held EXCEPT ![c] = @ \cup {header}]
            /\ cancel_asked' = cancel_asked /\ responses' = responses
        BY ZenonT(60), <2>4, <3>1 DEF HandleRequestIn
      <4>2. held[c] \cup {header} \in SUBSET Header
        BY <2>1 DEF TypeOK, ServerTypeOK
      <4>3. held' \in [Clients -> SUBSET Header]
        BY ZenonT(60), <4>1, <4>2 DEF TypeOK, ServerTypeOK
      <4>4. server_state' \in [Clients -> ServerState]
        BY ZenonT(60), <4>1 DEF TypeOK, ServerTypeOK, ServerState
      <4> QED
        BY SMTT(60), <1>0, <2>1, <2>2, <4>1, <4>3, <4>4 DEF TypeOK, ServerTypeOK,
           TransportTypeOK
    <3> QED
      BY ZenonT(60), <2>3, <2>4, <3>1 DEF HandleRequestIn, ResultCode
  <2>5. CASE HandleCancelRequest(c, header, sent)
    <3>1. CASE server_state[c] = "RUNNING" /\ server_request_id[c] = header.id
      <4>1. /\ server_state' = [server_state EXCEPT ![c] = "CANCELLING"]
            /\ cancel_asked' = [cancel_asked EXCEPT ![c] = @ \cup {header}]
            /\ UNCHANGED <<server_request_id, held, responses>>
        BY ZenonT(60), <2>5, <3>1 DEF HandleCancelRequest
      <4>2. cancel_asked[c] \cup {header} \in SUBSET Header
        BY <2>1 DEF TypeOK, ServerTypeOK
      <4>3. cancel_asked' \in [Clients -> SUBSET Header]
        BY ZenonT(60), <4>1, <4>2 DEF TypeOK, ServerTypeOK
      <4>4. server_state' \in [Clients -> ServerState]
        BY ZenonT(60), <4>1 DEF TypeOK, ServerTypeOK, ServerState
      <4> QED
        BY ZenonT(60), <1>0, <2>1, <2>2, <4>1, <4>3, <4>4 DEF TypeOK, ServerTypeOK,
           TransportTypeOK
    <3>2. CASE server_state[c] = "IDLE"
      BY ZenonT(60), <1>0, <2>1, <2>2, <2>5, <3>2
      DEF HandleCancelRequest, TypeOK, ServerTypeOK, TransportTypeOK
    <3> QED
      BY ZenonT(60), <2>3, <2>5, <3>1, <3>2 DEF HandleCancelRequest, ResultCode
  <2> QED
    BY ZenonT(60), <1>3, <2>3, <2>4, <2>5 DEF ServerPoll, ResultCode, request, header
<1>4. ASSUME NEW header \in held[c], NEW code \in ReplyCodes, Reply(c, header, code, sent)
      PROVE  TypeOK'
  <2>1. ResponseTo(header, code) \in Response
    BY ZenonT(60), MessageTypes, ReplyCodesAssumption DEF TypeOK, ServerTypeOK
  <2>2. /\ server_state' \in [Clients -> ServerState]
        /\ server_request_id' \in [Clients -> RequestId]
        /\ responses' \in [Clients -> Seq(Response)]
    BY <1>2, <1>4, <2>1, SendReplyType DEF Reply
  <2> QED
    BY ZenonT(60), <1>0, <1>4, <2>2 DEF Reply, Answered, TypeOK, ServerTypeOK,
       TransportTypeOK
<1>5. ASSUME NEW header \in cancel_asked[c], CancelReply(c, header, sent)
      PROVE  TypeOK'
  <2>1. ResponseTo(header, "CANCELED") \in Response
    BY ZenonT(60), MessageTypes DEF TypeOK, ServerTypeOK, ResultCode
  <2>2. /\ server_state' \in [Clients -> ServerState]
        /\ server_request_id' \in [Clients -> RequestId]
        /\ responses' \in [Clients -> Seq(Response)]
    BY ZenonT(60), <1>2, <1>5, <2>1, SendReplyType DEF CancelReply
  <2> QED
    BY ZenonT(60), <1>0, <1>5, <2>2 DEF CancelReply, Answered, TypeOK, ServerTypeOK,
       TransportTypeOK
<1> QED
  BY ZenonT(60), <1>1, <1>3, <1>4, <1>5

(* TypeOK holds initially and every step keeps it: the queues only ever    *)
(* hold well-formed PDUs and the states of both endpoints stay in their    *)
(* enumerations.                                                           *)
THEOREM TypeCorrect == Spec => []TypeOK
<1>1. Init => TypeOK
  BY IdModulusAssumption
  DEF Init, TransportInit, ClientInit, ServerInit, TypeOK, TransportTypeOK,
      ClientTypeOK, ServerTypeOK, ClientState, ServerState, Deadline,
      ClientEventType, RequestId
<1>2. TypeOK /\ [Next]_vars => TypeOK'
  <2> SUFFICES ASSUME TypeOK, [Next]_vars PROVE TypeOK'
    OBVIOUS
  <2>1. CASE UNCHANGED vars
    BY ZenonT(60), <2>1 DEF vars, TypeOK, TransportTypeOK, ClientTypeOK, ServerTypeOK
  <2>2. CASE Next
    BY ZenonT(60), <2>2, ClientStepType, ServerStepType DEF Next
  <2> QED
    BY <2>1, <2>2
<1> QED
  BY <1>1, <1>2, PTL DEF Spec

-----------------------------------------------------------------------------
(* The request in flight.  A step of one client, or of the server for it,  *)
(* leaves the other clients alone, so InFlight is shown for the client     *)
(* that moves.                                                             *)

(* Nothing that concerns client d changes. *)
Same(d) ==
  /\ requests'[d] = requests[d]
  /\ responses'[d] = responses[d]
  /\ client_state'[d] = client_state[d]
  /\ client_request_id'[d] = client_request_id[d]
  /\ pending_responses'[d] = pending_responses[d]
  /\ incarnation'[d] = incarnation[d]
  /\ server_state'[d] = server_state[d]
  /\ server_request_id'[d] = server_request_id[d]
  /\ held'[d] = held[d]
  /\ cancel_asked'[d] = cancel_asked[d]
  /\ d \in registered_clients => d \in registered_clients'

LEMMA SameKeepsInFlight ==
  ASSUME NEW d \in Clients, InFlight(d), Same(d)
  PROVE  InFlight(d)'
<1> USE DEF Same, NoResponse, CancelPdu, RequestPdu, AwaitedHeader
<1>1. WireInv(d)'
  BY DEF InFlight, WireInv
<1>2. RunningInv(d)'
  BY ZenonT(60) DEF InFlight, RunningInv
<1>3. CancellingInv(d)'
  BY ZenonT(60) DEF InFlight, CancellingInv
<1>4. HolderInv(d)'
  BY ZenonT(60) DEF InFlight, HolderInv
<1>5. ResponseInv(d)'
  BY ZenonT(60) DEF InFlight, ResponseInv, GoodResponse
<1> QED
  BY ZenonT(60), <1>1, <1>2, <1>3, <1>4, <1>5 DEF InFlight

LEMMA ClientStepFrame ==
  ASSUME TypeOK, NEW c \in Clients, NEW d \in Clients, c # d, ClientStep(c)
  PROVE  Same(d)
BY DEF ClientStep, ClientPoll, CreateRequestBuffer, Call, SendCancelRequest,
       PutPendingResponse, PollTimeout, PollResponse, PollNone, DeadlinePasses,
       Send, Same, serverVars, TypeOK, TransportTypeOK, ClientTypeOK

LEMMA ServerStepFrame ==
  ASSUME TypeOK, NEW c \in Clients, NEW d \in Clients, c # d, ServerStep(c)
  PROVE  Same(d)
<1>1. PICK sent \in SendOutcomes :
        \/ ServerPoll(c, sent)
        \/ \E header \in held[c], code \in ReplyCodes : Reply(c, header, code, sent)
        \/ \E header \in cancel_asked[c] : CancelReply(c, header, sent)
  BY ZenonT(60) DEF ServerStep
<1> USE DEF TypeOK, TransportTypeOK, ServerTypeOK, Same
<1>2. ASSUME NEW reply, SendReply(c, reply, sent) \/ SendCancelReply(c, reply, sent)
      PROVE  /\ server_state'[d] = server_state[d]
             /\ server_request_id'[d] = server_request_id[d]
             /\ responses'[d] = responses[d]
  BY ZenonT(60), <1>2 DEF SendReply, SendCancelReply, Send
<1>3. UNCHANGED clientVars
  BY ZenonT(60) DEF ServerStep
<1>4. CASE ServerPoll(c, sent)
  <2>1. requests'[d] = requests[d] /\ registered_clients \subseteq registered_clients'
    BY ZenonT(60), <1>4 DEF ServerPoll
  <2>2. PICK header :
          \/ SendErrorReply(c, header, "ERROR", sent)
          \/ HandleCancelRequest(c, header, sent)
          \/ HandleRequestIn(c, header, sent)
    BY ZenonT(60), <1>4 DEF ServerPoll
  <2>3. /\ server_state'[d] = server_state[d]
        /\ server_request_id'[d] = server_request_id[d]
        /\ responses'[d] = responses[d]
        /\ held'[d] = held[d]
        /\ cancel_asked'[d] = cancel_asked[d]
    BY ZenonT(60), <1>2, <2>2 DEF SendErrorReply, HandleCancelRequest, HandleRequestIn
  <2> QED
    BY <1>3, <2>1, <2>3 DEF clientVars
<1>5. ASSUME NEW header, NEW code, Reply(c, header, code, sent) \/ CancelReply(c, header, sent)
      PROVE  Same(d)
  BY <1>2, <1>3, <1>5 DEF Reply, CancelReply, Answered, clientVars
<1> QED
  BY ZenonT(60), <1>1, <1>4, <1>5

LEMMA NoneAndAtMostOne ==
  \A m, n : m = 0 /\ (n = 0 \/ n = 1) => m + n <= 1
OBVIOUS

LEMMA SumAtMostOne ==
  \A m, n \in Nat : m + n <= 1 => (m # 0 => m = 1 /\ n = 0) /\ (n # 0 => n = 1 /\ m = 0)
OBVIOUS

(* The values of one client have the types of TypeOK. *)
LEMMA TypesAt ==
  ASSUME TypeOK, NEW c \in Clients
  PROVE  /\ requests[c] \in Seq(Request) /\ responses[c] \in Seq(Response)
         /\ pending_responses[c] \in Seq(Response)
         /\ client_state[c] \in ClientState /\ server_state[c] \in ServerState
         /\ client_request_id[c] \in RequestId /\ current_request_id[c] \in RequestId
BY ZenonT(60) DEF TypeOK, TransportTypeOK, ClientTypeOK, ServerTypeOK

(* An IDLE client has nothing in flight. *)
LEMMA IdleHasNothing ==
  ASSUME TypeOK, NEW c \in Clients, InFlight(c), client_state[c] = "IDLE"
  PROVE  /\ \A i \in 1 .. Len(requests[c]) : requests[c][i].op # "REQUEST"
         /\ server_state[c] = "IDLE"
         /\ NoResponse(c)
<1>1. server_state[c] = "IDLE"
  BY TypesAt DEF InFlight, RunningInv, CancellingInv, ServerState
<1>2. Len(pending_responses[c]) = 0 /\ Len(responses[c]) = 0
  <2>1. ResponseInv(c)
    BY ZenonT(60) DEF InFlight
  <2>2. /\ \A i \in 1 .. Len(pending_responses[c]) : FALSE
        /\ \A i \in 1 .. Len(responses[c]) : FALSE
    BY <2>1 DEF ResponseInv, GoodResponse
  <2>3. Len(pending_responses[c]) \in Nat /\ Len(responses[c]) \in Nat
    BY TypesAt
  <2> QED
    BY <2>2, <2>3
<1> QED
  BY <1>1, <1>2, TypesAt DEF InFlight, WireInv, NoResponse

(* A client step keeps the request in flight in one place. *)
LEMMA ClientStepInFlight ==
  ASSUME TypeOK, NEW c \in Clients, InFlight(c), ClientStep(c)
  PROVE  InFlight(c)'
<1>0. /\ server_state' = server_state /\ server_request_id' = server_request_id
      /\ registered_clients' = registered_clients
      /\ held' = held /\ cancel_asked' = cancel_asked
  BY ZenonT(60) DEF ClientStep, serverVars
<1>1. CASE CreateRequestBuffer(c) \/ PollTimeout(c) \/ PollNone(c) \/ DeadlinePasses(c)
  <2>1. Same(c)
    BY ZenonT(60), <1>0, <1>1
    DEF CreateRequestBuffer, PollTimeout, PollNone, DeadlinePasses, Same
  <2> QED
    BY ZenonT(60), <2>1, SameKeepsInFlight
<1>2. ASSUME NEW finite \in BOOLEAN, NEW sent \in SendOutcomes, Call(c, finite, sent)
      PROVE  InFlight(c)'
  <2> DEFINE pdu == RequestPdu(c, "REQUEST", current_request_id[c])
  <2>1. /\ \A i \in 1 .. Len(requests[c]) : requests[c][i].op # "REQUEST"
        /\ server_state[c] = "IDLE" /\ NoResponse(c)
    BY ZenonT(60), <1>2, IdleHasNothing DEF Call
  <2>2. /\ client_request_id'[c] = current_request_id[c]
        /\ incarnation'[c] = incarnation[c]
        /\ pending_responses'[c] = << >> /\ responses'[c] = << >>
        /\ server_state'[c] = "IDLE"
        /\ held'[c] = {} /\ cancel_asked'[c] = {}
    BY SMTT(60), <1>0, <1>2, <2>1 DEF Call, NoResponse, TypeOK, ClientTypeOK, InFlight,
       HolderInv
  <2>3. CASE sent
    <3>1. /\ client_state'[c] = "RUNNING"
          /\ requests'[c] = Append(requests[c], pdu)
      BY ZenonT(60), <1>2, <2>3 DEF Call, Send, TypeOK, ClientTypeOK, TransportTypeOK
    <3>2. pdu \in Request /\ pdu.op = "REQUEST"
          /\ HeaderOf(pdu) = [id |-> current_request_id[c], incarnation |-> incarnation[c]]
      BY ZenonT(60), TypesAt, MessageTypes DEF Opcode, RequestPdu, HeaderOf
    <3> HIDE DEF pdu
    <3>3. /\ Len(requests'[c]) = Len(requests[c]) + 1
          /\ requests'[c][Len(requests[c]) + 1] = pdu
          /\ \A i \in 1 .. Len(requests[c]) : requests'[c][i] = requests[c][i]
      BY SMTT(60), <3>1, <3>2, TypesAt
    <3>4. WireInv(c)'
      BY SMTT(60), <2>1, <2>2, <3>1, <3>2, <3>3, TypesAt DEF WireInv, NoResponse,
         AwaitedHeader
    <3>5. ResponseInv(c)'
      BY <2>2 DEF ResponseInv
    <3> QED
      BY ZenonT(60), <2>2, <3>4, <3>5 DEF InFlight, RunningInv, CancellingInv, HolderInv
  <2>4. CASE ~sent
    <3>1. client_state'[c] = "IDLE" /\ requests'[c] = requests[c]
      <4>1. client_state' = [client_state EXCEPT ![c] = "IDLE"] /\ requests' = requests
        BY ZenonT(60), <1>2, <2>4 DEF Call, Send
      <4> QED
        BY <4>1 DEF TypeOK, ClientTypeOK
    <3> QED
      BY SMTT(60), <2>1, <2>2, <3>1
      DEF InFlight, WireInv, RunningInv, CancellingInv, HolderInv, ResponseInv
  <2> QED
    BY ZenonT(60), <2>3, <2>4
<1>3. ASSUME NEW sent \in SendOutcomes, SendCancelRequest(c, sent)
      PROVE  InFlight(c)'
  <2> DEFINE pdu == CancelPdu(c)
  <2>1. /\ client_state[c] = "RUNNING"
        /\ client_request_id'[c] = client_request_id[c]
        /\ incarnation'[c] = incarnation[c]
        /\ pending_responses'[c] = pending_responses[c] /\ responses'[c] = responses[c]
    BY ZenonT(60), <1>3 DEF SendCancelRequest
  <2>2. CASE sent
    <3>1. /\ client_state'[c] = "CANCELLING"
          /\ requests'[c] = Append(requests[c], pdu)
      BY ZenonT(60), <1>3, <2>2 DEF SendCancelRequest, Send, CancelPdu, TypeOK, ClientTypeOK,
         TransportTypeOK
    <3>2. pdu \in Request /\ pdu.op = "CANCEL" /\ CancelPdu(c)' = pdu
      BY ZenonT(60), <2>1, TypesAt, MessageTypes DEF Opcode, RequestPdu, CancelPdu
    <3> HIDE DEF pdu
    <3>3. /\ Len(requests'[c]) = Len(requests[c]) + 1
          /\ requests'[c][Len(requests[c]) + 1] = pdu
          /\ \A i \in 1 .. Len(requests[c]) : requests'[c][i] = requests[c][i]
      BY SMTT(60), <3>1, <3>2, TypesAt
    <3>4. WireInv(c)'
      BY SMTT(60), <1>0, <2>1, <3>1, <3>2, <3>3, TypesAt
      DEF InFlight, WireInv, NoResponse, AwaitedHeader
    <3>5. RunningInv(c)'
      <4>1. RunningInv(c) /\ (NoResponse(c) => NoResponse(c)')
        BY ZenonT(60), <2>1 DEF InFlight, NoResponse
      <4> SUFFICES ASSUME server_state[c] = "RUNNING" PROVE RunningInv(c)'
        BY ZenonT(60), <1>0 DEF RunningInv
      <4>2. Len(requests[c]) \in Nat
        BY TypesAt
      <4>3. /\ NoResponse(c) /\ cancel_asked[c] = {}
            /\ \A j \in 1 .. Len(requests[c]) : client_state[c] = "CANCELLING"
        BY ZenonT(60), <4>1 DEF RunningInv
      <4>4. Len(requests'[c]) = 1 /\ requests'[c][1] = pdu
        BY <2>1, <3>3, <4>2, <4>3
      <4>5. \A j \in 1 .. Len(requests'[c]) : j = 1
        BY <4>4
      <4> QED
        BY ZenonT(60), <1>0, <3>1, <3>2, <4>1, <4>3, <4>4, <4>5 DEF RunningInv
    <3>6. CancellingInv(c)'
      BY ZenonT(60), <1>0, <2>1 DEF InFlight, CancellingInv
    <3>7. HolderInv(c)'
      BY ZenonT(60), <1>0, <2>1 DEF InFlight, HolderInv, AwaitedHeader
    <3>8. ResponseInv(c)'
      BY ZenonT(60), <1>0, <2>1, <3>1 DEF InFlight, ResponseInv, GoodResponse
    <3> QED
      BY SMTT(60), <3>4, <3>5, <3>6, <3>7, <3>8 DEF InFlight
  <2>3. CASE ~sent
    <3>1. Same(c)
      BY ZenonT(60), <1>0, <1>3, <2>3 DEF SendCancelRequest, Send, Same, TypeOK, ClientTypeOK
    <3> QED
      BY ZenonT(60), <3>1, SameKeepsInFlight
  <2> QED
    BY ZenonT(60), <2>2, <2>3
<1>4. CASE PutPendingResponse(c)
  <2>1. /\ responses[c] # << >>
        /\ pending_responses'[c] = Append(pending_responses[c], Head(responses[c]))
        /\ responses'[c] = Tail(responses[c])
        /\ client_state' = client_state /\ client_request_id' = client_request_id
        /\ incarnation' = incarnation /\ requests' = requests
    BY <1>4 DEF PutPendingResponse, TypeOK, ClientTypeOK, TransportTypeOK
  <2>2. Len(responses[c]) = 1 /\ Len(pending_responses[c]) = 0
    <3>1. Len(pending_responses[c]) + Len(responses[c]) <= 1
      BY ZenonT(60) DEF InFlight, ResponseInv
    <3>2. Len(pending_responses[c]) \in Nat /\ Len(responses[c]) \in Nat \ {0}
      BY <2>1, TypesAt
    <3> QED
      BY ZenonT(60), <3>1, <3>2, SumAtMostOne
  <2>3. /\ responses'[c] = << >>
        /\ Len(pending_responses'[c]) = 1
        /\ pending_responses'[c][1] = responses[c][1]
    BY SMTT(60), <2>1, <2>2, TypesAt
  <2>4. ~NoResponse(c) /\ GoodResponse(c, responses[c][1])
    BY <2>1, <2>2 DEF NoResponse, InFlight, ResponseInv
  <2>5. WireInv(c)' /\ RunningInv(c)' /\ CancellingInv(c)'
    BY ZenonT(60), <1>0, <2>1, <2>4 DEF InFlight, WireInv, RunningInv, CancellingInv
  <2>6. HolderInv(c)'
    BY ZenonT(60), <1>0, <2>1 DEF InFlight, HolderInv, AwaitedHeader
  <2>7. ResponseInv(c)'
    <3>1. GoodResponse(c, pending_responses[c][1])'
      BY ZenonT(60), <1>0, <2>1, <2>3, <2>4 DEF GoodResponse
    <3>2. Len(responses'[c]) = 0
      BY <2>3
    <3> QED
      BY SMTT(60), <2>3, <3>1, <3>2 DEF ResponseInv
  <2> QED
    BY ZenonT(60), <2>5, <2>6, <2>7 DEF InFlight
<1>5. CASE PollResponse(c)
  <2>1. PICK i \in DOMAIN pending_responses[c] :
          pending_responses'[c] = Erase(pending_responses[c], i)
    BY <1>5 DEF PollResponse, TypeOK, ClientTypeOK
  <2>2. /\ Len(pending_responses[c]) = 1 /\ Len(responses[c]) = 0
    <3>1. Len(pending_responses[c]) + Len(responses[c]) <= 1
      BY ZenonT(60) DEF InFlight, ResponseInv
    <3>2. Len(pending_responses[c]) \in Nat \ {0} /\ Len(responses[c]) \in Nat
      BY <2>1, TypesAt
    <3> QED
      BY ZenonT(60), <3>1, <3>2, SumAtMostOne
  <2>3. ~NoResponse(c) /\ server_state[c] = "IDLE"
    BY <2>2 DEF NoResponse, InFlight, ResponseInv, GoodResponse
  <2>4. /\ client_request_id' = client_request_id /\ incarnation' = incarnation
        /\ requests' = requests /\ responses' = responses
    BY ZenonT(60), <1>5 DEF PollResponse
  <2>5. Len(pending_responses'[c]) = 0
    <3>1. Len(Erase(pending_responses[c], i)) = Len(pending_responses[c]) - 1
      BY ZenonT(60), <2>1, EraseType, TypesAt
    <3> QED
      BY SMTT(60), <2>1, <2>2, <3>1
  <2>6. WireInv(c)'
    BY ZenonT(60), <2>3, <2>4 DEF InFlight, WireInv
  <2>7. RunningInv(c)' /\ CancellingInv(c)' /\ HolderInv(c)'
    BY ZenonT(60), <1>0, <2>3 DEF InFlight, RunningInv, CancellingInv, HolderInv
  <2>8. ResponseInv(c)'
    BY <2>2, <2>4, <2>5 DEF ResponseInv
  <2> QED
    BY ZenonT(60), <2>6, <2>7, <2>8 DEF InFlight
<1> QED
  BY <1>1, <1>2, <1>3, <1>4, <1>5 DEF ClientStep, ClientPoll

-----------------------------------------------------------------------------
(* The steps of the server keep the request in flight in one place.        *)

(* Taking the front PDU off the wire while the server is IDLE, and doing   *)
(* nothing else, keeps the invariant: a cancel that comes too late, and    *)
(* any request of a client that cannot be registered.                      *)
LEMMA DropFrontInFlight ==
  ASSUME TypeOK, NEW c \in Clients, InFlight(c), requests[c] # << >>,
         server_state[c] = "IDLE", requests'[c] = Tail(requests[c]),
         UNCHANGED clientVars,
         responses'[c] = responses[c], server_state'[c] = server_state[c],
         held'[c] = held[c], cancel_asked'[c] = cancel_asked[c]
  PROVE  InFlight(c)'
<1>1. /\ client_state' = client_state /\ client_request_id' = client_request_id
      /\ pending_responses' = pending_responses /\ incarnation' = incarnation
  BY ZenonT(60) DEF clientVars
<1>2. /\ Len(requests'[c]) = Len(requests[c]) - 1
      /\ \A i \in 1 .. Len(requests'[c]) : requests'[c][i] = requests[c][i + 1]
      /\ Len(requests[c]) \in Nat
  BY TypesAt
<1>3. WireInv(c)'
  <2> SUFFICES ASSUME NEW i \in 1 .. Len(requests'[c]), requests'[c][i].op = "REQUEST"
               PROVE  /\ client_state'[c] # "IDLE" /\ server_state'[c] = "IDLE"
                      /\ NoResponse(c)'
                      /\ HeaderOf(requests'[c][i]) = AwaitedHeader(c)'
                      /\ \A j \in i + 1 .. Len(requests'[c]) :
                           /\ j = i + 1 /\ requests'[c][j] = CancelPdu(c)'
                           /\ client_state'[c] = "CANCELLING"
    BY ZenonT(60) DEF WireInv
  <2>1. /\ i + 1 \in 1 .. Len(requests[c]) /\ requests[c][i + 1].op = "REQUEST"
        /\ requests'[c][i] = requests[c][i + 1]
    BY SMTT(60), <1>2
  <2>2. /\ client_state[c] # "IDLE" /\ NoResponse(c)
        /\ HeaderOf(requests[c][i + 1]) = AwaitedHeader(c)
        /\ \A j \in (i + 1) + 1 .. Len(requests[c]) :
             /\ j = (i + 1) + 1 /\ requests[c][j] = CancelPdu(c)
             /\ client_state[c] = "CANCELLING"
    BY ZenonT(60), <2>1 DEF InFlight, WireInv
  <2>3. CancelPdu(c)' = CancelPdu(c) /\ AwaitedHeader(c)' = AwaitedHeader(c)
        /\ NoResponse(c)' = NoResponse(c)
    BY ZenonT(60), <1>1 DEF CancelPdu, RequestPdu, AwaitedHeader, NoResponse
  <2>4. ASSUME NEW j \in i + 1 .. Len(requests'[c])
        PROVE  /\ j = i + 1 /\ requests'[c][j] = CancelPdu(c)
               /\ client_state[c] = "CANCELLING"
    <3>1. j \in 1 .. Len(requests'[c]) /\ j + 1 \in (i + 1) + 1 .. Len(requests[c])
      BY <1>2
    <3> QED
      BY <1>2, <2>2, <3>1
  <2> QED
    BY ZenonT(60), <1>1, <2>1, <2>2, <2>3, <2>4
<1>4. RunningInv(c)' /\ CancellingInv(c)'
  BY ZenonT(60) DEF RunningInv, CancellingInv
<1>5. HolderInv(c)'
  BY ZenonT(60) DEF InFlight, HolderInv
<1>6. ResponseInv(c)'
  BY ZenonT(60), <1>1 DEF InFlight, ResponseInv, GoodResponse
<1> QED
  BY ZenonT(60), <1>3, <1>4, <1>5, <1>6 DEF InFlight

(* poll() keeps the request in flight in one place.                        *)
LEMMA ServerPollInFlight ==
  ASSUME TypeOK, NEW c \in Clients, InFlight(c), NEW sent \in SendOutcomes,
         ServerPoll(c, sent), UNCHANGED clientVars
  PROVE  InFlight(c)'
<1> DEFINE request == Head(requests[c])
           header == HeaderOf(request)
<1>1. /\ client_state' = client_state /\ client_request_id' = client_request_id
      /\ pending_responses' = pending_responses /\ incarnation' = incarnation
  BY ZenonT(60) DEF clientVars
<1>2. /\ requests[c] # << >> /\ request = requests[c][1] /\ request \in Request
      /\ Len(requests[c]) \in Nat /\ 1 \in 1 .. Len(requests[c])
      /\ requests'[c] = Tail(requests[c])
      /\ Len(requests'[c]) = Len(requests[c]) - 1
      /\ \A i \in 1 .. Len(requests'[c]) : requests'[c][i] = requests[c][i + 1]
  <2>1. requests[c] # << >> /\ requests' = [requests EXCEPT ![c] = Tail(@)]
    BY ZenonT(60) DEF ServerPoll
  <2>2. requests'[c] = Tail(requests[c])
    BY ZenonT(60), <2>1 DEF TypeOK, TransportTypeOK
  <2>3. requests[c] \in Seq(Request)
    BY ZenonT(60), TypesAt
  <2> HIDE DEF header
  <2>4. /\ Len(requests[c]) \in Nat /\ Len(requests[c]) # 0
        /\ request = requests[c][1]
    BY <2>1, <2>3
  <2>5. 1 \in 1 .. Len(requests[c]) /\ requests[c][1] \in Request
    BY <2>3, <2>4
  <2>6. /\ Len(requests'[c]) = Len(requests[c]) - 1
        /\ \A i \in 1 .. Len(requests'[c]) : requests'[c][i] = requests[c][i + 1]
    <3>1. requests[c] # << >>
      BY ZenonT(60), <2>1
    <3> QED
      BY <2>2, <2>3, <3>1
  <2> HIDE DEF request
  <2> QED
    BY ZenonT(60), <2>1, <2>2, <2>4, <2>5, <2>6
<1>3. CASE ~ValidateHeader(c)
  <2>1. c \notin registered_clients /\ SendErrorReply(c, header, "ERROR", sent)
    BY ZenonT(60), <1>3 DEF ServerPoll, ValidateHeader
  <2>2. server_state[c] = "IDLE"
    BY ZenonT(60), <2>1 DEF InFlight, HolderInv
  <2>3. /\ responses'[c] = responses[c] /\ server_state'[c] = server_state[c]
        /\ held'[c] = held[c] /\ cancel_asked'[c] = cancel_asked[c]
    BY ZenonT(60), <2>1 DEF SendErrorReply, SendReply, Send, TypeOK, ServerTypeOK
  <2> QED
    BY ZenonT(60), <1>2, <2>2, <2>3, DropFrontInFlight
<1>4. CASE ValidateHeader(c) /\ request.op = "CANCEL"
  <2>0. HandleCancelRequest(c, header, sent) /\ c \in registered_clients'
    BY ZenonT(60), <1>4 DEF ServerPoll
  <2>1. CASE server_state[c] = "IDLE"
    <3>1. /\ responses'[c] = responses[c] /\ server_state'[c] = server_state[c]
          /\ held'[c] = held[c] /\ cancel_asked'[c] = cancel_asked[c]
      BY ZenonT(60), <2>0, <2>1 DEF HandleCancelRequest
    <3> QED
      BY ZenonT(60), <1>2, <2>1, <3>1, DropFrontInFlight
  <2>2. CASE server_state[c] = "RUNNING"
    <3>1. /\ client_state[c] = "CANCELLING" /\ NoResponse(c) /\ cancel_asked[c] = {}
          /\ request = CancelPdu(c)
          /\ \A j \in 1 .. Len(requests[c]) : j = 1
      BY ZenonT(60), <1>2, <2>2 DEF InFlight, RunningInv
    <3>2. /\ held[c] = {AwaitedHeader(c)} /\ server_request_id[c] = client_request_id[c]
      BY ZenonT(60), <2>2 DEF InFlight, HolderInv
    <3>3. header = AwaitedHeader(c) /\ header.id = server_request_id[c]
      BY SMTT(60), <3>1, <3>2 DEF HeaderOf, CancelPdu, RequestPdu, AwaitedHeader
    <3> HIDE DEF header, request
    <3>4. /\ server_state'[c] = "CANCELLING" /\ cancel_asked'[c] = {header}
          /\ server_request_id'[c] = server_request_id[c]
          /\ held'[c] = held[c] /\ responses'[c] = responses[c]
      BY <2>0, <2>2, <3>1, <3>3 DEF HandleCancelRequest, TypeOK, ServerTypeOK
    <3>5. Len(requests'[c]) = 0
      <4>1. ASSUME 2 <= Len(requests[c]) PROVE FALSE
        <5>1. 2 \in 1 .. Len(requests[c])
          BY SMTT(60), <1>2, <4>1
        <5>2. 2 = 1
          BY ZenonT(60), <3>1, <5>1
        <5> QED
          BY <5>2
      <4>2. Len(requests[c]) \in Nat /\ 1 <= Len(requests[c])
        BY <1>2
      <4>3. Len(requests'[c]) = Len(requests[c]) - 1
        BY <1>2
      <4>4. \A n \in Nat : 1 <= n /\ ~(2 <= n) => n - 1 = 0
        OBVIOUS
      <4>5. Len(requests[c]) - 1 = 0
        BY ZenonT(60), <4>1, <4>2, <4>4
      <4> QED
        BY ZenonT(60), <4>3, <4>5
    <3>6. requests'[c] = << >>
      <4>1. requests'[c] \in Seq(Request)
        BY <1>2, TypesAt
      <4> QED
        BY <3>5, <4>1
    <3>7. WireInv(c)' /\ RunningInv(c)'
      BY <3>4, <3>5 DEF WireInv, RunningInv
    <3>8. CancellingInv(c)'
      BY ZenonT(60), <1>1, <3>1, <3>3, <3>4, <3>6 DEF CancellingInv, NoResponse, AwaitedHeader
    <3>9. HolderInv(c)'
      BY ZenonT(60), <1>1, <2>0, <3>2, <3>4 DEF HolderInv, AwaitedHeader
    <3>10. ResponseInv(c)'
      BY SMTT(60), <1>1, <3>1, <3>4 DEF InFlight, ResponseInv, NoResponse
    <3> QED
      BY ZenonT(60), <3>7, <3>8, <3>9, <3>10 DEF InFlight
  <2>3. CASE server_state[c] = "CANCELLING"
    BY ZenonT(60), <1>2, <2>3 DEF InFlight, CancellingInv
  <2> QED
    BY ZenonT(60), <2>1, <2>2, <2>3, TypesAt DEF ServerState
<1>5. CASE ValidateHeader(c) /\ request.op # "CANCEL"
  <2>0. HandleRequestIn(c, header, sent) /\ c \in registered_clients'
    BY ZenonT(60), <1>5 DEF ServerPoll
  <2>1. requests[c][1].op = "REQUEST"
    BY ZenonT(60), <1>2, <1>5 DEF Request, Opcode
  <2>2. /\ client_state[c] # "IDLE" /\ server_state[c] = "IDLE" /\ NoResponse(c)
        /\ header = AwaitedHeader(c)
        /\ \A j \in 1 + 1 .. Len(requests[c]) :
             /\ j = 1 + 1 /\ requests[c][j] = CancelPdu(c)
             /\ client_state[c] = "CANCELLING"
    BY ZenonT(60), <1>2, <2>1 DEF InFlight, WireInv
  <2>3. header.id = client_request_id[c]
    BY SMTT(60), <2>2 DEF AwaitedHeader
  <2> HIDE DEF header, request
  <2>4. held[c] = {} /\ cancel_asked[c] = {}
    BY ZenonT(60), <2>2 DEF InFlight, HolderInv
  <2>5. /\ server_state'[c] = "RUNNING" /\ server_request_id'[c] = header.id
        /\ held'[c] = {header} /\ cancel_asked'[c] = {} /\ responses'[c] = responses[c]
    BY SMTT(60), <2>0, <2>2, <2>4 DEF HandleRequestIn, TypeOK, ServerTypeOK
  <2>6. RunningInv(c)'
    <3>1. NoResponse(c)' /\ CancelPdu(c)' = CancelPdu(c)
      BY ZenonT(60), <1>1, <2>2, <2>5 DEF NoResponse, CancelPdu, RequestPdu
    <3>2. ASSUME NEW j \in 1 .. Len(requests'[c])
          PROVE  j = 1 /\ requests'[c][j] = CancelPdu(c) /\ client_state[c] = "CANCELLING"
      <4>1. j + 1 \in 1 + 1 .. Len(requests[c])
        BY <1>2
      <4> QED
        BY <1>2, <2>2, <4>1
    <3> QED
      BY ZenonT(60), <1>1, <2>2, <2>5, <3>1, <3>2 DEF RunningInv
  <2>7. WireInv(c)'
    <3>1. \A i \in 1 .. Len(requests'[c]) : requests'[c][i].op # "REQUEST"
      BY SMTT(60), <2>5, <2>6 DEF RunningInv, CancelPdu, RequestPdu
    <3> QED
      BY ZenonT(60), <3>1 DEF WireInv
  <2>8. CancellingInv(c)' /\ HolderInv(c)'
    BY ZenonT(60), <1>1, <2>0, <2>2, <2>3, <2>5 DEF CancellingInv, HolderInv, AwaitedHeader
  <2>9. ResponseInv(c)'
    BY SMTT(60), <1>1, <2>2, <2>5 DEF InFlight, ResponseInv, NoResponse
  <2> QED
    BY ZenonT(60), <2>6, <2>7, <2>8, <2>9 DEF InFlight
<1> QED
  BY <1>3, <1>4, <1>5

(* The application's answer: the server lets go of the request, and the    *)
(* response, unless the send fails, is the only one.                       *)
LEMMA AnswerInFlight ==
  ASSUME TypeOK, NEW c \in Clients, InFlight(c), server_state[c] # "IDLE",
         NEW sent \in SendOutcomes, NEW r \in Response,
         r.id = client_request_id[c], r.code \in ReplyCodes \cup {"CANCELED"},
         r.code = "CANCELED" => client_state[c] = "CANCELLING",
         responses' = Send(responses, c, r, sent),
         UNCHANGED clientVars, requests' = requests,
         server_state'[c] = "IDLE", held'[c] = {}, cancel_asked'[c] = {}
  PROVE  InFlight(c)'
<1>1. /\ client_state' = client_state /\ client_request_id' = client_request_id
      /\ pending_responses' = pending_responses
  BY ZenonT(60) DEF clientVars
<1>2. /\ client_state[c] # "IDLE" /\ NoResponse(c)
      /\ \A i \in 1 .. Len(requests[c]) : requests[c][i].op # "REQUEST"
  <2>1. CASE server_state[c] = "RUNNING"
    BY SMTT(60), <2>1 DEF InFlight, RunningInv, CancelPdu, RequestPdu
  <2>2. CASE server_state[c] = "CANCELLING"
    BY SMTT(60), <2>2 DEF InFlight, CancellingInv
  <2> QED
    BY ZenonT(60), <2>1, <2>2, TypesAt DEF ServerState
<1>3. WireInv(c)' /\ RunningInv(c)' /\ CancellingInv(c)' /\ HolderInv(c)'
  BY ZenonT(60), <1>2 DEF WireInv, RunningInv, CancellingInv, HolderInv
<1>4. responses'[c] = << >> \/ responses'[c] = <<r>>
  BY SMTT(60), <1>2, MessageTypes DEF Send, NoResponse, TypeOK, TransportTypeOK
<1>5. Len(pending_responses'[c]) = 0
  BY ZenonT(60), <1>1, <1>2 DEF NoResponse
<1>6. /\ Len(responses'[c]) \in {0, 1}
      /\ \A i \in 1 .. Len(responses'[c]) : responses'[c][i] = r
  <2>1. CASE responses'[c] = << >>
    BY <2>1
  <2>2. CASE responses'[c] = <<r>>
    <3>1. Len(responses'[c]) = 1 /\ responses'[c][1] = r
      BY <2>2
    <3> QED
      BY <3>1
  <2> QED
    BY ZenonT(60), <1>4, <2>1, <2>2
<1>7. GoodResponse(c, r)'
  BY SMTT(60), <1>1, <1>2 DEF GoodResponse
<1>8. ResponseInv(c)'
  <2>0. Len(responses'[c]) = 0 \/ Len(responses'[c]) = 1
    BY ZenonT(60), <1>6
  <2>1. Len(pending_responses'[c]) + Len(responses'[c]) <= 1
    BY ZenonT(60), <1>5, <2>0, NoneAndAtMostOne
  <2>2. \A i \in 1 .. Len(responses'[c]) : GoodResponse(c, responses[c][i])'
    BY ZenonT(60), <1>6, <1>7 DEF GoodResponse
  <2>3. \A i \in 1 .. Len(pending_responses'[c]) : GoodResponse(c, pending_responses[c][i])'
    BY <1>5
  <2> QED
    BY ZenonT(60), <2>1, <2>2, <2>3 DEF ResponseInv
<1> QED
  BY ZenonT(60), <1>3, <1>8 DEF InFlight

LEMMA ServerStepInFlight ==
  ASSUME TypeOK, NEW c \in Clients, InFlight(c), ServerStep(c)
  PROVE  InFlight(c)'
<1>1. PICK sent \in SendOutcomes :
        \/ ServerPoll(c, sent)
        \/ \E header \in held[c], code \in ReplyCodes : Reply(c, header, code, sent)
        \/ \E header \in cancel_asked[c] : CancelReply(c, header, sent)
  BY ZenonT(60) DEF ServerStep
<1>2. UNCHANGED clientVars
  BY ZenonT(60) DEF ServerStep
<1>3. CASE ServerPoll(c, sent)
  BY SMTT(60), <1>2, <1>3, ServerPollInFlight
<1>4. ASSUME NEW header \in held[c] PROVE
        /\ header = AwaitedHeader(c) /\ held[c] = {header} /\ cancel_asked[c] \subseteq {header}
        /\ server_state[c] # "IDLE" /\ c \in registered_clients
        /\ server_state[c] \in ServerState
        /\ header.id = client_request_id[c]
        /\ \A code \in ResultCode : ResponseTo(header, code) \in Response
  <2>1. server_state[c] # "IDLE"
    BY SMTT(60) DEF InFlight, HolderInv
  <2>2. /\ header = AwaitedHeader(c) /\ held[c] = {header} /\ c \in registered_clients
    BY ZenonT(60), <2>1 DEF InFlight, HolderInv
  <2>3. server_state[c] \in ServerState
    BY ZenonT(60), TypesAt
  <2>4. cancel_asked[c] \subseteq {header}
    BY ZenonT(60), <2>1, <2>2, <2>3 DEF InFlight, RunningInv, CancellingInv, ServerState
  <2>5. header.id = client_request_id[c]
    BY <2>2 DEF AwaitedHeader
  <2>6. header \in Header
    BY ZenonT(60) DEF TypeOK, ServerTypeOK
  <2>7. \A code \in ResultCode : ResponseTo(header, code) \in Response
    BY SMTT(60), <2>6, MessageTypes
  <2> QED
    BY ZenonT(60), <2>1, <2>2, <2>3, <2>4, <2>5, <2>7
<1>5. ASSUME NEW header \in held[c], Answered(c, header)
      PROVE  held'[c] = {} /\ cancel_asked'[c] = {} /\ requests' = requests
  <2>1. held'[c] = held[c] \ {header} /\ cancel_asked'[c] = cancel_asked[c] \ {header}
    BY ZenonT(60), <1>5 DEF Answered, TypeOK, ServerTypeOK
  <2> QED
    BY ZenonT(60), <1>4, <1>5, <2>1 DEF Answered
<1>6. ASSUME NEW header \in held[c], NEW code \in ReplyCodes, Reply(c, header, code, sent)
      PROVE  InFlight(c)'
  <2>1. code \in ResultCode /\ code # "CANCELED"
    BY ZenonT(60), ReplyCodesAssumption
  <2>2. server_state'[c] = "IDLE" /\ responses' = Send(responses, c, ResponseTo(header, code), sent)
    BY ZenonT(60), <1>4, <1>6, MessageTypes DEF Reply, SendReply, TypeOK, ServerTypeOK
  <2>3. held'[c] = {} /\ cancel_asked'[c] = {} /\ requests' = requests
    BY SMTT(60), <1>5, <1>6 DEF Reply
  <2>4. /\ ResponseTo(header, code) \in Response
        /\ ResponseTo(header, code).id = client_request_id[c]
        /\ ResponseTo(header, code).code = code
    BY ZenonT(60), <1>4, <2>1 DEF ResponseTo
  <2> QED
    BY ZenonT(60), <1>2, <1>4, <2>1, <2>2, <2>3, <2>4, AnswerInFlight
<1>7. ASSUME NEW header \in cancel_asked[c], CancelReply(c, header, sent)
      PROVE  InFlight(c)'
  <2>1. /\ server_state[c] = "CANCELLING" /\ client_state[c] = "CANCELLING"
        /\ header \in held[c] /\ c \in registered_clients
    BY ZenonT(60), TypesAt DEF InFlight, HolderInv, RunningInv, CancellingInv, ServerState
  <2>2. /\ server_state'[c] = "IDLE"
        /\ responses' = Send(responses, c, ResponseTo(header, "CANCELED"), sent)
    BY ZenonT(60), <1>7, <2>1, MessageTypes DEF CancelReply, SendCancelReply, TypeOK,
       ServerTypeOK
  <2>3. held'[c] = {} /\ cancel_asked'[c] = {} /\ requests' = requests
    BY ZenonT(60), <1>5, <1>7, <2>1 DEF CancelReply
  <2>4. /\ ResponseTo(header, "CANCELED") \in Response
        /\ ResponseTo(header, "CANCELED").id = client_request_id[c]
        /\ ResponseTo(header, "CANCELED").code = "CANCELED"
    BY ZenonT(60), <1>4, <2>1 DEF ResponseTo, ResultCode
  <2> QED
    BY ZenonT(60), <1>2, <1>4, <2>1, <2>2, <2>3, <2>4, AnswerInFlight
<1> QED
  BY ZenonT(60), <1>1, <1>3, <1>6, <1>7

-----------------------------------------------------------------------------
(* The theorems.                                                           *)

(* Every request is in one place at a time, for any number of clients,     *)
(* request ids and send failures.                                          *)
THEOREM InFlightCorrect == Spec => []InFlightInv
<1>1. Init => InFlightInv
  <2> SUFFICES ASSUME Init, NEW c \in Clients PROVE InFlight(c)
    BY ZenonT(60) DEF InFlightInv
  <2>1. /\ requests[c] = << >> /\ responses[c] = << >> /\ pending_responses[c] = << >>
        /\ server_state[c] = "IDLE" /\ held[c] = {} /\ cancel_asked[c] = {}
    BY ZenonT(60) DEF Init, TransportInit, ClientInit, ServerInit
  <2> QED
    BY <2>1 DEF InFlight, WireInv, RunningInv, CancellingInv, HolderInv, ResponseInv
<1>2. TypeOK /\ InFlightInv /\ [Next]_vars => InFlightInv'
  <2> SUFFICES ASSUME TypeOK, InFlightInv, [Next]_vars, NEW d \in Clients
               PROVE  InFlight(d)'
    BY ZenonT(60) DEF InFlightInv
  <2>0. InFlight(d)
    BY DEF InFlightInv
  <2>1. CASE UNCHANGED vars
    <3>1. Same(d)
      BY ZenonT(60), <2>1 DEF vars, Same
    <3> QED
      BY ZenonT(60), <2>0, <3>1, SameKeepsInFlight
  <2>2. ASSUME NEW c \in Clients, ClientStep(c) PROVE InFlight(d)'
    BY ZenonT(60), <2>0, <2>2, ClientStepFrame, ClientStepInFlight, SameKeepsInFlight
  <2>3. ASSUME NEW c \in Clients, ServerStep(c) PROVE InFlight(d)'
    BY ZenonT(60), <2>0, <2>3, ServerStepFrame, ServerStepInFlight, SameKeepsInFlight
  <2> QED
    BY <2>1, <2>2, <2>3 DEF Next
<1> QED
  BY <1>1, <1>2, TypeCorrect, PTL DEF Spec

-----------------------------------------------------------------------------
(* The server works for a client only on the request that client waits for *)
(* (handle_request_in never meets a busy state, handle_cancel_request      *)
(* never a foreign id).                                                    *)
THEOREM ServesAwaitedRequestCorrect == Spec => []ServesAwaitedRequest
<1>1. TypeOK /\ InFlightInv => ServesAwaitedRequest
  <2> SUFFICES ASSUME TypeOK, InFlightInv, NEW c \in Clients, server_state[c] # "IDLE"
               PROVE  /\ client_state[c] # "IDLE"
                      /\ server_request_id[c] = client_request_id[c]
                      /\ held[c] = {AwaitedHeader(c)}
    BY DEF ServesAwaitedRequest
  <2>1. InFlight(c) /\ server_state[c] \in ServerState
    BY ZenonT(60), TypesAt DEF InFlightInv
  <2>2. client_state[c] # "IDLE"
    BY ZenonT(60), <2>1 DEF InFlight, RunningInv, CancellingInv, ServerState
  <2> QED
    BY ZenonT(60), <2>1, <2>2 DEF InFlight, HolderInv
<1> QED
  BY <1>1, TypeCorrect, InFlightCorrect, PTL

(* What a response for a client looks like, wherever it is.                *)
LEMMA ResponsesAreGood ==
  ASSUME TypeOK, NEW c \in Clients, InFlight(c), NEW r \in ResponsesFor(c)
  PROVE  GoodResponse(c, r)
<1>1. pending_responses[c] \in Seq(Response) /\ responses[c] \in Seq(Response)
  BY ZenonT(60), TypesAt
<1>2. /\ DOMAIN pending_responses[c] = 1 .. Len(pending_responses[c])
      /\ DOMAIN responses[c] = 1 .. Len(responses[c])
  BY SMTT(60), <1>1
<1> QED
  BY ZenonT(60), <1>2 DEF ResponsesFor, InFlight, ResponseInv

(* pending_responses_ never holds a response poll() would skip for ever.   *)
THEOREM NoStaleResponseCorrect == Spec => []NoStaleResponse
<1>1. TypeOK /\ InFlightInv => NoStaleResponse
  BY ZenonT(60), ResponsesAreGood DEF NoStaleResponse, InFlightInv, InFlight, ResponseInv,
     GoodResponse
<1> QED
  BY <1>1, TypeCorrect, InFlightCorrect, PTL

(* The server endpoint never ends a request on its own with                *)
(* send_error_reply.                                                       *)
THEOREM OnlyApplicationRepliesCorrect == Spec => []OnlyApplicationReplies
<1>1. TypeOK /\ InFlightInv => OnlyApplicationReplies
  BY ZenonT(60), ResponsesAreGood DEF OnlyApplicationReplies, InFlightInv, GoodResponse
<1> QED
  BY <1>1, TypeCorrect, InFlightCorrect, PTL

(* A late CANCEL finds the server IDLE, so handle_cancel_request ignores   *)
(* it.                                                                     *)
LEMMA LateCancelFindsIdle ==
  ASSUME TypeOK, NEW c \in Clients, InFlight(c), LateCancel(c)
  PROVE  server_state[c] = "IDLE"
<1>1. requests[c] \in Seq(Request) /\ server_state[c] \in ServerState
  BY ZenonT(60), TypesAt
<1>2. CASE RequestPositions(c) # {}
  <2>1. PICK i \in DOMAIN requests[c] : requests[c][i].op = "REQUEST"
    BY ZenonT(60), <1>2 DEF RequestPositions
  <2>2. i \in 1 .. Len(requests[c])
    BY <1>1, <2>1
  <2> QED
    BY ZenonT(60), <2>1, <2>2 DEF InFlight, WireInv
<1>3. CASE client_state[c] # "CANCELLING"
  <2>1. 1 \in 1 .. Len(requests[c])
    BY <1>1 DEF LateCancel
  <2> QED
    BY ZenonT(60), <1>1, <1>3, <2>1 DEF InFlight, RunningInv, CancellingInv, ServerState
<1> QED
  BY ZenonT(60), <1>2, <1>3 DEF LateCancel

(* A late server-side CANCEL is harmless.                                  *)
THEOREM LateCancelHarmlessCorrect == Spec => LateCancelHarmless
<1> DEFINE Harmless(c) ==
      LateCancel(c) /\ requests'[c] = Tail(requests[c]) =>
        /\ server_state'[c] = server_state[c]
        /\ server_request_id'[c] = server_request_id[c]
        /\ responses'[c] = responses[c]
<1>1. TypeOK /\ InFlightInv /\ [Next]_vars => [\A c \in Clients : Harmless(c)]_vars
  <2> SUFFICES ASSUME TypeOK, InFlightInv, Next, NEW c \in Clients, LateCancel(c),
                      requests'[c] = Tail(requests[c])
               PROVE  /\ server_state'[c] = server_state[c]
                      /\ server_request_id'[c] = server_request_id[c]
                      /\ responses'[c] = responses[c]
    BY ZenonT(60)
  <2>0. server_state[c] = "IDLE" /\ requests[c] # << >> /\ Head(requests[c]).op = "CANCEL"
    BY ZenonT(60), LateCancelFindsIdle DEF InFlightInv, LateCancel
  <2>1. requests'[c] # requests[c]
    <3>1. requests[c] \in Seq(Request) /\ requests[c] # << >>
      BY ZenonT(60), <2>0, TypesAt
    <3>2. Len(Tail(requests[c])) = Len(requests[c]) - 1 /\ Len(requests[c]) \in Nat
      BY <3>1
    <3>3. \A n \in Nat : n - 1 # n
      OBVIOUS
    <3> QED
      BY ZenonT(60), <3>2, <3>3
  <2>2. PICK d \in Clients : ClientStep(d) \/ ServerStep(d)
    BY ZenonT(60) DEF Next
  <2>3. CASE ClientStep(d) /\ d # c
    BY ZenonT(60), <2>1, <2>3, ClientStepFrame DEF Same
  <2>4. CASE ServerStep(d) /\ d # c
    BY ZenonT(60), <2>1, <2>4, ServerStepFrame DEF Same
  <2>5. CASE ClientStep(c)
    <3>1. /\ UNCHANGED serverVars
          /\ requests' = requests \/ responses' = responses
      BY ZenonT(60), <2>5
      DEF ClientStep, ClientPoll, CreateRequestBuffer, Call, SendCancelRequest,
                  PutPendingResponse, PollTimeout, PollResponse, PollNone, DeadlinePasses
    <3> QED
      BY ZenonT(60), <2>1, <3>1 DEF serverVars
  <2>6. CASE ServerStep(c)
    <3>1. PICK sent \in SendOutcomes :
            \/ ServerPoll(c, sent)
            \/ \E header \in held[c], code \in ReplyCodes : Reply(c, header, code, sent)
            \/ \E header \in cancel_asked[c] : CancelReply(c, header, sent)
      BY ZenonT(60), <2>6 DEF ServerStep
    <3>2. ServerPoll(c, sent)
      BY ZenonT(60), <2>1, <3>1 DEF Reply, CancelReply, Answered
    <3>3. \/ SendErrorReply(c, HeaderOf(Head(requests[c])), "ERROR", sent)
          \/ HandleCancelRequest(c, HeaderOf(Head(requests[c])), sent)
      BY ZenonT(60), <2>0, <3>2 DEF ServerPoll
    <3>4. CASE SendErrorReply(c, HeaderOf(Head(requests[c])), "ERROR", sent)
      BY ZenonT(60), <2>0, <3>4 DEF SendErrorReply, SendReply, Send, TypeOK, ServerTypeOK
    <3>5. CASE HandleCancelRequest(c, HeaderOf(Head(requests[c])), sent)
      BY ZenonT(60), <2>0, <3>5 DEF HandleCancelRequest
    <3> QED
      BY ZenonT(60), <3>3, <3>4, <3>5
  <2> QED
    BY ZenonT(60), <2>2, <2>3, <2>4, <2>5, <2>6
<1> QED
  BY <1>1, TypeCorrect, InFlightCorrect, PTL DEF Spec, LateCancelHarmless

(* An endpoint becomes reusable only when poll() takes the response to the *)
(* request in flight, and RESPONSE_CANCEL only ends a cancelled request.   *)
THEOREM ReusableOnlyAfterResponseCorrect == Spec => ReusableOnlyAfterResponse
<1> DEFINE Freed(c) ==
      client_state[c] # "IDLE" /\ client_state'[c] = "IDLE" =>
        /\ \E r \in ResponsesFor(c) : r.id = client_request_id[c]
        /\ server_state[c] = "IDLE"
        /\ client_event'[c] = "RESPONSE_CANCEL" => client_state[c] = "CANCELLING"
<1>1. TypeOK /\ InFlightInv /\ [Next]_vars => [\A c \in Clients : Freed(c)]_vars
  <2> SUFFICES ASSUME TypeOK, InFlightInv, Next, NEW c \in Clients,
                      client_state[c] # "IDLE", client_state'[c] = "IDLE"
               PROVE  /\ \E r \in ResponsesFor(c) : r.id = client_request_id[c]
                      /\ server_state[c] = "IDLE"
                      /\ client_event'[c] = "RESPONSE_CANCEL" => client_state[c] = "CANCELLING"
    OBVIOUS
  <2>1. PICK d \in Clients : ClientStep(d) \/ ServerStep(d)
    BY ZenonT(60) DEF Next
  <2>2. ClientStep(d) /\ d = c
    BY ZenonT(60), <2>1, ClientStepFrame, ServerStepFrame DEF Same, ServerStep, clientVars
  <2>3. PollResponse(c)
    BY ZenonT(60), <2>2
    DEF ClientStep, ClientPoll, CreateRequestBuffer, Call, SendCancelRequest,
                PutPendingResponse, PollTimeout, PollNone, DeadlinePasses,
                TypeOK, ClientTypeOK
  <2>4. PICK i \in DOMAIN pending_responses[c] :
          /\ FirstAnswer(c, i)
          /\ client_event' = [client_event EXCEPT ![c] = ResponseEvent(pending_responses[c][i].code)]
    BY ZenonT(60), <2>3 DEF PollResponse
  <2> DEFINE r == pending_responses[c][i]
  <2>5. r \in ResponsesFor(c) /\ r.id = client_request_id[c]
    BY ZenonT(60), <2>4 DEF ResponsesFor, FirstAnswer, Answers
  <2>6. GoodResponse(c, r)
    BY ZenonT(60), <2>5, ResponsesAreGood DEF InFlightInv
  <2> HIDE DEF r
  <2>7. client_event'[c] = ResponseEvent(r.code)
    BY <2>4 DEF TypeOK, ClientTypeOK, r
  <2>8. ResponseEvent(r.code) = "RESPONSE_CANCEL" => r.code = "CANCELED"
    BY Zenon DEF ResponseEvent
  <2> QED
    BY ZenonT(60), <2>5, <2>6, <2>7, <2>8 DEF GoodResponse
<1> QED
  BY <1>1, TypeCorrect, InFlightCorrect, PTL DEF Spec, ReusableOnlyAfterResponse
=============================================================================
