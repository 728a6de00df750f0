---------------------------- MODULE RpcTransport ----------------------------
(***************************************************************************)
(* What lies between an RPC client endpoint and an RPC server endpoint:    *)
(* for every client one FIFO of request PDUs and one FIFO of response      *)
(* PDUs, and the PDU headers they carry.                                   *)
(*                                                                         *)
(* requests[c] holds the request PDUs of client c that were sent and not   *)
(* yet polled, whether still in the transport or already in the server's   *)
(* pending_requests_ vector: the receive callback only appends to that     *)
(* vector and poll() only takes its front, so the two queues together are  *)
(* one FIFO per client.  The server's poll takes the front of any of them; *)
(* the order among clients in pending_requests_ is the order of arrival,   *)
(* which the transport leaves open.                                        *)
(***************************************************************************)
EXTENDS Integers, Sequences

CONSTANTS
  Clients,        \* names of the clients of one service
  IdModulus,      \* number of request ids, 2^32 in the code (Hako_uint32)
  SendOutcomes    \* what Endpoint::send may return: {TRUE} or {TRUE, FALSE}

ASSUME IdModulusAssumption == IdModulus \in Nat \ {0}
ASSUME SendOutcomesAssumption == SendOutcomes \in (SUBSET BOOLEAN) \ {{}}

VARIABLES
  requests,       \* requests[c]: request PDUs sent by c and not yet polled
  responses       \* responses[c]: response PDUs sent to c and not yet received

transportVars == <<requests, responses>>

RequestId == 0 .. IdModulus - 1

(* The fields of HakoCpp_ServiceRequestHeader the endpoints look at, and   *)
(* which incarnation of the client process sent it.  The incarnation is    *)
(* not in the code and no action tests it.                                 *)
Opcode == {"REQUEST", "CANCEL"}
Request == [op : Opcode, id : RequestId, incarnation : Nat]

(* What the application keeps of a request in order to answer it. *)
Header == [id : RequestId, incarnation : Nat]
HeaderOf(request) == [id |-> request.id, incarnation |-> request.incarnation]

(* The fields of HakoCpp_ServiceResponseHeader the endpoints look at. *)
(* "UNDEFINED" is a result code outside the enumeration.                    *)
ResultCode == {"OK", "ERROR", "CANCELED", "INVALID", "BUSY", "UNDEFINED"}
Response == [code : ResultCode, id : RequestId, incarnation : Nat]
ResponseTo(header, code) ==
  [code |-> code, id |-> header.id, incarnation |-> header.incarnation]

(* Endpoint::send on a channel: a failed send leaves nothing on the wire. *)
Send(channel, c, message, sent) ==
  IF sent THEN [channel EXCEPT ![c] = Append(@, message)] ELSE channel

TransportTypeOK ==
  /\ requests \in [Clients -> Seq(Request)]
  /\ responses \in [Clients -> Seq(Response)]

TransportInit ==
  /\ requests = [c \in Clients |-> << >>]
  /\ responses = [c \in Clients |-> << >>]
=============================================================================
