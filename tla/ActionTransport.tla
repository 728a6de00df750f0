---------------------------- MODULE ActionTransport ----------------------------
(***************************************************************************)
(* What lies between an Action client and an Action server: for every      *)
(* connection one FIFO each way. All slots of an Action share the          *)
(* connection, so requests of different slots keep their order, and so do  *)
(* responses and Feedback.                                                 *)
(*                                                                         *)
(* to_server[k] and to_client[k] hold the packets sent and not yet polled, *)
(* whether still in the transport or already in the receiver's             *)
(* pending_packets_: the receive callback only appends there and poll()    *)
(* only takes the front, so the two queues together are one FIFO.          *)
(***************************************************************************)
EXTENDS ActionTypes

CONSTANTS
    Connections,    \* one client endpoint and one server endpoint each
    Goals,          \* goal ids; non-zero UUIDs in the code
    NoGoal,         \* the empty optional<GoalId>
    NumSlots,       \* max_active_goals of the Action's configuration
    SendOutcomes,   \* what Endpoint::send may return: {TRUE} or {TRUE, FALSE}
    MaxQueued       \* bound of the model on the length of a queue

ASSUME NoGoalAssumption == NoGoal \notin Goals
ASSUME NumSlotsAssumption == NumSlots \in Nat \ {0}
ASSUME ActionSendAssumption == SendOutcomes \in (SUBSET BOOLEAN) \ {{}}
ASSUME MaxQueuedAssumption == MaxQueued \in Nat \ {0}

VARIABLES to_server, to_client

Slots == 0 .. NumSlots - 1

\* The request header. "MALFORMED" stands for every packet that fails
\* validate_packet_capacity, decode_request_header or validate_request_header.
ToServer == [kind : {"GOAL", "CANCEL", "MALFORMED"}, goal : Goals, slot : Slots]

Request(kind, g, s) == [kind |-> kind, goal |-> g, slot |-> s]

\* The response header and the Feedback header in one record: a response has
\* no sequence and a Feedback no status. "OTHER" is a status outside the enums.
ToClient ==
    [kind : {"GOAL", "CANCEL", "RESULT", "FEEDBACK", "MALFORMED"},
     goal : Goals, slot : Slots,
     status : Decision \cup TerminalStatus \cup {"OTHER"},
     sequence : FeedbackSequence]

Response(kind, g, s, status) ==
    [kind |-> kind, goal |-> g, slot |-> s, status |-> status, sequence |-> 0]

Feedback(g, s, n) ==
    [kind |-> "FEEDBACK", goal |-> g, slot |-> s, status |-> "OTHER", sequence |-> n]

\* Endpoint::send on connection k: a failed send leaves nothing on the wire.
Send(channel, k, packet) == [channel EXCEPT ![k] = Append(@, packet)]

Received(channel, k) == [channel EXCEPT ![k] = Tail(@)]

\* pending_packets_.clear(): the packets that already arrived are lost, the
\* ones still in the transport are not.
Cleared(channel, k, n) ==
    [channel EXCEPT ![k] = SubSeq(@, n + 1, Len(@))]

ActionTransportInit ==
    /\ to_server = [k \in Connections |-> << >>]
    /\ to_client = [k \in Connections |-> << >>]

ActionTransportTypeOK ==
    /\ to_server \in [Connections -> Seq(ToServer)]
    /\ to_client \in [Connections -> Seq(ToClient)]
================================================================================
