---------------------------- MODULE ActionClientOpen ----------------------------
(***************************************************************************)
(* The Action client with nothing assumed about the server: any response   *)
(* or Feedback packet may arrive at any time, for any Goal, slot, status   *)
(* and sequence number. What holds here holds for every server, across     *)
(* reconnects, and whatever the transport loses, repeats or reorders.      *)
(***************************************************************************)
EXTENDS ActionClient

openClientVars == <<clientVars, to_server, to_client>>

\* External: the transport delivers a packet, and takes what the client sent.
PacketArrives(k, p) ==
    /\ to_client' = Send(to_client, k, p)
    /\ UNCHANGED <<clientVars, to_server>>

RequestDeparts(k) ==
    /\ to_server[k] # << >>
    /\ to_server' = Received(to_server, k)
    /\ UNCHANGED <<clientVars, to_client>>

OpenClientInit == ClientInit /\ ActionTransportInit

OpenClientStep(k) ==
    \/ \E g \in Goals, timeout \in GoalTimeouts : SendGoal(k, g, timeout)
    \/ \E g \in Goals : SendCancel(k, g)
    \/ ClientPoll(k)
    \/ \E g \in Goals : GoalDeadlinePasses(k, g)
    \/ \E n \in 0 .. Len(to_client[k]) : ClientStop(k, n)
    \/ \E n \in 0 .. Len(to_client[k]) : ClientClearAllInstances(k, n)

OpenClientNext ==
    \E k \in Connections :
        \/ \E p \in ToClient : PacketArrives(k, p)
        \/ RequestDeparts(k)
        \/ OpenClientStep(k)

OpenClientSpec == OpenClientInit /\ [][OpenClientNext]_openClientVars

--------------------------------------------------------------------------------
(* Properties *)

\* Every field of the client's tables and of its queues has its type.
OpenClientTypeOK == ClientTypeOK /\ ActionTransportTypeOK
================================================================================
