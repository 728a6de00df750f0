---------------------------- MODULE ActionServerOpen ----------------------------
(***************************************************************************)
(* The Action server with nothing assumed about its peers: any request     *)
(* packet may arrive at any time, the application and the multiplexer may  *)
(* make any call at any time. What holds here holds for every client,      *)
(* after every reconnect, and whatever the transport loses or reorders.    *)
(***************************************************************************)
EXTENDS ActionServer

openServerVars == <<serverVars, to_server, to_client>>

\* External: the transport delivers a request, and takes what the server sent.
RequestArrives(k, p) ==
    /\ to_server' = Send(to_server, k, p)
    /\ UNCHANGED <<serverVars, to_client>>

ResponseDeparts(k) ==
    /\ to_client[k] # << >>
    /\ to_client' = Received(to_client, k)
    /\ UNCHANGED <<serverVars, to_server>>

Calls(k, g) ==
    \/ AcceptGoal(k, g)
    \/ RejectGoal(k, g)
    \/ AcceptCancel(k, g)
    \/ RejectCancel(k, g)
    \/ SendFeedback(k, g)
    \/ \E status \in TerminalStatus, sent \in SendOutcomes : Complete(k, g, status, sent)
    \/ \E status \in TerminalStatus : CompleteLocally(k, g, status)
    \/ DiscardPendingGoal(k, g)

OpenServerInit == ServerInit /\ ActionTransportInit

OpenServerStep(k) ==
    \/ \E sent \in SendOutcomes : ServerPoll(k, sent)
    \/ \E g \in Goals : Calls(k, g)
    \/ NotifyTransportDisconnected(k)
    \/ \E n \in 0 .. Len(to_server[k]) : StopAllServices(k, n)
    \/ \E n \in 0 .. Len(to_server[k]) : ClearAllInstances(k, n)

OpenServerNext ==
    \E k \in Connections :
        \/ \E p \in ToServer : RequestArrives(k, p)
        \/ ResponseDeparts(k)
        \/ OpenServerStep(k)

OpenServerSpec == OpenServerInit /\ [][OpenServerNext]_openServerVars

--------------------------------------------------------------------------------
(* Properties *)

\* Every field of the server's tables and of its queues has its type.
OpenServerTypeOK == ServerTypeOK /\ ActionTransportTypeOK
================================================================================
