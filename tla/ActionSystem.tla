------------------------------ MODULE ActionSystem ------------------------------
(***************************************************************************)
(* Action clients and servers, each pair joined by a connection that       *)
(* delivers in order and does not fail: the point-to-point configuration.  *)
(* Any Endpoint::send may still return an error (SendOutcomes).            *)
(***************************************************************************)
EXTENDS ActionClient, ActionServer

vars == <<clientVars, serverVars, to_server, to_client>>

Init == ClientInit /\ ServerInit /\ ActionTransportInit

ClientApplication(k, g) ==
    \/ \E timeout \in GoalTimeouts : SendGoal(k, g, timeout)
    \/ SendCancel(k, g)
    \/ GoalDeadlinePasses(k, g)

GoalDecision(k, g) == AcceptGoal(k, g) \/ RejectGoal(k, g)

CancelDecision(k, g) == AcceptCancel(k, g) \/ RejectCancel(k, g)

Completion(k, g) ==
    \E status \in TerminalStatus, sent \in SendOutcomes : Complete(k, g, status, sent)

ServerApplication(k, g) ==
    \/ GoalDecision(k, g)
    \/ CancelDecision(k, g)
    \/ Completion(k, g)
    \/ Len(to_client[k]) < MaxQueued /\ SendFeedback(k, g)

ClientStep(k) ==
    /\ ClientPoll(k) \/ \E g \in Goals : ClientApplication(k, g)
    /\ UNCHANGED serverVars

ServerStep(k) ==
    /\ \/ \E sent \in SendOutcomes : ServerPoll(k, sent)
       \/ \E g \in Goals : ServerApplication(k, g)
    /\ UNCHANGED clientVars

Next == \E k \in Connections : ClientStep(k) \/ ServerStep(k)

Spec == Init /\ [][Next]_vars

--------------------------------------------------------------------------------
(* Properties *)

\* Every table and queue of both sides has its type.
TypeOK == ClientTypeOK /\ ServerTypeOK /\ ActionTransportTypeOK

InQueue(queue, kind, g) ==
    \E i \in DOMAIN queue : queue[i].kind = kind /\ queue[i].goal = g

\* A Goal request always finds its id unknown and its slot free on the server:
\* the client reuses an id or a slot only after the server has let go of it, so
\* poll() never rejects a Goal on its own (send_goal_error_reply).
GoalRequestFindsSlotFree ==
    \A k \in Connections : \A i \in DOMAIN to_server[k] :
        LET p == to_server[k][i] IN
        p.kind = "GOAL" => /\ bindings[<<k, p.goal>>].state = "NONE"
                           /\ slot_owners[<<k, p.slot>>] = NoGoal

\* The client acts on every packet of a Goal it has not given up: responses,
\* Feedback and Result arrive in a state that accepts them, with the expected
\* slot and sequence number. Only packets of a timed-out Goal are ignored.
NothingIgnored ==
    \A k \in Connections :
        to_client[k] # << >> =>
            LET p == Head(to_client[k]) IN
            \/ IsMatched(k, p)
            \/ ClientBindingIn(k, p.goal, {"GOAL_RESPONSE_TIMED_OUT"})

\* The server drops a Cancel request only when the Goal's terminal status was
\* committed before: a late cancel loses to a Result, never to anything else.
CancelDroppedOnlyAfterResult ==
    \A k \in Connections :
        to_server[k] # << >> =>
            LET p == Head(to_server[k]) IN
            p.kind = "CANCEL" =>
                CancelIsReported(k, p) \/ BindingIn(k, p.goal, {"NONE", "RESULT_COMMITTED"})

\* What the client is waiting for is on its way, in the hands of the server's
\* application, or lost with a Result whose send failed.
NotLost(k, g) ==
    LET s == bindings[<<k, g>>].state IN
    /\ ClientBindingIn(k, g, {"AWAITING_GOAL_RESPONSE"}) =>
           \/ InQueue(to_server[k], "GOAL", g)
           \/ s = "AWAITING_GOAL_DECISION"
           \/ InQueue(to_client[k], "GOAL", g)
    /\ ClientBindingIn(k, g, {"ACCEPTED", "AWAITING_CANCEL_RESPONSE", "CANCELING"}) =>
           \/ s \in {"GOAL_ACCEPTED", "CANCEL_ACCEPTED", "RESULT_COMMITTED"}
           \/ InQueue(to_client[k], "RESULT", g)
    /\ ClientBindingIn(k, g, {"AWAITING_CANCEL_RESPONSE"}) =>
           \/ InQueue(to_server[k], "CANCEL", g)
           \/ bindings[<<k, g>>].cancel_decision_pending
           \/ InQueue(to_client[k], "CANCEL", g)
           \/ InQueue(to_client[k], "RESULT", g)
           \/ s = "RESULT_COMMITTED"

\* No Goal, no cancel and no Result disappears between the two sides, whatever
\* crosses on the way, times out or fails to be sent.
GoalNeverLost == \A k \in Connections, g \in Goals : NotLost(k, g)

\* The server never works for nobody: every Goal it holds is bound on the
\* client too, on the same slot, if only as a timed-out one.
ServerGoalKnownToClient ==
    \A k \in Connections, g \in Goals :
        bindings[<<k, g>>].state # "NONE" =>
            /\ client_bindings[<<k, g>>].state # "NONE"
            /\ client_bindings[<<k, g>>].slot = bindings[<<k, g>>].slot
================================================================================
