------------------------------ MODULE ActionServer ------------------------------
(***************************************************************************)
(* The Action server of one connection, for one Action:                    *)
(* ActionServicesServer (src/action_services_server.cpp) on top of         *)
(* ActionServerEndpointImpl (src/action_server_endpoint_impl.cpp).         *)
(*                                                                         *)
(* Each layer keeps its own record of a Goal: the endpoint a packet        *)
(* binding and the owner of every slot, the services a GoalInstance with   *)
(* the state machine's context. Every public call holds the services'      *)
(* mutex from beginning to end, so a call is one step. A call that is      *)
(* refused, or whose send fails before anything is committed, changes      *)
(* nothing and is left out: it would be a stuttering step.                 *)
(***************************************************************************)
EXTENDS ActionTransport, ActionServerStateMachine, FiniteSets

\* Goal ids are 128-bit values.
ASSUME GoalsAssumption == IsFiniteSet(Goals)

VARIABLES
    bindings,         \* bindings[<<k, g>>]: packet_bindings_ of the endpoint
    slot_owners,      \* slot_owners[<<k, s>>]: slot_owners_ of the endpoint
    goals,            \* goals[<<k, g>>]: context of the services' GoalInstance
    runtime_events    \* runtime_events[k]: pending_runtime_events_

serverVars == <<bindings, slot_owners, goals, runtime_events>>

PacketBindingState ==
    {"AWAITING_GOAL_DECISION", "GOAL_ACCEPTED", "CANCEL_ACCEPTED", "RESULT_COMMITTED"}

\* A goal id that is not in packet_bindings_ has state "NONE".
ActionPacketBinding ==
    [state : PacketBindingState \cup {"NONE"}, slot : Slots,
     cancel_decision_pending : BOOLEAN, next_feedback_sequence : FeedbackSequence]

NewBinding(s) ==
    [state |-> "AWAITING_GOAL_DECISION", slot |-> s,
     cancel_decision_pending |-> FALSE, next_feedback_sequence |-> 0]

NoBinding == [NewBinding(0) EXCEPT !.state = "NONE"]

ServerInit ==
    /\ bindings = [h \in Connections \X Goals |-> NoBinding]
    /\ slot_owners = [h \in Connections \X Slots |-> NoGoal]
    /\ goals = [h \in Connections \X Goals |-> NoServerContext]
    /\ runtime_events = [k \in Connections |-> << >>]

--------------------------------------------------------------------------------
(* Helpers of the endpoint and of the services. *)

HasGoal(k, g) == goals[<<k, g>>].state # "NONE"

IsQueued(k, g) == \E i \in DOMAIN runtime_events[k] : runtime_events[k][i] = g

\* The sequences that list every element of S once.
Orderings(S) ==
    {f \in UNION {[1 .. n -> S] : n \in 0 .. Cardinality(Goals)} :
        \A x \in S : \E i \in DOMAIN f : f[i] = x /\ \A j \in DOMAIN f : f[j] = x => j = i}

BindingIn(k, g, states) == bindings[<<k, g>>].state \in states

Transition(k, g, event) == TransitionServerGoal(goals[<<k, g>>], event)

SendResponse(k, g, kind, status) ==
    to_client' = Send(to_client, k, Response(kind, g, bindings[<<k, g>>].slot, status))

\* release_binding_locked: the slot is given back only if g still owns it.
ReleaseBinding(k, g) ==
    LET s == bindings[<<k, g>>].slot IN
    /\ bindings' = [bindings EXCEPT ![<<k, g>>] = NoBinding]
    /\ slot_owners' = [slot_owners EXCEPT ![<<k, s>>] = IF @ = g THEN NoGoal ELSE @]

\* The binding's view of the state machine's rule for terminal statuses.
ValidTerminal(k, g, status) ==
    \/ BindingIn(k, g, {"GOAL_ACCEPTED"}) /\ status \in {"SUCCEEDED", "ABORTED"}
    \/ BindingIn(k, g, {"CANCEL_ACCEPTED"}) /\ status \in {"CANCELED", "ABORTED"}

CompletionEvent(status) ==
    IF status = "SUCCEEDED" THEN "COMPLETE_SUCCEEDED"
    ELSE IF status = "CANCELED" THEN "COMPLETE_CANCELED"
    ELSE "COMPLETE_ABORTED"

--------------------------------------------------------------------------------
(* poll() *)

\* A CANCEL packet the endpoint reports; it drops every other one silently.
CancelIsReported(k, p) ==
    /\ BindingIn(k, p.goal, {"GOAL_ACCEPTED"})
    /\ bindings[<<k, p.goal>>].slot = p.slot
    /\ ~bindings[<<k, p.goal>>].cancel_decision_pending

\* handle_cancel_event_locked: a Goal the services do not know is reported as
\* an ERROR event, and the state machine may ignore the event; both leave the
\* context alone.
HandleCancelEvent(k, g, event) ==
    goals' = [goals EXCEPT ![<<k, g>>] = Transition(k, g, event).next]

\* The endpoint marks the binding, then the services update the GoalInstance.
PollCancelRequest(k, p) ==
    /\ CancelIsReported(k, p)
    /\ bindings' = [bindings EXCEPT ![<<k, p.goal>>].cancel_decision_pending = TRUE]
    /\ HandleCancelEvent(k, p.goal, "CANCEL_REQUEST_RECEIVED")
    /\ UNCHANGED <<slot_owners, to_client>>

PollDropped(k, p) ==
    /\ \/ p.kind = "MALFORMED"
       \/ p.kind = "CANCEL" /\ ~CancelIsReported(k, p)
    /\ UNCHANGED <<bindings, slot_owners, goals, to_client>>

\* Mutant: the refused Goal is dropped without an answer.
PollGoalRefusedSilently(k, p, sent) ==
    /\ bindings[<<k, p.goal>>].state # "NONE" \/ slot_owners[<<k, p.slot>>] # NoGoal
    /\ UNCHANGED <<bindings, slot_owners, goals, to_client>>

\* A Goal whose id or slot is taken is rejected without asking the application.
PollGoalRefused(k, p, sent) ==
    /\ bindings[<<k, p.goal>>].state # "NONE" \/ slot_owners[<<k, p.slot>>] # NoGoal
    /\ to_client' = IF sent
                    THEN Send(to_client, k, Response("GOAL", p.goal, p.slot, "REJECTED"))
                    ELSE to_client
    /\ UNCHANGED <<bindings, slot_owners, goals>>

PollGoalRequest(k, p) ==
    /\ bindings[<<k, p.goal>>].state = "NONE"
    /\ slot_owners[<<k, p.slot>>] = NoGoal
    /\ slot_owners' = [slot_owners EXCEPT ![<<k, p.slot>>] = p.goal]
    /\ bindings' = [bindings EXCEPT ![<<k, p.goal>>] = NewBinding(p.slot)]
    /\ UNCHANGED <<goals, to_client>>

EndpointPoll(k, sent) ==
    /\ to_server[k] # << >>
    /\ to_server' = Received(to_server, k)
    /\ LET p == Head(to_server[k]) IN
       \/ p.kind = "CANCEL" /\ PollCancelRequest(k, p)
       \/ PollDropped(k, p)
       \/ p.kind = "GOAL" /\ PollGoalRefused(k, p, sent)
       \/ p.kind = "GOAL" /\ PollGoalRequest(k, p)

\* The queued runtime events that reach the application: the others are
\* skipped by the same poll().
ReportedRuntimeEvents(k) ==
    {i \in DOMAIN runtime_events[k] :
        Transition(k, runtime_events[k][i], "RUNTIME_CANCEL_REQUESTED").kind # "NOP"}

PollRuntimeEvent(k) ==
    /\ \E i \in ReportedRuntimeEvents(k) :
          LET g == runtime_events[k][i] IN
          /\ \A j \in ReportedRuntimeEvents(k) : i <= j
          /\ HandleCancelEvent(k, g, "RUNTIME_CANCEL_REQUESTED")
          /\ runtime_events' = Cleared(runtime_events, k, i)
    /\ UNCHANGED <<bindings, slot_owners, to_server, to_client>>

ServerPoll(k, sent) ==
    \/ PollRuntimeEvent(k)
    \/ /\ ReportedRuntimeEvents(k) = {}
       /\ runtime_events' = [runtime_events EXCEPT ![k] = << >>]
       /\ EndpointPoll(k, sent)
    \/ /\ ReportedRuntimeEvents(k) = {}
       /\ runtime_events[k] # << >> /\ to_server[k] = << >>
       /\ runtime_events' = [runtime_events EXCEPT ![k] = << >>]
       /\ UNCHANGED <<bindings, slot_owners, goals, to_server, to_client>>

--------------------------------------------------------------------------------
(* The application's calls for a Goal *)

EndpointAcceptGoal(k, g) ==
    /\ BindingIn(k, g, {"AWAITING_GOAL_DECISION"})
    /\ bindings' = [bindings EXCEPT ![<<k, g>>].state = "GOAL_ACCEPTED"]
    /\ SendResponse(k, g, "GOAL", "ACCEPTED")
    /\ UNCHANGED slot_owners

\* The GoalInstance is made first and taken back when the endpoint refuses.
AcceptGoal(k, g) ==
    /\ ~HasGoal(k, g)
    /\ goals' = [goals EXCEPT ![<<k, g>>] = NewServerContext]
    /\ EndpointAcceptGoal(k, g)
    /\ UNCHANGED <<runtime_events, to_server>>

EndpointRejectGoal(k, g) ==
    /\ BindingIn(k, g, {"AWAITING_GOAL_DECISION"})
    /\ ReleaseBinding(k, g)
    /\ SendResponse(k, g, "GOAL", "REJECTED")

RejectGoal(k, g) ==
    /\ ~HasGoal(k, g)
    /\ EndpointRejectGoal(k, g)
    /\ UNCHANGED <<goals, runtime_events, to_server>>

\* Mutant: the context moves before the answer is sent, and stays so when the
\* send fails.
AcceptCancelBeforeSend(k, g) ==
    LET transition == Transition(k, g, "ACCEPT_CANCEL") IN
    /\ transition.kind = "TRANSITIONED"
    /\ goals' = [goals EXCEPT ![<<k, g>>] = transition.next]
    /\ UNCHANGED <<bindings, slot_owners, runtime_events, to_server, to_client>>

EndpointAcceptCancelLocally(k, g) ==
    /\ BindingIn(k, g, {"GOAL_ACCEPTED"})
    /\ bindings' = [bindings EXCEPT ![<<k, g>>].state = "CANCEL_ACCEPTED",
                                    ![<<k, g>>].cancel_decision_pending = FALSE]
    /\ UNCHANGED to_client

EndpointAcceptCancel(k, g) ==
    /\ BindingIn(k, g, {"GOAL_ACCEPTED"})
    /\ bindings[<<k, g>>].cancel_decision_pending
    /\ bindings' = [bindings EXCEPT ![<<k, g>>].state = "CANCEL_ACCEPTED",
                                    ![<<k, g>>].cancel_decision_pending = FALSE]
    /\ SendResponse(k, g, "CANCEL", "ACCEPTED")

\* A cancel the client asked for is answered on the wire, and the decision is
\* taken only if the answer is sent; a runtime cancel is decided locally.
AcceptCancel(k, g) ==
    LET transition == Transition(k, g, "ACCEPT_CANCEL") IN
    /\ transition.kind = "TRANSITIONED"
    /\ IF goals[<<k, g>>].cancel_origin = "CLIENT" THEN EndpointAcceptCancel(k, g)
       ELSE EndpointAcceptCancelLocally(k, g)
    /\ goals' = [goals EXCEPT ![<<k, g>>] = transition.next]
    /\ UNCHANGED <<slot_owners, runtime_events, to_server>>

\* Mutant: the endpoint still takes the decision to be pending.
RejectCancelLeavesPending(k, g) ==
    LET transition == Transition(k, g, "REJECT_CANCEL") IN
    /\ transition.kind = "TRANSITIONED"
    /\ BindingIn(k, g, {"GOAL_ACCEPTED"})
    /\ SendResponse(k, g, "CANCEL", "REJECTED")
    /\ goals' = [goals EXCEPT ![<<k, g>>] = transition.next]
    /\ UNCHANGED <<bindings, slot_owners, runtime_events, to_server>>

EndpointRejectCancel(k, g) ==
    /\ BindingIn(k, g, {"GOAL_ACCEPTED"})
    /\ bindings[<<k, g>>].cancel_decision_pending
    /\ bindings' = [bindings EXCEPT ![<<k, g>>].cancel_decision_pending = FALSE]
    /\ SendResponse(k, g, "CANCEL", "REJECTED")

\* A rejected runtime cancel does not reach the endpoint.
RejectCancel(k, g) ==
    LET transition == Transition(k, g, "REJECT_CANCEL") IN
    /\ transition.kind = "TRANSITIONED"
    /\ IF goals[<<k, g>>].cancel_origin = "CLIENT" THEN EndpointRejectCancel(k, g)
       ELSE UNCHANGED <<bindings, to_client>>
    /\ goals' = [goals EXCEPT ![<<k, g>>] = transition.next]
    /\ UNCHANGED <<slot_owners, runtime_events, to_server>>

EndpointSendFeedback(k, g) ==
    /\ BindingIn(k, g, {"GOAL_ACCEPTED", "CANCEL_ACCEPTED"})
    /\ to_client' = Send(to_client, k, Feedback(g, bindings[<<k, g>>].slot,
                                           bindings[<<k, g>>].next_feedback_sequence))
    /\ bindings' = [bindings EXCEPT ![<<k, g>>].next_feedback_sequence = NextSequence(@)]

SendFeedback(k, g) ==
    /\ Transition(k, g, "PUBLISH_FEEDBACK").kind = "NOP"
    /\ EndpointSendFeedback(k, g)
    /\ UNCHANGED <<slot_owners, goals, runtime_events, to_server>>

\* Mutant: the Goal is released although its Result was not sent.
CompleteReleasesAnyway(k, g, status, sent) ==
    /\ Transition(k, g, CompletionEvent(status)).kind = "TRANSITIONED"
    /\ ValidTerminal(k, g, status)
    /\ ReleaseBinding(k, g)
    /\ goals' = [goals EXCEPT ![<<k, g>>] = NoServerContext]
    /\ IF sent THEN SendResponse(k, g, "RESULT", status) ELSE UNCHANGED to_client
    /\ UNCHANGED <<runtime_events, to_server>>

\* complete(): the terminal status is committed before the Result is sent. When
\* the send fails the Goal stays committed and keeps its slot.
EndpointComplete(k, g, status, sent) ==
    /\ ValidTerminal(k, g, status)
    /\ \/ /\ sent
          /\ ReleaseBinding(k, g)
          /\ SendResponse(k, g, "RESULT", status)
       \/ /\ ~sent
          /\ bindings' = [bindings EXCEPT ![<<k, g>>].state = "RESULT_COMMITTED",
                                          ![<<k, g>>].cancel_decision_pending = FALSE]
          /\ UNCHANGED <<slot_owners, to_client>>

\* complete_goal_locked
Complete(k, g, status, sent) ==
    LET transition == Transition(k, g, CompletionEvent(status)) IN
    /\ transition.kind = "TRANSITIONED"
    /\ EndpointComplete(k, g, status, sent)
    /\ goals' = [goals EXCEPT ![<<k, g>>] = IF sent THEN NoServerContext
                                            ELSE transition.next]
    /\ UNCHANGED <<runtime_events, to_server>>

--------------------------------------------------------------------------------
(* What the multiplexer calls for a connection that went away *)

\* Mutant: a Goal that is already committed is completed again.
MayCompleteAgain(k, g, status) == HasGoal(k, g)

\* The services' check of complete_goal_locked, then the endpoint's of
\* complete_locally.
MayCompleteLocally(k, g, status) ==
    /\ Transition(k, g, CompletionEvent(status)).kind = "TRANSITIONED"
    /\ ValidTerminal(k, g, status)

CompleteLocally(k, g, status) ==
    /\ MayCompleteLocally(k, g, status)
    /\ ReleaseBinding(k, g)
    /\ goals' = [goals EXCEPT ![<<k, g>>] = NoServerContext]
    /\ UNCHANGED <<runtime_events, to_server, to_client>>

EndpointDiscardPendingGoal(k, g) ==
    /\ BindingIn(k, g, {"AWAITING_GOAL_DECISION"})
    /\ ReleaseBinding(k, g)

DiscardPendingGoal(k, g) ==
    /\ ~HasGoal(k, g)
    /\ EndpointDiscardPendingGoal(k, g)
    /\ UNCHANGED <<goals, runtime_events, to_server, to_client>>

\* One event per accepted Goal that has none queued, in the order of the
\* services' list, which any order of acceptance may have produced.
NotifyTransportDisconnected(k) ==
    \E events \in Orderings({g \in Goals : HasGoal(k, g) /\ ~IsQueued(k, g)}) :
        /\ runtime_events' = [runtime_events EXCEPT ![k] = @ \o events]
        /\ UNCHANGED <<bindings, slot_owners, goals, to_server, to_client>>

--------------------------------------------------------------------------------
(* Lifecycle: n is how many of the queued packets had already arrived *)

StopAllServices(k, n) ==
    /\ runtime_events' = [runtime_events EXCEPT ![k] = << >>]
    /\ to_server' = Cleared(to_server, k, n)
    /\ UNCHANGED <<bindings, slot_owners, goals, to_client>>

ClearAllInstances(k, n) ==
    /\ bindings' = [h \in Connections \X Goals |-> IF h[1] = k THEN NoBinding ELSE bindings[h]]
    /\ slot_owners' = [h \in Connections \X Slots |-> IF h[1] = k THEN NoGoal ELSE slot_owners[h]]
    /\ goals' = [h \in Connections \X Goals |-> IF h[1] = k THEN NoServerContext ELSE goals[h]]
    /\ runtime_events' = [runtime_events EXCEPT ![k] = << >>]
    /\ to_server' = Cleared(to_server, k, n)
    /\ UNCHANGED to_client

ServerTypeOK ==
    /\ bindings \in [Connections \X Goals -> ActionPacketBinding]
    /\ slot_owners \in [Connections \X Slots -> Goals \cup {NoGoal}]
    /\ goals \in [Connections \X Goals -> ServerGoalContext]
    /\ runtime_events \in [Connections -> Seq(Goals)]

--------------------------------------------------------------------------------
(* Invariants of the two layers, whatever the peer does *)

\* The endpoint and the services never disagree about a Goal: there is a
\* GoalInstance exactly when the binding is past the Goal decision, and its
\* state is the binding's. A cancel the services hold for the client is one the
\* endpoint will answer, so accept_cancel and reject_cancel cannot be refused
\* forever. (accept_goal, accept_cancel, complete update the two layers in turn.)
ServerAgree(b, c) ==
    /\ b.state = "GOAL_ACCEPTED" <=> c.state = "EXECUTING"
    /\ b.state = "CANCEL_ACCEPTED" <=> c.state = "CANCELING"
    /\ b.state = "RESULT_COMMITTED" <=> c.state = "FINISHING"
    /\ c.state # "NONE" => IsValidServerContext(c)
    /\ c.state = "NONE" => c = NoServerContext
    /\ c.cancel_origin = "CLIENT" => b.cancel_decision_pending
    /\ b.cancel_decision_pending => b.state = "GOAL_ACCEPTED"

ServerLayersAgree ==
    \A h \in Connections \X Goals : ServerAgree(bindings[h], goals[h])

\* slot_owners_ and packet_bindings_ describe the same assignment: a slot is
\* owned by the one Goal bound to it and is free when no Goal is, so no slot is
\* shared and none leaks.
ServerSlotsOwned ==
    \A k \in Connections, g \in Goals, s \in Slots :
        slot_owners[<<k, s>>] = g
            <=> bindings[<<k, g>>].state # "NONE" /\ bindings[<<k, g>>].slot = s

\* The three tables of the server, binding, slot and Goal instance, tell the
\* same story about every Goal, whatever the calls, poll() and a reset did.
ServerTablesAgree == ServerLayersAgree /\ ServerSlotsOwned

\* A disconnect asks the application to cancel a Goal at most once: no Goal is
\* queued twice, however often the disconnect is notified.
RuntimeCancelQueuedOnce ==
    \A k \in Connections : \A i, j \in DOMAIN runtime_events[k] :
        runtime_events[k][i] = runtime_events[k][j] => i = j

\* The first terminal decision wins: once a Result is committed and its send
\* failed, nothing but clear_all_instances changes what the Goal ended with.
CommittedResultStays ==
    [][\A h \in Connections \X Goals :
          bindings[h].state = "RESULT_COMMITTED" =>
              \/ bindings'[h] = bindings[h] /\ goals'[h] = goals[h]
              \/ \A g \in Goals : bindings'[<<h[1], g>>] = NoBinding]_<<bindings, goals>>
================================================================================
