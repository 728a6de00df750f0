------------------------------ MODULE ActionClient ------------------------------
(***************************************************************************)
(* The Action client of one connection, for one Action:                    *)
(* ActionServicesClient (src/action_services_client.cpp) on top of         *)
(* ActionClientEndpointImpl (src/action_client_endpoint_impl.cpp).         *)
(*                                                                         *)
(* The endpoint keeps a packet binding per Goal and the owner of every     *)
(* slot; the services keep a GoalInstance with the state machine's         *)
(* context from the moment the Goal is accepted. Every public call holds   *)
(* the services' mutex from beginning to end, so a call is one step. A     *)
(* call that is refused, or whose send fails (the endpoint then rolls the  *)
(* binding back), changes nothing and is left out.                         *)
(***************************************************************************)
EXTENDS ActionTransport, ActionClientStateMachine

CONSTANT GoalTimeouts  \* the timeouts send_goal is called with: "none", "finite"

VARIABLES
    client_bindings,     \* client_bindings[<<k, g>>]: packet_bindings_
    client_slot_owners,  \* client_slot_owners[<<k, s>>]: slot_owners_
    client_goals         \* client_goals[<<k, g>>]: context of the GoalInstance

clientVars == <<client_bindings, client_slot_owners, client_goals>>

BindingState ==
    {"AWAITING_GOAL_RESPONSE", "GOAL_RESPONSE_TIMED_OUT", "ACCEPTED",
     "AWAITING_CANCEL_RESPONSE", "CANCELING"}

\* A goal id that is not in packet_bindings_ has state "NONE". `deadline'
\* stands for sent_at_usec and timeout_usec: no timeout, one in the future, or
\* one that has passed.
ClientPacketBinding ==
    [state : BindingState \cup {"NONE"}, slot : Slots,
     deadline : {"none", "ahead", "passed"},
     next_feedback_sequence : FeedbackSequence]

NewClientBinding(s, timeout) ==
    [state |-> "AWAITING_GOAL_RESPONSE", slot |-> s,
     deadline |-> IF timeout = "finite" THEN "ahead" ELSE "none",
     next_feedback_sequence |-> 0]

NoClientBinding == [NewClientBinding(0, "none") EXCEPT !.state = "NONE"]

ClientInit ==
    /\ client_bindings = [h \in Connections \X Goals |-> NoClientBinding]
    /\ client_slot_owners = [h \in Connections \X Slots |-> NoGoal]
    /\ client_goals = [h \in Connections \X Goals |-> NoClientContext]

--------------------------------------------------------------------------------
(* Helpers *)

ClientHasGoal(k, g) == client_goals[<<k, g>>].state # "NONE"

ClientBindingIn(k, g, states) == client_bindings[<<k, g>>].state \in states

FreeSlots(k) == {s \in Slots : client_slot_owners[<<k, s>>] = NoGoal}

\* release_binding_locked
ReleaseClientBinding(k, g) ==
    LET s == client_bindings[<<k, g>>].slot IN
    /\ client_bindings' = [client_bindings EXCEPT ![<<k, g>>] = NoClientBinding]
    /\ client_slot_owners' = [client_slot_owners EXCEPT ![<<k, s>>] = NoGoal]

ClientTransition(k, g, type, p) ==
    TransitionClientGoal(client_goals[<<k, g>>], type, p.status, p.sequence)

\* handle_feedback_locked, handle_cancel_response_locked: the context moves
\* when the state machine says so and stays otherwise.
MoveClientGoal(k, p, type) ==
    client_goals' = [client_goals EXCEPT ![<<k, p.goal>>] =
                        ClientTransition(k, p.goal, type, p).next]

--------------------------------------------------------------------------------
(* The application's calls *)

\* The first free slot is taken.
EndpointSendGoal(k, g, timeout) ==
    /\ ClientBindingIn(k, g, {"NONE"})
    /\ \E s \in FreeSlots(k) :
          /\ \A t \in FreeSlots(k) : s <= t
          /\ client_slot_owners' = [client_slot_owners EXCEPT ![<<k, s>>] = g]
          /\ client_bindings' = [client_bindings EXCEPT ![<<k, g>>] =
                                    NewClientBinding(s, timeout)]
          /\ to_server' = Send(to_server, k, Request("GOAL", g, s))

SendGoal(k, g, timeout) ==
    /\ ~ClientHasGoal(k, g)
    /\ EndpointSendGoal(k, g, timeout)
    /\ UNCHANGED <<client_goals, to_client>>

EndpointSendCancel(k, g) ==
    /\ ClientBindingIn(k, g, {"ACCEPTED"})
    /\ client_bindings' = [client_bindings EXCEPT ![<<k, g>>].state =
                              "AWAITING_CANCEL_RESPONSE"]
    /\ to_server' = Send(to_server, k, Request("CANCEL", g, client_bindings[<<k, g>>].slot))

SendCancel(k, g) ==
    LET transition == TransitionClientGoal(client_goals[<<k, g>>], "REQUEST_CANCEL",
                                           "OTHER", 0)
    IN  /\ transition.kind = "TRANSITIONED"
        /\ EndpointSendCancel(k, g)
        /\ client_goals' = [client_goals EXCEPT ![<<k, g>>] = transition.next]
        /\ UNCHANGED <<client_slot_owners, to_client>>

--------------------------------------------------------------------------------
(* poll(): at most one packet, then, if it led to no event, the timeouts *)

\* Mutant: a late answer revives a Goal that timed out.
AnswersGoalLate(k, p) ==
    /\ p.kind = "GOAL"
    /\ p.slot = client_bindings[<<k, p.goal>>].slot
    /\ ClientBindingIn(k, p.goal, {"AWAITING_GOAL_RESPONSE", "GOAL_RESPONSE_TIMED_OUT"})
    /\ p.status \in Decision

\* Each kind of packet and the bindings the endpoint matches it with.
AnswersGoal(k, p) ==
    /\ p.kind = "GOAL"
    /\ p.slot = client_bindings[<<k, p.goal>>].slot
    /\ ClientBindingIn(k, p.goal, {"AWAITING_GOAL_RESPONSE"})
    /\ p.status \in Decision

AnswersCancel(k, p) ==
    /\ p.kind = "CANCEL"
    /\ p.slot = client_bindings[<<k, p.goal>>].slot
    /\ ClientBindingIn(k, p.goal, {"AWAITING_CANCEL_RESPONSE"})
    /\ p.status \in Decision

\* Mutant: no Result is taken while the answer to a cancel is awaited.
DeliversResultAfterCancel(k, p) ==
    /\ p.kind = "RESULT"
    /\ p.slot = client_bindings[<<k, p.goal>>].slot
    /\ \/ ClientBindingIn(k, p.goal, {"ACCEPTED"}) /\ p.status \in {"SUCCEEDED", "ABORTED"}
       \/ ClientBindingIn(k, p.goal, {"CANCELING"}) /\ p.status \in {"CANCELED", "ABORTED"}

DeliversResult(k, p) ==
    /\ p.kind = "RESULT"
    /\ p.slot = client_bindings[<<k, p.goal>>].slot
    /\ \/ /\ ClientBindingIn(k, p.goal, {"ACCEPTED", "AWAITING_CANCEL_RESPONSE"})
          /\ p.status \in {"SUCCEEDED", "ABORTED"}
       \/ /\ ClientBindingIn(k, p.goal, {"CANCELING"})
          /\ p.status \in {"CANCELED", "ABORTED"}

DeliversFeedback(k, p) ==
    /\ p.kind = "FEEDBACK"
    /\ p.slot = client_bindings[<<k, p.goal>>].slot
    /\ ClientBindingIn(k, p.goal, {"ACCEPTED", "AWAITING_CANCEL_RESPONSE", "CANCELING"})
    /\ p.sequence = client_bindings[<<k, p.goal>>].next_feedback_sequence

IsMatched(k, p) ==
    \/ AnswersGoal(k, p)
    \/ AnswersCancel(k, p)
    \/ DeliversResult(k, p)
    \/ DeliversFeedback(k, p)

\* An accepted Goal becomes a GoalInstance; one that exists already is an error.
PollGoalAccepted(k, p) ==
    /\ AnswersGoal(k, p) /\ p.status = "ACCEPTED"
    /\ client_bindings' = [client_bindings EXCEPT ![<<k, p.goal>>].state = "ACCEPTED"]
    /\ client_goals' = [client_goals EXCEPT ![<<k, p.goal>>] =
                           IF ClientHasGoal(k, p.goal) THEN @ ELSE NewClientContext]
    /\ UNCHANGED client_slot_owners

PollGoalRejected(k, p) ==
    /\ AnswersGoal(k, p) /\ p.status = "REJECTED"
    /\ ReleaseClientBinding(k, p.goal)
    /\ UNCHANGED client_goals

PollCancelResponse(k, p) ==
    /\ AnswersCancel(k, p)
    /\ client_bindings' = [client_bindings EXCEPT ![<<k, p.goal>>].state =
                              IF p.status = "ACCEPTED" THEN "CANCELING" ELSE "ACCEPTED"]
    /\ MoveClientGoal(k, p, IF p.status = "ACCEPTED" THEN "CANCEL_RESPONSE_ACCEPTED"
                            ELSE "CANCEL_RESPONSE_REJECTED")
    /\ UNCHANGED client_slot_owners

\* Mutant: the GoalInstance outlives its Result.
PollResultKeepsGoal(k, p) ==
    /\ DeliversResult(k, p)
    /\ ReleaseClientBinding(k, p.goal)
    /\ UNCHANGED client_goals

\* handle_result_locked: the GoalInstance goes with the Result, unless the
\* state machine ignores it.
PollResult(k, p) ==
    /\ DeliversResult(k, p)
    /\ ReleaseClientBinding(k, p.goal)
    /\ client_goals' = [client_goals EXCEPT ![<<k, p.goal>>] =
                           IF ClientTransition(k, p.goal, "RESULT_RECEIVED", p).kind
                                = "TRANSITIONED"
                           THEN NoClientContext ELSE @]

PollFeedback(k, p) ==
    /\ DeliversFeedback(k, p)
    /\ client_bindings' = [client_bindings EXCEPT
                              ![<<k, p.goal>>].next_feedback_sequence = NextSequence(@)]
    /\ MoveClientGoal(k, p, "FEEDBACK_RECEIVED")
    /\ UNCHANGED client_slot_owners

TimedOut(k, g) ==
    /\ ClientBindingIn(k, g, {"AWAITING_GOAL_RESPONSE"})
    /\ client_bindings[<<k, g>>].deadline = "passed"

\* Mutant: the slot of a Goal that timed out is reused.
PollTimeoutReleases(k) ==
    /\ \E g \in Goals : TimedOut(k, g) /\ ReleaseClientBinding(k, g)
    /\ UNCHANGED client_goals

\* The slot of a timed-out Goal stays taken until clear_all_instances. The first
\* timed-out Goal in the order of the ids is reported; ids have no fixed order.
PollTimeout(k) ==
    /\ \E g \in Goals :
          /\ TimedOut(k, g)
          /\ client_bindings' = [client_bindings EXCEPT ![<<k, g>>].state =
                                    "GOAL_RESPONSE_TIMED_OUT"]
    /\ UNCHANGED <<client_slot_owners, client_goals>>

PollPacket(k, p) ==
    \/ PollGoalAccepted(k, p)
    \/ PollGoalRejected(k, p)
    \/ PollCancelResponse(k, p)
    \/ PollResult(k, p)
    \/ PollFeedback(k, p)
    \/ ~IsMatched(k, p) /\ PollTimeout(k)
    \/ /\ ~IsMatched(k, p)
       /\ \A g \in Goals : ~TimedOut(k, g)
       /\ UNCHANGED clientVars

ClientPoll(k) ==
    /\ \/ /\ to_client[k] # << >>
          /\ to_client' = Received(to_client, k)
          /\ PollPacket(k, Head(to_client[k]))
       \/ /\ to_client[k] = << >>
          /\ PollTimeout(k)
          /\ UNCHANGED to_client
    /\ UNCHANGED to_server

\* The clock passes the deadline of a Goal.
GoalDeadlinePasses(k, g) ==
    /\ client_bindings[<<k, g>>].deadline = "ahead"
    /\ ClientBindingIn(k, g, {"AWAITING_GOAL_RESPONSE"})
    /\ client_bindings' = [client_bindings EXCEPT ![<<k, g>>].deadline = "passed"]
    /\ UNCHANGED <<client_slot_owners, client_goals, to_server, to_client>>

--------------------------------------------------------------------------------
(* Lifecycle: n is how many of the queued packets had already arrived *)

ClientStop(k, n) ==
    /\ to_client' = Cleared(to_client, k, n)
    /\ UNCHANGED <<client_bindings, client_slot_owners, client_goals, to_server>>

ClientClearAllInstances(k, n) ==
    /\ client_bindings' = [h \in Connections \X Goals |->
                              IF h[1] = k THEN NoClientBinding ELSE client_bindings[h]]
    /\ client_slot_owners' = [h \in Connections \X Slots |->
                                 IF h[1] = k THEN NoGoal ELSE client_slot_owners[h]]
    /\ client_goals' = [h \in Connections \X Goals |->
                           IF h[1] = k THEN NoClientContext ELSE client_goals[h]]
    /\ to_client' = Cleared(to_client, k, n)
    /\ UNCHANGED to_server

ClientTypeOK ==
    /\ client_bindings \in [Connections \X Goals -> ClientPacketBinding]
    /\ client_slot_owners \in [Connections \X Slots -> Goals \cup {NoGoal}]
    /\ client_goals \in [Connections \X Goals -> ClientGoalContext]

--------------------------------------------------------------------------------
(* Invariants of the two layers, whatever the peer does *)

\* The endpoint and the services never disagree about a Goal: there is a
\* GoalInstance exactly when the endpoint has seen the Goal accepted, a cancel
\* is awaited by both or by neither, and both expect the same Feedback next. A
\* packet one layer acts on is never ignored by the other. (send_cancel and
\* poll update the two layers in turn.)
ClientAgree(b, c) ==
    /\ b.state = "ACCEPTED" <=> c.state = "EXECUTING" /\ ~c.cancel_response_pending
    /\ b.state = "AWAITING_CANCEL_RESPONSE"
           <=> c.state = "EXECUTING" /\ c.cancel_response_pending
    /\ b.state = "CANCELING" <=> c.state = "CANCELING"
    /\ c.state # "NONE" =>
           /\ IsValidClientContext(c)
           /\ c.state # "FINISHING"
           /\ c.next_feedback_sequence = b.next_feedback_sequence
    /\ c.state = "NONE" => c = NoClientContext
    /\ b.state = "AWAITING_GOAL_RESPONSE" => b.next_feedback_sequence = 0

ClientLayersAgree ==
    \A h \in Connections \X Goals : ClientAgree(client_bindings[h], client_goals[h])

\* slot_owners_ and packet_bindings_ describe the same assignment: a slot is
\* owned by the one Goal bound to it and is free when no Goal is.
ClientSlotsOwned ==
    \A k \in Connections, g \in Goals, s \in Slots :
        client_slot_owners[<<k, s>>] = g
            <=> client_bindings[<<k, g>>].state # "NONE" /\ client_bindings[<<k, g>>].slot = s

\* The three tables of the client, binding, slot and Goal instance, tell the
\* same story about every Goal, whatever send_goal, send_cancel and poll() did.
ClientTablesAgree == ClientLayersAgree /\ ClientSlotsOwned

\* A Goal whose response timed out keeps its slot and is never revived by a
\* late packet: until clear_all_instances nothing about it changes, so poll()
\* reports the timeout once and the slot is not reused while the server may
\* still own the Goal.
TimedOutGoalQuarantined ==
    [][\A h \in Connections \X Goals :
          client_bindings[h].state = "GOAL_RESPONSE_TIMED_OUT" =>
              \/ client_bindings'[h] = client_bindings[h]
                     /\ client_goals'[h] = client_goals[h]
              \/ \A g \in Goals : client_bindings'[<<h[1], g>>] = NoClientBinding]_<<client_bindings, client_goals>>
================================================================================
