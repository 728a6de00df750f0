--------------------------- MODULE ActionSystemProofs ---------------------------
(***************************************************************************)
(* The properties of ActionSystem, for any number of connections, Goals    *)
(* and slots, any Feedback modulus, and queues of any length.              *)
(***************************************************************************)
EXTENDS ActionStepProofs, ActionClientProofs, ActionServerProofs

(* The inductive invariant. *)
SystemInv == ClientInv /\ ServerInv /\ NoRuntimeCancel /\ Links

LEMMA TablesFitTogether == SystemInv => TablesFit /\ NoRuntimeCancel /\ Links
BY ZenonT(60)
DEF SystemInv, ClientInv, ClientTablesOK, ServerInv, TablesOK, QueuesOK, ServerTypeOK,
       TypeOK, ClientTablesAgree, ServerTablesAgree, TablesFit

--------------------------------------------------------------------------------
(* The invariant is inductive *)

LEMMA ClientStepKeeps ==
  ASSUME SystemInv, NEW k \in Connections, ClientStep(k)
  PROVE  SystemInv'
<1>1. ClientInv /\ ServerInv /\ NoRuntimeCancel /\ Links
  BY DEF SystemInv
<1>2. OpenClientStep(k)
  BY DEF ClientStep, ClientApplication, OpenClientStep
<1>3. ClientInv'
  BY ZenonT(60), <1>1, <1>2, ClientStepKeepsInv
<1>4. Links'
  BY ZenonT(60), TablesFitTogether, ClientStepLinks
<1>5. UNCHANGED <<bindings, slot_owners, goals, runtime_events>>
  BY ZenonT(60) DEF ClientStep, serverVars
<1>6. TablesOK' /\ (runtime_events \in [Connections -> Seq(Goals)])'
  BY <1>1, <1>5 DEF ServerInv, TablesOK, QueuesOK, ServerLayersAgree, ServerSlotsOwned
<1>7. ServerInv'
  BY ZenonT(60), <1>3, <1>6 DEF ServerInv, QueuesOK, ClientInv
<1>8. NoRuntimeCancel'
  BY ZenonT(60), <1>1, <1>5 DEF NoRuntimeCancel
<1> QED
  BY ZenonT(60), <1>3, <1>4, <1>7, <1>8 DEF SystemInv

(* Only a runtime event makes a cancel the runtime's. *)
LEMMA CancelOriginMoves ==
  ASSUME NEW c \in ServerGoalContext, c.cancel_origin # "RUNTIME"
  PROVE  TransitionServerGoal(c, "CANCEL_REQUEST_RECEIVED").next.cancel_origin # "RUNTIME"
<1>1. TransitionServerGoal(c, "CANCEL_REQUEST_RECEIVED") =
         IF ~IsValidServerContext(c) THEN Error(c) ELSE CancelRequestReceived(c)
  BY DEF TransitionServerGoal
<1>2. Error(c).next = c /\ Nop(c).next = c
  BY ZenonT(60) DEF Error, Nop
<1> DEFINE d == [c EXCEPT !.cancel_decision_pending = TRUE, !.cancel_origin = "CLIENT"]
<1>3. d.cancel_origin = "CLIENT" /\ Moved(d).next = d
  BY DEF ServerGoalContext, Moved
<1> HIDE DEF d
<1>4. CancelRequestReceived(c) = IF c.state = "EXECUTING" /\ ~c.cancel_decision_pending
                                 THEN Moved(d) ELSE Nop(c)
  BY ZenonT(60) DEF CancelRequestReceived, d
<1> QED
  BY ZenonT(60), <1>1, <1>2, <1>3, <1>4

LEMMA CallsKeepOrigin ==
  ASSUME SystemInv, NEW k \in Connections, NEW g \in Goals, ServerApplication(k, g)
  PROVE  NoRuntimeCancel'
<1>1. /\ goals \in [Connections \X Goals -> ServerGoalContext]
      /\ goals[<<k, g>>] \in ServerGoalContext
  BY ZenonT(60) DEF SystemInv, ServerInv, TablesOK
<1>2. /\ \A l \in Connections : runtime_events[l] = << >>
      /\ \A h \in Connections \X Goals : goals[h].cancel_origin # "RUNTIME"
  BY DEF SystemInv, NoRuntimeCancel
<1>3. NewServerContext.cancel_origin = "NONE" /\ NoServerContext.cancel_origin = "NONE"
  BY ZenonT(60) DEF NewServerContext, NoServerContext
<1>4. \/ UNCHANGED goals
      \/ \E c : goals' = [goals EXCEPT ![<<k, g>>] = c] /\ c.cancel_origin # "RUNTIME"
  <2>1. CASE GoalDecision(k, g)
    BY ZenonT(60), <1>3, <2>1 DEF GoalDecision, AcceptGoal, RejectGoal
  <2>2. ASSUME NEW event \in {"ACCEPT_CANCEL", "REJECT_CANCEL"},
               Transition(k, g, event).kind = "TRANSITIONED",
               goals' = [goals EXCEPT ![<<k, g>>] = Transition(k, g, event).next]
        PROVE  \E c : goals' = [goals EXCEPT ![<<k, g>>] = c] /\ c.cancel_origin # "RUNTIME"
    <3>1. Transition(k, g, event).next.cancel_origin = "NONE"
      BY ZenonT(60), <1>1, <2>2, DecisionMoves DEF Transition
    <3> QED
      BY ZenonT(60), <2>2, <3>1
  <2>3. CASE CancelDecision(k, g)
    BY ZenonT(60), <2>2, <2>3 DEF CancelDecision, AcceptCancel, RejectCancel
  <2>4. ASSUME NEW status \in TerminalStatus, NEW sent, Complete(k, g, status, sent)
        PROVE  \E c : goals' = [goals EXCEPT ![<<k, g>>] = c] /\ c.cancel_origin # "RUNTIME"
    <3>1. Transition(k, g, CompletionEvent(status)).next.cancel_origin = "NONE"
      BY ZenonT(60), <1>1, <2>4, CompletionMoves DEF Complete, Transition
    <3>2. goals' = [goals EXCEPT ![<<k, g>>] = IF sent THEN NoServerContext
                                      ELSE Transition(k, g, CompletionEvent(status)).next]
      BY ZenonT(60), <2>4 DEF Complete
    <3> QED
      BY ZenonT(60), <1>3, <3>1, <3>2
  <2>5. CASE SendFeedback(k, g)
    BY ZenonT(60), <2>5 DEF SendFeedback
  <2> QED
    BY ZenonT(60), <2>1, <2>3, <2>4, <2>5 DEF ServerApplication, Completion
<1>5. UNCHANGED runtime_events
  BY DEF ServerApplication, GoalDecision, CancelDecision, Completion, AcceptGoal, RejectGoal,
         AcceptCancel, RejectCancel, Complete, SendFeedback
<1>6. \A h \in Connections \X Goals : goals'[h].cancel_origin # "RUNTIME"
  BY ZenonT(60), <1>1, <1>2, <1>4
<1> QED
  BY ZenonT(60), <1>2, <1>5, <1>6 DEF NoRuntimeCancel

(* poll() finds no runtime event, and the other two ways it may go. *)
LEMMA PollKeeps ==
  ASSUME SystemInv, NEW k \in Connections, NEW sent \in SendOutcomes, ServerPoll(k, sent),
         UNCHANGED client_bindings
  PROVE  Links' /\ NoRuntimeCancel'
<1>1. ClientInv /\ ServerInv /\ NoRuntimeCancel /\ Links
  BY ZenonT(60) DEF SystemInv
<1>2. /\ goals \in [Connections \X Goals -> ServerGoalContext]
      /\ runtime_events \in [Connections -> Seq(Goals)]
      /\ to_server \in [Connections -> Seq(ToServer)]
  BY ZenonT(60), <1>1 DEF ServerInv, TablesOK, QueuesOK, ActionTransportTypeOK
<1>3. /\ \A l \in Connections : runtime_events[l] = << >>
      /\ \A h \in Connections \X Goals : goals[h].cancel_origin # "RUNTIME"
  BY ZenonT(60), <1>1 DEF NoRuntimeCancel
<1>4. runtime_events' = [runtime_events EXCEPT ![k] = << >>] /\ EndpointPoll(k, sent)
  <2>1. DOMAIN runtime_events[k] = {}
    BY <1>3
  <2> QED
    BY ZenonT(60), <1>3, <2>1 DEF ServerPoll, PollRuntimeEvent, ReportedRuntimeEvents
<1>5. /\ Links'
      /\ PollGoalRequest(k, Head(to_server[k])) \/ PollCancelRequest(k, Head(to_server[k]))
         \/ UNCHANGED <<bindings, slot_owners, goals>>
  BY ZenonT(60), <1>4, TablesFitTogether, EndpointPollLinks
<1>6. \A l \in Connections : runtime_events'[l] = << >>
  BY ZenonT(60), <1>2, <1>3, <1>4
<1> DEFINE g == Head(to_server[k]).goal
<1>7. g \in Goals
  <2>1. to_server[k] # << >>
    BY ZenonT(60), <1>4 DEF EndpointPoll
  <2>2. Head(to_server[k]) \in ToServer
    BY ZenonT(60), <1>2, <2>1, ReceivedType
  <2> QED
    BY ZenonT(60), <2>2 DEF ToServer
<1> HIDE DEF g
<1>8. \/ UNCHANGED goals
      \/ \E c : goals' = [goals EXCEPT ![<<k, g>>] = c] /\ c.cancel_origin # "RUNTIME"
  <2>1. CASE PollCancelRequest(k, Head(to_server[k]))
    <3> DEFINE c == TransitionServerGoal(goals[<<k, g>>], "CANCEL_REQUEST_RECEIVED").next
    <3>1. goals[<<k, g>>] \in ServerGoalContext /\ goals[<<k, g>>].cancel_origin # "RUNTIME"
      BY ZenonT(60), <1>2, <1>3, <1>7
    <3>2. c.cancel_origin # "RUNTIME"
      BY ZenonT(60), <3>1, CancelOriginMoves
    <3>3. goals' = [goals EXCEPT ![<<k, g>>] = c]
      BY ZenonT(60), <2>1 DEF PollCancelRequest, HandleCancelEvent, Transition, g
    <3> QED
      BY ZenonT(60), <3>2, <3>3
  <2>2. CASE ~PollCancelRequest(k, Head(to_server[k]))
    BY ZenonT(60), <1>5, <2>2 DEF PollGoalRequest
  <2> QED
    BY ZenonT(60), <2>1, <2>2
<1>9. \A h \in Connections \X Goals : goals'[h].cancel_origin # "RUNTIME"
  BY ZenonT(60), <1>2, <1>3, <1>8
<1> QED
  BY ZenonT(60), <1>5, <1>6, <1>9 DEF NoRuntimeCancel

LEMMA ServerStepKeeps ==
  ASSUME SystemInv, NEW k \in Connections, ServerStep(k)
  PROVE  SystemInv'
<1>1. ClientInv /\ ServerInv /\ TablesOK /\ QueuesOK
  BY ZenonT(60) DEF SystemInv, ServerInv
<1>2. UNCHANGED <<client_bindings, client_slot_owners, client_goals>>
  BY DEF ServerStep, clientVars
<1>3. OpenServerStep(k)
  BY ZenonT(60) DEF ServerStep, ServerApplication, GoalDecision, CancelDecision, Completion,
         OpenServerStep, Calls
<1>4. TablesOK'
  <2>1. ASSUME NEW g \in Goals, ServerApplication(k, g) PROVE TablesOK'
    <3>1. Calls(k, g)
      BY <2>1 DEF ServerApplication, GoalDecision, CancelDecision, Completion, Calls
    <3> QED
      BY ZenonT(60), <1>1, <3>1, CallsKeepTables
  <2>2. ASSUME NEW sent \in SendOutcomes, ServerPoll(k, sent) PROVE TablesOK'
    BY ZenonT(60), <1>1, <2>2, PollKeepsTables DEF QueuesOK
  <2> QED
    BY ZenonT(60), <2>1, <2>2 DEF ServerStep
<1>5. QueuesOK'
  BY ZenonT(60), <1>1, <1>3, StepKeepsQueues
<1>6. Links' /\ NoRuntimeCancel'
  <2>1. ASSUME NEW g \in Goals, ServerApplication(k, g) PROVE Links' /\ NoRuntimeCancel'
    BY ZenonT(60), <1>2, <2>1, TablesFitTogether, CallsLinks, CallsKeepOrigin
  <2>2. ASSUME NEW sent \in SendOutcomes, ServerPoll(k, sent) PROVE Links' /\ NoRuntimeCancel'
    BY ZenonT(60), <1>2, <2>2, PollKeeps
  <2> QED
    BY ZenonT(60), <2>1, <2>2 DEF ServerStep
<1>7. ClientTablesOK'
  BY <1>1, <1>2 DEF ClientInv, ClientTablesOK, ClientTypeOK, ClientLayersAgree, ClientSlotsOwned
<1>8. ClientInv' /\ ServerInv'
  BY ZenonT(60), <1>4, <1>5, <1>7 DEF ClientInv, ServerInv, QueuesOK
<1> QED
  BY ZenonT(60), <1>6, <1>8 DEF SystemInv

LEMMA SystemInvInitially == Init => SystemInv
<1> SUFFICES ASSUME Init PROVE SystemInv
  BY ZenonT(60)
<1>1. ClientInv
  BY ZenonT(60), ClientInvInitially DEF Init, OpenClientInit
<1>2. ServerInv
  BY ZenonT(60), ServerInvInitially DEF Init, OpenServerInit
<1>3. NoRuntimeCancel
  BY DEF Init, ServerInit, NoRuntimeCancel, NoServerContext, NewServerContext
<1>4. Links
  <2> SUFFICES ASSUME NEW k \in Connections, NEW g \in Goals
               PROVE  Link(g, client_bindings[<<k, g>>], bindings[<<k, g>>],
                           to_server[k], to_client[k])
    BY DEF Links, LinkAll
  <2>1. /\ client_bindings[<<k, g>>] = NoClientBinding /\ bindings[<<k, g>>] = NoBinding
        /\ to_server[k] = << >> /\ to_client[k] = << >>
    BY ZenonT(60) DEF Init, ClientInit, ServerInit, ActionTransportInit
  <2>2. /\ NoClientBinding.state = "NONE" /\ NoBinding.state = "NONE"
        /\ ~NoBinding.cancel_decision_pending
    BY DEF NoClientBinding, NewClientBinding, NoBinding, NewBinding
  <2> QED
    BY ZenonT(60), <2>1, <2>2, NothingLinked
<1> QED
  BY ZenonT(60), <1>1, <1>2, <1>3, <1>4 DEF SystemInv

LEMMA SystemInvHolds == Spec => []SystemInv
<1>1. SystemInv /\ [Next]_vars => SystemInv'
  <2> SUFFICES ASSUME SystemInv, [Next]_vars PROVE SystemInv'
    BY ZenonT(60)
  <2>1. ASSUME NEW k \in Connections, ClientStep(k) PROVE SystemInv'
    BY ZenonT(60), <2>1, ClientStepKeeps
  <2>2. ASSUME NEW k \in Connections, ServerStep(k) PROVE SystemInv'
    BY ZenonT(60), <2>2, ServerStepKeeps
  <2>3. CASE UNCHANGED vars
    <3>1. UNCHANGED <<client_bindings, client_slot_owners, client_goals, bindings, slot_owners,
                      goals, runtime_events, to_server, to_client>>
      BY ZenonT(60), <2>3 DEF vars, clientVars, serverVars
    <3>2. ClientInv'
      BY <3>1 DEF SystemInv, ClientInv, ClientTablesOK, ClientTypeOK, ClientLayersAgree,
                  ClientSlotsOwned, ActionTransportTypeOK
    <3>3. ServerInv'
      BY <3>1 DEF SystemInv, ServerInv, TablesOK, QueuesOK, ServerLayersAgree, ServerSlotsOwned,
                  ActionTransportTypeOK
    <3>4. NoRuntimeCancel' /\ Links'
      BY ZenonT(60), <3>1 DEF SystemInv, NoRuntimeCancel, Links
    <3> QED
      BY ZenonT(60), <3>2, <3>3, <3>4 DEF SystemInv
  <2> QED
    BY ZenonT(60), <2>1, <2>2, <2>3 DEF Next
<1> QED
  BY <1>1, SystemInvInitially, PTL DEF Spec

--------------------------------------------------------------------------------
(* The properties *)

(* Every table and queue of both sides keeps its type. *)
THEOREM SystemTypeCorrect == Spec => []TypeOK
<1>1. SystemInv => TypeOK
  BY TablesFitTogether DEF TablesFit
<1> QED
  BY <1>1, SystemInvHolds, PTL

(* Joined by the connection as well, the tables of each side agree. *)
THEOREM SystemTablesCorrect == Spec => [](ClientTablesAgree /\ ServerTablesAgree)
<1>1. SystemInv => ClientTablesAgree /\ ServerTablesAgree
  BY ZenonT(60), TablesFitTogether DEF TablesFit
<1> QED
  BY <1>1, SystemInvHolds, PTL

(* poll() never rejects a Goal on its own: id and slot of every Goal request on
   the way are free on the server. *)
THEOREM GoalRequestsFresh == Spec => []GoalRequestFindsSlotFree
<1>1. SystemInv => GoalRequestFindsSlotFree
  BY ZenonT(60), TablesFitTogether, RequestIsFresh DEF GoalRequestFindsSlotFree
<1> QED
  BY <1>1, SystemInvHolds, PTL

(* The client's poll() ignores no packet of a Goal it has not given up. *)
THEOREM PacketsMatched == Spec => []NothingIgnored
<1>1. SystemInv => NothingIgnored
  BY ZenonT(60), TablesFitTogether, HeadMatches DEF NothingIgnored
<1> QED
  BY <1>1, SystemInvHolds, PTL

(* The server drops a Cancel request only for a Goal that has its Result. *)
THEOREM CancelsReported == Spec => []CancelDroppedOnlyAfterResult
<1>1. SystemInv => CancelDroppedOnlyAfterResult
  <2> SUFFICES ASSUME SystemInv PROVE CancelDroppedOnlyAfterResult
    OBVIOUS
  <2>1. TablesFit /\ Links
    BY ZenonT(60), TablesFitTogether
  <2>2. ASSUME NEW k \in Connections, to_server[k] # << >>, Head(to_server[k]).kind = "CANCEL"
        PROVE  LET p == Head(to_server[k]) IN
               CancelIsReported(k, p) \/ BindingIn(k, p.goal, {"NONE", "RESULT_COMMITTED"})
    <3> DEFINE p == Head(to_server[k])
               g == p.goal
               c == client_bindings[<<k, g>>]
               s == bindings[<<k, g>>]
               R == Packets(to_client[k], g)
    <3>1. to_server \in [Connections -> Seq(ToServer)]
      BY ZenonT(60), <2>1 DEF TablesFit, TypeOK, ActionTransportTypeOK
    <3>2. p = to_server[k][1] /\ 1 \in DOMAIN to_server[k]
      BY <2>2, <3>1
    <3>3. g \in Goals /\ RequestOK(p, c, s, R)
      BY ZenonT(60), <2>1, <3>2, RequestInQueue
    <3>4. Link(g, c, s, to_server[k], to_client[k]) /\ s \in ActionPacketBinding
      BY ZenonT(60), <2>1, <3>3, LinkTypes
    <3>5. EndsOK(c, s, Packets(to_server[k], g), R)
      BY ZenonT(60), <3>4 DEF Link, Exchange
    <3> HIDE DEF p, c, s, R
    <3>6. \/ s.state = "NONE"
          \/ /\ c.state = "AWAITING_CANCEL_RESPONSE" /\ p.slot = c.slot
             /\ ~s.cancel_decision_pending /\ s.state # "CANCEL_ACCEPTED"
      BY ZenonT(60), <2>2, <3>3 DEF RequestOK, p
    <3>7. s.state # "NONE" => s.slot = c.slot
      BY ZenonT(60), <3>5 DEF EndsOK
    <3>8. s.state = "AWAITING_GOAL_DECISION" => c.state \in Unanswered
      BY ZenonT(60), <3>5 DEF EndsOK
    <3>9. s.state \in {"NONE", "AWAITING_GOAL_DECISION", "GOAL_ACCEPTED", "CANCEL_ACCEPTED",
                       "RESULT_COMMITTED"}
      BY ZenonT(60), <3>4 DEF ActionPacketBinding, PacketBindingState
    <3>10. \/ s.state \in {"NONE", "RESULT_COMMITTED"}
           \/ s.state = "GOAL_ACCEPTED" /\ s.slot = p.slot /\ ~s.cancel_decision_pending
      BY ZenonT(60), <3>6, <3>7, <3>8, <3>9 DEF Unanswered
    <3> QED
      BY ZenonT(60), <3>10 DEF CancelIsReported, BindingIn, p, s
  <2> QED
    BY ZenonT(60), <2>2 DEF CancelDroppedOnlyAfterResult
<1> QED
  BY <1>1, SystemInvHolds, PTL

(* No Goal, cancel or Result disappears between the two sides. *)
THEOREM GoalsAccountedFor == Spec => []GoalNeverLost
<1>1. SystemInv => GoalNeverLost
  <2> SUFFICES ASSUME SystemInv PROVE GoalNeverLost
    OBVIOUS
  <2>1. TablesFit /\ Links
    BY TablesFitTogether
  <2>2. ASSUME NEW k \in Connections, NEW g \in Goals PROVE NotLost(k, g)
    <3> DEFINE c == client_bindings[<<k, g>>]
               s == bindings[<<k, g>>]
               Q == Packets(to_server[k], g)
               R == Packets(to_client[k], g)
    <3>1. /\ Link(g, c, s, to_server[k], to_client[k])
          /\ to_server \in [Connections -> Seq(ToServer)]
          /\ to_client \in [Connections -> Seq(ToClient)]
      BY ZenonT(60), <2>1, LinkTypes
    <3>2. EndsOK(c, s, Q, R)
      BY ZenonT(60), <3>1 DEF Link, Exchange
    <3>3. to_server[k] \in Seq(ToServer) /\ to_client[k] \in Seq(ToClient)
      BY ZenonT(60), <3>1
    <3>4. \A kind : /\ Has(Q, kind) => InQueue(to_server[k], kind, g)
                    /\ Has(R, kind) => InQueue(to_client[k], kind, g)
      BY ZenonT(60), <3>3, PacketQueued
    <3> HIDE DEF Q, R
    <3> QED
      BY <3>2, <3>4 DEF EndsOK, NotLost, ClientBindingIn, Underway
  <2> QED
    BY ZenonT(60), <2>2 DEF GoalNeverLost
<1> QED
  BY <1>1, SystemInvHolds, PTL

(* The server never works for nobody: every Goal it holds is bound on the client,
   on the same slot. *)
THEOREM ServerGoalsKnown == Spec => []ServerGoalKnownToClient
<1>1. SystemInv => ServerGoalKnownToClient
  <2> SUFFICES ASSUME SystemInv PROVE ServerGoalKnownToClient
    OBVIOUS
  <2>1. ASSUME NEW k \in Connections, NEW g \in Goals
        PROVE  EndsOK(client_bindings[<<k, g>>], bindings[<<k, g>>], Packets(to_server[k], g),
                      Packets(to_client[k], g))
    BY ZenonT(60), TablesFitTogether, LinkTypes DEF Link, Exchange
  <2> QED
    BY ZenonT(60), <2>1 DEF ServerGoalKnownToClient, EndsOK
<1> QED
  BY <1>1, SystemInvHolds, PTL
================================================================================
