--------------------------- MODULE ActionServerProofs ---------------------------
(***************************************************************************)
(* The endpoint and the services of an Action server agree about every     *)
(* Goal and every slot, for any number of connections, Goals and slots,    *)
(* whatever packets arrive and whatever calls are made; a disconnect is    *)
(* queued for the application once per Goal, and a committed Result is     *)
(* final.                                                                  *)
(***************************************************************************)
EXTENDS ActionServerOpen, TLAPS

--------------------------------------------------------------------------------
(* transition_server_goal *)

(* The state machine maps contexts to contexts and never leaves the valid ones. *)
LEMMA TransitionCloses ==
  ASSUME NEW c \in ServerGoalContext, NEW event
  PROVE  LET next == TransitionServerGoal(c, event).next IN
         /\ next \in ServerGoalContext
         /\ IsValidServerContext(c) => IsValidServerContext(next)
<1> USE DEF ServerGoalContext, GoalState, CancelOrigin, TerminalStatus, Moved, Nop, Error,
            IsValidServerContext
<1>1. \A status \in TerminalStatus :
         LET next == CompleteServerGoal(c, status).next IN
         next \in ServerGoalContext /\ (IsValidServerContext(c) => IsValidServerContext(next))
  BY DEF CompleteServerGoal, Completions
<1>2. \A state \in {"EXECUTING", "CANCELING"} :
         LET next == DecideCancel(c, state).next IN
         next \in ServerGoalContext /\ (IsValidServerContext(c) => IsValidServerContext(next))
  BY ZenonT(60) DEF DecideCancel
<1>3. LET next == CancelRequestReceived(c).next IN
      next \in ServerGoalContext /\ (IsValidServerContext(c) => IsValidServerContext(next))
  BY ZenonT(60) DEF CancelRequestReceived
<1>4. LET next == RuntimeCancelRequested(c).next IN
      next \in ServerGoalContext /\ (IsValidServerContext(c) => IsValidServerContext(next))
  BY ZenonT(60) DEF RuntimeCancelRequested
<1>5. ASSUME NEW condition PROVE NopIf(condition, c).next = c
  BY DEF NopIf
<1>6. "SUCCEEDED" \in TerminalStatus /\ "CANCELED" \in TerminalStatus /\ "ABORTED" \in TerminalStatus
  OBVIOUS
<1>7. Error(c).next = c
  OBVIOUS
<1> HIDE DEF ServerGoalContext, GoalState, CancelOrigin, TerminalStatus, Moved, Nop, Error,
             IsValidServerContext
<1> DEFINE t == TransitionServerGoal(c, event)
<1>8. \/ t.next = c
      \/ \E status \in TerminalStatus : t = CompleteServerGoal(c, status)
      \/ \E state \in {"EXECUTING", "CANCELING"} : t = DecideCancel(c, state)
      \/ t = CancelRequestReceived(c)
      \/ t = RuntimeCancelRequested(c)
  BY <1>5, <1>6, <1>7, Zenon DEF TransitionServerGoal
<1> HIDE DEF t
<1>9. t.next \in ServerGoalContext /\ (IsValidServerContext(c) => IsValidServerContext(t.next))
  BY <1>1, <1>2, <1>3, <1>4, <1>8, Zenon
<1> QED
  BY <1>9 DEF t

(* A cancel decision: the pending cancel is decided and forgotten. *)
LEMMA DecisionMoves ==
  ASSUME NEW c \in ServerGoalContext, NEW event \in {"ACCEPT_CANCEL", "REJECT_CANCEL"},
         TransitionServerGoal(c, event).kind = "TRANSITIONED"
  PROVE  LET next == TransitionServerGoal(c, event).next IN
         /\ c.state = "EXECUTING"
         /\ next.state = IF event = "ACCEPT_CANCEL" THEN "CANCELING" ELSE "EXECUTING"
         /\ next.cancel_origin = "NONE"
BY DEF TransitionServerGoal, DecideCancel, Moved, Error, ServerGoalContext

(* A cancel request: the Goal keeps its state. *)
LEMMA CancelMoves ==
  ASSUME NEW c \in ServerGoalContext,
         NEW event \in {"CANCEL_REQUEST_RECEIVED", "RUNTIME_CANCEL_REQUESTED"}
  PROVE  LET next == TransitionServerGoal(c, event).next IN
         /\ next.state = c.state
         /\ (event = "RUNTIME_CANCEL_REQUESTED" /\ next.cancel_origin = "CLIENT")
              => c.cancel_origin = "CLIENT"
         /\ ~IsValidServerContext(c) => next = c
BY SMTT(60) DEF TransitionServerGoal, CancelRequestReceived, RuntimeCancelRequested, Moved,
   Nop,
       Error, ServerGoalContext

(* A completion: only a Goal that is not finished can be completed, once. *)
LEMMA CompletionMoves ==
  ASSUME NEW c \in ServerGoalContext, NEW status \in TerminalStatus,
         TransitionServerGoal(c, CompletionEvent(status)).kind = "TRANSITIONED"
  PROVE  LET next == TransitionServerGoal(c, CompletionEvent(status)).next IN
         /\ c.state \in {"EXECUTING", "CANCELING"}
         /\ next.state = "FINISHING"
         /\ next.cancel_origin = "NONE"
BY DEF TransitionServerGoal, CompletionEvent, CompleteServerGoal, Completions,
   TerminalStatus,
       Moved, Error

--------------------------------------------------------------------------------
(* Queues *)

(* The facts about sequences the proofs use. *)
LEMMA EmptyQueue == \A S : << >> \in Seq(S)
OBVIOUS

LEMMA QueueElements ==
  ASSUME NEW S, NEW s \in Seq(S)
  PROVE  /\ Len(s) \in Nat /\ DOMAIN s = 1 .. Len(s)
         /\ \A i \in 1 .. Len(s) : s[i] \in S
OBVIOUS

LEMMA QueueSuffix ==
  ASSUME NEW S, NEW s \in Seq(S), NEW n \in 0 .. Len(s)
  PROVE  /\ SubSeq(s, n + 1, Len(s)) \in Seq(S)
         /\ Len(SubSeq(s, n + 1, Len(s))) = Len(s) - n
         /\ \A i \in 1 .. Len(s) - n : SubSeq(s, n + 1, Len(s))[i] = s[n + i]
OBVIOUS

LEMMA QueueConcat ==
  ASSUME NEW S, NEW s \in Seq(S), NEW t \in Seq(S)
  PROVE  /\ s \o t \in Seq(S)
         /\ Len(s \o t) = Len(s) + Len(t)
         /\ \A i \in 1 .. Len(s) + Len(t) :
               (s \o t)[i] = IF i <= Len(s) THEN s[i] ELSE t[i - Len(s)]
OBVIOUS

LEMMA FunctionIsQueue ==
  ASSUME NEW S, NEW n \in Nat, NEW f \in [1 .. n -> S]
  PROVE  f \in Seq(S)
OBVIOUS

LEMMA SendType ==
  ASSUME NEW S, NEW channel \in [Connections -> Seq(S)], NEW k \in Connections, NEW p \in S
  PROVE  Send(channel, k, p) \in [Connections -> Seq(S)]
BY DEF Send

LEMMA ReceivedType ==
  ASSUME NEW S, NEW channel \in [Connections -> Seq(S)], NEW k \in Connections,
         channel[k] # << >>
  PROVE  /\ Received(channel, k) \in [Connections -> Seq(S)]
         /\ Head(channel[k]) \in S
BY DEF Received

LEMMA ClearedType ==
  ASSUME NEW S, NEW channel \in [Connections -> Seq(S)], NEW k \in Connections,
         NEW n \in 0 .. Len(channel[k])
  PROVE  Cleared(channel, k, n) \in [Connections -> Seq(S)]
<1>1. SubSeq(channel[k], n + 1, Len(channel[k])) \in Seq(S)
  BY QueueSuffix
<1> QED
  BY <1>1 DEF Cleared

(* What the assumptions on the constants say of bindings and packets. *)
LEMMA ServerValueTypes ==
  /\ 0 \in Slots
  /\ \A s \in Slots : NewBinding(s) \in ActionPacketBinding
  /\ NoBinding \in ActionPacketBinding
  /\ NewServerContext \in ServerGoalContext
  /\ NoServerContext \in ServerGoalContext
  /\ \A n \in FeedbackSequence : NextSequence(n) \in FeedbackSequence
  /\ \A kind \in {"GOAL", "CANCEL", "RESULT"}, g \in Goals, s \in Slots,
        status \in Decision \cup TerminalStatus : Response(kind, g, s, status) \in ToClient
  /\ \A g \in Goals, s \in Slots, n \in FeedbackSequence : Feedback(g, s, n) \in ToClient
<1>1. 0 \in Slots /\ 0 \in FeedbackSequence
  BY NumSlotsAssumption, SequenceModulusAssumption DEF Slots, FeedbackSequence
<1>2. \A n \in FeedbackSequence : NextSequence(n) \in FeedbackSequence
  BY SequenceModulusAssumption DEF FeedbackSequence, NextSequence
<1>3. \A s \in Slots : NewBinding(s) \in ActionPacketBinding
  BY <1>1 DEF NewBinding, ActionPacketBinding, PacketBindingState
<1>4. NoBinding \in ActionPacketBinding
  BY ZenonT(60), <1>1 DEF NoBinding, NewBinding, ActionPacketBinding
<1>5. NewServerContext \in ServerGoalContext /\ NoServerContext \in ServerGoalContext
  BY ZenonT(60) DEF NewServerContext, NoServerContext, ServerGoalContext, GoalState,
     CancelOrigin
<1>6. \A kind \in {"GOAL", "CANCEL", "RESULT"}, g \in Goals, s \in Slots,
         status \in Decision \cup TerminalStatus : Response(kind, g, s, status) \in ToClient
  BY <1>1 DEF Response, ToClient
<1>7. \A g \in Goals, s \in Slots, n \in FeedbackSequence : Feedback(g, s, n) \in ToClient
  BY DEF Feedback, ToClient
<1> QED
  BY SMTT(60), <1>1, <1>2, <1>3, <1>4, <1>5, <1>6, <1>7

--------------------------------------------------------------------------------
(* One Goal changes *)

(* The tables of both layers: types, agreement, slot ownership. *)
TablesOK ==
    /\ bindings \in [Connections \X Goals -> ActionPacketBinding]
    /\ slot_owners \in [Connections \X Slots -> Goals \cup {NoGoal}]
    /\ goals \in [Connections \X Goals -> ServerGoalContext]
    /\ ServerLayersAgree
    /\ ServerSlotsOwned

(* Writing an agreeing pair for one Goal keeps the types and the agreement. *)
LEMMA OneGoal ==
  ASSUME TablesOK, NEW h \in Connections \X Goals,
         NEW b \in ActionPacketBinding, NEW c \in ServerGoalContext, ServerAgree(b, c),
         bindings' = [bindings EXCEPT ![h] = b], goals' = [goals EXCEPT ![h] = c]
  PROVE  /\ bindings' \in [Connections \X Goals -> ActionPacketBinding]
         /\ goals' \in [Connections \X Goals -> ServerGoalContext]
         /\ ServerLayersAgree'
<1>1. /\ bindings' \in [Connections \X Goals -> ActionPacketBinding]
      /\ goals' \in [Connections \X Goals -> ServerGoalContext]
  BY DEF TablesOK
<1>2. ASSUME NEW d \in Connections \X Goals
      PROVE  ServerAgree(bindings'[d], goals'[d])
  <2>1. CASE d = h
    BY <2>1 DEF TablesOK
  <2>2. CASE d # h
    BY <2>2 DEF TablesOK, ServerLayersAgree
  <2> QED
    BY <2>1, <2>2
<1> QED
  BY <1>1, <1>2 DEF ServerLayersAgree

(* A Goal moves on and keeps its slot. *)
LEMMA GoalMoves ==
  ASSUME TablesOK, NEW h \in Connections \X Goals,
         NEW b \in ActionPacketBinding, NEW c \in ServerGoalContext, ServerAgree(b, c),
         b.slot = bindings[h].slot, b.state # "NONE", bindings[h].state # "NONE",
         bindings' = [bindings EXCEPT ![h] = b], goals' = [goals EXCEPT ![h] = c],
         UNCHANGED slot_owners
  PROVE  TablesOK'
<1>1. ASSUME NEW k \in Connections, NEW g \in Goals, NEW s \in Slots
      PROVE  slot_owners'[<<k, s>>] = g
                <=> bindings'[<<k, g>>].state # "NONE" /\ bindings'[<<k, g>>].slot = s
  <2>1. slot_owners[<<k, s>>] = g
           <=> bindings[<<k, g>>].state # "NONE" /\ bindings[<<k, g>>].slot = s
    BY DEF TablesOK, ServerSlotsOwned
  <2>2. <<k, g>> \in Connections \X Goals
    OBVIOUS
  <2>3. CASE <<k, g>> = h
    BY SMTT(60), <2>1, <2>2, <2>3 DEF TablesOK
  <2>4. CASE <<k, g>> # h
    BY <2>1, <2>2, <2>4 DEF TablesOK
  <2> QED
    BY SMTT(60), <2>3, <2>4
<1>2. ServerSlotsOwned'
  BY ZenonT(60), <1>1 DEF ServerSlotsOwned
<1> QED
  BY ZenonT(60), <1>2, OneGoal DEF TablesOK

(* A Goal goes: its slot becomes free. *)
LEMMA GoalGoes ==
  ASSUME TablesOK, NEW k \in Connections, NEW g \in Goals,
         bindings[<<k, g>>].state # "NONE", ReleaseBinding(k, g),
         goals' = [goals EXCEPT ![<<k, g>>] = NoServerContext]
  PROVE  TablesOK'
<1> DEFINE h == <<k, g>>
           slot == bindings[h].slot
<1>1. h \in Connections \X Goals /\ slot \in Slots /\ <<k, slot>> \in Connections \X Slots
  BY DEF TablesOK, ActionPacketBinding
<1>2. slot_owners[<<k, slot>>] = g
  BY <1>1 DEF TablesOK, ServerSlotsOwned
<1>3. /\ bindings' = [bindings EXCEPT ![h] = NoBinding]
      /\ slot_owners' = [slot_owners EXCEPT ![<<k, slot>>] = NoGoal]
  BY <1>2 DEF ReleaseBinding
<1>4. slot_owners' \in [Connections \X Slots -> Goals \cup {NoGoal}]
  BY <1>1, <1>3 DEF TablesOK
<1>5. ServerAgree(NoBinding, NoServerContext)
  BY DEF ServerAgree, NoBinding, NewBinding, NoServerContext, NewServerContext
<1>6. ASSUME NEW l \in Connections, NEW x \in Goals, NEW s \in Slots
      PROVE  slot_owners'[<<l, s>>] = x
                <=> bindings'[<<l, x>>].state # "NONE" /\ bindings'[<<l, x>>].slot = s
  <2>1. slot_owners[<<l, s>>] = x
           <=> bindings[<<l, x>>].state # "NONE" /\ bindings[<<l, x>>].slot = s
    BY DEF TablesOK, ServerSlotsOwned
  <2>2. <<l, x>> \in Connections \X Goals /\ <<l, s>> \in Connections \X Slots
    OBVIOUS
  <2>3. CASE l = k /\ x = g
    <3>1. bindings'[<<l, x>>].state = "NONE"
      BY SMTT(60), <1>1, <1>3, <2>3 DEF TablesOK, NoBinding, NewBinding
    <3>2. slot_owners'[<<l, s>>] # g
      BY SMTT(60), <1>1, <1>3, <2>1, <2>2, <2>3, NoGoalAssumption DEF TablesOK
    <3> QED
      BY SMTT(60), <2>3, <3>1, <3>2
  <2>4. CASE ~(l = k /\ x = g)
    <3>1. bindings'[<<l, x>>] = bindings[<<l, x>>]
      BY SMTT(60), <1>1, <1>3, <2>2, <2>4 DEF TablesOK
    <3>2. slot_owners'[<<l, s>>] = x <=> slot_owners[<<l, s>>] = x
      BY SMTT(60), <1>1, <1>2, <1>3, <2>2, <2>4, NoGoalAssumption DEF TablesOK
    <3> QED
      BY SMTT(60), <2>1, <3>1, <3>2
  <2> QED
    BY SMTT(60), <2>3, <2>4
<1>7. ServerSlotsOwned'
  BY ZenonT(60), <1>6 DEF ServerSlotsOwned
<1> HIDE DEF h, slot
<1> QED
  BY ZenonT(60), <1>1, <1>3, <1>4, <1>5, <1>7, OneGoal, ServerValueTypes DEF TablesOK, h

(* A Goal comes: it gets an id and a slot that were free. *)
LEMMA GoalComes ==
  ASSUME TablesOK, NEW k \in Connections, NEW p \in ToServer, PollGoalRequest(k, p)
  PROVE  TablesOK'
<1> DEFINE g == p.goal
           h == <<k, g>>
           b == NewBinding(p.slot)
<1>1. /\ g \in Goals /\ p.slot \in Slots
      /\ h \in Connections \X Goals /\ <<k, p.slot>> \in Connections \X Slots
  BY DEF ToServer
<1>2. /\ bindings[h].state = "NONE" /\ slot_owners[<<k, p.slot>>] = NoGoal
      /\ bindings' = [bindings EXCEPT ![h] = b]
      /\ slot_owners' = [slot_owners EXCEPT ![<<k, p.slot>>] = g]
      /\ goals' = goals
  BY DEF PollGoalRequest
<1>3. slot_owners' \in [Connections \X Slots -> Goals \cup {NoGoal}]
  BY SMTT(60), <1>1, <1>2 DEF TablesOK
<1>4. b.state = "AWAITING_GOAL_DECISION" /\ b.slot = p.slot /\ ~b.cancel_decision_pending
  BY SMTT(60) DEF NewBinding
<1>5. goals[h] = NoServerContext /\ goals' = [goals EXCEPT ![h] = NoServerContext]
  BY SMTT(60), <1>1, <1>2 DEF TablesOK, ServerLayersAgree, ServerAgree, ServerGoalContext,
     GoalState
<1>6. ServerAgree(b, NoServerContext)
  BY SMTT(60), <1>4 DEF ServerAgree, NoServerContext, NewServerContext
<1>7. b \in ActionPacketBinding
  BY SMTT(60), <1>1, ServerValueTypes
<1> HIDE DEF b
<1>8. ASSUME NEW l \in Connections, NEW x \in Goals, NEW s \in Slots
      PROVE  slot_owners'[<<l, s>>] = x
                <=> bindings'[<<l, x>>].state # "NONE" /\ bindings'[<<l, x>>].slot = s
  <2>1. slot_owners[<<l, s>>] = x
           <=> bindings[<<l, x>>].state # "NONE" /\ bindings[<<l, x>>].slot = s
    BY DEF TablesOK, ServerSlotsOwned
  <2>2. <<l, x>> \in Connections \X Goals /\ <<l, s>> \in Connections \X Slots
    OBVIOUS
  <2>3. CASE l = k /\ x = g
    <3>1. bindings'[<<l, x>>] = b
      BY SMTT(60), <1>1, <1>2, <2>3 DEF TablesOK
    <3>2. slot_owners'[<<l, s>>] = g <=> s = p.slot
      BY SMTT(60), <1>1, <1>2, <2>1, <2>2, <2>3 DEF TablesOK
    <3> QED
      BY SMTT(60), <1>4, <2>3, <3>1, <3>2
  <2>4. CASE ~(l = k /\ x = g)
    <3>1. bindings'[<<l, x>>] = bindings[<<l, x>>]
      BY SMTT(60), <1>1, <1>2, <2>2, <2>4 DEF TablesOK
    <3>2. slot_owners'[<<l, s>>] = x <=> slot_owners[<<l, s>>] = x
      BY ZenonT(60), <1>1, <1>2, <2>2, <2>4, NoGoalAssumption DEF TablesOK
    <3> QED
      BY SMTT(60), <2>1, <3>1, <3>2
  <2> QED
    BY SMTT(60), <2>3, <2>4
<1>9. ServerSlotsOwned'
  BY ZenonT(60), <1>8 DEF ServerSlotsOwned
<1> QED
  BY ZenonT(60), <1>1, <1>2, <1>3, <1>5, <1>6, <1>7, <1>9, OneGoal, ServerValueTypes
     DEF TablesOK

--------------------------------------------------------------------------------
(* The actions *)

(* An application call about one Goal keeps the tables. *)
LEMMA CallsKeepTables ==
  ASSUME TablesOK, NEW k \in Connections, NEW g \in Goals, Calls(k, g)
  PROVE  TablesOK'
<1> DEFINE h == <<k, g>>
           b == bindings[h]
           c == goals[h]
<1>1. /\ h \in Connections \X Goals
      /\ b \in ActionPacketBinding /\ c \in ServerGoalContext /\ ServerAgree(b, c)
  BY DEF TablesOK, ServerLayersAgree
<1>2. c.state = "NONE" => goals = [goals EXCEPT ![h] = NoServerContext]
  BY <1>1 DEF ServerAgree, TablesOK
<1> DEFINE Writes(b2, c2) ==
      /\ bindings' = [bindings EXCEPT ![h] = b2]
      /\ goals' = [goals EXCEPT ![h] = c2]
      /\ UNCHANGED slot_owners
<1>3. ASSUME NEW b2 \in ActionPacketBinding, NEW c2 \in ServerGoalContext, Writes(b2, c2),
             ServerAgree(b2, c2), b2.slot = b.slot, b2.state # "NONE", b.state # "NONE"
      PROVE  TablesOK'
  BY ZenonT(60), <1>1, <1>3, GoalMoves
<1>4. CASE AcceptGoal(k, g)
  <2> DEFINE b2 == [b EXCEPT !.state = "GOAL_ACCEPTED"]
  <2>1. Writes(b2, NewServerContext) /\ b.state = "AWAITING_GOAL_DECISION"
    BY <1>4 DEF AcceptGoal, EndpointAcceptGoal, BindingIn
  <2>2. /\ b2 \in ActionPacketBinding /\ b2.slot = b.slot /\ b2.state = "GOAL_ACCEPTED"
        /\ b2.cancel_decision_pending = b.cancel_decision_pending
    BY SMTT(60), <1>1 DEF ActionPacketBinding, PacketBindingState
  <2>3. ServerAgree(b2, NewServerContext)
    BY SMTT(60), <1>1, <2>1, <2>2 DEF ServerAgree, NewServerContext, IsValidServerContext,
       GoalState
  <2> QED
    BY ZenonT(60), <1>3, <2>1, <2>2, <2>3, ServerValueTypes
<1>5. CASE RejectGoal(k, g) \/ DiscardPendingGoal(k, g)
  <2>1. /\ ReleaseBinding(k, g) /\ b.state # "NONE" /\ c.state = "NONE"
        /\ goals' = goals
    BY SMTT(60), <1>5 DEF RejectGoal, EndpointRejectGoal, DiscardPendingGoal,
                EndpointDiscardPendingGoal, BindingIn, HasGoal
  <2> QED
    BY SMTT(60), <1>2, <2>1, GoalGoes
<1>6. CASE AcceptCancel(k, g)
  <2> DEFINE t == TransitionServerGoal(c, "ACCEPT_CANCEL")
             b2 == [b EXCEPT !.state = "CANCEL_ACCEPTED", !.cancel_decision_pending = FALSE]
  <2>1. /\ Writes(b2, t.next) /\ b.state = "GOAL_ACCEPTED" /\ t.kind = "TRANSITIONED"
    BY ZenonT(60), <1>6 DEF AcceptCancel, EndpointAcceptCancel, EndpointAcceptCancelLocally,
                BindingIn, Transition
  <2>2. /\ b2 \in ActionPacketBinding /\ b2.slot = b.slot /\ b2.state = "CANCEL_ACCEPTED"
        /\ b2.cancel_decision_pending = FALSE
    BY ZenonT(60), <1>1 DEF ActionPacketBinding, PacketBindingState
  <2>3. /\ t.next \in ServerGoalContext /\ c.state = "EXECUTING"
        /\ IsValidServerContext(c) => IsValidServerContext(t.next)
        /\ t.next.state = "CANCELING" /\ t.next.cancel_origin = "NONE"
    BY ZenonT(60), <1>1, <2>1, TransitionCloses, DecisionMoves
  <2> HIDE DEF t, b2
  <2>4. ServerAgree(b2, t.next)
    BY SMTT(60), <1>1, <2>2, <2>3 DEF ServerAgree
  <2> QED
    BY ZenonT(60), <1>3, <2>1, <2>2, <2>3, <2>4
<1>7. CASE RejectCancel(k, g)
  <2> DEFINE t == TransitionServerGoal(c, "REJECT_CANCEL")
             b2 == [b EXCEPT !.cancel_decision_pending = FALSE]
  <2>1. t.kind = "TRANSITIONED"
    BY SMTT(60), <1>7 DEF RejectCancel, EndpointRejectCancel, Transition
  <2>2. /\ t.next \in ServerGoalContext /\ c.state = "EXECUTING"
        /\ IsValidServerContext(c) => IsValidServerContext(t.next)
        /\ t.next.state = "EXECUTING" /\ t.next.cancel_origin = "NONE"
    BY SMTT(60), <1>1, <2>1, TransitionCloses, DecisionMoves
  <2>3. Writes(b2, t.next) \/ Writes(b, t.next)
    BY SMTT(60), <1>1, <1>7 DEF RejectCancel, EndpointRejectCancel, Transition, TablesOK
  <2>4. /\ b2 \in ActionPacketBinding /\ b2.slot = b.slot /\ b2.state = b.state
        /\ b2.cancel_decision_pending = FALSE
    BY ZenonT(60), <1>1 DEF ActionPacketBinding
  <2>5. b.state = "GOAL_ACCEPTED"
    BY SMTT(60), <1>1, <2>2 DEF ServerAgree
  <2> HIDE DEF t, b2
  <2>6. ServerAgree(b2, t.next) /\ ServerAgree(b, t.next)
    BY SMTT(60), <1>1, <2>2, <2>4, <2>5 DEF ServerAgree
  <2> QED
    BY SMTT(60), <1>1, <1>3, <2>2, <2>3, <2>4, <2>5, <2>6
<1>8. CASE SendFeedback(k, g)
  <2> DEFINE b2 == [b EXCEPT !.next_feedback_sequence = NextSequence(@)]
  <2>1. Writes(b2, c) /\ b.state # "NONE"
    BY <1>1, <1>8 DEF SendFeedback, EndpointSendFeedback, BindingIn, TablesOK
  <2>2. /\ b2 \in ActionPacketBinding /\ b2.slot = b.slot /\ b2.state = b.state
        /\ b2.cancel_decision_pending = b.cancel_decision_pending
    BY SMTT(60), <1>1, ServerValueTypes DEF ActionPacketBinding
  <2> HIDE DEF b2
  <2>3. ServerAgree(b2, c)
    BY ZenonT(60), <1>1, <2>2 DEF ServerAgree
  <2> QED
    BY ZenonT(60), <1>1, <1>3, <2>1, <2>2, <2>3
<1>9. ASSUME NEW status \in TerminalStatus, NEW sent \in SendOutcomes,
             Complete(k, g, status, sent)
      PROVE  TablesOK'
  <2> DEFINE t == TransitionServerGoal(c, CompletionEvent(status))
             b2 == [b EXCEPT !.state = "RESULT_COMMITTED", !.cancel_decision_pending = FALSE]
  <2>1. /\ t.kind = "TRANSITIONED" /\ b.state # "NONE"
        /\ \/ ReleaseBinding(k, g) /\ goals' = [goals EXCEPT ![h] = NoServerContext]
           \/ Writes(b2, t.next)
    BY ZenonT(60), <1>9 DEF Complete, EndpointComplete, Transition, ValidTerminal, BindingIn
  <2>2. /\ t.next \in ServerGoalContext
        /\ c.state \in {"EXECUTING", "CANCELING"}
        /\ IsValidServerContext(c) => IsValidServerContext(t.next)
        /\ t.next.state = "FINISHING" /\ t.next.cancel_origin = "NONE"
    BY SMTT(60), <1>1, <2>1, TransitionCloses, CompletionMoves
  <2>3. /\ b2 \in ActionPacketBinding /\ b2.slot = b.slot /\ b2.state = "RESULT_COMMITTED"
        /\ b2.cancel_decision_pending = FALSE
    BY ZenonT(60), <1>1 DEF ActionPacketBinding, PacketBindingState
  <2> HIDE DEF t, b2
  <2>4. ServerAgree(b2, t.next)
    BY SMTT(60), <1>1, <2>2, <2>3 DEF ServerAgree
  <2> QED
    BY SMTT(60), <1>3, <2>1, <2>2, <2>3, <2>4, GoalGoes
<1>10. ASSUME NEW status \in TerminalStatus, CompleteLocally(k, g, status)
       PROVE  TablesOK'
  <2>1. /\ ReleaseBinding(k, g) /\ b.state # "NONE"
        /\ goals' = [goals EXCEPT ![h] = NoServerContext]
    BY SMTT(60), <1>10 DEF CompleteLocally, MayCompleteLocally, ValidTerminal,
       BindingIn
  <2> QED
    BY ZenonT(60), <2>1, GoalGoes
<1> QED
  BY SMTT(60), <1>4, <1>5, <1>6, <1>7, <1>8, <1>9, <1>10 DEF Calls

(* poll() keeps the tables, whatever packet or runtime event it takes. *)
LEMMA PollKeepsTables ==
  ASSUME TablesOK, ActionTransportTypeOK, runtime_events \in [Connections -> Seq(Goals)],
         NEW k \in Connections, NEW sent \in SendOutcomes, ServerPoll(k, sent)
  PROVE  TablesOK'
<1> DEFINE Cancel(g, event) ==
      goals' = [goals EXCEPT ![<<k, g>>] = TransitionServerGoal(goals[<<k, g>>], event).next]
<1>1. ASSUME NEW g \in Goals, Cancel(g, "RUNTIME_CANCEL_REQUESTED"),
             UNCHANGED <<bindings, slot_owners>>
      PROVE  TablesOK'
  <2> DEFINE h == <<k, g>>
             c == goals[h]
             next == TransitionServerGoal(c, "RUNTIME_CANCEL_REQUESTED").next
  <2>1. /\ h \in Connections \X Goals /\ c \in ServerGoalContext
        /\ bindings[h] \in ActionPacketBinding /\ ServerAgree(bindings[h], c)
    BY ZenonT(60) DEF TablesOK, ServerLayersAgree
  <2>2. /\ next \in ServerGoalContext /\ next.state = c.state
        /\ IsValidServerContext(c) => IsValidServerContext(next)
        /\ next.cancel_origin = "CLIENT" => c.cancel_origin = "CLIENT"
        /\ ~IsValidServerContext(c) => next = c
    BY SMTT(60), <2>1, TransitionCloses, CancelMoves
  <2>3. goals' = [goals EXCEPT ![h] = next] /\ bindings' = [bindings EXCEPT ![h] = bindings[h]]
    BY ZenonT(60), <1>1, <2>1 DEF TablesOK
  <2> HIDE DEF next, h
  <2>4. c.state = "NONE" => next = c
    BY SMTT(60), <2>2 DEF IsValidServerContext, GoalState
  <2>5. ServerAgree(bindings[h], next)
    BY SMTT(60), <2>1, <2>2, <2>4 DEF ServerAgree
  <2>6. ServerLayersAgree' /\ goals' \in [Connections \X Goals -> ServerGoalContext]
    BY ZenonT(60), <2>1, <2>2, <2>3, <2>5, OneGoal
  <2> QED
    BY SMTT(60), <1>1, <2>6 DEF TablesOK, ServerSlotsOwned
<1>2. CASE PollRuntimeEvent(k)
  <2>1. PICK i \in DOMAIN runtime_events[k] : Cancel(runtime_events[k][i], "RUNTIME_CANCEL_REQUESTED")
    BY ZenonT(60), <1>2 DEF PollRuntimeEvent, HandleCancelEvent, ReportedRuntimeEvents,
       Transition
  <2>2. runtime_events[k][i] \in Goals
    BY ZenonT(60), <2>1, QueueElements
  <2> QED
    BY ZenonT(60), <1>1, <1>2, <2>1, <2>2 DEF PollRuntimeEvent, HandleCancelEvent
<1>3. CASE EndpointPoll(k, sent)
  <2> DEFINE p == Head(to_server[k])
  <2>1. p \in ToServer
    BY <1>3, ReceivedType DEF EndpointPoll, ActionTransportTypeOK
  <2>2. CASE PollCancelRequest(k, p)
    <3> DEFINE h == <<k, p.goal>>
               b == bindings[h]
               c == goals[h]
               b2 == [b EXCEPT !.cancel_decision_pending = TRUE]
               next == TransitionServerGoal(c, "CANCEL_REQUEST_RECEIVED").next
    <3>1. /\ h \in Connections \X Goals /\ c \in ServerGoalContext
          /\ b \in ActionPacketBinding /\ ServerAgree(b, c)
      BY SMTT(60), <2>1 DEF ToServer, TablesOK, ServerLayersAgree
    <3>2. /\ b.state = "GOAL_ACCEPTED" /\ UNCHANGED slot_owners
          /\ bindings' = [bindings EXCEPT ![h] = b2] /\ goals' = [goals EXCEPT ![h] = next]
      BY <2>2 DEF PollCancelRequest, HandleCancelEvent, CancelIsReported, BindingIn,
         Transition
    <3>3. /\ b2 \in ActionPacketBinding /\ b2.slot = b.slot /\ b2.state = b.state
          /\ b2.cancel_decision_pending = TRUE
      BY ZenonT(60), <3>1 DEF ActionPacketBinding
    <3>4. /\ next \in ServerGoalContext /\ next.state = c.state
          /\ IsValidServerContext(c) => IsValidServerContext(next)
      BY SMTT(60), <3>1, TransitionCloses, CancelMoves
    <3> HIDE DEF next, b2, h
    <3>5. ServerAgree(b2, next)
      BY ZenonT(60), <3>1, <3>2, <3>3, <3>4 DEF ServerAgree
    <3> QED
      BY ZenonT(60), <3>1, <3>2, <3>3, <3>4, <3>5, GoalMoves
  <2>3. CASE PollDropped(k, p) \/ PollGoalRefused(k, p, sent)
    BY <2>3 DEF PollDropped, PollGoalRefused, TablesOK, ServerLayersAgree, ServerSlotsOwned
  <2>4. CASE PollGoalRequest(k, p)
    BY SMTT(60), <2>1, <2>4, GoalComes
  <2> QED
    BY SMTT(60), <1>3, <2>2, <2>3, <2>4 DEF EndpointPoll
<1>4. CASE UNCHANGED <<bindings, slot_owners, goals>>
  BY SMTT(60), <1>4 DEF TablesOK, ServerLayersAgree, ServerSlotsOwned
<1> QED
  BY SMTT(60), <1>2, <1>3, <1>4 DEF ServerPoll

(* clear_all_instances empties the tables of one connection. *)
LEMMA ClearKeepsTables ==
  ASSUME TablesOK, NEW k \in Connections, NEW n, ClearAllInstances(k, n)
  PROVE  TablesOK'
<1>1. /\ bindings' \in [Connections \X Goals -> ActionPacketBinding]
      /\ slot_owners' \in [Connections \X Slots -> Goals \cup {NoGoal}]
      /\ goals' \in [Connections \X Goals -> ServerGoalContext]
  BY ServerValueTypes DEF TablesOK, ClearAllInstances
<1>2. ServerAgree(NoBinding, NoServerContext)
  BY SMTT(60) DEF ServerAgree, NoBinding, NewBinding, NoServerContext, NewServerContext
<1>3. ServerLayersAgree'
  BY SMTT(60), <1>2 DEF TablesOK, ClearAllInstances, ServerLayersAgree
<1>4. ASSUME NEW l \in Connections, NEW g \in Goals, NEW s \in Slots
      PROVE  slot_owners'[<<l, s>>] = g
                <=> bindings'[<<l, g>>].state # "NONE" /\ bindings'[<<l, g>>].slot = s
  <2>1. slot_owners[<<l, s>>] = g
           <=> bindings[<<l, g>>].state # "NONE" /\ bindings[<<l, g>>].slot = s
    BY SMTT(60) DEF TablesOK, ServerSlotsOwned
  <2>2. /\ bindings'[<<l, g>>] = IF l = k THEN NoBinding ELSE bindings[<<l, g>>]
        /\ slot_owners'[<<l, s>>] = IF l = k THEN NoGoal ELSE slot_owners[<<l, s>>]
    BY DEF ClearAllInstances
  <2>3. NoBinding.state = "NONE"
    BY DEF NoBinding, NewBinding
  <2> QED
    BY ZenonT(60), <2>1, <2>2, <2>3, NoGoalAssumption
<1>5. ServerSlotsOwned'
  BY ZenonT(60), <1>4 DEF ServerSlotsOwned
<1> QED
  BY ZenonT(60), <1>1, <1>3, <1>5 DEF TablesOK

--------------------------------------------------------------------------------
(* The queues *)

QueuesOK == ActionTransportTypeOK /\ runtime_events \in [Connections -> Seq(Goals)]

(* No Goal twice in a sequence. *)
Distinct(s) == \A i, j \in DOMAIN s : s[i] = s[j] => i = j

(* A sequence that lists a set of Goals once repeats nothing. *)
LEMMA OrderingsDistinct ==
  ASSUME NEW S \in SUBSET Goals, NEW f \in Orderings(S)
  PROVE  /\ f \in Seq(Goals)
         /\ Distinct(f)
         /\ \A i \in DOMAIN f : f[i] \in S
<1>1. PICK n \in 0 .. Cardinality(Goals) : f \in [1 .. n -> S]
  BY DEF Orderings
<1>2. \A x \in S : \E i \in DOMAIN f : f[i] = x /\ \A j \in DOMAIN f : f[j] = x => j = i
  BY DEF Orderings
<1>3. n \in Nat
  BY SMTT(60)
<1>4. f \in Seq(Goals)
  BY SMTT(60), <1>1, <1>3, FunctionIsQueue
<1>5. Distinct(f)
  BY SMTT(60), <1>1, <1>2 DEF Distinct
<1> QED
  BY SMTT(60), <1>1, <1>4, <1>5

(* Every action keeps the queues well-typed. *)
LEMMA StepKeepsQueues ==
  ASSUME TablesOK, QueuesOK, NEW k \in Connections, OpenServerStep(k)
  PROVE  QueuesOK'
<1> USE DEF QueuesOK, ActionTransportTypeOK
<1>1. [runtime_events EXCEPT ![k] = << >>] \in [Connections -> Seq(Goals)]
  BY EmptyQueue
<1>2. \A g \in Goals : bindings[<<k, g>>].slot \in Slots
                       /\ bindings[<<k, g>>].next_feedback_sequence \in FeedbackSequence
  BY ZenonT(60) DEF TablesOK, ActionPacketBinding
<1>3. ASSUME NEW g \in Goals, NEW kind \in {"GOAL", "CANCEL", "RESULT"},
             NEW status \in Decision \cup TerminalStatus, SendResponse(k, g, kind, status)
      PROVE  to_client' \in [Connections -> Seq(ToClient)]
  <2> DEFINE p == Response(kind, g, bindings[<<k, g>>].slot, status)
  <2>1. p \in ToClient
    BY ZenonT(60), <1>2, ServerValueTypes
  <2>2. to_client' = Send(to_client, k, p)
    BY SMTT(60), <1>3 DEF SendResponse
  <2> HIDE DEF p
  <2> QED
    BY ZenonT(60), <2>1, <2>2, SendType
<1>4. ASSUME NEW g \in Goals, Calls(k, g)
      PROVE  QueuesOK'
  <2>1. UNCHANGED <<runtime_events, to_server>>
    BY <1>4 DEF Calls, AcceptGoal, EndpointAcceptGoal, RejectGoal, EndpointRejectGoal,
                AcceptCancel, EndpointAcceptCancel, EndpointAcceptCancelLocally,
                RejectCancel, EndpointRejectCancel, SendFeedback, EndpointSendFeedback,
                Complete, EndpointComplete, CompleteLocally,
                DiscardPendingGoal, EndpointDiscardPendingGoal
  <2>2. CASE SendFeedback(k, g)
    BY ZenonT(60), <1>2, <2>1, <2>2, ServerValueTypes, SendType DEF SendFeedback,
                                                        EndpointSendFeedback
  <2>3. CASE ~SendFeedback(k, g)
    <3>1. \/ UNCHANGED to_client
          \/ \E kind \in {"GOAL", "CANCEL", "RESULT"}, status \in Decision \cup TerminalStatus :
                SendResponse(k, g, kind, status)
      BY SMTT(60), <1>4, <2>3 DEF Calls, AcceptGoal, EndpointAcceptGoal, RejectGoal,
                        EndpointRejectGoal, AcceptCancel, EndpointAcceptCancel,
                        EndpointAcceptCancelLocally, RejectCancel,
                        EndpointRejectCancel, Complete, EndpointComplete,
                        CompleteLocally, DiscardPendingGoal,
                        EndpointDiscardPendingGoal, Decision
    <3> QED
      BY SMTT(60), <1>3, <2>1, <3>1
  <2> QED
    BY SMTT(60), <2>2, <2>3
<1>5. ASSUME NEW sent \in SendOutcomes, ServerPoll(k, sent)
      PROVE  QueuesOK'
  <2>1. CASE PollRuntimeEvent(k)
    <3>1. PICK i \in DOMAIN runtime_events[k] : runtime_events' = Cleared(runtime_events, k, i)
      BY SMTT(60), <2>1 DEF PollRuntimeEvent, HandleCancelEvent, ReportedRuntimeEvents
    <3>2. i \in 0 .. Len(runtime_events[k])
      BY SMTT(60), <3>1, QueueElements
    <3> QED
      BY ZenonT(60), <2>1, <3>1, <3>2, ClearedType DEF PollRuntimeEvent, HandleCancelEvent
  <2>2. CASE EndpointPoll(k, sent) /\ runtime_events' = [runtime_events EXCEPT ![k] = << >>]
    <3> DEFINE p == Head(to_server[k])
    <3>1. to_server' \in [Connections -> Seq(ToServer)] /\ p \in ToServer
      BY ZenonT(60), <2>2, ReceivedType DEF EndpointPoll
    <3>2. \/ UNCHANGED to_client
          \/ to_client' = Send(to_client, k, Response("GOAL", p.goal, p.slot, "REJECTED"))
      BY ZenonT(60), <2>2 DEF EndpointPoll, PollCancelRequest, HandleCancelEvent,
         PollDropped, PollGoalRefused, PollGoalRequest
    <3>3. Response("GOAL", p.goal, p.slot, "REJECTED") \in ToClient
      BY SMTT(60), <3>1, ServerValueTypes DEF ToServer, Decision
    <3> DEFINE r == Response("GOAL", p.goal, p.slot, "REJECTED")
    <3>4. to_client' = to_client \/ to_client' = Send(to_client, k, r)
      BY SMTT(60), <3>2
    <3>5. r \in ToClient
      BY SMTT(60), <3>3
    <3> HIDE DEF r, p
    <3>6. to_client' \in [Connections -> Seq(ToClient)]
      <4>1. Send(to_client, k, r) \in [Connections -> Seq(ToClient)]
        BY ZenonT(60), <3>5, SendType
      <4> QED
        BY <3>4, <4>1
    <3> QED
      BY ZenonT(60), <1>1, <2>2, <3>1, <3>6
  <2> QED
    BY ZenonT(60), <1>1, <1>5, <2>1, <2>2 DEF ServerPoll
<1>6. CASE NotifyTransportDisconnected(k)
  <2> DEFINE S == {g \in Goals : HasGoal(k, g) /\ ~IsQueued(k, g)}
  <2>1. PICK f \in Orderings(S) : runtime_events' = [runtime_events EXCEPT ![k] = @ \o f]
    BY ZenonT(60), <1>6 DEF NotifyTransportDisconnected
  <2>2. f \in Seq(Goals)
    BY ZenonT(60), OrderingsDistinct
  <2>3. runtime_events[k] \o f \in Seq(Goals)
    BY <2>2, QueueConcat
  <2> QED
    BY ZenonT(60), <1>6, <2>1, <2>3 DEF NotifyTransportDisconnected
<1>7. ASSUME NEW n \in 0 .. Len(to_server[k]),
             StopAllServices(k, n) \/ ClearAllInstances(k, n)
      PROVE  QueuesOK'
  <2>1. /\ to_server' = Cleared(to_server, k, n) /\ UNCHANGED to_client
        /\ runtime_events' = [runtime_events EXCEPT ![k] = << >>]
    BY <1>7 DEF StopAllServices, ClearAllInstances
  <2>2. to_server' \in [Connections -> Seq(ToServer)]
    BY ZenonT(60), <2>1, ClearedType
  <2> QED
    BY ZenonT(60), <1>1, <2>1, <2>2
<1> QED
  BY SMTT(60), <1>4, <1>5, <1>6, <1>7 DEF OpenServerStep

--------------------------------------------------------------------------------
(* The theorems *)

(* The inductive invariant. *)
ServerInv == TablesOK /\ QueuesOK

LEMMA ServerInvInductive ==
  ServerInv /\ [OpenServerNext]_openServerVars => ServerInv'
<1> SUFFICES ASSUME ServerInv, [OpenServerNext]_openServerVars
             PROVE  ServerInv'
  OBVIOUS
<1> USE DEF ServerInv
<1>1. CASE UNCHANGED serverVars
  <2>1. TablesOK' /\ runtime_events' = runtime_events
    BY <1>1 DEF serverVars, TablesOK, ServerLayersAgree, ServerSlotsOwned
  <2>2. ASSUME NEW k \in Connections, NEW p \in ToServer, RequestArrives(k, p)
        PROVE  QueuesOK'
    BY ZenonT(60), <2>1, <2>2, SendType DEF RequestArrives, QueuesOK, ActionTransportTypeOK
  <2>3. ASSUME NEW k \in Connections, ResponseDeparts(k)
        PROVE  QueuesOK'
    BY ZenonT(60), <2>1, <2>3, ReceivedType DEF ResponseDeparts, QueuesOK,
       ActionTransportTypeOK
  <2>4. ASSUME NEW k \in Connections, OpenServerStep(k)
        PROVE  QueuesOK'
    BY SMTT(60), <2>4, StepKeepsQueues
  <2>5. CASE UNCHANGED openServerVars
    BY SMTT(60), <2>1, <2>5 DEF openServerVars, QueuesOK, ActionTransportTypeOK
  <2> QED
    BY SMTT(60), <2>1, <2>2, <2>3, <2>4, <2>5 DEF OpenServerNext
<1>2. ASSUME NEW k \in Connections, OpenServerStep(k)
      PROVE  ServerInv'
  <2>1. QueuesOK'
    BY <1>2, StepKeepsQueues
  <2>2. ASSUME NEW sent \in SendOutcomes, ServerPoll(k, sent) PROVE TablesOK'
    BY SMTT(60), <2>2, PollKeepsTables DEF QueuesOK
  <2>3. ASSUME NEW g \in Goals, Calls(k, g) PROVE TablesOK'
    BY SMTT(60), <2>3, CallsKeepTables
  <2>4. CASE UNCHANGED <<bindings, slot_owners, goals>>
    BY SMTT(60), <2>1, <2>4 DEF TablesOK, ServerLayersAgree, ServerSlotsOwned
  <2>5. ASSUME NEW n, ClearAllInstances(k, n) PROVE TablesOK'
    BY SMTT(60), <2>5, ClearKeepsTables
  <2>6. CASE NotifyTransportDisconnected(k)
    BY SMTT(60), <2>1, <2>4, <2>6 DEF NotifyTransportDisconnected
  <2>7. ASSUME NEW n, StopAllServices(k, n) PROVE TablesOK'
    BY SMTT(60), <2>4, <2>7 DEF StopAllServices
  <2> QED
    BY SMTT(60), <1>2, <2>1, <2>2, <2>3, <2>5, <2>6, <2>7 DEF OpenServerStep
<1> QED
  BY SMTT(60), <1>1, <1>2 DEF OpenServerNext, RequestArrives, ResponseDeparts,
     openServerVars, serverVars

LEMMA ServerInvInitially == OpenServerInit => ServerInv
<1> SUFFICES ASSUME OpenServerInit PROVE ServerInv
  BY SMTT(60)
<1> USE DEF OpenServerInit, ServerInit
<1>1. /\ bindings \in [Connections \X Goals -> ActionPacketBinding]
      /\ slot_owners \in [Connections \X Slots -> Goals \cup {NoGoal}]
      /\ goals \in [Connections \X Goals -> ServerGoalContext]
  BY ServerValueTypes
<1>2. ServerLayersAgree
  BY SMTT(60) DEF ServerLayersAgree, ServerAgree, NoBinding, NewBinding, NoServerContext,
     NewServerContext
<1>3. ServerSlotsOwned
  BY SMTT(60), NoGoalAssumption DEF ServerSlotsOwned, NoBinding, NewBinding
<1>4. QueuesOK
  BY EmptyQueue DEF QueuesOK, ActionTransportTypeOK, ActionTransportInit
<1> QED
  BY SMTT(60), <1>1, <1>2, <1>3, <1>4 DEF ServerInv, TablesOK

LEMMA ServerInvHolds == OpenServerSpec => []ServerInv
BY ServerInvInitially, ServerInvInductive, PTL DEF OpenServerSpec

(* The tables and queues of an Action server keep their types. *)
THEOREM ServerTypeCorrect == OpenServerSpec => []OpenServerTypeOK
<1>1. ServerInv => OpenServerTypeOK
  BY DEF ServerInv, TablesOK, QueuesOK, OpenServerTypeOK, ServerTypeOK
<1> QED
  BY <1>1, ServerInvHolds, PTL

(* The endpoint's binding, the slot table and the services' GoalInstance always
   agree: no call, packet, disconnect or reset leaves a Goal neither layer can
   finish, and no slot is shared by two Goals or leaks. *)
THEOREM ServerTablesCorrect == OpenServerSpec => []ServerTablesAgree
<1>1. ServerInv => ServerTablesAgree
  BY ZenonT(60) DEF ServerInv, TablesOK, ServerTablesAgree
<1> QED
  BY <1>1, ServerInvHolds, PTL

--------------------------------------------------------------------------------
(* Disconnects and committed Results *)

(* The queue of runtime events of a connection is emptied, loses a front part,
   or gets Goals it did not hold, each once; the other queues stay. *)
LEMMA RuntimeQueueSteps ==
  ASSUME ServerInv, RuntimeCancelQueuedOnce, NEW k \in Connections, OpenServerStep(k)
  PROVE  RuntimeCancelQueuedOnce'
<1> DEFINE q == runtime_events[k]
<1>1. /\ q \in Seq(Goals) /\ Len(q) \in Nat /\ DOMAIN q = 1 .. Len(q) /\ Distinct(q)
      /\ runtime_events \in [Connections -> Seq(Goals)]
  BY QueueElements DEF ServerInv, QueuesOK, RuntimeCancelQueuedOnce, Distinct
<1>2. ASSUME NEW r, Distinct(r), runtime_events' = [runtime_events EXCEPT ![k] = r]
      PROVE  RuntimeCancelQueuedOnce'
  <2>1. \A l \in Connections : runtime_events'[l] = IF l = k THEN r ELSE runtime_events[l]
    BY <1>1, <1>2
  <2> QED
    BY <1>2, <2>1 DEF RuntimeCancelQueuedOnce, Distinct
<1>3. CASE UNCHANGED runtime_events
  BY <1>3 DEF RuntimeCancelQueuedOnce
<1>4. CASE runtime_events' = [runtime_events EXCEPT ![k] = << >>]
  <2>1. Distinct(<< >>)
    BY DEF Distinct
  <2> QED
    BY ZenonT(60), <1>2, <1>4, <2>1
<1>5. CASE PollRuntimeEvent(k)
  <2>1. PICK i \in DOMAIN q : runtime_events' = Cleared(runtime_events, k, i)
    BY <1>5 DEF PollRuntimeEvent, HandleCancelEvent, ReportedRuntimeEvents
  <2> DEFINE r == SubSeq(q, i + 1, Len(q))
  <2>2. i \in 1 .. Len(q) /\ i \in 0 .. Len(q)
    BY SMTT(60), <1>1, <2>1
  <2>3. /\ r \in Seq(Goals) /\ Len(r) = Len(q) - i
        /\ \A j \in 1 .. Len(q) - i : r[j] = q[i + j]
    BY ZenonT(60), <1>1, <2>2, QueueSuffix
  <2> HIDE DEF r
  <2>4. DOMAIN r = 1 .. Len(q) - i
    BY <2>3, QueueElements
  <2>5. \A j \in DOMAIN r : i + j \in DOMAIN q /\ r[j] = q[i + j]
    BY SMTT(60), <1>1, <2>2, <2>3, <2>4
  <2>6. \A j, l \in DOMAIN r : i + j = i + l => j = l
    BY SMTT(60), <1>1, <2>2, <2>4
  <2>7. Distinct(r)
    BY SMTT(60), <1>1, <2>5, <2>6 DEF Distinct
  <2>8. runtime_events' = [runtime_events EXCEPT ![k] = r]
    BY <2>1 DEF Cleared, r
  <2> QED
    BY ZenonT(60), <1>2, <2>7, <2>8
<1>6. CASE NotifyTransportDisconnected(k)
  <2> DEFINE S == {g \in Goals : HasGoal(k, g) /\ ~IsQueued(k, g)}
  <2>1. PICK f \in Orderings(S) : runtime_events' = [runtime_events EXCEPT ![k] = @ \o f]
    BY ZenonT(60), <1>6 DEF NotifyTransportDisconnected
  <2>2. /\ f \in Seq(Goals) /\ Distinct(f) /\ \A i \in DOMAIN f : f[i] \in S
        /\ Len(f) \in Nat /\ DOMAIN f = 1 .. Len(f)
    BY ZenonT(60), OrderingsDistinct, QueueElements
  <2>3. \A i \in DOMAIN q, j \in DOMAIN f : q[i] # f[j]
    BY <2>2 DEF IsQueued
  <2> DEFINE r == q \o f
  <2>4. /\ r \in Seq(Goals) /\ Len(r) = Len(q) + Len(f)
        /\ \A i \in 1 .. Len(q) + Len(f) : r[i] = IF i <= Len(q) THEN q[i] ELSE f[i - Len(q)]
    BY SMTT(60), <1>1, <2>2, QueueConcat
  <2>5. DOMAIN r = 1 .. Len(q) + Len(f)
    BY SMTT(60), <2>4, QueueElements
  <2> HIDE DEF r, S, q
  <2>6. ASSUME NEW i \in DOMAIN r, NEW j \in DOMAIN r, r[i] = r[j]
        PROVE  i = j
    <3>1. CASE i <= Len(q) /\ j <= Len(q)
      BY SMTT(60), <1>1, <2>4, <2>5, <2>6, <3>1 DEF Distinct
    <3>2. CASE i > Len(q) /\ j > Len(q)
      <4>1. i - Len(q) \in DOMAIN f /\ j - Len(q) \in DOMAIN f
        BY SMTT(60), <1>1, <2>2, <2>5, <3>2
      <4>2. r[i] = f[i - Len(q)] /\ r[j] = f[j - Len(q)]
        BY SMTT(60), <1>1, <2>2, <2>4, <2>5, <3>2
      <4>3. i - Len(q) = j - Len(q)
        BY ZenonT(60), <2>2, <2>6, <4>1, <4>2 DEF Distinct
      <4> QED
        BY SMTT(60), <1>1, <2>2, <2>5, <4>3
    <3>3. ASSUME NEW x \in DOMAIN r, NEW y \in DOMAIN r, x <= Len(q), y > Len(q)
          PROVE  r[x] # r[y]
      <4>1. x \in DOMAIN q /\ y - Len(q) \in DOMAIN f
        BY SMTT(60), <1>1, <2>2, <2>5, <3>3
      <4>2. r[x] = q[x] /\ r[y] = f[y - Len(q)]
        BY SMTT(60), <1>1, <2>2, <2>4, <2>5, <3>3
      <4> QED
        BY SMTT(60), <2>3, <4>1, <4>2
    <3>4. i <= Len(q) \/ i > Len(q)
      BY SMTT(60), <1>1, <2>2, <2>5
    <3>5. j <= Len(q) \/ j > Len(q)
      BY SMTT(60), <1>1, <2>2, <2>5
    <3> QED
      BY ZenonT(60), <2>6, <3>1, <3>2, <3>3, <3>4, <3>5
  <2>7. Distinct(r)
    BY <2>6 DEF Distinct
  <2>8. runtime_events' = [runtime_events EXCEPT ![k] = r]
    BY SMTT(60), <2>1 DEF r, q
  <2> QED
    BY ZenonT(60), <1>2, <2>7, <2>8
<1>7. ASSUME NEW g \in Goals, Calls(k, g) PROVE UNCHANGED runtime_events
  BY SMTT(60), <1>7 DEF Calls, AcceptGoal, EndpointAcceptGoal, RejectGoal,
     EndpointRejectGoal,
              AcceptCancel, EndpointAcceptCancel, EndpointAcceptCancelLocally,
              RejectCancel, EndpointRejectCancel, SendFeedback, EndpointSendFeedback,
              Complete, EndpointComplete, CompleteLocally,
              DiscardPendingGoal, EndpointDiscardPendingGoal
<1>8. ASSUME NEW n, StopAllServices(k, n) \/ ClearAllInstances(k, n)
      PROVE  runtime_events' = [runtime_events EXCEPT ![k] = << >>]
  BY <1>8 DEF StopAllServices, ClearAllInstances
<1> QED
  BY SMTT(60), <1>3, <1>4, <1>5, <1>6, <1>7, <1>8 DEF OpenServerStep, ServerPoll

(* However often a disconnect is notified, no Goal is queued twice. *)
THEOREM RuntimeCancelCorrect == OpenServerSpec => []RuntimeCancelQueuedOnce
<1>1. OpenServerInit => RuntimeCancelQueuedOnce
  BY SMTT(60) DEF OpenServerInit, ServerInit, RuntimeCancelQueuedOnce
<1>2. ServerInv /\ RuntimeCancelQueuedOnce /\ [OpenServerNext]_openServerVars
         => RuntimeCancelQueuedOnce'
  <2>1. CASE UNCHANGED runtime_events
    BY SMTT(60), <2>1 DEF RuntimeCancelQueuedOnce
  <2> QED
    BY SMTT(60), <2>1, RuntimeQueueSteps
       DEF OpenServerNext, RequestArrives, ResponseDeparts, openServerVars, serverVars
<1> QED
  BY <1>1, <1>2, ServerInvHolds, PTL DEF OpenServerSpec

(* A call about one Goal leaves every committed Goal as it is. *)
LEMMA CallsKeepCommitted ==
  ASSUME TablesOK, NEW k \in Connections, NEW g \in Goals, Calls(k, g),
         NEW h \in Connections \X Goals, bindings[h].state = "RESULT_COMMITTED"
  PROVE  bindings'[h] = bindings[h] /\ goals'[h] = goals[h]
<1>1. bindings[<<k, g>>].state # "RESULT_COMMITTED"
  <2>1. <<k, g>> \in Connections \X Goals /\ goals[<<k, g>>] \in ServerGoalContext
        /\ ServerAgree(bindings[<<k, g>>], goals[<<k, g>>])
    BY SMTT(60) DEF TablesOK, ServerLayersAgree
  <2>2. CASE RejectCancel(k, g)
    <3>1. goals[<<k, g>>].state = "EXECUTING"
      BY SMTT(60), <2>1, <2>2, DecisionMoves DEF RejectCancel, EndpointRejectCancel,
         Transition
    <3> QED
      BY SMTT(60), <2>1, <3>1 DEF ServerAgree
  <2>3. CASE ~RejectCancel(k, g)
    BY <2>3 DEF Calls, AcceptGoal, EndpointAcceptGoal, RejectGoal, EndpointRejectGoal,
                AcceptCancel, EndpointAcceptCancel, EndpointAcceptCancelLocally,
                SendFeedback, EndpointSendFeedback, Complete, EndpointComplete,
                CompleteLocally, MayCompleteLocally, DiscardPendingGoal,
                EndpointDiscardPendingGoal, ValidTerminal, BindingIn
  <2> QED
    BY ZenonT(60), <2>2, <2>3
<1>2. h # <<k, g>>
  BY SMTT(60), <1>1
<1>3. CASE AcceptGoal(k, g) \/ RejectGoal(k, g) \/ SendFeedback(k, g)
  BY SMTT(60), <1>2, <1>3 DEF AcceptGoal, EndpointAcceptGoal, RejectGoal, EndpointRejectGoal,
     SendFeedback, EndpointSendFeedback, ReleaseBinding, TablesOK
<1>4. CASE AcceptCancel(k, g) \/ RejectCancel(k, g)
  <2>1. bindings'[h] = bindings[h]
    BY ZenonT(60), <1>2, <1>4 DEF AcceptCancel, EndpointAcceptCancel,
       EndpointAcceptCancelLocally, RejectCancel, EndpointRejectCancel, TablesOK
  <2>2. goals'[h] = goals[h]
    BY ZenonT(60), <1>2, <1>4 DEF AcceptCancel, RejectCancel, TablesOK
  <2> QED
    BY <2>1, <2>2
<1>5. ASSUME NEW status \in TerminalStatus, NEW sent \in SendOutcomes,
             Complete(k, g, status, sent)
      PROVE  bindings'[h] = bindings[h] /\ goals'[h] = goals[h]
  <2>1. bindings'[h] = bindings[h]
    BY SMTT(60), <1>2, <1>5 DEF Complete, EndpointComplete, ReleaseBinding, TablesOK
  <2>2. goals'[h] = goals[h]
    BY ZenonT(60), <1>2, <1>5 DEF Complete, TablesOK
  <2> QED
    BY <2>1, <2>2
<1>6. ASSUME NEW status \in TerminalStatus, CompleteLocally(k, g, status)
      PROVE  bindings'[h] = bindings[h] /\ goals'[h] = goals[h]
  BY SMTT(60), <1>2, <1>6 DEF CompleteLocally, ReleaseBinding, TablesOK
<1>7. CASE DiscardPendingGoal(k, g)
  BY ZenonT(60), <1>2, <1>7 DEF DiscardPendingGoal, EndpointDiscardPendingGoal,
     ReleaseBinding, TablesOK
<1> QED
  BY ZenonT(60), <1>3, <1>4, <1>5, <1>6, <1>7 DEF Calls

(* poll() leaves every committed Goal as it is. *)
LEMMA PollKeepsCommitted ==
  ASSUME TablesOK, QueuesOK, NEW k \in Connections, NEW sent \in SendOutcomes,
         ServerPoll(k, sent),
         NEW h \in Connections \X Goals, bindings[h].state = "RESULT_COMMITTED"
  PROVE  bindings'[h] = bindings[h] /\ goals'[h] = goals[h]
<1>1. goals[h] \in ServerGoalContext /\ goals[h].state = "FINISHING"
  BY DEF TablesOK, ServerLayersAgree, ServerAgree
<1>2. TransitionServerGoal(goals[h], "RUNTIME_CANCEL_REQUESTED").next = goals[h]
  BY SMTT(60), <1>1 DEF TransitionServerGoal, RuntimeCancelRequested, Nop, Error
<1>3. CASE PollRuntimeEvent(k)
  <2>1. PICK g : goals' = [goals EXCEPT ![<<k, g>>] =
                     TransitionServerGoal(goals[<<k, g>>], "RUNTIME_CANCEL_REQUESTED").next]
    BY ZenonT(60), <1>3 DEF PollRuntimeEvent, HandleCancelEvent, Transition
  <2>2. goals'[h] = goals[h]
    BY ZenonT(60), <1>2, <2>1 DEF TablesOK
  <2> QED
    BY SMTT(60), <1>3, <2>2 DEF PollRuntimeEvent, HandleCancelEvent
<1>4. CASE EndpointPoll(k, sent)
  <2> DEFINE p == Head(to_server[k])
  <2>1. CASE PollCancelRequest(k, p)
    <3>1. <<k, p.goal>> # h
      BY ZenonT(60), <2>1 DEF PollCancelRequest, HandleCancelEvent, CancelIsReported,
         BindingIn
    <3> QED
      BY SMTT(60), <2>1, <3>1 DEF PollCancelRequest, HandleCancelEvent, TablesOK
  <2>2. CASE PollGoalRequest(k, p)
    <3>1. <<k, p.goal>> # h
      BY ZenonT(60), <2>2 DEF PollGoalRequest
    <3> QED
      BY SMTT(60), <2>2, <3>1 DEF PollGoalRequest, TablesOK
  <2> QED
    BY ZenonT(60), <1>4, <2>1, <2>2 DEF EndpointPoll, PollDropped, PollGoalRefused
<1> QED
  BY SMTT(60), <1>3, <1>4 DEF ServerPoll

(* The first terminal decision of a Goal stands until clear_all_instances. *)
THEOREM CommittedResultCorrect == OpenServerSpec => CommittedResultStays
<1> DEFINE Stays == \A h \in Connections \X Goals :
          bindings[h].state = "RESULT_COMMITTED" =>
              \/ bindings'[h] = bindings[h] /\ goals'[h] = goals[h]
              \/ \A g \in Goals : bindings'[<<h[1], g>>] = NoBinding
<1>1. ServerInv /\ [OpenServerNext]_openServerVars => [Stays]_<<bindings, goals>>
  <2> SUFFICES ASSUME ServerInv, OpenServerNext, NEW h \in Connections \X Goals,
                      bindings[h].state = "RESULT_COMMITTED"
               PROVE  \/ bindings'[h] = bindings[h] /\ goals'[h] = goals[h]
                      \/ \A g \in Goals : bindings'[<<h[1], g>>] = NoBinding
    BY DEF openServerVars, serverVars
  <2>1. CASE UNCHANGED <<bindings, goals>>
    BY ZenonT(60), <2>1
  <2>2. ASSUME NEW k \in Connections, OpenServerStep(k)
        PROVE  \/ bindings'[h] = bindings[h] /\ goals'[h] = goals[h]
               \/ \A g \in Goals : bindings'[<<h[1], g>>] = NoBinding
    <3>1. ASSUME NEW n, ClearAllInstances(k, n)
          PROVE  \/ bindings'[h] = bindings[h] /\ goals'[h] = goals[h]
                 \/ \A g \in Goals : bindings'[<<h[1], g>>] = NoBinding
      BY ZenonT(60), <3>1 DEF ClearAllInstances
    <3>2. ASSUME NEW n, StopAllServices(k, n) PROVE UNCHANGED <<bindings, goals>>
      BY ZenonT(60), <3>2 DEF StopAllServices
    <3>3. NotifyTransportDisconnected(k) => UNCHANGED <<bindings, goals>>
      BY DEF NotifyTransportDisconnected
    <3> QED
      BY ZenonT(60), <2>1, <2>2, <3>1, <3>2, <3>3, CallsKeepCommitted, PollKeepsCommitted
         DEF OpenServerStep, ServerInv
  <2> QED
    BY ZenonT(60), <2>1, <2>2 DEF OpenServerNext, RequestArrives, ResponseDeparts, serverVars
<1> QED
  BY <1>1, ServerInvHolds, PTL DEF OpenServerSpec, CommittedResultStays
================================================================================
