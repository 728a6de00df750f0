--------------------------- MODULE ActionClientProofs ---------------------------
(***************************************************************************)
(* The endpoint and the services of an Action client agree about every     *)
(* Goal and every slot, for any number of connections, Goals and slots,    *)
(* whatever packets arrive and whatever calls are made.                    *)
(***************************************************************************)
EXTENDS ActionClientOpen, TLAPS

--------------------------------------------------------------------------------
(* transition_client_goal *)

(* The state machine maps contexts to contexts and never leaves the valid ones. *)
LEMMA ClientTransitionCloses ==
  ASSUME NEW c \in ClientGoalContext, NEW type, NEW status, NEW sequence
  PROVE  LET next == TransitionClientGoal(c, type, status, sequence).next IN
         /\ next \in ClientGoalContext
         /\ IsValidClientContext(c) => IsValidClientContext(next)
<1> DEFINE Closed(next) ==
      next \in ClientGoalContext /\ (IsValidClientContext(c) => IsValidClientContext(next))
<1>0. \A n \in FeedbackSequence : NextSequence(n) \in FeedbackSequence
  BY SequenceModulusAssumption DEF FeedbackSequence, NextSequence
<1> USE DEF ClientGoalContext, GoalState, TerminalStatus, Moved, Nop, Error,
            IsValidClientContext
<1>1. Closed(c)
  OBVIOUS
<1>2. Closed(ReceiveClientResult(c, status).next)
  BY ZenonT(60) DEF ReceiveClientResult, Completions
<1>3. Closed(RequestCancel(c).next)
  BY ZenonT(60) DEF RequestCancel
<1>4. Closed(FeedbackReceived(c, sequence).next)
  BY <1>0 DEF FeedbackReceived
<1>5. Closed(CancelAnswered(c, "CANCELING").next) /\ Closed(CancelAnswered(c, "EXECUTING").next)
  BY ZenonT(60) DEF CancelAnswered
<1>6. Closed(CancelRequestSendFailed(c).next)
  BY ZenonT(60) DEF CancelRequestSendFailed
<1>7. Error(c).next = c /\ Nop(c).next = c
  OBVIOUS
<1> HIDE DEF ClientGoalContext, GoalState, TerminalStatus, Moved, Nop, Error,
             IsValidClientContext, Closed
<1> DEFINE t == TransitionClientGoal(c, type, status, sequence)
<1>8. \/ t.next = c
      \/ t = ReceiveClientResult(c, status)
      \/ t = RequestCancel(c)
      \/ t = FeedbackReceived(c, sequence)
      \/ t = CancelAnswered(c, "CANCELING")
      \/ t = CancelAnswered(c, "EXECUTING")
      \/ t = CancelRequestSendFailed(c)
  BY <1>7, Zenon DEF TransitionClientGoal
<1> HIDE DEF t
<1>9. Closed(t.next)
  BY <1>1, <1>2, <1>3, <1>4, <1>5, <1>6, <1>8, Zenon
<1> QED
  BY <1>9 DEF Closed, t

(* What the events the client meets do to the context of an unfinished Goal. *)
LEMMA RequestCancelMoves ==
  ASSUME NEW c \in ClientGoalContext,
         TransitionClientGoal(c, "REQUEST_CANCEL", "OTHER", 0).kind = "TRANSITIONED"
  PROVE  /\ c.state = "EXECUTING" /\ ~c.cancel_response_pending
         /\ TransitionClientGoal(c, "REQUEST_CANCEL", "OTHER", 0).next
               = [c EXCEPT !.cancel_response_pending = TRUE]
BY DEF TransitionClientGoal, RequestCancel, Moved, Error

LEMMA FeedbackMoves ==
  ASSUME NEW c \in ClientGoalContext, IsValidClientContext(c), c.state # "FINISHING", NEW status
  PROVE  TransitionClientGoal(c, "FEEDBACK_RECEIVED", status, c.next_feedback_sequence).next
            = [c EXCEPT !.next_feedback_sequence = NextSequence(@)]
BY DEF TransitionClientGoal, FeedbackReceived, Moved

LEMMA ResultMoves ==
  ASSUME NEW c \in ClientGoalContext, IsValidClientContext(c),
         NEW status \in Completions(c.state), NEW sequence
  PROVE  TransitionClientGoal(c, "RESULT_RECEIVED", status, sequence).kind = "TRANSITIONED"
BY DEF TransitionClientGoal, ReceiveClientResult, Moved

--------------------------------------------------------------------------------
(* Queues *)

LEMMA ClientSendType ==
  ASSUME NEW S, NEW channel \in [Connections -> Seq(S)], NEW k \in Connections, NEW p \in S
  PROVE  Send(channel, k, p) \in [Connections -> Seq(S)]
BY DEF Send

LEMMA ClientReceivedType ==
  ASSUME NEW S, NEW channel \in [Connections -> Seq(S)], NEW k \in Connections,
         channel[k] # << >>
  PROVE  /\ Received(channel, k) \in [Connections -> Seq(S)]
         /\ Head(channel[k]) \in S
BY DEF Received

LEMMA ClientClearedType ==
  ASSUME NEW S, NEW channel \in [Connections -> Seq(S)], NEW k \in Connections,
         NEW n \in 0 .. Len(channel[k])
  PROVE  Cleared(channel, k, n) \in [Connections -> Seq(S)]
<1>1. ASSUME NEW s \in Seq(S), NEW m \in 0 .. Len(s) PROVE SubSeq(s, m + 1, Len(s)) \in Seq(S)
  BY <1>1
<1>2. SubSeq(channel[k], n + 1, Len(channel[k])) \in Seq(S)
  BY <1>1
<1> QED
  BY <1>2 DEF Cleared

(* What the assumptions on the constants say of bindings and packets. *)
LEMMA ClientValueTypes ==
  /\ \A s \in Slots : \A timeout : NewClientBinding(s, timeout) \in ClientPacketBinding
  /\ NoClientBinding \in ClientPacketBinding
  /\ NewClientContext \in ClientGoalContext
  /\ NoClientContext \in ClientGoalContext
  /\ \A n \in FeedbackSequence : NextSequence(n) \in FeedbackSequence
  /\ \A kind \in {"GOAL", "CANCEL"}, g \in Goals, s \in Slots : Request(kind, g, s) \in ToServer
  /\ ClientAgree(NoClientBinding, NoClientContext)
<1>1. 0 \in Slots /\ 0 \in FeedbackSequence
  BY NumSlotsAssumption, SequenceModulusAssumption DEF Slots, FeedbackSequence
<1>2. \A n \in FeedbackSequence : NextSequence(n) \in FeedbackSequence
  BY SequenceModulusAssumption DEF FeedbackSequence, NextSequence
<1>3. \A s \in Slots : \A timeout : NewClientBinding(s, timeout) \in ClientPacketBinding
  BY <1>1 DEF NewClientBinding, ClientPacketBinding, BindingState
<1>4. NoClientBinding \in ClientPacketBinding
  BY <1>1 DEF NoClientBinding, NewClientBinding, ClientPacketBinding
<1>5. NewClientContext \in ClientGoalContext /\ NoClientContext \in ClientGoalContext
  BY ZenonT(60), <1>1 DEF NewClientContext, NoClientContext, ClientGoalContext, GoalState
<1>6. \A kind \in {"GOAL", "CANCEL"}, g \in Goals, s \in Slots : Request(kind, g, s) \in ToServer
  BY DEF Request, ToServer
<1>7. ClientAgree(NoClientBinding, NoClientContext)
  BY DEF ClientAgree, NoClientBinding, NewClientBinding, NoClientContext, NewClientContext
<1> QED
  BY <1>1, <1>2, <1>3, <1>4, <1>5, <1>6, <1>7

--------------------------------------------------------------------------------
(* One Goal changes *)

(* The tables of both layers: types, agreement, slot ownership. *)
ClientTablesOK == ClientTypeOK /\ ClientLayersAgree /\ ClientSlotsOwned

(* Writing an agreeing pair for one Goal keeps the types and the agreement. *)
LEMMA OneClientGoal ==
  ASSUME ClientTablesOK, NEW h \in Connections \X Goals,
         NEW b \in ClientPacketBinding, NEW c \in ClientGoalContext, ClientAgree(b, c),
         client_bindings' = [client_bindings EXCEPT ![h] = b],
         client_goals' = [client_goals EXCEPT ![h] = c]
  PROVE  /\ client_bindings' \in [Connections \X Goals -> ClientPacketBinding]
         /\ client_goals' \in [Connections \X Goals -> ClientGoalContext]
         /\ ClientLayersAgree'
<1>1. /\ client_bindings' \in [Connections \X Goals -> ClientPacketBinding]
      /\ client_goals' \in [Connections \X Goals -> ClientGoalContext]
  BY DEF ClientTablesOK, ClientTypeOK
<1>2. ASSUME NEW d \in Connections \X Goals
      PROVE  ClientAgree(client_bindings'[d], client_goals'[d])
  <2>1. CASE d = h
    BY <2>1 DEF ClientTablesOK, ClientTypeOK
  <2>2. CASE d # h
    BY <2>2 DEF ClientTablesOK, ClientTypeOK, ClientLayersAgree
  <2> QED
    BY <2>1, <2>2
<1> QED
  BY <1>1, <1>2 DEF ClientLayersAgree

(* A Goal moves on and keeps its slot. *)
LEMMA ClientGoalMoves ==
  ASSUME ClientTablesOK, NEW h \in Connections \X Goals,
         NEW b \in ClientPacketBinding, NEW c \in ClientGoalContext, ClientAgree(b, c),
         b.slot = client_bindings[h].slot, b.state # "NONE", client_bindings[h].state # "NONE",
         client_bindings' = [client_bindings EXCEPT ![h] = b],
         client_goals' = [client_goals EXCEPT ![h] = c],
         UNCHANGED client_slot_owners
  PROVE  ClientTablesOK'
<1> USE DEF ClientTablesOK, ClientTypeOK
<1>1. ASSUME NEW k \in Connections, NEW g \in Goals, NEW s \in Slots
      PROVE  client_slot_owners'[<<k, s>>] = g
                <=> client_bindings'[<<k, g>>].state # "NONE"
                    /\ client_bindings'[<<k, g>>].slot = s
  <2>1. client_slot_owners[<<k, s>>] = g
           <=> client_bindings[<<k, g>>].state # "NONE" /\ client_bindings[<<k, g>>].slot = s
    BY DEF ClientSlotsOwned
  <2>2. <<k, g>> \in Connections \X Goals
    OBVIOUS
  <2>3. CASE <<k, g>> = h
    BY <2>1, <2>2, <2>3
  <2>4. CASE <<k, g>> # h
    BY <2>1, <2>2, <2>4
  <2> QED
    BY <2>3, <2>4
<1>2. ClientSlotsOwned'
  BY ZenonT(60), <1>1 DEF ClientSlotsOwned
<1> QED
  BY ZenonT(60), <1>2, OneClientGoal

(* A Goal goes: its slot becomes free. *)
LEMMA ClientGoalGoes ==
  ASSUME ClientTablesOK, NEW k \in Connections, NEW g \in Goals,
         client_bindings[<<k, g>>].state # "NONE", ReleaseClientBinding(k, g),
         client_goals' = [client_goals EXCEPT ![<<k, g>>] = NoClientContext]
  PROVE  ClientTablesOK'
<1> DEFINE h == <<k, g>>
           slot == client_bindings[h].slot
<1> USE DEF ClientTablesOK, ClientTypeOK
<1>1. h \in Connections \X Goals /\ slot \in Slots /\ <<k, slot>> \in Connections \X Slots
  BY DEF ClientPacketBinding
<1>2. client_slot_owners[<<k, slot>>] = g
  BY <1>1 DEF ClientSlotsOwned
<1>3. /\ client_bindings' = [client_bindings EXCEPT ![h] = NoClientBinding]
      /\ client_slot_owners' = [client_slot_owners EXCEPT ![<<k, slot>>] = NoGoal]
  BY <1>2 DEF ReleaseClientBinding
<1>4. client_slot_owners' \in [Connections \X Slots -> Goals \cup {NoGoal}]
  BY <1>1, <1>3
<1>5. ASSUME NEW l \in Connections, NEW x \in Goals, NEW s \in Slots
      PROVE  client_slot_owners'[<<l, s>>] = x
                <=> client_bindings'[<<l, x>>].state # "NONE"
                    /\ client_bindings'[<<l, x>>].slot = s
  <2>1. client_slot_owners[<<l, s>>] = x
           <=> client_bindings[<<l, x>>].state # "NONE" /\ client_bindings[<<l, x>>].slot = s
    BY DEF ClientSlotsOwned
  <2>2. <<l, x>> \in Connections \X Goals /\ <<l, s>> \in Connections \X Slots
    OBVIOUS
  <2>3. CASE l = k /\ x = g
    <3>1. client_bindings'[<<l, x>>].state = "NONE"
      BY <1>1, <1>3, <2>3 DEF NoClientBinding, NewClientBinding
    <3>2. client_slot_owners'[<<l, s>>] # g
      BY <1>1, <1>3, <2>1, <2>2, <2>3, NoGoalAssumption
    <3> QED
      BY <2>3, <3>1, <3>2
  <2>4. CASE ~(l = k /\ x = g)
    <3>1. client_bindings'[<<l, x>>] = client_bindings[<<l, x>>]
      BY <1>1, <1>3, <2>2, <2>4
    <3>2. client_slot_owners'[<<l, s>>] = x <=> client_slot_owners[<<l, s>>] = x
      BY <1>1, <1>2, <1>3, <2>2, <2>4, NoGoalAssumption
    <3> QED
      BY <2>1, <3>1, <3>2
  <2> QED
    BY <2>3, <2>4
<1>6. ClientSlotsOwned'
  BY ZenonT(60), <1>5 DEF ClientSlotsOwned
<1> HIDE DEF slot
<1>7. /\ client_bindings' \in [Connections \X Goals -> ClientPacketBinding]
      /\ client_goals' \in [Connections \X Goals -> ClientGoalContext]
      /\ ClientLayersAgree'
  BY ZenonT(60), <1>1, <1>3, OneClientGoal, ClientValueTypes
<1> QED
  BY <1>4, <1>6, <1>7

(* A Goal comes: it gets a slot that was free. *)
LEMMA ClientGoalComes ==
  ASSUME ClientTablesOK, NEW k \in Connections, NEW g \in Goals, NEW timeout,
         SendGoal(k, g, timeout)
  PROVE  ClientTablesOK'
<1> DEFINE h == <<k, g>>
<1> USE DEF ClientTablesOK, ClientTypeOK
<1>1. PICK slot \in FreeSlots(k) :
         /\ client_slot_owners' = [client_slot_owners EXCEPT ![<<k, slot>>] = g]
         /\ client_bindings' = [client_bindings EXCEPT ![h] = NewClientBinding(slot, timeout)]
  BY ZenonT(60) DEF SendGoal, EndpointSendGoal
<1> DEFINE b == NewClientBinding(slot, timeout)
<1>2. /\ h \in Connections \X Goals /\ slot \in Slots /\ <<k, slot>> \in Connections \X Slots
      /\ client_slot_owners[<<k, slot>>] = NoGoal /\ client_bindings[h].state = "NONE"
      /\ client_goals[h].state = "NONE" /\ client_goals' = client_goals
  BY <1>1 DEF SendGoal, EndpointSendGoal, FreeSlots, ClientHasGoal, ClientBindingIn
<1>3. client_slot_owners' \in [Connections \X Slots -> Goals \cup {NoGoal}]
  BY <1>1, <1>2
<1>4. client_goals' = [client_goals EXCEPT ![h] = NoClientContext]
  BY <1>2 DEF ClientLayersAgree, ClientAgree
<1>5. /\ b.state = "AWAITING_GOAL_RESPONSE" /\ b.slot = slot /\ b.next_feedback_sequence = 0
      /\ b \in ClientPacketBinding
  BY ZenonT(60), <1>2, ClientValueTypes DEF NewClientBinding
<1>6. client_bindings' = [client_bindings EXCEPT ![h] = b]
  BY <1>1
<1> HIDE DEF b
<1>7. ClientAgree(b, NoClientContext)
  BY <1>5 DEF ClientAgree, NoClientContext, NewClientContext
<1>8. ASSUME NEW l \in Connections, NEW x \in Goals, NEW s \in Slots
      PROVE  client_slot_owners'[<<l, s>>] = x
                <=> client_bindings'[<<l, x>>].state # "NONE"
                    /\ client_bindings'[<<l, x>>].slot = s
  <2>1. client_slot_owners[<<l, s>>] = x
           <=> client_bindings[<<l, x>>].state # "NONE" /\ client_bindings[<<l, x>>].slot = s
    BY DEF ClientSlotsOwned
  <2>2. <<l, x>> \in Connections \X Goals /\ <<l, s>> \in Connections \X Slots
    OBVIOUS
  <2>3. CASE l = k /\ x = g
    <3>1. client_bindings'[<<l, x>>] = b
      BY <1>2, <1>6, <2>3
    <3>2. client_slot_owners'[<<l, s>>] = g <=> s = slot
      BY <1>1, <1>2, <2>1, <2>2, <2>3
    <3> QED
      BY <1>5, <2>3, <3>1, <3>2
  <2>4. CASE ~(l = k /\ x = g)
    <3>1. client_bindings'[<<l, x>>] = client_bindings[<<l, x>>]
      BY <1>2, <1>6, <2>2, <2>4
    <3>2. client_slot_owners'[<<l, s>>] = x <=> client_slot_owners[<<l, s>>] = x
      <4>1. CASE l = k /\ s = slot
        <5>1. client_slot_owners'[<<l, s>>] = g /\ client_slot_owners[<<l, s>>] = NoGoal
          BY <1>1, <1>2, <4>1
        <5> QED
          BY <2>4, <4>1, <5>1, NoGoalAssumption
      <4>2. CASE ~(l = k /\ s = slot)
        BY <1>1, <1>2, <2>2, <4>2
      <4> QED
        BY <4>1, <4>2
    <3> QED
      BY <2>1, <3>1, <3>2
  <2> QED
    BY <2>3, <2>4
<1>9. ClientSlotsOwned'
  BY ZenonT(60), <1>8 DEF ClientSlotsOwned
<1>10. /\ client_bindings' \in [Connections \X Goals -> ClientPacketBinding]
       /\ client_goals' \in [Connections \X Goals -> ClientGoalContext]
       /\ ClientLayersAgree'
  BY ZenonT(60), <1>2, <1>4, <1>5, <1>6, <1>7, OneClientGoal, ClientValueTypes
<1> QED
  BY <1>3, <1>9, <1>10

--------------------------------------------------------------------------------
(* The actions *)

(* The packet poll() takes from the queue keeps the tables: one step per kind. *)
LEMMA PacketKeepsTables ==
  ASSUME ClientTablesOK, NEW k \in Connections, NEW p \in ToClient, IsMatched(k, p),
         PollPacket(k, p)
  PROVE  ClientTablesOK'
<1> DEFINE g == p.goal
           h == <<k, g>>
           b == client_bindings[h]
           c == client_goals[h]
<1>1. /\ g \in Goals /\ h \in Connections \X Goals
      /\ b \in ClientPacketBinding /\ c \in ClientGoalContext /\ ClientAgree(b, c)
  BY DEF ClientTablesOK, ClientTypeOK, ClientLayersAgree, ToClient
<1> DEFINE Writes(b2, c2) ==
      /\ client_bindings' = [client_bindings EXCEPT ![h] = b2]
      /\ client_goals' = [client_goals EXCEPT ![h] = c2]
      /\ UNCHANGED client_slot_owners
<1>2. ASSUME NEW b2 \in ClientPacketBinding, NEW c2 \in ClientGoalContext, Writes(b2, c2),
             ClientAgree(b2, c2), b2.slot = b.slot, b2.state # "NONE", b.state # "NONE"
      PROVE  ClientTablesOK'
  BY ZenonT(60), <1>1, <1>2, ClientGoalMoves
<1>3. CASE PollGoalAccepted(k, p)
  <2> DEFINE b2 == [b EXCEPT !.state = "ACCEPTED"]
  <2>1. b.state = "AWAITING_GOAL_RESPONSE"
    BY <1>3 DEF PollGoalAccepted, AnswersGoal, ClientBindingIn
  <2>2. c.state = "NONE" /\ b.next_feedback_sequence = 0
    BY <1>1, <2>1 DEF ClientAgree, ClientGoalContext, GoalState
  <2>3. Writes(b2, NewClientContext)
    BY <1>3, <2>2 DEF PollGoalAccepted, ClientHasGoal
  <2>4. /\ b2 \in ClientPacketBinding /\ b2.slot = b.slot /\ b2.state = "ACCEPTED"
        /\ b2.next_feedback_sequence = 0
    BY SMTT(60), <1>1, <2>2 DEF ClientPacketBinding, BindingState
  <2> HIDE DEF b2
  <2>5. ClientAgree(b2, NewClientContext)
    BY SMTT(60), <2>4 DEF ClientAgree, NewClientContext, IsValidClientContext, GoalState
  <2> QED
    BY ZenonT(60), <1>2, <2>1, <2>3, <2>4, <2>5, ClientValueTypes
<1>4. CASE PollGoalRejected(k, p)
  <2>1. b.state = "AWAITING_GOAL_RESPONSE" /\ ReleaseClientBinding(k, g) /\ client_goals' = client_goals
    BY <1>4 DEF PollGoalRejected, AnswersGoal, ClientBindingIn
  <2>2. c = NoClientContext
    BY <1>1, <2>1 DEF ClientAgree, ClientGoalContext, GoalState
  <2>3. client_goals' = [client_goals EXCEPT ![h] = NoClientContext]
    BY <1>1, <2>1, <2>2 DEF ClientTablesOK, ClientTypeOK
  <2> QED
    BY ZenonT(60), <1>1, <2>1, <2>3, ClientGoalGoes
<1>5. CASE PollCancelResponse(k, p)
  <2> DEFINE state == IF p.status = "ACCEPTED" THEN "CANCELING" ELSE "ACCEPTED"
             b2 == [b EXCEPT !.state = state]
             c2 == [c EXCEPT !.state = IF p.status = "ACCEPTED" THEN "CANCELING" ELSE "EXECUTING",
                             !.cancel_response_pending = FALSE]
  <2>1. b.state = "AWAITING_CANCEL_RESPONSE"
    BY <1>5 DEF PollCancelResponse, AnswersCancel, ClientBindingIn
  <2>2. c.state = "EXECUTING" /\ c.cancel_response_pending /\ IsValidClientContext(c)
    BY <1>1, <2>1 DEF ClientAgree
  <2>3. Writes(b2, c2)
    <3>1. CASE p.status = "ACCEPTED"
      <4> DEFINE next == TransitionClientGoal(c, "CANCEL_RESPONSE_ACCEPTED", p.status, p.sequence).next
      <4>1. next = [c EXCEPT !.state = "CANCELING", !.cancel_response_pending = FALSE]
        BY <2>2 DEF TransitionClientGoal, CancelAnswered, Moved
      <4>2. Writes(b2, next)
        BY <1>5, <3>1 DEF PollCancelResponse, MoveClientGoal, ClientTransition
      <4> QED
        BY ZenonT(60), <3>1, <4>1, <4>2
    <3>2. CASE p.status # "ACCEPTED"
      <4> DEFINE next == TransitionClientGoal(c, "CANCEL_RESPONSE_REJECTED", p.status, p.sequence).next
      <4>1. next = [c EXCEPT !.state = "EXECUTING", !.cancel_response_pending = FALSE]
        BY <2>2 DEF TransitionClientGoal, CancelAnswered, Moved
      <4>2. Writes(b2, next)
        BY <1>5, <3>2 DEF PollCancelResponse, MoveClientGoal, ClientTransition
      <4> QED
        BY ZenonT(60), <3>2, <4>1, <4>2
    <3> QED
      BY <3>1, <3>2
  <2>4. /\ b2 \in ClientPacketBinding /\ b2.slot = b.slot /\ b2.state = state
        /\ b2.next_feedback_sequence = b.next_feedback_sequence
    BY ZenonT(60), <1>1 DEF ClientPacketBinding, BindingState
  <2>5. /\ c2 \in ClientGoalContext /\ c2.next_feedback_sequence = c.next_feedback_sequence
        /\ c2.state = IF p.status = "ACCEPTED" THEN "CANCELING" ELSE "EXECUTING"
        /\ ~c2.cancel_response_pending /\ IsValidClientContext(c2)
    BY ZenonT(60), <1>1, <2>2 DEF ClientGoalContext, GoalState, IsValidClientContext
  <2> HIDE DEF b2, c2
  <2>6. ClientAgree(b2, c2)
    BY <1>1, <2>2, <2>4, <2>5 DEF ClientAgree
  <2>7. b2.state # "NONE"
    BY <2>4
  <2> QED
    BY ZenonT(60), <1>2, <2>1, <2>3, <2>4, <2>5, <2>6, <2>7
<1>6. CASE PollResult(k, p)
  <2>1. /\ ReleaseClientBinding(k, g) /\ p.kind = "RESULT"
        /\ \/ /\ b.state \in {"ACCEPTED", "AWAITING_CANCEL_RESPONSE"}
              /\ p.status \in {"SUCCEEDED", "ABORTED"}
           \/ b.state = "CANCELING" /\ p.status \in {"CANCELED", "ABORTED"}
    BY ZenonT(60), <1>6 DEF PollResult, DeliversResult, ClientBindingIn
  <2>2. c.state # "NONE" /\ IsValidClientContext(c) /\ p.status \in Completions(c.state)
    BY <1>1, <2>1 DEF ClientAgree, Completions
  <2>3. TransitionClientGoal(c, "RESULT_RECEIVED", p.status, p.sequence).kind = "TRANSITIONED"
    BY <1>1, <2>2, ResultMoves
  <2>4. client_goals' = [client_goals EXCEPT ![h] = NoClientContext]
    BY SMTT(60), <1>6, <2>3 DEF PollResult, ClientTransition
  <2> QED
    BY ZenonT(60), <1>1, <2>1, <2>4, ClientGoalGoes
<1>7. CASE PollFeedback(k, p)
  <2> DEFINE b2 == [b EXCEPT !.next_feedback_sequence = NextSequence(@)]
             c2 == [c EXCEPT !.next_feedback_sequence = NextSequence(@)]
  <2>1. /\ b.state \in {"ACCEPTED", "AWAITING_CANCEL_RESPONSE", "CANCELING"}
        /\ p.sequence = b.next_feedback_sequence
    BY ZenonT(60), <1>7 DEF PollFeedback, DeliversFeedback, ClientBindingIn
  <2>2. /\ IsValidClientContext(c) /\ c.state \notin {"NONE", "FINISHING"}
        /\ c.next_feedback_sequence = b.next_feedback_sequence
    BY <1>1, <2>1 DEF ClientAgree
  <2>3. TransitionClientGoal(c, "FEEDBACK_RECEIVED", p.status, p.sequence).next = c2
    BY <1>1, <2>1, <2>2, FeedbackMoves
  <2>4. Writes(b2, c2)
    BY ZenonT(60), <1>7, <2>3 DEF PollFeedback, MoveClientGoal, ClientTransition
  <2>5. /\ b2 \in ClientPacketBinding /\ b2.slot = b.slot /\ b2.state = b.state
        /\ b2.next_feedback_sequence = NextSequence(b.next_feedback_sequence)
    BY <1>1, ClientValueTypes DEF ClientPacketBinding
  <2>6. /\ c2 \in ClientGoalContext /\ c2.state = c.state
        /\ c2.cancel_response_pending = c.cancel_response_pending
        /\ c2.next_feedback_sequence = NextSequence(c.next_feedback_sequence)
        /\ IsValidClientContext(c2)
    BY ZenonT(60), <1>1, <2>2, ClientValueTypes DEF ClientGoalContext, IsValidClientContext
  <2> HIDE DEF b2, c2
  <2>7. ClientAgree(b2, c2)
    BY <1>1, <2>1, <2>2, <2>5, <2>6 DEF ClientAgree
  <2> QED
    BY ZenonT(60), <1>2, <2>1, <2>4, <2>5, <2>6, <2>7
<1> QED
  BY <1>3, <1>4, <1>5, <1>6, <1>7 DEF PollPacket

(* A timeout, a passing deadline and send_cancel change one binding. *)
LEMMA BindingKeepsTables ==
  ASSUME ClientTablesOK, NEW k \in Connections, NEW g \in Goals,
         \/ SendCancel(k, g)
         \/ GoalDeadlinePasses(k, g)
         \/ /\ TimedOut(k, g)
            /\ client_bindings' = [client_bindings EXCEPT ![<<k, g>>].state =
                                      "GOAL_RESPONSE_TIMED_OUT"]
            /\ UNCHANGED <<client_slot_owners, client_goals>>
  PROVE  ClientTablesOK'
<1> DEFINE h == <<k, g>>
           b == client_bindings[h]
           c == client_goals[h]
<1>1. /\ h \in Connections \X Goals
      /\ b \in ClientPacketBinding /\ c \in ClientGoalContext /\ ClientAgree(b, c)
      /\ client_goals = [client_goals EXCEPT ![h] = c]
  BY DEF ClientTablesOK, ClientTypeOK, ClientLayersAgree
<1> DEFINE Writes(b2, c2) ==
      /\ client_bindings' = [client_bindings EXCEPT ![h] = b2]
      /\ client_goals' = [client_goals EXCEPT ![h] = c2]
      /\ UNCHANGED client_slot_owners
<1>2. ASSUME NEW b2 \in ClientPacketBinding, NEW c2 \in ClientGoalContext, Writes(b2, c2),
             ClientAgree(b2, c2), b2.slot = b.slot, b2.state # "NONE", b.state # "NONE"
      PROVE  ClientTablesOK'
  BY ZenonT(60), <1>1, <1>2, ClientGoalMoves
<1>3. CASE SendCancel(k, g)
  <2> DEFINE b2 == [b EXCEPT !.state = "AWAITING_CANCEL_RESPONSE"]
             c2 == [c EXCEPT !.cancel_response_pending = TRUE]
             t == TransitionClientGoal(c, "REQUEST_CANCEL", "OTHER", 0)
  <2>1. t.kind = "TRANSITIONED" /\ b.state = "ACCEPTED" /\ Writes(b2, t.next)
    BY <1>3 DEF SendCancel, EndpointSendCancel, ClientBindingIn
  <2>2. t.next = c2 /\ c.state = "EXECUTING"
    BY <1>1, <2>1, RequestCancelMoves
  <2>3. IsValidClientContext(c) /\ c.next_feedback_sequence = b.next_feedback_sequence
    BY <1>1, <2>2 DEF ClientAgree
  <2>4. /\ b2 \in ClientPacketBinding /\ b2.slot = b.slot
        /\ b2.state = "AWAITING_CANCEL_RESPONSE"
        /\ b2.next_feedback_sequence = b.next_feedback_sequence
    BY <1>1 DEF ClientPacketBinding, BindingState
  <2>5. /\ c2 \in ClientGoalContext /\ c2.state = "EXECUTING" /\ c2.cancel_response_pending = TRUE
        /\ c2.next_feedback_sequence = c.next_feedback_sequence /\ IsValidClientContext(c2)
    BY ZenonT(60), <1>1, <2>2, <2>3 DEF ClientGoalContext, IsValidClientContext
  <2>6. Writes(b2, c2)
    BY ZenonT(60), <2>1, <2>2
  <2> HIDE DEF b2, c2
  <2>7. ClientAgree(b2, c2)
    BY <2>3, <2>4, <2>5 DEF ClientAgree
  <2> QED
    BY ZenonT(60), <1>2, <2>1, <2>4, <2>5, <2>6, <2>7
<1>4. ASSUME NEW b2 \in ClientPacketBinding, UNCHANGED <<client_slot_owners, client_goals>>,
             client_bindings' = [client_bindings EXCEPT ![h] = b2],
             b.state = "AWAITING_GOAL_RESPONSE", b2.slot = b.slot,
             b2.next_feedback_sequence = b.next_feedback_sequence,
             b2.state \in {"AWAITING_GOAL_RESPONSE", "GOAL_RESPONSE_TIMED_OUT"}
      PROVE  ClientTablesOK'
  <2>1. ClientAgree(b2, c)
    BY <1>1, <1>4 DEF ClientAgree
  <2>2. Writes(b2, c)
    BY <1>1, <1>4
  <2> QED
    BY ZenonT(60), <1>1, <1>2, <1>4, <2>1, <2>2
<1>5. CASE GoalDeadlinePasses(k, g)
  <2> DEFINE b2 == [b EXCEPT !.deadline = "passed"]
  <2>1. /\ b2 \in ClientPacketBinding /\ b2.slot = b.slot /\ b2.state = b.state
        /\ b2.next_feedback_sequence = b.next_feedback_sequence
    BY <1>1 DEF ClientPacketBinding
  <2>2. /\ client_bindings' = [client_bindings EXCEPT ![h] = b2]
        /\ b.state = "AWAITING_GOAL_RESPONSE"
        /\ UNCHANGED <<client_slot_owners, client_goals>>
    BY <1>5 DEF GoalDeadlinePasses, ClientBindingIn
  <2> HIDE DEF b2
  <2> QED
    BY ZenonT(60), <1>4, <2>1, <2>2
<1>6. CASE /\ TimedOut(k, g)
           /\ client_bindings' = [client_bindings EXCEPT ![<<k, g>>].state =
                                      "GOAL_RESPONSE_TIMED_OUT"]
           /\ UNCHANGED <<client_slot_owners, client_goals>>
  <2> DEFINE b2 == [b EXCEPT !.state = "GOAL_RESPONSE_TIMED_OUT"]
  <2>1. /\ b2 \in ClientPacketBinding /\ b2.slot = b.slot
        /\ b2.state = "GOAL_RESPONSE_TIMED_OUT"
        /\ b2.next_feedback_sequence = b.next_feedback_sequence
    BY <1>1 DEF ClientPacketBinding, BindingState
  <2>2. /\ client_bindings' = [client_bindings EXCEPT ![h] = b2]
        /\ b.state = "AWAITING_GOAL_RESPONSE"
        /\ UNCHANGED <<client_slot_owners, client_goals>>
    BY <1>6 DEF TimedOut, ClientBindingIn
  <2> HIDE DEF b2
  <2> QED
    BY ZenonT(60), <1>4, <2>1, <2>2
<1> QED
  BY <1>3, <1>5, <1>6

(* clear_all_instances empties the tables of one connection. *)
LEMMA ClientClearKeepsTables ==
  ASSUME ClientTablesOK, NEW k \in Connections, NEW n, ClientClearAllInstances(k, n)
  PROVE  ClientTablesOK'
<1> USE DEF ClientTablesOK, ClientTypeOK
<1>1. ClientTypeOK'
  BY ZenonT(60), ClientValueTypes DEF ClientClearAllInstances
<1>2. ClientLayersAgree'
  BY ClientValueTypes DEF ClientClearAllInstances, ClientLayersAgree
<1>3. ASSUME NEW l \in Connections, NEW g \in Goals, NEW s \in Slots
      PROVE  client_slot_owners'[<<l, s>>] = g
                <=> client_bindings'[<<l, g>>].state # "NONE"
                    /\ client_bindings'[<<l, g>>].slot = s
  <2>1. client_slot_owners[<<l, s>>] = g
           <=> client_bindings[<<l, g>>].state # "NONE" /\ client_bindings[<<l, g>>].slot = s
    BY DEF ClientSlotsOwned
  <2>2. /\ client_bindings'[<<l, g>>] = IF l = k THEN NoClientBinding ELSE client_bindings[<<l, g>>]
        /\ client_slot_owners'[<<l, s>>] = IF l = k THEN NoGoal ELSE client_slot_owners[<<l, s>>]
    BY DEF ClientClearAllInstances
  <2>3. NoClientBinding.state = "NONE"
    BY SMTT(60) DEF NoClientBinding, NewClientBinding
  <2> QED
    BY <2>1, <2>2, <2>3, NoGoalAssumption
<1>4. ClientSlotsOwned'
  BY ZenonT(60), <1>3 DEF ClientSlotsOwned
<1> QED
  BY <1>1, <1>2, <1>4

--------------------------------------------------------------------------------
(* The theorems *)

(* The inductive invariant. *)
ClientInv == ClientTablesOK /\ ActionTransportTypeOK

LEMMA ClientStepKeepsInv ==
  ASSUME ClientInv, NEW k \in Connections, OpenClientStep(k)
  PROVE  ClientInv'
<1> USE DEF ClientInv
<1>1. ASSUME NEW p \in ToServer, to_server' = Send(to_server, k, p)
      PROVE  to_server' \in [Connections -> Seq(ToServer)]
  BY ZenonT(60), <1>1, ClientSendType DEF ActionTransportTypeOK
<1>2. ASSUME NEW n \in 0 .. Len(to_client[k]), to_client' = Cleared(to_client, k, n)
      PROVE  to_client' \in [Connections -> Seq(ToClient)]
  BY ZenonT(60), <1>2, ClientClearedType DEF ActionTransportTypeOK
<1>3. UNCHANGED <<client_bindings, client_slot_owners, client_goals>> => ClientTablesOK'
  BY DEF ClientTablesOK, ClientTypeOK, ClientLayersAgree, ClientSlotsOwned
<1>4. PollTimeout(k) => ClientTablesOK'
  BY ZenonT(60), BindingKeepsTables DEF PollTimeout
<1>5. ASSUME NEW g \in Goals, NEW timeout \in GoalTimeouts, SendGoal(k, g, timeout)
      PROVE  ClientInv'
  <2>1. PICK s \in Slots : to_server' = Send(to_server, k, Request("GOAL", g, s))
    BY <1>5 DEF SendGoal, EndpointSendGoal, FreeSlots
  <2>2. Request("GOAL", g, s) \in ToServer
    BY ClientValueTypes
  <2>3. to_server' \in [Connections -> Seq(ToServer)]
    BY <1>1, <2>1, <2>2
  <2>4. ClientTablesOK'
    BY <1>5, ClientGoalComes
  <2> QED
    BY <1>5, <2>3, <2>4 DEF SendGoal, EndpointSendGoal, ActionTransportTypeOK
<1>6. ASSUME NEW g \in Goals, SendCancel(k, g)
      PROVE  ClientInv'
  <2> DEFINE s == client_bindings[<<k, g>>].slot
  <2>1. to_server' = Send(to_server, k, Request("CANCEL", g, s)) /\ UNCHANGED to_client
    BY <1>6 DEF SendCancel, EndpointSendCancel
  <2>2. s \in Slots
    BY DEF ClientTablesOK, ClientTypeOK, ClientPacketBinding
  <2> HIDE DEF s
  <2>3. Request("CANCEL", g, s) \in ToServer
    BY <2>2, ClientValueTypes
  <2>4. to_server' \in [Connections -> Seq(ToServer)]
    BY <1>1, <2>1, <2>3
  <2>5. ClientTablesOK'
    BY ZenonT(60), <1>6, BindingKeepsTables
  <2> QED
    BY <2>1, <2>4, <2>5 DEF ActionTransportTypeOK
<1>7. CASE ClientPoll(k)
  <2>1. CASE to_client[k] # << >> /\ to_client' = Received(to_client, k)
             /\ PollPacket(k, Head(to_client[k])) /\ UNCHANGED to_server
    <3> DEFINE p == Head(to_client[k])
    <3>1. to_client' \in [Connections -> Seq(ToClient)] /\ p \in ToClient
      BY ZenonT(60), <2>1, ClientReceivedType DEF ActionTransportTypeOK
    <3> HIDE DEF p
    <3>2. PollPacket(k, p)
      BY <2>1 DEF p
    <3>3. IsMatched(k, p) => ClientTablesOK'
      BY <3>1, <3>2, PacketKeepsTables
    <3>4. ~IsMatched(k, p) =>
             PollTimeout(k) \/ UNCHANGED <<client_bindings, client_slot_owners, client_goals>>
      BY <3>2 DEF PollPacket, IsMatched, PollGoalAccepted, PollGoalRejected,
                  PollCancelResponse, PollResult, PollFeedback, clientVars
    <3> QED
      BY <1>3, <1>4, <2>1, <3>1, <3>3, <3>4 DEF ActionTransportTypeOK
  <2>2. CASE PollTimeout(k) /\ UNCHANGED <<to_client, to_server>>
    BY <1>4, <2>2 DEF ActionTransportTypeOK
  <2> QED
    BY <1>7, <2>1, <2>2 DEF ClientPoll
<1>8. ASSUME NEW g \in Goals, GoalDeadlinePasses(k, g)
      PROVE  ClientInv'
  <2>1. ClientTablesOK'
    BY ZenonT(60), <1>8, BindingKeepsTables
  <2> QED
    BY <1>8, <2>1 DEF GoalDeadlinePasses, ActionTransportTypeOK
<1>9. ASSUME NEW n \in 0 .. Len(to_client[k]), ClientStop(k, n)
      PROVE  ClientInv'
  BY ZenonT(60), <1>2, <1>3, <1>9 DEF ClientStop, ActionTransportTypeOK
<1>10. ASSUME NEW n \in 0 .. Len(to_client[k]), ClientClearAllInstances(k, n)
       PROVE  ClientInv'
  <2>1. ClientTablesOK'
    BY <1>10, ClientClearKeepsTables
  <2> QED
    BY <1>2, <1>10, <2>1 DEF ClientClearAllInstances, ActionTransportTypeOK
<1> QED
  BY <1>5, <1>6, <1>7, <1>8, <1>9, <1>10 DEF OpenClientStep

LEMMA ClientInvInductive ==
  ClientInv /\ [OpenClientNext]_openClientVars => ClientInv'
<1> SUFFICES ASSUME ClientInv, [OpenClientNext]_openClientVars
             PROVE  ClientInv'
  OBVIOUS
<1>1. UNCHANGED clientVars => ClientTablesOK'
  BY DEF ClientInv, clientVars, ClientTablesOK, ClientTypeOK, ClientLayersAgree,
     ClientSlotsOwned
<1>2. ASSUME NEW k \in Connections, NEW p \in ToClient, PacketArrives(k, p)
      PROVE  ClientInv'
  BY ZenonT(60), <1>1, <1>2, ClientSendType DEF PacketArrives, ClientInv,
     ActionTransportTypeOK
<1>3. ASSUME NEW k \in Connections, RequestDeparts(k)
      PROVE  ClientInv'
  BY ZenonT(60), <1>1, <1>3, ClientReceivedType DEF RequestDeparts, ClientInv,
     ActionTransportTypeOK
<1>4. CASE UNCHANGED openClientVars
  BY <1>1, <1>4 DEF openClientVars, ClientInv, ActionTransportTypeOK
<1> QED
  BY <1>2, <1>3, <1>4, ClientStepKeepsInv DEF OpenClientNext

LEMMA ClientInvInitially == OpenClientInit => ClientInv
<1> SUFFICES ASSUME OpenClientInit PROVE ClientInv
  OBVIOUS
<1> USE DEF OpenClientInit, ClientInit
<1>1. ClientTypeOK
  BY ClientValueTypes DEF ClientTypeOK
<1>2. ClientLayersAgree
  BY ClientValueTypes DEF ClientLayersAgree
<1>3. ClientSlotsOwned
  BY NoGoalAssumption DEF ClientSlotsOwned, NoClientBinding, NewClientBinding
<1>4. ActionTransportTypeOK
  BY DEF ActionTransportTypeOK, ActionTransportInit
<1> QED
  BY <1>1, <1>2, <1>3, <1>4 DEF ClientInv, ClientTablesOK

LEMMA ClientInvHolds == OpenClientSpec => []ClientInv
BY ClientInvInitially, ClientInvInductive, PTL DEF OpenClientSpec

(* The tables and queues of an Action client keep their types. *)
THEOREM ClientTypeCorrect == OpenClientSpec => []OpenClientTypeOK
<1>1. ClientInv => OpenClientTypeOK
  BY DEF ClientInv, ClientTablesOK, OpenClientTypeOK
<1> QED
  BY <1>1, ClientInvHolds, PTL

(* The endpoint's binding, the slot table and the services' GoalInstance always
   agree, so what one layer matches the other accepts, and no slot is shared by
   two Goals or leaks. *)
THEOREM ClientTablesCorrect == OpenClientSpec => []ClientTablesAgree
<1>1. ClientInv => ClientTablesAgree
  BY ZenonT(60) DEF ClientInv, ClientTablesOK, ClientTablesAgree
<1> QED
  BY <1>1, ClientInvHolds, PTL

(* What poll() takes from the queue leaves every timed-out Goal as it is. *)
LEMMA PacketKeepsTimedOut ==
  ASSUME ClientTypeOK, NEW k \in Connections, NEW p \in ToClient, PollPacket(k, p),
         ~PollTimeout(k), NEW h \in Connections \X Goals,
         client_bindings[h].state = "GOAL_RESPONSE_TIMED_OUT"
  PROVE  client_bindings'[h] = client_bindings[h] /\ client_goals'[h] = client_goals[h]
<1>1. CASE IsMatched(k, p)
  <2>1. h # <<k, p.goal>>
    BY <1>1 DEF IsMatched, AnswersGoal, AnswersCancel, DeliversResult, DeliversFeedback,
                ClientBindingIn
  <2>2. client_bindings'[h] = client_bindings[h]
    BY <1>1, <2>1 DEF PollPacket, PollGoalAccepted, PollGoalRejected, PollCancelResponse,
                      PollResult, PollFeedback, ReleaseClientBinding, ClientTypeOK
  <2>3. client_goals'[h] = client_goals[h]
    BY <1>1, <2>1 DEF PollPacket, PollGoalAccepted, PollGoalRejected, PollCancelResponse,
                      PollResult, PollFeedback, MoveClientGoal, ClientTypeOK
  <2> QED
    BY ZenonT(60), <2>2, <2>3
<1>2. CASE ~IsMatched(k, p)
  BY ZenonT(60), <1>2
  DEF PollPacket, IsMatched, PollGoalAccepted, PollGoalRejected, PollCancelResponse,
              PollResult, PollFeedback, clientVars
<1> QED
  BY <1>1, <1>2

(* A Goal that timed out stays quarantined until clear_all_instances. *)
THEOREM QuarantineCorrect == OpenClientSpec => TimedOutGoalQuarantined
<1> DEFINE Still(h) == client_bindings'[h] = client_bindings[h]
                       /\ client_goals'[h] = client_goals[h]
           Kept(h) == \/ Still(h)
                      \/ \A g \in Goals : client_bindings'[<<h[1], g>>] = NoClientBinding
           Quarantined == \A h \in Connections \X Goals :
              client_bindings[h].state = "GOAL_RESPONSE_TIMED_OUT" => Kept(h)
<1>1. ClientInv /\ [OpenClientNext]_openClientVars => [Quarantined]_<<client_bindings, client_goals>>
  <2> SUFFICES ASSUME ClientInv, OpenClientNext, NEW h \in Connections \X Goals,
                      client_bindings[h].state = "GOAL_RESPONSE_TIMED_OUT"
               PROVE  Kept(h)
    BY DEF openClientVars, clientVars
  <2>0. ClientTypeOK /\ ActionTransportTypeOK
    BY ZenonT(60) DEF ClientInv, ClientTablesOK
  <2>1. CASE UNCHANGED <<client_bindings, client_goals>>
    BY ZenonT(60), <2>1
  <2>2. ASSUME NEW k \in Connections, OpenClientStep(k)
        PROVE  Kept(h)
    <3>1. ASSUME NEW g \in Goals, NEW timeout, SendGoal(k, g, timeout) PROVE Still(h)
      <4>1. h # <<k, g>>
        BY <3>1 DEF SendGoal, EndpointSendGoal, ClientBindingIn
      <4>2. PICK b : client_bindings' = [client_bindings EXCEPT ![<<k, g>>] = b]
        BY ZenonT(60), <3>1 DEF SendGoal, EndpointSendGoal
      <4>3. client_goals' = client_goals
        BY <3>1 DEF SendGoal
      <4> QED
        BY <2>0, <4>1, <4>2, <4>3 DEF ClientTypeOK
    <3>2. ASSUME NEW g \in Goals, SendCancel(k, g) PROVE Still(h)
      BY <2>0, <3>2 DEF SendCancel, EndpointSendCancel, ClientBindingIn, ClientTypeOK
    <3>3. ASSUME NEW g \in Goals, GoalDeadlinePasses(k, g) PROVE Still(h)
      BY ZenonT(60), <2>0, <3>3 DEF GoalDeadlinePasses, ClientBindingIn, ClientTypeOK
    <3>4. PollTimeout(k) => Still(h)
      BY ZenonT(60), <2>0 DEF PollTimeout, TimedOut, ClientBindingIn, ClientTypeOK
    <3>5. CASE to_client[k] # << >> /\ PollPacket(k, Head(to_client[k]))
      <4>1. Head(to_client[k]) \in ToClient
        BY <2>0, <3>5, ClientReceivedType DEF ActionTransportTypeOK
      <4> QED
        BY <2>0, <3>4, <3>5, <4>1, PacketKeepsTimedOut
    <3>6. ASSUME NEW n, ClientStop(k, n) PROVE Kept(h)
      BY ZenonT(60), <3>6 DEF ClientStop
    <3>7. ASSUME NEW n, ClientClearAllInstances(k, n) PROVE Kept(h)
      BY <3>7 DEF ClientClearAllInstances
    <3> QED
      BY ZenonT(60), <2>2, <3>1, <3>2, <3>3, <3>4, <3>5, <3>6, <3>7 DEF OpenClientStep,
         ClientPoll
  <2> QED
    BY SMTT(60), <2>1, <2>2 DEF OpenClientNext, PacketArrives, RequestDeparts, clientVars
<1> QED
  BY <1>1, ClientInvHolds, PTL DEF OpenClientSpec, TimedOutGoalQuarantined
=============================================================================
