---------------------------- MODULE ActionStepProofs ----------------------------
(***************************************************************************)
(* What the steps of ActionSystem do to the link between the two ends of a *)
(* Goal: every call and every poll() keeps it.                             *)
(***************************************************************************)
EXTENDS ActionSystem, ActionLinkProofs

(* Both ends of every Goal fit together. *)
Links == LinkAll(client_bindings, bindings, to_server, to_client)

(* No connection is lost, so no runtime cancel is ever queued or decided. *)
NoRuntimeCancel ==
    /\ \A k \in Connections : runtime_events[k] = << >>
    /\ \A h \in Connections \X Goals : goals[h].cancel_origin # "RUNTIME"

(* What the tables of the two sides say by themselves. *)
TablesFit == TypeOK /\ ClientTablesAgree /\ ServerTablesAgree

(* The types the proofs of the links use. *)
LEMMA LinkTypes ==
  ASSUME TablesFit, Links, NEW k \in Connections, NEW g \in Goals
  PROVE  /\ client_bindings \in [Connections \X Goals -> ClientPacketBinding]
         /\ bindings \in [Connections \X Goals -> ActionPacketBinding]
         /\ to_server \in [Connections -> Seq(ToServer)]
         /\ to_client \in [Connections -> Seq(ToClient)]
         /\ client_bindings[<<k, g>>] \in ClientPacketBinding
         /\ bindings[<<k, g>>] \in ActionPacketBinding
         /\ Len(to_client[k]) \in Nat /\ Len(to_server[k]) \in Nat
         /\ Link(g, client_bindings[<<k, g>>], bindings[<<k, g>>], to_server[k], to_client[k])
<1>1. /\ client_bindings \in [Connections \X Goals -> ClientPacketBinding]
      /\ bindings \in [Connections \X Goals -> ActionPacketBinding]
  BY DEF TablesFit, TypeOK, ClientTypeOK, ServerTypeOK
<1>2. /\ to_server \in [Connections -> Seq(ToServer)]
      /\ to_client \in [Connections -> Seq(ToClient)]
  BY DEF TablesFit, TypeOK, ActionTransportTypeOK
<1>3. Len(to_client[k]) \in Nat /\ Len(to_server[k]) \in Nat
  BY <1>2
<1>4. Link(g, client_bindings[<<k, g>>], bindings[<<k, g>>], to_server[k], to_client[k])
  BY ZenonT(60) DEF Links, LinkAll
<1> QED
  BY ZenonT(60), <1>1, <1>2, <1>3, <1>4

(* The packets each side makes. *)
LEMMA PacketTypes ==
  ASSUME NEW g \in Goals, NEW s \in Slots
  PROVE  /\ \A kind \in {"GOAL", "CANCEL"} : Request(kind, g, s) \in ToServer
         /\ \A kind \in {"GOAL", "CANCEL", "RESULT"}, status \in Decision \cup TerminalStatus :
               Response(kind, g, s, status) \in ToClient
         /\ \A n \in FeedbackSequence : Feedback(g, s, n) \in ToClient
<1>1. 0 \in FeedbackSequence
  BY SequenceModulusAssumption DEF FeedbackSequence
<1> QED
  BY <1>1 DEF Request, ToServer, Response, Feedback, ToClient

--------------------------------------------------------------------------------
(* The client's steps *)

LEMMA SendGoalLinks ==
  ASSUME TablesFit, Links, NEW k \in Connections, NEW g \in Goals, NEW timeout,
         SendGoal(k, g, timeout), UNCHANGED bindings
  PROVE  Links'
<1>1. PICK s \in Slots :
         /\ client_bindings' = [client_bindings EXCEPT ![<<k, g>>] = NewClientBinding(s, timeout)]
         /\ to_server' = Send(to_server, k, Request("GOAL", g, s))
  BY ZenonT(60) DEF SendGoal, EndpointSendGoal, FreeSlots
<1> DEFINE b == NewClientBinding(s, timeout)
           p == Request("GOAL", g, s)
<1>2. /\ b.state = "AWAITING_GOAL_RESPONSE" /\ b.slot = s /\ b.next_feedback_sequence = 0
      /\ p.goal = g /\ p.kind = "GOAL" /\ p.slot = s
  BY DEF NewClientBinding, Request
<1>3. p \in ToServer
  BY ZenonT(60), PacketTypes
<1>4. client_bindings[<<k, g>>].state = "NONE" /\ to_client' = to_client
  BY DEF SendGoal, EndpointSendGoal, ClientBindingIn
<1> HIDE DEF b, p
<1>5. \A q2 : Appended(q2, to_server[k], p) => Link(g, b, bindings[<<k, g>>], q2, to_client[k])
  BY ZenonT(60), <1>2, <1>4, LinkTypes, GoalSent
<1>6. LinkAll([client_bindings EXCEPT ![<<k, g>>] = b], bindings, Send(to_server, k, p), to_client)
  BY ZenonT(60), <1>2, <1>3, <1>5, LinkTypes, ClientSends DEF Links
<1> QED
  BY ZenonT(60), <1>1, <1>4, <1>6 DEF Links, b, p

LEMMA SendCancelLinks ==
  ASSUME TablesFit, Links, NEW k \in Connections, NEW g \in Goals,
         SendCancel(k, g), UNCHANGED bindings
  PROVE  Links'
<1> DEFINE c == client_bindings[<<k, g>>]
           b == [c EXCEPT !.state = "AWAITING_CANCEL_RESPONSE"]
           p == Request("CANCEL", g, c.slot)
<1>1. /\ client_bindings' = [client_bindings EXCEPT ![<<k, g>>] = b]
      /\ to_server' = Send(to_server, k, p) /\ to_client' = to_client
      /\ c.state = "ACCEPTED"
  BY DEF SendCancel, EndpointSendCancel, ClientBindingIn
<1>2. /\ b.state = "AWAITING_CANCEL_RESPONSE" /\ b.slot = c.slot
      /\ b.next_feedback_sequence = c.next_feedback_sequence
      /\ p.goal = g /\ p.kind = "CANCEL" /\ p.slot = c.slot /\ c.slot \in Slots
  BY ZenonT(60), LinkTypes DEF ClientPacketBinding, Request
<1>3. p \in ToServer
  BY ZenonT(60), <1>2, PacketTypes
<1> HIDE DEF b, p
<1>4. \A q2 : Appended(q2, to_server[k], p) => Link(g, b, bindings[<<k, g>>], q2, to_client[k])
  BY ZenonT(60), <1>1, <1>2, LinkTypes, CancelSent
<1>5. LinkAll([client_bindings EXCEPT ![<<k, g>>] = b], bindings, Send(to_server, k, p), to_client)
  BY ZenonT(60), <1>2, <1>3, <1>4, LinkTypes, ClientSends DEF Links
<1> QED
  BY ZenonT(60), <1>1, <1>5 DEF Links

(* The deadline of a Goal passes, or its timeout is reported; tc is the queue
   that poll() leaves. *)
LEMMA TimeoutLinks ==
  ASSUME TablesFit, NEW tc, LinkAll(client_bindings, bindings, to_server, tc),
         NEW k \in Connections, NEW g \in Goals,
         \/ TimedOut(k, g) /\ client_bindings' = [client_bindings EXCEPT ![<<k, g>>].state =
                                                     "GOAL_RESPONSE_TIMED_OUT"]
         \/ client_bindings' = [client_bindings EXCEPT ![<<k, g>>].deadline = "passed"]
  PROVE  LinkAll(client_bindings', bindings, to_server, tc)
<1> DEFINE c == client_bindings[<<k, g>>]
<1>1. c \in ClientPacketBinding /\ client_bindings \in [Connections \X Goals -> ClientPacketBinding]
  BY DEF TablesFit, TypeOK, ClientTypeOK
<1>2. Link(g, c, bindings[<<k, g>>], to_server[k], tc[k])
  BY ZenonT(60) DEF LinkAll
<1>3. ASSUME NEW b, client_bindings' = [client_bindings EXCEPT ![<<k, g>>] = b],
             \/ b.state = c.state
             \/ c.state = "AWAITING_GOAL_RESPONSE" /\ b.state = "GOAL_RESPONSE_TIMED_OUT",
             b.slot = c.slot, b.next_feedback_sequence = c.next_feedback_sequence
      PROVE  LinkAll(client_bindings', bindings, to_server, tc)
  <2>1. Link(g, b, bindings[<<k, g>>], to_server[k], tc[k])
    BY ZenonT(60), <1>2, <1>3, GoalTimesOut
  <2> QED
    BY ZenonT(60), <1>1, <1>3, <2>1, ClientChanges
<1>4. CASE TimedOut(k, g) /\ client_bindings' = [client_bindings EXCEPT ![<<k, g>>].state =
                                                    "GOAL_RESPONSE_TIMED_OUT"]
  <2> DEFINE b == [c EXCEPT !.state = "GOAL_RESPONSE_TIMED_OUT"]
  <2>1. c.state = "AWAITING_GOAL_RESPONSE" /\ client_bindings' = [client_bindings EXCEPT ![<<k, g>>] = b]
    BY ZenonT(60), <1>4 DEF TimedOut, ClientBindingIn
  <2>2. /\ b.state = "GOAL_RESPONSE_TIMED_OUT" /\ b.slot = c.slot
        /\ b.next_feedback_sequence = c.next_feedback_sequence
    BY <1>1 DEF ClientPacketBinding
  <2> HIDE DEF b, c
  <2> QED
    BY ZenonT(60), <1>3, <2>1, <2>2
<1>5. CASE client_bindings' = [client_bindings EXCEPT ![<<k, g>>].deadline = "passed"]
  <2> DEFINE b == [c EXCEPT !.deadline = "passed"]
  <2>1. client_bindings' = [client_bindings EXCEPT ![<<k, g>>] = b]
    BY <1>5
  <2>2. /\ b.state = c.state /\ b.slot = c.slot
        /\ b.next_feedback_sequence = c.next_feedback_sequence
    BY ZenonT(60), <1>1 DEF ClientPacketBinding
  <2> HIDE DEF b, c
  <2> QED
    BY ZenonT(60), <1>3, <2>1, <2>2
<1> QED
  BY ZenonT(60), <1>4, <1>5

(* What is at the head of the client's queue: its Goal's binding and the packet. *)
LEMMA HeadMatches ==
  ASSUME TablesFit, Links, NEW k \in Connections, to_client[k] # << >>
  PROVE  LET p == Head(to_client[k]) IN
         /\ p \in ToClient /\ p.goal \in Goals
         /\ IsMatched(k, p) \/ ClientBindingIn(k, p.goal, {"GOAL_RESPONSE_TIMED_OUT"})
<1> DEFINE p == Head(to_client[k])
           g == p.goal
           c == client_bindings[<<k, g>>]
           r2 == Received(to_client, k)[k]
<1>1. to_client \in [Connections -> Seq(ToClient)]
  BY ZenonT(60) DEF TablesFit, TypeOK, ActionTransportTypeOK
<1>2. p \in ToClient /\ g \in Goals
  <2>1. p \in ToClient
    BY <1>1
  <2> QED
    BY <2>1 DEF ToClient
<1>3. Polled(r2, to_client[k]) /\ to_client[k][1] = p
  BY ZenonT(60), <1>1, QueuePolled
<1>4. /\ Link(g, c, bindings[<<k, g>>], to_server[k], to_client[k])
      /\ c \in ClientPacketBinding
  BY ZenonT(60), <1>2, LinkTypes
<1>5. c.state \in {"NONE"} \cup Unanswered \cup Underway
  BY SMTT(60), <1>4 DEF ClientPacketBinding, BindingState, Unanswered, Underway
<1> HIDE DEF p, c, r2
<1>6. c.state # "GOAL_RESPONSE_TIMED_OUT" => Expected(p, c)
  BY ZenonT(60), <1>3, <1>4, <1>5, HeadIsExpected
<1>7. IsMatched(k, p) \/ ClientBindingIn(k, p.goal, {"GOAL_RESPONSE_TIMED_OUT"})
  BY SMTT(60), <1>6
  DEF Expected, IsMatched, AnswersGoal, AnswersCancel, DeliversResult, DeliversFeedback,
     ClientBindingIn, Underway, c
<1> QED
  BY ZenonT(60), <1>2, <1>7 DEF p

(* poll() with a packet in the queue. *)
LEMMA PacketLinks ==
  ASSUME TablesFit, Links, NEW k \in Connections, to_client[k] # << >>,
         PollPacket(k, Head(to_client[k]))
  PROVE  LinkAll(client_bindings', bindings, to_server, Received(to_client, k))
<1> DEFINE p == Head(to_client[k])
           g == p.goal
           c == client_bindings[<<k, g>>]
           s == bindings[<<k, g>>]
           tc == Received(to_client, k)
<1>1. /\ p \in ToClient /\ g \in Goals
      /\ IsMatched(k, p) \/ ClientBindingIn(k, g, {"GOAL_RESPONSE_TIMED_OUT"})
  BY ZenonT(60), HeadMatches
<1>2. /\ client_bindings \in [Connections \X Goals -> ClientPacketBinding]
      /\ to_client \in [Connections -> Seq(ToClient)] /\ c \in ClientPacketBinding
      /\ Link(g, c, s, to_server[k], to_client[k])
  BY ZenonT(60), <1>1, LinkTypes
<1>3. p = to_client[k][1]
  BY ZenonT(60), <1>2, QueuePolled
<1>4. PollPacket(k, p)
  BY ZenonT(60)
<1>5. ASSUME NEW b,
             \A r2 : Polled(r2, to_client[k]) => Link(g, b, s, to_server[k], r2)
      PROVE  LinkAll([client_bindings EXCEPT ![<<k, g>>] = b], bindings, to_server, tc)
  BY ZenonT(60), <1>1, <1>2, <1>5, ClientPolls DEF Links
<1> HIDE DEF p, tc
<1>6. CASE PollGoalAccepted(k, p)
  <2> DEFINE b == [c EXCEPT !.state = "ACCEPTED"]
  <2>1. /\ p.kind = "GOAL" /\ p.status = "ACCEPTED" /\ c.state = "AWAITING_GOAL_RESPONSE"
        /\ client_bindings' = [client_bindings EXCEPT ![<<k, g>>] = b]
    BY <1>6 DEF PollGoalAccepted, AnswersGoal, ClientBindingIn
  <2>2. /\ b.state = "ACCEPTED" /\ b.slot = c.slot
        /\ b.next_feedback_sequence = c.next_feedback_sequence
    BY ZenonT(60), <1>2 DEF ClientPacketBinding
  <2>3. b.state = IF p.status = "ACCEPTED" THEN "ACCEPTED" ELSE "NONE"
    BY <2>1, <2>2
  <2> HIDE DEF b, c, s, g
  <2>4. \A r2 : Polled(r2, to_client[k]) => Link(g, b, s, to_server[k], r2)
    BY ZenonT(60), <1>2, <1>3, <2>1, <2>2, <2>3, GoalAnswerPolled DEF g
  <2> QED
    BY ZenonT(60), <1>5, <2>1, <2>4 DEF tc
<1>7. CASE PollGoalRejected(k, p)
  <2> DEFINE b == NoClientBinding
  <2>1. /\ p.kind = "GOAL" /\ p.status = "REJECTED" /\ c.state = "AWAITING_GOAL_RESPONSE"
        /\ client_bindings' = [client_bindings EXCEPT ![<<k, g>>] = b]
    BY ZenonT(60), <1>7 DEF PollGoalRejected, AnswersGoal, ClientBindingIn, ReleaseClientBinding
  <2>2. b.state = IF p.status = "ACCEPTED" THEN "ACCEPTED" ELSE "NONE"
    BY <2>1 DEF NoClientBinding, NewClientBinding
  <2>3. p.status # "ACCEPTED"
    BY ZenonT(60), <2>1
  <2> HIDE DEF b, c, s, g
  <2>4. \A r2 : Polled(r2, to_client[k]) => Link(g, b, s, to_server[k], r2)
    BY ZenonT(60), <1>2, <1>3, <2>1, <2>2, <2>3, GoalAnswerPolled DEF g
  <2> QED
    BY ZenonT(60), <1>5, <2>1, <2>4 DEF tc
<1>8. CASE PollCancelResponse(k, p)
  <2> DEFINE state == IF p.status = "ACCEPTED" THEN "CANCELING" ELSE "ACCEPTED"
             b == [c EXCEPT !.state = state]
  <2>1. /\ p.kind = "CANCEL" /\ c.state = "AWAITING_CANCEL_RESPONSE"
        /\ client_bindings' = [client_bindings EXCEPT ![<<k, g>>] = b]
    BY <1>8 DEF PollCancelResponse, AnswersCancel, ClientBindingIn
  <2>2. /\ b.state = IF p.status = "ACCEPTED" THEN "CANCELING" ELSE "ACCEPTED"
        /\ b.slot = c.slot /\ b.next_feedback_sequence = c.next_feedback_sequence
    BY ZenonT(60), <1>2 DEF ClientPacketBinding
  <2> HIDE DEF b, c, s, g
  <2>3. \A r2 : Polled(r2, to_client[k]) => Link(g, b, s, to_server[k], r2)
    BY ZenonT(60), <1>2, <1>3, <2>1, <2>2, CancelAnswerPolled DEF g
  <2> QED
    BY ZenonT(60), <1>5, <2>1, <2>3 DEF tc
<1>9. CASE PollResult(k, p)
  <2> DEFINE b == NoClientBinding
  <2>1. /\ p.kind = "RESULT"
        /\ client_bindings' = [client_bindings EXCEPT ![<<k, g>>] = b]
    BY <1>9 DEF PollResult, DeliversResult, ReleaseClientBinding
  <2>2. b.state = "NONE"
    BY ZenonT(60) DEF NoClientBinding, NewClientBinding
  <2> HIDE DEF b, c, s, g
  <2>3. \A r2 : Polled(r2, to_client[k]) => Link(g, b, s, to_server[k], r2)
    BY ZenonT(60), <1>2, <1>3, <2>1, <2>2, ResultPolled DEF g
  <2> QED
    BY ZenonT(60), <1>5, <2>1, <2>3 DEF tc
<1>10. CASE PollFeedback(k, p)
  <2> DEFINE b == [c EXCEPT !.next_feedback_sequence = NextSequence(@)]
  <2>1. /\ p.kind = "FEEDBACK" /\ c.state \in Underway
        /\ client_bindings' = [client_bindings EXCEPT ![<<k, g>>] = b]
    BY <1>10 DEF PollFeedback, DeliversFeedback, ClientBindingIn, Underway
  <2>2. /\ b.state = c.state /\ b.slot = c.slot
        /\ b.next_feedback_sequence = NextSequence(c.next_feedback_sequence)
    BY ZenonT(60), <1>2 DEF ClientPacketBinding
  <2> HIDE DEF b, c, s, g
  <2>3. \A r2 : Polled(r2, to_client[k]) => Link(g, b, s, to_server[k], r2)
    BY ZenonT(60), <1>2, <1>3, <2>1, <2>2, FeedbackTaken DEF g
  <2> QED
    BY ZenonT(60), <1>5, <2>1, <2>3 DEF tc
<1>11. CASE ~IsMatched(k, p)
  <2>1. c.state = "GOAL_RESPONSE_TIMED_OUT"
    BY <1>1, <1>11 DEF ClientBindingIn
  <2>2. client_bindings = [client_bindings EXCEPT ![<<k, g>>] = c]
    BY ZenonT(60), <1>1, <1>2
  <2> HIDE DEF c, s, g
  <2>3. \A r2 : Polled(r2, to_client[k]) => Link(g, c, s, to_server[k], r2)
    BY ZenonT(60), <1>2, <1>3, <2>1, LatePacketPolled DEF g
  <2>4. LinkAll(client_bindings, bindings, to_server, tc)
    BY ZenonT(60), <1>5, <2>2, <2>3
  <2>5. PollTimeout(k) \/ client_bindings' = client_bindings
    BY ZenonT(60), <1>4, <1>11 DEF PollPacket, IsMatched, PollGoalAccepted, PollGoalRejected,
                PollCancelResponse, PollResult, PollFeedback, clientVars
  <2>6. CASE PollTimeout(k)
    BY ZenonT(60), <2>4, <2>6, TimeoutLinks DEF PollTimeout, tc
  <2> QED
    BY ZenonT(60), <2>4, <2>5, <2>6 DEF tc
<1> QED
  BY ZenonT(60), <1>4, <1>6, <1>7, <1>8, <1>9, <1>10, <1>11 DEF PollPacket, tc

LEMMA ClientPollLinks ==
  ASSUME TablesFit, Links, NEW k \in Connections, ClientPoll(k), UNCHANGED bindings
  PROVE  Links'
<1>1. CASE to_client[k] # << >> /\ to_client' = Received(to_client, k)
           /\ PollPacket(k, Head(to_client[k])) /\ UNCHANGED to_server
  BY ZenonT(60), <1>1, PacketLinks DEF Links
<1>2. CASE PollTimeout(k) /\ UNCHANGED <<to_client, to_server>>
  BY ZenonT(60), <1>2, TimeoutLinks DEF PollTimeout, Links
<1> QED
  BY ZenonT(60), <1>1, <1>2 DEF ClientPoll

--------------------------------------------------------------------------------
(* The server's steps *)

(* What a request in the queue says of the two ends of its Goal. *)
LEMMA RequestInQueue ==
  ASSUME TablesFit, Links, NEW k \in Connections, NEW i \in DOMAIN to_server[k]
  PROVE  LET p == to_server[k][i] IN
         /\ p \in ToServer /\ p.goal \in Goals /\ p.slot \in Slots
         /\ RequestOK(p, client_bindings[<<k, p.goal>>], bindings[<<k, p.goal>>],
                      Packets(to_client[k], p.goal))
<1> DEFINE p == to_server[k][i]
           g == p.goal
<1>1. to_server \in [Connections -> Seq(ToServer)]
  BY ZenonT(60) DEF TablesFit, TypeOK, ActionTransportTypeOK
<1>2. p \in ToServer /\ p.goal \in Goals /\ p.slot \in Slots /\ i \in 1 .. Len(to_server[k])
  <2>1. to_server[k] \in Seq(ToServer)
    BY ZenonT(60), <1>1
  <2>2. p \in ToServer /\ i \in 1 .. Len(to_server[k])
    BY <2>1
  <2> HIDE DEF p
  <2> QED
    BY <2>2 DEF ToServer
<1>3. p \in Packets(to_server[k], g)
  BY ZenonT(60), <1>2 DEF Packets
<1>4. Link(g, client_bindings[<<k, g>>], bindings[<<k, g>>], to_server[k], to_client[k])
  BY ZenonT(60), <1>2, LinkTypes
<1> HIDE DEF p
<1>5. RequestOK(p, client_bindings[<<k, g>>], bindings[<<k, g>>], Packets(to_client[k], g))
  BY ZenonT(60), <1>3, <1>4 DEF Link, Exchange
<1> QED
  BY <1>2, <1>5 DEF p

LEMMA RequestIsFresh ==
  ASSUME TablesFit, Links, NEW k \in Connections, NEW i \in DOMAIN to_server[k],
         to_server[k][i].kind = "GOAL"
  PROVE  /\ bindings[<<k, to_server[k][i].goal>>].state = "NONE"
         /\ slot_owners[<<k, to_server[k][i].slot>>] = NoGoal
<1> DEFINE p == to_server[k][i]
           g == p.goal
<1>1. /\ g \in Goals /\ p.slot \in Slots
      /\ RequestOK(p, client_bindings[<<k, g>>], bindings[<<k, g>>], Packets(to_client[k], g))
  BY ZenonT(60), RequestInQueue
<1> HIDE DEF p
<1>2. /\ bindings[<<k, g>>].state = "NONE"
      /\ client_bindings[<<k, g>>].state # "NONE" /\ client_bindings[<<k, g>>].slot = p.slot
  BY <1>1 DEF RequestOK, Unanswered, p
<1>3. ASSUME NEW h \in Goals, slot_owners[<<k, p.slot>>] = h
      PROVE  FALSE
  <2>1. bindings[<<k, h>>].state # "NONE" /\ bindings[<<k, h>>].slot = p.slot
    <3>1. ServerSlotsOwned
      BY ZenonT(60) DEF TablesFit, ServerTablesAgree
    <3> QED
      BY <1>1, <1>3, <3>1 DEF ServerSlotsOwned
  <2>2. Link(h, client_bindings[<<k, h>>], bindings[<<k, h>>], to_server[k], to_client[k])
    BY ZenonT(60), LinkTypes
  <2>3. client_bindings[<<k, h>>].state # "NONE" /\ client_bindings[<<k, h>>].slot = p.slot
    BY ZenonT(60), <2>1, <2>2 DEF Link, Exchange, EndsOK
  <2>4. client_slot_owners[<<k, p.slot>>] = h /\ client_slot_owners[<<k, p.slot>>] = g
    <3>1. ClientSlotsOwned
      BY ZenonT(60) DEF TablesFit, ClientTablesAgree
    <3> QED
      BY <1>1, <1>2, <2>3, <3>1 DEF ClientSlotsOwned
  <2> QED
    BY ZenonT(60), <1>2, <2>1, <2>4
<1>4. slot_owners[<<k, p.slot>>] \in Goals \cup {NoGoal}
  BY <1>1 DEF TablesFit, TypeOK, ServerTypeOK
<1> QED
  BY ZenonT(60), <1>2, <1>3, <1>4 DEF p

(* poll() with a request in the queue. *)
LEMMA EndpointPollLinks ==
  ASSUME TablesFit, Links, NEW k \in Connections, NEW sent, EndpointPoll(k, sent),
         UNCHANGED client_bindings
  PROVE  /\ Links'
         /\ PollGoalRequest(k, Head(to_server[k])) \/ PollCancelRequest(k, Head(to_server[k]))
            \/ UNCHANGED <<bindings, slot_owners, goals>>
<1> DEFINE p == Head(to_server[k])
           g == p.goal
           c == client_bindings[<<k, g>>]
           s == bindings[<<k, g>>]
<1>1. to_server[k] # << >> /\ to_server' = Received(to_server, k)
  BY DEF EndpointPoll
<1>2. to_server \in [Connections -> Seq(ToServer)]
  BY ZenonT(60) DEF TablesFit, TypeOK, ActionTransportTypeOK
<1>3. p = to_server[k][1] /\ 1 \in DOMAIN to_server[k]
  BY <1>1, <1>2
<1>4. /\ p \in ToServer /\ g \in Goals
      /\ RequestOK(p, c, s, Packets(to_client[k], g))
  BY ZenonT(60), <1>3, RequestInQueue
<1>5. p.kind = "GOAL" => s.state = "NONE" /\ slot_owners[<<k, p.slot>>] = NoGoal
  BY ZenonT(60), <1>3, RequestIsFresh
<1>6. \/ p.kind = "CANCEL" /\ PollCancelRequest(k, p)
      \/ PollDropped(k, p)
      \/ p.kind = "GOAL" /\ PollGoalRefused(k, p, sent)
      \/ p.kind = "GOAL" /\ PollGoalRequest(k, p)
  BY ZenonT(60) DEF EndpointPoll
<1>7. /\ bindings \in [Connections \X Goals -> ActionPacketBinding] /\ s \in ActionPacketBinding
      /\ Link(g, c, s, to_server[k], to_client[k]) /\ Len(to_client[k]) \in Nat
  BY ZenonT(60), <1>4, LinkTypes
<1>8. ASSUME NEW b,
             \A q2 : Polled(q2, to_server[k]) => Link(g, c, b, q2, to_client[k])
      PROVE  LinkAll(client_bindings, [bindings EXCEPT ![<<k, g>>] = b],
                     Received(to_server, k), to_client)
  BY ZenonT(60), <1>1, <1>2, <1>4, <1>7, <1>8, ServerPolls DEF Links
<1>9. p.kind # "MALFORMED"
  BY <1>4 DEF RequestOK
<1> HIDE DEF p
<1>10. CASE p.kind = "GOAL" /\ PollGoalRequest(k, p)
  <2> DEFINE b == NewBinding(p.slot)
  <2>1. bindings' = [bindings EXCEPT ![<<k, g>>] = b] /\ to_client' = to_client
    BY <1>10 DEF PollGoalRequest
  <2>2. /\ b.state = "AWAITING_GOAL_DECISION" /\ b.slot = p.slot
        /\ ~b.cancel_decision_pending /\ b.next_feedback_sequence = 0
    BY ZenonT(60) DEF NewBinding
  <2> HIDE DEF b, c, s, g
  <2>3. \A q2 : Polled(q2, to_server[k]) => Link(g, c, b, q2, to_client[k])
    BY ZenonT(60), <1>3, <1>7, <1>10, <2>2, GoalPolled DEF g
  <2>4. LinkAll(client_bindings, bindings', to_server', to_client')
    BY ZenonT(60), <1>1, <1>8, <2>1, <2>3
  <2> QED
    BY ZenonT(60), <1>10, <2>4 DEF Links, p
<1>11. CASE p.kind = "CANCEL" /\ PollCancelRequest(k, p)
  <2> DEFINE b == [s EXCEPT !.cancel_decision_pending = TRUE]
  <2>1. /\ bindings' = [bindings EXCEPT ![<<k, g>>] = b] /\ to_client' = to_client
        /\ s.state = "GOAL_ACCEPTED"
    BY ZenonT(60), <1>11 DEF PollCancelRequest, CancelIsReported, BindingIn
  <2>2. /\ b.state = s.state /\ b.slot = s.slot
        /\ b.cancel_decision_pending /\ b.next_feedback_sequence = s.next_feedback_sequence
    BY <1>7 DEF ActionPacketBinding
  <2> HIDE DEF b, c, s, g
  <2>3. \A q2 : Polled(q2, to_server[k]) => Link(g, c, b, q2, to_client[k])
    BY ZenonT(60), <1>3, <1>7, <1>11, <2>1, <2>2, CancelPolled DEF g
  <2>4. LinkAll(client_bindings, bindings', to_server', to_client')
    BY ZenonT(60), <1>1, <1>8, <2>1, <2>3
  <2> QED
    BY ZenonT(60), <1>11, <2>4 DEF Links, p
<1>12. CASE PollDropped(k, p)
  <2>1. /\ p.kind = "CANCEL" /\ UNCHANGED <<bindings, slot_owners, goals, to_client>>
        /\ ~(s.state = "GOAL_ACCEPTED" /\ s.slot = p.slot /\ ~s.cancel_decision_pending)
    BY ZenonT(60), <1>9, <1>12 DEF PollDropped, CancelIsReported, BindingIn
  <2>2. bindings = [bindings EXCEPT ![<<k, g>>] = s]
    BY ZenonT(60), <1>4, <1>7
  <2> HIDE DEF c, s, g
  <2>3. \A q2 : Polled(q2, to_server[k]) => Link(g, c, s, q2, to_client[k])
    BY ZenonT(60), <1>3, <1>7, <2>1, CancelDropped DEF g
  <2>4. LinkAll(client_bindings, bindings', to_server', to_client')
    BY ZenonT(60), <1>1, <1>8, <2>1, <2>2, <2>3
  <2> QED
    BY ZenonT(60), <2>1, <2>4 DEF Links
<1>13. CASE p.kind = "GOAL" /\ PollGoalRefused(k, p, sent)
  BY <1>5, <1>13 DEF PollGoalRefused
<1> QED
  BY ZenonT(60), <1>6, <1>10, <1>11, <1>12, <1>13

(* What the two layers of the server say of a Goal, and the frame of a send. *)
LEMMA ServerEnd ==
  ASSUME TablesFit, Links, NEW k \in Connections, NEW g \in Goals
  PROVE  /\ bindings[<<k, g>>] \in ActionPacketBinding
         /\ goals[<<k, g>>] \in ServerGoalContext
         /\ bindings[<<k, g>>].slot \in Slots
         /\ bindings[<<k, g>>].next_feedback_sequence \in FeedbackSequence
         /\ bindings[<<k, g>>].cancel_decision_pending =>
               bindings[<<k, g>>].state = "GOAL_ACCEPTED"
         /\ Link(g, client_bindings[<<k, g>>], bindings[<<k, g>>], to_server[k], to_client[k])
         /\ \A b, p : /\ p \in ToClient /\ p.goal = g
                      /\ \A r2 : Appended(r2, to_client[k], p) =>
                             Link(g, client_bindings[<<k, g>>], b, to_server[k], r2)
                      => LinkAll(client_bindings, [bindings EXCEPT ![<<k, g>>] = b], to_server,
                                 Send(to_client, k, p))
<1>1. /\ bindings[<<k, g>>] \in ActionPacketBinding
      /\ bindings \in [Connections \X Goals -> ActionPacketBinding]
      /\ to_client \in [Connections -> Seq(ToClient)]
      /\ Link(g, client_bindings[<<k, g>>], bindings[<<k, g>>], to_server[k], to_client[k])
  BY ZenonT(60), LinkTypes
<1>2. goals[<<k, g>>] \in ServerGoalContext
  BY ZenonT(60) DEF TablesFit, TypeOK, ServerTypeOK
<1>3. /\ bindings[<<k, g>>].slot \in Slots
      /\ bindings[<<k, g>>].next_feedback_sequence \in FeedbackSequence
  BY <1>1 DEF ActionPacketBinding
<1>4. bindings[<<k, g>>].cancel_decision_pending => bindings[<<k, g>>].state = "GOAL_ACCEPTED"
  BY ZenonT(60) DEF TablesFit, ServerTablesAgree, ServerLayersAgree, ServerAgree
<1>5. ASSUME NEW b, NEW p \in ToClient, p.goal = g,
             \A r2 : Appended(r2, to_client[k], p) =>
                 Link(g, client_bindings[<<k, g>>], b, to_server[k], r2)
      PROVE  LinkAll(client_bindings, [bindings EXCEPT ![<<k, g>>] = b], to_server,
                     Send(to_client, k, p))
  BY ZenonT(60), <1>1, <1>5, ServerSends DEF Links
<1> QED
  BY ZenonT(60), <1>1, <1>2, <1>3, <1>4, <1>5

LEMMA GoalDecisionLinks ==
  ASSUME TablesFit, Links, NEW k \in Connections, NEW g \in Goals,
         AcceptGoal(k, g) \/ RejectGoal(k, g), UNCHANGED client_bindings
  PROVE  Links'
<1> DEFINE s == bindings[<<k, g>>]
           status == IF AcceptGoal(k, g) THEN "ACCEPTED" ELSE "REJECTED"
           b == IF AcceptGoal(k, g) THEN [s EXCEPT !.state = "GOAL_ACCEPTED"] ELSE NoBinding
           p == Response("GOAL", g, s.slot, status)
<1>1. /\ bindings' = [bindings EXCEPT ![<<k, g>>] = b] /\ to_server' = to_server
      /\ to_client' = Send(to_client, k, p) /\ s.state = "AWAITING_GOAL_DECISION"
  <2>1. CASE AcceptGoal(k, g)
    BY ZenonT(60), <2>1 DEF AcceptGoal, EndpointAcceptGoal, BindingIn, SendResponse
  <2>2. CASE ~AcceptGoal(k, g) /\ RejectGoal(k, g)
    BY <2>2 DEF RejectGoal, EndpointRejectGoal, BindingIn, SendResponse, ReleaseBinding
  <2> QED
    BY <2>1, <2>2
<1>2. /\ p.goal = g /\ p.kind = "GOAL" /\ p.slot = s.slot /\ p.status = status
  BY ZenonT(60) DEF Response
<1>3. p \in ToClient
  BY ZenonT(60), ServerEnd, PacketTypes DEF Decision
<1>4. /\ ~b.cancel_decision_pending
      /\ \/ /\ status = "ACCEPTED" /\ b.state = "GOAL_ACCEPTED" /\ b.slot = s.slot
            /\ b.next_feedback_sequence = s.next_feedback_sequence
         \/ status = "REJECTED" /\ b.state = "NONE"
  BY ZenonT(60), <1>1, ServerEnd DEF ActionPacketBinding, NoBinding, NewBinding
<1> HIDE DEF b, p, s, status
<1>5. \A r2 : Appended(r2, to_client[k], p) =>
          Link(g, client_bindings[<<k, g>>], b, to_server[k], r2)
  <2>1. Link(g, client_bindings[<<k, g>>], s, to_server[k], to_client[k])
    BY ZenonT(60), ServerEnd DEF s
  <2> QED
    BY ZenonT(60), <1>1, <1>2, <1>4, <2>1, GoalDecided
<1>6. LinkAll(client_bindings, [bindings EXCEPT ![<<k, g>>] = b], to_server,
              Send(to_client, k, p))
  BY ZenonT(60), <1>2, <1>3, <1>5, ServerEnd
<1> QED
  BY ZenonT(60), <1>1, <1>6 DEF Links

(* With no runtime cancel about, a decision is always the answer to a client. *)
LEMMA DecisionIsForClient ==
  ASSUME NEW c \in ServerGoalContext, NEW event \in {"ACCEPT_CANCEL", "REJECT_CANCEL"},
         TransitionServerGoal(c, event).kind = "TRANSITIONED", c.cancel_origin # "RUNTIME"
  PROVE  c.cancel_origin = "CLIENT"
<1>1. TransitionServerGoal(c, event) =
         IF ~IsValidServerContext(c) THEN Error(c)
         ELSE DecideCancel(c, IF event = "ACCEPT_CANCEL" THEN "CANCELING" ELSE "EXECUTING")
  BY DEF TransitionServerGoal
<1>2. Error(c).kind # "TRANSITIONED"
  BY DEF Error
<1>3. c.cancel_origin # "NONE"
  BY <1>1, <1>2 DEF DecideCancel
<1> QED
  BY ZenonT(60), <1>3 DEF ServerGoalContext, CancelOrigin

LEMMA CancelDecisionLinks ==
  ASSUME TablesFit, NoRuntimeCancel, Links, NEW k \in Connections, NEW g \in Goals,
         AcceptCancel(k, g) \/ RejectCancel(k, g), UNCHANGED client_bindings
  PROVE  Links'
<1> DEFINE s == bindings[<<k, g>>]
           status == IF AcceptCancel(k, g) THEN "ACCEPTED" ELSE "REJECTED"
           b == [s EXCEPT !.state = IF AcceptCancel(k, g) THEN "CANCEL_ACCEPTED" ELSE @,
                          !.cancel_decision_pending = FALSE]
           p == Response("CANCEL", g, s.slot, status)
<1>1. goals[<<k, g>>].cancel_origin = "CLIENT"
  <2>1. PICK event \in {"ACCEPT_CANCEL", "REJECT_CANCEL"} :
          TransitionServerGoal(goals[<<k, g>>], event).kind = "TRANSITIONED"
    BY DEF AcceptCancel, RejectCancel, Transition
  <2>2. goals[<<k, g>>].cancel_origin # "RUNTIME"
    BY DEF NoRuntimeCancel
  <2> QED
    BY ZenonT(60), <2>1, <2>2, ServerEnd, DecisionIsForClient
<1>2. s \in ActionPacketBinding
  BY ZenonT(60), ServerEnd
<1>3. /\ bindings' = [bindings EXCEPT ![<<k, g>>] = b] /\ to_server' = to_server
      /\ to_client' = Send(to_client, k, p)
      /\ s.state = "GOAL_ACCEPTED" /\ s.cancel_decision_pending
  <2>1. CASE AcceptCancel(k, g)
    BY ZenonT(60), <1>1, <1>2, <2>1
    DEF AcceptCancel, EndpointAcceptCancel, BindingIn, SendResponse
  <2>2. CASE ~AcceptCancel(k, g) /\ RejectCancel(k, g)
    <3>1. b = [s EXCEPT !.cancel_decision_pending = FALSE]
      BY ZenonT(60), <1>2, <2>2 DEF ActionPacketBinding
    <3> HIDE DEF b
    <3> QED
      BY ZenonT(60), <1>1, <1>2, <2>2, <3>1
      DEF RejectCancel, EndpointRejectCancel, BindingIn, SendResponse
  <2> QED
    BY <2>1, <2>2
<1>4. /\ p.goal = g /\ p.kind = "CANCEL" /\ p.slot = s.slot /\ p.status = status
  BY ZenonT(60) DEF Response
<1>5. p \in ToClient
  BY ZenonT(60), ServerEnd, PacketTypes DEF Decision
<1>6. /\ ~b.cancel_decision_pending /\ b.slot = s.slot
      /\ b.next_feedback_sequence = s.next_feedback_sequence
      /\ \/ status = "ACCEPTED" /\ b.state = "CANCEL_ACCEPTED"
         \/ status = "REJECTED" /\ b.state = "GOAL_ACCEPTED"
  BY <1>2, <1>3 DEF ActionPacketBinding
<1> HIDE DEF b, p, s, status
<1>7. \A r2 : Appended(r2, to_client[k], p) =>
          Link(g, client_bindings[<<k, g>>], b, to_server[k], r2)
  <2>1. Link(g, client_bindings[<<k, g>>], s, to_server[k], to_client[k])
    BY ZenonT(60), ServerEnd DEF s
  <2> QED
    BY ZenonT(60), <1>3, <1>4, <1>6, <2>1, CancelDecided
<1>8. LinkAll(client_bindings, [bindings EXCEPT ![<<k, g>>] = b], to_server,
              Send(to_client, k, p))
  BY ZenonT(60), <1>4, <1>5, <1>7, ServerEnd
<1> QED
  BY ZenonT(60), <1>3, <1>8 DEF Links

LEMMA FeedbackLinks ==
  ASSUME TablesFit, Links, NEW k \in Connections, NEW g \in Goals,
         SendFeedback(k, g), UNCHANGED client_bindings
  PROVE  Links'
<1> DEFINE s == bindings[<<k, g>>]
           b == [s EXCEPT !.next_feedback_sequence = NextSequence(@)]
           p == Feedback(g, s.slot, s.next_feedback_sequence)
<1>1. /\ bindings' = [bindings EXCEPT ![<<k, g>>] = b] /\ to_server' = to_server
      /\ to_client' = Send(to_client, k, p)
      /\ s.state \in {"GOAL_ACCEPTED", "CANCEL_ACCEPTED"}
  BY ZenonT(60) DEF SendFeedback, EndpointSendFeedback, BindingIn
<1>2. /\ p.goal = g /\ p.kind = "FEEDBACK" /\ p.slot = s.slot
      /\ p.sequence = s.next_feedback_sequence
  BY ZenonT(60) DEF Feedback
<1>3. p \in ToClient
  BY ZenonT(60), ServerEnd, PacketTypes
<1>4. /\ b.state = s.state /\ b.slot = s.slot
      /\ b.cancel_decision_pending = s.cancel_decision_pending
      /\ b.next_feedback_sequence = NextSequence(s.next_feedback_sequence)
  BY ServerEnd DEF ActionPacketBinding
<1> HIDE DEF b, p, s
<1>5. \A r2 : Appended(r2, to_client[k], p) =>
          Link(g, client_bindings[<<k, g>>], b, to_server[k], r2)
  <2>1. Link(g, client_bindings[<<k, g>>], s, to_server[k], to_client[k])
    BY ZenonT(60), ServerEnd DEF s
  <2> QED
    BY ZenonT(60), <1>1, <1>2, <1>4, <2>1, FeedbackSent
<1>6. LinkAll(client_bindings, [bindings EXCEPT ![<<k, g>>] = b], to_server,
              Send(to_client, k, p))
  BY ZenonT(60), <1>2, <1>3, <1>5, ServerEnd
<1> QED
  BY ZenonT(60), <1>1, <1>6 DEF Links

LEMMA CompletionLinks ==
  ASSUME TablesFit, Links, NEW k \in Connections, NEW g \in Goals,
         NEW status \in TerminalStatus, NEW sent, Complete(k, g, status, sent),
         UNCHANGED client_bindings
  PROVE  Links'
<1> DEFINE s == bindings[<<k, g>>]
<1>1. /\ to_server' = to_server
      /\ \/ s.state = "GOAL_ACCEPTED" /\ status \in {"SUCCEEDED", "ABORTED"}
         \/ s.state = "CANCEL_ACCEPTED" /\ status \in {"CANCELED", "ABORTED"}
  BY DEF Complete, EndpointComplete, ValidTerminal, BindingIn
<1>2. Link(g, client_bindings[<<k, g>>], s, to_server[k], to_client[k]) /\ s \in ActionPacketBinding
  BY ZenonT(60), ServerEnd
<1>3. CASE sent
  <2> DEFINE b == NoBinding
             p == Response("RESULT", g, s.slot, status)
  <2>1. bindings' = [bindings EXCEPT ![<<k, g>>] = b] /\ to_client' = Send(to_client, k, p)
    BY <1>3 DEF Complete, EndpointComplete, ReleaseBinding, SendResponse
  <2>2. p.goal = g /\ p.kind = "RESULT" /\ p.slot = s.slot /\ p.status = status
    BY ZenonT(60) DEF Response
  <2>3. p \in ToClient
    BY ServerEnd, PacketTypes
  <2>4. b.state = "NONE" /\ ~b.cancel_decision_pending
    BY ZenonT(60) DEF NoBinding, NewBinding
  <2> HIDE DEF b, p, s
  <2>5. \A r2 : Appended(r2, to_client[k], p) =>
            Link(g, client_bindings[<<k, g>>], b, to_server[k], r2)
    BY ZenonT(60), <1>1, <1>2, <2>2, <2>4, ResultSent
  <2>6. LinkAll(client_bindings, [bindings EXCEPT ![<<k, g>>] = b], to_server,
                Send(to_client, k, p))
    BY ZenonT(60), <2>2, <2>3, <2>5, ServerEnd
  <2> QED
    BY ZenonT(60), <1>1, <2>1, <2>6 DEF Links
<1>4. CASE ~sent
  <2> DEFINE b == [s EXCEPT !.state = "RESULT_COMMITTED", !.cancel_decision_pending = FALSE]
  <2>1. bindings' = [bindings EXCEPT ![<<k, g>>] = b] /\ to_client' = to_client
    BY ZenonT(60), <1>2, <1>4 DEF Complete, EndpointComplete
  <2>2. /\ b.state = "RESULT_COMMITTED" /\ b.slot = s.slot /\ ~b.cancel_decision_pending
        /\ b.next_feedback_sequence = s.next_feedback_sequence
    BY <1>2 DEF ActionPacketBinding
  <2>3. s.state \in {"GOAL_ACCEPTED", "CANCEL_ACCEPTED"}
    BY ZenonT(60), <1>1
  <2> HIDE DEF b, s
  <2>4. Link(g, client_bindings[<<k, g>>], b, to_server[k], to_client[k])
    BY SMTT(60), <1>2, <2>2, <2>3, ResultKept
  <2>5. LinkAll(client_bindings, [bindings EXCEPT ![<<k, g>>] = b], to_server, to_client)
    <3>1. bindings \in [Connections \X Goals -> ActionPacketBinding]
      BY ZenonT(60), LinkTypes
    <3>2. LinkAll(client_bindings, bindings, to_server, to_client)
      BY ZenonT(60) DEF Links
    <3> QED
      BY ZenonT(60), <2>4, <3>1, <3>2, ServerChanges
  <2> QED
    BY ZenonT(60), <1>1, <2>1, <2>5 DEF Links
<1> QED
  BY <1>3, <1>4

--------------------------------------------------------------------------------
(* The steps of the two sides *)

LEMMA ClientStepLinks ==
  ASSUME TablesFit, Links, NEW k \in Connections, ClientStep(k)
  PROVE  Links'
<1>1. UNCHANGED bindings
  BY ZenonT(60) DEF ClientStep, serverVars
<1>2. CASE ClientPoll(k)
  BY ZenonT(60), <1>1, <1>2, ClientPollLinks
<1>3. ASSUME NEW g \in Goals, ClientApplication(k, g)
      PROVE  Links'
  <2>1. CASE \E timeout \in GoalTimeouts : SendGoal(k, g, timeout)
    BY ZenonT(60), <1>1, <2>1, SendGoalLinks
  <2>2. CASE SendCancel(k, g)
    BY ZenonT(60), <1>1, <2>2, SendCancelLinks
  <2>3. CASE GoalDeadlinePasses(k, g)
    BY ZenonT(60), <1>1, <2>3, TimeoutLinks DEF GoalDeadlinePasses, Links
  <2> QED
    BY ZenonT(60), <1>3, <2>1, <2>2, <2>3 DEF ClientApplication
<1> QED
  BY ZenonT(60), <1>2, <1>3 DEF ClientStep

LEMMA CallsLinks ==
  ASSUME TablesFit, NoRuntimeCancel, Links, NEW k \in Connections, NEW g \in Goals, ServerApplication(k, g),
         UNCHANGED client_bindings
  PROVE  Links'
<1>2. CASE GoalDecision(k, g)
  BY ZenonT(60), <1>2, GoalDecisionLinks DEF GoalDecision
<1>3. CASE CancelDecision(k, g)
  BY ZenonT(60), <1>3, CancelDecisionLinks DEF CancelDecision
<1>4. CASE Completion(k, g)
  BY ZenonT(60), <1>4, CompletionLinks DEF Completion
<1>5. CASE SendFeedback(k, g)
  BY ZenonT(60), <1>5, FeedbackLinks
<1> QED
  BY ZenonT(60), <1>2, <1>3, <1>4, <1>5 DEF ServerApplication

(* Nothing is bound and nothing is queued at the start. *)
LEMMA NothingLinked ==
  ASSUME NEW g, NEW c, NEW s, NEW q, NEW r, q = << >>, r = << >>,
         c.state = "NONE", s.state = "NONE", ~s.cancel_decision_pending
  PROVE  Link(g, c, s, q, r)
<1>1. Packets(q, g) = {} /\ Packets(r, g) = {} /\ Len(q) = 0 /\ Len(r) = 0
  BY DEF Packets
<1>2. RequestsOrdered(q, g) /\ ResponsesOrdered(r, g)
  BY <1>1 DEF RequestsOrdered, ResponsesOrdered
<1>3. FeedbackNumbered(g, c, s, r)
  BY ZenonT(60) DEF FeedbackNumbered
<1>4. Exchange(c, s, {}, {})
  BY DEF Exchange, EndsOK, Underway
<1> QED
  BY ZenonT(60), <1>1, <1>2, <1>3, <1>4 DEF Link

(* A kind of packet among those of a Goal is in the queue. *)
LEMMA PacketQueued ==
  ASSUME NEW S, NEW queue \in Seq(S), NEW g, NEW kind, Has(Packets(queue, g), kind)
  PROVE  InQueue(queue, kind, g)
<1>1. PICK p \in Packets(queue, g) : p.kind = kind
  BY DEF Has
<1>2. PICK i \in 1 .. Len(queue) : queue[i].goal = g /\ queue[i] = p
  BY DEF Packets
<1>3. i \in DOMAIN queue
  OBVIOUS
<1> QED
  BY ZenonT(60), <1>1, <1>2, <1>3 DEF InQueue
================================================================================
