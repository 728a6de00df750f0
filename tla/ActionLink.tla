------------------------------- MODULE ActionLink -------------------------------
(***************************************************************************)
(* One Goal g of one connection, seen from both ends: c and s are its      *)
(* bindings on the client and on the server, q and r the queues to the     *)
(* server and to the client, Q and R the packets of g in them.  Link is    *)
(* the inductive invariant behind the properties of ActionSystem.          *)
(***************************************************************************)
EXTENDS ActionTransport

Packets(queue, g) == {queue[i] : i \in {j \in 1 .. Len(queue) : queue[j].goal = g}}

Has(P, kind) == \E p \in P : p.kind = kind

Granted(R) == \E p \in R : p.kind = "CANCEL" /\ p.status = "ACCEPTED"

Unanswered == {"AWAITING_GOAL_RESPONSE", "GOAL_RESPONSE_TIMED_OUT"}

Underway == {"ACCEPTED", "AWAITING_CANCEL_RESPONSE", "CANCELING"}

\* A cancel may be followed by a Goal request with the same id: the Goal it
\* was for has ended and the id is used again. Nothing else is queued twice.
RequestsOrdered(q, g) ==
    \A i, j \in 1 .. Len(q) :
        i < j /\ q[i].goal = g /\ q[j].goal = g => q[i].kind = "CANCEL" /\ q[j].kind = "GOAL"

\* The answer to the Goal comes first, a rejection and a Result come last, and
\* there is one answer to a cancel.
InOrder(a, b) ==
    /\ b.kind # "GOAL"
    /\ a.kind # "RESULT"
    /\ ~(a.kind = "GOAL" /\ a.status = "REJECTED")
    /\ ~(a.kind = "CANCEL" /\ b.kind = "CANCEL")

ResponsesOrdered(r, g) ==
    \A i, j \in 1 .. Len(r) :
        i < j /\ r[i].goal = g /\ r[j].goal = g => InOrder(r[i], r[j])

\* What a request on the way says of both ends.
RequestOK(p, c, s, R) ==
    \/ /\ p.kind = "GOAL" /\ p.slot = c.slot
       /\ c.state \in Unanswered /\ s.state = "NONE" /\ R = {}
    \/ /\ p.kind = "CANCEL" /\ p.slot = c.slot
       /\ c.state = "AWAITING_CANCEL_RESPONSE" /\ ~Has(R, "CANCEL")
       /\ ~s.cancel_decision_pending /\ s.state # "CANCEL_ACCEPTED"
    \/ /\ p.kind = "CANCEL"
       /\ c.state \in Unanswered \cup {"NONE"} /\ s.state = "NONE" /\ R = {}

\* What a response or a Feedback on the way says of both ends.
ResponseOK(p, c, s, R) ==
    /\ c.state # "NONE" /\ p.slot = c.slot
    /\ \/ /\ p.kind = "GOAL" /\ c.state \in Unanswered
          /\ \/ p.status = "REJECTED" /\ s.state = "NONE"
             \/ /\ p.status = "ACCEPTED"
                /\ s.state \in {"GOAL_ACCEPTED", "RESULT_COMMITTED"} \/ Has(R, "RESULT")
       \/ /\ p.kind = "CANCEL" /\ c.state = "AWAITING_CANCEL_RESPONSE"
          /\ ~s.cancel_decision_pending
          /\ \/ p.status = "ACCEPTED" /\ s.state # "GOAL_ACCEPTED"
             \/ p.status = "REJECTED" /\ s.state # "CANCEL_ACCEPTED"
       \/ /\ p.kind = "RESULT" /\ s.state = "NONE"
          /\ p.status \in IF c.state = "CANCELING" \/ Granted(R)
                          THEN {"CANCELED", "ABORTED"} ELSE {"SUCCEEDED", "ABORTED"}
       \/ p.kind = "FEEDBACK"

\* What the two ends know of each other.
EndsOK(c, s, Q, R) ==
    /\ c.state = "AWAITING_GOAL_RESPONSE" =>
          /\ c.next_feedback_sequence = 0
          /\ R # {} => Has(R, "GOAL")
          /\ Has(Q, "GOAL") \/ s.state = "AWAITING_GOAL_DECISION" \/ Has(R, "GOAL")
    /\ c.state \in Underway =>
          \/ s.state \in {"GOAL_ACCEPTED", "CANCEL_ACCEPTED", "RESULT_COMMITTED"}
          \/ Has(R, "RESULT")
    /\ c.state = "AWAITING_CANCEL_RESPONSE" =>
          \/ Has(Q, "CANCEL") \/ s.cancel_decision_pending \/ Has(R, "CANCEL")
          \/ Has(R, "RESULT") \/ s.state = "RESULT_COMMITTED"
    /\ s.state # "NONE" => c.state # "NONE" /\ s.slot = c.slot
    /\ s.state = "AWAITING_GOAL_DECISION" =>
          c.state \in Unanswered /\ s.next_feedback_sequence = 0 /\ Q = {} /\ R = {}
    /\ s.state = "GOAL_ACCEPTED" => c.state # "CANCELING"
    /\ s.state = "CANCEL_ACCEPTED" =>
          c.state = "CANCELING" \/ (c.state = "AWAITING_CANCEL_RESPONSE" /\ Granted(R))
    /\ s.cancel_decision_pending =>
          s.state = "GOAL_ACCEPTED" /\ c.state = "AWAITING_CANCEL_RESPONSE"

Exchange(c, s, Q, R) ==
    /\ \A p \in Q : RequestOK(p, c, s, R)
    /\ \A p \in R : ResponseOK(p, c, s, R)
    /\ EndsOK(c, s, Q, R)

\* f numbers the places between the packets: the Feedback number the client
\* expects there. It ends with the one the server uses next.
Numbering(f, g, c, s, r) ==
    /\ f[0] = c.next_feedback_sequence
    /\ s.state # "NONE" => f[Len(r)] = s.next_feedback_sequence
    /\ \A i \in 1 .. Len(r) :
          IF r[i].goal = g /\ r[i].kind = "FEEDBACK"
          THEN r[i].sequence = f[i - 1] /\ f[i] = NextSequence(f[i - 1])
          ELSE f[i] = f[i - 1]

FeedbackNumbered(g, c, s, r) ==
    c.state \notin {"NONE", "GOAL_RESPONSE_TIMED_OUT"} =>
        \E f \in [0 .. Len(r) -> FeedbackSequence] : Numbering(f, g, c, s, r)

Link(g, c, s, q, r) ==
    /\ RequestsOrdered(q, g)
    /\ ResponsesOrdered(r, g)
    /\ FeedbackNumbered(g, c, s, r)
    /\ Exchange(c, s, Packets(q, g), Packets(r, g))
================================================================================
