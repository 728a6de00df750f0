---------------------------- MODULE ActionLinkProofs ----------------------------
(***************************************************************************)
(* What each step of either end does to the Link of one Goal. The lemmas   *)
(* are about values, not about variables: c2, s2, q2, r2, Q2 and R2 are    *)
(* what the step makes of c, s, q, r, Q and R.                             *)
(***************************************************************************)
EXTENDS ActionLink, TLAPS

Appended(q2, q, p) ==
    /\ Len(q) \in Nat /\ Len(q2) = Len(q) + 1
    /\ \A i \in 1 .. Len(q) : q2[i] = q[i]
    /\ q2[Len(q) + 1] = p

Polled(q2, q) ==
    /\ Len(q) \in Nat \ {0} /\ Len(q2) = Len(q) - 1
    /\ \A i \in 1 .. Len(q2) : q2[i] = q[i + 1]

--------------------------------------------------------------------------------
(* The packets of one Goal in a queue, and their order *)

LEMMA AppendedPackets ==
  ASSUME NEW q, NEW q2, NEW p, Appended(q2, q, p), NEW g
  PROVE  /\ p.goal = g => Packets(q2, g) = Packets(q, g) \cup {p}
         /\ p.goal # g => Packets(q2, g) = Packets(q, g)
<1>1. \A i \in 1 .. Len(q2) : (i \in 1 .. Len(q) /\ q2[i] = q[i]) \/ q2[i] = p
  BY SMTT(60) DEF Appended
<1>2. \A i \in 1 .. Len(q) : i \in 1 .. Len(q2) /\ q2[i] = q[i]
  BY SMTT(60) DEF Appended
<1>3. Len(q) + 1 \in 1 .. Len(q2) /\ q2[Len(q) + 1] = p
  BY SMTT(60) DEF Appended
<1>4. \A x : x \in Packets(q2, g) <=> x \in Packets(q, g) \/ (x = p /\ p.goal = g)
  BY ZenonT(60), <1>1, <1>2, <1>3 DEF Packets
<1> QED
  BY ZenonT(60), <1>4

LEMMA PolledPackets ==
  ASSUME NEW q, NEW q2, Polled(q2, q), NEW g
  PROVE  /\ q[1].goal = g => Packets(q, g) = Packets(q2, g) \cup {q[1]}
         /\ q[1].goal # g => Packets(q, g) = Packets(q2, g)
<1>1. \A i \in 1 .. Len(q) : i = 1 \/ \E j \in 1 .. Len(q2) : q2[j] = q[i]
  <2> TAKE i \in 1 .. Len(q)
  <2>1. i # 1 => i - 1 \in 1 .. Len(q2) /\ q2[i - 1] = q[i]
    BY SMTT(60) DEF Polled
  <2> QED
    BY <2>1
<1>2. \A j \in 1 .. Len(q2) : \E i \in 1 .. Len(q) : q2[j] = q[i]
  <2> TAKE j \in 1 .. Len(q2)
  <2>1. j + 1 \in 1 .. Len(q) /\ q2[j] = q[j + 1]
    BY SMTT(60) DEF Polled
  <2> QED
    BY <2>1
<1>3. 1 \in 1 .. Len(q)
  BY SMTT(60) DEF Polled
<1>4. \A x : x \in Packets(q, g) <=> x \in Packets(q2, g) \/ (x = q[1] /\ q[1].goal = g)
  BY SMTT(60), <1>1, <1>2, <1>3 DEF Packets
<1> QED
  BY ZenonT(60), <1>4

LEMMA AppendedOrder ==
  ASSUME NEW g, NEW q, NEW q2, NEW p, Appended(q2, q, p)
  PROVE  /\ /\ RequestsOrdered(q, g)
            /\ p.goal = g => \A x \in Packets(q, g) : x.kind = "CANCEL" /\ p.kind = "GOAL"
            => RequestsOrdered(q2, g)
         /\ /\ ResponsesOrdered(q, g)
            /\ p.goal = g => \A x \in Packets(q, g) : InOrder(x, p)
            => ResponsesOrdered(q2, g)
<1>1. \A i, j \in 1 .. Len(q2) : i < j =>
         /\ i \in 1 .. Len(q) /\ q2[i] = q[i]
         /\ (j \in 1 .. Len(q) /\ q2[j] = q[j]) \/ q2[j] = p
  BY SMTT(60) DEF Appended
<1>2. \A i \in 1 .. Len(q) : q[i].goal = g => q[i] \in Packets(q, g)
  BY ZenonT(60) DEF Packets
<1> QED
  BY ZenonT(60), <1>1, <1>2 DEF RequestsOrdered, ResponsesOrdered

LEMMA PolledOrder ==
  ASSUME NEW g, NEW q, NEW q2, Polled(q2, q)
  PROVE  /\ RequestsOrdered(q, g) =>
               /\ RequestsOrdered(q2, g)
               /\ q[1].goal = g =>
                     \A x \in Packets(q2, g) : q[1].kind = "CANCEL" /\ x.kind = "GOAL"
         /\ ResponsesOrdered(q, g) =>
               /\ ResponsesOrdered(q2, g)
               /\ q[1].goal = g => \A x \in Packets(q2, g) : InOrder(q[1], x)
<1>1. \A i \in 1 .. Len(q2) : i + 1 \in 1 .. Len(q) /\ q2[i] = q[i + 1] /\ 1 < i + 1
  BY SMTT(60) DEF Polled
<1>2. \A i, j \in 1 .. Len(q2) : i < j => i + 1 < j + 1
  BY SMTT(60)
<1>3. 1 \in 1 .. Len(q)
  BY SMTT(60) DEF Polled
<1>4. \A x \in Packets(q2, g) : \E i \in 1 .. Len(q2) : x = q2[i] /\ q2[i].goal = g
  BY ZenonT(60) DEF Packets
<1> QED
  BY SMTT(60), <1>1, <1>2, <1>3, <1>4 DEF RequestsOrdered, ResponsesOrdered

--------------------------------------------------------------------------------
(* The numbering of Feedback *)

LEMMA FeedbackAppended ==
  ASSUME NEW g, NEW c, NEW s, NEW r, FeedbackNumbered(g, c, s, r),
         NEW r2, NEW p, Appended(r2, r, p), NEW c2, NEW s2,
         c2.state \notin {"NONE", "GOAL_RESPONSE_TIMED_OUT"} =>
             /\ c.state \notin {"NONE", "GOAL_RESPONSE_TIMED_OUT"}
             /\ c2.next_feedback_sequence = c.next_feedback_sequence,
         IF p.goal = g /\ p.kind = "FEEDBACK"
         THEN /\ s.state # "NONE" /\ p.sequence = s.next_feedback_sequence
              /\ s2.next_feedback_sequence = NextSequence(s.next_feedback_sequence)
         ELSE s2.state # "NONE" =>
              s.state # "NONE" /\ s2.next_feedback_sequence = s.next_feedback_sequence
  PROVE  FeedbackNumbered(g, c2, s2, r2)
<1> SUFFICES ASSUME c2.state \notin {"NONE", "GOAL_RESPONSE_TIMED_OUT"}
             PROVE  \E f \in [0 .. Len(r2) -> FeedbackSequence] : Numbering(f, g, c2, s2, r2)
  BY DEF FeedbackNumbered
<1>1. PICK f \in [0 .. Len(r) -> FeedbackSequence] : Numbering(f, g, c, s, r)
  BY DEF FeedbackNumbered
<1> DEFINE last == f[Len(r)]
           n == IF p.goal = g /\ p.kind = "FEEDBACK" THEN NextSequence(last) ELSE last
           f2 == [i \in 0 .. Len(r2) |-> IF i = Len(r2) THEN n ELSE f[i]]
<1>2. last \in FeedbackSequence /\ n \in FeedbackSequence
  BY SequenceModulusAssumption DEF Appended, FeedbackSequence, NextSequence
<1>3. s.state # "NONE" => last = s.next_feedback_sequence
  BY <1>1 DEF Numbering
<1> HIDE DEF last, n
<1>4. f2 \in [0 .. Len(r2) -> FeedbackSequence] /\ f2[0] = f[0] /\ f2[Len(r2)] = n
  BY SMTT(60), <1>2 DEF Appended
<1>5. ASSUME NEW i \in 1 .. Len(r2)
      PROVE  IF r2[i].goal = g /\ r2[i].kind = "FEEDBACK"
             THEN r2[i].sequence = f2[i - 1] /\ f2[i] = NextSequence(f2[i - 1])
             ELSE f2[i] = f2[i - 1]
  <2>1. CASE i \in 1 .. Len(r)
    <3>1. r2[i] = r[i] /\ f2[i] = f[i] /\ f2[i - 1] = f[i - 1]
      BY SMTT(60), <2>1 DEF Appended
    <3> HIDE DEF f2
    <3> QED
      BY SMTT(60), <1>1, <2>1, <3>1 DEF Numbering
  <2>2. CASE i = Len(r2)
    <3>1. r2[i] = p /\ f2[i] = n /\ f2[i - 1] = last
      BY SMTT(60), <2>2 DEF Appended, last
    <3> HIDE DEF f2
    <3> QED
      BY SMTT(60), <1>3, <3>1 DEF n
  <2> QED
    BY SMTT(60), <2>1, <2>2 DEF Appended
<1>6. s2.state # "NONE" => n = s2.next_feedback_sequence
  BY SMTT(60), <1>3 DEF n
<1>7. f[0] = c2.next_feedback_sequence
  BY SMTT(60), <1>1 DEF Numbering
<1> HIDE DEF f2
<1>8. Numbering(f2, g, c2, s2, r2)
  BY SMTT(60), <1>4, <1>5, <1>6, <1>7 DEF Numbering
<1> QED
  BY <1>4, <1>8

LEMMA FeedbackPolled ==
  ASSUME NEW g, NEW c, NEW s, NEW r, FeedbackNumbered(g, c, s, r),
         NEW r2, Polled(r2, r), NEW c2,
         c2.state \notin {"NONE", "GOAL_RESPONSE_TIMED_OUT"} =>
             /\ c.state \notin {"NONE", "GOAL_RESPONSE_TIMED_OUT"}
             /\ c2.next_feedback_sequence =
                   IF r[1].goal = g /\ r[1].kind = "FEEDBACK"
                   THEN NextSequence(c.next_feedback_sequence)
                   ELSE c.next_feedback_sequence
  PROVE  FeedbackNumbered(g, c2, s, r2)
<1> SUFFICES ASSUME c2.state \notin {"NONE", "GOAL_RESPONSE_TIMED_OUT"}
             PROVE  \E f \in [0 .. Len(r2) -> FeedbackSequence] : Numbering(f, g, c2, s, r2)
  BY DEF FeedbackNumbered
<1>1. PICK f \in [0 .. Len(r) -> FeedbackSequence] : Numbering(f, g, c, s, r)
  BY DEF FeedbackNumbered
<1> DEFINE f2 == [i \in 0 .. Len(r2) |-> f[i + 1]]
<1>2. f2 \in [0 .. Len(r2) -> FeedbackSequence] /\ f2[0] = f[1] /\ f2[Len(r2)] = f[Len(r)]
  BY SMTT(60) DEF Polled
<1>3. ASSUME NEW i \in 1 .. Len(r2)
      PROVE  IF r2[i].goal = g /\ r2[i].kind = "FEEDBACK"
             THEN r2[i].sequence = f2[i - 1] /\ f2[i] = NextSequence(f2[i - 1])
             ELSE f2[i] = f2[i - 1]
  <2>1. /\ r2[i] = r[i + 1] /\ f2[i] = f[i + 1] /\ f2[i - 1] = f[i]
        /\ i + 1 \in 1 .. Len(r) /\ (i + 1) - 1 = i
    BY SMTT(60) DEF Polled
  <2> HIDE DEF f2
  <2> QED
    BY ZenonT(60), <1>1, <2>1 DEF Numbering
<1>4. f[1] = c2.next_feedback_sequence
  <2>1. 1 \in 1 .. Len(r) /\ 1 - 1 = 0
    BY SMTT(60) DEF Polled
  <2> QED
    BY SMTT(60), <1>1, <2>1 DEF Numbering
<1> HIDE DEF f2
<1>5. Numbering(f2, g, c2, s, r2)
  BY SMTT(60), <1>1, <1>2, <1>3, <1>4 DEF Numbering
<1> QED
  BY <1>2, <1>5

LEMMA FeedbackFresh ==
  ASSUME NEW g, NEW r, Len(r) \in Nat, Packets(r, g) = {}, NEW c, NEW s,
         c.next_feedback_sequence = 0,
         s.state # "NONE" => s.next_feedback_sequence = 0
  PROVE  FeedbackNumbered(g, c, s, r)
<1> DEFINE f == [i \in 0 .. Len(r) |-> 0]
<1>1. f \in [0 .. Len(r) -> FeedbackSequence]
  BY SequenceModulusAssumption DEF FeedbackSequence
<1>2. f[0] = 0 /\ f[Len(r)] = 0 /\ \A i \in 1 .. Len(r) : f[i] = 0 /\ f[i - 1] = 0
  BY SMTT(60)
<1> HIDE DEF f
<1>3. Numbering(f, g, c, s, r)
  BY ZenonT(60), <1>1, <1>2 DEF Numbering, Packets
<1> QED
  BY <1>1, <1>3 DEF FeedbackNumbered

--------------------------------------------------------------------------------
(* Packets of other Goals *)

LEMMA OtherRequestSent ==
  ASSUME NEW g, NEW c, NEW s, NEW q, NEW r, Link(g, c, s, q, r),
         NEW q2, NEW p, Appended(q2, q, p), p.goal # g
  PROVE  Link(g, c, s, q2, r)
BY SMTT(60), AppendedPackets, AppendedOrder DEF Link

LEMMA OtherRequestPolled ==
  ASSUME NEW g, NEW c, NEW s, NEW q, NEW r, Link(g, c, s, q, r),
         NEW q2, Polled(q2, q), q[1].goal # g
  PROVE  Link(g, c, s, q2, r)
<1>1. Packets(q2, g) = Packets(q, g)
  BY SMTT(60), PolledPackets
<1> QED
  BY SMTT(60), <1>1, PolledOrder DEF Link

LEMMA OtherResponseSent ==
  ASSUME NEW g, NEW c, NEW s, NEW q, NEW r, Link(g, c, s, q, r),
         NEW r2, NEW p, Appended(r2, r, p), p.goal # g
  PROVE  Link(g, c, s, q, r2)
<1>1. FeedbackNumbered(g, c, s, r2)
  BY SMTT(60), FeedbackAppended DEF Link
<1> QED
  BY SMTT(60), <1>1, AppendedPackets, AppendedOrder DEF Link

LEMMA OtherResponsePolled ==
  ASSUME NEW g, NEW c, NEW s, NEW q, NEW r, Link(g, c, s, q, r),
         NEW r2, Polled(r2, r), r[1].goal # g
  PROVE  Link(g, c, s, q, r2)
<1>1. FeedbackNumbered(g, c, s, r2)
  BY SMTT(60), FeedbackPolled DEF Link
<1>2. Packets(r2, g) = Packets(r, g)
  BY SMTT(60), PolledPackets
<1> QED
  BY SMTT(60), <1>1, <1>2, PolledOrder DEF Link

--------------------------------------------------------------------------------
(* The client's steps *)

LEMMA GoalSent ==
  ASSUME NEW g, NEW c, NEW s, NEW q, NEW r, Link(g, c, s, q, r), Len(r) \in Nat,
         NEW c2, NEW q2, NEW p, Appended(q2, q, p), p.goal = g, p.kind = "GOAL",
         c.state = "NONE", c2.state = "AWAITING_GOAL_RESPONSE", p.slot = c2.slot,
         c2.next_feedback_sequence = 0
  PROVE  Link(g, c2, s, q2, r)
<1> DEFINE Q == Packets(q, g)
           R == Packets(r, g)
<1>1. s.state = "NONE" /\ R = {} /\ ~s.cancel_decision_pending /\ \A x \in Q : x.kind = "CANCEL"
  BY SMTT(60) DEF Link, Exchange, RequestOK, ResponseOK, EndsOK, Unanswered
<1>2. Packets(q2, g) = Q \cup {p}
  BY SMTT(60), AppendedPackets
<1>3. RequestsOrdered(q2, g)
  BY SMTT(60), <1>1, AppendedOrder DEF Link
<1>4. FeedbackNumbered(g, c2, s, r)
  BY SMTT(60), <1>1, FeedbackFresh
<1> HIDE DEF Q, R
<1>5. Exchange(c2, s, Q \cup {p}, R)
  BY SMTT(60), <1>1 DEF Exchange, RequestOK, EndsOK, Unanswered, Underway, Has
<1> QED
  BY SMTT(60), <1>2, <1>3, <1>4, <1>5 DEF Link, R

LEMMA CancelSent ==
  ASSUME NEW g, NEW c, NEW s, NEW q, NEW r, Link(g, c, s, q, r),
         NEW c2, NEW q2, NEW p, Appended(q2, q, p), p.goal = g, p.kind = "CANCEL",
         p.slot = c.slot, c.state = "ACCEPTED", c2.state = "AWAITING_CANCEL_RESPONSE",
         c2.slot = c.slot, c2.next_feedback_sequence = c.next_feedback_sequence
  PROVE  Link(g, c2, s, q2, r)
<1> DEFINE Q == Packets(q, g)
           R == Packets(r, g)
<1>1. Exchange(c, s, Q, R)
  BY DEF Link
<1>2. Packets(q2, g) = Q \cup {p}
  BY SMTT(60), AppendedPackets
<1>3. Q = {}
  BY SMTT(60), <1>1 DEF Exchange, RequestOK, Unanswered
<1>4. RequestsOrdered(q2, g)
  BY SMTT(60), <1>3, AppendedOrder DEF Link
<1>5. FeedbackNumbered(g, c2, s, r)
  BY SMTT(60) DEF Link, FeedbackNumbered, Numbering
<1> HIDE DEF Q, R
<1>6. RequestOK(p, c2, s, R)
  BY SMTT(60), <1>1 DEF Exchange, ResponseOK, EndsOK, RequestOK, Has
<1>7. \A x \in R : ResponseOK(x, c2, s, R)
  BY SMTT(60), <1>1 DEF Exchange, ResponseOK, Unanswered
<1>8. EndsOK(c2, s, Q \cup {p}, R)
  BY SMTT(60), <1>1 DEF Exchange, EndsOK, Unanswered, Underway, Has
<1>9. Exchange(c2, s, Q \cup {p}, R)
  BY SMTT(60), <1>3, <1>6, <1>7, <1>8 DEF Exchange
<1> QED
  BY SMTT(60), <1>2, <1>4, <1>5, <1>9 DEF Link, R

(* The deadline of a Goal passes, which Link does not see, or its timeout is
   reported. *)
LEMMA GoalTimesOut ==
  ASSUME NEW g, NEW c, NEW s, NEW q, NEW r, Link(g, c, s, q, r), NEW c2,
         \/ c2.state = c.state
         \/ c.state = "AWAITING_GOAL_RESPONSE" /\ c2.state = "GOAL_RESPONSE_TIMED_OUT",
         c2.slot = c.slot, c2.next_feedback_sequence = c.next_feedback_sequence
  PROVE  Link(g, c2, s, q, r)
<1> DEFINE Q == Packets(q, g)
           R == Packets(r, g)
<1>1. Exchange(c, s, Q, R)
  BY DEF Link
<1>2. FeedbackNumbered(g, c2, s, r)
  BY SMTT(60) DEF Link, FeedbackNumbered, Numbering
<1> HIDE DEF Q, R
<1>3. \A x \in Q : RequestOK(x, c2, s, R)
  BY SMTT(60), <1>1 DEF Exchange, RequestOK, Unanswered
<1>4. \A x \in R : ResponseOK(x, c2, s, R)
  BY SMTT(60), <1>1 DEF Exchange, ResponseOK, Unanswered
<1>5. EndsOK(c2, s, Q, R)
  BY SMTT(60), <1>1 DEF Exchange, EndsOK, Unanswered, Underway
<1>6. Exchange(c2, s, Q, R)
  BY <1>3, <1>4, <1>5 DEF Exchange
<1> QED
  BY SMTT(60), <1>2, <1>6 DEF Link, Q, R

(* What Link says when a packet of g is at the head of the client's queue. *)
LEMMA ResponseAtHead ==
  ASSUME NEW g, NEW c, NEW s, NEW q, NEW r, Link(g, c, s, q, r),
         NEW r2, Polled(r2, r), r[1].goal = g
  PROVE  /\ Exchange(c, s, Packets(q, g), Packets(r, g))
         /\ Packets(r, g) = Packets(r2, g) \cup {r[1]}
         /\ \A x \in Packets(r2, g) : InOrder(r[1], x)
         /\ RequestsOrdered(q, g) /\ ResponsesOrdered(r2, g)
<1>1. Packets(r, g) = Packets(r2, g) \cup {r[1]}
  BY PolledPackets
<1>2. ResponsesOrdered(r, g)
  BY DEF Link
<1>3. ResponsesOrdered(r2, g) /\ \A x \in Packets(r2, g) : InOrder(r[1], x)
  BY <1>2, PolledOrder
<1> QED
  BY <1>1, <1>3 DEF Link

(* A packet the endpoint matches with the binding c. *)
Expected(p, c) ==
    /\ p.slot = c.slot
    /\ \/ p.kind = "GOAL" /\ c.state = "AWAITING_GOAL_RESPONSE" /\ p.status \in Decision
       \/ p.kind = "CANCEL" /\ c.state = "AWAITING_CANCEL_RESPONSE" /\ p.status \in Decision
       \/ /\ p.kind = "RESULT"
          /\ \/ /\ c.state \in {"ACCEPTED", "AWAITING_CANCEL_RESPONSE"}
                /\ p.status \in {"SUCCEEDED", "ABORTED"}
             \/ c.state = "CANCELING" /\ p.status \in {"CANCELED", "ABORTED"}
       \/ /\ p.kind = "FEEDBACK" /\ c.state \in Underway
          /\ p.sequence = c.next_feedback_sequence

(* The packet at the head of the client's queue is one the endpoint matches,
   unless the Goal timed out. *)
LEMMA HeadIsExpected ==
  ASSUME NEW g, NEW c, NEW s, NEW q, NEW r, Link(g, c, s, q, r),
         NEW r2, Polled(r2, r), r[1].goal = g,
         c.state \in {"NONE"} \cup Unanswered \cup Underway, c.state # "GOAL_RESPONSE_TIMED_OUT"
  PROVE  Expected(r[1], c)
<1> DEFINE p == r[1]
           Q == Packets(q, g)
           R == Packets(r, g)
           R2 == Packets(r2, g)
<1>1. Exchange(c, s, Q, R)
  BY DEF Link
<1>2. R = R2 \cup {p} /\ \A x \in R2 : InOrder(p, x)
  BY SMTT(60), ResponseAtHead
<1>3. ASSUME p.kind = "FEEDBACK", c.state # "NONE"
      PROVE  p.sequence = c.next_feedback_sequence
  <2>1. 1 \in 1 .. Len(r) /\ 1 - 1 = 0
    BY DEF Polled
  <2>2. PICK f : Numbering(f, g, c, s, r)
    BY SMTT(60), <1>3 DEF Link, FeedbackNumbered
  <2> QED
    BY SMTT(60), <1>3, <2>1, <2>2 DEF Numbering
<1>4. c.state # "GOAL_RESPONSE_TIMED_OUT"
  OBVIOUS
<1> HIDE DEF p, Q, R, R2
<1>5. ResponseOK(p, c, s, R) /\ c.state # "NONE" /\ p.slot = c.slot
  BY ZenonT(60), <1>1, <1>2 DEF Exchange, ResponseOK
<1>6. p.kind # "GOAL" => c.state # "AWAITING_GOAL_RESPONSE"
  BY SMTT(60), <1>1, <1>2 DEF Exchange, EndsOK, Has, InOrder
<1>7. p.kind = "RESULT" => ~Granted(R)
  BY SMTT(60), <1>2 DEF Granted, InOrder
<1>8. c.state \in {"AWAITING_GOAL_RESPONSE"} \cup Underway
  BY SMTT(60), <1>4, <1>5 DEF Unanswered
<1> QED
  BY SMTT(60), <1>3, <1>5, <1>6, <1>7, <1>8
  DEF Expected, Underway, ResponseOK, Unanswered, Decision, p

(* The client polls the answer to its Goal. *)
LEMMA GoalAnswerPolled ==
  ASSUME NEW g, NEW c, NEW s, NEW q, NEW r, Link(g, c, s, q, r),
         NEW c2, NEW r2, NEW p, Polled(r2, r), p = r[1], p.goal = g, p.kind = "GOAL",
         c.state = "AWAITING_GOAL_RESPONSE",
         c2.state = IF p.status = "ACCEPTED" THEN "ACCEPTED" ELSE "NONE",
         p.status = "ACCEPTED" =>
             c2.slot = c.slot /\ c2.next_feedback_sequence = c.next_feedback_sequence
  PROVE  Link(g, c2, s, q, r2)
<1> DEFINE Q == Packets(q, g)
           R == Packets(r, g)
           R2 == Packets(r2, g)
<1>1. Exchange(c, s, Q, R)
  BY DEF Link
<1>2. R = R2 \cup {p} /\ \A x \in R2 : InOrder(p, x)
  BY SMTT(60), ResponseAtHead
<1>3. FeedbackNumbered(g, c2, s, r2)
  BY SMTT(60), FeedbackPolled DEF Link
<1> HIDE DEF Q, R, R2
<1>4. \A x \in Q : RequestOK(x, c2, s, R2)
  BY SMTT(60), <1>1, <1>2 DEF Exchange, RequestOK, ResponseOK, InOrder, Has, Unanswered
<1>5. \A x \in R2 : ResponseOK(x, c2, s, R2)
  BY SMTT(60), <1>1, <1>2 DEF Exchange, ResponseOK, InOrder, Has, Granted, Unanswered
<1>6. EndsOK(c2, s, Q, R2)
  BY ZenonT(60), <1>1, <1>2
  DEF Exchange, EndsOK, RequestOK, ResponseOK, InOrder, Has, Granted, Unanswered,
     Underway
<1>7. Exchange(c2, s, Q, R2)
  BY <1>4, <1>5, <1>6 DEF Exchange
<1> QED
  BY ZenonT(60), <1>3, <1>7, ResponseAtHead DEF Link, Q, R2

(* The client polls the answer to its cancel. *)
LEMMA CancelAnswerPolled ==
  ASSUME NEW g, NEW c, NEW s, NEW q, NEW r, Link(g, c, s, q, r),
         NEW c2, NEW r2, NEW p, Polled(r2, r), p = r[1], p.goal = g, p.kind = "CANCEL",
         c.state = "AWAITING_CANCEL_RESPONSE",
         c2.state = IF p.status = "ACCEPTED" THEN "CANCELING" ELSE "ACCEPTED",
         c2.slot = c.slot, c2.next_feedback_sequence = c.next_feedback_sequence
  PROVE  Link(g, c2, s, q, r2)
<1> DEFINE Q == Packets(q, g)
           R == Packets(r, g)
           R2 == Packets(r2, g)
<1>1. Exchange(c, s, Q, R)
  BY ZenonT(60) DEF Link
<1>2. R = R2 \cup {p} /\ \A x \in R2 : InOrder(p, x)
  BY SMTT(60), ResponseAtHead
<1>3. FeedbackNumbered(g, c2, s, r2)
  BY ZenonT(60), FeedbackPolled DEF Link
<1> HIDE DEF Q, R, R2
<1>4. \A x \in Q : RequestOK(x, c2, s, R2)
  BY SMTT(60), <1>1, <1>2 DEF Exchange, RequestOK, ResponseOK, InOrder, Has, Unanswered
<1>5. \A x \in R2 : ResponseOK(x, c2, s, R2)
  BY SMTT(60), <1>1, <1>2 DEF Exchange, ResponseOK, InOrder, Has, Granted, Unanswered
<1>6. EndsOK(c2, s, Q, R2)
  BY SMTT(60), <1>1, <1>2
  DEF Exchange, EndsOK, RequestOK, ResponseOK, InOrder, Has, Granted, Unanswered,
     Underway
<1>7. Exchange(c2, s, Q, R2)
  BY ZenonT(60), <1>4, <1>5, <1>6 DEF Exchange
<1> QED
  BY ZenonT(60), <1>3, <1>7, ResponseAtHead DEF Link, Q, R2

(* The client polls the Result. *)
LEMMA ResultPolled ==
  ASSUME NEW g, NEW c, NEW s, NEW q, NEW r, Link(g, c, s, q, r),
         NEW c2, NEW r2, NEW p, Polled(r2, r), p = r[1], p.goal = g, p.kind = "RESULT",
         c2.state = "NONE"
  PROVE  Link(g, c2, s, q, r2)
<1> DEFINE Q == Packets(q, g)
           R == Packets(r, g)
           R2 == Packets(r2, g)
<1>1. Exchange(c, s, Q, R)
  BY ZenonT(60) DEF Link
<1>2. R = R2 \cup {p} /\ \A x \in R2 : InOrder(p, x)
  BY SMTT(60), ResponseAtHead
<1>3. FeedbackNumbered(g, c2, s, r2)
  BY ZenonT(60), FeedbackPolled DEF Link
<1> HIDE DEF Q, R, R2
<1>4. \A x \in Q : RequestOK(x, c2, s, R2)
  BY SMTT(60), <1>1, <1>2 DEF Exchange, RequestOK, ResponseOK, InOrder, Has, Unanswered
<1>5. \A x \in R2 : ResponseOK(x, c2, s, R2)
  BY ZenonT(60), <1>1, <1>2 DEF Exchange, ResponseOK, InOrder, Has, Granted, Unanswered
<1>6. EndsOK(c2, s, Q, R2)
  BY SMTT(60), <1>1, <1>2
  DEF Exchange, EndsOK, RequestOK, ResponseOK, InOrder, Has, Granted, Unanswered,
     Underway
<1>7. Exchange(c2, s, Q, R2)
  BY <1>4, <1>5, <1>6 DEF Exchange
<1> QED
  BY ZenonT(60), <1>3, <1>7, ResponseAtHead DEF Link, Q, R2

(* The client polls a Feedback. *)
LEMMA FeedbackTaken ==
  ASSUME NEW g, NEW c, NEW s, NEW q, NEW r, Link(g, c, s, q, r),
         NEW c2, NEW r2, NEW p, Polled(r2, r), p = r[1], p.goal = g, p.kind = "FEEDBACK",
         c.state \in Underway, c2.state = c.state, c2.slot = c.slot,
         c2.next_feedback_sequence = NextSequence(c.next_feedback_sequence)
  PROVE  Link(g, c2, s, q, r2)
<1> DEFINE Q == Packets(q, g)
           R == Packets(r, g)
           R2 == Packets(r2, g)
<1>1. Exchange(c, s, Q, R)
  BY ZenonT(60) DEF Link
<1>2. R = R2 \cup {p} /\ \A x \in R2 : InOrder(p, x)
  BY SMTT(60), ResponseAtHead
<1>3. FeedbackNumbered(g, c2, s, r2)
  BY ZenonT(60), FeedbackPolled DEF Link
<1> HIDE DEF Q, R, R2
<1>4. \A x \in Q : RequestOK(x, c2, s, R2)
  BY ZenonT(60), <1>1, <1>2 DEF Exchange, RequestOK, ResponseOK, InOrder, Has, Unanswered
<1>5. \A x \in R2 : ResponseOK(x, c2, s, R2)
  BY SMTT(60), <1>1, <1>2 DEF Exchange, ResponseOK, InOrder, Has, Granted, Unanswered
<1>6. EndsOK(c2, s, Q, R2)
  BY SMTT(60), <1>1, <1>2
  DEF Exchange, EndsOK, RequestOK, ResponseOK, InOrder, Has, Granted, Unanswered,
     Underway
<1>7. Exchange(c2, s, Q, R2)
  BY <1>4, <1>5, <1>6 DEF Exchange
<1> QED
  BY ZenonT(60), <1>3, <1>7, ResponseAtHead DEF Link, Q, R2

(* The client polls a packet of a Goal that timed out. *)
LEMMA LatePacketPolled ==
  ASSUME NEW g, NEW c, NEW s, NEW q, NEW r, Link(g, c, s, q, r),
         NEW c2, NEW r2, NEW p, Polled(r2, r), p = r[1], p.goal = g, 
         c.state = "GOAL_RESPONSE_TIMED_OUT", c2 = c
  PROVE  Link(g, c2, s, q, r2)
<1> DEFINE Q == Packets(q, g)
           R == Packets(r, g)
           R2 == Packets(r2, g)
<1>1. Exchange(c, s, Q, R)
  BY ZenonT(60) DEF Link
<1>2. R = R2 \cup {p} /\ \A x \in R2 : InOrder(p, x)
  BY SMTT(60), ResponseAtHead
<1>3. FeedbackNumbered(g, c2, s, r2)
  BY ZenonT(60), FeedbackPolled DEF Link
<1> HIDE DEF Q, R, R2
<1>4. \A x \in Q : RequestOK(x, c2, s, R2)
  BY ZenonT(60), <1>1, <1>2 DEF Exchange, RequestOK, ResponseOK, InOrder, Has, Unanswered
<1>5. \A x \in R2 : ResponseOK(x, c2, s, R2)
  BY ZenonT(60), <1>1, <1>2 DEF Exchange, ResponseOK, InOrder, Has, Granted, Unanswered
<1>6. EndsOK(c2, s, Q, R2)
  BY SMTT(60), <1>1, <1>2
  DEF Exchange, EndsOK, RequestOK, ResponseOK, InOrder, Has, Granted, Unanswered,
     Underway
<1>7. Exchange(c2, s, Q, R2)
  BY ZenonT(60), <1>4, <1>5, <1>6 DEF Exchange
<1> QED
  BY ZenonT(60), <1>3, <1>7, ResponseAtHead DEF Link, Q, R2

--------------------------------------------------------------------------------
(* The server's steps *)

(* What Link says when a request of g is at the head of the server's queue. *)
LEMMA RequestAtHead ==
  ASSUME NEW g, NEW c, NEW s, NEW q, NEW r, Link(g, c, s, q, r),
         NEW q2, Polled(q2, q), q[1].goal = g
  PROVE  /\ Exchange(c, s, Packets(q, g), Packets(r, g))
         /\ Packets(q, g) = Packets(q2, g) \cup {q[1]}
         /\ \A x \in Packets(q2, g) : q[1].kind = "CANCEL" /\ x.kind = "GOAL"
         /\ RequestsOrdered(q2, g) /\ ResponsesOrdered(r, g)
<1>1. Packets(q, g) = Packets(q2, g) \cup {q[1]}
  BY PolledPackets
<1>2. RequestsOrdered(q, g)
  BY DEF Link
<1>3. /\ RequestsOrdered(q2, g)
      /\ \A x \in Packets(q2, g) : q[1].kind = "CANCEL" /\ x.kind = "GOAL"
  BY <1>2, PolledOrder
<1> QED
  BY <1>1, <1>3 DEF Link

(* The server takes a Goal request: the application must decide. *)
LEMMA GoalPolled ==
  ASSUME NEW g, NEW c, NEW s, NEW q, NEW r, Link(g, c, s, q, r),
         NEW s2, NEW q2, NEW p, Polled(q2, q), p = q[1], p.goal = g, p.kind = "GOAL",
         Len(r) \in Nat, s2.state = "AWAITING_GOAL_DECISION", s2.slot = p.slot,
         ~s2.cancel_decision_pending, s2.next_feedback_sequence = 0
  PROVE  Link(g, c, s2, q2, r)
<1> DEFINE Q == Packets(q, g)
           Q2 == Packets(q2, g)
           R == Packets(r, g)
<1>1. Exchange(c, s, Q, R)
  BY ZenonT(60) DEF Link
<1>2. Q = Q2 \cup {p} /\ \A x \in Q2 : p.kind = "CANCEL" /\ x.kind = "GOAL"
  BY SMTT(60), RequestAtHead
<1>3. FeedbackNumbered(g, c, s2, r)
  <2>1. R = {} /\ (c.state = "AWAITING_GOAL_RESPONSE" => c.next_feedback_sequence = 0)
        /\ c.state \in Unanswered
    BY ZenonT(60), <1>1, <1>2 DEF Exchange, RequestOK, EndsOK
  <2>2. CASE c.state = "AWAITING_GOAL_RESPONSE"
    BY ZenonT(60), <2>1, <2>2, FeedbackFresh
  <2> QED
    BY ZenonT(60), <2>1, <2>2 DEF FeedbackNumbered, Unanswered
<1> HIDE DEF Q, Q2, R
<1>4. \A x \in Q2 : RequestOK(x, c, s2, R)
  BY ZenonT(60), <1>1, <1>2 DEF Exchange, RequestOK, Unanswered
<1>5. \A x \in R : ResponseOK(x, c, s2, R)
  BY ZenonT(60), <1>1, <1>2 DEF Exchange, RequestOK, ResponseOK, Has, Unanswered
<1>6. EndsOK(c, s2, Q2, R)
  BY ZenonT(60), <1>1, <1>2 DEF Exchange, EndsOK, RequestOK, Has, Granted, Unanswered, Underway
<1>7. Exchange(c, s2, Q2, R)
  BY <1>4, <1>5, <1>6 DEF Exchange
<1> QED
  BY ZenonT(60), <1>3, <1>7, RequestAtHead DEF Link, Q2, R

(* The server reports a cancel request to the application. *)
LEMMA CancelPolled ==
  ASSUME NEW g, NEW c, NEW s, NEW q, NEW r, Link(g, c, s, q, r),
         NEW s2, NEW q2, NEW p, Polled(q2, q), p = q[1], p.goal = g, p.kind = "CANCEL",
         s.state = "GOAL_ACCEPTED", s2.state = s.state, s2.slot = s.slot,
         s2.cancel_decision_pending, s2.next_feedback_sequence = s.next_feedback_sequence
  PROVE  Link(g, c, s2, q2, r)
<1> DEFINE Q == Packets(q, g)
           Q2 == Packets(q2, g)
           R == Packets(r, g)
<1>1. Exchange(c, s, Q, R)
  BY ZenonT(60) DEF Link
<1>2. Q = Q2 \cup {p} /\ \A x \in Q2 : p.kind = "CANCEL" /\ x.kind = "GOAL"
  BY SMTT(60), RequestAtHead
<1>3. FeedbackNumbered(g, c, s2, r)
  BY ZenonT(60) DEF Link, FeedbackNumbered, Numbering
<1> HIDE DEF Q, Q2, R
<1>4. \A x \in Q2 : RequestOK(x, c, s2, R)
  BY ZenonT(60), <1>1, <1>2 DEF Exchange, RequestOK, Unanswered
<1>5. \A x \in R : ResponseOK(x, c, s2, R)
  BY ZenonT(60), <1>1, <1>2 DEF Exchange, RequestOK, ResponseOK, Has, Unanswered
<1>6. EndsOK(c, s2, Q2, R)
  BY ZenonT(60), <1>1, <1>2 DEF Exchange, EndsOK, RequestOK, Has, Granted, Unanswered, Underway
<1>7. Exchange(c, s2, Q2, R)
  BY <1>4, <1>5, <1>6 DEF Exchange
<1> QED
  BY ZenonT(60), <1>3, <1>7, RequestAtHead DEF Link, Q2, R

(* The server drops a cancel request. *)
LEMMA CancelDropped ==
  ASSUME NEW g, NEW c, NEW s, NEW q, NEW r, Link(g, c, s, q, r),
         NEW s2, NEW q2, NEW p, Polled(q2, q), p = q[1], p.goal = g, p.kind = "CANCEL",
         ~(s.state = "GOAL_ACCEPTED" /\ s.slot = p.slot /\ ~s.cancel_decision_pending),
         s2 = s
  PROVE  Link(g, c, s2, q2, r)
<1> DEFINE Q == Packets(q, g)
           Q2 == Packets(q2, g)
           R == Packets(r, g)
<1>1. Exchange(c, s, Q, R)
  BY ZenonT(60) DEF Link
<1>2. Q = Q2 \cup {p} /\ \A x \in Q2 : p.kind = "CANCEL" /\ x.kind = "GOAL"
  BY SMTT(60), RequestAtHead
<1>3. FeedbackNumbered(g, c, s2, r)
  BY ZenonT(60) DEF Link
<1> HIDE DEF Q, Q2, R
<1>4. \A x \in Q2 : RequestOK(x, c, s2, R)
  BY ZenonT(60), <1>1, <1>2 DEF Exchange, RequestOK, Unanswered
<1>5. \A x \in R : ResponseOK(x, c, s2, R)
  BY ZenonT(60), <1>1, <1>2 DEF Exchange, RequestOK, ResponseOK, Has, Unanswered
<1>6. EndsOK(c, s2, Q2, R)
  BY ZenonT(60), <1>1, <1>2 DEF Exchange, EndsOK, RequestOK, Has, Granted, Unanswered, Underway
<1>7. Exchange(c, s2, Q2, R)
  BY ZenonT(60), <1>4, <1>5, <1>6 DEF Exchange
<1> QED
  BY ZenonT(60), <1>3, <1>7, RequestAtHead DEF Link, Q2, R

(* The application accepts or rejects the Goal. *)
LEMMA GoalDecided ==
  ASSUME NEW g, NEW c, NEW s, NEW q, NEW r, Link(g, c, s, q, r),
         NEW s2, NEW r2, NEW p, Appended(r2, r, p), p.goal = g, p.kind = "GOAL", p.slot = s.slot,
         s.state = "AWAITING_GOAL_DECISION", ~s2.cancel_decision_pending,
         \/ /\ p.status = "ACCEPTED" /\ s2.state = "GOAL_ACCEPTED" /\ s2.slot = s.slot
            /\ s2.next_feedback_sequence = s.next_feedback_sequence
         \/ p.status = "REJECTED" /\ s2.state = "NONE"
  PROVE  Link(g, c, s2, q, r2)
<1> DEFINE Q == Packets(q, g)
           R == Packets(r, g)
           R2 == Packets(r2, g)
<1>1. Exchange(c, s, Q, R)
  BY ZenonT(60) DEF Link
<1>2. R2 = R \cup {p}
  BY SMTT(60), AppendedPackets
<1>3. FeedbackNumbered(g, c, s2, r2)
  BY ZenonT(60), FeedbackAppended DEF Link
<1> HIDE DEF Q, R, R2
<1>4. \A x \in R : InOrder(x, p)
  BY ZenonT(60), <1>1 DEF Exchange, ResponseOK, EndsOK, InOrder, Unanswered
<1>5. \A x \in Q : RequestOK(x, c, s2, R2)
  BY ZenonT(60), <1>1, <1>2 DEF Exchange, RequestOK, EndsOK, Has, Unanswered
<1>6. \A x \in R2 : ResponseOK(x, c, s2, R2)
  BY ZenonT(60), <1>1, <1>2 DEF Exchange, ResponseOK, EndsOK, Has, Granted, Unanswered
<1>7. EndsOK(c, s2, Q, R2)
  BY ZenonT(60), <1>1, <1>2 DEF Exchange, RequestOK, EndsOK, Has, Granted, Unanswered, Underway
<1>8. Exchange(c, s2, Q, R2)
  BY ZenonT(60), <1>5, <1>6, <1>7 DEF Exchange
<1>9. ResponsesOrdered(r2, g)
  BY ZenonT(60), <1>4, AppendedOrder DEF Link, R
<1> QED
  BY ZenonT(60), <1>3, <1>8, <1>9 DEF Link, Q, R2

(* The application decides on a cancel. *)
LEMMA CancelDecided ==
  ASSUME NEW g, NEW c, NEW s, NEW q, NEW r, Link(g, c, s, q, r),
         NEW s2, NEW r2, NEW p, Appended(r2, r, p), p.goal = g, p.kind = "CANCEL", p.slot = s.slot,
         s.state = "GOAL_ACCEPTED", s.cancel_decision_pending, ~s2.cancel_decision_pending,
         s2.slot = s.slot,
         s2.next_feedback_sequence = s.next_feedback_sequence,
         \/ p.status = "ACCEPTED" /\ s2.state = "CANCEL_ACCEPTED"
         \/ p.status = "REJECTED" /\ s2.state = "GOAL_ACCEPTED"
  PROVE  Link(g, c, s2, q, r2)
<1> DEFINE Q == Packets(q, g)
           R == Packets(r, g)
           R2 == Packets(r2, g)
<1>1. Exchange(c, s, Q, R)
  BY ZenonT(60) DEF Link
<1>2. R2 = R \cup {p}
  BY SMTT(60), AppendedPackets
<1>3. FeedbackNumbered(g, c, s2, r2)
  BY SMTT(60), FeedbackAppended DEF Link
<1> HIDE DEF Q, R, R2
<1>4. \A x \in R : InOrder(x, p)
  BY ZenonT(60), <1>1 DEF Exchange, ResponseOK, EndsOK, InOrder, Unanswered
<1>5. \A x \in Q : RequestOK(x, c, s2, R2)
  BY ZenonT(60), <1>1, <1>2 DEF Exchange, RequestOK, EndsOK, Has, Unanswered
<1>6. \A x \in R2 : ResponseOK(x, c, s2, R2)
  BY ZenonT(60), <1>1, <1>2 DEF Exchange, ResponseOK, EndsOK, Has, Granted, Unanswered
<1>7. EndsOK(c, s2, Q, R2)
  BY ZenonT(60), <1>1, <1>2 DEF Exchange, RequestOK, EndsOK, Has, Granted, Unanswered, Underway
<1>8. Exchange(c, s2, Q, R2)
  BY ZenonT(60), <1>5, <1>6, <1>7 DEF Exchange
<1>9. ResponsesOrdered(r2, g)
  BY SMTT(60), <1>4, AppendedOrder DEF Link, R
<1> QED
  BY ZenonT(60), <1>3, <1>8, <1>9 DEF Link, Q, R2

(* The application publishes a Feedback. *)
LEMMA FeedbackSent ==
  ASSUME NEW g, NEW c, NEW s, NEW q, NEW r, Link(g, c, s, q, r),
         NEW s2, NEW r2, NEW p, Appended(r2, r, p), p.goal = g, p.kind = "FEEDBACK", p.slot = s.slot,
         s.state \in {"GOAL_ACCEPTED", "CANCEL_ACCEPTED"}, s2.state = s.state,
         s2.slot = s.slot, s2.cancel_decision_pending = s.cancel_decision_pending,
         p.sequence = s.next_feedback_sequence,
         s2.next_feedback_sequence = NextSequence(s.next_feedback_sequence)
  PROVE  Link(g, c, s2, q, r2)
<1> DEFINE Q == Packets(q, g)
           R == Packets(r, g)
           R2 == Packets(r2, g)
<1>1. Exchange(c, s, Q, R)
  BY DEF Link
<1>2. R2 = R \cup {p}
  BY SMTT(60), AppendedPackets
<1>3. FeedbackNumbered(g, c, s2, r2)
  BY SMTT(60), FeedbackAppended DEF Link
<1> HIDE DEF Q, R, R2
<1>4. \A x \in R : InOrder(x, p)
  BY ZenonT(60), <1>1 DEF Exchange, ResponseOK, EndsOK, InOrder, Unanswered
<1>5. \A x \in Q : RequestOK(x, c, s2, R2)
  BY ZenonT(60), <1>1, <1>2 DEF Exchange, RequestOK, EndsOK, Has, Unanswered
<1>6. \A x \in R2 : ResponseOK(x, c, s2, R2)
  BY SMTT(60), <1>1, <1>2 DEF Exchange, ResponseOK, EndsOK, Has, Granted, Unanswered
<1>7. EndsOK(c, s2, Q, R2)
  BY ZenonT(60), <1>1, <1>2 DEF Exchange, RequestOK, EndsOK, Has, Granted, Unanswered, Underway
<1>8. Exchange(c, s2, Q, R2)
  BY ZenonT(60), <1>5, <1>6, <1>7 DEF Exchange
<1>9. ResponsesOrdered(r2, g)
  BY SMTT(60), <1>4, AppendedOrder DEF Link, R
<1> QED
  BY ZenonT(60), <1>3, <1>8, <1>9 DEF Link, Q, R2

(* The application completes the Goal and the Result is sent. *)
LEMMA ResultSent ==
  ASSUME NEW g, NEW c, NEW s, NEW q, NEW r, Link(g, c, s, q, r),
         NEW s2, NEW r2, NEW p, Appended(r2, r, p), p.goal = g, p.kind = "RESULT", p.slot = s.slot,
         \/ s.state = "GOAL_ACCEPTED" /\ p.status \in {"SUCCEEDED", "ABORTED"}
         \/ s.state = "CANCEL_ACCEPTED" /\ p.status \in {"CANCELED", "ABORTED"},
         s2.state = "NONE", ~s2.cancel_decision_pending
  PROVE  Link(g, c, s2, q, r2)
<1> DEFINE Q == Packets(q, g)
           R == Packets(r, g)
           R2 == Packets(r2, g)
<1>1. Exchange(c, s, Q, R)
  BY DEF Link
<1>2. R2 = R \cup {p}
  BY SMTT(60), AppendedPackets
<1>3. FeedbackNumbered(g, c, s2, r2)
  BY ZenonT(60), FeedbackAppended DEF Link
<1> HIDE DEF Q, R, R2
<1>4. \A x \in R : InOrder(x, p)
  BY ZenonT(60), <1>1 DEF Exchange, ResponseOK, EndsOK, InOrder, Unanswered
<1>5. \A x \in Q : RequestOK(x, c, s2, R2)
  BY ZenonT(60), <1>1, <1>2 DEF Exchange, RequestOK, EndsOK, Has, Unanswered
<1>6. \A x \in R2 : ResponseOK(x, c, s2, R2)
  BY SMTT(60), <1>1, <1>2 DEF Exchange, ResponseOK, EndsOK, Has, Granted, Unanswered
<1>7. EndsOK(c, s2, Q, R2)
  BY ZenonT(60), <1>1, <1>2 DEF Exchange, RequestOK, EndsOK, Has, Granted, Unanswered, Underway
<1>8. Exchange(c, s2, Q, R2)
  BY ZenonT(60), <1>5, <1>6, <1>7 DEF Exchange
<1>9. ResponsesOrdered(r2, g)
  BY ZenonT(60), <1>4, AppendedOrder DEF Link, R
<1> QED
  BY ZenonT(60), <1>3, <1>8, <1>9 DEF Link, Q, R2

(* The application completes the Goal and the Result cannot be sent. *)
LEMMA ResultKept ==
  ASSUME NEW g, NEW c, NEW s, NEW q, NEW r, Link(g, c, s, q, r), NEW s2,
         s.state \in {"GOAL_ACCEPTED", "CANCEL_ACCEPTED"}, s2.state = "RESULT_COMMITTED",
         s2.slot = s.slot, ~s2.cancel_decision_pending,
         s2.next_feedback_sequence = s.next_feedback_sequence
  PROVE  Link(g, c, s2, q, r)
<1> DEFINE Q == Packets(q, g)
           R == Packets(r, g)
<1>1. Exchange(c, s, Q, R)
  BY ZenonT(60) DEF Link
<1>2. FeedbackNumbered(g, c, s2, r)
  BY ZenonT(60) DEF Link, FeedbackNumbered, Numbering
<1> HIDE DEF Q, R
<1>3. \A x \in Q : RequestOK(x, c, s2, R)
  BY ZenonT(60), <1>1 DEF Exchange, RequestOK
<1>4. \A x \in R : ResponseOK(x, c, s2, R)
  BY ZenonT(60), <1>1 DEF Exchange, ResponseOK
<1>5. EndsOK(c, s2, Q, R)
  BY ZenonT(60), <1>1 DEF Exchange, RequestOK, EndsOK, Has, Unanswered, Underway
<1>6. Exchange(c, s2, Q, R)
  BY <1>3, <1>4, <1>5 DEF Exchange
<1> QED
  BY ZenonT(60), <1>2, <1>6 DEF Link, Q, R

--------------------------------------------------------------------------------
(* All Goals of all connections: cb and sb are the binding tables of the clients
   and of the servers, ts and tc the queues *)

LinkAll(cb, sb, ts, tc) ==
    \A k \in Connections, g \in Goals : Link(g, cb[<<k, g>>], sb[<<k, g>>], ts[k], tc[k])

LEMMA EntryChanged ==
  ASSUME NEW V, NEW f \in [Connections \X Goals -> V], NEW k \in Connections, NEW g \in Goals,
         NEW b
  PROVE  /\ [f EXCEPT ![<<k, g>>] = b][<<k, g>>] = b
         /\ \A l \in Connections, h \in Goals :
               l # k \/ h # g => [f EXCEPT ![<<k, g>>] = b][<<l, h>>] = f[<<l, h>>]
<1>1. \A l \in Connections, h \in Goals : <<l, h>> \in DOMAIN f /\ (<<l, h>> = <<k, g>> => l = k /\ h = g)
  OBVIOUS
<1> QED
  BY <1>1

LEMMA QueueAppended ==
  ASSUME NEW S, NEW f \in [Connections -> Seq(S)], NEW k \in Connections, NEW p \in S
  PROVE  /\ Appended(Send(f, k, p)[k], f[k], p)
         /\ \A l \in Connections : l # k => Send(f, k, p)[l] = f[l]
<1>1. f[k] \in Seq(S) /\ Send(f, k, p)[k] = Append(f[k], p)
  BY DEF Send
<1>2. Appended(Append(f[k], p), f[k], p)
  BY <1>1 DEF Appended
<1> QED
  BY <1>1, <1>2 DEF Send

LEMMA QueuePolled ==
  ASSUME NEW S, NEW f \in [Connections -> Seq(S)], NEW k \in Connections, f[k] # << >>
  PROVE  /\ Polled(Received(f, k)[k], f[k]) /\ f[k][1] = Head(f[k])
         /\ \A l \in Connections : l # k => Received(f, k)[l] = f[l]
<1>1. f[k] \in Seq(S) /\ Received(f, k)[k] = Tail(f[k])
  BY DEF Received
<1>2. Polled(Tail(f[k]), f[k])
  BY <1>1 DEF Polled
<1> QED
  BY <1>1, <1>2 DEF Received

LEMMA ClientSends ==
  ASSUME NEW V, NEW cb \in [Connections \X Goals -> V], NEW sb,
         NEW ts \in [Connections -> Seq(ToServer)], NEW tc, LinkAll(cb, sb, ts, tc),
         NEW k \in Connections, NEW g \in Goals, NEW b, NEW p \in ToServer, p.goal = g,
         \A q2 : Appended(q2, ts[k], p) => Link(g, b, sb[<<k, g>>], q2, tc[k])
  PROVE  LinkAll([cb EXCEPT ![<<k, g>>] = b], sb, Send(ts, k, p), tc)
<1> DEFINE cb2 == [cb EXCEPT ![<<k, g>>] = b]
           ts2 == Send(ts, k, p)
<1>1. cb2[<<k, g>>] = b /\ \A l \in Connections, h \in Goals : l # k \/ h # g => cb2[<<l, h>>] = cb[<<l, h>>]
  BY ZenonT(60), EntryChanged
<1>2. Appended(ts2[k], ts[k], p) /\ \A l \in Connections : l # k => ts2[l] = ts[l]
  BY ZenonT(60), QueueAppended
<1> HIDE DEF cb2, ts2
<1>3. ASSUME NEW l \in Connections, NEW h \in Goals
      PROVE  Link(h, cb2[<<l, h>>], sb[<<l, h>>], ts2[l], tc[l])
  <2>1. Link(h, cb[<<l, h>>], sb[<<l, h>>], ts[l], tc[l])
    BY DEF LinkAll
  <2>2. CASE l = k /\ h = g
    BY ZenonT(60), <1>1, <1>2, <2>2
  <2>3. CASE l = k /\ h # g
    <3>1. Link(h, cb[<<k, h>>], sb[<<k, h>>], ts2[k], tc[k])
      BY ZenonT(60), <1>2, <2>1, <2>3, OtherRequestSent
    <3> QED
      BY ZenonT(60), <1>1, <2>3, <3>1
  <2>4. CASE l # k
    BY ZenonT(60), <1>1, <1>2, <2>1, <2>4
  <2> QED
    BY ZenonT(60), <2>2, <2>3, <2>4
<1> QED
  BY ZenonT(60), <1>3 DEF LinkAll, cb2, ts2

LEMMA ClientPolls ==
  ASSUME NEW V, NEW cb \in [Connections \X Goals -> V], NEW sb,
         NEW ts, NEW tc \in [Connections -> Seq(ToClient)], LinkAll(cb, sb, ts, tc),
         NEW k \in Connections, NEW g \in Goals, NEW b, tc[k] # << >>, Head(tc[k]).goal = g,
         \A r2 : Polled(r2, tc[k]) => Link(g, b, sb[<<k, g>>], ts[k], r2)
  PROVE  LinkAll([cb EXCEPT ![<<k, g>>] = b], sb, ts, Received(tc, k))
<1> DEFINE cb2 == [cb EXCEPT ![<<k, g>>] = b]
           tc2 == Received(tc, k)
<1>1. /\ cb2[<<k, g>>] = b
      /\ \A l \in Connections, h \in Goals : l # k \/ h # g => cb2[<<l, h>>] = cb[<<l, h>>]
  BY ZenonT(60), EntryChanged
<1>2. /\ Polled(tc2[k], tc[k]) /\ tc[k][1] = Head(tc[k])
      /\ \A l \in Connections : l # k => tc2[l] = tc[l]
  BY ZenonT(60), QueuePolled
<1> HIDE DEF cb2, tc2
<1>3. ASSUME NEW l \in Connections, NEW h \in Goals
      PROVE  Link(h, cb2[<<l, h>>], sb[<<l, h>>], ts[l], tc2[l])
  <2>1. Link(h, cb[<<l, h>>], sb[<<l, h>>], ts[l], tc[l])
    BY DEF LinkAll
  <2>2. CASE l = k /\ h = g
    BY ZenonT(60), <1>1, <1>2, <2>2
  <2>3. CASE l = k /\ h # g
    <3>1. Link(h, cb[<<k, h>>], sb[<<k, h>>], ts[k], tc2[k])
      BY ZenonT(60), <1>2, <2>1, <2>3, OtherResponsePolled
    <3> QED
      BY ZenonT(60), <1>1, <2>3, <3>1
  <2>4. CASE l # k
    BY ZenonT(60), <1>1, <1>2, <2>1, <2>4
  <2> QED
    BY ZenonT(60), <2>2, <2>3, <2>4
<1> QED
  BY ZenonT(60), <1>3 DEF LinkAll, cb2, tc2

LEMMA ServerSends ==
  ASSUME NEW V, NEW cb, NEW sb \in [Connections \X Goals -> V],
         NEW ts, NEW tc \in [Connections -> Seq(ToClient)], LinkAll(cb, sb, ts, tc),
         NEW k \in Connections, NEW g \in Goals, NEW b, NEW p \in ToClient, p.goal = g,
         \A r2 : Appended(r2, tc[k], p) => Link(g, cb[<<k, g>>], b, ts[k], r2)
  PROVE  LinkAll(cb, [sb EXCEPT ![<<k, g>>] = b], ts, Send(tc, k, p))
<1> DEFINE sb2 == [sb EXCEPT ![<<k, g>>] = b]
           tc2 == Send(tc, k, p)
<1>1. /\ sb2[<<k, g>>] = b
      /\ \A l \in Connections, h \in Goals : l # k \/ h # g => sb2[<<l, h>>] = sb[<<l, h>>]
  BY ZenonT(60), EntryChanged
<1>2. /\ Appended(tc2[k], tc[k], p)
      /\ \A l \in Connections : l # k => tc2[l] = tc[l]
  BY ZenonT(60), QueueAppended
<1> HIDE DEF sb2, tc2
<1>3. ASSUME NEW l \in Connections, NEW h \in Goals
      PROVE  Link(h, cb[<<l, h>>], sb2[<<l, h>>], ts[l], tc2[l])
  <2>1. Link(h, cb[<<l, h>>], sb[<<l, h>>], ts[l], tc[l])
    BY DEF LinkAll
  <2>2. CASE l = k /\ h = g
    BY ZenonT(60), <1>1, <1>2, <2>2
  <2>3. CASE l = k /\ h # g
    <3>1. Link(h, cb[<<k, h>>], sb[<<k, h>>], ts[k], tc2[k])
      BY ZenonT(60), <1>2, <2>1, <2>3, OtherResponseSent
    <3> QED
      BY ZenonT(60), <1>1, <2>3, <3>1
  <2>4. CASE l # k
    BY ZenonT(60), <1>1, <1>2, <2>1, <2>4
  <2> QED
    BY ZenonT(60), <2>2, <2>3, <2>4
<1> QED
  BY ZenonT(60), <1>3 DEF LinkAll, sb2, tc2

LEMMA ServerPolls ==
  ASSUME NEW V, NEW cb, NEW sb \in [Connections \X Goals -> V],
         NEW ts \in [Connections -> Seq(ToServer)], NEW tc, LinkAll(cb, sb, ts, tc),
         NEW k \in Connections, NEW g \in Goals, NEW b, ts[k] # << >>, Head(ts[k]).goal = g,
         \A q2 : Polled(q2, ts[k]) => Link(g, cb[<<k, g>>], b, q2, tc[k])
  PROVE  LinkAll(cb, [sb EXCEPT ![<<k, g>>] = b], Received(ts, k), tc)
<1> DEFINE sb2 == [sb EXCEPT ![<<k, g>>] = b]
           ts2 == Received(ts, k)
<1>1. /\ sb2[<<k, g>>] = b
      /\ \A l \in Connections, h \in Goals : l # k \/ h # g => sb2[<<l, h>>] = sb[<<l, h>>]
  BY ZenonT(60), EntryChanged
<1>2. /\ Polled(ts2[k], ts[k]) /\ ts[k][1] = Head(ts[k])
      /\ \A l \in Connections : l # k => ts2[l] = ts[l]
  BY ZenonT(60), QueuePolled
<1> HIDE DEF sb2, ts2
<1>3. ASSUME NEW l \in Connections, NEW h \in Goals
      PROVE  Link(h, cb[<<l, h>>], sb2[<<l, h>>], ts2[l], tc[l])
  <2>1. Link(h, cb[<<l, h>>], sb[<<l, h>>], ts[l], tc[l])
    BY DEF LinkAll
  <2>2. CASE l = k /\ h = g
    BY ZenonT(60), <1>1, <1>2, <2>2
  <2>3. CASE l = k /\ h # g
    <3>1. Link(h, cb[<<k, h>>], sb[<<k, h>>], ts2[k], tc[k])
      BY ZenonT(60), <1>2, <2>1, <2>3, OtherRequestPolled
    <3> QED
      BY ZenonT(60), <1>1, <2>3, <3>1
  <2>4. CASE l # k
    BY ZenonT(60), <1>1, <1>2, <2>1, <2>4
  <2> QED
    BY ZenonT(60), <2>2, <2>3, <2>4
<1> QED
  BY ZenonT(60), <1>3 DEF LinkAll, sb2, ts2

LEMMA ClientChanges ==
  ASSUME NEW V, NEW cb \in [Connections \X Goals -> V], NEW sb, NEW ts, NEW tc,
         LinkAll(cb, sb, ts, tc), NEW k \in Connections, NEW g \in Goals, NEW b,
         Link(g, b, sb[<<k, g>>], ts[k], tc[k])
  PROVE  LinkAll([cb EXCEPT ![<<k, g>>] = b], sb, ts, tc)
<1> DEFINE cb2 == [cb EXCEPT ![<<k, g>>] = b]
<1>1. /\ cb2[<<k, g>>] = b
      /\ \A l \in Connections, h \in Goals : l # k \/ h # g => cb2[<<l, h>>] = cb[<<l, h>>]
  BY ZenonT(60), EntryChanged
<1> HIDE DEF cb2
<1> QED
  BY ZenonT(60), <1>1 DEF LinkAll, cb2

LEMMA ServerChanges ==
  ASSUME NEW V, NEW cb, NEW sb \in [Connections \X Goals -> V], NEW ts, NEW tc,
         LinkAll(cb, sb, ts, tc), NEW k \in Connections, NEW g \in Goals, NEW b,
         Link(g, cb[<<k, g>>], b, ts[k], tc[k])
  PROVE  LinkAll(cb, [sb EXCEPT ![<<k, g>>] = b], ts, tc)
<1> DEFINE sb2 == [sb EXCEPT ![<<k, g>>] = b]
<1>1. /\ sb2[<<k, g>>] = b
      /\ \A l \in Connections, h \in Goals : l # k \/ h # g => sb2[<<l, h>>] = sb[<<l, h>>]
  BY ZenonT(60), EntryChanged
<1> HIDE DEF sb2
<1> QED
  BY ZenonT(60), <1>1 DEF LinkAll, sb2
================================================================================
