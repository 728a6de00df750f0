---------------------------- MODULE ActionRefinement ----------------------------
(***************************************************************************)
(* ActionSystem implements GoalLifecycle. What the client knows is read    *)
(* off its packet binding; what has been decided is in the server's        *)
(* GoalInstance until the Result is sent, and in the packet that carries   *)
(* it from then until the client polls it.                                 *)
(***************************************************************************)
EXTENDS ActionSystem, SequencesExt

Handles == Connections \X Goals

\* The packets on their way to the client that say something about the Goal.
AnswersTo(h, kind) ==
    SelectSeq(to_client[h[1]], LAMBDA p : p.kind = kind /\ p.goal = h[2])

KnownOf(h) ==
    LET s == client_bindings[h].state IN
    CASE s = "AWAITING_GOAL_RESPONSE"  -> "WAITING"
      [] s = "GOAL_RESPONSE_TIMED_OUT" -> "TIMED_OUT"
      [] s = "CANCELING"               -> "CANCELING"
      [] s = "NONE"                    -> "NONE"
      [] OTHER                         -> "EXECUTING"

Rejected(h) == \E i \in DOMAIN AnswersTo(h, "GOAL") : AnswersTo(h, "GOAL")[i].status = "REJECTED"

IsAsked(h) ==
    InQueue(to_server[h[1]], "GOAL", h[2]) \/ bindings[h].state = "AWAITING_GOAL_DECISION"

DecidedOf(h) ==
    CASE bindings[h].state \in {"GOAL_ACCEPTED", "CANCEL_ACCEPTED"} -> "ACCEPTED"
      [] bindings[h].state = "RESULT_COMMITTED" -> goals[h].terminal_status
      [] AnswersTo(h, "RESULT") # << >> -> Last(AnswersTo(h, "RESULT")).status
      [] Rejected(h) -> "REJECTED"
      [] ~IsAsked(h) /\ KnownOf(h) = "TIMED_OUT" -> "FORGOTTEN"
      [] OTHER -> "UNDECIDED"

CancelOf(h) ==
    LET answers == AnswersTo(h, "CANCEL") IN
    CASE client_bindings[h].state = "CANCELING" -> "GRANTED"
      [] answers # << >> -> IF Last(answers).status = "ACCEPTED" THEN "GRANTED" ELSE "REFUSED"
      [] client_bindings[h].state = "AWAITING_CANCEL_RESPONSE" -> "ASKED"
      [] OTHER -> "NONE"

Lifecycle == INSTANCE GoalLifecycle
    WITH known   <- [h \in Handles |-> KnownOf(h)],
         decided <- [h \in Handles |-> DecidedOf(h)],
         cancel  <- [h \in Handles |-> CancelOf(h)]

\* The two endpoints, their services and the packets between them behave like
\* a Goal shared by two applications: one answer, at most one granted cancel,
\* one Result, learnt by the client in the order and with the values the
\* server's application decided, whatever the interleaving, the failed sends
\* and the timeouts.
ImplementsLifecycle == Lifecycle!LifecycleSpec
================================================================================
