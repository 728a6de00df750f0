----------------------------- MODULE GoalLifecycle -----------------------------
(***************************************************************************)
(* What the Action layer promises the two applications that share a Goal,  *)
(* with no packets, slots, bindings or instances: the server's application *)
(* decides, the client's application learns, and every Goal has one        *)
(* answer, at most one granted cancel and one Result, which the client     *)
(* learns in that order and exactly as they were decided.                  *)
(*                                                                         *)
(* ActionRefinement shows that the client and the server of ActionSystem   *)
(* implement this specification.                                           *)
(***************************************************************************)
EXTENDS ActionTypes

CONSTANT Handles  \* the Goals an application may ask for

VARIABLES
    known,    \* known[h]: what the client's application knows of the Goal
    decided,  \* decided[h]: what the server's application has decided
    cancel    \* cancel[h]: where the client's cancel stands

lifecycle == <<known, decided, cancel>>

Undecided == "UNDECIDED"

\* A Goal the client gave up on may still be decided, and is then forgotten.
LifecycleTypeOK ==
    /\ known \in [Handles -> {"NONE", "WAITING", "TIMED_OUT", "EXECUTING", "CANCELING"}]
    /\ decided \in [Handles -> {Undecided, "FORGOTTEN"} \cup Decision \cup TerminalStatus]
    /\ cancel \in [Handles -> {"NONE", "ASKED", "REFUSED", "GRANTED"}]

LifecycleInit ==
    /\ known = [h \in Handles |-> "NONE"]
    /\ decided = [h \in Handles |-> Undecided]
    /\ cancel = [h \in Handles |-> "NONE"]

\* Goals are independent of each other: every action below says what happens
\* to one Goal, and one step may move several.
Know(h, what) == known'[h] = what

Decide(h, what) == decided'[h] = what

Cancel(h, what) == cancel'[h] = what

Ask(h) ==
    /\ known[h] = "NONE"
    /\ Know(h, "WAITING")
    /\ UNCHANGED <<decided[h], cancel[h]>>

Answer(h) ==
    /\ known[h] \in {"WAITING", "TIMED_OUT"}
    /\ decided[h] = Undecided
    /\ \E decision \in Decision : Decide(h, decision)
    /\ UNCHANGED <<known[h], cancel[h]>>

AskCancel(h) ==
    /\ known[h] = "EXECUTING"
    /\ cancel[h] = "NONE"
    /\ Cancel(h, "ASKED")
    /\ UNCHANGED <<known[h], decided[h]>>

AnswerCancel(h) ==
    /\ cancel[h] = "ASKED"
    /\ decided[h] = "ACCEPTED"
    /\ Cancel(h, "REFUSED") \/ Cancel(h, "GRANTED")
    /\ UNCHANGED <<known[h], decided[h]>>

\* CANCELED is the end of a Goal whose cancel was granted, and of no other.
End(h) ==
    /\ decided[h] = "ACCEPTED"
    /\ \E status \in Completions(IF cancel[h] = "GRANTED" THEN "CANCELING" ELSE "EXECUTING") :
          Decide(h, status)
    /\ UNCHANGED <<known[h], cancel[h]>>

--------------------------------------------------------------------------------
(* What the client learns, in the order it was decided *)

Forget(h) == Know(h, "NONE") /\ Decide(h, Undecided) /\ Cancel(h, "NONE")

LearnAccepted(h) ==
    /\ known[h] = "WAITING"
    /\ decided[h] \in {"ACCEPTED"} \cup TerminalStatus
    /\ Know(h, "EXECUTING")
    /\ UNCHANGED <<decided[h], cancel[h]>>

LearnRejected(h) ==
    /\ known[h] = "WAITING"
    /\ decided[h] = "REJECTED"
    /\ Forget(h)

LearnCancelAnswer(h) ==
    /\ known[h] = "EXECUTING"
    /\ \/ cancel[h] = "REFUSED" /\ Cancel(h, "NONE") /\ UNCHANGED known[h]
       \/ cancel[h] = "GRANTED" /\ Know(h, "CANCELING") /\ UNCHANGED cancel[h]
    /\ UNCHANGED decided[h]

LearnResult(h) ==
    /\ decided[h] \in TerminalStatus
    /\ known[h] = IF cancel[h] = "GRANTED" THEN "CANCELING" ELSE "EXECUTING"
    /\ cancel[h] # "REFUSED"
    /\ Forget(h)

GiveUp(h) ==
    /\ known[h] = "WAITING"
    /\ Know(h, "TIMED_OUT")
    /\ UNCHANGED <<decided[h], cancel[h]>>

\* The decision of a Goal the client gave up on is of no consequence: its id
\* is never asked for again.
Ignore(h) ==
    /\ known[h] = "TIMED_OUT"
    /\ decided[h] \in {"REJECTED"} \cup TerminalStatus
    /\ Decide(h, "FORGOTTEN")
    /\ UNCHANGED <<known[h], cancel[h]>>

GoalStep(h) ==
    \/ Ask(h)
    \/ Answer(h)
    \/ AskCancel(h)
    \/ AnswerCancel(h)
    \/ End(h)
    \/ LearnAccepted(h)
    \/ LearnRejected(h)
    \/ LearnCancelAnswer(h)
    \/ LearnResult(h)
    \/ GiveUp(h)
    \/ Ignore(h)

\* The second conjunct only says that the variables stay functions on Handles.
LifecycleNext ==
    /\ \A h \in Handles : GoalStep(h) \/ UNCHANGED <<known[h], decided[h], cancel[h]>>
    /\ LifecycleTypeOK'

LifecycleSpec == LifecycleInit /\ [][LifecycleNext]_lifecycle
================================================================================
