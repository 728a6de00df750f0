------------------------------ MODULE ActionTypes ------------------------------
(***************************************************************************)
(* The vocabulary the Action client and server share                       *)
(* (include/hakoniwa/pdu/action/action_types.hpp): decisions, terminal     *)
(* statuses, the states of an accepted Goal, and Feedback numbers.         *)
(***************************************************************************)
EXTENDS Naturals, Sequences

CONSTANT SequenceModulus  \* Feedback numbers wrap here; uint32_t in the code

ASSUME SequenceModulusAssumption == SequenceModulus \in Nat \ {0}

Decision == {"ACCEPTED", "REJECTED"}

TerminalStatus == {"SUCCEEDED", "CANCELED", "ABORTED"}

GoalState == {"EXECUTING", "CANCELING", "FINISHING"}

\* The statuses a Goal in `state' may be completed with. Both state machines,
\* the server's packet binding and the client's packet binding apply it.
Completions(state) ==
    IF state = "EXECUTING" THEN {"SUCCEEDED", "ABORTED"}
    ELSE IF state = "CANCELING" THEN {"CANCELED", "ABORTED"}
    ELSE {}

FeedbackSequence == 0 .. SequenceModulus - 1

NextSequence(n) == (n + 1) % SequenceModulus

\* The three outcomes of transition_server_goal and transition_client_goal.
Moved(next)   == [kind |-> "TRANSITIONED", next |-> next]
Nop(current)  == [kind |-> "NOP", next |-> current]
Error(current) == [kind |-> "ERROR", next |-> current]
================================================================================
