----------------------- MODULE ActionClientStateMachine -----------------------
(***************************************************************************)
(* transition_client_goal (src/action_client_state_machine.cpp): what an   *)
(* event does to the context of one accepted Goal on the client. The       *)
(* function is pure; ActionClient applies it.                              *)
(***************************************************************************)
EXTENDS ActionTypes

\* A goal id with no GoalInstance has state "NONE".
ClientGoalContext ==
    [state : GoalState \cup {"NONE"},
     cancel_response_pending : BOOLEAN,
     result_pending : BOOLEAN,
     next_feedback_sequence : FeedbackSequence,
     terminal_status : TerminalStatus \cup {"UNSPECIFIED"}]

NewClientContext ==
    [state |-> "EXECUTING", cancel_response_pending |-> FALSE,
     result_pending |-> TRUE, next_feedback_sequence |-> 0,
     terminal_status |-> "UNSPECIFIED"]

NoClientContext == [NewClientContext EXCEPT !.state = "NONE"]

ClientGoalEventType ==
    {"REQUEST_CANCEL", "FEEDBACK_RECEIVED", "CANCEL_RESPONSE_ACCEPTED",
     "CANCEL_RESPONSE_REJECTED", "RESULT_RECEIVED",
     "CANCEL_REQUEST_SEND_FAILED", "CANCEL_RESPONSE_TIMEOUT",
     "RESULT_TIMEOUT", "TRANSPORT_DISCONNECTED", "CLIENT_SHUTDOWN_REQUESTED"}

IsValidClientContext(context) ==
    /\ context.state \in GoalState
    /\ context.cancel_response_pending => context.state = "EXECUTING"
    /\ IF context.state = "FINISHING"
       THEN ~context.result_pending /\ context.terminal_status \in TerminalStatus
       ELSE context.result_pending /\ context.terminal_status = "UNSPECIFIED"

ReceiveClientResult(current, status) ==
    IF status \in Completions(current.state)
    THEN Moved([current EXCEPT !.state = "FINISHING",
                               !.cancel_response_pending = FALSE,
                               !.result_pending = FALSE,
                               !.terminal_status = status])
    ELSE Nop(current)

RequestCancel(current) ==
    IF current.state = "EXECUTING" /\ ~current.cancel_response_pending
    THEN Moved([current EXCEPT !.cancel_response_pending = TRUE])
    ELSE Error(current)

FeedbackReceived(current, sequence) ==
    IF current.state # "FINISHING" /\ sequence = current.next_feedback_sequence
    THEN Moved([current EXCEPT !.next_feedback_sequence = NextSequence(@)])
    ELSE Nop(current)

\* An answer to the pending cancel request moves the Goal to `state'.
CancelAnswered(current, state) ==
    IF current.state = "EXECUTING" /\ current.cancel_response_pending
    THEN Moved([current EXCEPT !.state = state,
                               !.cancel_response_pending = FALSE])
    ELSE Nop(current)

CancelRequestSendFailed(current) ==
    IF current.state = "EXECUTING" /\ current.cancel_response_pending
    THEN Moved([current EXCEPT !.cancel_response_pending = FALSE])
    ELSE Error(current)

TransitionClientGoal(current, type, status, sequence) ==
    IF ~IsValidClientContext(current) THEN Error(current)
    ELSE IF type = "REQUEST_CANCEL" THEN RequestCancel(current)
    ELSE IF type = "FEEDBACK_RECEIVED" THEN FeedbackReceived(current, sequence)
    ELSE IF type = "CANCEL_RESPONSE_ACCEPTED" THEN CancelAnswered(current, "CANCELING")
    ELSE IF type = "CANCEL_RESPONSE_REJECTED" THEN CancelAnswered(current, "EXECUTING")
    ELSE IF type = "RESULT_RECEIVED" THEN ReceiveClientResult(current, status)
    ELSE IF type = "CANCEL_REQUEST_SEND_FAILED" THEN CancelRequestSendFailed(current)
    ELSE IF type \in ClientGoalEventType THEN Nop(current)
    ELSE Error(current)
================================================================================
