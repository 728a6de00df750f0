----------------------- MODULE ActionServerStateMachine -----------------------
(***************************************************************************)
(* transition_server_goal (src/action_server_state_machine.cpp): what an   *)
(* event does to the context of one accepted Goal on the server. The       *)
(* function is pure; ActionServer applies it.                              *)
(***************************************************************************)
EXTENDS ActionTypes

CancelOrigin == {"NONE", "CLIENT", "RUNTIME"}

\* A goal id with no GoalInstance has state "NONE".
ServerGoalContext ==
    [state : GoalState \cup {"NONE"},
     cancel_decision_pending : BOOLEAN,
     cancel_origin : CancelOrigin,
     terminal_status : TerminalStatus \cup {"UNSPECIFIED"}]

NewServerContext ==
    [state |-> "EXECUTING", cancel_decision_pending |-> FALSE,
     cancel_origin |-> "NONE", terminal_status |-> "UNSPECIFIED"]

NoServerContext == [NewServerContext EXCEPT !.state = "NONE"]

ServerGoalEvent ==
    {"PUBLISH_FEEDBACK", "COMPLETE_SUCCEEDED", "COMPLETE_CANCELED",
     "COMPLETE_ABORTED", "COMPLETE_UNSPECIFIED", "ACCEPT_CANCEL",
     "REJECT_CANCEL", "CANCEL_REQUEST_RECEIVED",
     "DUPLICATE_CANCEL_REQUEST_RECEIVED", "DUPLICATE_GOAL_REQUEST_RECEIVED",
     "FEEDBACK_SEND_COMPLETED", "FEEDBACK_SEND_FAILED",
     "RESULT_SEND_COMPLETED", "RESULT_SEND_FAILED", "TRANSPORT_DISCONNECTED",
     "RUNTIME_CANCEL_REQUESTED", "APPLICATION_RESPONSE_TIMEOUT",
     "SERVER_SHUTDOWN_REQUESTED"}

IsValidServerContext(context) ==
    /\ context.state \in GoalState
    /\ context.cancel_decision_pending <=> (context.cancel_origin # "NONE")
    /\ context.cancel_decision_pending => context.state = "EXECUTING"
    /\ IF context.state = "FINISHING" THEN context.terminal_status \in TerminalStatus
       ELSE context.terminal_status = "UNSPECIFIED"

CompleteServerGoal(current, status) ==
    IF status \in Completions(current.state)
    THEN Moved([state |-> "FINISHING", cancel_decision_pending |-> FALSE,
                cancel_origin |-> "NONE", terminal_status |-> status])
    ELSE Error(current)

DecideCancel(current, state) ==
    IF current.state = "EXECUTING" /\ current.cancel_decision_pending
       /\ current.cancel_origin # "NONE"
    THEN Moved([current EXCEPT !.state = state, !.cancel_decision_pending = FALSE,
                               !.cancel_origin = "NONE"])
    ELSE Error(current)

CancelRequestReceived(current) ==
    IF current.state = "EXECUTING" /\ ~current.cancel_decision_pending
    THEN Moved([current EXCEPT !.cancel_decision_pending = TRUE,
                               !.cancel_origin = "CLIENT"])
    ELSE Nop(current)

\* A pending Client cancel is reclassified: the connection its answer would
\* use is gone.
RuntimeCancelRequested(current) ==
    IF current.state = "EXECUTING" /\ current.cancel_origin # "RUNTIME"
    THEN Moved([current EXCEPT !.cancel_decision_pending = TRUE,
                               !.cancel_origin = "RUNTIME"])
    ELSE Nop(current)

NopIf(condition, current) == IF condition THEN Nop(current) ELSE Error(current)

TransitionServerGoal(current, event) ==
    IF ~IsValidServerContext(current) THEN Error(current)
    ELSE IF event = "PUBLISH_FEEDBACK"
         THEN NopIf(current.state \in {"EXECUTING", "CANCELING"}, current)
    ELSE IF event = "COMPLETE_SUCCEEDED" THEN CompleteServerGoal(current, "SUCCEEDED")
    ELSE IF event = "COMPLETE_CANCELED" THEN CompleteServerGoal(current, "CANCELED")
    ELSE IF event = "COMPLETE_ABORTED" THEN CompleteServerGoal(current, "ABORTED")
    ELSE IF event = "COMPLETE_UNSPECIFIED" THEN Error(current)
    ELSE IF event = "ACCEPT_CANCEL" THEN DecideCancel(current, "CANCELING")
    ELSE IF event = "REJECT_CANCEL" THEN DecideCancel(current, "EXECUTING")
    ELSE IF event = "CANCEL_REQUEST_RECEIVED" THEN CancelRequestReceived(current)
    ELSE IF event = "RUNTIME_CANCEL_REQUESTED" THEN RuntimeCancelRequested(current)
    ELSE IF event \in {"RESULT_SEND_COMPLETED", "RESULT_SEND_FAILED"}
         THEN NopIf(current.state = "FINISHING", current)
    ELSE NopIf(event \in ServerGoalEvent, current)
================================================================================
