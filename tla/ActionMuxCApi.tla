----------------------------- MODULE ActionMuxCApi -----------------------------
(***************************************************************************)
(* The C API of the Action multiplexer (src/c_action.cpp): the handle's    *)
(* `started' flag and the event it keeps while the caller's buffer is too  *)
(* small. While an event is kept the multiplexer is not polled, so neither *)
(* its connections nor their losses are looked at.                         *)
(***************************************************************************)
EXTENDS ActionMux

CONSTANT BufferFits  \* may the caller's buffer hold the event: subset of BOOLEAN

VARIABLES
    handle_started,  \* started of the handle, cleared after the services stop
    pending_event,
    told             \* told[g]: events of g the C caller has not acted on, each
                     \* with its connection, which the caller is not told

muxHandle == <<handle_started, pending_event, told>>
cMuxVars == <<muxVars, muxHandle>>

NoEvent == [kind |-> "NONE", goal |-> NoGoal, connection |-> 0]

\* A stale runtime cancel is returned as an ERROR.
EventKind == {"GOAL", "CANCEL", "RUNTIME", "ERROR"}

MuxEvent == {NoEvent} \cup [kind : EventKind, goal : Goals, connection : Connections]

CMuxInit ==
    /\ MuxInit
    /\ handle_started = FALSE
    /\ pending_event = NoEvent
    /\ told = [g \in Goals |-> {}]

CMuxStart ==
    /\ ~handle_started
    /\ MuxStart
    /\ handle_started' = TRUE
    /\ UNCHANGED <<pending_event, told>>

\* stop_mux_server: the services, then the kept event and the flag. A thread
\* that polls in between finds the services stopped.
StopMuxServer ==
    \/ /\ handle_started
       /\ MuxStop
       /\ UNCHANGED muxHandle
    \/ /\ handle_started /\ ~started
       /\ handle_started' = FALSE
       /\ pending_event' = NoEvent
       /\ told' = [g \in Goals |-> {}]
       /\ UNCHANGED muxVars

\* The event of the slot whose visit ends the poll.
ReturnedEvent(k) ==
    LET first == CHOOSE i \in ReportedRuntimeEvents(k) :
                    \A j \in ReportedRuntimeEvents(k) : i <= j
        g == runtime_events[k][first]
    IN  IF ReportedRuntimeEvents(k) # {}
        THEN [kind |-> IF HasGoal(k, g) THEN "RUNTIME" ELSE "ERROR", goal |-> g,
              connection |-> k]
        ELSE [kind |-> Head(to_server[k]).kind, goal |-> Head(to_server[k]).goal,
              connection |-> k]

\* Mutant: an event that does not fit is gone.
DeliverOnce(e, fits) ==
    /\ pending_event' = NoEvent
    /\ told' = IF e = NoEvent \/ ~fits THEN told
               ELSE [told EXCEPT ![e.goal] = @ \cup {<<e.kind, e.connection>>}]

\* Goal and cancel requests have a PDU to copy, the others fit always.
Deliver(e, fits) ==
    IF e # NoEvent /\ (fits \/ e.kind \in {"RUNTIME", "ERROR"})
    THEN /\ pending_event' = NoEvent
         /\ told' = [told EXCEPT ![e.goal] = @ \cup {<<e.kind, e.connection>>}]
    ELSE /\ pending_event' = e
         /\ UNCHANGED told

\* poll and poll_alloc under poll_mutex; the steps of the multiplexer's poll()
\* are those of ActionMux.
CMuxPoll(fits) ==
    /\ handle_started
    /\ \/ /\ pending_event = NoEvent
          /\ MuxPoll
          /\ \/ phase = "SLOTS" /\ phase' = "IDLE"
                /\ \E k \in remaining : Visits(k) /\ Deliver(ReturnedEvent(k), fits)
             \/ ~(phase = "SLOTS" /\ phase' = "IDLE") /\ UNCHANGED <<pending_event, told>>
       \/ /\ pending_event # NoEvent
          /\ Deliver(pending_event, fits)
          /\ UNCHANGED muxVars
    /\ UNCHANGED handle_started

--------------------------------------------------------------------------------
(* The calls: an application knows a Goal from its events *)

Knows(g, kinds) == \E k \in Connections : told[g] \cap (kinds \X {k}) # {}

Acted(g, kinds) == told' = [told EXCEPT ![g] = @ \ (kinds \X Connections)]

CMuxGoalDecision(k, g) ==
    /\ Knows(g, {"GOAL"})
    /\ MuxAcceptGoal(k, g) \/ MuxRejectGoal(k, g)
    /\ Acted(g, {"GOAL"})

CMuxCancelDecision(k, g) ==
    /\ Knows(g, {"CANCEL", "RUNTIME"})
    /\ RouteActiveGoal(k, g)
    /\ Acted(g, {"CANCEL", "RUNTIME"})

CMuxSendFeedback(k, g) == MuxSendFeedback(k, g) /\ UNCHANGED told

CMuxComplete(k, g) ==
    /\ \E status \in TerminalStatus :
          \/ FALSE \in SendOutcomes /\ MuxCompleteUnsent(k, g, status)
          \/ MuxComplete(k, g, status)
          \/ MuxCompleteLocally(k, g, status)
    /\ Acted(g, {"CANCEL", "RUNTIME"})

CMuxCalls(k, g) ==
    /\ handle_started
    /\ \/ CMuxGoalDecision(k, g)
       \/ CMuxCancelDecision(k, g)
       \/ CMuxSendFeedback(k, g)
       \/ CMuxComplete(k, g)
    /\ UNCHANGED <<handle_started, pending_event>>

CMuxNext ==
    \/ \E k \in Connections : ResponseTaken(k) /\ UNCHANGED muxHandle
    \/ /\ \A k \in Connections : to_client[k] = << >>
       /\ \/ CMuxStart
          \/ StopMuxServer
          \/ \E fits \in BufferFits : CMuxPoll(fits)
          \/ SessionAccepted /\ UNCHANGED muxHandle
          \/ \E k \in Connections :
                \/ ConnectionLost(k) /\ UNCHANGED muxHandle
                \/ \E p \in ToServer : MuxRequestArrives(k, p) /\ UNCHANGED muxHandle
                \/ \E g \in Goals : CMuxCalls(k, g)

CMuxSpec == CMuxInit /\ [][CMuxNext]_cMuxVars

CMuxPollTurn == (\A k \in Connections : to_client[k] = << >>) /\ CMuxPoll(TRUE)

\* The caller polls again and again, whatever else it calls in between, and
\* sooner or later with a buffer that fits.
CMuxFairSpec ==
    /\ CMuxSpec
    /\ SF_cMuxVars(CMuxPollTurn)
    /\ \A k \in Connections : WF_cMuxVars(ResponseTaken(k) /\ UNCHANGED muxHandle)

--------------------------------------------------------------------------------
(* Properties *)

\* The handle's fields have their types.
CMuxTypeOK ==
    /\ MuxTypeOK
    /\ handle_started \in BOOLEAN
    /\ pending_event \in MuxEvent
    /\ told \in [Goals -> SUBSET (EventKind \X Connections)]

Offered(k, g, kind) ==
    \/ <<kind, k>> \in told[g]
    \/ pending_event = [kind |-> kind, goal |-> g, connection |-> k]

\* Whatever the multiplexer waits for the application to decide, a Goal of any
\* connection, a client's cancel or a cancel for a lost connection, is known to
\* the C caller or is the event its next poll returns: small buffers, failing
\* allocations, lost connections and reconnects hide nothing.
MuxCallerCanDecide ==
    handle_started /\ started =>
        \A g \in Goals, k \in Connections :
            /\ owners[g] = Owner("PENDING", k) => Offered(k, g, "GOAL")
            /\ goals[<<k, g>>].cancel_origin = "CLIENT" => Offered(k, g, "CANCEL")
            /\ goals[<<k, g>>].cancel_origin = "RUNTIME" => Offered(k, g, "RUNTIME")
================================================================================
