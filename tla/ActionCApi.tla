------------------------------- MODULE ActionCApi -------------------------------
(***************************************************************************)
(* The C API of the Action client and the Action server (src/c_action.cpp) *)
(* on the two ends of a connection. A handle adds three things to the      *)
(* services it wraps: whether it is started, the one event it keeps while  *)
(* the caller's buffer is too small, and a stop() that is four steps under *)
(* different locks, so that another thread may poll between them.          *)
(*                                                                         *)
(* stop() forgets every Goal of its own side and the connection with it;   *)
(* the other side is not told. A handle may be started again.              *)
(***************************************************************************)
EXTENDS ActionSystem

CONSTANTS
    BufferFits,   \* may the caller's buffer hold the event: subset of BOOLEAN
    Restarting    \* the handles that are stopped: subset of {"client", "server"}

VARIABLES
    client_phase,    \* client_phase[k]: how far stop_client has come
    client_pending,  \* client_pending[k]: pending_event of the client's handle
    client_seen,     \* client_seen[<<k, g>>]: what the C caller knows of the Goal
    server_phase,
    server_pending,
    server_told,     \* server_told[<<k, g>>]: events the C caller has not acted on
    used,            \* the Goal ids send_goal was called with: they are UUIDs
    abandoned        \* the Goals under way when the server's handle was stopped

clientHandle == <<client_phase, client_pending, client_seen, used>>
serverHandle == <<server_phase, server_pending, server_told, abandoned>>
cVars == <<vars, clientHandle, serverHandle>>

\* `started' is TRUE in every phase but the last: stop() clears it at its end.
Phase == {"running", "stopping", "clearing", "stopped"}

NoEvent == [kind |-> "NONE", goal |-> NoGoal, status |-> "OTHER"]

Event(kind, g, status) == [kind |-> kind, goal |-> g, status |-> status]

ClientEvent ==
    {NoEvent} \cup
    [kind : {"GOAL", "CANCEL", "RESULT", "FEEDBACK", "TIMEOUT"}, goal : Goals,
     status : Decision \cup TerminalStatus \cup {"OTHER"}]

ServerEvent == {NoEvent} \cup [kind : {"GOAL", "CANCEL"}, goal : Goals, status : {"OTHER"}]

CInit ==
    /\ Init
    /\ client_phase = [k \in Connections |-> "running"]
    /\ client_pending = [k \in Connections |-> NoEvent]
    /\ client_seen = [h \in Connections \X Goals |-> "NONE"]
    /\ server_phase = [k \in Connections |-> "running"]
    /\ server_pending = [k \in Connections |-> NoEvent]
    /\ server_told = [h \in Connections \X Goals |-> {}]
    /\ used = {} /\ abandoned = {}

\* A send succeeds only while both endpoints run. One that succeeds and is lost
\* is a send just before the connection closed.
Connected(k) == client_phase[k] = "running" /\ server_phase[k] = "running"

\* A prefix of what is in the transport arrived before the connection closed.
ConnectionCloses(k) ==
    \E m \in 0 .. Len(to_server[k]), n \in 0 .. Len(to_client[k]) :
        /\ to_server' = [to_server EXCEPT ![k] = SubSeq(@, 1, m)]
        /\ to_client' = [to_client EXCEPT ![k] = SubSeq(@, 1, n)]

--------------------------------------------------------------------------------
(* The client's handle *)

\* What the caller knows of a Goal after event e, or "CONFUSED" if it cannot
\* make sense of e.
Learn(seen, e) ==
    CASE e.kind = "GOAL" /\ seen = "SENT" ->
            IF e.status = "ACCEPTED" THEN "ACCEPTED" ELSE "NONE"
      [] e.kind = "CANCEL" /\ seen = "ACCEPTED" ->
            IF e.status = "ACCEPTED" THEN "CANCELING" ELSE "ACCEPTED"
      [] e.kind = "FEEDBACK" /\ seen \in {"ACCEPTED", "CANCELING"} -> seen
      [] e.kind = "RESULT" /\ seen \in {"ACCEPTED", "CANCELING"} -> "NONE"
      [] e.kind = "TIMEOUT" /\ seen = "SENT" -> "TIMED_OUT"
      [] OTHER -> "CONFUSED"

CClientSendGoal(k, g) ==
    /\ Connected(k)
    /\ <<k, g>> \notin used
    /\ \E timeout \in GoalTimeouts : SendGoal(k, g, timeout)
    /\ used' = used \cup {<<k, g>>}
    /\ client_seen' = [client_seen EXCEPT ![<<k, g>>] = "SENT"]
    /\ UNCHANGED <<client_phase, client_pending>>

CClientCancelGoal(k, g) ==
    /\ Connected(k)
    /\ SendCancel(k, g)
    /\ UNCHANGED clientHandle

CClientClock(k, g) ==
    /\ GoalDeadlinePasses(k, g)
    /\ UNCHANGED clientHandle

\* The event poll() of the services returns in a step that takes `timed_out'.
ServicesEvent(k, timed_out) ==
    IF to_client[k] # << >> /\ IsMatched(k, Head(to_client[k]))
    THEN LET p == Head(to_client[k]) IN Event(p.kind, p.goal, p.status)
    ELSE IF timed_out # {} THEN Event("TIMEOUT", CHOOSE g \in timed_out : TRUE, "OTHER")
    ELSE NoEvent

\* The event is handed over if it fits, and kept otherwise. A timeout has no PDU.
DeliverToClient(k, e, fits) ==
    IF e # NoEvent /\ (fits \/ e.kind = "TIMEOUT")
    THEN /\ client_pending' = [client_pending EXCEPT ![k] = NoEvent]
         /\ client_seen' = [client_seen EXCEPT ![<<k, e.goal>>] = Learn(@, e)]
    ELSE /\ client_pending' = [client_pending EXCEPT ![k] = e]
         /\ UNCHANGED client_seen

\* client_poll and client_poll_alloc: in the second it is the allocation of the
\* copy that may fail.
CClientPoll(k, fits) ==
    /\ client_phase[k] # "stopped"
    /\ IF client_pending[k] = NoEvent
       THEN /\ ClientPoll(k)
            /\ DeliverToClient(k, ServicesEvent(k,
                   {g \in Goals : TimedOut(k, g)
                        /\ client_bindings'[<<k, g>>].state = "GOAL_RESPONSE_TIMED_OUT"}), fits)
       ELSE /\ DeliverToClient(k, client_pending[k], fits)
            /\ UNCHANGED <<clientVars, to_server, to_client>>
    /\ UNCHANGED <<client_phase, used>>

CClientStart(k) ==
    /\ client_phase[k] = "stopped"
    /\ client_phase' = [client_phase EXCEPT ![k] = "running"]
    /\ UNCHANGED <<clientVars, to_server, to_client, client_pending, client_seen, used>>

\* stop_client: the endpoints, then the services, then the kept event and the flag.
StopClient(k) ==
    \/ /\ client_phase[k] = "running"
       /\ client_phase' = [client_phase EXCEPT ![k] = "stopping"]
       /\ ConnectionCloses(k)
       /\ UNCHANGED <<clientVars, client_pending, client_seen>>
    \/ /\ client_phase[k] = "stopping"
       /\ client_phase' = [client_phase EXCEPT ![k] = "clearing"]
       /\ ClientClearAllInstances(k, Len(to_client[k]))
       /\ UNCHANGED <<client_pending, client_seen>>
    \/ /\ client_phase[k] = "clearing"
       /\ client_phase' = [client_phase EXCEPT ![k] = "stopped"]
       /\ client_pending' = [client_pending EXCEPT ![k] = NoEvent]
       /\ client_seen' = [h \in Connections \X Goals |->
                             IF h[1] = k THEN "NONE" ELSE client_seen[h]]
       /\ UNCHANGED <<clientVars, to_server, to_client>>

CClientStop(k) ==
    /\ "client" \in Restarting
    /\ StopClient(k)
    /\ UNCHANGED used

--------------------------------------------------------------------------------
(* The server's handle *)

Acted(k, g, kinds) == server_told' = [server_told EXCEPT ![<<k, g>>] = @ \ kinds]

\* An application knows a Goal only from its event, and decides what it was
\* told of.
CServerGoalDecision(k, g) ==
    /\ Connected(k)
    /\ "GOAL" \in server_told[<<k, g>>]
    /\ GoalDecision(k, g)
    /\ Acted(k, g, {"GOAL"})

CServerCancelDecision(k, g) ==
    /\ Connected(k)
    /\ "CANCEL" \in server_told[<<k, g>>]
    /\ CancelDecision(k, g)
    /\ Acted(k, g, {"CANCEL"})

CServerSendFeedback(k, g) ==
    /\ Connected(k)
    /\ Len(to_client[k]) < MaxQueued
    /\ SendFeedback(k, g)
    /\ UNCHANGED server_told

\* A send that fails leaves a result to be discarded: complete() stands.
CServerComplete(k, g) ==
    /\ server_phase[k] # "stopped"
    /\ \E status \in TerminalStatus, sent \in SendOutcomes :
          Complete(k, g, status, sent /\ Connected(k))
    /\ Acted(k, g, {"CANCEL"})

CServerCalls(k, g) ==
    /\ \/ CServerGoalDecision(k, g)
       \/ CServerCancelDecision(k, g)
       \/ CServerSendFeedback(k, g)
       \/ CServerComplete(k, g)
    /\ UNCHANGED <<server_phase, server_pending, abandoned>>

\* The event poll() of the services returns for the packet it takes.
PolledEvent(k) ==
    IF to_server[k] = << >> THEN NoEvent
    ELSE LET p == Head(to_server[k]) IN
         IF \/ p.kind = "CANCEL" /\ CancelIsReported(k, p)
            \/ /\ p.kind = "GOAL"
               /\ bindings[<<k, p.goal>>].state = "NONE"
               /\ slot_owners[<<k, p.slot>>] = NoGoal
         THEN Event(p.kind, p.goal, "OTHER") ELSE NoEvent

\* Mutant: an event that does not fit is gone.
DeliverToServerNext(k, e, fits) ==
    /\ server_pending' = [server_pending EXCEPT ![k] = NoEvent]
    /\ server_told' = IF fits /\ e # NoEvent
                      THEN [server_told EXCEPT ![<<k, e.goal>>] = @ \cup {e.kind}]
                      ELSE server_told

DeliverToServer(k, e, fits) ==
    IF e # NoEvent /\ fits
    THEN /\ server_pending' = [server_pending EXCEPT ![k] = NoEvent]
         /\ server_told' = [server_told EXCEPT ![<<k, e.goal>>] = @ \cup {e.kind}]
    ELSE /\ server_pending' = [server_pending EXCEPT ![k] = e]
         /\ UNCHANGED server_told

CServerPoll(k, fits) ==
    /\ server_phase[k] # "stopped"
    /\ IF server_pending[k] = NoEvent
       THEN /\ \E sent \in SendOutcomes : ServerPoll(k, sent /\ Connected(k))
            /\ DeliverToServer(k, PolledEvent(k), fits)
       ELSE /\ DeliverToServer(k, server_pending[k], fits)
            /\ UNCHANGED <<serverVars, to_server, to_client>>
    /\ UNCHANGED <<server_phase, abandoned>>

CServerStart(k) ==
    /\ server_phase[k] = "stopped"
    /\ server_phase' = [server_phase EXCEPT ![k] = "running"]
    /\ UNCHANGED <<serverVars, to_server, to_client, server_pending, server_told, abandoned>>

\* Mutant: the kept event survives the stop.
StopServerKeepsEvent(k) ==
    /\ server_phase[k] = "running"
    /\ server_phase' = [server_phase EXCEPT ![k] = "stopped"]
    /\ ClearAllInstances(k, Len(to_server[k]))
    /\ server_told' = [h \in Connections \X Goals |->
                          IF h[1] = k THEN {} ELSE server_told[h]]
    /\ UNCHANGED server_pending

\* stop_server
StopServer(k) ==
    \/ /\ server_phase[k] = "running"
       /\ server_phase' = [server_phase EXCEPT ![k] = "stopping"]
       /\ ConnectionCloses(k)
       /\ UNCHANGED <<serverVars, server_pending, server_told>>
    \/ /\ server_phase[k] = "stopping"
       /\ server_phase' = [server_phase EXCEPT ![k] = "clearing"]
       /\ ClearAllInstances(k, Len(to_server[k]))
       /\ UNCHANGED <<server_pending, server_told>>
    \/ /\ server_phase[k] = "clearing"
       /\ server_phase' = [server_phase EXCEPT ![k] = "stopped"]
       /\ server_pending' = [server_pending EXCEPT ![k] = NoEvent]
       /\ server_told' = [h \in Connections \X Goals |->
                             IF h[1] = k THEN {} ELSE server_told[h]]
       /\ UNCHANGED <<serverVars, to_server, to_client>>

CServerStop(k) ==
    /\ "server" \in Restarting
    /\ StopServer(k)
    /\ abandoned' = abandoned \cup
           {<<k, g>> : g \in {h \in Goals : ~ClientBindingIn(k, h, {"NONE"})}}

--------------------------------------------------------------------------------

CClientStep(k) ==
    /\ \/ \E g \in Goals : CClientSendGoal(k, g) \/ CClientCancelGoal(k, g) \/ CClientClock(k, g)
       \/ \E fits \in BufferFits : CClientPoll(k, fits)
       \/ CClientStart(k)
       \/ CClientStop(k)
    /\ UNCHANGED <<serverVars, serverHandle>>

CServerStep(k) ==
    /\ \/ \E g \in Goals : CServerCalls(k, g)
       \/ \E fits \in BufferFits : CServerPoll(k, fits)
       \/ CServerStart(k)
       \/ CServerStop(k)
    /\ UNCHANGED <<clientVars, clientHandle>>

CNext == \E k \in Connections : CClientStep(k) \/ CServerStep(k)

CSpec == CInit /\ [][CNext]_cVars

\* Both callers keep polling and sooner or later bring a buffer that fits, the
\* server's application decides every Goal it is told of and completes every
\* Goal it accepted, and a stop() of the client that has begun ends.
CFairSpec ==
    /\ CSpec
    /\ \A k \in Connections :
          /\ WF_cVars(CClientPoll(k, TRUE) /\ UNCHANGED <<serverVars, serverHandle>>)
          /\ WF_cVars(CServerPoll(k, TRUE) /\ UNCHANGED <<clientVars, clientHandle>>)
          /\ WF_cVars(client_phase[k] # "running" /\ CClientStop(k)
                         /\ UNCHANGED <<serverVars, serverHandle>>)
          /\ \A g \in Goals :
                WF_cVars(/\ CServerGoalDecision(k, g) \/ CServerComplete(k, g)
                         /\ UNCHANGED <<server_phase, server_pending, abandoned>>
                         /\ UNCHANGED <<clientVars, clientHandle>>)

--------------------------------------------------------------------------------
(* Properties *)

\* Every table, queue and handle has its type.
CActionTypeOK ==
    /\ TypeOK
    /\ client_phase \in [Connections -> Phase]
    /\ server_phase \in [Connections -> Phase]
    /\ client_pending \in [Connections -> ClientEvent]
    /\ server_pending \in [Connections -> ServerEvent]
    /\ server_told \in [Connections \X Goals -> SUBSET {"GOAL", "CANCEL"}]
    /\ used \subseteq Connections \X Goals

\* What the services know of a Goal, in the caller's terms.
ServicesView(k, g) ==
    CASE ClientBindingIn(k, g, {"AWAITING_GOAL_RESPONSE"}) -> "SENT"
      [] ClientBindingIn(k, g, {"GOAL_RESPONSE_TIMED_OUT"}) -> "TIMED_OUT"
      [] ClientBindingIn(k, g, {"ACCEPTED", "AWAITING_CANCEL_RESPONSE"}) -> "ACCEPTED"
      [] ClientBindingIn(k, g, {"CANCELING"}) -> "CANCELING"
      [] OTHER -> "NONE"

\* No event of a Goal is lost, repeated or overtaken on its way to the C
\* caller, however many polls had too small a buffer: what the caller was told,
\* plus the one event the handle keeps, is what the services know. (poll,
\* poll_alloc and the pending_event they share; stop() from another thread.)
CallerKnowsGoals ==
    \A k \in Connections, g \in Goals :
        client_phase[k] = "running" =>
            LET seen == client_seen[<<k, g>>] IN
            ServicesView(k, g) =
                IF client_pending[k].goal = g THEN Learn(seen, client_pending[k]) ELSE seen

\* A Goal or a cancel the server's services are waiting on has been put before
\* the application, or is the event the handle keeps: it can always be decided.
CallerCanDecide ==
    \A k \in Connections, g \in Goals :
        server_phase[k] = "running" =>
            LET Offered(kind) == \/ kind \in server_told[<<k, g>>]
                                 \/ server_pending[k] = Event(kind, g, "OTHER")
            IN  /\ BindingIn(k, g, {"AWAITING_GOAL_DECISION"}) => Offered("GOAL")
                /\ goals[<<k, g>>].cancel_origin = "CLIENT" => Offered("CANCEL")

\* Both C callers know what their services know (CallerKnowsGoals on the client's
\* handle, CallerCanDecide on the server's).
CallersInformed == CallerKnowsGoals /\ CallerCanDecide

\* A handle that was stopped has nothing of its former life to tell: the event
\* it kept and the Goals of its side are gone before it can be started again.
StopForgets ==
    \A k \in Connections :
        /\ client_phase[k] = "stopped" =>
               /\ client_pending[k] = NoEvent
               /\ \A g \in Goals : ClientBindingIn(k, g, {"NONE"})
        /\ server_phase[k] = "stopped" =>
               /\ server_pending[k] = NoEvent
               /\ \A g \in Goals : BindingIn(k, g, {"NONE"})

\* A Goal sent since the last start of the two handles is never lost: what the
\* former life of the client left in the server and on the way, which
\* clear_all_instances knows nothing of, cannot be taken for its answer, and the
\* refusal of a slot that is still owned there is an answer.
NewGoalsNeverLost ==
    \A k \in Connections, g \in Goals :
        client_phase[k] = "running" /\ <<k, g>> \notin abandoned => NotLost(k, g)

\* The C caller hears the end of every Goal it sent: a rejection, a Result or a
\* timeout, through kept events, restarts and cancels nobody answers. The
\* exceptions are a server that stopped under the Goal and a Result whose send
\* failed.
EveryGoalEnds ==
    \A k \in Connections, g \in Goals :
        client_seen[<<k, g>>] = "SENT"
            ~> \/ client_seen[<<k, g>>] \in {"NONE", "TIMED_OUT"}
               \/ <<k, g>> \in abandoned
               \/ BindingIn(k, g, {"RESULT_COMMITTED"})
================================================================================
