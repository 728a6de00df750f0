------------------------------- MODULE ActionMux -------------------------------
(***************************************************************************)
(* ActionServicesMuxServer (src/action_services_mux_server.cpp): one       *)
(* listening endpoint, one ActionServicesServer per connection, and an     *)
(* owner table that says which connection a goal id belongs to.            *)
(*                                                                         *)
(* The Mux's mutex covers every public call, so every call but poll() is   *)
(* one step. poll() is cut where the transport's receive thread may set a  *)
(* connection's atomic `disconnected' flag, the only thing outside the     *)
(* mutex that poll() reads; `phase' says how far it is and every other     *)
(* call waits for "IDLE".                                                  *)
(***************************************************************************)
EXTENDS ActionServer

CONSTANT Capacity  \* expected_count() of the endpoint multiplexer

ASSUME MuxConnectionsAssumption ==
    Connections \subseteq Nat \ {0} /\ IsFiniteSet(Connections)
ASSUME CapacityAssumption == Capacity \in Nat \ {0}
ASSUME SendMaySucceed == TRUE \in SendOutcomes

VARIABLES
    started,             \* started_ and mux_
    waiting,             \* sessions the transport accepted, not yet taken
    next_connection_id,
    slots,               \* the connection ids in slots_
    disconnected,        \* the slots whose atomic flag is set
    disconnect_processed,
    orphaned,
    retired,
    owners,              \* owners_ by goal id; at most one entry per id is made
    phase,               \* how far poll() is
    remaining            \* the slots poll() has still to visit

connectionVars ==
    <<started, waiting, next_connection_id, slots, disconnected,
      disconnect_processed, orphaned, retired>>

pollVars == <<phase, remaining>>

muxVars == <<serverVars, to_server, to_client, connectionVars, owners, pollVars>>

Owner(state, k) == [state |-> state, connection |-> k]

NoOwner == Owner("NONE", 0)

GoalOwner == {NoOwner} \cup [state : {"PENDING", "ACTIVE"}, connection : Connections]

Owned(k, state) == {g \in Goals : owners[g] = Owner(state, k)}

MuxInit ==
    /\ ServerInit
    /\ ActionTransportInit
    /\ started = FALSE
    /\ waiting = 0
    /\ next_connection_id = 1
    /\ slots = {} /\ disconnected = {} /\ disconnect_processed = {}
    /\ orphaned = {} /\ retired = {}
    /\ owners = [g \in Goals |-> NoOwner]
    /\ phase = "IDLE" /\ remaining = {}

--------------------------------------------------------------------------------
(* The transport (external) *)

\* The bound of one waiting session keeps the instance small: poll() treats
\* the sessions it takes one after the other.
SessionAccepted ==
    /\ started /\ phase # "ACCEPT" /\ waiting = 0
    /\ waiting' = 1
    /\ UNCHANGED <<serverVars, to_server, to_client, started, next_connection_id, slots,
                   disconnected, disconnect_processed, orphaned, retired, owners, pollVars>>

\* The receive callback appends to pending_packets_. Only the call that polls
\* slot k reads them, so a packet may as well arrive between two calls.
MuxRequestArrives(k, p) ==
    /\ k \in slots \ disconnected /\ phase = "IDLE"
    /\ Len(to_server[k]) < MaxQueued
    /\ to_server' = Send(to_server, k, p)
    /\ UNCHANGED <<serverVars, to_client, connectionVars, owners, pollVars>>

\* set_on_disconnected_callback: the receive thread has delivered everything
\* it read, then sets the flag.
ConnectionLost(k) ==
    /\ k \in slots \ disconnected
    /\ disconnected' = disconnected \cup {k}
    /\ UNCHANGED <<serverVars, to_server, to_client, started, waiting, next_connection_id,
                   slots, disconnect_processed, orphaned, retired, owners, pollVars>>

ResponseTaken(k) ==
    /\ to_client[k] # << >>
    /\ to_client' = Received(to_client, k)
    /\ UNCHANGED <<serverVars, to_server, connectionVars, owners, pollVars>>

--------------------------------------------------------------------------------
(* initialize(), start(), stop() *)

MuxStart ==
    /\ ~started
    /\ started' = TRUE
    /\ UNCHANGED <<serverVars, to_server, to_client, waiting, next_connection_id, slots,
                   disconnected, disconnect_processed, orphaned, retired, owners, pollVars>>

\* close_slot_ of every slot destroys its endpoint and its server.
MuxStop ==
    /\ started /\ phase = "IDLE"
    /\ bindings' = [h \in Connections \X Goals |-> NoBinding]
    /\ slot_owners' = [h \in Connections \X Slots |-> NoGoal]
    /\ goals' = [h \in Connections \X Goals |-> NoServerContext]
    /\ runtime_events' = [k \in Connections |-> << >>]
    /\ to_server' = [k \in Connections |-> << >>]
    /\ owners' = [g \in Goals |-> NoOwner]
    /\ slots' = {} /\ disconnected' = {} /\ disconnect_processed' = {}
    /\ orphaned' = {} /\ retired' = {}
    /\ started' = FALSE /\ waiting' = 0
    /\ UNCHANGED <<to_client, next_connection_id, pollVars>>

--------------------------------------------------------------------------------
(* poll() *)

PollBegin ==
    /\ started /\ phase = "IDLE"
    /\ phase' = "ACCEPT"
    /\ UNCHANGED <<serverVars, to_server, to_client, connectionVars, owners, remaining>>

\* accept_new_connections_ for one session: it is closed when as many slots as
\* the capacity are connected, and a server that cannot be initialized costs
\* its connection id and nothing else.
AcceptNewConnection ==
    /\ phase = "ACCEPT" /\ waiting > 0
    /\ waiting' = waiting - 1
    /\ \/ /\ Cardinality(slots \ disconnected) >= Capacity
          /\ UNCHANGED <<next_connection_id, slots>>
       \/ /\ Cardinality(slots \ disconnected) < Capacity
          /\ next_connection_id \in Connections
          /\ next_connection_id' = next_connection_id + 1
          /\ slots' \in {slots, slots \cup {next_connection_id}}
    /\ UNCHANGED <<serverVars, to_server, to_client, started, disconnected,
                   disconnect_processed, orphaned, retired, owners, pollVars>>

\* The model stops at the last id of Connections.
AcceptEnd ==
    /\ phase = "ACCEPT"
    /\ waiting = 0 \/ next_connection_id \notin Connections
    /\ phase' = "DISCONNECTS"
    /\ UNCHANGED <<serverVars, to_server, to_client, connectionVars, owners, remaining>>

Undecided(k) ==
    {g \in Owned(k, "PENDING") :
        BindingIn(k, g, {"AWAITING_GOAL_DECISION"}) /\ ~HasGoal(k, g)}

\* discard_pending_goal of every undecided Goal of k.
DiscardUndecided(k) ==
    /\ bindings' = [h \in Connections \X Goals |->
                       IF h[1] = k /\ h[2] \in Undecided(k) THEN NoBinding ELSE bindings[h]]
    /\ slot_owners' = [h \in Connections \X Slots |->
                          IF h[1] = k /\ slot_owners[h] \in Undecided(k) THEN NoGoal
                          ELSE slot_owners[h]]

\* clear_all_instances after the connection is gone: every packet has arrived.
RetireSlot(k) ==
    /\ ClearAllInstances(k, Len(to_server[k]))
    /\ retired' = retired \cup {k}

\* Mutant: the undecided Goals are kept and asked to stop with the others.
OrphanSlotWithUndecided(k) ==
    /\ \E events \in Orderings({g \in Goals : bindings[<<k, g>>].state # "NONE"}) :
          runtime_events' = [runtime_events EXCEPT ![k] = events]
    /\ to_server' = [to_server EXCEPT ![k] = << >>]
    /\ orphaned' = orphaned \cup {k}
    /\ UNCHANGED <<bindings, slot_owners, goals, to_client, retired>>

\* Mutant: the application is not told.
OrphanSlotSilently(k) ==
    /\ DiscardUndecided(k)
    /\ runtime_events' = [runtime_events EXCEPT ![k] = << >>]
    /\ to_server' = [to_server EXCEPT ![k] = << >>]
    /\ orphaned' = orphaned \cup {k}
    /\ UNCHANGED <<goals, to_client, retired>>

\* The slot of a lost connection with accepted Goals is kept: packets are
\* dropped, undecided Goals discarded, and a runtime cancel is queued for
\* every accepted Goal.
OrphanSlot(k) ==
    /\ DiscardUndecided(k)
    /\ \E events \in Orderings({g \in Goals : HasGoal(k, g)}) :
          runtime_events' = [runtime_events EXCEPT ![k] = events]
    /\ to_server' = [to_server EXCEPT ![k] = << >>]
    /\ orphaned' = orphaned \cup {k}
    /\ UNCHANGED <<goals, to_client, retired>>

ProcessDisconnected(k) ==
    /\ phase \in {"DISCONNECTS", "LAST_DISCONNECTS"}
    /\ k \in slots \cap disconnected /\ k \notin disconnect_processed
    /\ disconnect_processed' = disconnect_processed \cup {k}
    /\ owners' = [g \in Goals |-> IF g \in Owned(k, "PENDING") THEN NoOwner ELSE owners[g]]
    /\ IF Owned(k, "ACTIVE") # {} THEN OrphanSlot(k)
       ELSE RetireSlot(k) /\ UNCHANGED orphaned
    /\ UNCHANGED <<started, waiting, next_connection_id, slots, disconnected, pollVars>>

DisconnectsEnd ==
    /\ slots \cap disconnected \subseteq disconnect_processed
    /\ \/ phase = "DISCONNECTS" /\ phase' = "SLOTS" /\ remaining' = slots \ retired
       \/ phase = "LAST_DISCONNECTS" /\ phase' = "IDLE" /\ UNCHANGED remaining
    /\ UNCHANGED <<serverVars, to_server, to_client, connectionVars, owners>>

--------------------------------------------------------------------------------
(* poll() of one slot *)

Visits(k) == phase = "SLOTS" /\ k \in remaining /\ \A j \in remaining : k <= j

\* The slot had no event for the application: the next slot's turn.
NextSlot(k) == remaining' = remaining \ {k} /\ UNCHANGED phase

Returns == phase' = "IDLE" /\ remaining' = {}

\* The packet a poll of slot k takes, after the runtime events it skips.
TakesPacket(k) == ReportedRuntimeEvents(k) = {} /\ to_server[k] # << >>

NewGoalRequest(k) ==
    LET p == Head(to_server[k]) IN
    /\ TakesPacket(k)
    /\ p.kind = "GOAL"
    /\ bindings[<<k, p.goal>>].state = "NONE" /\ slot_owners[<<k, p.slot>>] = NoGoal

\* A client cancel that the services pass on; a Goal with a decision pending
\* already makes the state machine ignore it.
CancelReturned(k) ==
    LET p == Head(to_server[k]) IN
    /\ TakesPacket(k)
    /\ p.kind = "CANCEL"
    /\ CancelIsReported(k, p)
    /\ Transition(k, p.goal, "CANCEL_REQUEST_RECEIVED").kind # "NOP"

SlotHasEvent(k) == ReportedRuntimeEvents(k) # {} \/ CancelReturned(k)

VisitEmpty(k) ==
    /\ Visits(k)
    /\ runtime_events[k] = << >> /\ to_server[k] = << >>
    /\ NextSlot(k)
    /\ UNCHANGED <<serverVars, to_server, to_client, connectionVars, owners>>

VisitNoEvent(k, sent) ==
    /\ Visits(k)
    /\ ~SlotHasEvent(k) /\ ~NewGoalRequest(k)
    /\ ServerPoll(k, sent)
    /\ NextSlot(k)
    /\ UNCHANGED <<connectionVars, owners>>

\* RUNTIME_CANCEL_REQUEST, CANCEL_REQUEST and ERROR events.
VisitReturnsEvent(k, sent) ==
    /\ Visits(k)
    /\ SlotHasEvent(k)
    /\ ServerPoll(k, sent)
    /\ Returns
    /\ UNCHANGED <<connectionVars, owners>>

\* Mutant: only the requests of the same connection count as duplicates.
VisitReturnsGoalOwnConnection(k) ==
    LET g == Head(to_server[k]).goal IN
    /\ Visits(k)
    /\ NewGoalRequest(k)
    /\ owners[g].connection # k
    /\ ServerPoll(k, TRUE)
    /\ owners' = [owners EXCEPT ![g] = Owner("PENDING", k)]
    /\ Returns
    /\ UNCHANGED connectionVars

VisitReturnsGoal(k) ==
    LET g == Head(to_server[k]).goal IN
    /\ Visits(k)
    /\ NewGoalRequest(k)
    /\ owners[g] = NoOwner
    /\ ServerPoll(k, TRUE)
    /\ owners' = [owners EXCEPT ![g] = Owner("PENDING", k)]
    /\ Returns
    /\ UNCHANGED connectionVars

\* The id is owned already, whatever the connection: reject_goal on the slot
\* that just bound it. A failed send is logged, and the binding stays.
VisitRejectsDuplicate(k, sent) ==
    LET p == Head(to_server[k]) IN
    /\ Visits(k)
    /\ NewGoalRequest(k)
    /\ owners[p.goal] # NoOwner
    /\ IF sent
       THEN /\ to_server' = Received(to_server, k)
            /\ to_client' = Send(to_client, k, Response("GOAL", p.goal, p.slot, "REJECTED"))
            /\ runtime_events' = [runtime_events EXCEPT ![k] = << >>]
            /\ UNCHANGED <<bindings, slot_owners, goals>>
       ELSE ServerPoll(k, FALSE)
    /\ NextSlot(k)
    /\ UNCHANGED <<connectionVars, owners>>

SlotsEnd ==
    /\ phase = "SLOTS" /\ remaining = {}
    /\ phase' = "LAST_DISCONNECTS"
    /\ UNCHANGED <<serverVars, to_server, to_client, connectionVars, owners, remaining>>

--------------------------------------------------------------------------------
(* The application's calls: refused calls change nothing and are left out *)

MuxAcceptGoal(k, g) ==
    /\ phase = "IDLE"
    /\ owners[g] = Owner("PENDING", k) /\ k \in slots \ disconnected
    /\ AcceptGoal(k, g)
    /\ owners' = [owners EXCEPT ![g] = Owner("ACTIVE", k)]
    /\ UNCHANGED <<connectionVars, pollVars>>

MuxRejectGoal(k, g) ==
    /\ phase = "IDLE"
    /\ owners[g] = Owner("PENDING", k) /\ k \in slots \ disconnected
    /\ RejectGoal(k, g)
    /\ owners' = [owners EXCEPT ![g] = NoOwner]
    /\ UNCHANGED <<connectionVars, pollVars>>

\* accept_cancel and reject_cancel do not look at the flag: the services answer
\* on the wire or locally by the cancel's origin.
RouteActiveGoal(k, g) ==
    /\ phase = "IDLE"
    /\ owners[g] = Owner("ACTIVE", k) /\ k \in slots
    /\ AcceptCancel(k, g) \/ RejectCancel(k, g)
    /\ UNCHANGED <<connectionVars, owners, pollVars>>

MuxSendFeedback(k, g) ==
    /\ phase = "IDLE"
    /\ owners[g] = Owner("ACTIVE", k) /\ k \in slots \ disconnected
    /\ SendFeedback(k, g)
    /\ UNCHANGED <<connectionVars, owners, pollVars>>

\* complete() whose Result could not be sent: the services keep the Goal
\* committed, complete() fails and the owner stays.
MuxCompleteUnsent(k, g, status) ==
    /\ phase = "IDLE"
    /\ owners[g] = Owner("ACTIVE", k) /\ k \in slots \ disconnected
    /\ Complete(k, g, status, FALSE)
    /\ UNCHANGED <<connectionVars, owners, pollVars>>

\* Mutant: the first Goal that ends takes the slot with it.
LastGoalUnchecked(k, g) == TRUE

\* Mutant: Goals that still await a decision elsewhere keep the slot.
LastGoalOfAll(k, g) == \A h \in Goals : owners[h] # NoOwner => h = g

LastGoal(k, g) == \A h \in Goals : owners[h].connection = k => h = g

\* complete() of a connected slot, where reclaim_orphaned_slot_ finds nothing.
MuxComplete(k, g, status) ==
    /\ phase = "IDLE"
    /\ owners[g] = Owner("ACTIVE", k) /\ k \in slots \ disconnected
    /\ Complete(k, g, status, TRUE)
    /\ owners' = [owners EXCEPT ![g] = NoOwner]
    /\ UNCHANGED <<connectionVars, pollVars>>

\* complete() after the connection is gone, with reclaim_orphaned_slot_: the
\* last Goal of an orphaned slot takes the slot with it.
MuxCompleteLocally(k, g, status) ==
    /\ phase = "IDLE"
    /\ owners[g] = Owner("ACTIVE", k) /\ k \in slots \cap disconnected
    /\ MayCompleteLocally(k, g, status)
    /\ owners' = [owners EXCEPT ![g] = NoOwner]
    /\ IF LastGoal(k, g) /\ k \in orphaned THEN RetireSlot(k)
       ELSE CompleteLocally(k, g, status) /\ UNCHANGED retired
    /\ UNCHANGED <<started, waiting, next_connection_id, slots, disconnected,
                   disconnect_processed, orphaned, pollVars>>

--------------------------------------------------------------------------------

MuxPoll ==
    \/ PollBegin \/ AcceptNewConnection \/ AcceptEnd \/ DisconnectsEnd \/ SlotsEnd
    \/ \E k \in Connections :
          \/ ProcessDisconnected(k)
          \/ VisitEmpty(k)
          \/ \E sent \in SendOutcomes :
                \/ VisitNoEvent(k, sent)
                \/ VisitReturnsEvent(k, sent)
                \/ VisitRejectsDuplicate(k, sent)
          \/ VisitReturnsGoal(k)

MuxCalls(k, g) ==
    \/ MuxAcceptGoal(k, g)
    \/ MuxRejectGoal(k, g)
    \/ RouteActiveGoal(k, g)
    \/ MuxSendFeedback(k, g)
    \/ \E status \in TerminalStatus :
          \/ FALSE \in SendOutcomes /\ MuxCompleteUnsent(k, g, status)
          \/ MuxComplete(k, g, status)
          \/ MuxCompleteLocally(k, g, status)

\* Nothing in the server reads what it has sent, so the transport may as well
\* take every packet before the next step.
MuxNext ==
    \/ \E k \in Connections : ResponseTaken(k)
    \/ /\ \A k \in Connections : to_client[k] = << >>
       /\ \/ MuxStart \/ MuxStop \/ SessionAccepted
          \/ MuxPoll
          \/ \E k \in Connections :
                \/ ConnectionLost(k)
                \/ \E p \in ToServer : MuxRequestArrives(k, p)
                \/ \E g \in Goals : MuxCalls(k, g)

MuxSpec == MuxInit /\ [][MuxNext]_muxVars

--------------------------------------------------------------------------------
(* Properties *)

\* Every field of the Mux's tables has its type.
MuxTypeOK ==
    /\ ServerTypeOK /\ ActionTransportTypeOK
    /\ started \in BOOLEAN /\ waiting \in {0, 1} /\ next_connection_id \in Nat
    /\ disconnected \subseteq slots /\ disconnect_processed \subseteq disconnected
    /\ orphaned \subseteq disconnect_processed /\ retired \subseteq disconnect_processed
    /\ slots \subseteq {k \in Connections : k < next_connection_id}
    /\ owners \in [Goals -> GoalOwner]
    /\ phase \in {"IDLE", "ACCEPT", "DISCONNECTS", "SLOTS", "LAST_DISCONNECTS"}
    /\ remaining \subseteq slots

\* The owner table and the servers of the connections never disagree: a Goal
\* has a context on exactly the connection that is its ACTIVE owner, so no goal
\* id runs on two connections at once and every accepted Goal can be reached,
\* whichever way an accept races a disconnect; a Goal the application still has
\* to decide is awaiting that decision on its PENDING owner.
OwnersAgree ==
    \A k \in Connections, g \in Goals :
        /\ HasGoal(k, g) <=> owners[g] = Owner("ACTIVE", k)
        /\ owners[g] = Owner("PENDING", k) => BindingIn(k, g, {"AWAITING_GOAL_DECISION"})
        /\ owners[g].connection = k => k \in slots

\* A slot that reclaim_orphaned_slot_ or process_disconnected_ retired holds no
\* Goal, binding, packet or event and owns no goal id; an orphaned slot that is
\* not retired still has a Goal to complete, so no slot is kept for nothing.
RetiredSlotsEmpty ==
    /\ \A k \in retired :
          /\ to_server[k] = << >> /\ runtime_events[k] = << >>
          /\ \A g \in Goals : bindings[<<k, g>>] = NoBinding /\ owners[g].connection # k
    /\ \A k \in disconnect_processed \ retired :
          k \in orphaned /\ \E g \in Goals : HasGoal(k, g)

\* A runtime cancel that is still queued when its Goal has been completed
\* locally (complete() does not look into pending_runtime_events_) can never
\* meet another Goal of the same id: its connection is gone and binds nothing.
StaleRuntimeCancelHarmless ==
    \A k \in Connections : \A i \in DOMAIN runtime_events[k] :
        LET g == runtime_events[k][i] IN
        /\ k \in disconnected
        /\ HasGoal(k, g) \/ bindings[<<k, g>>] = NoBinding

\* Losing a connection never ends an accepted Goal: outside stop(), a Goal
\* disappears only in the application's own complete() call for it, and that
\* call, the reclaim of the slot included, takes no other Goal with it.
AcceptedGoalsSurviveDisconnect ==
    [][\A h \in Connections \X Goals :
          goals[h].state # "NONE" /\ goals'[h].state = "NONE" =>
              \/ ~started'
              \/ /\ phase = "IDLE" /\ phase' = "IDLE"
                 /\ owners[h[2]] = Owner("ACTIVE", h[1]) /\ owners'[h[2]] = NoOwner
                 /\ \A j \in (Connections \X Goals) \ {h} : goals'[j] = goals[j]]_muxVars

\* The application is asked to stop a Goal whose connection is lost: as long as
\* poll() keeps reaching the slot, the Goals that execute when the connection
\* goes are offered a runtime cancel, which the application may then reject.
LossReported ==
    \A k \in Connections, g \in Goals :
        LET lost == k \in disconnected \ disconnect_processed
            executing == goals[<<k, g>>].state = "EXECUTING"
            asked == goals[<<k, g>>].cancel_origin = "RUNTIME"
        IN []<>Visits(k) => (lost /\ executing ~> asked \/ ~executing)

================================================================================
