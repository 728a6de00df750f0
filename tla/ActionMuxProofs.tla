---------------------------- MODULE ActionMuxProofs ----------------------------
(***************************************************************************)
(* The owner table of ActionServicesMuxServer and the servers of its       *)
(* connections agree, and losing a connection ends no accepted Goal, for   *)
(* any set of connections, Goals and slots. The inductive invariant is     *)
(* OwnersAgree with the types of the Mux's tables and with ServerInv, the  *)
(* invariant of the server of a connection (ActionServerProofs).           *)
(***************************************************************************)
EXTENDS ActionMux, ActionServerProofs

(* The types of the Mux's own tables; slots are left to visit only in "SLOTS". *)
ConnectionsOK ==
    /\ started \in BOOLEAN /\ waiting \in {0, 1} /\ next_connection_id \in Nat
    /\ disconnected \subseteq slots /\ disconnect_processed \subseteq disconnected
    /\ orphaned \subseteq disconnect_processed /\ retired \subseteq disconnect_processed
    /\ slots \subseteq {k \in Connections : k < next_connection_id}
    /\ owners \in [Goals -> GoalOwner]
    /\ phase \in {"IDLE", "ACCEPT", "DISCONNECTS", "SLOTS", "LAST_DISCONNECTS"}
    /\ remaining \subseteq slots /\ (phase # "SLOTS" => remaining = {})

MuxInv == ServerInv /\ ConnectionsOK /\ OwnersAgree

(* What AcceptedGoalsSurviveDisconnect says of a step. *)
GoalsSurvive ==
    \A h \in Connections \X Goals :
        goals[h].state # "NONE" /\ goals'[h].state = "NONE" =>
            \/ ~started'
            \/ /\ phase = "IDLE" /\ phase' = "IDLE"
               /\ owners[h[2]] = Owner("ACTIVE", h[1]) /\ owners'[h[2]] = NoOwner
               /\ \A j \in (Connections \X Goals) \ {h} : goals'[j] = goals[j]

MuxKept == MuxInv' /\ GoalsSurvive

--------------------------------------------------------------------------------
(* What a step must do to keep OwnersAgree *)

(* A step keeps the state of a Goal, and a decision that is awaited. *)
StateKept(k, g) ==
    /\ goals'[<<k, g>>].state = goals[<<k, g>>].state
    /\ bindings[<<k, g>>].state = "AWAITING_GOAL_DECISION"
          => bindings'[<<k, g>>].state = "AWAITING_GOAL_DECISION"

StatesKept == \A k \in Connections, g \in Goals : StateKept(k, g)

(* No connection has the number of NoOwner. *)
LEMMA OwnerFacts ==
  /\ NoOwner.connection = 0 /\ 0 \notin Connections
  /\ \A k \in Connections : NoOwner # Owner("ACTIVE", k) /\ NoOwner # Owner("PENDING", k)
  /\ \A k \in Connections :
        /\ Owner("ACTIVE", k).connection = k /\ Owner("PENDING", k).connection = k
        /\ Owner("ACTIVE", k) # Owner("PENDING", k)
  /\ \A o \in GoalOwner, k \in Connections :
        o.connection = k => o = Owner("ACTIVE", k) \/ o = Owner("PENDING", k)
BY SMTT(60), MuxConnectionsAssumption DEF NoOwner, Owner, GoalOwner

(* One entry of a table changes. *)
LEMMA EntryChanges ==
  ASSUME NEW D, NEW S, NEW f \in [D -> S], NEW d \in D, NEW v, NEW t,
         t = [f EXCEPT ![d] = v]
  PROVE  t[d] = v /\ \A e \in D : e # d => t[e] = f[e]
OBVIOUS

(* The tables of the servers stay. *)
LEMMA TablesStay ==
  ASSUME TablesOK, UNCHANGED <<bindings, slot_owners, goals>>
  PROVE  TablesOK'
BY SMTT(60) DEF TablesOK, ServerLayersAgree, ServerSlotsOwned

(* Calls and visits leave the connections alone. *)
LEMMA ConnectionsStay ==
  ASSUME ConnectionsOK, UNCHANGED connectionVars, owners' \in [Goals -> GoalOwner],
         phase' \in {"IDLE", "ACCEPT", "DISCONNECTS", "SLOTS", "LAST_DISCONNECTS"},
         remaining' \subseteq slots, phase' # "SLOTS" => remaining' = {}
  PROVE  ConnectionsOK'
BY SMTT(60) DEF ConnectionsOK, connectionVars

(* No Goal changes hands. *)
LEMMA NothingMoves ==
  ASSUME OwnersAgree, StatesKept, owners' = owners, slots \subseteq slots'
  PROVE  OwnersAgree' /\ GoalsSurvive
<1>1. \A k \in Connections, g \in Goals :
         /\ goals'[<<k, g>>].state = goals[<<k, g>>].state
         /\ bindings[<<k, g>>].state = "AWAITING_GOAL_DECISION"
               => bindings'[<<k, g>>].state = "AWAITING_GOAL_DECISION"
  BY DEF StatesKept, StateKept
<1>2. OwnersAgree'
  BY ZenonT(60), <1>1 DEF OwnersAgree, HasGoal, BindingIn
<1>3. GoalsSurvive
  BY SMTT(60), <1>1 DEF GoalsSurvive
<1> QED
  BY <1>2, <1>3

(* One Goal of connection k, or one that has no owner, changes hands. *)
LEMMA OneGoalMoves ==
  ASSUME OwnersAgree, NEW k \in Connections, k \in slots, NEW g \in Goals, slots' = slots,
         \A l \in Connections, x \in Goals : <<l, x>> # <<k, g>> => StateKept(l, x),
         \A x \in Goals \ {g} : owners'[x] = owners[x],
         owners[g] = NoOwner \/ owners[g].connection = k,
         \/ owners'[g] = Owner("ACTIVE", k) /\ goals'[<<k, g>>].state # "NONE"
         \/ owners'[g] = NoOwner /\ goals'[<<k, g>>].state = "NONE"
         \/ /\ owners'[g] = Owner("PENDING", k) /\ goals'[<<k, g>>].state = "NONE"
            /\ bindings'[<<k, g>>].state = "AWAITING_GOAL_DECISION"
  PROVE  OwnersAgree'
<1>1. \A l \in Connections, x \in Goals : <<l, x>> # <<k, g>> =>
         /\ goals'[<<l, x>>].state = goals[<<l, x>>].state
         /\ bindings[<<l, x>>].state = "AWAITING_GOAL_DECISION"
               => bindings'[<<l, x>>].state = "AWAITING_GOAL_DECISION"
  BY DEF StateKept
<1> SUFFICES ASSUME NEW l \in Connections, NEW x \in Goals
             PROVE  /\ goals'[<<l, x>>].state # "NONE" <=> owners'[x] = Owner("ACTIVE", l)
                    /\ owners'[x] = Owner("PENDING", l)
                          => bindings'[<<l, x>>].state = "AWAITING_GOAL_DECISION"
                    /\ owners'[x].connection = l => l \in slots'
  BY ZenonT(60) DEF OwnersAgree, HasGoal, BindingIn
<1>2. /\ goals[<<l, x>>].state # "NONE" <=> owners[x] = Owner("ACTIVE", l)
      /\ owners[x] = Owner("PENDING", l)
            => bindings[<<l, x>>].state = "AWAITING_GOAL_DECISION"
      /\ owners[x].connection = l => l \in slots
  BY ZenonT(60) DEF OwnersAgree, HasGoal, BindingIn
<1>3. CASE x # g
  <2>1. <<l, x>> # <<k, g>> /\ owners'[x] = owners[x]
    BY <1>3
  <2> QED
    BY SMTT(60), <1>1, <1>2, <2>1
<1>4. CASE x = g /\ l # k
  <2>1. /\ <<l, g>> # <<k, g>> /\ owners'[g].connection # l
        /\ owners[g] # Owner("ACTIVE", l) /\ owners'[g] # Owner("ACTIVE", l)
        /\ owners'[g] # Owner("PENDING", l)
    BY SMTT(60), <1>4, OwnerFacts
  <2> QED
    BY SMTT(60), <1>1, <1>2, <1>4, <2>1
<1>5. CASE x = g /\ l = k
  BY SMTT(60), <1>5, OwnerFacts
<1> QED
  BY <1>3, <1>4, <1>5

(* Connection k loses its undecided Goals, or all that it owns. *)
LEMMA ConnectionLetsGo ==
  ASSUME OwnersAgree, NEW k \in Connections, slots' = slots,
         \A l \in Connections \ {k}, x \in Goals : StateKept(l, x),
         \A x \in Goals : \/ owners'[x] = owners[x]
                          \/ owners[x].connection = k /\ owners'[x] = NoOwner,
         \A x \in Goals : /\ goals'[<<k, x>>].state # "NONE" <=> owners'[x] = Owner("ACTIVE", k)
                          /\ owners'[x] # Owner("PENDING", k)
  PROVE  OwnersAgree'
<1> SUFFICES ASSUME NEW l \in Connections, NEW x \in Goals
             PROVE  /\ goals'[<<l, x>>].state # "NONE" <=> owners'[x] = Owner("ACTIVE", l)
                    /\ owners'[x] = Owner("PENDING", l)
                          => bindings'[<<l, x>>].state = "AWAITING_GOAL_DECISION"
                    /\ owners'[x].connection = l => l \in slots'
  BY ZenonT(60) DEF OwnersAgree, HasGoal, BindingIn
<1>1. /\ goals[<<l, x>>].state # "NONE" <=> owners[x] = Owner("ACTIVE", l)
      /\ owners[x] = Owner("PENDING", l)
            => bindings[<<l, x>>].state = "AWAITING_GOAL_DECISION"
      /\ owners[x].connection = l => l \in slots
  BY ZenonT(60) DEF OwnersAgree, HasGoal, BindingIn
<1>2. CASE l = k
  BY ZenonT(60), <1>1, <1>2, OwnerFacts
<1>3. CASE l # k
  BY SMTT(60), <1>1, <1>3, OwnerFacts DEF StateKept
<1> QED
  BY <1>2, <1>3

--------------------------------------------------------------------------------
(* poll() of one slot *)

(* The Goals in a queue of runtime events. *)
LEMMA QueuedGoals ==
  ASSUME QueuesOK, NEW k \in Connections
  PROVE  \A i \in DOMAIN runtime_events[k] : runtime_events[k][i] \in Goals
BY QueueElements DEF QueuesOK

(* Handling a cancel keeps the state of every Goal. *)
LEMMA CancelEventEffect ==
  ASSUME TablesOK, NEW k \in Connections, NEW g \in Goals,
         NEW event \in {"CANCEL_REQUEST_RECEIVED", "RUNTIME_CANCEL_REQUESTED"},
         HandleCancelEvent(k, g, event)
  PROVE  \A h \in Connections \X Goals : goals'[h].state = goals[h].state
<1> DEFINE c == goals[<<k, g>>]
           next == TransitionServerGoal(c, event).next
<1>1. c \in ServerGoalContext /\ <<k, g>> \in Connections \X Goals
  BY DEF TablesOK
<1>2. next.state = c.state
  BY SMTT(60), <1>1, CancelMoves
<1>3. goals' = [goals EXCEPT ![<<k, g>>] = next]
  BY DEF HandleCancelEvent, Transition
<1> HIDE DEF next
<1>4. goals'[<<k, g>>] = next /\ \A h \in Connections \X Goals : h # <<k, g>> => goals'[h] = goals[h]
  BY ZenonT(60), <1>1, <1>3, EntryChanges DEF TablesOK
<1> QED
  BY ZenonT(60), <1>2, <1>4

LEMMA PollKeepsStates ==
  ASSUME TablesOK, QueuesOK, NEW k \in Connections, NEW sent, ServerPoll(k, sent)
  PROVE  StatesKept
<1>1. ASSUME \A h \in Connections \X Goals : goals'[h].state = goals[h].state,
             \A h \in Connections \X Goals : bindings'[h].state = bindings[h].state
                  \/ bindings[h].state = "NONE"
      PROVE  StatesKept
  BY SMTT(60), <1>1 DEF StatesKept, StateKept
<1>2. CASE PollRuntimeEvent(k)
  <2>1. PICK i \in DOMAIN runtime_events[k] :
           HandleCancelEvent(k, runtime_events[k][i], "RUNTIME_CANCEL_REQUESTED")
    BY ZenonT(60), <1>2 DEF PollRuntimeEvent, ReportedRuntimeEvents
  <2>2. runtime_events[k][i] \in Goals /\ bindings' = bindings
    BY <1>2, QueuedGoals DEF PollRuntimeEvent
  <2> QED
    BY SMTT(60), <1>1, <2>1, <2>2, CancelEventEffect
<1>3. CASE EndpointPoll(k, sent)
  <2> DEFINE p == Head(to_server[k])
  <2>0. to_server[k] # << >> /\ to_server \in [Connections -> Seq(ToServer)]
    BY <1>3 DEF EndpointPoll, QueuesOK, ActionTransportTypeOK
  <2>1. p \in ToServer
    BY ZenonT(60), <2>0, ReceivedType
  <2>2. p.goal \in Goals
    BY <2>1 DEF ToServer
  <2> HIDE DEF p
  <2>3. CASE PollCancelRequest(k, p)
    <3> DEFINE b == bindings[<<k, p.goal>>]
               b2 == [b EXCEPT !.cancel_decision_pending = TRUE]
    <3>1. bindings' = [bindings EXCEPT ![<<k, p.goal>>] = b2] /\ b2.state = b.state
      BY SMTT(60), <2>2, <2>3 DEF PollCancelRequest, TablesOK, ActionPacketBinding
    <3> HIDE DEF b2
    <3>2. \A h \in Connections \X Goals : bindings'[h].state = bindings[h].state
      <4>1. /\ bindings'[<<k, p.goal>>] = b2
            /\ \A h \in Connections \X Goals : h # <<k, p.goal>> => bindings'[h] = bindings[h]
        BY ZenonT(60), <2>2, <3>1, EntryChanges DEF TablesOK
      <4> QED
        BY ZenonT(60), <3>1, <4>1
    <3>3. \A h \in Connections \X Goals : goals'[h].state = goals[h].state
      BY ZenonT(60), <2>2, <2>3, CancelEventEffect DEF PollCancelRequest
    <3> QED
      BY <1>1, <3>2, <3>3
  <2>4. CASE PollDropped(k, p) \/ PollGoalRefused(k, p, sent)
    BY <1>1, <2>4 DEF PollDropped, PollGoalRefused
  <2>5. CASE PollGoalRequest(k, p)
    <3> DEFINE b == NewBinding(p.slot)
    <3>1. /\ goals' = goals /\ bindings' = [bindings EXCEPT ![<<k, p.goal>>] = b]
          /\ bindings[<<k, p.goal>>].state = "NONE"
      BY <2>5 DEF PollGoalRequest
    <3> HIDE DEF b
    <3>2. \A h \in Connections \X Goals : bindings'[h].state = bindings[h].state
             \/ bindings[h].state = "NONE"
      BY SMTT(60), <2>2, <3>1 DEF TablesOK
    <3> QED
      BY <1>1, <3>1, <3>2
  <2> QED
    BY ZenonT(60), <1>3, <2>3, <2>4, <2>5 DEF EndpointPoll, p
<1>4. CASE UNCHANGED <<bindings, goals>>
  BY <1>1, <1>4
<1> QED
  BY ZenonT(60), <1>2, <1>3, <1>4 DEF ServerPoll

--------------------------------------------------------------------------------
(* process_disconnected_ of a slot with accepted Goals *)

LEMMA OrphanKeepsServer ==
  ASSUME TablesOK, QueuesOK, NEW k \in Connections, OrphanSlot(k)
  PROVE  TablesOK' /\ QueuesOK'
<1> DEFINE U == Undecided(k)
<1>1. U \in SUBSET Goals /\ \A g \in U : ~HasGoal(k, g)
  BY DEF Undecided, Owned
<1>2. /\ bindings' = [h \in Connections \X Goals |->
                         IF h[1] = k /\ h[2] \in U THEN NoBinding ELSE bindings[h]]
      /\ slot_owners' = [h \in Connections \X Slots |->
                            IF h[1] = k /\ slot_owners[h] \in U THEN NoGoal ELSE slot_owners[h]]
      /\ goals' = goals
  BY DEF OrphanSlot, DiscardUndecided
<1> HIDE DEF U
<1>3. /\ bindings' \in [Connections \X Goals -> ActionPacketBinding]
      /\ slot_owners' \in [Connections \X Slots -> Goals \cup {NoGoal}]
      /\ goals' \in [Connections \X Goals -> ServerGoalContext]
  BY SMTT(60), <1>2, ServerValueTypes DEF TablesOK
<1>4. ASSUME NEW h \in Connections \X Goals PROVE ServerAgree(bindings'[h], goals'[h])
  <2>1. ServerAgree(bindings[h], goals[h])
    BY DEF TablesOK, ServerLayersAgree
  <2>2. CASE h[1] = k /\ h[2] \in U
    <3>1. goals'[h] = NoServerContext /\ bindings'[h] = NoBinding
      BY SMTT(60), <1>1, <1>2, <2>1, <2>2 DEF HasGoal, ServerAgree
    <3> QED
      BY SMTT(60), <3>1
      DEF ServerAgree, NoBinding, NewBinding, NoServerContext, NewServerContext
  <2>3. CASE ~(h[1] = k /\ h[2] \in U)
    BY SMTT(60), <1>2, <2>1, <2>3
  <2> QED
    BY <2>2, <2>3
<1>5. ASSUME NEW l \in Connections, NEW g \in Goals, NEW s \in Slots
      PROVE  slot_owners'[<<l, s>>] = g
                <=> bindings'[<<l, g>>].state # "NONE" /\ bindings'[<<l, g>>].slot = s
  <2>1. slot_owners[<<l, s>>] = g
           <=> bindings[<<l, g>>].state # "NONE" /\ bindings[<<l, g>>].slot = s
    BY SMTT(60) DEF TablesOK, ServerSlotsOwned
  <2>2. /\ bindings'[<<l, g>>] = IF l = k /\ g \in U THEN NoBinding ELSE bindings[<<l, g>>]
        /\ slot_owners'[<<l, s>>] = IF l = k /\ slot_owners[<<l, s>>] \in U THEN NoGoal
                                    ELSE slot_owners[<<l, s>>]
    BY SMTT(60), <1>2
  <2>3. NoBinding.state = "NONE" /\ NoGoal # g
    BY NoGoalAssumption DEF NoBinding, NewBinding
  <2> QED
    BY ZenonT(60), <2>1, <2>2, <2>3
<1>6. ServerLayersAgree' /\ ServerSlotsOwned'
  BY ZenonT(60), <1>4, <1>5 DEF ServerLayersAgree, ServerSlotsOwned
<1> DEFINE S == {g \in Goals : HasGoal(k, g)}
<1>7. PICK f \in Orderings(S) : runtime_events' = [runtime_events EXCEPT ![k] = f]
  BY ZenonT(60) DEF OrphanSlot
<1>8. f \in Seq(Goals)
  BY OrderingsDistinct
<1>9. QueuesOK'
  BY SMTT(60), <1>7, <1>8, EmptyQueue DEF OrphanSlot, QueuesOK, ActionTransportTypeOK
<1> QED
  BY <1>3, <1>6, <1>9 DEF TablesOK

--------------------------------------------------------------------------------
(* The steps of the Mux *)

(* What a server does when the Mux calls it is what it may do on its own. *)
LEMMA ServerStepKeeps ==
  ASSUME ServerInv, NEW k \in Connections,
         \/ \E sent \in SendOutcomes : ServerPoll(k, sent)
         \/ \E g \in Goals : Calls(k, g)
         \/ ClearAllInstances(k, Len(to_server[k]))
  PROVE  ServerInv'
<1>1. Len(to_server[k]) \in 0 .. Len(to_server[k])
  <2>1. to_server[k] \in Seq(ToServer)
    BY DEF ServerInv, QueuesOK, ActionTransportTypeOK
  <2> QED
    BY <2>1, QueueElements
<1>2. OpenServerStep(k)
  BY ZenonT(60), <1>1 DEF OpenServerStep
<1> QED
  BY <1>2, ServerInvInductive DEF OpenServerNext

(* A step leaves the other Goals alone. *)
Elsewhere(k, g) ==
    \A d \in Connections \X Goals :
        d # <<k, g>> => bindings'[d] = bindings[d] /\ goals'[d] = goals[d]

(* A call of the application about Goal g of connection k. *)
LEMMA CallKeepsMux ==
  ASSUME MuxInv, NEW k \in Connections, NEW g \in Goals, ServerInv', Elsewhere(k, g),
         owners[g].connection = k,
         NEW o \in GoalOwner, owners' = [owners EXCEPT ![g] = o],
         \/ o = Owner("ACTIVE", k) /\ goals'[<<k, g>>].state # "NONE"
         \/ o = NoOwner /\ goals'[<<k, g>>].state = "NONE",
         phase = "IDLE", UNCHANGED <<connectionVars, pollVars>>
  PROVE  MuxKept
<1>0. ConnectionsOK /\ OwnersAgree /\ owners \in [Goals -> GoalOwner] /\ k \in slots
  BY DEF MuxInv, ConnectionsOK, OwnersAgree
<1>1. owners'[g] = o /\ \A x \in Goals \ {g} : owners'[x] = owners[x]
  BY ZenonT(60), <1>0
<1>2. \A l \in Connections, x \in Goals : <<l, x>> # <<k, g>> => StateKept(l, x)
  BY DEF Elsewhere, StateKept
<1>3. slots' = slots
  BY ZenonT(60) DEF connectionVars
<1>4. OwnersAgree'
  <2>1. \/ owners'[g] = Owner("ACTIVE", k) /\ goals'[<<k, g>>].state # "NONE"
        \/ owners'[g] = NoOwner /\ goals'[<<k, g>>].state = "NONE"
    BY <1>1
  <2>2. /\ k \in slots /\ OwnersAgree /\ \A x \in Goals \ {g} : owners'[x] = owners[x]
        /\ owners[g] = NoOwner \/ owners[g].connection = k
    BY <1>0, <1>1
  <2> QED
    BY ZenonT(60), <1>2, <1>3, <2>1, <2>2, OneGoalMoves
<1>5. ConnectionsOK'
  <2>1. owners' \in [Goals -> GoalOwner]
    BY <1>0
  <2> QED
    BY ZenonT(60), <1>0, <2>1, ConnectionsStay DEF ConnectionsOK, pollVars
<1>6. GoalsSurvive
  <2> SUFFICES ASSUME NEW h \in Connections \X Goals,
                      goals[h].state # "NONE", goals'[h].state = "NONE"
               PROVE  /\ phase = "IDLE" /\ phase' = "IDLE"
                      /\ owners[h[2]] = Owner("ACTIVE", h[1]) /\ owners'[h[2]] = NoOwner
                      /\ \A j \in (Connections \X Goals) \ {h} : goals'[j] = goals[j]
    BY ZenonT(60) DEF GoalsSurvive
  <2>1. h = <<k, g>> /\ h[1] = k /\ h[2] = g
    BY SMTT(60) DEF Elsewhere
  <2>2. owners[g] = Owner("ACTIVE", k)
    BY ZenonT(60), <1>0, <2>1 DEF OwnersAgree, HasGoal
  <2>3. owners'[g] = NoOwner
    BY ZenonT(60), <1>1, <2>1
  <2> QED
    BY ZenonT(60), <2>1, <2>2, <2>3 DEF Elsewhere, pollVars
<1> QED
  BY ZenonT(60), <1>4, <1>5, <1>6 DEF MuxKept, MuxInv

(* clear_all_instances of a slot in whose connection every owner ends. *)
LEMMA RetireKeepsOwners ==
  ASSUME OwnersAgree, NEW k \in Connections, RetireSlot(k), slots' = slots,
         \A x \in Goals : IF owners[x].connection = k THEN owners'[x] = NoOwner
                          ELSE owners'[x] = owners[x]
  PROVE  /\ OwnersAgree'
         /\ \A l \in Connections \ {k}, x \in Goals : goals'[<<l, x>>] = goals[<<l, x>>]
         /\ \A x \in Goals : goals'[<<k, x>>] = NoServerContext
<1>1. \A l \in Connections, x \in Goals :
         /\ bindings'[<<l, x>>] = IF l = k THEN NoBinding ELSE bindings[<<l, x>>]
         /\ goals'[<<l, x>>] = IF l = k THEN NoServerContext ELSE goals[<<l, x>>]
  BY DEF RetireSlot, ClearAllInstances
<1>2. \A x \in Goals : goals'[<<k, x>>] = NoServerContext /\ goals'[<<k, x>>].state = "NONE"
  BY <1>1 DEF NoServerContext, NewServerContext
<1>3. \A l \in Connections \ {k}, x \in Goals : StateKept(l, x) /\ goals'[<<l, x>>] = goals[<<l, x>>]
  BY <1>1 DEF StateKept
<1>4. \A x \in Goals : owners'[x] # Owner("ACTIVE", k) /\ owners'[x] # Owner("PENDING", k)
  BY SMTT(60), OwnerFacts
<1>5. OwnersAgree'
  <2>1. \A l \in Connections \ {k}, x \in Goals : StateKept(l, x)
    BY ZenonT(60), <1>3
  <2>2. \A x \in Goals : /\ goals'[<<k, x>>].state # "NONE" <=> owners'[x] = Owner("ACTIVE", k)
                         /\ owners'[x] # Owner("PENDING", k)
    BY SMTT(60), <1>2, <1>4
  <2>3. \A x \in Goals : \/ owners'[x] = owners[x]
                         \/ owners[x].connection = k /\ owners'[x] = NoOwner
    OBVIOUS
  <2> QED
    BY ZenonT(60), <2>1, <2>2, <2>3, ConnectionLetsGo
<1> QED
  BY <1>2, <1>3, <1>5

(* complete() on a lost connection whose last Goal this is. *)
LEMMA ReclaimKeepsMux ==
  ASSUME MuxInv, NEW k \in Connections, NEW g \in Goals, RetireSlot(k), LastGoal(k, g),
         k \in orphaned, owners[g] = Owner("ACTIVE", k), ServerInv', phase = "IDLE",
         owners' = [owners EXCEPT ![g] = NoOwner],
         UNCHANGED <<started, waiting, next_connection_id, slots, disconnected,
                     disconnect_processed, orphaned, pollVars>>
  PROVE  MuxKept
<1>0. ConnectionsOK /\ OwnersAgree /\ ServerInv /\ owners \in [Goals -> GoalOwner]
  BY DEF MuxInv, ConnectionsOK
<1>1. \A x \in Goals : /\ owners'[x] = IF x = g THEN NoOwner ELSE owners[x]
                       /\ owners[x].connection = k <=> x = g
  BY ZenonT(60), <1>0, OwnerFacts DEF LastGoal
<1>2. /\ OwnersAgree'
      /\ \A l \in Connections \ {k}, x \in Goals : goals'[<<l, x>>] = goals[<<l, x>>]
      /\ \A x \in Goals : goals'[<<k, x>>] = NoServerContext
  BY ZenonT(60), <1>0, <1>1, RetireKeepsOwners
<1>3. ConnectionsOK'
  <2>1. NoOwner \in GoalOwner /\ retired' = retired \cup {k}
    BY DEF GoalOwner, RetireSlot
  <2> QED
    BY ZenonT(60), <1>0, <2>1 DEF ConnectionsOK, pollVars
<1>4. \A x \in Goals \ {g} : goals[<<k, x>>] = NoServerContext
  <2> TAKE x \in Goals \ {g}
  <2>1. owners[x] # Owner("ACTIVE", k)
    BY ZenonT(60), <1>1, OwnerFacts
  <2>2. goals[<<k, x>>].state = "NONE"
    BY ZenonT(60), <1>0, <2>1 DEF OwnersAgree, HasGoal
  <2>3. ServerAgree(bindings[<<k, x>>], goals[<<k, x>>])
    BY ZenonT(60), <1>0 DEF ServerInv, TablesOK, ServerLayersAgree
  <2> QED
    BY <2>2, <2>3 DEF ServerAgree
<1>5. \A l \in Connections, x \in Goals : <<l, x>> # <<k, g>> => goals'[<<l, x>>] = goals[<<l, x>>]
  BY SMTT(60), <1>2, <1>4
<1>6. GoalsSurvive
  <2> SUFFICES ASSUME NEW h \in Connections \X Goals,
                      goals[h].state # "NONE", goals'[h].state = "NONE"
               PROVE  /\ phase = "IDLE" /\ phase' = "IDLE"
                      /\ owners[h[2]] = Owner("ACTIVE", h[1]) /\ owners'[h[2]] = NoOwner
                      /\ \A j \in (Connections \X Goals) \ {h} : goals'[j] = goals[j]
    BY ZenonT(60) DEF GoalsSurvive
  <2>1. h = <<k, g>> /\ h[1] = k /\ h[2] = g
    BY SMTT(60), <1>5
  <2> QED
    BY SMTT(60), <1>1, <1>5, <2>1 DEF pollVars
<1> QED
  BY ZenonT(60), <1>2, <1>3, <1>6 DEF MuxKept, MuxInv

(* What is known of Goal g of connection k when the application calls. *)
LEMMA CallFacts ==
  ASSUME MuxInv, NEW k \in Connections, NEW g \in Goals
  PROVE  /\ OwnersAgree /\ ServerInv /\ owners \in [Goals -> GoalOwner]
         /\ <<k, g>> \in Connections \X Goals /\ goals[<<k, g>>] \in ServerGoalContext
         /\ bindings \in [Connections \X Goals -> ActionPacketBinding]
         /\ goals \in [Connections \X Goals -> ServerGoalContext]
         /\ NoOwner \in GoalOwner /\ Owner("ACTIVE", k) \in GoalOwner
         /\ Owner("ACTIVE", k).connection = k /\ Owner("PENDING", k).connection = k
<1>1. /\ OwnersAgree /\ ServerInv /\ owners \in [Goals -> GoalOwner]
      /\ <<k, g>> \in Connections \X Goals /\ goals[<<k, g>>] \in ServerGoalContext
      /\ bindings \in [Connections \X Goals -> ActionPacketBinding]
      /\ goals \in [Connections \X Goals -> ServerGoalContext]
  BY ZenonT(60) DEF MuxInv, ServerInv, TablesOK, ConnectionsOK
<1>2. NoOwner \in GoalOwner /\ Owner("ACTIVE", k) \in GoalOwner
  BY SMTT(60) DEF NoOwner, Owner, GoalOwner
<1> QED
  BY ZenonT(60), <1>1, <1>2, OwnerFacts

LEMMA DecisionKeepsMux ==
  ASSUME MuxInv, NEW k \in Connections, NEW g \in Goals, to_client[k] = << >>,
         MuxAcceptGoal(k, g) \/ MuxRejectGoal(k, g)
  PROVE  MuxKept
<1>1. CASE MuxAcceptGoal(k, g)
  <2>1. /\ AcceptGoal(k, g) /\ owners' = [owners EXCEPT ![g] = Owner("ACTIVE", k)]
        /\ owners[g] = Owner("PENDING", k) /\ phase = "IDLE"
        /\ UNCHANGED <<connectionVars, pollVars>>
    BY ZenonT(60), <1>1 DEF MuxAcceptGoal
  <2>2. ServerInv'
    BY ZenonT(60), <2>1, CallFacts, ServerStepKeeps DEF Calls
  <2>3. Elsewhere(k, g) /\ goals'[<<k, g>>].state # "NONE"
    BY SMTT(60), <2>1, CallFacts DEF AcceptGoal, EndpointAcceptGoal, NewServerContext, Elsewhere
  <2> QED
    BY ZenonT(60), <2>1, <2>2, <2>3, CallFacts, CallKeepsMux
<1>2. CASE MuxRejectGoal(k, g)
  <2>1. /\ RejectGoal(k, g) /\ owners' = [owners EXCEPT ![g] = NoOwner]
        /\ owners[g] = Owner("PENDING", k) /\ phase = "IDLE"
        /\ UNCHANGED <<connectionVars, pollVars>>
    BY ZenonT(60), <1>2 DEF MuxRejectGoal
  <2>2. ServerInv'
    BY ZenonT(60), <2>1, CallFacts, ServerStepKeeps DEF Calls
  <2>3. Elsewhere(k, g) /\ goals'[<<k, g>>].state = "NONE"
    BY SMTT(60), <2>1, CallFacts
    DEF RejectGoal, EndpointRejectGoal, ReleaseBinding, HasGoal, Elsewhere
  <2> QED
    BY ZenonT(60), <2>1, <2>2, <2>3, CallFacts, CallKeepsMux
<1> QED
  BY <1>1, <1>2

(* A call that leaves the owner of an accepted Goal alone. *)
LEMMA ActiveGoalKeepsMux ==
  ASSUME MuxInv, NEW k \in Connections, NEW g \in Goals, ServerInv', Elsewhere(k, g),
         owners[g] = Owner("ACTIVE", k), owners' = owners, phase = "IDLE",
         goals'[<<k, g>>].state # "NONE", UNCHANGED <<connectionVars, pollVars>>
  PROVE  MuxKept
<1> DEFINE o == Owner("ACTIVE", k)
<1>1. owners \in [Goals -> GoalOwner] /\ owners[g] = o /\ o \in GoalOwner /\ o.connection = k
  BY ZenonT(60), CallFacts
<1> HIDE DEF o
<1>2. owners' = [owners EXCEPT ![g] = o]
  BY ZenonT(60), <1>1
<1> QED
  BY ZenonT(60), <1>1, <1>2, CallKeepsMux DEF o

LEMMA RouteKeepsMux ==
  ASSUME MuxInv, NEW k \in Connections, NEW g \in Goals, to_client[k] = << >>,
         RouteActiveGoal(k, g)
  PROVE  MuxKept
<1> DEFINE c == goals[<<k, g>>]
<1>1. /\ AcceptCancel(k, g) \/ RejectCancel(k, g)
      /\ owners[g] = Owner("ACTIVE", k) /\ owners' = owners /\ phase = "IDLE"
      /\ UNCHANGED <<connectionVars, pollVars>>
  BY ZenonT(60) DEF RouteActiveGoal
<1>2. ServerInv'
  BY ZenonT(60), <1>1, CallFacts, ServerStepKeeps DEF Calls
<1>3. PICK event \in {"ACCEPT_CANCEL", "REJECT_CANCEL"} :
         /\ TransitionServerGoal(c, event).kind = "TRANSITIONED"
         /\ goals' = [goals EXCEPT ![<<k, g>>] = TransitionServerGoal(c, event).next]
  BY ZenonT(60), <1>1 DEF AcceptCancel, RejectCancel, Transition
<1> DEFINE next == TransitionServerGoal(c, event).next
<1>4. next.state # "NONE"
  BY SMTT(60), <1>3, CallFacts, DecisionMoves
<1>5. goals' = [goals EXCEPT ![<<k, g>>] = next]
  BY <1>3
<1> HIDE DEF next
<1>6. /\ goals'[<<k, g>>] = next
      /\ \A d \in Connections \X Goals : d # <<k, g>> => goals'[d] = goals[d]
  <2>1. <<k, g>> \in Connections \X Goals /\ goals \in [Connections \X Goals -> ServerGoalContext]
    BY ZenonT(60), CallFacts
  <2> QED
    BY ZenonT(60), <1>5, <2>1, EntryChanges
<1>7. \A d \in Connections \X Goals : d # <<k, g>> => bindings'[d] = bindings[d]
  BY SMTT(60), <1>1, CallFacts DEF AcceptCancel, RejectCancel, EndpointAcceptCancel,
     EndpointAcceptCancelLocally, EndpointRejectCancel
<1> QED
  BY ZenonT(60), <1>1, <1>2, <1>4, <1>6, <1>7, ActiveGoalKeepsMux DEF Elsewhere

LEMMA FeedbackKeepsMux ==
  ASSUME MuxInv, NEW k \in Connections, NEW g \in Goals, to_client[k] = << >>,
         MuxSendFeedback(k, g)
  PROVE  MuxKept
<1>1. /\ SendFeedback(k, g) /\ owners[g] = Owner("ACTIVE", k) /\ owners' = owners
      /\ goals' = goals /\ phase = "IDLE" /\ UNCHANGED <<connectionVars, pollVars>>
  BY ZenonT(60) DEF MuxSendFeedback, SendFeedback
<1>2. ServerInv'
  BY ZenonT(60), <1>1, CallFacts, ServerStepKeeps DEF Calls
<1>3. goals'[<<k, g>>].state # "NONE"
  BY ZenonT(60), <1>1, CallFacts DEF OwnersAgree, HasGoal
<1>4. Elsewhere(k, g)
  BY SMTT(60), <1>1, CallFacts DEF SendFeedback, EndpointSendFeedback, Elsewhere
<1> QED
  BY ZenonT(60), <1>1, <1>2, <1>3, <1>4, ActiveGoalKeepsMux

LEMMA CompleteKeepsMux ==
  ASSUME MuxInv, NEW k \in Connections, NEW g \in Goals, to_client[k] = << >>,
         NEW status \in TerminalStatus,
         \/ FALSE \in SendOutcomes /\ MuxCompleteUnsent(k, g, status)
         \/ MuxComplete(k, g, status)
         \/ MuxCompleteLocally(k, g, status)
  PROVE  MuxKept
<1>1. ASSUME ServerInv', Elsewhere(k, g), goals'[<<k, g>>].state = "NONE",
             owners[g] = Owner("ACTIVE", k), owners' = [owners EXCEPT ![g] = NoOwner],
             phase = "IDLE", UNCHANGED <<connectionVars, pollVars>>
      PROVE  MuxKept
  BY ZenonT(60), <1>1, CallFacts, CallKeepsMux
<1>2. CASE FALSE \in SendOutcomes /\ MuxCompleteUnsent(k, g, status)
  <2> DEFINE c == goals[<<k, g>>]
             next == TransitionServerGoal(c, CompletionEvent(status)).next
  <2>1. /\ Complete(k, g, status, FALSE) /\ owners[g] = Owner("ACTIVE", k) /\ owners' = owners
        /\ phase = "IDLE" /\ UNCHANGED <<connectionVars, pollVars>>
        /\ TransitionServerGoal(c, CompletionEvent(status)).kind = "TRANSITIONED"
        /\ goals' = [goals EXCEPT ![<<k, g>>] = next]
    BY ZenonT(60), <1>2 DEF MuxCompleteUnsent, Complete, Transition
  <2>2. ServerInv'
    BY ZenonT(60), <1>2, <2>1, CallFacts, ServerStepKeeps DEF Calls
  <2>3. next.state = "FINISHING"
    BY ZenonT(60), <2>1, CallFacts, CompletionMoves
  <2> HIDE DEF next
  <2>4. /\ goals'[<<k, g>>] = next
        /\ \A d \in Connections \X Goals : d # <<k, g>> => goals'[d] = goals[d]
    <3>1. <<k, g>> \in Connections \X Goals /\ goals \in [Connections \X Goals -> ServerGoalContext]
      BY ZenonT(60), CallFacts
    <3> QED
      BY ZenonT(60), <2>1, <3>1, EntryChanges
  <2>5. \A d \in Connections \X Goals : d # <<k, g>> => bindings'[d] = bindings[d]
    BY SMTT(60), <2>1, CallFacts DEF Complete, EndpointComplete
  <2> QED
    BY ZenonT(60), <2>1, <2>2, <2>3, <2>4, <2>5, ActiveGoalKeepsMux DEF Elsewhere
<1>3. CASE MuxComplete(k, g, status)
  <2>1. /\ Complete(k, g, status, TRUE) /\ owners' = [owners EXCEPT ![g] = NoOwner]
        /\ owners[g] = Owner("ACTIVE", k) /\ phase = "IDLE"
        /\ UNCHANGED <<connectionVars, pollVars>>
    BY ZenonT(60), <1>3 DEF MuxComplete
  <2>2. ServerInv'
    BY ZenonT(60), <2>1, CallFacts, ServerStepKeeps, SendMaySucceed DEF Calls
  <2>3. Elsewhere(k, g) /\ goals'[<<k, g>>].state = "NONE"
    BY SMTT(60), <2>1, CallFacts
    DEF Complete, EndpointComplete, ReleaseBinding, NoServerContext,
       NewServerContext, Elsewhere
  <2> QED
    BY ZenonT(60), <1>1, <2>1, <2>2, <2>3
<1>4. CASE MuxCompleteLocally(k, g, status)
  <2>1. /\ owners[g] = Owner("ACTIVE", k) /\ owners' = [owners EXCEPT ![g] = NoOwner]
        /\ phase = "IDLE"
        /\ UNCHANGED <<started, waiting, next_connection_id, slots, disconnected,
                       disconnect_processed, orphaned, pollVars>>
    BY ZenonT(60), <1>4 DEF MuxCompleteLocally
  <2>2. CASE LastGoal(k, g) /\ k \in orphaned
    <3>1. RetireSlot(k)
      BY ZenonT(60), <1>4, <2>2 DEF MuxCompleteLocally
    <3>2. ServerInv'
      BY ZenonT(60), <3>1, CallFacts, ServerStepKeeps DEF RetireSlot
    <3> QED
      BY ZenonT(60), <2>1, <2>2, <3>1, <3>2, ReclaimKeepsMux
  <2>3. CASE ~(LastGoal(k, g) /\ k \in orphaned)
    <3>1. CompleteLocally(k, g, status) /\ retired' = retired
      BY ZenonT(60), <1>4, <2>3 DEF MuxCompleteLocally
    <3>2. ServerInv'
      BY ZenonT(60), <3>1, CallFacts, ServerStepKeeps DEF Calls
    <3>3. Elsewhere(k, g) /\ goals'[<<k, g>>].state = "NONE"
      BY SMTT(60), <3>1, CallFacts DEF CompleteLocally, ReleaseBinding,
         NoServerContext, NewServerContext, Elsewhere
    <3>4. UNCHANGED <<connectionVars, pollVars>>
      BY ZenonT(60), <2>1, <3>1 DEF connectionVars
    <3> QED
      BY ZenonT(60), <1>1, <2>1, <3>2, <3>3, <3>4
  <2> QED
    BY <2>2, <2>3
<1> QED
  BY ZenonT(60), <1>2, <1>3, <1>4

(* The application's calls. *)
LEMMA CallsKeepMux ==
  ASSUME MuxInv, NEW k \in Connections, NEW g \in Goals, MuxCalls(k, g), to_client[k] = << >>
  PROVE  MuxKept
BY ZenonT(60), DecisionKeepsMux, RouteKeepsMux, FeedbackKeepsMux, CompleteKeepsMux DEF MuxCalls

(* process_disconnected_ of one slot. *)
LEMMA DisconnectKeepsMux ==
  ASSUME MuxInv, NEW k \in Connections, ProcessDisconnected(k), to_client[k] = << >>
  PROVE  MuxKept
<1>0. /\ TablesOK /\ QueuesOK /\ OwnersAgree /\ ServerInv /\ ConnectionsOK
      /\ owners \in [Goals -> GoalOwner]
  BY ZenonT(60) DEF MuxInv, ServerInv, ConnectionsOK
<1>1. /\ k \in slots \cap disconnected
      /\ disconnect_processed' = disconnect_processed \cup {k}
      /\ owners' = [g \in Goals |-> IF g \in Owned(k, "PENDING") THEN NoOwner ELSE owners[g]]
      /\ UNCHANGED <<started, waiting, next_connection_id, slots, disconnected, pollVars>>
  BY DEF ProcessDisconnected
<1>2. \A x \in Goals : owners'[x] = IF owners[x] = Owner("PENDING", k) THEN NoOwner ELSE owners[x]
  BY ZenonT(60), <1>1 DEF Owned
<1>3. ASSUME orphaned' \subseteq orphaned \cup {k}, retired' \subseteq retired \cup {k}
      PROVE  ConnectionsOK'
  <2>1. NoOwner \in GoalOwner
    BY ZenonT(60) DEF GoalOwner
  <2> QED
    BY SMTT(60), <1>0, <1>1, <1>3, <2>1 DEF ConnectionsOK, pollVars
<1>4. CASE Owned(k, "ACTIVE") # {}
  <2>1. OrphanSlot(k)
    BY ZenonT(60), <1>4 DEF ProcessDisconnected
  <2>2. ServerInv'
    BY ZenonT(60), <1>0, <2>1, OrphanKeepsServer DEF ServerInv
  <2>3. goals' = goals /\ \A l \in Connections \ {k}, x \in Goals : StateKept(l, x)
    BY SMTT(60), <2>1 DEF OrphanSlot, DiscardUndecided, StateKept
  <2>4. \A x \in Goals : \/ owners'[x] = owners[x]
                         \/ owners[x].connection = k /\ owners'[x] = NoOwner
    BY ZenonT(60), <1>2, OwnerFacts
  <2>5. \A x \in Goals : /\ goals'[<<k, x>>].state # "NONE" <=> owners'[x] = Owner("ACTIVE", k)
                         /\ owners'[x] # Owner("PENDING", k)
    <3> TAKE x \in Goals
    <3>1. goals[<<k, x>>].state # "NONE" <=> owners[x] = Owner("ACTIVE", k)
      BY ZenonT(60), <1>0 DEF OwnersAgree, HasGoal
    <3> QED
      BY ZenonT(60), <1>2, <2>3, <3>1, OwnerFacts
  <2>6. OwnersAgree'
    BY ZenonT(60), <1>0, <1>1, <2>3, <2>4, <2>5, ConnectionLetsGo
  <2>7. ConnectionsOK' /\ GoalsSurvive
    BY ZenonT(60), <1>3, <2>1, <2>3 DEF OrphanSlot, GoalsSurvive
  <2> QED
    BY ZenonT(60), <2>2, <2>6, <2>7 DEF MuxKept, MuxInv
<1>5. CASE Owned(k, "ACTIVE") = {}
  <2>1. RetireSlot(k) /\ UNCHANGED orphaned
    BY ZenonT(60), <1>5 DEF ProcessDisconnected
  <2>2. ServerInv'
    BY <1>0, <2>1, ServerStepKeeps DEF RetireSlot
  <2>3. \A x \in Goals : owners[x] # Owner("ACTIVE", k)
    BY ZenonT(60), <1>5 DEF Owned
  <2>4. \A x \in Goals : IF owners[x].connection = k THEN owners'[x] = NoOwner
                         ELSE owners'[x] = owners[x]
    BY SMTT(60), <1>0, <1>2, <2>3, OwnerFacts
  <2>5. /\ OwnersAgree'
        /\ \A l \in Connections \ {k}, x \in Goals : goals'[<<l, x>>] = goals[<<l, x>>]
    BY ZenonT(60), <1>0, <1>1, <2>1, <2>4, RetireKeepsOwners
  <2>6. \A x \in Goals : goals[<<k, x>>].state = "NONE"
    BY ZenonT(60), <1>0, <2>3 DEF OwnersAgree, HasGoal
  <2>7. GoalsSurvive
    <3>1. \A h \in Connections \X Goals : goals[h].state # "NONE" => goals'[h] = goals[h]
      BY SMTT(60), <2>5, <2>6
    <3> QED
      BY ZenonT(60), <3>1 DEF GoalsSurvive
  <2>8. ConnectionsOK'
    BY ZenonT(60), <1>3, <2>1 DEF RetireSlot
  <2> QED
    BY ZenonT(60), <2>2, <2>5, <2>7, <2>8 DEF MuxKept, MuxInv
<1> QED
  BY <1>4, <1>5

(* A Goal request reaches the application. *)
LEMMA NewGoalKeepsOwners ==
  ASSUME MuxInv, NEW k \in Connections, VisitReturnsGoal(k)
  PROVE  OwnersAgree' /\ GoalsSurvive /\ owners' \in [Goals -> GoalOwner]
<1> DEFINE p == Head(to_server[k])
           g == p.goal
<1>0. /\ TablesOK /\ QueuesOK /\ OwnersAgree /\ owners \in [Goals -> GoalOwner]
      /\ remaining \subseteq slots
  BY DEF MuxInv, ServerInv, ConnectionsOK
<1>1. /\ to_server[k] # << >> /\ ServerPoll(k, TRUE) /\ k \in slots /\ slots' = slots
      /\ ReportedRuntimeEvents(k) = {} /\ p.kind = "GOAL"
      /\ bindings[<<k, g>>].state = "NONE" /\ slot_owners[<<k, p.slot>>] = NoGoal
      /\ owners[g] = NoOwner /\ owners' = [owners EXCEPT ![g] = Owner("PENDING", k)]
  BY ZenonT(60), <1>0 DEF VisitReturnsGoal, Visits, NewGoalRequest, TakesPacket, connectionVars
<1>2. g \in Goals
  <2>1. to_server \in [Connections -> Seq(ToServer)]
    BY <1>0 DEF QueuesOK, ActionTransportTypeOK
  <2>2. p \in ToServer
    BY ZenonT(60), <1>1, <2>1, ReceivedType
  <2> QED
    BY <2>2 DEF ToServer
<1>3. StatesKept
  BY ZenonT(60), <1>0, <1>1, PollKeepsStates
<1>4. bindings'[<<k, g>>].state = "AWAITING_GOAL_DECISION"
  <2>1. ~PollRuntimeEvent(k)
    BY ZenonT(60), <1>1 DEF PollRuntimeEvent
  <2>2. EndpointPoll(k, TRUE)
    BY ZenonT(60), <1>1, <2>1 DEF ServerPoll
  <2>3. PollGoalRequest(k, p)
    BY ZenonT(60), <1>1, <2>2 DEF EndpointPoll, PollDropped, PollGoalRefused
  <2>4. bindings' = [bindings EXCEPT ![<<k, g>>] = NewBinding(p.slot)]
    BY ZenonT(60), <2>3 DEF PollGoalRequest
  <2> QED
    BY ZenonT(60), <1>0, <1>2, <2>4 DEF TablesOK, NewBinding
<1> DEFINE o == Owner("PENDING", k)
<1>5. owners' = [owners EXCEPT ![g] = o] /\ o \in GoalOwner
  BY SMTT(60), <1>1 DEF Owner, GoalOwner
<1> HIDE DEF g, o
<1>6. owners' \in [Goals -> GoalOwner] /\ owners'[g] = o /\ \A x \in Goals \ {g} : owners'[x] = owners[x]
  BY ZenonT(60), <1>0, <1>2, <1>5
<1>7. \A l \in Connections, x \in Goals : goals'[<<l, x>>].state = goals[<<l, x>>].state
  BY <1>3 DEF StatesKept, StateKept
<1>8. goals'[<<k, g>>].state = "NONE"
  <2>1. owners[g] # Owner("ACTIVE", k)
    BY SMTT(60), <1>1, OwnerFacts
  <2>2. goals[<<k, g>>].state = "NONE"
    BY ZenonT(60), <1>0, <1>2, <2>1 DEF OwnersAgree, HasGoal
  <2> QED
    BY ZenonT(60), <1>2, <1>7, <2>2
<1>9. GoalsSurvive
  BY SMTT(60), <1>7 DEF GoalsSurvive
<1>10. OwnersAgree'
  <2>1. owners[g] = NoOwner /\ owners'[g] = Owner("PENDING", k)
    BY <1>1, <1>6 DEF o
  <2>2. \A l \in Connections, x \in Goals : <<l, x>> # <<k, g>> => StateKept(l, x)
    BY ZenonT(60), <1>3 DEF StatesKept
  <2>3. k \in slots /\ slots' = slots /\ OwnersAgree
    BY <1>0, <1>1
  <2> QED
    BY ZenonT(60), <1>2, <1>4, <1>6, <1>8, <2>1, <2>2, <2>3, OneGoalMoves
<1> QED
  BY <1>6, <1>9, <1>10

(* The slot poll() is at. *)
LEMMA VisitKeepsMux ==
  ASSUME MuxInv, NEW k \in Connections, to_client[k] = << >>,
         \/ \E sent \in SendOutcomes : \/ VisitNoEvent(k, sent)
                                       \/ VisitReturnsEvent(k, sent)
                                       \/ VisitRejectsDuplicate(k, sent)
         \/ VisitReturnsGoal(k)
  PROVE  MuxKept
<1>0. TablesOK /\ QueuesOK /\ OwnersAgree /\ ServerInv /\ ConnectionsOK /\ phase = "SLOTS"
  BY ZenonT(60) DEF MuxInv, ServerInv, VisitNoEvent, VisitReturnsEvent,
     VisitRejectsDuplicate, VisitReturnsGoal, Visits
<1>1. ASSUME UNCHANGED connectionVars, NextSlot(k) \/ Returns, owners' \in [Goals -> GoalOwner]
      PROVE  ConnectionsOK'
  <2>1. /\ phase' \in {"IDLE", "ACCEPT", "DISCONNECTS", "SLOTS", "LAST_DISCONNECTS"}
        /\ remaining' \subseteq slots /\ (phase' # "SLOTS" => remaining' = {})
    BY ZenonT(60), <1>0, <1>1 DEF ConnectionsOK, NextSlot, Returns
  <2> QED
    BY ZenonT(60), <1>0, <1>1, <2>1, ConnectionsStay
<1>2. ASSUME StatesKept, ServerInv', UNCHANGED <<connectionVars, owners>>, NextSlot(k) \/ Returns
      PROVE  MuxKept
  <2>1. OwnersAgree' /\ GoalsSurvive
    BY ZenonT(60), <1>0, <1>2, NothingMoves DEF connectionVars
  <2>2. owners' \in [Goals -> GoalOwner]
    BY ZenonT(60), <1>0, <1>2 DEF ConnectionsOK
  <2> QED
    BY ZenonT(60), <1>1, <1>2, <2>1, <2>2 DEF MuxKept, MuxInv
<1>3. ASSUME NEW sent \in SendOutcomes, ServerPoll(k, sent), UNCHANGED <<connectionVars, owners>>,
             NextSlot(k) \/ Returns
      PROVE  MuxKept
  <2>1. ServerInv' /\ StatesKept
    BY ZenonT(60), <1>0, <1>3, ServerStepKeeps, PollKeepsStates
  <2> QED
    BY <1>2, <1>3, <2>1
<1>4. ASSUME NEW sent \in SendOutcomes, VisitNoEvent(k, sent) \/ VisitReturnsEvent(k, sent)
      PROVE  MuxKept
  BY ZenonT(60), <1>3, <1>4 DEF VisitNoEvent, VisitReturnsEvent
<1>5. ASSUME NEW sent \in SendOutcomes, VisitRejectsDuplicate(k, sent)
      PROVE  MuxKept
  <2> DEFINE p == Head(to_server[k])
             r == Response("GOAL", p.goal, p.slot, "REJECTED")
  <2>1. CASE ~sent
    <3>0. sent = FALSE
      BY ZenonT(60), <2>1, ActionSendAssumption
    <3>1. ServerPoll(k, sent) /\ UNCHANGED <<connectionVars, owners>> /\ NextSlot(k)
      BY ZenonT(60), <1>5, <2>1, <3>0 DEF VisitRejectsDuplicate
    <3> QED
      BY <1>3, <3>1
  <2>2. CASE sent
    <3>1. /\ to_server[k] # << >> /\ to_server' = Received(to_server, k)
          /\ to_client' = Send(to_client, k, r)
          /\ runtime_events' = [runtime_events EXCEPT ![k] = << >>]
          /\ UNCHANGED <<bindings, slot_owners, goals>>
          /\ UNCHANGED <<connectionVars, owners>> /\ NextSlot(k)
      BY ZenonT(60), <1>5, <2>2 DEF VisitRejectsDuplicate, NewGoalRequest, TakesPacket
    <3>2. /\ to_server \in [Connections -> Seq(ToServer)] /\ to_client \in [Connections -> Seq(ToClient)]
          /\ runtime_events \in [Connections -> Seq(Goals)]
      BY ZenonT(60), <1>0 DEF QueuesOK, ActionTransportTypeOK
    <3>3. to_server' \in [Connections -> Seq(ToServer)] /\ p \in ToServer
      BY ZenonT(60), <3>1, <3>2, ReceivedType
    <3>4. r \in ToClient
      BY ZenonT(60), <3>3, ServerValueTypes DEF ToServer, Decision
    <3> HIDE DEF r, p
    <3>5. to_client' \in [Connections -> Seq(ToClient)]
      BY ZenonT(60), <3>1, <3>2, <3>4, SendType
    <3>6. runtime_events' \in [Connections -> Seq(Goals)]
      BY ZenonT(60), <3>1, <3>2, EmptyQueue
    <3>7. TablesOK'
      BY ZenonT(60), <1>0, <3>1, TablesStay
    <3>8. ServerInv'
      BY ZenonT(60), <3>3, <3>5, <3>6, <3>7 DEF ServerInv, QueuesOK, ActionTransportTypeOK
    <3>9. StatesKept
      BY <3>1 DEF StatesKept, StateKept
    <3> QED
      BY ZenonT(60), <1>2, <3>1, <3>8, <3>9
  <2> QED
    BY ZenonT(60), <2>1, <2>2
<1>6. CASE VisitReturnsGoal(k)
  <2>1. ServerPoll(k, TRUE) /\ UNCHANGED connectionVars /\ Returns
    BY ZenonT(60), <1>6 DEF VisitReturnsGoal
  <2>2. ServerInv'
    BY ZenonT(60), <1>0, <2>1, ServerStepKeeps, SendMaySucceed
  <2>3. OwnersAgree' /\ GoalsSurvive /\ owners' \in [Goals -> GoalOwner]
    BY <1>6, NewGoalKeepsOwners
  <2> QED
    BY ZenonT(60), <1>1, <2>1, <2>2, <2>3 DEF MuxKept, MuxInv
<1> QED
  BY ZenonT(60), <1>4, <1>5, <1>6

(* stop() leaves every server as ServerInit does. *)
LEMMA StopKeepsMux ==
  ASSUME MuxInv, MuxStop
  PROVE  MuxKept
<1>1. /\ bindings' \in [Connections \X Goals -> ActionPacketBinding]
      /\ slot_owners' \in [Connections \X Slots -> Goals \cup {NoGoal}]
      /\ goals' \in [Connections \X Goals -> ServerGoalContext]
  BY ServerValueTypes DEF MuxStop
<1>2. ServerLayersAgree'
  BY ZenonT(60) DEF MuxStop, ServerLayersAgree, ServerAgree, NoBinding, NewBinding,
     NoServerContext, NewServerContext
<1>3. ServerSlotsOwned'
  BY SMTT(60), NoGoalAssumption DEF MuxStop, ServerSlotsOwned, NoBinding, NewBinding
<1>4. QueuesOK'
  BY ZenonT(60), EmptyQueue DEF MuxInv, ServerInv, QueuesOK, ActionTransportTypeOK, MuxStop
<1>5. ConnectionsOK'
  <2>1. phase = "IDLE" /\ remaining = {} /\ next_connection_id \in Nat
    BY ZenonT(60) DEF MuxInv, ConnectionsOK, MuxStop
  <2>2. /\ slots' = {} /\ disconnected' = {} /\ disconnect_processed' = {} /\ orphaned' = {}
        /\ retired' = {} /\ started' \in BOOLEAN /\ waiting' = 0
        /\ next_connection_id' = next_connection_id /\ phase' = phase /\ remaining' = remaining
    BY ZenonT(60) DEF MuxStop, pollVars
  <2>3. owners' \in [Goals -> GoalOwner]
    BY DEF MuxStop, GoalOwner
  <2> QED
    BY SMTT(60), <2>1, <2>2, <2>3 DEF ConnectionsOK
<1>6. OwnersAgree'
  <2>1. \A k \in Connections, g \in Goals : goals'[<<k, g>>].state = "NONE" /\ owners'[g] = NoOwner
    BY SMTT(60) DEF MuxStop, NoServerContext, NewServerContext
  <2>2. \A k \in Connections : /\ NoOwner # Owner("ACTIVE", k) /\ NoOwner # Owner("PENDING", k)
                              /\ NoOwner.connection # k
    BY SMTT(60), OwnerFacts
  <2> QED
    BY ZenonT(60), <2>1, <2>2 DEF OwnersAgree, HasGoal
<1>7. GoalsSurvive
  BY ZenonT(60) DEF GoalsSurvive, MuxStop
<1> QED
  BY ZenonT(60), <1>1, <1>2, <1>3, <1>4, <1>5, <1>6, <1>7
  DEF MuxKept, MuxInv, ServerInv, TablesOK

--------------------------------------------------------------------------------
(* The theorems *)

LEMMA MuxInvInitially == MuxInit => MuxInv
<1> SUFFICES ASSUME MuxInit PROVE MuxInv
  BY ZenonT(60)
<1>1. ServerInv
  BY ServerInvInitially DEF MuxInit, OpenServerInit
<1>2. ConnectionsOK
  <2>1. owners \in [Goals -> GoalOwner] /\ started \in BOOLEAN
    BY ZenonT(60) DEF MuxInit, GoalOwner
  <2> QED
    BY SMTT(60), <2>1 DEF MuxInit, ConnectionsOK
<1>3. OwnersAgree
  <2>1. \A k \in Connections, g \in Goals : goals[<<k, g>>].state = "NONE" /\ owners[g] = NoOwner
    BY SMTT(60) DEF MuxInit, ServerInit, NoServerContext, NewServerContext
  <2>2. \A k \in Connections : /\ NoOwner # Owner("ACTIVE", k) /\ NoOwner # Owner("PENDING", k)
                              /\ NoOwner.connection # k
    BY SMTT(60), OwnerFacts
  <2> QED
    BY ZenonT(60), <2>1, <2>2 DEF OwnersAgree, HasGoal
<1> QED
  BY <1>1, <1>2, <1>3 DEF MuxInv

(* The steps that touch no table of a server and no owner. *)
ConnectionStep == UNCHANGED <<bindings, goals, owners>> /\ slots \subseteq slots'

LEMMA MuxStepKeeps == MuxInv /\ MuxNext => MuxKept
<1> SUFFICES ASSUME MuxInv, MuxNext PROVE MuxKept
  OBVIOUS
<1>0. ServerInv /\ ConnectionsOK /\ OwnersAgree
  BY DEF MuxInv
<1>1. ASSUME ConnectionStep, ServerInv', ConnectionsOK' PROVE MuxKept
  <2>1. StatesKept /\ owners' = owners /\ slots \subseteq slots'
    BY <1>1 DEF ConnectionStep, StatesKept, StateKept
  <2> QED
    BY ZenonT(60), <1>0, <1>1, <2>1, NothingMoves DEF MuxKept, MuxInv
<1>2. ASSUME UNCHANGED openServerVars PROVE ServerInv'
  BY ZenonT(60), <1>0, <1>2, ServerInvInductive
<1>3. ASSUME NEW k \in Connections, ResponseTaken(k) PROVE MuxKept
  <2>1. ServerInv'
    BY ZenonT(60), <1>0, <1>3, ServerInvInductive
    DEF ResponseTaken, OpenServerNext, ResponseDeparts
  <2>2. ConnectionStep
    BY <1>3 DEF ResponseTaken, connectionVars, serverVars, ConnectionStep
  <2>3. ConnectionsOK'
    BY ZenonT(60), <1>0, <1>3, ConnectionsStay DEF ResponseTaken, pollVars, ConnectionsOK
  <2> QED
    BY <1>1, <2>1, <2>2, <2>3
<1>4. ASSUME NEW k \in Connections, NEW p \in ToServer, MuxRequestArrives(k, p) PROVE MuxKept
  <2>1. ServerInv'
    BY ZenonT(60), <1>0, <1>4, ServerInvInductive
    DEF MuxRequestArrives, OpenServerNext, RequestArrives
  <2>2. ConnectionStep
    BY <1>4 DEF MuxRequestArrives, connectionVars, serverVars, ConnectionStep
  <2>3. ConnectionsOK'
    BY ZenonT(60), <1>0, <1>4, ConnectionsStay DEF MuxRequestArrives, pollVars, ConnectionsOK
  <2> QED
    BY <1>1, <2>1, <2>2, <2>3
<1>5. CASE MuxStart \/ SessionAccepted \/ \E k \in Connections : ConnectionLost(k)
  <2>0. UNCHANGED <<serverVars, to_server, to_client, slots, owners>>
    BY ZenonT(60), <1>5 DEF MuxStart, SessionAccepted, ConnectionLost
  <2>1. ConnectionStep /\ ServerInv'
    BY ZenonT(60), <1>2, <2>0 DEF ConnectionStep, serverVars, openServerVars
  <2>2. CASE MuxStart
    <3>1. started' \in BOOLEAN
      BY <2>2 DEF MuxStart
    <3> QED
      BY ZenonT(60), <1>0, <1>1, <2>1, <2>2, <3>1 DEF MuxStart, pollVars, ConnectionsOK
  <2>3. CASE SessionAccepted
    BY ZenonT(60), <1>0, <1>1, <2>1, <2>3 DEF SessionAccepted, pollVars, ConnectionsOK
  <2>4. ASSUME NEW k \in Connections, ConnectionLost(k) PROVE MuxKept
    BY SMTT(60), <1>0, <1>1, <2>1, <2>4 DEF ConnectionLost, pollVars, ConnectionsOK
  <2> QED
    BY <1>5, <2>2, <2>3, <2>4
<1>6. CASE PollBegin \/ AcceptEnd \/ DisconnectsEnd \/ SlotsEnd
           \/ \E k \in Connections : VisitEmpty(k)
  <2>1. UNCHANGED <<openServerVars, connectionVars, owners>>
    BY <1>6 DEF PollBegin, AcceptEnd, DisconnectsEnd, SlotsEnd, VisitEmpty, openServerVars
  <2>2. ConnectionStep /\ ServerInv'
    BY <1>2, <2>1 DEF ConnectionStep, openServerVars, serverVars, connectionVars
  <2>3. /\ phase' \in {"IDLE", "ACCEPT", "DISCONNECTS", "SLOTS", "LAST_DISCONNECTS"}
        /\ remaining' \subseteq slots /\ (phase' # "SLOTS" => remaining' = {})
    BY ZenonT(60), <1>0, <1>6 DEF PollBegin, AcceptEnd, DisconnectsEnd, SlotsEnd, VisitEmpty,
       Visits, NextSlot, ConnectionsOK
  <2>4. ConnectionsOK'
    BY ZenonT(60), <1>0, <2>1, <2>3, ConnectionsStay DEF ConnectionsOK
  <2> QED
    BY ZenonT(60), <1>1, <2>2, <2>4
<1>7. CASE AcceptNewConnection
  <2>0. UNCHANGED <<serverVars, to_server, to_client, owners>> /\ slots \subseteq slots'
    BY ZenonT(60), <1>7 DEF AcceptNewConnection
  <2>1. ConnectionStep /\ ServerInv'
    BY ZenonT(60), <1>2, <2>0 DEF ConnectionStep, openServerVars, serverVars
  <2>2. /\ waiting' \in {0, 1} /\ next_connection_id \in Nat
        /\ slots \subseteq {k \in Connections : k < next_connection_id}
    BY SMTT(60), <1>0, <1>7 DEF AcceptNewConnection, ConnectionsOK
  <2>3. \/ next_connection_id' = next_connection_id /\ slots' = slots
        \/ /\ next_connection_id \in Connections
           /\ next_connection_id' = next_connection_id + 1
           /\ slots' \subseteq slots \cup {next_connection_id}
    BY ZenonT(60), <1>7 DEF AcceptNewConnection
  <2>4. \A k \in Connections : k \in Nat
    BY MuxConnectionsAssumption
  <2>5. next_connection_id' \in Nat /\ slots' \subseteq {k \in Connections : k < next_connection_id'}
    BY SMTT(60), <2>2, <2>3, <2>4
  <2>6. ConnectionsOK'
    BY SMTT(60), <1>0, <1>7, <2>1, <2>2, <2>5 DEF AcceptNewConnection, pollVars, ConnectionStep,
       ConnectionsOK
  <2> QED
    BY <1>1, <2>1, <2>6
<1>8. CASE \A k \in Connections : to_client[k] = << >>
  <2>1. ASSUME NEW k \in Connections, ProcessDisconnected(k) PROVE MuxKept
    BY <1>8, <2>1, DisconnectKeepsMux
  <2>2. ASSUME NEW k \in Connections,
               \/ \E sent \in SendOutcomes : \/ VisitNoEvent(k, sent)
                                             \/ VisitReturnsEvent(k, sent)
                                             \/ VisitRejectsDuplicate(k, sent)
               \/ VisitReturnsGoal(k)
        PROVE  MuxKept
    BY ZenonT(60), <1>8, <2>2, VisitKeepsMux
  <2>3. CASE MuxPoll
    BY ZenonT(60), <1>6, <1>7, <2>1, <2>2, <2>3 DEF MuxPoll
  <2>4. ASSUME NEW k \in Connections, NEW g \in Goals, MuxCalls(k, g) PROVE MuxKept
    BY ZenonT(60), <1>8, <2>4, CallsKeepMux
  <2> QED
    BY ZenonT(60), <1>3, <1>4, <1>5, <2>3, <2>4, StopKeepsMux DEF MuxNext
<1> QED
  BY ZenonT(60), <1>3, <1>8 DEF MuxNext

LEMMA MuxInvInductive == MuxInv /\ [MuxNext]_muxVars => MuxInv'
<1> SUFFICES ASSUME MuxInv, UNCHANGED muxVars PROVE MuxInv'
  BY MuxStepKeeps DEF MuxKept
<1>0. ServerInv /\ ConnectionsOK /\ OwnersAgree
  BY DEF MuxInv
<1>1. ServerInv'
  BY ZenonT(60), <1>0, ServerInvInductive DEF muxVars, openServerVars
<1>2. ConnectionsOK'
  BY SMTT(60), <1>0 DEF muxVars, connectionVars, pollVars, ConnectionsOK
<1>3. StatesKept /\ owners' = owners /\ slots \subseteq slots'
  BY DEF muxVars, connectionVars, serverVars, StatesKept, StateKept
<1> QED
  BY <1>0, <1>1, <1>2, <1>3, NothingMoves DEF MuxInv

LEMMA MuxInvHolds == MuxSpec => []MuxInv
BY MuxInvInitially, MuxInvInductive, PTL DEF MuxSpec

(* The tables of the Mux and of its servers keep their types: connections are
   numbered in order and none is lost from slots_ while it is being processed. *)
THEOREM MuxTypeCorrect == MuxSpec => []MuxTypeOK
<1>1. MuxInv => MuxTypeOK
  BY DEF MuxInv, ServerInv, TablesOK, QueuesOK, ConnectionsOK, MuxTypeOK, ServerTypeOK
<1> QED
  BY <1>1, MuxInvHolds, PTL

(* owners_ and the servers of the connections agree about every Goal: no goal id
   runs on two connections, and none is lost, whatever poll() and the
   application's calls race with. *)
THEOREM OwnersCorrect == MuxSpec => []OwnersAgree
<1>1. MuxInv => OwnersAgree
  BY DEF MuxInv
<1> QED
  BY <1>1, MuxInvHolds, PTL

(* Neither process_disconnected_ nor reclaim_orphaned_slot_ ends an accepted Goal
   that the application has not completed. *)
THEOREM GoalsSurviveCorrect == MuxSpec => AcceptedGoalsSurviveDisconnect
<1>1. MuxInv /\ [MuxNext]_muxVars => [GoalsSurvive]_muxVars
  BY MuxStepKeeps DEF MuxKept
<1>2. [GoalsSurvive]_muxVars <=>
      [\A h \in Connections \X Goals :
          goals[h].state # "NONE" /\ goals'[h].state = "NONE" =>
              \/ ~started'
              \/ /\ phase = "IDLE" /\ phase' = "IDLE"
                 /\ owners[h[2]] = Owner("ACTIVE", h[1]) /\ owners'[h[2]] = NoOwner
                 /\ \A j \in (Connections \X Goals) \ {h} : goals'[j] = goals[j]]_muxVars
  BY ZenonT(60) DEF GoalsSurvive
<1> QED
  BY <1>1, <1>2, MuxInvHolds, PTL DEF MuxSpec, AcceptedGoalsSurviveDisconnect

================================================================================
