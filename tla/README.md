# A TLA+ verification of hakoniwa-pdu-rpc

This directory holds a formal model of hakoniwa-pdu-rpc: its RPC and Action
layers, the TCP multiplexers, the C API, the Python client and the configuration
generators. TLC runs check it on small instances, and TLAPS proofs hold for every
instance. Paths are relative to the repository's root
(`src/` and `include/` hold the C++ code, `python/` the Python package).
`PROJECT.json` maps every definition to the lines it models and lists the runs,
the hazards and the theorems.

## 1. The system and its parts

hakoniwa-pdu-rpc gives two request protocols on top of PDU channels.

* **RPC**: a client sends one REQUEST and receives one RESPONSE; a caller whose
  request timed out may ask for it to be CANCELled.
* **Action**: a client sends a Goal; the server accepts or rejects it, publishes
  Feedback, may accept or reject a Cancel, and finally sends one Result.

Nothing in either layer runs by itself. Every operation is a call made by the
application, and progress is made by calling `poll()`. The concurrency is that of
the two processes, of several clients, and, inside a process, of the transport's
receive callback, which does nothing but append a packet to a queue under a
mutex. In the Action layer every public call of the services holds one mutex from
beginning to end; in the RPC layer every endpoint method does, except
`create_request_buffer`, which is a step of its own. A call is therefore one step
of the model. The layers above are less simple, and are cut into steps where
another thread can get in: the multiplexers' `poll()`, in which the receive thread
may mark a connection as lost at any point; the C API, which takes a token or stops
a handle under several locks; and the Python client, which has a thread per call.

| part | source | state | operations | what is hard about it |
| --- | --- | --- | --- | --- |
| RPC client endpoint | `src/rpc_client_endpoint_impl.cpp` | client state, awaited request id, deadline, received responses | create_request_buffer, call, send_cancel_request, poll, clear | timeout against late response; ids that wrap; a send that fails after the commit |
| RPC server endpoint | `src/rpc_server_endpoint_impl.cpp` | per registered client a state and a request id; received requests | poll, send_reply, send_cancel_reply, send_error_reply, clear | late cancels; error replies that reset the request in flight; restarted clients; max_clients |
| RPC services | `src/rpc_services_{client,server}.cpp` | map from service name to endpoint | initialize, call, poll, cancel, stop, clear_all_instances | one poll for many services: order and starvation |
| RPC multiplexer | `src/rpc_services_mux_server.cpp` | connection slots | accept, poll, replies, removal of disconnected slots | a reconnect at capacity; replies to a connection that is gone |
| RPC C API | `src/c_rpc*.cpp` | handles, tokens of requests, buffers | create, start, poll, reply, cancel, destroy | a token per event, not per request; a buffer that is too small |
| Action state machines | `src/action_{server,client}_state_machine.cpp` | none: pure functions | transition_server_goal, transition_client_goal | every state against every event |
| Action endpoints | `src/action_{server,client}_endpoint_impl.cpp` | a packet binding per Goal, an owner per slot, received packets | goal, feedback, cancel, result in both directions; timeouts; reset | Cancel against Result; timeouts against a late ACCEPTED; a Result that is committed and not sent |
| Action services | `src/action_services_{server,client}.cpp` | a context per accepted Goal, queued runtime events | the application's calls, poll, disconnect hooks, stop, clear_all_instances | two layers that must agree after every failure |
| Action multiplexer | `src/action_services_mux_server.cpp` | connections, owner of every Goal | accept, poll, routing, disconnect, reclaim | Goals that outlive their connection |
| Action C API | `src/c_action.cpp` | handles, buffers | as the services | an event lost to a small buffer |
| Configuration | `python/hakoniwa_pdu_rpc/*_config_generator.py`, `validate_configs.py`, `src/action_configuration.cpp`, `initialize_services` | the generated files | resolve, generate, validate, load | a generator killed between two files; two languages that must compute the same channels; names that collide |
| Python client | `python/hakoniwa_pdu_rpc/client.py`, `future.py` | busy flag, thread, future | call, call_async, cancel | cancel_on_timeout; a result that races a cancel |
| Python bindings and wiring, `tools/` | the other files of `python/hakoniwa_pdu_rpc/`, `tools/*.py` | none to speak of | | conversion of data |
| PDU endpoint, multiplexed TCP endpoint, time source | other repositories | | send, receive callback, disconnect callback, clock | external: an ordered channel, a send that may fail, a clock that passes deadlines |

How the parts fit together: an application calls services, the services call
endpoints, the endpoints send and receive packets on the channels of a PDU
endpoint. The multiplexers keep one services object per connection. The C API
wraps services and multiplexers, Python wraps the C API.

## 2. The modules at a glance

```
RpcTransport  RpcClientEndpoint  RpcServerEndpoint
          \         |          /
                RpcSystem -------- RpcRestart, RpcServices
               /    |     \
        RpcCApi  RpcMux  PyRpcClient

ActionTypes  Action{Server,Client}StateMachine  ActionTransport
                  /                  \
   ActionServer (ActionServerOpen)   ActionClient (ActionClientOpen)
        |       \                    /
    ActionMux     ----- ActionSystem ---- ActionRefinement => GoalLifecycle
        |                    |      \
  ActionMuxCApi          ActionCApi  ActionLink (the invariant of the pair)

ConfigFiles ---- ActionConfig, ServiceConfig ---- Configuration
```

A module extends the ones above it. `MC...` modules add symmetry sets or inputs
for TLC; `ActionLink` is used by the proofs only; `...Proofs` modules hold theorems (section 8).

## 3. RPC: the endpoints and what is built on them

| module | models |
| --- | --- |
| `RpcTransport` | per client a FIFO of requests and one of responses; the header fields the endpoints look at; `Send`, which may fail |
| `RpcClientEndpoint` | `RpcClientEndpointImpl`, one action per method, the receive callback and the clock |
| `RpcServerEndpoint` | `RpcServerEndpointImpl` and an application that answers each request it was given once |
| `RpcSystem` | clients and server together; properties; fairness |
| `RpcRestart` | `RpcSystem` plus clients that are destroyed and created anew |
| `RpcServices` | `RpcServicesClient`: several services, one `poll()` that returns the first event |
| `RpcCApi` | `c_rpc*.cpp`: handles, tokens, buffers that may be too small |
| `RpcMux` | `RpcServicesMuxServer` and `c_rpc_mux.cpp`: sessions, slots, tokens with a connection id |
| `PyRpcClient` | `client.py`, `future.py`: callers, worker threads, threads that cancel |

`client_state`, `client_request_id`, `pending_responses`, `server_state`,
`server_request_id` and `registered_clients` are the fields of the same names in
the code. `deadline` stands for the start time and the timeout of a request: there
is none, it lies ahead, or it has passed. `held` and `cancel_asked` are what the
server's application has been told and has not answered. `incarnation` marks the
process that sent a request; no action tests it. Request ids are taken modulo
`IdModulus` (2^32 in the code).

The modules above `RpcSystem` reuse its actions and add their own state. `RpcCApi`
and `RpcMux` split a reply in two, as the code does: the token is erased under
`pending_mutex`, and the reply is sent after that mutex is released. `RpcMux` cuts
`poll()` at each slot and removes lost sessions where the code does; a session is a
new client process, so its request ids start again. In `PyRpcClient` a worker is a
program counter, and what a thread does between two calls of the native library is
one step.

## 4. Action: the two sides and what is built on them

| module | models |
| --- | --- |
| `ActionTypes` | decisions, statuses, Goal states, Feedback numbers |
| `ActionServerStateMachine`, `ActionClientStateMachine` | `transition_server_goal`, `transition_client_goal` |
| `ActionTransport` | per connection a FIFO each way; packet headers |
| `ActionServer` | `ActionServerEndpointImpl` and `ActionServicesServer` on top of it |
| `ActionClient` | `ActionClientEndpointImpl` and `ActionServicesClient` on top of it |
| `ActionServerOpen` | the server; any packet may arrive, the application and the multiplexer may call anything |
| `ActionClientOpen` | the client; any packet may arrive |
| `ActionSystem` | a client and a server joined by a connection |
| `ActionLink` | what the two ends of a Goal and the packets between them say of each other: the invariant the proofs about `ActionSystem` rest on |
| `GoalLifecycle` | the abstract Goal: what the two applications are promised |
| `ActionRefinement` | the refinement mapping from `ActionSystem` to `GoalLifecycle` |
| `ActionMux` | `ActionServicesMuxServer`: one `ActionServer` per connection, owners of goal ids |
| `ActionCApi` | the client and the server handle of `c_action.cpp` on the two ends of a connection |
| `ActionMuxCApi` | the multiplexer's handle of `c_action.cpp` |

On each side the endpoint's operation is an operator of its own
(`EndpointAcceptGoal`, `EndpointComplete`, ...) and the services' call is the
action that uses it (`AcceptGoal`, `Complete`, ...), as in the code. `bindings`
and `client_bindings` are `packet_bindings_`, `slot_owners` and
`client_slot_owners` are `slot_owners_`, `goals` and `client_goals` hold the
contexts of the services' Goal instances, `runtime_events` is
`pending_runtime_events_`. An absent map entry has state `"NONE"`.

A call that is refused, and a call whose send fails before anything was
committed, changes nothing in the code and is not an action. The one failed send
that does change something is `complete()`: the Result is committed and lost, and
the Goal keeps its slot.

A packet is reduced to its header and the slot it arrived on. Every packet that
fails a check of size, layout, version or kind is a `"MALFORMED"` one. The
packets in the transport and those in the receiver's queue form one sequence:
the callback appends and `poll()` takes the front. A reset drops those that have
arrived, which may be any number of them.

One Action per services object is modelled. Several Actions share the mutex and
the order of `poll()` and nothing else.

**The abstract Goal.** `GoalLifecycle` has three variables per Goal: what the client
knows, what the server's application has decided, and where a cancel stands. It has
no packets and no slots. The mapping reads the decision off the server's Goal
context while there is one, and off the packet that carries it from then until the
client polls it. `ImplementsLifecycle` is `GoalLifecycle`'s own specification under
that mapping: a Goal is decided once and ends once, and the client learns the
answer, a granted cancel and the Result in that order and as they were decided.

**The multiplexer.** `phase` says how far `poll()` is: accepting sessions, looking for
lost connections, visiting the slots, looking again. Between two phases the receive
thread may lose a connection (`ConnectionLost`). All other calls hold the mutex
that `poll()` holds and wait for `"IDLE"`. `owners` is the table of goal ids: none,
PENDING or ACTIVE on a connection.

**The C handles.** A handle keeps the one event whose copy did not fit into the
caller's buffer and offers it again at the next poll. `stop` is four steps under
different locks. `client_seen`, `server_told` and `told` record what the C caller
has been told, so that the properties can compare it with what the services know.

## 5. Configuration

| module | models |
| --- | --- |
| `ConfigFiles` | what the two generators share: safe names, the files of a node, `_write_json`, a process that can be killed between two files |
| `ActionConfig` | the Action generator, `ActionConfigurationLoader`, the checks of the endpoints' `initialize` |
| `ServiceConfig` | the service generator, the checks of `validate_configs.py` across files, `initialize_services` |
| `Configuration` | the two generators, each with a directory of its own |

A run of a generator is a list of files still to be written; it may end at any
point, and another run, with the same or another manifest, may follow. What the
readers make of the files is an operator on the directory. A node id is a sequence
of characters, because `_safe_id` can make two ids equal. Channel ids are computed
twice, in Python's integers and modulo `ChannelIds` (2^32 in the code).

## 6. What the runs show

Twelve runs, eleven of which pass. States are distinct states; each run takes at
most two minutes on a small machine.

| run | instance | states | shows |
| --- | --- | --- | --- |
| `rpc_safety` | 2 dynamic clients, room for 1, 2 request ids, failing sends, an undefined result code | 214,957 | the server works on the request its client awaits; no stale response is left behind; a late cancel is harmless; an endpoint is reusable only after a response; a client that is turned away leaves no trace |
| `rpc_restart` | 1 client, 2 restarts | 78,323 | a restarted client never leaves the server's state for it busy without somebody who can answer; it becomes idle |
| `rpc_services` | 1 caller, 2 services | 98,420 | a request in flight is in one place; a caller that takes all events before it calls again is served on every service |
| `rpc_mux` | 3 sessions, two of which make calls, 2 slots | 38,121 | replies and tokens stay in their session; a session is undisturbed by the others; lost sessions give up their slots |
| `rpc_capi` | 1 client, 4 ids, buffers that fit | 14,740 | a request in flight has a token; between taking the token and sending the reply the request stays in flight |
| `py_client` | 2 calls, deadlines that run out, `cancel()` from other threads | 169,460 | every future completes; a worker polls and cancels its own request only; the client is reusable after a call that ended |
| `action_safety` | 2 Goals, 2 slots, Feedback numbers modulo 2, failing sends, timeouts | 270,493 | nothing is dropped, refused or forgotten that the other side waits for; both sides together implement `GoalLifecycle` |
| `action_mux` | 2 connections in 1 place, 2 Goals, 2 slots, failing sends | 445,299 | goal ids have one owner; accepted Goals survive the loss; a slot is kept exactly as long as one of its Goals lives; a left-over runtime cancel hits nobody |
| `action_capi` | 2 Goals, 1 slot, buffers too small, both handles stopped and started again | 73,524 | the C callers know what the services know; a stopped handle forgets; Goals of the new life are not lost to the old one; every Goal ends |
| `action_mux_capi` | 2 connections, 1 Goal, buffers too small | 87,007 | what the multiplexer wants decided is offered to the caller; a lost connection's Goals are reported |
| `configuration` | 2 generators, a few manifests, 3-bit channel ids | 154,699 | the index never names a missing file; what the generators accept, the loaders and the validator accept |
| `mux_lost_result` | 1 connection, 1 Goal | fails | section 7 |

**Bounds.** Two clients are enough for a second one to be refused at
`MaxClients = 1`; clients share nothing but `registered_clients`. Two to four
request ids make the counter wrap while requests, cancels and responses of the
previous ids are still about. Two Goals and two slots give reuse of a slot by
another Goal, of an id on another slot, and both Goals in every pair of states;
`action_capi` has one slot, so that every restart meets the old Goal there.
Feedback numbers modulo 2 wrap with every second packet. `MaxQueued` bounds
Feedback, the one packet without a limit of its own, and in `ActionMux` the packets a
client has on the way. `MaxRestarts` bounds restarts. A third channel slot wraps in
`ChannelIds = 8`. `GoalTimeouts = {"finite"}` includes a Goal without a timeout: a
deadline need not pass. Goal ids, and the clients of `rpc_safety`, are
interchangeable, and the runs whose properties allow it use that symmetry.

**Deadlock** is not checked in `action_safety` and `action_capi`, where all Goals may
end timed out, or committed with the Result lost, and the system then waits for a
reset as the code does; nor in `py_client`, which ends when its calls have ended.

**Fairness.** Threads that poll keep polling and the transport delivers what was
sent. The server's application answers a request it holds, and decides and completes
a Goal; it is not assumed to answer a Cancel, and the client is not assumed to send
one. `EveryServiceServed` also assumes that the caller cancels after a timeout, as
`RpcClient._call_impl` does; `FuturesComplete` that a thread that is not blocked runs on
and that time passes. These are weak fairness. Strong fairness is used for one thing:
the turn of `poll()` in `CMuxFairSpec`, because a slot may be empty each time the poll loop
comes by; every example and test of the repository calls `poll()` in a loop.

`NewGoalsNeverLost` is checked with sends that succeed: when the server refuses a
Goal on its own and the send of that refusal fails, the client hears nothing until its
timeout (`send_goal_error_reply` ignores the error).

The type invariants of all modules hold in these runs too; they are not listed as
properties, and those of the base modules are proved (section 8).

## 7. Where the code and its description differ

One run ends with a counterexample. `mux_lost_result`: `complete()` commits a Result and
fails to send it, then the connection goes. `complete_locally` refuses the Goal, which is
FINISHING; its owner and its orphaned slot stay until `stop()`, while
`docs/design/action/13-mux-server.md` says that a terminal `complete()` after the loss
frees them.

The modules make the following observable with one constant; they are assumptions
of the runs above and of anybody who uses this code:

* `BufferFits = {TRUE, FALSE}` in `RpcCApi`: a poll with too small a buffer loses the event, and
  the server stays busy for that client. The Action C API keeps the event.
* `DrainFirst = FALSE` in `RpcServices`: a caller that calls a service again before it has taken
  all events starves the services that come later in the map.
* `SharedClient = TRUE` in `PyRpcClient`: two `RpcClient` objects on one native client take each
  other's responses.
* `ClientReusable` is about calls that ended with a response or a confirmed cancel. A call
  whose event deadline runs out, or with `cancel_on_timeout=False`, leaves the native
  request in flight and every later call is refused.
* With restarts, BUSY is also sent for a request that is no longer processed:
  `send_error_reply` resets the state of the request in flight.
* `_safe_id` maps different node ids to one file name; `Manifests` in `MCConfiguration` holds none
  such.

## 8. What is proved

Every theorem holds for every value of the constants under the assumptions the
modules state on them: the moduli, the number of slots and the bounds are positive or
natural numbers, a send has an outcome, Goals are finitely many (`ActionServer`),
`NoGoal` is not a Goal, an application does not answer with the code of a cancel
confirmation, the number of channel ids is not a multiple of 3.

| module | theorems | about |
| --- | --- | --- |
| `RpcSystemProofs` | `TypeCorrect`, `InFlightCorrect`, `ServesAwaitedRequestCorrect`, `NoStaleResponseCorrect`, `OnlyApplicationRepliesCorrect`, `LateCancelHarmlessCorrect`, `ReusableOnlyAfterResponseCorrect` | `RpcSystem` |
| `ActionServerProofs` | `ServerTypeCorrect`, `ServerTablesCorrect`, `RuntimeCancelCorrect`, `CommittedResultCorrect` | the server, any client (`OpenServerSpec`) |
| `ActionClientProofs` | `ClientTypeCorrect`, `ClientTablesCorrect`, `QuarantineCorrect` | the client, any server (`OpenClientSpec`) |
| `ActionSystemProofs` (lemmas in `ActionLinkProofs`, `ActionStepProofs`) | `SystemTypeCorrect`, `SystemTablesCorrect`, `GoalRequestsFresh`, `PacketsMatched`, `CancelsReported`, `GoalsAccountedFor`, `ServerGoalsKnown` | `ActionSystem` |
| `ActionMuxProofs` | `MuxTypeCorrect`, `OwnersCorrect`, `GoalsSurviveCorrect` | `ActionMux` |
| `ActionConfigProofs` | `SameBound`, `ChannelsAgree`, `AcceptedActionInitializes` | the channels of an Action |

A leaf that names a prover and a time limit (`SMTT(60)`, `ZenonT(60)`) does so to
keep the proofs quick and independent of the machine's load.

**RPC.** None of the properties is inductive: that the server works on the awaited
request depends on what is on the wire behind it. `InFlightInv` says, per client,
where the one request in flight is. A REQUEST on the wire is the awaited one,
nobody has answered it and at most its own CANCEL follows it (`WireInv`); a
request at the server is held once by the application and at most its own CANCEL
is on the wire (`RunningInv`, `CancellingInv`, `HolderInv`); a response is the only
one and answers the request in flight (`ResponseInv`). `ClientStepInFlight` and
`ServerStepInFlight` show that a step for one client preserves its part and
leaves the others alone; the other theorems follow from it. FIFO order is what makes
it hold: a CANCEL that crosses the reply is always polled before the client's next
REQUEST.

**Action server.** The invariant is `TablesOK`: types, `ServerAgree` for every Goal,
and a slot table that is the inverse of the bindings. Every call moves at most one
Goal, so three lemmas carry the proof: a Goal moves within its slot (`GoalMoves`),
gives it back (`GoalGoes`), takes a free one (`GoalComes`). What each event of the
state machine does is stated once (`DecisionMoves`, `CancelMoves`,
`CompletionMoves`). `QueuesOK` adds that queued runtime events are distinct, which
needs that the order of the services' list names every Goal once
(`OrderingsDistinct`). The theorems are about `OpenServerSpec`, so they hold for
every client and every sequence of calls, disconnects and resets.

**Action client.** The same plan with `ClientTablesOK`; `ClientAgree` also says that
both layers expect the same Feedback number, which is what makes a packet one
layer matches acceptable to the other. `QuarantineCorrect` follows because no
packet matches a Goal in `GOAL_RESPONSE_TIMED_OUT`.

**Client and server together.** Tables that agree on each side say nothing about the
other side. What ties the two is what is on the wire, and `Link` (`ActionLink`) states
it for one Goal: its two bindings `c` and `s`, and its packets in the two queues.
It has four parts. `RequestsOrdered`: a Goal's requests are one GOAL or one CANCEL, or
a CANCEL whose Goal has ended followed by the GOAL that reuses the id.
`ResponsesOrdered`: the answer to the Goal comes first, a rejection or a Result last,
and there is one answer to a cancel. `FeedbackNumbered`: the places between the packets
to the client can be numbered, from the number the client expects to the one the server
uses next, so that each Feedback carries the number of its place; this holds for any
modulus and any number of Feedback packets on the way. `Exchange`: each packet says what
the states of both ends can be, and each state says which packets or which state of the
other end there must be. The invariant is `SystemInv`: the invariants of the two sides,
`Link` for every Goal of every connection, and that no runtime cancel is queued, since no
connection is lost here.

`ActionLinkProofs` proves, on bindings and queues as plain values, what each event of
the protocol (a request sent, taken, dropped; a decision, a Feedback, a Result sent and
taken; a timeout) does to `Link`, and that a step for one Goal leaves the links of the others
alone. `ActionStepProofs` shows that each action of `ActionSystem` is such an event; here
the two sides' tables are used, for instance to show that a slot a Goal request arrives on
is owned by nobody (`RequestIsFresh`). `ActionSystemProofs` puts the steps together and
reads the theorems off the invariant. `Link` was checked with TLC as an invariant of the
`action_safety` instance before it was proved.

**The Action multiplexer.** `MuxInv` adds to the server's invariant, for every
connection, that a Goal has a context on exactly the connection that is its ACTIVE owner,
and that slots, lost, processed and retired connections are nested as `poll()` makes them.

**Configuration.** `AcceptedActionInitializes` rests on `ChannelIdFits`: below the bound
on slotCount no channel id computed in 32 bits wraps.

**Only model-checked.**

* Liveness (`ServerBecomesIdle`, `EveryServiceServed`, `LostSessionsRemoved`,
  `FuturesComplete`, `EveryGoalEnds`, `LossReported`): out of the prover's reach.
* `ImplementsLifecycle`, the refinement of `GoalLifecycle`.
* `RetiredSlotsEmpty` and `StaleRuntimeCancelHarmless` of `ActionMux`.
* `UnregisteredLeaveNoTrace`, and `BusyServerHasHolder` and `RequestAccounted`, which are about
  restarted clients and several services.
* The properties of the upper layers (`RpcMux`, the C APIs, `PyRpcClient`) and of the
  generators' files.

## 9. What is not modelled

* Bytes: packet layout, capacities, conversion of messages. A packet is either
  well-formed or not.
* Loss and reordering between a working client and server: the transports in use
  deliver in order or break the connection. The open models allow any sequence of
  packets for each side alone.
* Several Actions or several services in one server object, beyond what `RpcServices`
  says of the client.
* Two threads that use one RPC client endpoint at once, which the code does not
  support.
* The Python multiplexer server, the bindings, the typed wiring and the command line tools:
  conversions of data on top of the C API, without state of their own.
