----------------------------- MODULE PyRpcClient -----------------------------
(***************************************************************************)
(* The Python RpcClient and RpcFuture above the native client: call_async  *)
(* starts one worker thread per call, which sends, polls, cancels after a  *)
(* timeout, releases the client and publishes the outcome. Callers, the    *)
(* workers and the threads that cancel a future run concurrently; what a   *)
(* thread does between two calls of the native library is one step.        *)
(***************************************************************************)
EXTENDS RpcSystem

CONSTANTS
  Calls,            \* the calls that are made, one future each
  CancelChoices,    \* values of cancel_on_timeout: subset of BOOLEAN
  EventDeadline,    \* whether event_timeout_sec can run out
  FutureCancels,    \* whether callers use RpcFuture.cancel
  SharedClient      \* whether a caller may prepare a call while another is under way

VARIABLES
  inflight_lock,    \* inflight_lock[c]: _inflight_lock is held
  worker,           \* worker[f]: the thread of call f
  future,           \* future[f]: state of its RpcFuture
  canceller         \* canceller[f]: a thread inside RpcFuture.cancel

pyVars == <<inflight_lock, worker, future, canceller>>
allVars == <<vars, pyVars>>

(* pdu is the request id in the buffer the caller encoded. *)
Pc == {"none", "encoded", "start", "send", "poll", "cancel", "wait", "release", "publish", "done"}

(* How _call_impl ended: with a response, with the confirmation of a cancel *)
(* (RpcCanceledError, or RpcTimeoutError after a timeout), or otherwise.    *)
Outcome == {"none", "response", "canceled", "error"}
Worker == [pc : Pc, client : Clients, pdu : RequestId, cancels : BOOLEAN, outcome : Outcome]

FutureState == {"NONE", "PENDING", "RUNNING", "RESULT", "EXCEPTION"}
Done(f) == future[f] \in {"RESULT", "EXCEPTION"}

PyInit ==
  /\ Init
  /\ inflight_lock = [c \in Clients |-> FALSE]
  /\ worker \in [Calls -> {[pc |-> "none", client |-> c, pdu |-> 0, cancels |-> b,
                            outcome |-> "none"] : c \in Clients, b \in CancelChoices}]
  /\ future = [f \in Calls |-> "NONE"]
  /\ canceller = [f \in Calls |-> "none"]

At(f, pc) == worker[f].pc = pc
Goto(f, pc) == worker' = [worker EXCEPT ![f].pc = pc]
Ends(f, outcome) ==
  worker' = [worker EXCEPT ![f].pc = "release", ![f].outcome = outcome]

-----------------------------------------------------------------------------
(* The callers *)

(* create_request_buffer, before call_async looks at the lock.  Callers that *)
(* share no client start a call only when the previous one has released it.  *)
EncodeRequest(f) ==
  LET c == worker[f].client IN
  /\ At(f, "none")
  /\ \/ SharedClient
     \/ ~inflight_lock[c] /\ \A g \in Calls : At(g, "encoded") => worker[g].client # c
  /\ CreateRequestBuffer(c)
  /\ worker' = [worker EXCEPT ![f].pc = "encoded", ![f].pdu = current_request_id'[c]]
  /\ UNCHANGED <<inflight_lock, future, canceller>>

(* call_async: one call in flight per client; a refused call is given up.   *)
CallAsync(f) ==
  LET c == worker[f].client IN
  /\ At(f, "encoded")
  /\ IF inflight_lock[c]
     THEN Goto(f, "done") /\ UNCHANGED <<inflight_lock, future>>
     ELSE /\ inflight_lock' = [inflight_lock EXCEPT ![c] = TRUE]
          /\ future' = [future EXCEPT ![f] = "PENDING"]
          /\ Goto(f, "start")
  /\ UNCHANGED <<clientVars, transportVars, canceller>>

(* RpcFuture.cancel: first the test, then the callback.  The callback is    *)
(* RpcClient.cancel of the service and does not know the call.              *)
FutureCancelTest(f) ==
  /\ FutureCancels
  /\ canceller[f] = "none" /\ future[f] # "NONE" /\ ~Done(f)
  /\ canceller' = [canceller EXCEPT ![f] = "tested"]
  /\ UNCHANGED <<clientVars, transportVars, inflight_lock, worker, future>>

FutureCancelCallback(f, sent) ==
  LET c == worker[f].client IN
  /\ canceller[f] = "tested"
  /\ canceller' = [canceller EXCEPT ![f] = "returned"]
  /\ IF client_state[c] = "RUNNING" THEN SendCancelRequest(c, sent)
     ELSE UNCHANGED <<clientVars, transportVars>>
  /\ UNCHANGED <<inflight_lock, worker, future>>

-----------------------------------------------------------------------------
(* The worker *)

(* Nothing cancels the inner Future, so set_running_or_notify_cancel never  *)
(* tells the worker to return.                                              *)
WorkerStart(f) ==
  /\ At(f, "start")
  /\ future' = [future EXCEPT ![f] = "RUNNING"]
  /\ Goto(f, "send")
  /\ UNCHANGED <<clientVars, transportVars, inflight_lock, canceller>>

(* The native call() with a PDU that was encoded earlier: the endpoint      *)
(* waits for the id of the latest buffer, whoever asked for that.           *)
NativeCall(c, pdu, finite, sent) ==
  /\ client_state[c] = "IDLE"
  /\ client_state' = [client_state EXCEPT ![c] = IF sent THEN "RUNNING" ELSE "IDLE"]
  /\ client_request_id' = [client_request_id EXCEPT ![c] = current_request_id[c]]
  /\ deadline' = [deadline EXCEPT ![c] = IF finite THEN "ahead" ELSE "none"]
  /\ requests' = Send(requests, c, RequestPdu(c, "REQUEST", pdu), sent)
  /\ UNCHANGED <<current_request_id, pending_responses, client_event, buffered,
                 incarnation, responses>>

(* _send_when_connected: a call that fails is tried again. *)
SendWhenConnected(f, sent) ==
  /\ At(f, "send")
  /\ \E finite \in BOOLEAN : NativeCall(worker[f].client, worker[f].pdu, finite, sent)
  /\ Goto(f, IF sent THEN "poll" ELSE "send")
  /\ UNCHANGED <<inflight_lock, future, canceller>>

(* Mutant: only a failed send counts as a failure, a busy client does not.  *)
ConnectDeadlinePassesIdle(f) ==
  LET c == worker[f].client IN
  /\ At(f, "send")
  /\ FALSE \in SendOutcomes /\ \E finite \in BOOLEAN : NativeCall(c, worker[f].pdu, finite, FALSE)
  /\ Ends(f, "error")
  /\ UNCHANGED <<inflight_lock, future, canceller>>

(* ... until one fails after connect_timeout_sec; a busy client and a send  *)
(* that fails are not told apart.                                           *)
ConnectDeadlinePasses(f) ==
  LET c == worker[f].client IN
  /\ At(f, "send")
  /\ \/ FALSE \in SendOutcomes /\ \E finite \in BOOLEAN : NativeCall(c, worker[f].pdu, finite, FALSE)
     \/ client_state[c] # "IDLE" /\ UNCHANGED <<clientVars, transportVars>>
  /\ Ends(f, "error")
  /\ UNCHANGED <<inflight_lock, future, canceller>>

(* Mutants: a timeout is taken for the end of the request; a                *)
(* cancel response is not terminal.                                         *)
AfterEventGivesUp(f, event) ==
  CASE event = "NONE" -> UNCHANGED worker
    [] event = "RESPONSE_IN" -> Ends(f, "response")
    [] OTHER -> Ends(f, "canceled")


(* The loop of _call_impl on the event that poll() returned.                *)
AfterEvent(f, event) ==
  CASE event = "NONE" -> UNCHANGED worker
    [] event = "RESPONSE_IN" -> Ends(f, "response")
    [] event = "RESPONSE_CANCEL" -> Ends(f, "canceled")
    [] OTHER -> IF worker[f].cancels THEN Goto(f, "cancel") ELSE Ends(f, "error")

WorkerPoll(f) ==
  LET c == worker[f].client IN
  /\ At(f, "poll")
  /\ ClientPoll(c)
  /\ AfterEvent(f, client_event'[c])
  /\ UNCHANGED <<inflight_lock, future, canceller>>

(* The cancel after a timeout: an error of the native cancel is raised.     *)
WorkerCancel(f, sent) ==
  LET c == worker[f].client IN
  /\ At(f, "cancel")
  /\ IF client_state[c] = "RUNNING"
     THEN /\ SendCancelRequest(c, sent)
          /\ IF sent THEN Goto(f, "wait") ELSE Ends(f, "error")
     ELSE Ends(f, "error") /\ UNCHANGED <<clientVars, transportVars>>
  /\ UNCHANGED <<inflight_lock, future, canceller>>

(* _wait_after_timeout: a further timeout is not looked at.                 *)
WaitAfterTimeout(f) ==
  LET c == worker[f].client IN
  /\ At(f, "wait")
  /\ ClientPoll(c)
  /\ CASE client_event'[c] = "RESPONSE_IN" -> Ends(f, "response")
       [] client_event'[c] = "RESPONSE_CANCEL" -> Ends(f, "canceled")
       [] OTHER -> UNCHANGED worker
  /\ UNCHANGED <<inflight_lock, future, canceller>>

EventDeadlinePasses(f) ==
  /\ EventDeadline
  /\ At(f, "poll") \/ At(f, "wait")
  /\ Ends(f, "error")
  /\ UNCHANGED <<clientVars, transportVars, inflight_lock, future, canceller>>

(* The lock is released before the outcome is published. *)
WorkerRelease(f) ==
  /\ At(f, "release")
  /\ inflight_lock' = [inflight_lock EXCEPT ![worker[f].client] = FALSE]
  /\ Goto(f, "publish")
  /\ UNCHANGED <<clientVars, transportVars, future, canceller>>

WorkerPublish(f) ==
  /\ At(f, "publish")
  /\ future' = [future EXCEPT ![f] =
                  IF worker[f].outcome = "response" THEN "RESULT" ELSE "EXCEPTION"]
  /\ Goto(f, "done")
  /\ UNCHANGED <<clientVars, transportVars, inflight_lock, canceller>>

-----------------------------------------------------------------------------
WorkerStep(f) ==
  /\ \/ WorkerStart(f) \/ WorkerPoll(f) \/ WaitAfterTimeout(f)
     \/ \E sent \in SendOutcomes : SendWhenConnected(f, sent) \/ WorkerCancel(f, sent)
     \/ WorkerRelease(f) \/ WorkerPublish(f)
  /\ UNCHANGED serverVars

WorkerDeadline(f) ==
  /\ ConnectDeadlinePasses(f) \/ EventDeadlinePasses(f)
  /\ UNCHANGED serverVars

CallerStep(f) ==
  /\ \/ EncodeRequest(f) \/ CallAsync(f) \/ FutureCancelTest(f)
     \/ \E sent \in SendOutcomes : FutureCancelCallback(f, sent)
  /\ UNCHANGED serverVars

PyEnvironment(c) ==
  \/ (PutPendingResponse(c) \/ DeadlinePasses(c)) /\ UNCHANGED <<serverVars, pyVars>>
  \/ ServerStep(c) /\ UNCHANGED pyVars

PyNext ==
  \/ \E f \in Calls : CallerStep(f) \/ WorkerStep(f) \/ WorkerDeadline(f)
  \/ \E c \in Clients : PyEnvironment(c)

PySpec == PyInit /\ [][PyNext]_allVars

(* The workers run and their deadlines pass; nothing is assumed of the      *)
(* server, the transport or the callers.                                    *)
PyFairSpec ==
  /\ PySpec
  /\ \A f \in Calls :
       /\ WF_allVars(WorkerStep(f))
       /\ WF_allVars(WorkerDeadline(f))

-----------------------------------------------------------------------------
(* All variables stay in their types. *)
PyTypeOK ==
  /\ TypeOK
  /\ inflight_lock \in [Clients -> BOOLEAN]
  /\ worker \in [Calls -> Worker]
  /\ future \in [Calls -> FutureState]

(* The client is reusable when its lock is released, as the comment in      *)
(* call_async says, as long as every call on it has ended with a response   *)
(* or a confirmed cancel: the next call_async finds the native client IDLE, *)
(* whatever the race of response, timeout and cancels.                      *)
ClientReusable ==
  \A c \in Clients :
    /\ ~inflight_lock[c]
    /\ \A f \in Calls : worker[f].client = c => worker[f].outcome # "error"
    => client_state[c] = "IDLE"


(* Every future that call_async returned completes, though the server may   *)
(* never answer and sends may fail: no thread waits in result() for ever.   *)
FuturesComplete == \A f \in Calls : future[f] # "NONE" ~> Done(f)
=============================================================================
