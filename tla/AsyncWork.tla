----------------------------- MODULE AsyncWork -----------------------------
(***************************************************************************)
(* NativeAsyncWork (native_async_work.cpp) driven through the libuv        *)
(* thread pool of the engine's loop, with the engine's waiting-request     *)
(* counter (requestWaiting_), composed with the engine's exception path   *)
(* (ExceptionPath): complete_ runs inside a TryCatch on the JS thread.     *)
(*                                                                         *)
(* Three kinds of actor take steps:                                        *)
(*   - the JS thread: Queue, QueueWithQos, Cancel, and the engine calls of *)
(*     ExceptionPath (script runs, calls into JS, throws, handler          *)
(*     registration); also from inside a complete_ callback;               *)
(*   - the pool threads: AsyncWorkCallback (execute_) on a queued work;    *)
(*   - the loop, on the JS thread: AsyncAfterWorkCallback, split at the    *)
(*     call of complete_ so that what complete_ itself does (queue or      *)
(*     cancel other work) interleaves with the pool.                       *)
(*                                                                         *)
(* Per work, `state` is where its uv_work_t is:                            *)
(*   none       not yet created                                            *)
(*   created    not submitted (new, or its last submission failed)         *)
(*   queued     in the pool's queue                                        *)
(*   executing  a pool thread runs execute_                                *)
(*   executed   execute_ returned; after-work callback pending on the loop *)
(*   cancelled  uv_cancel took it out of the queue; after-work pending     *)
(*   completed  its after-work callback has started; complete_ may be   *)
(*              running (`completing`) and may queue or delete the work    *)
(*   deleted    napi_delete_async_work destroyed the NativeAsyncWork       *)
(***************************************************************************)
EXTENDS Integers, FiniteSets

CONSTANTS
  Works,      \* the NativeAsyncWork objects of the native caller
  PoolSize,   \* number of libuv pool threads
  Exc, Converted, None   \* exceptions, as in ExceptionPath

ASSUME PoolSize \in Nat \ {0}

VARIABLES
  state,          \* [Works -> WorkStates]
  requestWaiting, \* NativeEngine::requestWaiting_
  loopOk,         \* GetUVLoop() # nullptr (uv_loop_new succeeded in Init)
  ran,            \* [Works -> BOOLEAN] execute_ ran in the current submission
  cancelOk,       \* [Works -> BOOLEAN] Cancel() returned true in the current submission
  nstatus,        \* [Works -> status] the napi_status complete_ was given
  completing,     \* the work whose complete_ is running ({} or one work)
  deinit,         \* ~ArkNativeEngine has run NativeEngine::Deinit
  pending, lastException, uncaughtCb, napiCb, thrown, reportsU, reportsN,
  fetched, taken  \* the engine's exception state, see ExceptionPath

EP == INSTANCE ExceptionPath

exVars == <<pending, lastException, uncaughtCb, napiCb, thrown, reportsU,
            reportsN, fetched, taken>>

workVars == <<state, requestWaiting, loopOk, ran, cancelOk, nstatus, completing, deinit>>

vars == <<workVars, exVars>>

WorkStates == {"none", "created", "queued", "executing", "executed", "cancelled",
               "completed", "deleted"}

NapiStatus == {"none", "napi_ok", "napi_invalid_arg", "napi_cancelled",
               "napi_generic_failure"}

\* Statuses libuv hands to an after-work callback, and what the QoS variant
\* of uv_queue_work may return.
UV_OK == 0
UV_ECANCELED == -125
UV_EINVAL == -22

\* Works whose submission holds a count in requestWaiting_.
Outstanding == {w \in Works : state[w] \in {"queued", "executing", "executed", "cancelled"}}

Executing == {w \in Works : state[w] = "executing"}

\* The JS thread is inside complete_ of some work.
InComplete == completing # {}

Init ==
  /\ state = [w \in Works |-> "none"]
  /\ requestWaiting = 0
  /\ loopOk \in BOOLEAN
  /\ ran = [w \in Works |-> FALSE]
  /\ cancelOk = [w \in Works |-> FALSE]
  /\ nstatus = [w \in Works |-> "none"]
  /\ completing = {}
  /\ deinit = FALSE
  /\ EP!Init

-----------------------------------------------------------------------------
(* The switch of AsyncAfterWorkCallback.                                   *)

\* The switch without its UV_ECANCELED case: a cancel falls to default.
StatusOfNoCancelCase(uvStatus) ==
  CASE uvStatus = UV_OK        -> "napi_ok"
    [] uvStatus = UV_EINVAL    -> "napi_invalid_arg"
    [] OTHER                   -> "napi_generic_failure"

StatusOf(uvStatus) ==
  CASE uvStatus = UV_OK        -> "napi_ok"
    [] uvStatus = UV_EINVAL    -> "napi_invalid_arg"
    [] uvStatus = UV_ECANCELED -> "napi_cancelled"
    [] OTHER                   -> "napi_generic_failure"

-----------------------------------------------------------------------------
(* JS thread.                                                              *)

\* CreateAsyncWork: a new NativeAsyncWork holding execute_, complete_ and
\* data_, with work_.data pointing back at it (trace ids and the container
\* scope id are left out).
Create(w) ==
  /\ state[w] = "none"
  /\ state' = [state EXCEPT ![w] = "created"]
  /\ UNCHANGED <<requestWaiting, loopOk, deinit, ran, cancelOk, nstatus, completing, exVars>>

\* A work may be (re)submitted when it is not in flight.
Submittable(w) == state[w] \in {"created", "completed"}

\* Submit as it would read without DecreaseWaitingRequestCounter on failure.
SubmitNoRollback(w, uvStatus) ==
  /\ Submittable(w)
  /\ loopOk
  /\ state' = [state EXCEPT ![w] = IF uvStatus = UV_OK THEN "queued" ELSE "created"]
  /\ requestWaiting' = requestWaiting + 1
  /\ ran' = [ran EXCEPT ![w] = FALSE]
  /\ cancelOk' = [cancelOk EXCEPT ![w] = FALSE]
  /\ nstatus' = [nstatus EXCEPT ![w] = "none"]
  /\ UNCHANGED <<loopOk, deinit, completing, exVars>>

\* Queue / QueueWithQos: no loop -> false; otherwise count the request, hand
\* it to uv_queue_work(_with_qos), and on a non-zero status take the count
\* back and return false. uvStatus is what the submission returned.
Submit(w, uvStatus) ==
  /\ Submittable(w)
  /\ loopOk
  /\ IF uvStatus = UV_OK
     THEN /\ state' = [state EXCEPT ![w] = "queued"]
          /\ requestWaiting' = requestWaiting + 1
          /\ ran' = [ran EXCEPT ![w] = FALSE]
          /\ cancelOk' = [cancelOk EXCEPT ![w] = FALSE]
          /\ nstatus' = [nstatus EXCEPT ![w] = "none"]
     ELSE /\ state' = [state EXCEPT ![w] = "created"]
          /\ requestWaiting' = requestWaiting   \* increased, then decreased back
          /\ UNCHANGED <<ran, cancelOk, nstatus>>
  /\ UNCHANGED <<loopOk, deinit, completing, exVars>>

\* uv_queue_work never fails for a non-null work callback.
Queue(w) == Submit(w, UV_OK)

\* uv_queue_work_with_qos rejects a QoS level out of range with UV_EINVAL.
QueueWithQos(w) == \E s \in {UV_OK, UV_EINVAL} : Submit(w, s)

\* Cancel returning true whatever uv_cancel returned.
CancelIgnoringStatus(w) ==
  /\ state[w] \notin {"none", "deleted"}
  /\ state' = [state EXCEPT ![w] = IF @ = "queued" THEN "cancelled" ELSE @]
  /\ cancelOk' = [cancelOk EXCEPT ![w] = TRUE]
  /\ UNCHANGED <<requestWaiting, loopOk, deinit, ran, nstatus, completing, exVars>>

\* uv_cancel succeeds only while the work is still in the pool's queue; it
\* then moves it to the loop's done queue with UV_ECANCELED.
Cancel(w) ==
  /\ state[w] \notin {"none", "deleted"}
  /\ IF state[w] = "queued"
     THEN /\ state' = [state EXCEPT ![w] = "cancelled"]
          /\ cancelOk' = [cancelOk EXCEPT ![w] = TRUE]
     ELSE UNCHANGED <<state, cancelOk>>
  /\ UNCHANGED <<requestWaiting, loopOk, deinit, ran, nstatus, completing, exVars>>

\* napi_delete_async_work: `delete` of the NativeAsyncWork (its destructor is
\* the default one), allowed when the work is not in flight, also from
\* inside its own complete_.
Delete(w) ==
  /\ Submittable(w)
  /\ state' = [state EXCEPT ![w] = "deleted"]
  /\ UNCHANGED <<requestWaiting, loopOk, deinit, ran, cancelOk, nstatus, completing, exVars>>

\* A call of the engine's exception API (ExceptionPath): by the application
\* between callbacks, or by complete_ while it runs.
EngineCall ==
  /\ EP!JsCalls
  /\ UNCHANGED workVars

-----------------------------------------------------------------------------
(* Pool threads: AsyncWorkCallback runs execute_.                          *)

WorkerStart(w) ==
  /\ state[w] = "queued"
  /\ Cardinality(Executing) < PoolSize
  /\ state' = [state EXCEPT ![w] = "executing"]
  /\ UNCHANGED <<requestWaiting, loopOk, deinit, ran, cancelOk, nstatus, completing, exVars>>

WorkerDone(w) ==
  /\ state[w] = "executing"
  /\ state' = [state EXCEPT ![w] = "executed"]
  /\ ran' = [ran EXCEPT ![w] = TRUE]
  /\ UNCHANGED <<requestWaiting, loopOk, deinit, cancelOk, nstatus, completing, exVars>>

-----------------------------------------------------------------------------
(* Loop: AsyncAfterWorkCallback.                                           *)

\* The after-work callback returning early on UV_ECANCELED.
AfterWorkBeginDropsCancelled(w) ==
  /\ state[w] = "executed"
  /\ ~InComplete
  /\ requestWaiting' = requestWaiting - 1
  /\ nstatus' = [nstatus EXCEPT ![w] = StatusOf(UV_OK)]
  /\ state' = [state EXCEPT ![w] = "completed"]
  /\ completing' = {w}
  /\ UNCHANGED <<loopOk, deinit, ran, cancelOk, exVars>>

\* Up to the call of complete_: DecreaseWaitingRequestCounter, map the uv
\* status, open the TryCatch, call complete_. What complete_ does to the
\* VM's exception are EngineCall steps taken while the work is completing.
AfterWorkBegin(w) ==
  /\ state[w] \in {"executed", "cancelled"}
  /\ ~InComplete
  /\ requestWaiting' = requestWaiting - 1
  /\ nstatus' = [nstatus EXCEPT ![w] =
                   StatusOf(IF state[w] = "cancelled" THEN UV_ECANCELED ELSE UV_OK)]
  /\ state' = [state EXCEPT ![w] = "completed"]
  /\ completing' = {w}
  /\ UNCHANGED <<loopOk, deinit, ran, cancelOk, exVars>>

\* The end of the callback decreasing the counter a second time.
AfterWorkEndDecrements(w) ==
  /\ w \in completing
  /\ completing' = {}
  /\ requestWaiting' = requestWaiting - 1
  /\ EP!TryCatchEnd
  /\ UNCHANGED <<state, loopOk, deinit, ran, cancelOk, nstatus>>

\* complete_ returned: "if (tryCatch.HasCaught()) HandleUncaughtException()"
\* and ~TryCatch (EP!TryCatchEnd). "Don't use that after complete": the
\* work, which complete_ may have queued again or deleted, is not touched.
AfterWorkEnd(w) ==
  /\ w \in completing
  /\ completing' = {}
  /\ EP!TryCatchEnd
  /\ UNCHANGED <<state, requestWaiting, loopOk, deinit, ran, cancelOk, nstatus>>

-----------------------------------------------------------------------------
(* Engine teardown.                                                        *)

\* ~ArkNativeEngine -> NativeEngine::Deinit, on the JS thread between
\* callbacks: delete the reference and scope managers, destroy uvSem_,
\* close uvAsync_, run the loop once and uv_loop_delete(loop_), with no test
\* of requestWaiting_. A loop that uv_loop_new failed to create is left
\* out (Deinit would pass nullptr to uv_run). The after-work callbacks that
\* run before are LoopSteps taken before this step.
Deinit ==
  /\ ~deinit
  /\ loopOk
  /\ ~InComplete
  /\ deinit' = TRUE
  /\ UNCHANGED <<state, requestWaiting, loopOk, ran, cancelOk, nstatus, completing, exVars>>

\* After the engine is destroyed only the pool threads still run.
EngineDestroyed ==
  /\ deinit
  /\ UNCHANGED vars

-----------------------------------------------------------------------------
JsThread ==
  /\ ~deinit
  /\ \/ Deinit
     \/ \E w \in Works : Create(w) \/ Queue(w) \/ QueueWithQos(w) \/ Cancel(w)
                        \/ Delete(w)
     \/ EngineCall

PoolThreads == \E w \in Works : WorkerStart(w) \/ WorkerDone(w)

\* The loop runs callbacks until the engine deletes it.
LoopSteps ==
  /\ ~deinit
  /\ \E w \in Works : AfterWorkEnd(w) \/ AfterWorkBegin(w)

Next == JsThread \/ PoolThreads \/ LoopSteps \/ EngineDestroyed

\* A pool thread runs execute_ to its end and the loop returns from
\* complete_ (weak fairness). The pool takes queued work in order and
\* uv__work_done drains the done queue in order, so a work that can start
\* whenever a pool thread is free, and an after-work callback that can run
\* whenever the loop is between two callbacks, are run (strong fairness). The JS thread's own calls are
\* the caller's choice and get no fairness.
Fairness ==
  /\ \A w \in Works : SF_vars(WorkerStart(w)) /\ WF_vars(WorkerDone(w))
  /\ \A w \in Works : SF_vars(AfterWorkBegin(w))
  /\ \A w \in Works : WF_vars(AfterWorkEnd(w))

Spec == Init /\ [][Next]_vars /\ Fairness

-----------------------------------------------------------------------------
(* Properties.                                                             *)

TypeOK ==
  /\ state \in [Works -> WorkStates]
  /\ requestWaiting \in Nat
  /\ loopOk \in BOOLEAN
  /\ ran \in [Works -> BOOLEAN]
  /\ cancelOk \in [Works -> BOOLEAN]
  /\ nstatus \in [Works -> NapiStatus]
  /\ completing \in SUBSET Works /\ Cardinality(completing) <= 1
  /\ deinit \in BOOLEAN
  /\ EP!TypeOK

\* requestWaiting_ counts exactly the submissions whose after-work callback
\* has not yet started: a failed uv_queue_work_with_qos gives its count back,
\* and the count is already gone while complete_ runs (it may queue more).
CounterMatchesOutstanding ==
  requestWaiting = Cardinality(Outstanding)

\* Once complete_ has been called for a submission, Cancel() returned true
\* exactly when complete_ got napi_cancelled, and execute_ ran exactly when
\* it got napi_ok: a cancel racing a pool thread is never both.
CancelAgreesWithStatus ==
  \A w \in Works :
    state[w] = "completed" =>
      /\ (nstatus[w] = "napi_cancelled") = cancelOk[w]
      /\ (nstatus[w] = "napi_ok") = ran[w]

\* Every successfully queued work, cancelled or not, eventually has its
\* complete_ callback called on the loop, unless the engine is destroyed
\* first.
QueuedWorkCompletes ==
  \A w \in Works : state[w] = "queued" ~> w \in completing \/ deinit

\* HandleUncaughtException clears what it reports: whatever scripts, calls
\* into JS and complete_ callbacks the loop runs, in whatever order with the
\* pool, no handler is given the same exception twice.
HandlerSeesExceptionOnce == EP!HandlerSeesExceptionOnce

\* An exception surfaces exactly once, to a single handler: it is not both
\* given to uncaughtExceptionCallback_ and napiUncaughtExceptionCallback_,
\* nor reported and also returned by napi_get_and_clear_last_exception.
ReportedOnce == EP!ReportedOnce

\* An exception that napi_get_and_clear_last_exception clears, called from
\* complete_ or between callbacks, is returned to the native caller and not
\* silently dropped by the conversion of the cleared value.
ClearedIsReturned == EP!ClearedIsReturned


\* The refinement mapping: where a work's uv_work_t is, seen as the spec's
\* Work Item, the waiting-request counter as its outstanding-work counter,
\* and the napi_status complete_ was given as the spec's status.
PhaseOf(w) ==
  CASE state[w] = "queued"    -> "Queued"
    [] state[w] = "executing" -> "Executing"
    [] state[w] = "executed"  -> "Completed"
    [] state[w] = "cancelled" -> "Cancelled"
    [] OTHER                  -> "Idle"

DeliveredOf(w) ==
  CASE nstatus[w] = "napi_ok"        -> "Ok"
    [] nstatus[w] = "napi_cancelled" -> "Cancelled"
    [] nstatus[w] = "none"           -> "None"
    [] OTHER                         -> "Failed"

Bridge == INSTANCE WorkBridge WITH
            phase <- [w \in Works |-> PhaseOf(w)],
            outstanding <- requestWaiting,
            delivered <- [w \in Works |-> DeliveredOf(w)]

\* NativeAsyncWork implements the work item of spec 4.2: Queue and
\* QueueWithQos take a count only for a submission libuv accepted, Cancel
\* succeeds only on a work still queued, execute_ runs only on an uncancelled
\* work, and the after-work callback gives the count back once and passes
\* complete_ napi_cancelled exactly for a cancelled work and napi_ok
\* otherwise, whatever complete_ does with the work and the engine.
RefinesWorkBridge == Bridge!Spec

\* requestWaiting_ counts the requests the loop still owes a callback; the
\* engine deletes its loop only when none is waiting, so no pool thread
\* finishes a work into a deleted loop and no complete_ is lost.
NoRequestOutlivesLoop ==
  deinit => Outstanding = {}

=============================================================================
