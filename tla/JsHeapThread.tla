---------------------------- MODULE JsHeapThread ----------------------------
(***************************************************************************)
(* The heap-leak watchdog of ArkNativeEngine (ark_native_engine.cpp).      *)
(*                                                                         *)
(* The constructor starts JsHeapStart on its own thread when               *)
(* persist.ark.leak.enableproperty is set. The thread sleeps on condition_ *)
(* for a check interval, then, unless needStop_ is set, runs JudgmentDump: *)
(* when the heap is over the threshold it forks a child that dumps a heap  *)
(* snapshot and waits for it with waitpid, giving up after TIME_OUT.       *)
(* The destructor sets needStop_, notifies condition_ (without holding     *)
(* lock_) and joins the thread.                                            *)
(*                                                                         *)
(* Worker engines are created by CreateRuntimeFunc on a host engine: a    *)
(* new EcmaVM, registered with the host's VM (addWorker), and an           *)
(* ArkNativeEngine on it whose cleanEnv_ destroys that VM in ~NativeEngine,  *)
(* after ~ArkNativeEngine has joined the watchdog. DeleteWorker takes the  *)
(* worker's VM off the host's list.                                        *)
(*                                                                         *)
(* Heap sizes, thresholds and clocks are abstracted to the choice of       *)
(* whether a dump is due; the dump child is the environment, and may     *)
(* never exit when ChildMayHang holds.                                     *)
(***************************************************************************)
EXTENDS Naturals

CONSTANTS
  Engines,         \* the ArkNativeEngine instances of the process
  Workers,         \* those created by CreateRuntimeFunc, on a host engine
  EnableProperty,  \* g_enableProperty
  ChildMayHang     \* a dump child may never exit

ASSUME EnableProperty \in BOOLEAN /\ ChildMayHang \in BOOLEAN
ASSUME Workers \subseteq Engines /\ Engines \ Workers # {}

VARIABLES
  threadCreated,  \* per engine: threadJsHeap_ != nullptr
  needStop,       \* per engine: needStop_
  heap,           \* per engine: the watchdog thread's control point
  child,          \* per engine: its forked dump process
  dtor,           \* per engine: unborn, alive, joining, done or crashed
  vm,             \* per engine: its EcmaVM, none, alive or destroyed
  listed,         \* <<host, worker>>: the host's VM lists the worker's (addWorker)
  dumpDue,        \* g_lastHeapDumpTime == 0 or older than the interval
  dumps           \* dumps started since the interval last elapsed

engineVars == <<vm, listed>>

vars == <<threadCreated, needStop, heap, child, dtor, dumpDue, dumps, engineVars>>

Hosts == Engines \ Workers

HeapPcs == {"none", "loopCheck", "enterWait", "waiting", "checkStop",
            "dump", "prepare", "waitpid", "done"}

\* The constructor: std::call_once starts JsHeapStart only when the
\* property is set.
WatchdogStarted == IF EnableProperty THEN "loopCheck" ELSE "none"

\* The host engines are constructed on their VMs; workers are not yet
\* created. No dump has happened yet (g_lastHeapDumpTime == 0).
Init ==
  /\ threadCreated = [e \in Engines |-> EnableProperty /\ e \in Hosts]
  /\ needStop = [e \in Engines |-> FALSE]
  /\ heap = [e \in Engines |-> IF e \in Hosts THEN WatchdogStarted ELSE "none"]
  /\ child = [e \in Engines |-> "none"]
  /\ dtor = [e \in Engines |-> IF e \in Hosts THEN "alive" ELSE "unborn"]
  /\ vm = [e \in Engines |-> IF e \in Hosts THEN "alive" ELSE "none"]
  /\ listed = {}
  /\ dumpDue = TRUE
  /\ dumps = 0

\* A step of engine e's watchdog thread from pc `from` to pc `to`.
Step(e, from, to) ==
  /\ heap[e] = from
  /\ heap' = [heap EXCEPT ![e] = to]

\* while (!needStop_): leave the thread, or go on to take lock_.
LoopCheck(e) ==
  /\ Step(e, "loopCheck", IF needStop[e] THEN "done" ELSE "enterWait")
  /\ UNCHANGED <<threadCreated, needStop, child, dtor, dumpDue, dumps, engineVars>>

\* condition_.wait_for(lock, interval): the thread is now waiting.
EnterWait(e) ==
  /\ Step(e, "enterWait", "waiting")
  /\ UNCHANGED <<threadCreated, needStop, child, dtor, dumpDue, dumps, engineVars>>

\* wait_for returns when the interval has passed (or spuriously); a
\* notify_all wakes it earlier, in Destruct.
WaitTimeout(e) ==
  /\ Step(e, "waiting", "checkStop")
  /\ UNCHANGED <<threadCreated, needStop, child, dtor, dumpDue, dumps, engineVars>>

\* if (needStop_) return; otherwise JudgmentDump(GetHeapLimitSize()).
CheckStop(e) ==
  /\ Step(e, "checkStop", IF needStop[e] THEN "done" ELSE "dump")
  /\ UNCHANGED <<threadCreated, needStop, child, dtor, dumpDue, dumps, engineVars>>

\* JudgmentDump's test: a zero limit or a heap under g_threshold returns;
\* over the threshold it goes on only if g_lastHeapDumpTime is 0 or older
\* than HEAP_DUMP_REPORT_INTERVAL (g_debugLeak is off), and then calls
\* GetHeapPrepare before it records the time.
JudgmentDump(e) ==
  /\ \/ Step(e, "dump", "loopCheck")
     \/ dumpDue /\ Step(e, "dump", "prepare")
  /\ UNCHANGED <<threadCreated, needStop, child, dtor, dumpDue, dumps, engineVars>>

\* g_lastHeapDumpTime = now; then fork(): a failed fork sleeps a check
\* interval and returns, otherwise the thread waits for the child.
ForkDump(e) ==
  /\ dumpDue' = FALSE
  /\ dumps' = dumps + 1
  /\ \/ /\ Step(e, "prepare", "loopCheck")
        /\ UNCHANGED child
     \/ /\ Step(e, "prepare", "waitpid")
        /\ child' = [child EXCEPT ![e] = "running"]
  /\ UNCHANGED <<threadCreated, needStop, dtor, engineVars>>

\* waitpid(pid, &status, 0) blocks until the child exits; it returns early
\* only with an error (a signal, EINTR), and either way the loop breaks.
\* The TIME_OUT test after it is reached only when waitpid returned some
\* other pid, which a blocking waitpid on one pid never does.
WaitpidReturn(e, interrupted) ==
  /\ interrupted \/ child[e] = "exited"
  /\ Step(e, "waitpid", "loopCheck")
  /\ child' = [child EXCEPT ![e] = IF @ = "exited" THEN "none" ELSE @]
  /\ UNCHANGED <<threadCreated, needStop, dtor, dumpDue, dumps, engineVars>>

\* The dump child writes its snapshot and calls _exit(0).
ChildExit(e) ==
  /\ child[e] = "running"
  /\ child' = [child EXCEPT ![e] = "exited"]
  /\ UNCHANGED <<threadCreated, needStop, heap, dtor, dumpDue, dumps, engineVars>>

\* HEAP_DUMP_REPORT_INTERVAL passes since the last recorded dump.
IntervalElapses ==
  /\ ~dumpDue
  /\ dumpDue' = TRUE
  /\ dumps' = 0
  /\ UNCHANGED <<threadCreated, needStop, heap, child, dtor, engineVars>>

\* The notify_all of Destruct: it wakes the thread only if it is waiting.
Notified(e) == [heap EXCEPT ![e] = IF @ = "waiting" THEN "checkStop" ELSE @]

\* The join of Destruct: threadJsHeap_->joinable() on a null threadJsHeap_
\* when no thread was started.
Joining(e) ==
  [dtor EXCEPT ![e] = IF threadCreated[e] THEN "joining" ELSE "crashed"]

\* ~NativeEngine: "if (cleanEnv_ != nullptr) cleanEnv_();". Only a worker
\* engine has one, CreateRuntimeFunc's lambda calling DestroyJSVM(vm).
CleanEnv(e) == [vm EXCEPT ![e] = IF e \in Workers THEN "destroyed" ELSE @]

\* A destructor that releases the worker's VM (cleanEnv_) before it stops
\* and joins the watchdog.
DestructCleansFirst(e) ==
  /\ dtor[e] = "alive"
  /\ needStop' = [needStop EXCEPT ![e] = TRUE]
  /\ heap' = Notified(e)
  /\ dtor' = Joining(e)
  /\ vm' = CleanEnv(e)
  /\ UNCHANGED <<threadCreated, child, dumpDue, dumps, listed>>

DestructNoStop(e) ==
  /\ dtor[e] = "alive"
  /\ heap' = Notified(e)
  /\ dtor' = Joining(e)
  /\ UNCHANGED <<threadCreated, needStop, child, dumpDue, dumps, engineVars>>

\* ~ArkNativeEngine: needStop_ = true; condition_.notify_all(), without
\* holding lock_, so a thread between its while test and wait_for misses
\* it and sleeps its full interval; then the join.
Destruct(e) ==
  /\ dtor[e] = "alive"
  /\ needStop' = [needStop EXCEPT ![e] = TRUE]
  /\ heap' = Notified(e)
  /\ dtor' = Joining(e)
  /\ UNCHANGED <<threadCreated, child, dumpDue, dumps, engineVars>>

\* threadJsHeap_->join() returns once JsHeapStart has returned; the base
\* destructor ~NativeEngine then runs cleanEnv_, which CreateRuntimeFunc
\* set on a worker: DestroyJSVM of the worker's VM.
JoinReturn(e) ==
  /\ dtor[e] = "joining"
  /\ heap[e] = "done"
  /\ dtor' = [dtor EXCEPT ![e] = "done"]
  /\ vm' = CleanEnv(e)
  /\ UNCHANGED <<threadCreated, needStop, heap, child, dumpDue, dumps, listed>>

\* CreateRuntimeFunc(h): CreateJSVM; a null VM returns nullptr before
\* anything is created (a step that changes nothing). Otherwise the new
\* ArkNativeEngine starts its watchdog like any engine, gets the cleanEnv_
\* that destroys its VM, and addWorker registers its VM with the host's.
CreateRuntimeFunc(h, w) ==
  /\ dtor[h] = "alive"
  /\ dtor[w] = "unborn"
  /\ vm' = [vm EXCEPT ![w] = "alive"]
  /\ dtor' = [dtor EXCEPT ![w] = "alive"]
  /\ threadCreated' = [threadCreated EXCEPT ![w] = EnableProperty]
  /\ heap' = [heap EXCEPT ![w] = WatchdogStarted]
  /\ listed' = listed \cup {<<h, w>>}
  /\ UNCHANGED <<needStop, child, dumpDue, dumps>>

\* DeleteWorker(workerEngine) on the host: with a non-null worker engine
\* and VM, JSNApi::DeleteWorker takes the worker's VM off the host's list.
DeleteWorker(h, w) ==
  /\ <<h, w>> \in listed
  /\ dtor[h] = "alive" /\ dtor[w] = "alive"
  /\ listed' = listed \ {<<h, w>>}
  /\ UNCHANGED <<threadCreated, needStop, heap, child, dtor, dumpDue, dumps, vm>>

Watchdog(e) ==
  \/ LoopCheck(e) \/ EnterWait(e) \/ WaitTimeout(e) \/ CheckStop(e)
  \/ JudgmentDump(e) \/ ForkDump(e)
  \/ \E interrupted \in BOOLEAN : WaitpidReturn(e, interrupted)

Next ==
  \/ \E e \in Engines :
       Watchdog(e) \/ ChildExit(e) \/ Destruct(e) \/ JoinReturn(e)
  \/ IntervalElapses
  \/ \E h \in Hosts, w \in Workers : CreateRuntimeFunc(h, w) \/ DeleteWorker(h, w)

(* Each watchdog thread is scheduled, wait_for's interval elapses, and a   *)
(* dump child exits unless ChildMayHang (a child forked from a             *)
(* multithreaded process may block for ever on a lock it inherited held).  *)
(* Nothing forces a signal to interrupt waitpid, an engine to be           *)
(* destroyed, or a day to pass.                                            *)
Fairness ==
  \A e \in Engines :
    /\ WF_vars(LoopCheck(e)) /\ WF_vars(EnterWait(e)) /\ WF_vars(WaitTimeout(e))
    /\ WF_vars(CheckStop(e)) /\ WF_vars(JudgmentDump(e)) /\ WF_vars(ForkDump(e))
    /\ WF_vars(WaitpidReturn(e, FALSE)) /\ (~ChildMayHang => WF_vars(ChildExit(e)))
    /\ WF_vars(JoinReturn(e))

Spec == Init /\ [][Next]_vars /\ Fairness

-----------------------------------------------------------------------------
TypeOK ==
  /\ threadCreated \in [Engines -> BOOLEAN]
  /\ needStop \in [Engines -> BOOLEAN]
  /\ heap \in [Engines -> HeapPcs]
  /\ child \in [Engines -> {"none", "running", "exited"}]
  /\ dtor \in [Engines -> {"unborn", "alive", "joining", "done", "crashed"}]
  /\ vm \in [Engines -> {"none", "alive", "destroyed"}]
  /\ listed \subseteq Hosts \X Workers
  /\ dumpDue \in BOOLEAN
  /\ dumps \in Nat

\* The engine destructor never calls joinable() through a null
\* threadJsHeap_: a watchdog thread exists whenever an engine is torn down.
JoinsExistingThread ==
  \A e \in Engines : dtor[e] # "crashed"

\* Once ~ArkNativeEngine has asked its watchdog to stop, the join returns:
\* neither a missed notify_all nor a heap dump in progress blocks engine
\* destruction for ever.
DestructorJoins ==
  \A e \in Engines : dtor[e] = "joining" ~> dtor[e] = "done"

\* The watchdog reads its engine's VM (GetHeapLimitSize, GetHeapUsedSize,
\* GetHeapPrepare) until JsHeapStart returns: ~ArkNativeEngine joins it
\* before ~NativeEngine's cleanEnv_ destroys a worker's VM, so no watchdog
\* is still running on a destroyed VM, whatever the watchdog was doing
\* (waiting, dumping, in waitpid) when its engine was deleted.
WatchdogNeverOutlivesVm ==
  \A e \in Engines : vm[e] = "destroyed" => heap[e] \in {"none", "done"}

\* g_lastHeapDumpTime rate-limits heap dumps: the watchdogs of all engines
\* together start at most one dump per HEAP_DUMP_REPORT_INTERVAL.
DumpRateLimited ==
  dumps <= 1

=============================================================================
