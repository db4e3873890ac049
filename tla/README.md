# TLA+ models of the ArkUI N-API bridge (arkui_napi)

This directory holds TLA+ models of the concurrency and lifecycle logic of
the N-API engine in `src/native_engine`. Each model is checked with TLC.
Each module models one component. Each `MC_*` module fixes the constants
as model values. Each `.cfg` file is one TLC run. `PROJECT.json` lists the
components, the runs, the mutants each property must catch, the map from
each definition to the source lines it translates, the findings and the
hazards.

## 1. Inventory

### Components and how they interact

| Component | Source | State | Operations | Concurrency |
|---|---|---|---|---|
| Reference bridge | `impl/ark/ark_native_reference.cpp` | `value_` (a Global that is strong, weak or empty), `refCount_`, `deleteSelf_`, `hasDelete_`, `finalRun_`, the callbacks | ctor, dtor, `Ref`, `Unref`, `Get`, `SetDeleteSelf`, `FinalizeCallback`, `FreeGlobalCallBack`, `NativeFinalizeCallBack` | The JS thread against the collector. The collector empties weak Globals during GC and runs native finalizers afterwards. The reference manager deletes registered references at `Deinit`. |
| Async work | `native_async_work.cpp`, `native_engine.h` (`requestWaiting_`) | the libuv request, the engine's waiting-request counter | `Queue`, `QueueWithQos`, `Cancel`, `AsyncWorkCallback` (pool thread), `AsyncAfterWorkCallback` (loop thread) | The JS thread, the libuv pool threads and the loop's done queue |
| Uncaught exceptions | `ark_native_engine.cpp` 494-545, 761-978, 1546-1573, `native_engine.h` `TryCatch`, `native_engine.cpp` 203-208 | the two handlers, `lastException_`, the VM's pending exception | register either handler, `Throw`, the script runners, `CallFunction`, `CreateInstance`, `ExecuteJsBin`, property definition, `HandleUncaughtException`, `~TryCatch`, `GetAndClearLastException` | The JS thread; the loop thread's after-work callback runs on the same thread |
| Idle monitor window | `impl/ark/ark_idle_monitor.h` `RingBuffer` | `elements_`, `start_`, `count_` | `Push`, `Reset`, `Sum` | Sequential (used by the monitor's timer) |
| Idle monitor heuristic | `ark_idle_monitor.h` (atomics and constants only; the `.cpp` is not in the repository) | idle counters, timestamps, the trigger flags | idle start/end notifications, the interval check | The looper thread against a timer thread, through relaxed atomics |
| Engine facade and UV check thread | `native_engine.cpp` | `loop_`, `checkUVLoop_` (plain bool), `uvSem_`, `uvThread_`, `referenceManager_` | `Init`, `Deinit`, `Loop`, `CheckUVLoop`, `CancelCheckUVLoop`, `UVThreadRunner`, `PostLoopTask` | The UV check thread and the JS thread, through a semaphore |
| Heap leak watchdog | `ark_native_engine.cpp` 120-131, 317-340, 1641-1700 | `needStop_`, `condition_`, `threadJsHeap_` | thread start in the ctor, `JsHeapStart`, `JudgmentDump` (fork/waitpid), stop in the dtor | The watchdog thread against the engine destructor |
| Last-error table | `native_engine.cpp` 182-196 | `lastError_` | `SetLastError`, `ClearLastError` | Sequential |
| Module loaders | `ark_native_engine.cpp` 102-111 (`MoudleNameLocker`), 148-292 (`requireNapi`, `requireInternal` lambdas), 546-633 (`GetModuleFromName`, `LoadModuleByName`) | `loadedModules_` (module → exports), the static `tempModuleName_` | the four loaders, a module's init requiring others | The JS thread; nested requires form a call stack |
| Native function trampoline | `ark_native_engine.cpp` 371-426 (`ArkNativeFunctionCallBack`) | `cbInfo.argv` and its heap array | copy the arguments, call the callback, free the array | The JS thread; a callback may call back into JS and so into another native function |
| Promise-rejection tracker | `ark_native_engine.cpp` 317-331, 1262-1307, `ark_native_engine.h` 241-259 | `promiseRejectCallbackRef_`, `checkCallbackRef_` (two `NativeReference*`) | `SetPromiseRejectCallback`, the two setters, `PromiseRejectCallback` (VM callback), the deletes in the destructor | The JS thread; the VM calls back on it |
| Deferred, interop accessors, tests | `ark_native_deferred.cpp`, `ark_interop_object.cpp`, `test_ark_interop.cpp` | — | forwarders to the VM | — |

### The hard behaviours

* **A finalizer that runs after the GC.** `FreeGlobalCallBack` empties
  `value_` during the collection. `NativeFinalizeCallBack` is queued and
  runs later. A delete in between takes the early return at
  `ark_native_reference.cpp:71`.
* **Ownership that depends on a flag.** A `deleteSelf` reference deletes
  itself from `FinalizeCallback`, but not when that call comes from its own
  destructor (`hasDelete_`). It is registered with the manager only if it
  was self-deleting at construction.
* **Keeping a counter in step with libuv.** The waiting-request counter is
  raised before `uv_queue_work` and lowered on failure. It is lowered again
  in the after-work callback, before `complete_` runs, because `complete_`
  may queue more work.
* **Cancel racing a pool thread.** `uv_cancel` succeeds only while the
  work is still queued. `complete_` must then see `napi_cancelled`.
* **A ring buffer's sum that ignores `start_`.** This is sound only while
  `start_ == 0` until the buffer is full. That condition is an `ASSERT`,
  which release builds drop.
* **A semaphore hand-off and a plain-bool stop flag** between the UV check
  thread and the JS thread.
* **A condition-variable stop without the lock** in the watchdog.

The hazards are listed at their lines in `PROJECT.json`, with the
properties that cover them.

## 2. Modules and what they model

### `NapiReference` (reference bridge, engine teardown)

**State.** One record per reference in `Refs`:
* `st`: unborn, alive or freed.
* `rc`: `refCount_`.
* `handle`: the Global `value_`, which is strong, weak or empty.
* `fin`: a finalizer is set.
* `armed`: the weak callback is registered on the Global.
* `finalRun`: `finalRun_`.
* `deleteSelf`: `deleteSelf_`.
* `calls`: the number of user-finalizer runs, kept as history.

The other variables are `registry` (the reference manager's handlers),
`managerAlive`, and `pending`, the references whose
`NativeFinalizeCallBack` the collector has queued.

**Actions.**
* `Create` is the constructor, including `SetWeakCallback` when
  `initialRefcount == 0` and `CreateHandler` when `deleteSelf`.
* `Ref` and `Unref` are the methods of the same names, with the
  `refCount_ == 0` and `value_.IsEmpty()` guards of `Unref`.
* `SetDeleteSelf` is the method of that name. Its guard that the finalizer
  has not run yet is a contract on the caller (`napi_delete_reference`,
  outside `src/`), not a test in this file.
* `Delete` is an unconditional `delete ref` (the spec's `Destroy()`,
  whatever `GetFinalRun()` says) through `Destruct`,
  which is the whole destructor: `ReleaseHandler`, the early return when
  `value_` is empty, then `hasDelete_`, the free and the finalizer.
* `CollectWeak` is one GC. Every weak Global is emptied
  (`FreeGlobalCallBack`) and its native finalizer is queued.
* `RunNativeFinalize` is one queued `NativeFinalizeCallBack`. It runs
  `FinalizeCallback` with its `delete this`. When `FinalizerMayDelete`
  holds, the user finalizer may delete one other reference.
* `Teardown` is `Deinit` deleting the reference manager, which destroys
  every registered reference.

* The promise-rejection tracker: `rejectRef` and `checkRef` are
  `promiseRejectCallbackRef_` and `checkCallbackRef_` (`NoRef` for
  nullptr), `tracker` is whether the VM's tracker is enabled, and `faults`
  records what went wrong (history). `SetPromiseRejectCallback` stores two
  references and enables the tracker; `SetPromiseRejectCallBackRef` and
  `SetCheckCallbackRef` overwrite one pointer without deleting the old
  reference; `PromiseRejectCallback(op)` calls `Get()` on the reject
  reference, and for a reject also on the check reference, with no null
  test (`GetFaults`: a freed reference or an empty handle). `Teardown`
  ends with the destructor's `delete` of both stored references
  (`DeletePromiseRefs`), which deletes a reference already freed.

User actions need the engine alive and no queued finalizers: the JS thread
does not run while the collector's finalizer loop runs.

**Fairness.** After a collection the VM runs the native finalizers it
queued before the JS thread runs anything else. A queued
`NativeFinalizeCallBack` that stays runnable is therefore run: weak
fairness on `RunNativeFinalize`. The native caller's calls and the
collections are the environment's choice and get no fairness.

### `AsyncWork` (async work and the uncaught-exception path)

**State.**
* `state`: each work's position: created, queued, executing, executed,
  cancelled, completed (its after-work callback has started) or deleted.
* `completing`: the work whose `complete_` is running, if any. It is kept
  apart from `state` because `complete_` may queue or delete its own work
  while it runs.
* `requestWaiting`: the engine counter.
* `loopOk`: whether `GetUVLoop()` is non-null. It is chosen once in
  `Init`.
* `ran` and `cancelOk`: history of what execute and cancel did.
* `nstatus`: the status passed to `complete_`.
* the variables of `ExceptionPath` (below), through `EP == INSTANCE
  ExceptionPath`: the loop thread's after-work callback and the JS calls
  act on the same pending exception and handlers.

**Actions.**
* `Create` is the `NativeAsyncWork` constructor (state `none` to
  `created`); `Cancel` is only possible on a created, not deleted work.
* `Delete` is `napi_delete_async_work`, the work's (default) destructor. It
  is allowed when the work is not in flight, also from inside its own
  `complete_`.
* `Queue` and `QueueWithQos` share `Submit`, the code of both methods,
  including the rollback on a failed submission. `QueueWithQos` may fail
  with `UV_EINVAL`.
* `Cancel` is `uv_cancel` on the request.
* `WorkerStart` and `WorkerDone` are `AsyncWorkCallback` on a pool thread.
  At most `PoolSize` works execute at once.
* `AfterWorkBegin` is `AsyncAfterWorkCallback` up to and including
  `complete_`. `complete_` is JS-thread code: between `AfterWorkBegin`
  and `AfterWorkEnd` any `EngineCall` may run, as the callback's own
  calls into the engine.
* `AfterWorkEnd` is `EP!TryCatchEnd`: the `TryCatch` check,
  `HandleUncaughtException`, and `~TryCatch` storing what is still pending
  in `lastException_`. It leaves the work alone, as the code's comment
  "Don't use that after complete" requires.
* `EngineCall` is `EP!JsCalls`: the engine methods called on the JS thread.
  It is a choice among the actions of `ExceptionPath`, which carry the map
  entries, and has none of its own.
* `Deinit` is `~ArkNativeEngine` calling `NativeEngine::Deinit`, which
  deletes the loop without looking at `requestWaiting_` (`deinit`).
  Afterwards the JS thread and the loop do nothing more, while the pool
  threads go on with the works they hold (`EngineDestroyed` is the
  stuttering that follows). `QueuedWorkCompletes` holds unless the engine
  is destroyed first.

**Fairness.** Pool threads and the loop are assumed to make progress. The
libuv work queue and done queue are FIFO, so a work that stays ready is
eventually taken. This justifies strong fairness on `WorkerStart` and
`AfterWorkBegin`, and weak fairness on the two completion steps. The JS
thread's calls are user actions and carry no fairness.

### `WorkBridge` (abstract spec) and the refinement by `AsyncWork`

`WorkBridge` is the Work Item of spec sections 3 and 4.2, written from
the spec. A work goes Idle, Queued, Executing, Completed, or from Queued
to Cancelled, and never from Executing to Cancelled. `outstanding` is the
counter token, taken by `Enqueue` and given back by `Deliver`, which
records the status `complete` gets (Ok or Cancelled). `AsyncWork` maps
onto it:
* `PhaseOf` maps `queued`, `executing`, `executed` and `cancelled` to
  Queued, Executing, Completed and Cancelled, and every other state
  (none, created, completed, deleted) to Idle;
* `requestWaiting` maps to `outstanding`;
* `DeliveredOf` maps `nstatus` to the spec's status.
`RefinesWorkBridge == Bridge!Spec` is checked as a property. Create,
Delete, failed submissions, refused cancels, `AfterWorkEnd`, the
exception steps and teardown are stuttering steps of the abstract spec.

### `UVLoopCheck` (the UV loop check thread)

**State.**
* `checkUVLoop`: `checkUVLoop_`.
* `sem`: the count of `uvSem_`.
* `runner`: the check thread's control point. It is one of `none`,
  `post` (about to call `PostLoopTask`), `wait` (in `uv_sem_wait`), `loop`
  (the while condition), `epoll` (in `epoll_wait`) and `exited`.
* `js`: the JS thread, either free or blocked in `uv_thread_join`.
* `queue`: the host's task queue behind `postTask_`. Each task carries its
  `needSync` argument.
* `loopTask`: the `Loop` call the JS thread is inside.
* `cycles`: the number of `CheckUVLoop` calls, bounded by `MaxCycles`.
* `deinit`: `Deinit` has run, so `uvSem_` is destroyed and `loop_` deleted.

**Actions.**
* `CheckUVLoop`, `CancelCheckUVLoop` (the flag, `uv_async_send`,
  `uv_sem_post`) and `JoinReturn` run on the JS thread.
* `PostLoopTask`, `SemWaitReturn`, `LoopCondition` and `EpollReturn` are
  `UVThreadRunner`'s steps.
* `LoopEnter` and `LoopExit` are the host running `Loop(mode, needSync)`:
  `uv_run`, then the `uv_sem_post` when `needSync`.
* `TriggerPostTask` posts a task with `needSync = false`.
* `Deinit` is `NativeEngine::Deinit`, called by `~ArkNativeEngine` on the
  JS thread. It neither clears the flag nor joins the thread. After it no
  action of the engine is enabled, and `Destroyed` lets the behaviour stutter.
  `CheckThreadJoinedAtDeinit` (extra cfg `UVLoopCheckDeinit.cfg`) is
  violated by `CheckUVLoop` followed by `Deinit`: an embedder must cancel
  the check before it destroys the engine. Nothing under `src/` enforces this.

**Reads of the flag.** `checkUVLoop_` is a plain bool, so its cross-thread
reads are a data race. Here each read returns the value of the last write.
There are only opaque calls between the runner's reads, so the compiler
cannot hoist the load, and the syscalls order the accesses.

**Fairness.** Both threads get weak fairness on their steps. `epoll_wait`
is assumed to return only after a cancel. The cancel's `uv_async_send`
leaves the fd readable, and the JS thread, blocked in the join, cannot
consume it.

### `JsHeapThread` (the heap leak watchdog and worker engines)

**State.** Each engine in `Engines` has:
* `threadCreated`: `threadJsHeap_ != nullptr`.
* `needStop`: `needStop_`.
* `heap`: the watchdog's control point. It is one of `loopCheck` (the
  while test), `enterWait`, `waiting` (in `wait_for`), `checkStop`, `dump`
  (JudgmentDump's test), `prepare` (after `GetHeapPrepare`), `waitpid` and
  `done`.
* `child`: the forked dump process.
* `dtor`: the destructor's progress; `unborn` for a worker engine not yet
  created.
* `vm`: the engine's EcmaVM (none, alive or destroyed).

`listed` holds the pairs (host, worker) whose worker VM the host's VM
lists (`addWorker`). `Workers` are the engines created at run time on a
host; the other engines exist from the start.

Two variables stand for the shared static `g_lastHeapDumpTime`:
* `dumpDue`: a dump is allowed now.
* `dumps`: the dumps started in the current interval.

Heap sizes, thresholds and clocks reduce to a choice: whether a dump is
needed, and whether the report interval has passed (`IntervalElapses`).

**Actions.**
* The watchdog's steps translate `JsHeapStart` and `JudgmentDump`.
* `WaitpidReturn` is the blocking `waitpid`. It returns when the child
  exits, or on an error such as `EINTR`.
* `Destruct` is the destructor. It sets `needStop_`, then `notify_all`,
  which wakes the thread only if it is already waiting, because `lock_` is
  not held. Then it calls `joinable()`.
* `JoinReturn` is the join returning and the rest of the destruction: the
  base destructor `~NativeEngine` runs `cleanEnv_` (`CleanEnv`), which
  destroys a worker's VM.
* `CreateRuntimeFunc(h, w)` creates worker `w` on host `h`: a new VM, an
  `ArkNativeEngine` on it that starts its watchdog, the `cleanEnv_` lambda,
  and `addWorker`. A null VM from `CreateJSVM` returns before anything is
  created, which is a step that changes nothing.
* `DeleteWorker(h, w)` is the host's `DeleteWorker`, taking the worker's
  VM off the host's list.

**Fairness.** Weak fairness on the watchdog's steps, on the timed wait and
on the dump child's exit unless `ChildMayHang` (a child that never exits is
one whose exit is not fair). None on signals, on engine destruction or on
time passing.

**Symmetry.** The two-engine liveness run has no symmetry, because symmetry
is unsound for liveness checking.

### `SlidingWindow` (abstract spec) and `IdleRingBuffer`

`SlidingWindow` is the spec's promise for the idle monitor's recent-sample
window: it keeps the last `Capacity` values in order, and `Reset` empties
it.

`IdleRingBuffer` is `ArkIdleMonitor::RingBuffer` with its three fields.
`elements_` starts as any array, because the array is uninitialized.
* `Push` is the method, with the wrap of `start_` at capacity.
* `Reset` is the method.
* `Sum` is the method's fold over indices `0..count_-1`, written as a
  RECURSIVE operator.

The refinement mapping reads the live window from `start_` for `count_`
slots. `Abs == INSTANCE SlidingWindow WITH window <- Window` is checked as a
PROPERTY.

### `ExceptionPath` (the uncaught-exception path)

Instantiated by `AsyncWork`; it has no run of its own.
* `pending` is the VM's pending exception (at most one; exceptions are
  model values, each raised once); `uncaughtCb` and `napiCb` say whether
  the two handlers are registered; `lastException` is `lastException_`.
* `reportsU`, `reportsN` (calls of each handler per exception),
  `taken` (what `GetAndClearLastException` cleared) and `fetched` (what it
  returned) are history.
* `Converted` is the set of exception values `ArkValueToNativeValue`
  converts: thrown null, undefined or symbols. Its branches for every
  other kind (objects, numbers, strings, ...) are commented out, so it
  returns nullptr for an `Error` object.
* `Handle(p)` is `HandleUncaughtException`: with no handler it returns and
  leaves `p` pending; otherwise it clears the exception and gives it to
  each registered handler in turn.
* `RunScript` is `RunScriptBuffer`, which handles what is pending
  afterwards. `RunScriptPath`, `RunBufferScript` and `RunActor` have the
  same control (execute, then `HandleUncaughtException` if an exception is
  pending) and are the same action;
  `CallFunction`, `CreateInstance` and `ExecuteJsBin` leave it pending; `Throw` replaces
  it; `DefineProperty` clears it, whether or not the define raised;
  `GetAndClearLastException` clears it and returns
  `ArkValueToNativeValue` of it; `TryCatchEnd` is the end of the
  after-work `TryCatch`.

### `ModuleRequire` (the module loaders and their export cache)

The two lambdas the `ArkNativeEngine` constructor installs as
`requireNapi` and `requireInternal`.
* `Kind[m]` is what `LoadNativeModule` returns for `m`: a module with a
  `registerCallback`, one with JS code (`jsCode` or `getABCCode`), one with
  neither, or `nullptr`. `Deps[m]` is what `m`'s init requires.
* `cache` is `loadedModules_`; `stack` is the call stack of inits in
  progress, each with the requires it has still to make; `inits` counts the
  inits of each module that ran and did not fail.
* `RequireNapiCall` is the lambda's body: `nullptr` or a cache hit returns
  at once, a module with code pushes its init. `RequireInternal` does the
  same but calls `registerCallback` unchecked (`fault = "nullcall"` when
  there is none). `RequireDep` is a nested `requireNapi` from the init on
  top. `FinishInit` is the return of `registerCallback` or of
  `LoadArkModule`: the exports are cached, or, for a failed JS load,
  undefined is returned and nothing is cached. `LoadArkModule` also
  returns nullptr when the execution succeeded but `ArkValueToNativeValue`
  does not convert the default export: `ExportConverted` names the JS
  modules whose default export it converts (undefined or a symbol).
* `LoadByName` is `GetModuleFromName` and `LoadModuleByName`: the
  `registerCallback` runs unchecked on fresh exports, which are never
  cached.
* A push beyond `MaxDepth` is the native stack running out
  (`fault = "overflow"`).
* `tempName` is `tempModuleName_`. `PushInit` is the `MoudleNameLocker`
  constructor naming the module; every return from an init, and the
  loaders' early returns after a locker, clear it.

### `NativeFunctionCall` (the native function trampoline)

`ArkNativeFunctionCallBack`, which the VM calls for every function that
`NapiNativeCreateFunction` made.
* `frames` is the stack of native calls in progress, each with its `argc`,
  its `argv` (`"none"` for nullptr, `"heap"` for `new napi_value[argc]`),
  the arguments copied so far and whether the callback is running. A
  callback may call JS that calls another native function, so `Invoke` is
  enabled when the stack is empty or its top is in its callback.
* `Invoke(n)` is the entry: `argv = nullptr`, then `new[]` only when
  `argc > MAX_CHUNK_ARRAY_SIZE`. `CopyArg` is one iteration of the copy
  loop; a store through a null `argv` sets `fault`, after which nothing
  runs (a segmentation fault). `CallReturn` is the callback returning and
  the cleanup: `delete[]` when `argc > MAX_CHUNK_ARRAY_SIZE`.
* `live` counts the arrays `new[]` handed out and `delete[]` has not taken
  back.

## 3. Runs

| Run | Module / cfg | Expect | What it shows |
|---|---|---|---|
| `reference_lifecycle` | `MC_NapiReference` / `NapiReference.cfg` | pass | Two references and refcounts up to 2, under every interleaving of the operations above, with finalizers that do not delete other references. The properties: strength follows the count (`StrengthMatchesCount`); every freed reference with a finalizer ran it exactly once (`FinalizedExactlyOnce`); a self-deleting reference is gone once its finalizer ran (`SelfOwnedGoneAfterFinalize`); an emptied handle never becomes live again (`NoResurrection`); a reference whose value the collector took always has its finalizer run, and is freed if it owns its deletion (`CollectedIsFinalized`, liveness). |
| `reference_finalizer_deletes` | `NapiReferenceDangling.cfg` | violation | A finalizer deletes another reference collected by the same GC. That reference is freed with its finalizer still queued (`NoDanglingFinalize`), which is a use after free. |
| `async_work` | `MC_AsyncWork` / `AsyncWork.cfg` | pass | Two works contending for one pool thread; `complete_` may queue or delete its own work or the other one. The counter equals the number of outstanding requests in every state (`CounterMatchesOutstanding`). `complete_` gets `napi_cancelled` exactly when the cancel succeeded, and `napi_ok` exactly when execute ran (`CancelAgreesWithStatus`). Every queued work has its `complete_` called (`QueuedWorkCompletes`). With one handler registered at any time, scripts, calls, throws and completions never give it the same exception twice (`HandlerSeesExceptionOnce`). The work bridge implements the spec's Work Item (`RefinesWorkBridge`). |
| `async_work_both_handlers` | `AsyncWorkBothHandlers.cfg` | violation | With both handlers registered, `HandleUncaughtException` gives one exception to `uncaughtExceptionCallback_` and then to `napiUncaughtExceptionCallback_` (`ReportedOnce`). |
| `uv_loop_check` | `MC_UVLoopCheck` / `UVLoopCheck.cfg` | pass | One check/cancel cycle, with up to three `TriggerPostTask` tasks interleaved. The runner is never in `epoll_wait` while a task it posted is queued or running (`RunnerWaitsForItsTask`). `uvSem_` stays within two posts per cycle (`TypeOK`). The cancel's join returns (`CancelReturns`). |
| `uv_loop_check_restart` | `UVLoopCheckRestart.cfg` | violation | In a second cycle after a cancel, the runner's first `uv_sem_wait` consumes a post left over from the first cycle. The runner then polls while its own task is still queued. |
| `heap_watchdog` | `MC_JsHeapThread` / `JsHeapThread.cfg` | pass | A host engine and a worker engine it creates, with dump children that always exit, failed forks and interrupted waits. Every destructor's join returns (`DestructorJoins`), including when the notify is missed. No watchdog is still running when `cleanEnv_` destroys the worker's VM (`WatchdogNeverOutlivesVm`). |
| `heap_watchdog_hung_dump` | `JsHeapThreadHang.cfg` | violation | A child that never exits blocks the watchdog in `waitpid`, and so blocks the destructor's join. |
| `module_require` | `MC_ModuleRequire` / `ModuleRequire.cfg` | pass | A diamond of five modules (two JS, two native, one empty), both loaders at top level in any order, failed JS loads. No module's init runs twice (`ExportsInitialisedOnce`). Deadlock is not checked: a `requireInternal` of a module without `registerCallback` ends the process. |
| `native_function_call` | `MC_NativeFunctionCall` / `NativeFunctionCall.cfg` | pass | Calls with 0, 11 or 12 arguments nested three deep: every array `new[]` allocated belongs to a call in progress and is freed when that call returns (`ArgvNotLeaked`). |
| `native_function_call_small` | `NativeFunctionCallSmall.cfg` | violation | A call with one argument stores it through the null `argv` (`ArgsStoredInArgv`). |
| `idle_ringbuffer` | `MC_IdleRingBuffer` / `IdleRingBuffer.cfg` | pass | With `N = 5` (`IDLE_CHECK_INTERVAL_LENGTH`) and sample values 0..2, `Sum` equals the sum of the abstract window (`SumMatchesWindow`), and the buffer implements `SlidingWindow` (`RefinesSlidingWindow`). |

### Why the bounds are enough

* **`NapiReference`.** The passing run has two references: one can be
  collected while the other is held, and both can be the two promise
  callback references. It uses no symmetry, so the liveness property is
  checked soundly (72,518 states in about 20 s). The violation
  configurations keep three references under symmetry: a third reference
  lets a finalizer delete a reference collected in the same GC while
  another stays strong. `MaxRefCount = 2` covers the transitions 0→1,
  1→2, 2→1 and 1→0.
* **`AsyncWork`.** Two works on one pool thread make the pool full while
  the other work waits, so a cancel can race a start. Each work's
  `complete_` can act on itself and on the other work. The
  violation configurations keep three works on two threads. With
  `complete_` free to queue and delete works, the kept run with three
  works takes ten minutes, mostly in the liveness check. One exception (`Exc =
  {x1}`) is enough for the exception path: each exception is raised once,
  and the properties are about one exception being reported or cleared
  twice; a second one only multiplies the states.
* **`UVLoopCheck`.** One cycle lets the cancel land at every step of the
  runner. `MaxQueue = 3` lets trigger tasks fill the queue around the
  runner's task. Two cycles are the least that show the left-over post.
* **`JsHeapThread`.** Two engines are the least that share
  `g_lastHeapDumpTime`. In the passing run the second is a worker, created
  at any point of the host watchdog's cycle and deleted at any point of
  its own. One engine is enough for the per-thread questions. The
  violation configurations have no workers (`NoWorkers`).
* **`ModuleRequire`.** The diamond reaches a module (d) by two paths, so
  the second path meets the cache; `MaxDepth = 4` exceeds the diamond's
  depth of three, and in the cycle it is where the recursion is cut.
* **`NativeFunctionCall`.** 11 and 12 arguments are the smallest counts
  that take the heap branch, and 0 the call without arguments; three
  nested calls let an inner call return while outer arrays are live.
* **`IdleRingBuffer`.** The buffer wraps several times within the explored
  depth, and every value of `start_` is reached.

Every property of a passing run has a mutant in `PROJECT.json`. A mutant is
a plausible bug in the modelled code, and it makes TLC report that
property violated.

## 4. Findings

Each of these is a violation run of `PROJECT.json`:

1. **`ark_native_reference.cpp:71`, use after free.** A native finalizer
   can delete another reference whose Global was freed in the same GC.
   That reference's destructor returns early: it skips the finalizer and
   frees the object, whose `NativeFinalizeCallBack` is still queued.
2. **`ark_native_engine.cpp:1569`.** `HandleUncaughtException` gives
   the same exception to both registered handlers, one after the other.
   The second test is a separate `if`, not an `else if`. The spec says an
   uncaught exception goes to a single registered handler and surfaces
   exactly once; with both handlers installed it surfaces twice.
3. **`native_engine.cpp:241`.** `CancelCheckUVLoop` can leave a post
   on `uvSem_`, either its own or the late one of the runner's last task.
   A restarted check thread then polls the loop without waiting for the
   task it posted.
4. **`ark_native_engine.cpp:1667`.** The blocking `waitpid` makes the
   20 s `TIME_OUT` kill unreachable. A hung dump child hangs engine
   destruction.
5. **`ark_native_engine.cpp:396`, null store.** `ArkNativeFunctionCallBack`
   sets `argv` to nullptr and allocates only above
   `MAX_CHUNK_ARRAY_SIZE`; every call with 1 to 10 arguments stores them
   through the null pointer.

These are found by the extra configurations kept beside the modules, which
are not runs of `PROJECT.json` (each is reported at once by TLC):

* **`ark_native_reference.cpp:156`** (`NapiReferenceTeardown.cfg`,
  `TeardownFreesSelfOwned`). `SetDeleteSelf` does not register the
  reference with the reference manager. It is not torn down at `Deinit`,
  and its destructor calls `ReleaseHandler` for a handler that was never
  created.
* **`ark_native_engine.cpp:109`** (`ModuleRequireName.cfg`,
  `ModuleNameDuringInit`). `MoudleNameLocker`'s destructor clears
  `tempModuleName_` instead of restoring the outer name. After a nested
  require returns, or after a `requireNapi` of a module with neither code
  nor callback, the outer init runs with no module named.
* **`native_engine.cpp:84`** (`UVLoopCheckDeinit.cfg`,
  `CheckThreadJoinedAtDeinit`). `Deinit` destroys `uvSem_` and deletes the
  loop without stopping a running check thread.
* **`ark_native_engine.cpp:336`** (`JsHeapThreadDisabled.cfg`,
  `JoinsExistingThread`). The destructor dereferences a null
  `threadJsHeap_` when `persist.ark.leak.enableproperty` is false.
* **`ark_native_engine.cpp:1653`** (`JsHeapThreadDumpRace.cfg`,
  `DumpRateLimited`). The rate limit on heap dumps is a check-then-act on
  a process-wide static. Watchdogs of two engines can both dump in the
  same interval.
* **`ark_native_engine.cpp:238`** (`ModuleRequireCycle.cfg`,
  `ExportsInitialisedOnce`). `requireNapi` caches a module's exports only
  after its init returns. A cycle of requires between module inits
  re-runs the first init without end.
* **`native_engine.cpp:87`** (`AsyncWorkDeinit.cfg`,
  `NoRequestOutlivesLoop`). `Deinit` deletes the loop with no test of
  `requestWaiting_`. An engine destroyed after `Queue` leaves the work to
  a pool thread that finishes it into a deleted loop, and its `complete_`
  never runs.
* **`ark_native_engine.cpp:1152`** (`ModuleRequireObjectExport.cfg`,
  `ExportsInitialisedOnce`). `LoadArkModule` returns nullptr for a JS
  module whose default export is an object, because
  `ArkValueToNativeValue` converts only null, undefined and symbols.
  `requireNapi` then returns undefined and caches nothing, so each
  require of such a module executes its code again. The kept run
  `module_require` uses default exports the conversion keeps.
* **`ark_native_engine.cpp:941`** (`AsyncWorkLostException.cfg`,
  `ClearedIsReturned`). For the same reason `GetAndClearLastException`
  clears a thrown `Error` object and returns nullptr. The native caller
  sees no exception and the exception is lost. Both uncaught-exception
  handlers likewise receive nullptr for an object exception.
* **`ark_native_engine.cpp:1297`** (`NapiReferencePromiseGet.cfg`,
  `PromiseRejectGetIsLive`). `PromiseRejectCallback` calls `Get()` on the
  stored references without a null test. After the application deletes
  the reject callback's reference, the next rejection uses a freed
  reference.
* **`ark_native_engine.cpp:327`** (`NapiReferencePromiseDelete.cfg`,
  `PromiseRefsDeletedOnce`). The destructor deletes
  `promiseRejectCallbackRef_` and `checkCallbackRef_` after the reference
  manager has already destroyed the registered references. A stored
  delete-self reference is deleted twice. `SetPromiseRejectCallBackRef`
  overwrites the pointer without deleting the old reference, which leaks.
* **`ark_native_engine.cpp:283`** (`ModuleRequireInternal.cfg`,
  `RegisterCallbackPresent`). `requireInternal` calls `registerCallback`
  without the null test `requireNapi` makes.

## 5. Plan for later work

1. **Two engines with separate loops**, in `AsyncWork`, to show that a
   worker engine's teardown leaves the host's works alone.
2. **Worker engines beyond the watchdog.** `JsHeapThread` now creates and
   deletes a worker engine and checks its watchdog against `cleanEnv_`.
   What is left is the static `tempModuleName_` that engines share, and the
   worker callback setters (`SetGetAssetFunc` and its kin), which only
   store function pointers for code outside `src/`.

## 6. Not modelled

* **The last-error table** (`native_engine.cpp` 182-196). `SetLastError`
  indexes `g_errorMessages` (21 entries) by the caller's `napi_status`
  without a bound check. The status values and every caller are outside
  `src/`, so nothing here decides which indices arrive.
* **`GetSourceCodeInfo`'s caret** (`ark_native_engine.cpp:1237`). A column
  of 0 wraps `column - 1` to 2^32-1. The position comes from the VM, outside
  `src/`, and the function only formats a string with no state to model.
* **The idle monitor heuristic** (`ArkIdleMonitor`'s notifications,
  interval check and GC trigger). Its code is in `ark_idle_monitor.cpp`,
  which is not in the repository. The spec cannot stand in for it, because
  it contradicts itself. Section 4.3 has `NotifyLooperIdleEnd` record into
  the sample window, while step 3 of the check sums notification counts.
  Section 5 says the timer tick only reads the atomics, yet it also resets
  the counters when it triggers. A model would have to pick one reading
  with nothing to decide between them. Only the window it uses
  (`RingBuffer`) is modelled.
* **The module manager** behind `LoadNativeModule`: the loaders see only
  what it returns, which `Kind` enumerates.
* **`ReinitUVLoop` and the cleanup hooks** (`AddCleanupHook`,
  `RemoveCleanupHook`). They are declared in `native_engine.h`, but no
  definition is under `src/`.
* **Worker runtimes** (`CreateRuntimeFunc`, `DeleteWorker`): they create
  and destroy whole VMs through the VM's API.
* **`ArkNativeDeferred` and the interop accessors.** They forward to the
  VM and have no control of their own.
* **Unit tests.**
* **Formatting, tracing and logging** are left out of every action.
