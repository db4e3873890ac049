----------------------------- MODULE UVLoopCheck -----------------------------
(***************************************************************************)
(* The UV loop check thread of NativeEngine (native_engine.cpp).           *)
(*                                                                         *)
(* CheckUVLoop starts a thread (UVThreadRunner) that polls the loop's      *)
(* backend fd and, when it becomes ready, posts a task to the JS thread    *)
(* (postTask_(true)) and waits on uvSem_ until that task has run the loop  *)
(* (Loop(mode, needSync = TRUE) ends with uv_sem_post). TriggerPostTask     *)
(* posts loop tasks that do not post the semaphore. CancelCheckUVLoop      *)
(* clears checkUVLoop_, wakes epoll with uv_async_send, posts uvSem_ once  *)
(* in case the runner is waiting, and joins the thread.                    *)
(*                                                                         *)
(* The host's task queue (postTask_) is the environment: a FIFO of loop    *)
(* tasks, each carrying its needSync argument, run by the JS thread when   *)
(* it is not blocked.                                                      *)
(*                                                                         *)
(* Deinit, called by ~ArkNativeEngine, destroys uvSem_ and deletes loop_.  *)
(* Nothing of the engine runs after it; a check thread still running then *)
(* uses the destroyed semaphore and loop, which the model records as a     *)
(* state, not as further steps.                                            *)
(***************************************************************************)
EXTENDS Naturals, Sequences

CONSTANTS
  MaxCycles,   \* how many times CheckUVLoop may be called
  MaxQueue     \* bound on the host task queue for TriggerPostTask

ASSUME MaxCycles \in Nat \ {0} /\ MaxQueue \in Nat \ {0}

VARIABLES
  checkUVLoop,  \* checkUVLoop_
  sem,          \* the count of uvSem_
  runner,       \* where the check thread is: none, post, wait, loop, epoll, exited
  js,           \* the JS thread: free, or blocked in uv_thread_join
  queue,        \* the host's pending loop tasks, by their needSync argument
  loopTask,     \* the Loop call the JS thread is inside: idle, sync or async
  cycles,       \* CheckUVLoop calls so far
  deinit        \* Deinit has run: uvSem_ destroyed, loop_ deleted

vars == <<checkUVLoop, sem, runner, js, queue, loopTask, cycles, deinit>>

RunnerPcs == {"none", "post", "wait", "loop", "epoll", "exited"}

\* Init: uv_sem_init(&uvSem_, 0); checkUVLoop_ is false and no thread runs.
Init ==
  /\ checkUVLoop = FALSE
  /\ sem = 0
  /\ runner = "none"
  /\ js = "free"
  /\ queue = <<>>
  /\ loopTask = "idle"
  /\ cycles = 0
  /\ deinit = FALSE

\* JS thread: checkUVLoop_ = true; uv_thread_create(UVThreadRunner).
CheckUVLoop ==
  /\ ~deinit
  /\ js = "free"
  /\ loopTask = "idle"
  /\ runner = "none"
  /\ cycles < MaxCycles
  /\ checkUVLoop' = TRUE
  /\ runner' = "post"
  /\ cycles' = cycles + 1
  /\ UNCHANGED <<sem, js, queue, loopTask, deinit>>

CancelCheckUVLoopNoPost ==
  /\ ~deinit
  /\ js = "free"
  /\ loopTask = "idle"
  /\ runner # "none"
  /\ checkUVLoop' = FALSE
  /\ js' = "joining"
  /\ UNCHANGED <<sem, runner, queue, loopTask, cycles, deinit>>

\* JS thread: checkUVLoop_ = false; uv_async_send; uv_sem_post; then it
\* blocks in uv_thread_join (JoinReturn).
CancelCheckUVLoop ==
  /\ ~deinit
  /\ js = "free"
  /\ loopTask = "idle"
  /\ runner # "none"
  /\ checkUVLoop' = FALSE
  /\ sem' = sem + 1
  /\ js' = "joining"
  /\ UNCHANGED <<runner, queue, loopTask, cycles, deinit>>

\* ~ArkNativeEngine calls Deinit on the JS thread: the reference and scope
\* managers are deleted, uv_sem_destroy(&uvSem_), uv_close of uvAsync_, one
\* uv_run(loop_, UV_RUN_ONCE) and uv_loop_delete(loop_). Nothing in it stops
\* or waits for the check thread.
Deinit ==
  /\ js = "free"
  /\ loopTask = "idle"
  /\ ~deinit
  /\ deinit' = TRUE
  /\ UNCHANGED <<checkUVLoop, sem, runner, js, queue, loopTask, cycles>>

\* The engine is gone: no method of it is called again.
Destroyed ==
  /\ deinit
  /\ UNCHANGED vars

\* uv_thread_join returns once UVThreadRunner has returned.
JoinReturn ==
  /\ ~deinit
  /\ js = "joining"
  /\ runner = "exited"
  /\ js' = "free"
  /\ runner' = "none"
  /\ UNCHANGED <<checkUVLoop, sem, queue, loopTask, cycles, deinit>>

\* Any thread: TriggerPostTask, postTask_(false).
TriggerPostTask ==
  /\ ~deinit
  /\ Len(queue) < MaxQueue
  /\ queue' = Append(queue, FALSE)
  /\ UNCHANGED <<checkUVLoop, sem, runner, js, loopTask, cycles, deinit>>

\* Check thread, PostLoopTask: postTask_(true), then uv_sem_wait.
PostLoopTask ==
  /\ ~deinit
  /\ runner = "post"
  /\ queue' = Append(queue, TRUE)
  /\ runner' = "wait"
  /\ UNCHANGED <<checkUVLoop, sem, js, loopTask, cycles, deinit>>

\* uv_sem_wait returns once the count is positive; the runner goes on to
\* the while condition.
SemWaitReturn ==
  /\ ~deinit
  /\ runner = "wait"
  /\ sem > 0
  /\ sem' = sem - 1
  /\ runner' = "loop"
  /\ UNCHANGED <<checkUVLoop, js, queue, loopTask, cycles, deinit>>

\* while (engine->checkUVLoop_): read fd and timeout, enter epoll_wait, or
\* leave the thread. (Two reads of the flag in a row, as after the in-loop
\* PostLoopTask, see the same value or a cleared one; one read stands for
\* both.)
LoopCondition ==
  /\ ~deinit
  /\ runner = "loop"
  /\ runner' = IF checkUVLoop THEN "epoll" ELSE "exited"
  /\ UNCHANGED <<checkUVLoop, sem, js, queue, loopTask, cycles, deinit>>

\* epoll_wait returns with result >= 0 (ready) or < 0 (error); then
\* "if (!checkUVLoop_) break", then PostLoopTask only if the wait succeeded.
EpollReturn(ready) ==
  /\ ~deinit
  /\ runner = "epoll"
  /\ runner' = CASE ~checkUVLoop -> "exited"
                 [] ready       -> "post"
                 [] OTHER       -> "loop"
  /\ UNCHANGED <<checkUVLoop, sem, js, queue, loopTask, cycles, deinit>>

LoopEnterPostsEarly ==
  /\ ~deinit
  /\ js = "free"
  /\ loopTask = "idle"
  /\ queue # <<>>
  /\ loopTask' = IF Head(queue) THEN "sync" ELSE "async"
  /\ sem' = IF Head(queue) THEN sem + 1 ELSE sem
  /\ queue' = Tail(queue)
  /\ UNCHANGED <<checkUVLoop, runner, js, cycles, deinit>>

\* JS thread runs the next host task: Loop(mode, needSync) enters uv_run.
LoopEnter ==
  /\ ~deinit
  /\ js = "free"
  /\ loopTask = "idle"
  /\ queue # <<>>
  /\ loopTask' = IF Head(queue) THEN "sync" ELSE "async"
  /\ queue' = Tail(queue)
  /\ UNCHANGED <<checkUVLoop, sem, runner, js, cycles, deinit>>

LoopExitIgnoresNeedSync ==
  /\ ~deinit
  /\ loopTask # "idle"
  /\ sem' = sem + 1
  /\ loopTask' = "idle"
  /\ UNCHANGED <<checkUVLoop, runner, js, queue, cycles, deinit>>

\* uv_run returns; "if (needSync) uv_sem_post(&uvSem_)"; ExecutePendingJob.
LoopExit ==
  /\ ~deinit
  /\ loopTask # "idle"
  /\ sem' = IF loopTask = "sync" THEN sem + 1 ELSE sem
  /\ loopTask' = "idle"
  /\ UNCHANGED <<checkUVLoop, runner, js, queue, cycles, deinit>>

JsThread == CheckUVLoop \/ CancelCheckUVLoop \/ JoinReturn
              \/ LoopEnter \/ LoopExit \/ Deinit
CheckThread == PostLoopTask \/ SemWaitReturn \/ LoopCondition
                 \/ \E ready \in BOOLEAN : EpollReturn(ready)

Next == JsThread \/ CheckThread \/ TriggerPostTask \/ Destroyed

(* The check thread and the JS thread's loop tasks progress. epoll_wait    *)
(* need not return while the loop has no events, but after CancelCheck-    *)
(* UVLoop its uv_async_send makes the fd readable, and the JS thread, now   *)
(* blocked in the join, cannot consume it: the wait then returns.          *)
Fairness ==
  /\ WF_vars(PostLoopTask) /\ WF_vars(SemWaitReturn) /\ WF_vars(LoopCondition)
  /\ WF_vars(~checkUVLoop /\ EpollReturn(TRUE))
  /\ WF_vars(JoinReturn) /\ WF_vars(LoopEnter) /\ WF_vars(LoopExit)

Spec == Init /\ [][Next]_vars /\ Fairness

-----------------------------------------------------------------------------
\* The state has its type; uvSem_ holds at most two posts per cycle: the
\* runner's own task and CancelCheckUVLoop's.
TypeOK ==
  /\ checkUVLoop \in BOOLEAN
  /\ sem \in 0 .. 2 * MaxCycles
  /\ runner \in RunnerPcs
  /\ js \in {"free", "joining"}
  /\ queue \in Seq(BOOLEAN)
  /\ loopTask \in {"idle", "sync", "async"}
  /\ cycles \in 0 .. MaxCycles

\* The loop tasks the check thread posted that have not finished their Loop.
SyncOutstanding ==
  Len(SelectSeq(queue, LAMBDA t : t)) + (IF loopTask = "sync" THEN 1 ELSE 0)

\* PostLoopTask waits on uvSem_ so that the check thread polls the loop only
\* after the JS thread has run the task it posted: whenever the runner is in
\* epoll_wait, no task of its own is still queued or inside Loop. Broken by a
\* post of uvSem_ that no task of this runner made (Loop posting before
\* uv_run, CancelCheckUVLoop's extra post surviving into a restart).
RunnerWaitsForItsTask ==
  runner = "epoll" => SyncOutstanding = 0

\* Deinit destroys uvSem_ and deletes loop_ only after the check thread has
\* been joined: no check thread is still running, or about to use them,
\* when the engine is torn down.
CheckThreadJoinedAtDeinit ==
  deinit => runner = "none"

\* CancelCheckUVLoop's join returns: the runner wakes from uv_sem_wait or
\* epoll_wait and leaves its loop, whatever step it was at when cancelled.
CancelReturns ==
  js = "joining" ~> js = "free"

=============================================================================
