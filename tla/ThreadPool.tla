----------------------------- MODULE ThreadPool -----------------------------
(***************************************************************************)
(* The worker pool of src/threadpool: thread_pool_init, thread_task_post,  *)
(* thread_pool_cycle and thread_pool_destroy, at the granularity of the    *)
(* pool mutex and its condition variable.                                  *)
(*                                                                         *)
(* One thread, "Main", creates the pool, posts tasks and destroys it (this *)
(* is how DispatchMsgService uses the pool: only the network thread calls  *)
(* enqueue and close).  The Workers run thread_pool_cycle.                 *)
(*                                                                         *)
(* Abstractions: a task's id and the debug prints are left out; the        *)
(* first/last/next pointers are the sequence `queue'; a handler other than *)
(* the exit handler is a step that takes arbitrarily long.  The pthread    *)
(* calls on an initialised mutex or condition do not fail.                 *)
(***************************************************************************)
EXTENDS Integers, Sequences, FiniteSets

CONSTANTS Workers,   \* the DEFAULT_THREADS_NUM pool threads
          Tasks,     \* the task objects thread_task_alloc may return
          MaxQueue,  \* max_queue, DEFAULT_QUEUE_NUM
          CanFail,   \* which steps of thread_pool_init the system may fail
          Main, ExitTask, NoTask, NoOwner

ASSUME PoolAssumption ==
    /\ IsFiniteSet(Workers)
    /\ Workers # {}
    /\ MaxQueue \in Nat
    /\ Main \notin Workers
    /\ NoOwner \notin Workers \cup {Main}
    /\ ExitTask \notin Tasks
    /\ NoTask \notin Tasks \cup {ExitTask}

VARIABLES
    mem,       \* the thread_pool_t: "none", "live" or "freed"
    mtx,       \* owner of tp->mtx
    queue,     \* tp->queue, front first
    waiting,   \* tp->waiting
    main,      \* control point of Main
    cur,       \* the task argument of Main's thread_task_post
    n,         \* loop counter of thread_pool_init and thread_pool_destroy
    lock,      \* the stack variable `lock' of thread_pool_destroy
    pc,        \* control point of each worker
    held,      \* the local `task' of each worker
    task,      \* life of each task object
    ran,       \* history: how often the handler of each task was called
    ub         \* the process made an access C leaves undefined

poolVars == <<mem, mtx, queue, waiting>>
mainVars == <<main, cur, n, lock>>
workVars == <<pc, held>>
taskVars == <<task, ran>>
vars == <<mem, mtx, queue, waiting, main, cur, n, lock, pc, held, task, ran, ub>>

NumThreads == Cardinality(Workers)

WorkerPC == {"none", "lock", "test", "wait", "woken", "run", "free", "exited"}
MainPC == {"alloc", "create", "idle", "postlock", "post", "loop", "spin",
           "failed", "aborted", "destroyed"}

\* Workers inside thread_pool_cycle's critical section or its cond_wait: they
\* have done waiting-- and have not yet taken a task.
Idle == {w \in Workers : pc[w] \in {"test", "wait", "woken"}}

\* Those of them that are not asleep.
Awake == {w \in Workers : pc[w] \in {"test", "woken"}}

Init ==
    /\ mem = "none"
    /\ mtx = NoOwner
    /\ queue = <<>>
    /\ waiting = 0
    /\ main = "alloc"
    /\ cur = NoTask
    /\ n = 0
    /\ lock = 0
    /\ pc = [w \in Workers |-> "none"]
    /\ held = [w \in Workers |-> NoTask]
    /\ task = [t \in Tasks |-> "fresh"]
    /\ ran = [t \in Tasks |-> 0]
    /\ ub = FALSE

-----------------------------------------------------------------------------
(***************************************************************************)
(* thread_pool_init.                                                       *)
(***************************************************************************)

\* calloc and the set-up of mutex, condition and thread attributes succeed.
InitSetUp ==
    /\ main = "alloc"
    /\ mem' = "live"
    /\ main' = "create"
    /\ UNCHANGED <<mtx, queue, waiting, cur, n, lock, workVars, taskVars, ub>>

\* A set-up call fails: free(tp), return NULL.
InitSetUpFails ==
    /\ main = "alloc"
    /\ "setup" \in CanFail
    /\ mem' = "freed"
    /\ main' = "failed"
    /\ UNCHANGED <<mtx, queue, waiting, cur, n, lock, workVars, taskVars, ub>>

\* calloc fails: the code prints a message and goes on with tp == NULL.
InitCallocFails ==
    /\ main = "alloc"
    /\ "calloc" \in CanFail
    /\ ub' = TRUE
    /\ UNCHANGED <<poolVars, mainVars, workVars, taskVars>>

CreateThread(w) ==
    /\ main = "create"
    /\ pc[w] = "none"
    /\ pc' = [pc EXCEPT ![w] = "lock"]
    /\ IF n + 1 < NumThreads
         THEN n' = n + 1 /\ UNCHANGED main
         ELSE n' = 0 /\ main' = "idle"
    /\ UNCHANGED <<poolVars, cur, lock, held, taskVars, ub>>

\* pthread_create fails: tp is freed under the threads created before.
CreateThreadFails ==
    /\ main = "create"
    /\ "create" \in CanFail
    /\ mem' = "freed"
    /\ main' = "failed"
    /\ UNCHANGED <<mtx, queue, waiting, cur, n, lock, workVars, taskVars, ub>>

-----------------------------------------------------------------------------
(***************************************************************************)
(* thread_task_post, called by enqueue with a task from thread_task_alloc  *)
(* and by thread_pool_destroy with its stack task.                         *)
(***************************************************************************)

CallPost(t) ==
    /\ main = "idle"
    /\ task[t] = "fresh"
    /\ task' = [task EXCEPT ![t] = "allocated"]
    /\ cur' = t
    /\ main' = "postlock"
    /\ UNCHANGED <<poolVars, n, lock, workVars, ran, ub>>

PostLock ==
    /\ main = "postlock"
    /\ mtx = NoOwner
    /\ mtx' = Main
    /\ main' = "post"
    /\ UNCHANGED <<mem, queue, waiting, cur, n, lock, workVars, taskVars, ub>>

\* Queue overflow: unlock, return T_ERROR.  enqueue drops the task object,
\* thread_pool_destroy returns.
PostReject ==
    /\ main = "post"
    /\ waiting >= MaxQueue
    /\ mtx' = NoOwner
    /\ IF cur = ExitTask
         THEN main' = "aborted" /\ UNCHANGED task
         ELSE main' = "idle" /\ task' = [task EXCEPT ![cur] = "leaked"]
    /\ cur' = NoTask
    /\ UNCHANGED <<mem, queue, waiting, n, lock, workVars, ran, ub>>

\* Mutant: only a task that finds the queue empty signals.
Signal_IfEmpty ==
    IF queue = <<>> /\ \E w \in Workers : pc[w] = "wait"
      THEN \E w \in Workers : /\ pc[w] = "wait"
                              /\ pc' = [pc EXCEPT ![w] = "woken"]
      ELSE UNCHANGED pc

\* Mutant: thread_task_post does not signal.
Signal_Missing == UNCHANGED pc

\* pthread_cond_signal: wakes one waiting thread, if there is one.
Signal ==
    IF \E w \in Workers : pc[w] = "wait"
      THEN \E w \in Workers : /\ pc[w] = "wait"
                              /\ pc' = [pc EXCEPT ![w] = "woken"]
      ELSE UNCHANGED pc

\* Mutant: the limit is tested with > instead of >=.
PostAccept_OffByOne ==
    /\ main = "post"
    /\ waiting <= MaxQueue
    /\ Signal
    /\ queue' = Append(queue, cur)
    /\ waiting' = waiting + 1
    /\ mtx' = NoOwner
    /\ main' = IF cur = ExitTask THEN "spin" ELSE "idle"
    /\ cur' = NoTask
    /\ UNCHANGED <<mem, n, lock, held, taskVars, ub>>

\* Mutant: the task is linked in at the front.
PostAccept_Front ==
    /\ main = "post"
    /\ waiting < MaxQueue
    /\ Signal
    /\ queue' = <<cur>> \o queue
    /\ waiting' = waiting + 1
    /\ mtx' = NoOwner
    /\ main' = IF cur = ExitTask THEN "spin" ELSE "idle"
    /\ cur' = NoTask
    /\ UNCHANGED <<mem, n, lock, held, taskVars, ub>>

PostAccept ==
    /\ main = "post"
    /\ waiting < MaxQueue
    /\ Signal
    /\ queue' = Append(queue, cur)
    /\ waiting' = waiting + 1
    /\ mtx' = NoOwner
    /\ main' = IF cur = ExitTask THEN "spin" ELSE "idle"
    /\ cur' = NoTask
    /\ UNCHANGED <<mem, n, lock, held, taskVars, ub>>

-----------------------------------------------------------------------------
(***************************************************************************)
(* thread_pool_destroy.                                                    *)
(***************************************************************************)

CallDestroy ==
    /\ main = "idle"
    /\ main' = "loop"
    /\ UNCHANGED <<poolVars, cur, n, lock, workVars, taskVars, ub>>

\* One more exit task to post.
DestroyPostExit ==
    /\ main = "loop"
    /\ n < NumThreads
    /\ lock' = 1
    /\ cur' = ExitTask
    /\ main' = "postlock"
    /\ UNCHANGED <<poolVars, n, workVars, taskVars, ub>>

\* Mutant: thread_pool_destroy does not wait for the exit handler.
DestroySpinEnds_NoWait ==
    /\ main = "spin"
    /\ n' = n + 1
    /\ main' = "loop"
    /\ UNCHANGED <<poolVars, cur, lock, workVars, taskVars, ub>>

\* while (lock) sched_yield() ends.
DestroySpinEnds ==
    /\ main = "spin"
    /\ lock = 0
    /\ n' = n + 1
    /\ main' = "loop"
    /\ UNCHANGED <<poolVars, cur, lock, workVars, taskVars, ub>>

\* Mutant: the loop may end one thread early.
DestroyFree_Early ==
    /\ main = "loop"
    /\ n >= NumThreads - 1
    /\ mem' = "freed"
    /\ main' = "destroyed"
    /\ UNCHANGED <<mtx, queue, waiting, cur, n, lock, workVars, taskVars, ub>>

\* The condition and the mutex are destroyed and tp is freed.
DestroyFree ==
    /\ main = "loop"
    /\ n = NumThreads
    /\ mem' = "freed"
    /\ main' = "destroyed"
    /\ UNCHANGED <<mtx, queue, waiting, cur, n, lock, workVars, taskVars, ub>>

-----------------------------------------------------------------------------
(***************************************************************************)
(* thread_pool_cycle.                                                      *)
(***************************************************************************)

WorkerLock(w) ==
    /\ pc[w] = "lock"
    /\ mem = "live"
    /\ mtx = NoOwner
    /\ mtx' = w
    /\ waiting' = waiting - 1
    /\ pc' = [pc EXCEPT ![w] = "test"]
    /\ UNCHANGED <<mem, queue, mainVars, held, taskVars, ub>>

\* pthread_cond_wait: releases the mutex and sleeps, atomically.
WorkerWait(w) ==
    /\ pc[w] = "test"
    /\ mem = "live"
    /\ queue = <<>>
    /\ mtx' = NoOwner
    /\ pc' = [pc EXCEPT ![w] = "wait"]
    /\ UNCHANGED <<mem, queue, waiting, mainVars, held, taskVars, ub>>

\* POSIX lets pthread_cond_wait return without a signal.
SpuriousWakeup(w) ==
    /\ pc[w] = "wait"
    /\ pc' = [pc EXCEPT ![w] = "woken"]
    /\ UNCHANGED <<poolVars, mainVars, held, taskVars, ub>>

\* pthread_cond_wait takes the mutex again before it returns.
WorkerRelock(w) ==
    /\ pc[w] = "woken"
    /\ mem = "live"
    /\ mtx = NoOwner
    /\ mtx' = w
    /\ pc' = [pc EXCEPT ![w] = "test"]
    /\ UNCHANGED <<mem, queue, waiting, mainVars, held, taskVars, ub>>

\* Mutant: `if' instead of `while' around thread_cond_wait.
WorkerTake_NoLoop(w) ==
    /\ pc[w] = "test"
    /\ mem = "live"
    /\ held' = [held EXCEPT ![w] = IF queue = <<>> THEN "NULL" ELSE Head(queue)]
    /\ queue' = IF queue = <<>> THEN queue ELSE Tail(queue)
    /\ mtx' = NoOwner
    /\ pc' = [pc EXCEPT ![w] = "run"]
    /\ UNCHANGED <<mem, waiting, mainVars, taskVars, ub>>

\* Mutant: the task is not unlinked.
WorkerTake_Keep(w) ==
    /\ pc[w] = "test"
    /\ mem = "live"
    /\ queue # <<>>
    /\ held' = [held EXCEPT ![w] = Head(queue)]
    /\ mtx' = NoOwner
    /\ pc' = [pc EXCEPT ![w] = "run"]
    /\ UNCHANGED <<mem, queue, waiting, mainVars, taskVars, ub>>

WorkerTake(w) ==
    /\ pc[w] = "test"
    /\ mem = "live"
    /\ queue # <<>>
    /\ held' = [held EXCEPT ![w] = Head(queue)]
    /\ queue' = Tail(queue)
    /\ mtx' = NoOwner
    /\ pc' = [pc EXCEPT ![w] = "run"]
    /\ UNCHANGED <<mem, waiting, mainVars, taskVars, ub>>

\* task->handler(task->ctx) for a posted task returns.
WorkerRun(w) ==
    /\ pc[w] = "run"
    /\ held[w] \in Tasks
    /\ ran' = [ran EXCEPT ![held[w]] = @ + 1]
    /\ pc' = [pc EXCEPT ![w] = "free"]
    /\ UNCHANGED <<poolVars, mainVars, held, task, ub>>

WorkerFree(w) ==
    /\ pc[w] = "free"
    /\ task' = [task EXCEPT ![held[w]] = "freed"]
    /\ held' = [held EXCEPT ![w] = NoTask]
    /\ pc' = [pc EXCEPT ![w] = "lock"]
    /\ UNCHANGED <<poolVars, mainVars, ran, ub>>

\* Mutant: the exit handler forgets *lock = 0.
WorkerExit_KeepLock(w) ==
    /\ pc[w] = "run"
    /\ held[w] = ExitTask
    /\ held' = [held EXCEPT ![w] = NoTask]
    /\ pc' = [pc EXCEPT ![w] = "exited"]
    /\ UNCHANGED <<poolVars, mainVars, taskVars, ub>>

\* thread_pool_exit_handler: *lock = 0, pthread_exit.  The handler does not
\* return, so the stack task is neither written nor freed.
WorkerExit(w) ==
    /\ pc[w] = "run"
    /\ held[w] = ExitTask
    /\ lock' = 0
    /\ held' = [held EXCEPT ![w] = NoTask]
    /\ pc' = [pc EXCEPT ![w] = "exited"]
    /\ UNCHANGED <<poolVars, main, cur, n, taskVars, ub>>

\* A worker locks, or returns from waiting on, a pool that has been freed.
UseFreedPool(w) ==
    /\ mem = "freed"
    /\ pc[w] \in {"lock", "test", "wait", "woken"}
    /\ ub' = TRUE
    /\ UNCHANGED <<poolVars, mainVars, workVars, taskVars>>

-----------------------------------------------------------------------------

MainStep ==
    \/ InitSetUp \/ InitSetUpFails \/ InitCallocFails
    \/ (\E w \in Workers : CreateThread(w)) \/ CreateThreadFails
    \/ (\E t \in Tasks : CallPost(t))
    \/ PostLock \/ PostReject \/ PostAccept
    \/ CallDestroy \/ DestroyPostExit \/ DestroySpinEnds \/ DestroyFree

WorkerStep(w) ==
    \/ WorkerLock(w) \/ WorkerWait(w) \/ WorkerRelock(w) \/ WorkerTake(w)
    \/ WorkerRun(w) \/ WorkerFree(w) \/ WorkerExit(w)

\* What the pool does between creation and destruction ends here: Main has
\* returned from its last call, or the behaviour is undefined.
Ended ==
    /\ ub \/ main \in {"failed", "aborted", "destroyed"}
    /\ UNCHANGED vars

Next ==
    \/ ~ub /\ MainStep
    \/ ~ub /\ \E w \in Workers :
                 WorkerStep(w) \/ SpuriousWakeup(w) \/ UseFreedPool(w)
    \/ Ended

Spec == Init /\ [][Next]_vars

\* A thread that can go on does (the OS schedules every thread, handlers
\* return), and a thread that asks for the mutex again and again gets it.
\* Main is under no obligation to post or to destroy.
Fairness ==
    /\ \A w \in Workers : WF_vars(~ub /\ WorkerStep(w))
    /\ SF_vars(~ub /\ PostLock)
    /\ WF_vars(~ub /\ (PostReject \/ PostAccept))
    /\ WF_vars(~ub /\ (DestroyPostExit \/ DestroySpinEnds \/ DestroyFree))

FairSpec == Spec /\ Fairness
-----------------------------------------------------------------------------
(***************************************************************************)
(* What the pool promises.                                                 *)
(***************************************************************************)

\* Every variable has its type.
TypeOK ==
    /\ mem \in {"none", "live", "freed"}
    /\ mtx \in Workers \cup {Main, NoOwner}
    /\ queue \in Seq(Tasks \cup {ExitTask})
    /\ waiting \in Int
    /\ main \in MainPC
    /\ cur \in Tasks \cup {ExitTask, NoTask}
    /\ n \in Nat
    /\ lock \in {0, 1}
    /\ pc \in [Workers -> WorkerPC]
    /\ held \in [Workers -> Tasks \cup {ExitTask, NoTask}]
    /\ task \in [Tasks -> {"fresh", "allocated", "freed", "leaked"}]
    /\ ran \in [Tasks -> Nat]
    /\ ub \in BOOLEAN

\* tp->waiting, which thread_task_post compares with max_queue, is the number
\* of queued tasks less the workers that wait for one.  It therefore never
\* exceeds max_queue, and the queue itself may be longer than max_queue only
\* by the workers that were signalled and have not run yet.
WaitingCount ==
    /\ waiting = Len(queue) - Cardinality(Idle)
    /\ waiting <= MaxQueue

\* No lost wakeup: while a worker sleeps in thread_cond_wait, every queued
\* task has an awake worker that is on its way to the queue.
NoLostWakeup ==
    (\E w \in Workers : pc[w] = "wait") =>
        Len(queue) <= Cardinality(Awake)

\* A task object is in one place at a time: once in the queue, or in the hands
\* of one worker.  In particular thread_pool_destroy never links its one
\* stack task into the queue twice, and no two workers run or free one task.
OneOwner ==
    /\ \A i, j \in DOMAIN queue : queue[i] = queue[j] => i = j
    /\ \A w \in Workers : held[w] # NoTask =>
         /\ \A i \in DOMAIN queue : queue[i] # held[w]
         /\ \A v \in Workers : held[v] = held[w] => v = w

\* A task that is queued or held has not been freed, a task is freed only
\* after its handler ran, and no handler runs twice.
RunOnce ==
    /\ \A i \in DOMAIN queue :
         queue[i] \in Tasks => task[queue[i]] = "allocated" /\ ran[queue[i]] = 0
    /\ \A w \in Workers : held[w] \in Tasks => task[held[w]] = "allocated"
    /\ \A t \in Tasks : ran[t] <= 1 /\ (task[t] = "freed" => ran[t] = 1)

\* No worker touches the pool after free(tp), unless thread_pool_init itself
\* failed half way (after a failed calloc, or a failed pthread_create).
NoUseAfterFree == ub => main \in {"alloc", "failed"}

\* The exit task and `lock' live on the stack of thread_pool_destroy: nobody
\* can reach them any more when that function returns or posts again.
StackTaskConfined ==
    (\/ \E i \in DOMAIN queue : queue[i] = ExitTask
     \/ \E w \in Workers : held[w] = ExitTask) => main = "spin" /\ lock = 1

\* thread_pool_destroy frees the pool only when every task that was accepted
\* has been run and freed, and every worker has left the pool.
DestroyDrains ==
    main = "destroyed" =>
        /\ queue = <<>>
        /\ mtx = NoOwner
        /\ \A w \in Workers : pc[w] = "exited"
        /\ \A t \in Tasks : task[t] # "allocated"

\* An accepted task is eventually run.
AcceptedRuns ==
    \A t \in Tasks : (\E i \in DOMAIN queue : queue[i] = t) ~> (ran[t] = 1)

\* thread_pool_destroy returns: its exit tasks reach every worker, or a full
\* queue makes it give up.
DestroyReturns == (main = "loop") ~> (main \in {"destroyed", "aborted"})

-----------------------------------------------------------------------------
(***************************************************************************)
(* The pool implements TaskService.  The exit task is not a client's task  *)
(* and is hidden; it is only ever the last element of the queue.           *)
(***************************************************************************)

ClientQueue ==
    IF queue # <<>> /\ queue[Len(queue)] = ExitTask
      THEN SubSeq(queue, 1, Len(queue) - 1)
      ELSE queue

Service == INSTANCE TaskService WITH
    Threads <- NumThreads,
    pending <- ClientQueue,
    running <- {t \in Tasks : \E w \in Workers : held[w] = t /\ pc[w] = "run"},
    done    <- {t \in Tasks : ran[t] > 0},
    refused <- {t \in Tasks : task[t] = "leaked"}

\* Seen from its client the pool is a bounded first-in first-out service.
ImplementsService == Service!Spec
=============================================================================
