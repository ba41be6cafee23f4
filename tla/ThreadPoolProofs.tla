-------------------------- MODULE ThreadPoolProofs --------------------------
(***************************************************************************)
(* Proofs about ThreadPool for every finite set of workers, every set of   *)
(* tasks, every queue limit and every pattern of failures of               *)
(* thread_pool_init.  The inductive invariant is built in layers: who is   *)
(* where (Control), where the exit task is (ExitPlace), who owns a task    *)
(* (Ownership), how far creation and destruction have come (Lifecycle),    *)
(* and the counting facts the wakeups rest on (WaitingCount and            *)
(* NoLostWakeup).  Each layer is inductive relative to the ones before.    *)
(***************************************************************************)
EXTENDS ThreadPool, FiniteSetTheorems, SequenceTheorems, TLAPS

Exited == {w \in Workers : pc[w] = "exited"}
Created == {w \in Workers : pc[w] # "none"}

\* The mutex is held exactly by the thread in a critical section, a worker
\* has a task exactly while it runs or frees it, the pool's memory follows
\* the control of Main.
Control ==
    /\ \A w \in Workers : mtx = w <=> pc[w] = "test"
    /\ mtx = Main <=> main = "post"
    /\ \A w \in Workers : held[w] # NoTask <=> pc[w] \in {"run", "free"}
    /\ \A w \in Workers : pc[w] = "free" => held[w] \in Tasks
    /\ cur # NoTask <=> main \in {"postlock", "post"}
    /\ mem = "none" <=> main = "alloc"
    /\ mem = "freed" <=> main \in {"failed", "destroyed"}

\* The exit task is posted, queued (and then last) or held by one worker (and
\* then the queue is empty), and Main knows by `lock' whether it is.
ExitPlace ==
    /\ StackTaskConfined
    /\ \A i \in DOMAIN queue : queue[i] = ExitTask => i = Len(queue)
    /\ \A w \in Workers : held[w] = ExitTask => queue = <<>>
    /\ \A v, w \in Workers : held[v] = ExitTask /\ held[w] = ExitTask => v = w
    /\ cur = ExitTask => lock = 1

Ownership ==
    /\ OneOwner
    /\ RunOnce
    /\ cur # NoTask => /\ \A i \in DOMAIN queue : queue[i] # cur
                       /\ \A w \in Workers : held[w] # cur
    /\ cur \in Tasks => task[cur] = "allocated" /\ ran[cur] = 0
    /\ \A w \in Workers : held[w] \in Tasks =>
         ran[held[w]] = IF pc[w] = "run" THEN 0 ELSE 1
    /\ \A t \in Tasks : task[t] \in {"fresh", "leaked"} => ran[t] = 0
    /\ \A t \in Tasks : task[t] = "allocated" =>
         \/ cur = t
         \/ \E i \in DOMAIN queue : queue[i] = t
         \/ \E w \in Workers : held[w] = t

Lifecycle ==
    /\ n <= NumThreads
    /\ main = "alloc" => n = 0 /\ Created = {}
    /\ main = "create" => n = Cardinality(Created)
    /\ main \notin {"alloc", "create", "failed"} => Created = Workers
    /\ main \in {"alloc", "create", "failed", "idle"} \/ cur \in Tasks => Exited = {}
    /\ main = "idle" \/ cur \in Tasks => n = 0
    /\ main = "loop" => Cardinality(Exited) = n /\ (n > 0 => queue = <<>>)
    /\ cur = ExitTask => /\ n < NumThreads
                         /\ Cardinality(Exited) = n
                         /\ n > 0 => queue = <<>>
    /\ main = "spin" =>
         /\ n < NumThreads
         /\ Cardinality(Exited) = IF lock = 1 THEN n ELSE n + 1
         /\ lock = 0 => queue = <<>>
    /\ main = "destroyed" => Cardinality(Exited) = NumThreads /\ queue = <<>>
    /\ NoUseAfterFree

Inv ==
    /\ TypeOK /\ Control /\ ExitPlace /\ Ownership /\ Lifecycle
    /\ WaitingCount /\ NoLostWakeup
-----------------------------------------------------------------------------
\* Every step keeps the types and the control facts.
LEMMA ControlStep ==
  TypeOK /\ Control /\ [Next]_vars => TypeOK' /\ Control'
<1> SUFFICES ASSUME TypeOK, Control, [Next]_vars
             PROVE  TypeOK' /\ Control'
  OBVIOUS
<1> USE DEF poolVars, mainVars, workVars, taskVars
<1>1. ASSUME InitSetUp PROVE TypeOK' /\ Control'
  BY <1>1, PoolAssumption DEF InitSetUp, TypeOK, Control, WorkerPC, MainPC
<1>2. ASSUME InitSetUpFails PROVE TypeOK' /\ Control'
  BY <1>2, PoolAssumption DEF InitSetUpFails, TypeOK, Control, WorkerPC,
     MainPC
<1>3. ASSUME InitCallocFails PROVE TypeOK' /\ Control'
  BY <1>3, PoolAssumption DEF InitCallocFails, TypeOK, Control, WorkerPC,
     MainPC
<1>4. ASSUME NEW w \in Workers, CreateThread(w) PROVE TypeOK' /\ Control'
  BY <1>4, PoolAssumption DEF CreateThread, TypeOK, Control, WorkerPC, MainPC
<1>5. ASSUME CreateThreadFails PROVE TypeOK' /\ Control'
  BY <1>5, PoolAssumption DEF CreateThreadFails, TypeOK, Control, WorkerPC,
     MainPC
<1>6. ASSUME NEW t \in Tasks, CallPost(t) PROVE TypeOK' /\ Control'
  BY <1>6, PoolAssumption DEF CallPost, TypeOK, Control, WorkerPC, MainPC
<1>7. ASSUME PostLock PROVE TypeOK' /\ Control'
  BY <1>7, PoolAssumption DEF PostLock, TypeOK, Control, WorkerPC, MainPC
<1>8. ASSUME PostReject PROVE TypeOK' /\ Control'
  BY <1>8, PoolAssumption DEF PostReject, TypeOK, Control, WorkerPC, MainPC
<1>9. ASSUME PostAccept PROVE TypeOK' /\ Control'
  <2>0. cur \in Tasks \cup {ExitTask}
    BY <1>9 DEF PostAccept, TypeOK, Control
  <2>1. CASE UNCHANGED pc
    BY <1>9, <2>0, <2>1, PoolAssumption DEF PostAccept, TypeOK, Control,
       WorkerPC, MainPC
  <2>2. ASSUME NEW w \in Workers, pc[w] = "wait", pc' = [pc EXCEPT ![w] = "woken"]
        PROVE  TypeOK' /\ Control'
    BY <1>9, <2>0, <2>2, PoolAssumption DEF PostAccept, TypeOK, Control,
       WorkerPC, MainPC
  <2> QED
    BY <1>9, <2>1, <2>2 DEF PostAccept, Signal
<1>10. ASSUME CallDestroy PROVE TypeOK' /\ Control'
  BY <1>10, PoolAssumption DEF CallDestroy, TypeOK, Control, WorkerPC, MainPC
<1>11. ASSUME DestroyPostExit PROVE TypeOK' /\ Control'
  BY <1>11, PoolAssumption DEF DestroyPostExit, TypeOK, Control, WorkerPC,
     MainPC
<1>12. ASSUME DestroySpinEnds PROVE TypeOK' /\ Control'
  BY <1>12, PoolAssumption DEF DestroySpinEnds, TypeOK, Control, WorkerPC,
     MainPC
<1>13. ASSUME DestroyFree PROVE TypeOK' /\ Control'
  BY <1>13, PoolAssumption DEF DestroyFree, TypeOK, Control, WorkerPC, MainPC
<1>14. ASSUME NEW w \in Workers, WorkerLock(w) PROVE TypeOK' /\ Control'
  BY <1>14, PoolAssumption DEF WorkerLock, TypeOK, Control, WorkerPC, MainPC
<1>15. ASSUME NEW w \in Workers, WorkerWait(w) PROVE TypeOK' /\ Control'
  BY <1>15, PoolAssumption DEF WorkerWait, TypeOK, Control, WorkerPC, MainPC
<1>16. ASSUME NEW w \in Workers, WorkerRelock(w) PROVE TypeOK' /\ Control'
  BY <1>16, PoolAssumption DEF WorkerRelock, TypeOK, Control, WorkerPC, MainPC
<1>17. ASSUME NEW w \in Workers, WorkerTake(w) PROVE TypeOK' /\ Control'
  BY <1>17, PoolAssumption, HeadTailProperties DEF WorkerTake, TypeOK,
     Control, WorkerPC, MainPC
<1>18. ASSUME NEW w \in Workers, WorkerRun(w) PROVE TypeOK' /\ Control'
  BY <1>18, PoolAssumption DEF WorkerRun, TypeOK, Control, WorkerPC, MainPC
<1>19. ASSUME NEW w \in Workers, WorkerFree(w) PROVE TypeOK' /\ Control'
  BY <1>19, PoolAssumption DEF WorkerFree, TypeOK, Control, WorkerPC, MainPC
<1>20. ASSUME NEW w \in Workers, WorkerExit(w) PROVE TypeOK' /\ Control'
  BY <1>20, PoolAssumption DEF WorkerExit, TypeOK, Control, WorkerPC, MainPC
<1>21. ASSUME NEW w \in Workers, SpuriousWakeup(w) PROVE TypeOK' /\ Control'
  BY <1>21, PoolAssumption DEF SpuriousWakeup, TypeOK, Control, WorkerPC,
     MainPC
<1>22. ASSUME NEW w \in Workers, UseFreedPool(w) PROVE TypeOK' /\ Control'
  BY <1>22, PoolAssumption DEF UseFreedPool, TypeOK, Control, WorkerPC, MainPC
<1>23. CASE UNCHANGED vars
  BY <1>23 DEF vars, TypeOK, Control, WorkerPC, MainPC
<1> QED
  BY <1>1, <1>2, <1>3, <1>4, <1>5, <1>6, <1>7, <1>8, <1>9, <1>10, <1>11,
     <1>12, <1>13, <1>14, <1>15, <1>16, <1>17, <1>18, <1>19, <1>20, <1>21,
     <1>22, <1>23
  DEF Next, MainStep, WorkerStep, Ended

\* The types and the control facts hold when thread_pool_init is called.
LEMMA InitTyped == Init => TypeOK /\ Control
<1>1. Init => TypeOK
  <2> SUFFICES ASSUME Init PROVE TypeOK
    OBVIOUS
  <2>1. queue \in Seq(Tasks \cup {ExitTask})
    BY DEF Init
  <2>2. /\ pc \in [Workers -> WorkerPC]
        /\ held \in [Workers -> Tasks \cup {ExitTask, NoTask}]
    BY DEF Init, WorkerPC
  <2>3. /\ task \in [Tasks -> {"fresh", "allocated", "freed", "leaked"}]
        /\ ran \in [Tasks -> Nat]
    BY DEF Init
  <2>4. ub \in BOOLEAN
    BY DEF Init
  <2>5. /\ mem \in {"none", "live", "freed"}
        /\ mtx \in Workers \cup {Main, NoOwner}
        /\ waiting \in Int
        /\ main \in MainPC
        /\ cur \in Tasks \cup {ExitTask, NoTask}
        /\ n \in Nat
        /\ lock \in {0, 1}
    BY DEF Init, MainPC
  <2> QED
    BY <2>1, <2>2, <2>3, <2>4, <2>5 DEF TypeOK
<1>2. Init => Control
  BY PoolAssumption DEF Init, Control
<1> QED
  BY <1>1, <1>2

\* Every reachable state of the pool is well typed, whatever the workers, the
\* tasks and the queue limit are, and the mutex is held exactly by the thread
\* that is inside a critical section of thread_task_post or thread_pool_cycle.
THEOREM TypeCorrect == Spec => [](TypeOK /\ Control)
  BY InitTyped, ControlStep, PTL DEF Spec

\* Every step keeps the exit task in its place.
LEMMA ExitPlaceStep ==
  TypeOK /\ Control /\ ExitPlace /\ [Next]_vars => ExitPlace'
<1> SUFFICES ASSUME TypeOK, Control, ExitPlace, [Next]_vars
             PROVE  ExitPlace'
  OBVIOUS
<1> USE DEF poolVars, mainVars, workVars, taskVars
<1>1. ASSUME InitSetUp PROVE ExitPlace'
  BY <1>1, PoolAssumption DEF InitSetUp, TypeOK, Control, ExitPlace,
     StackTaskConfined, WorkerPC, MainPC
<1>2. ASSUME InitSetUpFails PROVE ExitPlace'
  BY <1>2, PoolAssumption DEF InitSetUpFails, TypeOK, Control, ExitPlace,
     StackTaskConfined, WorkerPC, MainPC
<1>3. ASSUME InitCallocFails PROVE ExitPlace'
  BY <1>3, PoolAssumption DEF InitCallocFails, TypeOK, Control, ExitPlace,
     StackTaskConfined, WorkerPC, MainPC
<1>4. ASSUME NEW w \in Workers, CreateThread(w) PROVE ExitPlace'
  BY <1>4, PoolAssumption DEF CreateThread, TypeOK, Control, ExitPlace,
     StackTaskConfined, WorkerPC, MainPC
<1>5. ASSUME CreateThreadFails PROVE ExitPlace'
  BY <1>5, PoolAssumption DEF CreateThreadFails, TypeOK, Control, ExitPlace,
     StackTaskConfined, WorkerPC, MainPC
<1>6. ASSUME NEW t \in Tasks, CallPost(t) PROVE ExitPlace'
  BY <1>6, PoolAssumption DEF CallPost, TypeOK, Control, ExitPlace,
     StackTaskConfined, WorkerPC, MainPC
<1>7. ASSUME PostLock PROVE ExitPlace'
  BY <1>7, PoolAssumption DEF PostLock, TypeOK, Control, ExitPlace,
     StackTaskConfined, WorkerPC, MainPC
<1>8. ASSUME PostReject PROVE ExitPlace'
  BY <1>8, PoolAssumption DEF PostReject, TypeOK, Control, ExitPlace,
     StackTaskConfined, WorkerPC, MainPC
<1>9. ASSUME PostAccept PROVE ExitPlace'
  <2>0. cur \in Tasks \cup {ExitTask}
    BY <1>9 DEF PostAccept, TypeOK, Control
  <2>1. CASE UNCHANGED pc
    BY <1>9, <2>0, <2>1, PoolAssumption DEF PostAccept, TypeOK, Control,
       ExitPlace, StackTaskConfined, WorkerPC, MainPC
  <2>2. ASSUME NEW w \in Workers, pc[w] = "wait", pc' = [pc EXCEPT ![w] = "woken"]
        PROVE  ExitPlace'
    BY <1>9, <2>0, <2>2, PoolAssumption DEF PostAccept, TypeOK, Control,
       ExitPlace, StackTaskConfined, WorkerPC, MainPC
  <2> QED
    BY <1>9, <2>1, <2>2 DEF PostAccept, Signal
<1>10. ASSUME CallDestroy PROVE ExitPlace'
  BY <1>10, PoolAssumption DEF CallDestroy, TypeOK, Control, ExitPlace,
     StackTaskConfined, WorkerPC, MainPC
<1>11. ASSUME DestroyPostExit PROVE ExitPlace'
  BY <1>11, PoolAssumption DEF DestroyPostExit, TypeOK, Control, ExitPlace,
     StackTaskConfined, WorkerPC, MainPC
<1>12. ASSUME DestroySpinEnds PROVE ExitPlace'
  BY <1>12, PoolAssumption DEF DestroySpinEnds, TypeOK, Control, ExitPlace,
     StackTaskConfined, WorkerPC, MainPC
<1>13. ASSUME DestroyFree PROVE ExitPlace'
  BY <1>13, PoolAssumption DEF DestroyFree, TypeOK, Control, ExitPlace,
     StackTaskConfined, WorkerPC, MainPC
<1>14. ASSUME NEW w \in Workers, WorkerLock(w) PROVE ExitPlace'
  BY <1>14, PoolAssumption DEF WorkerLock, TypeOK, Control, ExitPlace,
     StackTaskConfined, WorkerPC, MainPC
<1>15. ASSUME NEW w \in Workers, WorkerWait(w) PROVE ExitPlace'
  BY <1>15, PoolAssumption DEF WorkerWait, TypeOK, Control, ExitPlace,
     StackTaskConfined, WorkerPC, MainPC
<1>16. ASSUME NEW w \in Workers, WorkerRelock(w) PROVE ExitPlace'
  BY <1>16, PoolAssumption DEF WorkerRelock, TypeOK, Control, ExitPlace,
     StackTaskConfined, WorkerPC, MainPC
<1>17. ASSUME NEW w \in Workers, WorkerTake(w) PROVE ExitPlace'
  BY <1>17, PoolAssumption, HeadTailProperties DEF WorkerTake, TypeOK,
     Control, ExitPlace, StackTaskConfined, WorkerPC, MainPC
<1>18. ASSUME NEW w \in Workers, WorkerRun(w) PROVE ExitPlace'
  BY <1>18, PoolAssumption DEF WorkerRun, TypeOK, Control, ExitPlace,
     StackTaskConfined, WorkerPC, MainPC
<1>19. ASSUME NEW w \in Workers, WorkerFree(w) PROVE ExitPlace'
  BY <1>19, PoolAssumption DEF WorkerFree, TypeOK, Control, ExitPlace,
     StackTaskConfined, WorkerPC, MainPC
<1>20. ASSUME NEW w \in Workers, WorkerExit(w) PROVE ExitPlace'
  BY <1>20, PoolAssumption DEF WorkerExit, TypeOK, Control, ExitPlace,
     StackTaskConfined, WorkerPC, MainPC
<1>21. ASSUME NEW w \in Workers, SpuriousWakeup(w) PROVE ExitPlace'
  BY <1>21, PoolAssumption DEF SpuriousWakeup, TypeOK, Control, ExitPlace,
     StackTaskConfined, WorkerPC, MainPC
<1>22. ASSUME NEW w \in Workers, UseFreedPool(w) PROVE ExitPlace'
  BY <1>22, PoolAssumption DEF UseFreedPool, TypeOK, Control, ExitPlace,
     StackTaskConfined, WorkerPC, MainPC
<1>23. CASE UNCHANGED vars
  BY <1>23 DEF vars, TypeOK, Control, ExitPlace, StackTaskConfined, WorkerPC,
     MainPC
<1> QED
  BY <1>1, <1>2, <1>3, <1>4, <1>5, <1>6, <1>7, <1>8, <1>9, <1>10, <1>11,
     <1>12, <1>13, <1>14, <1>15, <1>16, <1>17, <1>18, <1>19, <1>20, <1>21,
     <1>22, <1>23
  DEF Next, MainStep, WorkerStep, Ended

\* Every step keeps each task with its one owner.
LEMMA OwnershipStep ==
  TypeOK /\ Control /\ ExitPlace /\ Ownership /\ [Next]_vars => Ownership'
<1> SUFFICES ASSUME TypeOK, Control, ExitPlace, Ownership, [Next]_vars
             PROVE  Ownership'
  OBVIOUS
<1> USE DEF poolVars, mainVars, workVars, taskVars
<1>1. ASSUME InitSetUp PROVE Ownership'
  BY <1>1, PoolAssumption DEF InitSetUp, TypeOK, Control, ExitPlace,
     Ownership, OneOwner, RunOnce, StackTaskConfined, WorkerPC, MainPC
<1>2. ASSUME InitSetUpFails PROVE Ownership'
  BY <1>2, PoolAssumption DEF InitSetUpFails, TypeOK, Control, ExitPlace,
     Ownership, OneOwner, RunOnce, StackTaskConfined, WorkerPC, MainPC
<1>3. ASSUME InitCallocFails PROVE Ownership'
  BY <1>3, PoolAssumption DEF InitCallocFails, TypeOK, Control, ExitPlace,
     Ownership, OneOwner, RunOnce, StackTaskConfined, WorkerPC, MainPC
<1>4. ASSUME NEW w \in Workers, CreateThread(w) PROVE Ownership'
  BY <1>4, PoolAssumption DEF CreateThread, TypeOK, Control, ExitPlace,
     Ownership, OneOwner, RunOnce, StackTaskConfined, WorkerPC, MainPC
<1>5. ASSUME CreateThreadFails PROVE Ownership'
  BY <1>5, PoolAssumption DEF CreateThreadFails, TypeOK, Control, ExitPlace,
     Ownership, OneOwner, RunOnce, StackTaskConfined, WorkerPC, MainPC
<1>6. ASSUME NEW t \in Tasks, CallPost(t) PROVE Ownership'
  BY <1>6, PoolAssumption DEF CallPost, TypeOK, Control, ExitPlace, Ownership,
     OneOwner, RunOnce, StackTaskConfined, WorkerPC, MainPC
<1>7. ASSUME PostLock PROVE Ownership'
  BY <1>7, PoolAssumption DEF PostLock, TypeOK, Control, ExitPlace, Ownership,
     OneOwner, RunOnce, StackTaskConfined, WorkerPC, MainPC
<1>8. ASSUME PostReject PROVE Ownership'
  BY <1>8, PoolAssumption DEF PostReject, TypeOK, Control, ExitPlace,
     Ownership, OneOwner, RunOnce, StackTaskConfined, WorkerPC, MainPC
<1>9. ASSUME PostAccept PROVE Ownership'
  <2>1. cur \in Tasks \cup {ExitTask}
    BY <1>9 DEF PostAccept, TypeOK, Control
  <2>2. /\ DOMAIN queue = 1 .. Len(queue)
        /\ DOMAIN queue' = 1 .. (Len(queue) + 1)
        /\ \A i \in 1 .. Len(queue) : queue'[i] = queue[i]
        /\ queue'[Len(queue) + 1] = cur
        /\ Len(queue) \in Nat
    BY <1>9, <2>1, AppendProperties DEF PostAccept, TypeOK
  <2>3. /\ \A w \in Workers : (pc'[w] = "run") = (pc[w] = "run")
        /\ UNCHANGED <<held, task, ran>>
        /\ cur' = NoTask
    BY <1>9 DEF PostAccept, Signal, TypeOK, taskVars
  <2>4. OneOwner'
    <3>1. \A i \in 1 .. Len(queue) : queue[i] # cur
      BY <2>1, <2>2, PoolAssumption DEF Ownership
    <3>2. ASSUME NEW i \in DOMAIN queue', NEW j \in DOMAIN queue', queue'[i] = queue'[j]
          PROVE  i = j
      <4>1. CASE i \in 1 .. Len(queue) /\ j \in 1 .. Len(queue)
        BY <2>2, <3>2, <4>1 DEF Ownership, OneOwner
      <4>2. CASE i = Len(queue) + 1 \/ j = Len(queue) + 1
        BY <2>2, <3>1, <3>2, <4>2
      <4> QED
        BY <2>2, <4>1, <4>2
    <3>3. ASSUME NEW w \in Workers, held[w] # NoTask
          PROVE  \A i \in DOMAIN queue' : queue'[i] # held[w]
      BY <2>1, <2>2, <3>3, PoolAssumption DEF Ownership, OneOwner
    <3> QED
      BY <2>3, <3>2, <3>3 DEF Ownership, OneOwner
  <2>5. RunOnce'
    BY <2>1, <2>2, <2>3 DEF Ownership, RunOnce, TypeOK
  <2>6. \A t \in Tasks : task'[t] = "allocated" =>
         \/ cur' = t
         \/ \E i \in DOMAIN queue' : queue'[i] = t
         \/ \E w \in Workers : held'[w] = t
    BY <2>1, <2>2, <2>3 DEF Ownership, TypeOK
  <2> QED
    BY <2>1, <2>3, <2>4, <2>5, <2>6, PoolAssumption DEF Ownership, TypeOK
<1>10. ASSUME CallDestroy PROVE Ownership'
  BY <1>10, PoolAssumption DEF CallDestroy, TypeOK, Control, ExitPlace,
     Ownership, OneOwner, RunOnce, StackTaskConfined, WorkerPC, MainPC
<1>11. ASSUME DestroyPostExit PROVE Ownership'
  BY <1>11, PoolAssumption DEF DestroyPostExit, TypeOK, Control, ExitPlace,
     Ownership, OneOwner, RunOnce, StackTaskConfined, WorkerPC, MainPC
<1>12. ASSUME DestroySpinEnds PROVE Ownership'
  BY <1>12, PoolAssumption DEF DestroySpinEnds, TypeOK, Control, ExitPlace,
     Ownership, OneOwner, RunOnce, StackTaskConfined, WorkerPC, MainPC
<1>13. ASSUME DestroyFree PROVE Ownership'
  BY <1>13, PoolAssumption DEF DestroyFree, TypeOK, Control, ExitPlace,
     Ownership, OneOwner, RunOnce, StackTaskConfined, WorkerPC, MainPC
<1>14. ASSUME NEW w \in Workers, WorkerLock(w) PROVE Ownership'
  BY <1>14, PoolAssumption DEF WorkerLock, TypeOK, Control, ExitPlace,
     Ownership, OneOwner, RunOnce, StackTaskConfined, WorkerPC, MainPC
<1>15. ASSUME NEW w \in Workers, WorkerWait(w) PROVE Ownership'
  BY <1>15, PoolAssumption DEF WorkerWait, TypeOK, Control, ExitPlace,
     Ownership, OneOwner, RunOnce, StackTaskConfined, WorkerPC, MainPC
<1>16. ASSUME NEW w \in Workers, WorkerRelock(w) PROVE Ownership'
  BY <1>16, PoolAssumption DEF WorkerRelock, TypeOK, Control, ExitPlace,
     Ownership, OneOwner, RunOnce, StackTaskConfined, WorkerPC, MainPC
<1>17. ASSUME NEW w \in Workers, WorkerTake(w) PROVE Ownership'
  <2>1. /\ DOMAIN queue = 1 .. Len(queue)
        /\ DOMAIN queue' = 1 .. (Len(queue) - 1)
        /\ \A i \in 1 .. (Len(queue) - 1) : queue'[i] = queue[i + 1]
        /\ Head(queue) = queue[1]
        /\ Len(queue) \in Nat \ {0}
        /\ queue[1] \in Tasks \cup {ExitTask}
    BY <1>17, HeadTailProperties DEF WorkerTake, TypeOK
  <2>2. /\ pc[w] = "test" /\ held[w] = NoTask
        /\ pc' = [pc EXCEPT ![w] = "run"]
        /\ held' = [held EXCEPT ![w] = queue[1]]
        /\ UNCHANGED <<task, ran, cur>>
    BY <1>17, <2>1 DEF WorkerTake, Control, mainVars, taskVars
  <2>e. \A i \in DOMAIN queue' :
          i + 1 \in DOMAIN queue /\ queue'[i] = queue[i + 1] /\ i + 1 # 1
    BY <2>1
  <2>h. \A v \in Workers : v # w => held'[v] = held[v] /\ held[v] # queue[1]
    BY <2>1, <2>2, PoolAssumption DEF Ownership, OneOwner, TypeOK
  <2>w. held'[w] = queue[1]
    BY <2>2 DEF TypeOK
  <2>3. OneOwner'
    <3>1. ASSUME NEW i \in DOMAIN queue', NEW j \in DOMAIN queue', queue'[i] = queue'[j]
          PROVE  i = j
      <4>1. i + 1 = j + 1
        BY <2>e, <3>1 DEF Ownership, OneOwner
      <4> QED
        BY <4>1, <2>1
    <3>2. ASSUME NEW v \in Workers, held'[v] # NoTask, NEW i \in DOMAIN queue'
          PROVE  queue'[i] # held'[v]
      <4>1. CASE v = w
        <5>1. queue[i + 1] # queue[1]
          BY <2>1, <2>e DEF Ownership, OneOwner
        <5> QED
          BY <5>1, <4>1, <2>e, <2>w
      <4>2. CASE v # w
        BY <4>2, <3>2, <2>e, <2>h DEF Ownership, OneOwner
      <4> QED
        BY <4>1, <4>2
    <3>3. ASSUME NEW u \in Workers, NEW v \in Workers,
                 held'[u] # NoTask, held'[v] = held'[u]
          PROVE  v = u
      BY <3>3, <2>h, <2>w DEF Ownership, OneOwner
    <3> QED
      BY <3>1, <3>2, <3>3 DEF OneOwner
  <2>4. RunOnce'
    <3>1. \A i \in DOMAIN queue' : queue'[i] \in Tasks =>
             task[queue'[i]] = "allocated" /\ ran[queue'[i]] = 0
      BY <2>e DEF Ownership, RunOnce
    <3>2. \A v \in Workers : held'[v] \in Tasks => task[held'[v]] = "allocated"
      BY <2>1, <2>h, <2>w DEF Ownership, RunOnce
    <3> QED
      BY <2>2, <3>1, <3>2 DEF Ownership, RunOnce
  <2>5. cur # NoTask => /\ \A i \in DOMAIN queue' : queue'[i] # cur
                        /\ \A v \in Workers : held'[v] # cur
    <3>1. cur # NoTask => \A i \in DOMAIN queue : queue[i] # cur
      BY DEF Ownership
    <3>2. cur # NoTask => \A i \in DOMAIN queue' : queue'[i] # cur
      BY <3>1, <2>e
    <3>3. cur # NoTask => \A v \in Workers : held'[v] # cur
      BY <3>1, <2>1, <2>h, <2>w DEF Ownership
    <3> QED
      BY <3>2, <3>3
  <2>6. \A v \in Workers : held'[v] \in Tasks =>
         ran[held'[v]] = IF pc'[v] = "run" THEN 0 ELSE 1
    BY <2>1, <2>2, PoolAssumption DEF Ownership, RunOnce, TypeOK
  <2>7. ASSUME NEW t \in Tasks, task[t] = "allocated", cur # t
        PROVE  \/ \E i \in DOMAIN queue' : queue'[i] = t
               \/ \E v \in Workers : held'[v] = t
    <3>1. CASE \E v \in Workers : held[v] = t
      BY <3>1, <2>2, PoolAssumption DEF TypeOK
    <3>2. ASSUME NEW i \in DOMAIN queue, queue[i] = t
          PROVE  \/ \E j \in DOMAIN queue' : queue'[j] = t
                 \/ \E v \in Workers : held'[v] = t
      <4>1. CASE i = 1
        BY <3>2, <4>1, <2>2 DEF TypeOK
      <4>2. CASE i # 1
        <5>1. i - 1 \in DOMAIN queue' /\ queue'[i - 1] = t
          BY <3>2, <4>2, <2>1
        <5> QED
          BY <5>1
      <4> QED
        BY <4>1, <4>2
    <3> QED
      BY <2>7, <3>1, <3>2 DEF Ownership
  <2> QED
    BY <2>2, <2>3, <2>4, <2>5, <2>6, <2>7 DEF Ownership
<1>18. ASSUME NEW w \in Workers, WorkerRun(w) PROVE Ownership'
  <2>1. /\ pc[w] = "run" /\ held[w] \in Tasks
        /\ pc' = [pc EXCEPT ![w] = "free"]
        /\ ran' = [ran EXCEPT ![held[w]] = @ + 1]
        /\ UNCHANGED <<queue, cur, held, task>>
        /\ ran[held[w]] = 0
    BY <1>18 DEF WorkerRun, Ownership, poolVars, mainVars
  <2>2. \A v \in Workers : v # w => held[v] # held[w]
    BY <2>1, PoolAssumption DEF Ownership, OneOwner
  <2>3. RunOnce'
    BY <2>1, <2>2, PoolAssumption DEF Ownership, OneOwner, RunOnce, TypeOK
  <2>4. cur # held[w] /\ task[held[w]] = "allocated"
    BY <2>1, PoolAssumption DEF Ownership, RunOnce
  <2>5. \A v \in Workers : held[v] \in Tasks =>
         ran'[held[v]] = IF pc'[v] = "run" THEN 0 ELSE 1
    BY <2>1, <2>2 DEF Ownership, TypeOK
  <2> QED
    <3>1. OneOwner'
      BY <2>1 DEF Ownership, OneOwner
    <3>2. \A t \in Tasks : t # held[w] => ran'[t] = ran[t]
      BY <2>1 DEF TypeOK
    <3> QED
      BY <2>1, <2>3, <2>4, <2>5, <3>1, <3>2 DEF Ownership
<1>19. ASSUME NEW w \in Workers, WorkerFree(w) PROVE Ownership'
  BY <1>19, PoolAssumption DEF WorkerFree, TypeOK, Control, ExitPlace,
     Ownership, OneOwner, RunOnce, StackTaskConfined, WorkerPC, MainPC
<1>20. ASSUME NEW w \in Workers, WorkerExit(w) PROVE Ownership'
  BY <1>20, PoolAssumption DEF WorkerExit, TypeOK, Control, ExitPlace,
     Ownership, OneOwner, RunOnce, StackTaskConfined, WorkerPC, MainPC
<1>21. ASSUME NEW w \in Workers, SpuriousWakeup(w) PROVE Ownership'
  BY <1>21, PoolAssumption DEF SpuriousWakeup, TypeOK, Control, ExitPlace,
     Ownership, OneOwner, RunOnce, StackTaskConfined, WorkerPC, MainPC
<1>22. ASSUME NEW w \in Workers, UseFreedPool(w) PROVE Ownership'
  BY <1>22, PoolAssumption DEF UseFreedPool, TypeOK, Control, ExitPlace,
     Ownership, OneOwner, RunOnce, StackTaskConfined, WorkerPC, MainPC
<1>23. CASE UNCHANGED vars
  BY <1>23 DEF vars, TypeOK, Control, ExitPlace, Ownership, OneOwner, RunOnce,
     StackTaskConfined, WorkerPC, MainPC
<1> QED
  BY <1>1, <1>2, <1>3, <1>4, <1>5, <1>6, <1>7, <1>8, <1>9, <1>10, <1>11,
     <1>12, <1>13, <1>14, <1>15, <1>16, <1>17, <1>18, <1>19, <1>20, <1>21,
     <1>22, <1>23
  DEF Next, MainStep, WorkerStep, Ended

\* A set of workers is finite, and is all of them when it is as large.
LEMMA WorkerSubset ==
  ASSUME NEW S \in SUBSET Workers
  PROVE  /\ IsFiniteSet(S)
         /\ Cardinality(S) \in Nat
         /\ Cardinality(S) <= NumThreads
         /\ Cardinality(S) = NumThreads => S = Workers
         /\ NumThreads \in Nat \ {0}
         /\ \A w \in Workers \ S : Cardinality(S \cup {w}) = Cardinality(S) + 1
         /\ \A w \in S : Cardinality(S \ {w}) = Cardinality(S) - 1
<1>1. IsFiniteSet(Workers) /\ Cardinality(Workers) \in Nat /\ Cardinality(Workers) # 0
  BY PoolAssumption, FS_CardinalityType, FS_EmptySet
<1>2. /\ IsFiniteSet(S)
      /\ Cardinality(S) <= Cardinality(Workers)
      /\ Cardinality(Workers) = Cardinality(S) => Workers = S
  BY <1>1, FS_Subset
<1>3. Cardinality(S) \in Nat
  BY <1>2, FS_CardinalityType
<1>4. \A w \in Workers \ S : Cardinality(S \cup {w}) = Cardinality(S) + 1
  BY <1>2, FS_AddElement
<1>5. \A w \in S : Cardinality(S \ {w}) = Cardinality(S) - 1
  BY <1>2, FS_RemoveElement
<1> QED
  BY <1>1, <1>2, <1>3, <1>4, <1>5 DEF NumThreads

\* Every step keeps what creation and destruction have reached.
LEMMA LifecycleStep ==
  TypeOK /\ Control /\ ExitPlace /\ Lifecycle /\ [Next]_vars => Lifecycle'
<1> SUFFICES ASSUME TypeOK, Control, ExitPlace, Lifecycle, [Next]_vars
             PROVE  Lifecycle'
  OBVIOUS
<1> USE DEF poolVars, mainVars, workVars, taskVars
<1>1. ASSUME ~ub, InitSetUp PROVE Lifecycle'
  <2>1. Exited' = Exited /\ Created' = Created
    BY <1>1 DEF InitSetUp, Exited, Created, TypeOK, workVars
  <2> QED
    BY <1>1, <2>1, PoolAssumption, FS_EmptySet DEF InitSetUp, TypeOK, Control,
       ExitPlace, StackTaskConfined, Lifecycle, NoUseAfterFree, MainPC,
       WorkerPC
<1>2. ASSUME ~ub, InitSetUpFails PROVE Lifecycle'
  <2>1. Exited' = Exited /\ Created' = Created
    BY <1>2 DEF InitSetUpFails, Exited, Created, TypeOK, workVars
  <2> QED
    BY <1>2, <2>1, PoolAssumption, WorkerSubset DEF InitSetUpFails, TypeOK,
       Control, ExitPlace, StackTaskConfined, Lifecycle, NoUseAfterFree,
       MainPC, WorkerPC
<1>3. ASSUME ~ub, InitCallocFails PROVE Lifecycle'
  <2>1. Exited' = Exited /\ Created' = Created
    BY <1>3 DEF InitCallocFails, Exited, Created, TypeOK, workVars
  <2> QED
    BY <1>3, <2>1, PoolAssumption, WorkerSubset DEF InitCallocFails, TypeOK,
       Control, ExitPlace, StackTaskConfined, Lifecycle, NoUseAfterFree,
       MainPC, WorkerPC
<1>4. ASSUME ~ub, NEW w \in Workers, CreateThread(w) PROVE Lifecycle'
  <2>1. Exited' = Exited /\ Exited = {}
    BY <1>4 DEF CreateThread, Lifecycle, Exited, TypeOK
  <2>2. /\ Created' = Created \cup {w}
        /\ w \in Workers \ Created
    BY <1>4 DEF CreateThread, Created, TypeOK
  <2>3. Cardinality(Created') = n + 1 /\ n + 1 <= NumThreads
    <3>1. Cardinality(Created') = n + 1
      BY <1>4, <2>2, WorkerSubset DEF CreateThread, Lifecycle, Created
    <3> QED
      BY <3>1, WorkerSubset DEF Created
  <2>4. n + 1 < NumThreads \/ Created' = Workers
    <3>1. Created' \in SUBSET Workers
      BY DEF Created
    <3> QED
      BY <2>3, <3>1, WorkerSubset DEF TypeOK
  <2> QED
    BY <1>4, <2>1, <2>3, <2>4, PoolAssumption, WorkerSubset DEF CreateThread,
       TypeOK, Control, ExitPlace, StackTaskConfined, Lifecycle,
       NoUseAfterFree, MainPC, WorkerPC
<1>5. ASSUME ~ub, CreateThreadFails PROVE Lifecycle'
  <2>1. Exited' = Exited /\ Created' = Created
    BY <1>5 DEF CreateThreadFails, Exited, Created, TypeOK, workVars
  <2> QED
    BY <1>5, <2>1, PoolAssumption, WorkerSubset DEF CreateThreadFails, TypeOK,
       Control, ExitPlace, StackTaskConfined, Lifecycle, NoUseAfterFree,
       MainPC, WorkerPC
<1>6. ASSUME ~ub, NEW t \in Tasks, CallPost(t) PROVE Lifecycle'
  <2>1. Exited' = Exited /\ Created' = Created
    BY <1>6 DEF CallPost, Exited, Created, TypeOK, workVars
  <2> QED
    BY <1>6, <2>1, PoolAssumption, WorkerSubset DEF CallPost, TypeOK, Control,
       ExitPlace, StackTaskConfined, Lifecycle, NoUseAfterFree, MainPC,
       WorkerPC
<1>7. ASSUME ~ub, PostLock PROVE Lifecycle'
  <2>1. Exited' = Exited /\ Created' = Created
    BY <1>7 DEF PostLock, Exited, Created, TypeOK, workVars
  <2> QED
    BY <1>7, <2>1, PoolAssumption, WorkerSubset DEF PostLock, TypeOK, Control,
       ExitPlace, StackTaskConfined, Lifecycle, NoUseAfterFree, MainPC,
       WorkerPC
<1>8. ASSUME ~ub, PostReject PROVE Lifecycle'
  <2>1. Exited' = Exited /\ Created' = Created
    BY <1>8 DEF PostReject, Exited, Created, TypeOK, workVars
  <2> QED
    BY <1>8, <2>1, PoolAssumption, WorkerSubset DEF PostReject, TypeOK,
       Control, ExitPlace, StackTaskConfined, Lifecycle, NoUseAfterFree,
       MainPC, WorkerPC
<1>9. ASSUME ~ub, PostAccept PROVE Lifecycle'
  <2>1. Exited' = Exited /\ Created' = Created
    BY <1>9 DEF PostAccept, Signal, Exited, Created, TypeOK
  <2> QED
    BY <1>9, <2>1, PoolAssumption, WorkerSubset DEF PostAccept, TypeOK,
       Control, ExitPlace, StackTaskConfined, Lifecycle, NoUseAfterFree,
       MainPC, WorkerPC
<1>10. ASSUME ~ub, CallDestroy PROVE Lifecycle'
  <2>1. Exited' = Exited /\ Created' = Created /\ Exited = {} /\ Cardinality(Exited) = 0
    BY <1>10, FS_EmptySet DEF CallDestroy, Lifecycle, Exited, Created,
       workVars
  <2> QED
    BY <1>10, <2>1, PoolAssumption, WorkerSubset DEF CallDestroy, TypeOK,
       Control, ExitPlace, StackTaskConfined, Lifecycle, NoUseAfterFree,
       MainPC, WorkerPC
<1>11. ASSUME ~ub, DestroyPostExit PROVE Lifecycle'
  <2>1. Exited' = Exited /\ Created' = Created
    BY <1>11 DEF DestroyPostExit, Exited, Created, TypeOK, workVars
  <2> QED
    BY <1>11, <2>1, PoolAssumption, WorkerSubset DEF DestroyPostExit, TypeOK,
       Control, ExitPlace, StackTaskConfined, Lifecycle, NoUseAfterFree,
       MainPC, WorkerPC
<1>12. ASSUME ~ub, DestroySpinEnds PROVE Lifecycle'
  <2>1. Exited' = Exited /\ Created' = Created
    BY <1>12 DEF DestroySpinEnds, Exited, Created, TypeOK, workVars
  <2> QED
    BY <1>12, <2>1, PoolAssumption, WorkerSubset DEF DestroySpinEnds, TypeOK,
       Control, ExitPlace, StackTaskConfined, Lifecycle, NoUseAfterFree,
       MainPC, WorkerPC
<1>13. ASSUME ~ub, DestroyFree PROVE Lifecycle'
  <2>1. Exited' = Exited /\ Created' = Created
    BY <1>13 DEF DestroyFree, Exited, Created, TypeOK, workVars
  <2> QED
    BY <1>13, <2>1, PoolAssumption, WorkerSubset DEF DestroyFree, TypeOK,
       Control, ExitPlace, StackTaskConfined, Lifecycle, NoUseAfterFree,
       MainPC, WorkerPC
<1>14. ASSUME ~ub, NEW w \in Workers, WorkerLock(w) PROVE Lifecycle'
  <2>1. Exited' = Exited /\ Created' = Created
    BY <1>14 DEF WorkerLock, Exited, Created, TypeOK, workVars
  <2> QED
    BY <1>14, <2>1, PoolAssumption, WorkerSubset DEF WorkerLock, TypeOK,
       Control, ExitPlace, StackTaskConfined, Lifecycle, NoUseAfterFree,
       MainPC, WorkerPC
<1>15. ASSUME ~ub, NEW w \in Workers, WorkerWait(w) PROVE Lifecycle'
  <2>1. Exited' = Exited /\ Created' = Created
    BY <1>15 DEF WorkerWait, Exited, Created, TypeOK, workVars
  <2> QED
    BY <1>15, <2>1, PoolAssumption, WorkerSubset DEF WorkerWait, TypeOK,
       Control, ExitPlace, StackTaskConfined, Lifecycle, NoUseAfterFree,
       MainPC, WorkerPC
<1>16. ASSUME ~ub, NEW w \in Workers, WorkerRelock(w) PROVE Lifecycle'
  <2>1. Exited' = Exited /\ Created' = Created
    BY <1>16 DEF WorkerRelock, Exited, Created, TypeOK, workVars
  <2> QED
    BY <1>16, <2>1, PoolAssumption, WorkerSubset DEF WorkerRelock, TypeOK,
       Control, ExitPlace, StackTaskConfined, Lifecycle, NoUseAfterFree,
       MainPC, WorkerPC
<1>17. ASSUME ~ub, NEW w \in Workers, WorkerTake(w) PROVE Lifecycle'
  <2>1. Exited' = Exited /\ Created' = Created
    BY <1>17 DEF WorkerTake, Exited, Created, TypeOK, workVars
  <2> QED
    BY <1>17, <2>1, PoolAssumption, WorkerSubset DEF WorkerTake, TypeOK,
       Control, ExitPlace, StackTaskConfined, Lifecycle, NoUseAfterFree,
       MainPC, WorkerPC
<1>18. ASSUME ~ub, NEW w \in Workers, WorkerRun(w) PROVE Lifecycle'
  <2>1. Exited' = Exited /\ Created' = Created
    BY <1>18 DEF WorkerRun, Exited, Created, TypeOK, workVars
  <2> QED
    BY <1>18, <2>1, PoolAssumption, WorkerSubset DEF WorkerRun, TypeOK,
       Control, ExitPlace, StackTaskConfined, Lifecycle, NoUseAfterFree,
       MainPC, WorkerPC
<1>19. ASSUME ~ub, NEW w \in Workers, WorkerFree(w) PROVE Lifecycle'
  <2>1. Exited' = Exited /\ Created' = Created
    BY <1>19 DEF WorkerFree, Exited, Created, TypeOK, workVars
  <2> QED
    BY <1>19, <2>1, PoolAssumption, WorkerSubset DEF WorkerFree, TypeOK,
       Control, ExitPlace, StackTaskConfined, Lifecycle, NoUseAfterFree,
       MainPC, WorkerPC
<1>20. ASSUME ~ub, NEW w \in Workers, WorkerExit(w) PROVE Lifecycle'
  <2>1. main = "spin" /\ lock = 1 /\ queue = <<>>
    BY <1>20 DEF WorkerExit, ExitPlace, StackTaskConfined
  <2>2. /\ Exited' = Exited \cup {w}
        /\ w \in Workers \ Exited
        /\ Created' = Created
    BY <1>20 DEF WorkerExit, Exited, Created, TypeOK
  <2>3. Cardinality(Exited') = n + 1
    BY <2>1, <2>2, WorkerSubset DEF Lifecycle, Exited
  <2> QED
    BY <1>20, <2>1, <2>2, <2>3, PoolAssumption, WorkerSubset DEF WorkerExit,
       TypeOK, Control, ExitPlace, StackTaskConfined, Lifecycle,
       NoUseAfterFree, MainPC, WorkerPC
<1>21. ASSUME ~ub, NEW w \in Workers, SpuriousWakeup(w) PROVE Lifecycle'
  <2>1. Exited' = Exited /\ Created' = Created
    BY <1>21 DEF SpuriousWakeup, Exited, Created, TypeOK, workVars
  <2> QED
    BY <1>21, <2>1, PoolAssumption, WorkerSubset DEF SpuriousWakeup, TypeOK,
       Control, ExitPlace, StackTaskConfined, Lifecycle, NoUseAfterFree,
       MainPC, WorkerPC
<1>22. ASSUME ~ub, NEW w \in Workers, UseFreedPool(w) PROVE Lifecycle'
  <2>1. Exited' = Exited /\ Created' = Created /\ w \notin Exited
    BY <1>22 DEF UseFreedPool, Exited, Created, workVars
  <2>2. Cardinality(Exited) # NumThreads
    <3>1. Exited \in SUBSET Workers
      BY DEF Exited
    <3> QED
      BY <2>1, <3>1, WorkerSubset
  <2> QED
    BY <1>22, <2>1, <2>2 DEF UseFreedPool, TypeOK, Control, ExitPlace,
       StackTaskConfined, Lifecycle, NoUseAfterFree, MainPC, WorkerPC
<1>23. CASE UNCHANGED vars
  <2>1. Exited' = Exited /\ Created' = Created
    BY <1>23 DEF Exited, Created, vars
  <2> QED
    BY <1>23, <2>1 DEF vars, TypeOK, Control, ExitPlace, StackTaskConfined,
       Lifecycle, NoUseAfterFree, MainPC, WorkerPC
<1> QED
  BY <1>1, <1>2, <1>3, <1>4, <1>5, <1>6, <1>7, <1>8, <1>9, <1>10, <1>11,
     <1>12, <1>13, <1>14, <1>15, <1>16, <1>17, <1>18, <1>19, <1>20, <1>21,
     <1>22, <1>23
  DEF Next, MainStep, WorkerStep, Ended

\* Every step keeps tp->waiting equal to the tasks less the idle workers, and
\* keeps an awake worker for every task while another one sleeps.
LEMMA CountingStep ==
  TypeOK /\ Control /\ WaitingCount /\ NoLostWakeup /\ [Next]_vars
    => WaitingCount' /\ NoLostWakeup'
<1> SUFFICES ASSUME TypeOK, Control, WaitingCount, NoLostWakeup, [Next]_vars
             PROVE  WaitingCount' /\ NoLostWakeup'
  OBVIOUS
<1> USE DEF poolVars, mainVars, workVars, taskVars
<1>1. ASSUME InitSetUp PROVE WaitingCount' /\ NoLostWakeup'
  <2>1. /\ Idle' = Idle
        /\ Awake' = Awake
        /\ \A v \in Workers : pc'[v] = "wait" <=> pc[v] = "wait"
    BY <1>1 DEF InitSetUp, Idle, Awake, TypeOK
  <2>2. queue' = queue /\ waiting' = waiting
    BY <1>1 DEF InitSetUp
  <2> QED
    BY <2>1, <2>2 DEF WaitingCount, NoLostWakeup
<1>2. ASSUME InitSetUpFails PROVE WaitingCount' /\ NoLostWakeup'
  <2>1. /\ Idle' = Idle
        /\ Awake' = Awake
        /\ \A v \in Workers : pc'[v] = "wait" <=> pc[v] = "wait"
    BY <1>2 DEF InitSetUpFails, Idle, Awake, TypeOK
  <2>2. queue' = queue /\ waiting' = waiting
    BY <1>2 DEF InitSetUpFails
  <2> QED
    BY <2>1, <2>2 DEF WaitingCount, NoLostWakeup
<1>3. ASSUME InitCallocFails PROVE WaitingCount' /\ NoLostWakeup'
  <2>1. /\ Idle' = Idle
        /\ Awake' = Awake
        /\ \A v \in Workers : pc'[v] = "wait" <=> pc[v] = "wait"
    BY <1>3 DEF InitCallocFails, Idle, Awake, TypeOK
  <2>2. queue' = queue /\ waiting' = waiting
    BY <1>3 DEF InitCallocFails
  <2> QED
    BY <2>1, <2>2 DEF WaitingCount, NoLostWakeup
<1>4. ASSUME NEW w \in Workers, CreateThread(w) PROVE WaitingCount' /\ NoLostWakeup'
  <2>1. /\ Idle' = Idle
        /\ Awake' = Awake
        /\ \A v \in Workers : pc'[v] = "wait" <=> pc[v] = "wait"
    BY <1>4 DEF CreateThread, Idle, Awake, TypeOK
  <2>2. queue' = queue /\ waiting' = waiting
    BY <1>4 DEF CreateThread
  <2> QED
    BY <2>1, <2>2 DEF WaitingCount, NoLostWakeup
<1>5. ASSUME CreateThreadFails PROVE WaitingCount' /\ NoLostWakeup'
  <2>1. /\ Idle' = Idle
        /\ Awake' = Awake
        /\ \A v \in Workers : pc'[v] = "wait" <=> pc[v] = "wait"
    BY <1>5 DEF CreateThreadFails, Idle, Awake, TypeOK
  <2>2. queue' = queue /\ waiting' = waiting
    BY <1>5 DEF CreateThreadFails
  <2> QED
    BY <2>1, <2>2 DEF WaitingCount, NoLostWakeup
<1>6. ASSUME NEW t \in Tasks, CallPost(t) PROVE WaitingCount' /\ NoLostWakeup'
  <2>1. /\ Idle' = Idle
        /\ Awake' = Awake
        /\ \A v \in Workers : pc'[v] = "wait" <=> pc[v] = "wait"
    BY <1>6 DEF CallPost, Idle, Awake, TypeOK
  <2>2. queue' = queue /\ waiting' = waiting
    BY <1>6 DEF CallPost
  <2> QED
    BY <2>1, <2>2 DEF WaitingCount, NoLostWakeup
<1>7. ASSUME PostLock PROVE WaitingCount' /\ NoLostWakeup'
  <2>1. /\ Idle' = Idle
        /\ Awake' = Awake
        /\ \A v \in Workers : pc'[v] = "wait" <=> pc[v] = "wait"
    BY <1>7 DEF PostLock, Idle, Awake, TypeOK
  <2>2. queue' = queue /\ waiting' = waiting
    BY <1>7 DEF PostLock
  <2> QED
    BY <2>1, <2>2 DEF WaitingCount, NoLostWakeup
<1>8. ASSUME PostReject PROVE WaitingCount' /\ NoLostWakeup'
  <2>1. /\ Idle' = Idle
        /\ Awake' = Awake
        /\ \A v \in Workers : pc'[v] = "wait" <=> pc[v] = "wait"
    BY <1>8 DEF PostReject, Idle, Awake, TypeOK
  <2>2. queue' = queue /\ waiting' = waiting
    BY <1>8 DEF PostReject
  <2> QED
    BY <2>1, <2>2 DEF WaitingCount, NoLostWakeup
<1>9. ASSUME PostAccept PROVE WaitingCount' /\ NoLostWakeup'
  <2>1. cur \in Tasks \cup {ExitTask}
    BY <1>9 DEF PostAccept, TypeOK, Control
  <2>2. /\ Len(queue) \in Nat
        /\ Len(queue') = Len(queue) + 1
        /\ waiting' = waiting + 1
        /\ waiting' <= MaxQueue
    BY <1>9, <2>1, PoolAssumption DEF PostAccept, TypeOK
  <2>3. Cardinality(Idle) \in Nat /\ Cardinality(Awake) \in Nat
    BY WorkerSubset DEF Idle, Awake
  <2>4. CASE ~ \E v \in Workers : pc[v] = "wait"
    <3>1. Idle' = Idle /\ ~ \E v \in Workers : pc'[v] = "wait"
      BY <1>9, <2>4 DEF PostAccept, Signal, Idle
    <3> QED
      BY <2>2, <2>3, <3>1 DEF WaitingCount, NoLostWakeup, TypeOK
  <2>5. CASE \E v \in Workers : pc[v] = "wait"
    <3>1. PICK w \in Workers : pc[w] = "wait" /\ pc' = [pc EXCEPT ![w] = "woken"]
      BY <1>9, <2>5 DEF PostAccept, Signal
    <3>2. /\ Idle' = Idle
          /\ Awake' = Awake \cup {w}
          /\ w \in Workers \ Awake
      BY <3>1 DEF Idle, Awake, TypeOK
    <3>3. Cardinality(Awake') = Cardinality(Awake) + 1
      BY <3>2, WorkerSubset DEF Awake
    <3> QED
      BY <2>2, <2>3, <2>5, <3>2, <3>3 DEF WaitingCount, NoLostWakeup, TypeOK
  <2> QED
    BY <2>4, <2>5
<1>10. ASSUME CallDestroy PROVE WaitingCount' /\ NoLostWakeup'
  <2>1. /\ Idle' = Idle
        /\ Awake' = Awake
        /\ \A v \in Workers : pc'[v] = "wait" <=> pc[v] = "wait"
    BY <1>10 DEF CallDestroy, Idle, Awake, TypeOK
  <2>2. queue' = queue /\ waiting' = waiting
    BY <1>10 DEF CallDestroy
  <2> QED
    BY <2>1, <2>2 DEF WaitingCount, NoLostWakeup
<1>11. ASSUME DestroyPostExit PROVE WaitingCount' /\ NoLostWakeup'
  <2>1. /\ Idle' = Idle
        /\ Awake' = Awake
        /\ \A v \in Workers : pc'[v] = "wait" <=> pc[v] = "wait"
    BY <1>11 DEF DestroyPostExit, Idle, Awake, TypeOK
  <2>2. queue' = queue /\ waiting' = waiting
    BY <1>11 DEF DestroyPostExit
  <2> QED
    BY <2>1, <2>2 DEF WaitingCount, NoLostWakeup
<1>12. ASSUME DestroySpinEnds PROVE WaitingCount' /\ NoLostWakeup'
  <2>1. /\ Idle' = Idle
        /\ Awake' = Awake
        /\ \A v \in Workers : pc'[v] = "wait" <=> pc[v] = "wait"
    BY <1>12 DEF DestroySpinEnds, Idle, Awake, TypeOK
  <2>2. queue' = queue /\ waiting' = waiting
    BY <1>12 DEF DestroySpinEnds
  <2> QED
    BY <2>1, <2>2 DEF WaitingCount, NoLostWakeup
<1>13. ASSUME DestroyFree PROVE WaitingCount' /\ NoLostWakeup'
  <2>1. /\ Idle' = Idle
        /\ Awake' = Awake
        /\ \A v \in Workers : pc'[v] = "wait" <=> pc[v] = "wait"
    BY <1>13 DEF DestroyFree, Idle, Awake, TypeOK
  <2>2. queue' = queue /\ waiting' = waiting
    BY <1>13 DEF DestroyFree
  <2> QED
    BY <2>1, <2>2 DEF WaitingCount, NoLostWakeup
<1>14. ASSUME NEW w \in Workers, WorkerLock(w) PROVE WaitingCount' /\ NoLostWakeup'
  <2>1. /\ Idle' = Idle \cup {w}
        /\ w \in Workers \ Idle
        /\ Awake' = Awake \cup {w}
        /\ w \in Workers \ Awake
    BY <1>14 DEF WorkerLock, Idle, Awake, TypeOK
  <2>2. /\ Cardinality(Idle) \in Nat
        /\ Cardinality(Awake) \in Nat
        /\ Cardinality(Idle') = Cardinality(Idle) + 1
        /\ Cardinality(Awake') = Cardinality(Awake) + 1
    BY <2>1, WorkerSubset DEF Idle, Awake
  <2>3. (\E v \in Workers : pc'[v] = "wait") => \E v \in Workers : pc[v] = "wait"
    BY <1>14 DEF WorkerLock, TypeOK
  <2>4. Len(queue) \in Nat /\ queue' = queue /\ waiting' = waiting - 1
    BY <1>14 DEF WorkerLock, TypeOK
  <2> QED
    BY <2>2, <2>3, <2>4, PoolAssumption DEF WaitingCount, NoLostWakeup, TypeOK
<1>15. ASSUME NEW w \in Workers, WorkerWait(w) PROVE WaitingCount' /\ NoLostWakeup'
  <2>1. Idle' = Idle
    BY <1>15 DEF WorkerWait, Idle, TypeOK
  <2>2. Cardinality(Awake') \in Nat
    BY WorkerSubset DEF Awake
  <2>3. Len(queue') = 0 /\ queue' = queue /\ waiting' = waiting
    BY <1>15 DEF WorkerWait
  <2> QED
    BY <2>1, <2>2, <2>3 DEF WaitingCount, NoLostWakeup
<1>16. ASSUME NEW w \in Workers, WorkerRelock(w) PROVE WaitingCount' /\ NoLostWakeup'
  <2>1. /\ Idle' = Idle
        /\ Awake' = Awake
        /\ \A v \in Workers : pc'[v] = "wait" <=> pc[v] = "wait"
    BY <1>16 DEF WorkerRelock, Idle, Awake, TypeOK
  <2>2. queue' = queue /\ waiting' = waiting
    BY <1>16 DEF WorkerRelock
  <2> QED
    BY <2>1, <2>2 DEF WaitingCount, NoLostWakeup
<1>17. ASSUME NEW w \in Workers, WorkerTake(w) PROVE WaitingCount' /\ NoLostWakeup'
  <2>1. /\ Idle' = Idle \ {w}
        /\ w \in Idle
        /\ Awake' = Awake \ {w}
        /\ w \in Awake
    BY <1>17 DEF WorkerTake, Idle, Awake, TypeOK
  <2>2. /\ Cardinality(Idle) \in Nat
        /\ Cardinality(Awake) \in Nat
        /\ Cardinality(Idle') = Cardinality(Idle) - 1
        /\ Cardinality(Awake') = Cardinality(Awake) - 1
    BY <2>1, WorkerSubset DEF Idle, Awake
  <2>3. (\E v \in Workers : pc'[v] = "wait") => \E v \in Workers : pc[v] = "wait"
    BY <1>17 DEF WorkerTake, TypeOK
  <2>4. Len(queue) \in Nat /\ Len(queue') = Len(queue) - 1 /\ waiting' = waiting
    BY <1>17, HeadTailProperties DEF WorkerTake, TypeOK
  <2> QED
    BY <2>2, <2>3, <2>4 DEF WaitingCount, NoLostWakeup, TypeOK
<1>18. ASSUME NEW w \in Workers, WorkerRun(w) PROVE WaitingCount' /\ NoLostWakeup'
  <2>1. /\ Idle' = Idle
        /\ Awake' = Awake
        /\ \A v \in Workers : pc'[v] = "wait" <=> pc[v] = "wait"
    BY <1>18 DEF WorkerRun, Idle, Awake, TypeOK
  <2>2. queue' = queue /\ waiting' = waiting
    BY <1>18 DEF WorkerRun
  <2> QED
    BY <2>1, <2>2 DEF WaitingCount, NoLostWakeup
<1>19. ASSUME NEW w \in Workers, WorkerFree(w) PROVE WaitingCount' /\ NoLostWakeup'
  <2>1. /\ Idle' = Idle
        /\ Awake' = Awake
        /\ \A v \in Workers : pc'[v] = "wait" <=> pc[v] = "wait"
    BY <1>19 DEF WorkerFree, Idle, Awake, TypeOK
  <2>2. queue' = queue /\ waiting' = waiting
    BY <1>19 DEF WorkerFree
  <2> QED
    BY <2>1, <2>2 DEF WaitingCount, NoLostWakeup
<1>20. ASSUME NEW w \in Workers, WorkerExit(w) PROVE WaitingCount' /\ NoLostWakeup'
  <2>1. /\ Idle' = Idle
        /\ Awake' = Awake
        /\ \A v \in Workers : pc'[v] = "wait" <=> pc[v] = "wait"
    BY <1>20 DEF WorkerExit, Idle, Awake, TypeOK
  <2>2. queue' = queue /\ waiting' = waiting
    BY <1>20 DEF WorkerExit
  <2> QED
    BY <2>1, <2>2 DEF WaitingCount, NoLostWakeup
<1>21. ASSUME NEW w \in Workers, SpuriousWakeup(w) PROVE WaitingCount' /\ NoLostWakeup'
  <2>1. /\ Idle' = Idle
        /\ Awake' = Awake \cup {w}
        /\ w \in Workers \ Awake
    BY <1>21 DEF SpuriousWakeup, Idle, Awake, TypeOK
  <2>2. /\ Cardinality(Awake) \in Nat
        /\ Cardinality(Awake') = Cardinality(Awake) + 1
    BY <2>1, WorkerSubset DEF Awake
  <2>3. queue' = queue /\ waiting' = waiting /\ Len(queue) \in Nat
    BY <1>21 DEF SpuriousWakeup, TypeOK
  <2> QED
    BY <1>21, <2>1, <2>2, <2>3 DEF SpuriousWakeup, WaitingCount, NoLostWakeup
<1>22. ASSUME NEW w \in Workers, UseFreedPool(w) PROVE WaitingCount' /\ NoLostWakeup'
  <2>1. /\ Idle' = Idle
        /\ Awake' = Awake
        /\ \A v \in Workers : pc'[v] = "wait" <=> pc[v] = "wait"
    BY <1>22 DEF UseFreedPool, Idle, Awake, TypeOK
  <2>2. queue' = queue /\ waiting' = waiting
    BY <1>22 DEF UseFreedPool
  <2> QED
    BY <2>1, <2>2 DEF WaitingCount, NoLostWakeup
<1>23. CASE UNCHANGED vars
  BY <1>23 DEF vars, WaitingCount, NoLostWakeup, Idle, Awake
<1> QED
  BY <1>1, <1>2, <1>3, <1>4, <1>5, <1>6, <1>7, <1>8, <1>9, <1>10, <1>11,
     <1>12, <1>13, <1>14, <1>15, <1>16, <1>17, <1>18, <1>19, <1>20, <1>21,
     <1>22, <1>23
  DEF Next, MainStep, WorkerStep, Ended

\* The invariant holds when thread_pool_init is called.
LEMMA InitInv == Init => Inv
<1> SUFFICES ASSUME Init PROVE Inv
  OBVIOUS
<1>1. TypeOK /\ Control
  BY InitTyped
<1>2. ExitPlace
  BY PoolAssumption DEF Init, ExitPlace, StackTaskConfined
<1>3. Ownership
  BY PoolAssumption DEF Init, Ownership, OneOwner, RunOnce
<1>4. Exited = {} /\ Created = {} /\ Idle = {} /\ NumThreads \in Nat
  BY WorkerSubset DEF Init, Exited, Created, Idle
<1>5. Lifecycle
  BY <1>4, PoolAssumption DEF Init, Lifecycle, NoUseAfterFree
<1>6. WaitingCount /\ NoLostWakeup
  BY <1>4, FS_EmptySet, PoolAssumption DEF Init, WaitingCount, NoLostWakeup
<1> QED
  BY <1>1, <1>2, <1>3, <1>5, <1>6 DEF Inv

\* All layers of the invariant hold in every reachable state of the pool.
THEOREM Invariance == Spec => []Inv
<1>1. Init => Inv
  BY InitInv
<1>2. Inv /\ [Next]_vars => Inv'
  BY ControlStep, ExitPlaceStep, OwnershipStep, LifecycleStep, CountingStep
     DEF Inv
<1> QED
  BY <1>1, <1>2, PTL DEF Spec

\* The counter that thread_task_post compares with max_queue is exact, and
\* never passes max_queue, with any number of threads.
THEOREM CounterExact == Spec => []WaitingCount
<1>1. Inv => WaitingCount
  BY DEF Inv
<1> QED
  BY <1>1, Invariance, PTL

\* A signal is never lost: although thread_task_post signals before it links
\* the task, a worker never sleeps while more tasks are queued than awake
\* workers will take.
THEOREM WakeupSafe == Spec => []NoLostWakeup
<1>1. Inv => NoLostWakeup
  BY DEF Inv
<1> QED
  BY <1>1, Invariance, PTL

\* A task object is never queued twice, shared by two workers, run twice, or
\* freed while somebody can still reach it.
THEOREM TaskSafe == Spec => [](OneOwner /\ RunOnce)
<1>1. Inv => OneOwner /\ RunOnce
  BY DEF Inv, Ownership
<1> QED
  BY <1>1, Invariance, PTL

\* The stack variables of thread_pool_destroy are out of every worker's reach
\* when that function posts again or returns.
THEOREM StackSafe == Spec => []StackTaskConfined
<1>1. Inv => StackTaskConfined
  BY DEF Inv, ExitPlace
<1> QED
  BY <1>1, Invariance, PTL

\* Only a thread_pool_init that failed half way lets a worker use freed memory.
THEOREM MemorySafe == Spec => []NoUseAfterFree
<1>1. Inv => NoUseAfterFree
  BY DEF Inv, Lifecycle
<1> QED
  BY <1>1, Invariance, PTL

\* thread_pool_destroy, when it does not give up, leaves no accepted task
\* behind and no thread inside the pool.
THEOREM DestroySafe == Spec => []DestroyDrains
<1>1. Inv => DestroyDrains
  <2> SUFFICES ASSUME Inv, main = "destroyed"
               PROVE  /\ queue = <<>>
                      /\ mtx = NoOwner
                      /\ \A w \in Workers : pc[w] = "exited"
                      /\ \A t \in Tasks : task[t] # "allocated"
    BY DEF DestroyDrains
  <2>1. queue = <<>> /\ Cardinality(Exited) = NumThreads
    BY DEF Inv, Lifecycle
  <2>2. Exited = Workers
    <3>1. Exited \in SUBSET Workers
      BY DEF Exited
    <3> QED
      BY <2>1, <3>1, WorkerSubset
  <2>3. \A w \in Workers : pc[w] = "exited"
    BY <2>2 DEF Exited
  <2>4. mtx = NoOwner
    BY <2>3 DEF Inv, TypeOK, Control
  <2>5. \A w \in Workers : held[w] = NoTask
    BY <2>3 DEF Inv, Control
  <2>6. cur = NoTask
    BY DEF Inv, Control
  <2>7. \A t \in Tasks : task[t] # "allocated"
    BY <2>1, <2>5, <2>6, PoolAssumption DEF Inv, Ownership
  <2> QED
    BY <2>1, <2>3, <2>4, <2>7
<1> QED
  BY <1>1, Invariance, PTL
-----------------------------------------------------------------------------
(***************************************************************************)
(* The pool implements TaskService.  The refinement mapping of ThreadPool  *)
(* hides the exit task, so the argument has two halves: what the mapping   *)
(* shows of a queue (ClientPartFacts, ClientPartTail), and one lemma for   *)
(* each pool action that the client can see.                               *)
(***************************************************************************)

\* The refinement mapping, by name.
RunningTasks == {t \in Tasks : \E w \in Workers : held[w] = t /\ pc[w] = "run"}
DoneTasks == {t \in Tasks : ran[t] > 0}
RefusedTasks == {t \in Tasks : task[t] = "leaked"}

\* ClientQueue as a function of the queue.
ClientPart(q) ==
    IF q # <<>> /\ q[Len(q)] = ExitTask THEN SubSeq(q, 1, Len(q) - 1) ELSE q

\* What a client sees of a queue in which only the last task can be the exit
\* task: its own tasks, in their places.
LEMMA ClientPartFacts ==
  ASSUME NEW q \in Seq(Tasks \cup {ExitTask}),
         \A i \in DOMAIN q : q[i] = ExitTask => i = Len(q)
  PROVE  /\ ClientPart(q) \in Seq(Tasks)
         /\ Len(ClientPart(q)) =
              IF q # <<>> /\ q[Len(q)] = ExitTask THEN Len(q) - 1 ELSE Len(q)
         /\ \A i \in 1 .. Len(ClientPart(q)) : ClientPart(q)[i] = q[i]
<1>1. Len(q) \in Nat /\ DOMAIN q = 1 .. Len(q)
  BY LenProperties
<1>2. CASE q # <<>> /\ q[Len(q)] = ExitTask
  <2>1. Len(q) \in 1 .. Len(q)
    BY <1>1, <1>2, EmptySeq
  <2>2. ClientPart(q) = SubSeq(q, 1, Len(q) - 1)
    BY <1>2 DEF ClientPart
  <2>3. \A i \in 1 .. Len(q) - 1 : q[i] \in Tasks
    BY <1>1, ElementOfSeq
  <2>4. /\ SubSeq(q, 1, Len(q) - 1) \in Seq(Tasks)
        /\ Len(SubSeq(q, 1, Len(q) - 1)) = Len(q) - 1
        /\ \A i \in 1 .. Len(q) - 1 : SubSeq(q, 1, Len(q) - 1)[i] = q[i]
    BY <1>1, <2>1, <2>3, SubSeqProperties
  <2> QED
    BY <1>2, <2>2, <2>4
<1>3. CASE ~(q # <<>> /\ q[Len(q)] = ExitTask)
  <2>1. ClientPart(q) = q
    BY <1>3 DEF ClientPart
  <2>2. \A i \in 1 .. Len(q) : q[i] \in Tasks
    BY <1>1, <1>3, EmptySeq
  <2>3. q \in Seq(Tasks)
    BY <1>1, <2>2
  <2> QED
    BY <1>1, <1>3, <2>1, <2>3
<1> QED
  BY <1>2, <1>3

\* Without an exit task in it the client's queue is the queue.
LEMMA ClientQueueFacts ==
  ASSUME TypeOK, \A i \in DOMAIN queue : queue[i] # ExitTask
  PROVE  ClientQueue = queue /\ queue \in Seq(Tasks)
<1>1. queue # <<>> => Len(queue) \in DOMAIN queue
  BY EmptySeq, LenProperties DEF TypeOK
<1>2. queue[Len(queue)] = ExitTask => queue = <<>>
  BY <1>1
<1>3. ClientQueue = queue
  BY <1>2 DEF ClientQueue
<1>4. \A i \in DOMAIN queue : queue[i] \in Tasks
  BY LenProperties DEF TypeOK
<1> QED
  BY <1>3, <1>4, LenProperties DEF TypeOK

\* A step that leaves the queue and the mapped sets alone is invisible.
LEMMA ServiceStutter ==
  ASSUME queue' = queue, RunningTasks' = RunningTasks, DoneTasks' = DoneTasks,
         RefusedTasks' = RefusedTasks
  PROVE  UNCHANGED Service!vars
  BY DEF ClientQueue, Service!vars, RunningTasks, DoneTasks, RefusedTasks

\* A worker outside a handler leaves room for one more running task.
LEMMA RunningBound ==
  ASSUME TypeOK, NEW w \in Workers, pc[w] # "run"
  PROVE  Cardinality(RunningTasks) < NumThreads
<1> DEFINE R == {v \in Workers : pc[v] = "run" /\ held[v] \in Tasks}
<1> DEFINE f == [v \in R |-> held[v]]
<1>1. R \in SUBSET Workers /\ R # Workers
  OBVIOUS
<1>2. IsFiniteSet(R) /\ Cardinality(R) \in Nat /\ Cardinality(R) < NumThreads
  BY <1>1, WorkerSubset
<1>3. f \in Surjection(R, RunningTasks)
  <2>1. \A v \in R : f[v] \in RunningTasks
    BY DEF RunningTasks
  <2>2. \A t \in RunningTasks : \E v \in R : f[v] = t
    BY DEF RunningTasks
  <2> QED
    BY <2>1, <2>2 DEF Surjection
<1>4. IsFiniteSet(RunningTasks) /\ Cardinality(RunningTasks) <= Cardinality(R)
  <2> HIDE DEF R, f
  <2> QED
    BY <1>2, <1>3, FS_Surjection
<1>5. Cardinality(RunningTasks) \in Nat
  BY <1>4, FS_CardinalityType
<1> QED
  BY <1>2, <1>4, <1>5, WorkerSubset DEF NumThreads

\* thread_task_post refuses a client's task: Refuse.
LEMMA RefuseStep ==
  ASSUME Inv, PostReject, NEW t \in Tasks, cur = t
  PROVE  Service!Refuse(t)
<1> USE DEF Inv
<1>1. main = "post" /\ cur # ExitTask /\ waiting >= MaxQueue
  BY PoolAssumption DEF PostReject
<1>2. \A i \in DOMAIN queue : queue[i] # ExitTask
  BY <1>1 DEF ExitPlace, StackTaskConfined
<1>3. ClientQueue = queue /\ ClientQueue' = ClientQueue
  BY <1>2, ClientQueueFacts DEF PostReject, ClientQueue
<1>4. Len(queue) >= MaxQueue
  <2>1. Cardinality(Idle) \in Nat
    BY WorkerSubset DEF Idle
  <2> QED
    BY <1>1, <2>1, PoolAssumption DEF WaitingCount, TypeOK
<1>5. /\ cur \notin RunningTasks
      /\ cur \notin DoneTasks
      /\ cur \notin RefusedTasks
      /\ \A i \in DOMAIN queue : queue[i] # cur
  BY PoolAssumption DEF RunningTasks, DoneTasks, RefusedTasks, Ownership
<1>6. /\ RunningTasks' = RunningTasks
      /\ DoneTasks' = DoneTasks
      /\ RefusedTasks' = RefusedTasks \cup {cur}
  BY <1>1 DEF PostReject, RunningTasks, DoneTasks, RefusedTasks, TypeOK,
     workVars
<1> QED
  BY <1>3, <1>4, <1>5, <1>6 DEF Service!Refuse, Service!New, RunningTasks,
     DoneTasks, RefusedTasks

\* thread_task_post queues a client's task: Accept.
LEMMA AcceptStep ==
  ASSUME Inv, PostAccept, NEW t \in Tasks, cur = t
  PROVE  Service!Accept(t)
<1> USE DEF Inv
<1>1. main = "post" /\ cur # ExitTask /\ waiting < MaxQueue
  BY PoolAssumption DEF PostAccept
<1>2. \A i \in DOMAIN queue : queue[i] # ExitTask
  BY <1>1 DEF ExitPlace, StackTaskConfined
<1>3. ClientQueue = queue /\ queue \in Seq(Tasks)
  BY <1>2, ClientQueueFacts
<1>4. ClientQueue' = Append(ClientQueue, cur)
  <2>1. queue' = Append(queue, cur)
    BY DEF PostAccept
  <2>2. Len(queue') = Len(queue) + 1 /\ queue'[Len(queue) + 1] = cur
    BY <1>3, <2>1, AppendProperties
  <2>3. queue'[Len(queue')] # ExitTask
    BY <1>1, <2>2
  <2> QED
    BY <1>3, <2>1, <2>3 DEF ClientQueue
<1>5. Len(queue) < MaxQueue + NumThreads
  <2>1. /\ Cardinality(Idle) \in Nat
        /\ Cardinality(Idle) <= NumThreads
        /\ NumThreads \in Nat
    BY WorkerSubset DEF Idle
  <2> QED
    BY <1>1, <2>1, PoolAssumption DEF WaitingCount, TypeOK
<1>6. /\ cur \notin RunningTasks
      /\ cur \notin DoneTasks
      /\ cur \notin RefusedTasks
      /\ \A i \in DOMAIN queue : queue[i] # cur
  BY PoolAssumption DEF RunningTasks, DoneTasks, RefusedTasks, Ownership
<1>7. \A w \in Workers : (pc'[w] = "run") = (pc[w] = "run")
  BY DEF PostAccept, Signal, TypeOK
<1>8. /\ RunningTasks' = RunningTasks
      /\ DoneTasks' = DoneTasks
      /\ RefusedTasks' = RefusedTasks
  BY <1>7 DEF PostAccept, RunningTasks, DoneTasks, RefusedTasks, taskVars
<1> QED
  BY <1>3, <1>4, <1>5, <1>6, <1>8 DEF Service!Accept, Service!New,
     RunningTasks, DoneTasks, RefusedTasks

\* The exit task is linked in behind the client's tasks, out of their sight.
LEMMA AcceptExitStep ==
  ASSUME Inv, PostAccept, cur = ExitTask
  PROVE  UNCHANGED Service!vars
<1> USE DEF Inv
<1>1. main = "post"
  BY DEF PostAccept
<1>2. \A i \in DOMAIN queue : queue[i] # ExitTask
  BY <1>1 DEF ExitPlace, StackTaskConfined
<1>3. ClientQueue = queue /\ queue \in Seq(Tasks)
  BY <1>2, ClientQueueFacts
<1>4. /\ queue' # <<>>
      /\ Len(queue') = Len(queue) + 1
      /\ queue'[Len(queue) + 1] = ExitTask
      /\ \A i \in 1 .. Len(queue) : queue'[i] = queue[i]
      /\ Len(queue) \in Nat
  <2>1. queue \in Seq(Tasks \cup {ExitTask}) /\ queue' = Append(queue, ExitTask)
    BY DEF PostAccept, TypeOK
  <2> QED
    BY <2>1, AppendProperties, LenProperties
<1>5. ClientQueue' = SubSeq(queue', 1, Len(queue))
  BY <1>4 DEF ClientQueue
<1>6. SubSeq(queue', 1, Len(queue)) = queue
  <2>1. \A i \in 1 .. Len(queue) : queue'[i] \in Tasks
    BY <1>3, <1>4
  <2>2. /\ SubSeq(queue', 1, Len(queue)) \in Seq(Tasks)
        /\ Len(SubSeq(queue', 1, Len(queue))) = Len(queue)
        /\ \A i \in 1 .. Len(queue) : SubSeq(queue', 1, Len(queue))[i] = queue[i]
    BY <1>4, <2>1, SubSeqProperties
  <2> QED
    BY <1>3, <2>2, SeqEqual
<1>7. \A w \in Workers : (pc'[w] = "run") = (pc[w] = "run")
  BY DEF PostAccept, Signal, TypeOK
<1>8. /\ RunningTasks' = RunningTasks
      /\ DoneTasks' = DoneTasks
      /\ RefusedTasks' = RefusedTasks
  BY <1>7 DEF PostAccept, RunningTasks, DoneTasks, RefusedTasks, taskVars
<1> QED
  BY <1>3, <1>5, <1>6, <1>8 DEF Service!vars, RunningTasks, DoneTasks,
     RefusedTasks

\* Unlinking the head of a queue unlinks the head of the client's queue, or
\* leaves it empty when the head is the exit task.
LEMMA ClientPartTail ==
  ASSUME NEW q \in Seq(Tasks \cup {ExitTask}), q # <<>>,
         \A i \in DOMAIN q : q[i] = ExitTask => i = Len(q)
  PROVE  /\ Head(q) = ExitTask => ClientPart(q) = <<>> /\ ClientPart(Tail(q)) = <<>>
         /\ Head(q) # ExitTask => /\ ClientPart(q) # <<>>
                                  /\ Head(ClientPart(q)) = Head(q)
                                  /\ ClientPart(Tail(q)) = Tail(ClientPart(q))
<1> DEFINE r == Tail(q)
<1>1. /\ Len(q) \in Nat \ {0}
      /\ DOMAIN q = 1 .. Len(q)
      /\ Head(q) = q[1]
  BY LenProperties, EmptySeq
<1>2. /\ r \in Seq(Tasks \cup {ExitTask})
      /\ Len(r) = Len(q) - 1
      /\ DOMAIN r = 1 .. Len(r)
      /\ \A i \in 1 .. Len(r) : r[i] = q[i + 1]
  BY HeadTailProperties, LenProperties
<1> HIDE DEF r
<1>3. ASSUME NEW i \in DOMAIN r, r[i] = ExitTask PROVE i = Len(r)
  <2>1. i \in Int /\ i + 1 \in DOMAIN q /\ q[i + 1] = ExitTask
    BY <1>1, <1>2, <1>3
  <2>2. i + 1 = Len(q)
    BY <2>1
  <2> QED
    BY <1>1, <1>2, <2>1, <2>2
<1>4. /\ ClientPart(q) \in Seq(Tasks)
      /\ Len(ClientPart(q)) = IF q[Len(q)] = ExitTask THEN Len(q) - 1 ELSE Len(q)
      /\ \A i \in 1 .. Len(ClientPart(q)) : ClientPart(q)[i] = q[i]
  BY ClientPartFacts
<1>5. /\ ClientPart(r) \in Seq(Tasks)
      /\ Len(ClientPart(r)) =
           IF r # <<>> /\ r[Len(r)] = ExitTask THEN Len(r) - 1 ELSE Len(r)
      /\ \A i \in 1 .. Len(ClientPart(r)) : ClientPart(r)[i] = r[i]
  BY <1>2, <1>3, ClientPartFacts
<1>6. ASSUME Head(q) = ExitTask PROVE ClientPart(q) = <<>> /\ ClientPart(r) = <<>>
  <2>1. Len(q) = 1
    <3>1. 1 \in DOMAIN q /\ q[1] = ExitTask
      BY <1>1, <1>6
    <3> QED
      BY <3>1
  <2>2. Len(r) = 0 /\ r = <<>>
    BY <1>2, <2>1, EmptySeq
  <2>3. Len(ClientPart(q)) = 0 /\ Len(ClientPart(r)) = 0
    BY <1>1, <1>4, <1>5, <1>6, <2>1, <2>2
  <2> QED
    BY <1>4, <1>5, <2>3, EmptySeq
<1>7. ASSUME Head(q) # ExitTask
      PROVE  /\ ClientPart(q) # <<>>
             /\ Head(ClientPart(q)) = Head(q)
             /\ ClientPart(r) = Tail(ClientPart(q))
  <2>1. Len(q) = 1 => q[Len(q)] # ExitTask
    BY <1>1, <1>7
  <2>2. Len(q) > 1 => r # <<>> /\ r[Len(r)] = q[Len(q)]
    <3> SUFFICES ASSUME Len(q) > 1 PROVE r # <<>> /\ r[Len(r)] = q[Len(q)]
      OBVIOUS
    <3>1. Len(r) \in 1 .. Len(r)
      BY <1>1, <1>2
    <3>2. r[Len(r)] = q[Len(r) + 1] /\ Len(r) + 1 = Len(q)
      BY <1>1, <1>2, <3>1
    <3> QED
      BY <3>1, <3>2, EmptySeq
  <2>3. Len(q) = 1 => r = <<>>
    BY <1>2, EmptySeq
  <2>4. Len(ClientPart(q)) \in Nat \ {0}
    <3>1. CASE q[Len(q)] = ExitTask
      <4>1. Len(q) - 1 \in Nat \ {0}
        BY <1>1, <2>1, <3>1
      <4> QED
        BY <1>4, <3>1, <4>1
    <3>2. CASE q[Len(q)] # ExitTask
      BY <1>1, <1>4, <3>2
    <3> QED
      BY <3>1, <3>2
  <2>5. Len(ClientPart(r)) = Len(ClientPart(q)) - 1
    <3>1. CASE Len(q) = 1
      BY <1>2, <1>4, <1>5, <2>1, <2>3, <3>1
    <3>2. CASE Len(q) > 1
      BY <1>1, <1>2, <1>4, <1>5, <2>2, <3>2
    <3> QED
      BY <1>1, <3>1, <3>2
  <2>6. ClientPart(q) # <<>>
    BY <2>4, EmptySeq
  <2>7. Head(ClientPart(q)) = Head(q)
    <3>1. 1 \in 1 .. Len(ClientPart(q))
      BY <2>4
    <3>2. ClientPart(q)[1] = q[1]
      BY <1>4, <3>1
    <3>3. Head(ClientPart(q)) = ClientPart(q)[1]
      OBVIOUS
    <3> QED
      BY <1>1, <3>2, <3>3
  <2>8. ClientPart(r) = Tail(ClientPart(q))
    <3>1. /\ Tail(ClientPart(q)) \in Seq(Tasks)
          /\ Len(Tail(ClientPart(q))) = Len(ClientPart(q)) - 1
          /\ \A i \in 1 .. Len(ClientPart(q)) - 1 : Tail(ClientPart(q))[i] = ClientPart(q)[i + 1]
      BY <1>4, <2>6, HeadTailProperties
    <3>2. ASSUME NEW i \in 1 .. Len(ClientPart(r))
          PROVE  ClientPart(r)[i] = Tail(ClientPart(q))[i]
      <4>1. i \in 1 .. Len(ClientPart(q)) - 1 /\ i + 1 \in 1 .. Len(ClientPart(q))
        BY <2>4, <2>5
      <4>2. ClientPart(r)[i] = r[i] /\ ClientPart(q)[i + 1] = q[i + 1]
        BY <1>4, <1>5, <4>1
      <4>3. Len(ClientPart(r)) <= Len(r)
        BY <1>2, <1>5
      <4>4. i \in 1 .. Len(r)
        BY <1>1, <1>2, <2>4, <2>5, <4>3
      <4>5. r[i] = q[i + 1]
        BY <1>2, <4>4
      <4> QED
        BY <3>1, <4>1, <4>2, <4>5
    <3> QED
      BY <1>4, <1>5, <2>5, <3>1, <3>2, SeqEqual
  <2> QED
    BY <2>6, <2>7, <2>8
<1> QED
  BY <1>6, <1>7 DEF r

\* A worker unlinks the oldest task: Start, or nothing if it is the exit task.
LEMMA TakeStep ==
  ASSUME Inv, NEW w \in Workers, WorkerTake(w)
  PROVE  Service!Start \/ UNCHANGED Service!vars
<1>1. /\ TypeOK
      /\ queue \in Seq(Tasks \cup {ExitTask})
      /\ queue # <<>>
      /\ queue' = Tail(queue)
      /\ \A i \in DOMAIN queue : queue[i] = ExitTask => i = Len(queue)
  BY DEF Inv, TypeOK, ExitPlace, WorkerTake
<1>2. DoneTasks' = DoneTasks /\ RefusedTasks' = RefusedTasks
  BY DEF WorkerTake, DoneTasks, RefusedTasks, taskVars
<1>3. pc[w] = "test" /\ held[w] = NoTask
  BY DEF WorkerTake, Inv, Control
<1>4. RunningTasks' = {t \in Tasks : t \in RunningTasks \/ t = Head(queue)}
  BY <1>1, <1>3, PoolAssumption DEF WorkerTake, RunningTasks, TypeOK
<1>5. /\ ClientQueue = ClientPart(queue)
      /\ ClientQueue' = ClientPart(Tail(queue))
  BY <1>1 DEF ClientQueue, ClientPart
<1>6. CASE Head(queue) = ExitTask
  <2>1. ClientQueue = <<>> /\ ClientQueue' = <<>>
    BY <1>1, <1>5, <1>6, ClientPartTail
  <2>2. RunningTasks' = RunningTasks
    BY <1>4, <1>6, PoolAssumption DEF RunningTasks
  <2> QED
    BY <1>2, <2>1, <2>2 DEF Service!vars, RunningTasks, DoneTasks, RefusedTasks
<1>7. CASE Head(queue) # ExitTask
  <2>1. Head(queue) \in Tasks
    BY <1>1, <1>7, HeadTailProperties
  <2>2. /\ ClientQueue # <<>>
        /\ Head(ClientQueue) = Head(queue)
        /\ ClientQueue' = Tail(ClientQueue)
    BY <1>1, <1>5, <1>7, ClientPartTail
  <2>3. RunningTasks' = RunningTasks \cup {Head(ClientQueue)}
    BY <1>4, <2>1, <2>2 DEF RunningTasks
  <2>4. Cardinality(RunningTasks) < NumThreads
    BY <1>1, <1>3, RunningBound
  <2>5. Service!Cardinality(RunningTasks) = Cardinality(RunningTasks)
    BY DEF Cardinality, Service!Cardinality
  <2> QED
    BY <1>2, <2>2, <2>3, <2>4, <2>5 DEF Service!Start, RunningTasks,
       DoneTasks, RefusedTasks
<1> QED
  BY <1>6, <1>7

\* The handler of a task returns: Finish.
LEMMA FinishStep ==
  ASSUME Inv, NEW w \in Workers, WorkerRun(w), NEW t \in Tasks, held[w] = t
  PROVE  Service!Finish(t)
<1> USE DEF Inv
<1>1. held[w] \in Tasks /\ pc[w] = "run"
  BY DEF WorkerRun
<1>2. \A v \in Workers : held[v] = held[w] => v = w
  BY <1>1, PoolAssumption DEF Ownership, OneOwner
<1>3. held[w] \in RunningTasks
  BY <1>1 DEF RunningTasks
<1>4. RunningTasks' = RunningTasks \ {held[w]}
  BY <1>1, <1>2 DEF WorkerRun, RunningTasks, TypeOK
<1>5. DoneTasks' = DoneTasks \cup {held[w]}
  BY <1>1 DEF WorkerRun, DoneTasks, TypeOK
<1>6. RefusedTasks' = RefusedTasks /\ ClientQueue' = ClientQueue
  BY DEF WorkerRun, RefusedTasks, ClientQueue, poolVars
<1> QED
  BY <1>1, <1>3, <1>4, <1>5, <1>6 DEF Service!Finish, RunningTasks, DoneTasks,
     RefusedTasks

\* Every step of the pool is a step of the service or invisible to its client.
LEMMA ServiceStep == Inv /\ [Next]_vars => [Service!Next]_(Service!vars)
<1> SUFFICES ASSUME Inv, [Next]_vars
             PROVE  Service!Next \/ UNCHANGED Service!vars
  OBVIOUS
<1> USE DEF poolVars, mainVars, workVars, taskVars
<1> DEFINE Quiet == /\ queue' = queue
                    /\ RunningTasks' = RunningTasks
                    /\ DoneTasks' = DoneTasks
                    /\ RefusedTasks' = RefusedTasks
<1>1. ASSUME InitSetUp PROVE Quiet
  BY <1>1 DEF InitSetUp, RunningTasks, DoneTasks, RefusedTasks, Inv, TypeOK
<1>2. ASSUME InitSetUpFails PROVE Quiet
  BY <1>2 DEF InitSetUpFails, RunningTasks, DoneTasks, RefusedTasks, Inv, TypeOK
<1>3. ASSUME InitCallocFails PROVE Quiet
  BY <1>3 DEF InitCallocFails, RunningTasks, DoneTasks, RefusedTasks, Inv, TypeOK
<1>4. ASSUME NEW w \in Workers, CreateThread(w) PROVE Quiet
  BY <1>4 DEF CreateThread, RunningTasks, DoneTasks, RefusedTasks, Inv, TypeOK
<1>5. ASSUME CreateThreadFails PROVE Quiet
  BY <1>5 DEF CreateThreadFails, RunningTasks, DoneTasks, RefusedTasks, Inv, TypeOK
<1>6. ASSUME NEW t \in Tasks, CallPost(t) PROVE Quiet
  BY <1>6 DEF CallPost, RunningTasks, DoneTasks, RefusedTasks, Inv, TypeOK
<1>7. ASSUME PostLock PROVE Quiet
  BY <1>7 DEF PostLock, RunningTasks, DoneTasks, RefusedTasks, Inv, TypeOK
<1>8. ASSUME PostReject PROVE Service!Next \/ Quiet
  <2>1. cur \in Tasks \cup {ExitTask}
    BY <1>8 DEF PostReject, Inv, TypeOK, Control
  <2>2. ASSUME NEW t \in Tasks, cur = t PROVE Service!Next
    BY <1>8, <2>2, RefuseStep DEF Service!Next
  <2>3. CASE cur = ExitTask
    BY <1>8, <2>3 DEF PostReject, RunningTasks, DoneTasks, RefusedTasks
  <2> QED
    BY <2>1, <2>2, <2>3
<1>9. ASSUME PostAccept PROVE Service!Next \/ UNCHANGED Service!vars
  <2>1. cur \in Tasks \cup {ExitTask}
    BY <1>9 DEF PostAccept, Inv, TypeOK, Control
  <2>2. ASSUME NEW t \in Tasks, cur = t PROVE Service!Next
    BY <1>9, <2>2, AcceptStep DEF Service!Next
  <2>3. CASE cur = ExitTask
    BY <1>9, <2>3, AcceptExitStep
  <2> QED
    BY <2>1, <2>2, <2>3
<1>10. ASSUME CallDestroy PROVE Quiet
  BY <1>10 DEF CallDestroy, RunningTasks, DoneTasks, RefusedTasks, Inv, TypeOK
<1>11. ASSUME DestroyPostExit PROVE Quiet
  BY <1>11 DEF DestroyPostExit, RunningTasks, DoneTasks, RefusedTasks, Inv, TypeOK
<1>12. ASSUME DestroySpinEnds PROVE Quiet
  BY <1>12 DEF DestroySpinEnds, RunningTasks, DoneTasks, RefusedTasks, Inv, TypeOK
<1>13. ASSUME DestroyFree PROVE Quiet
  BY <1>13 DEF DestroyFree, RunningTasks, DoneTasks, RefusedTasks, Inv, TypeOK
<1>14. ASSUME NEW w \in Workers, WorkerLock(w) PROVE Quiet
  BY <1>14 DEF WorkerLock, RunningTasks, DoneTasks, RefusedTasks, Inv, TypeOK
<1>15. ASSUME NEW w \in Workers, WorkerWait(w) PROVE Quiet
  BY <1>15 DEF WorkerWait, RunningTasks, DoneTasks, RefusedTasks, Inv, TypeOK
<1>16. ASSUME NEW w \in Workers, WorkerRelock(w) PROVE Quiet
  BY <1>16 DEF WorkerRelock, RunningTasks, DoneTasks, RefusedTasks, Inv, TypeOK
<1>17. ASSUME NEW w \in Workers, WorkerTake(w)
      PROVE  Service!Next \/ UNCHANGED Service!vars
  BY <1>17, TakeStep DEF Service!Next
<1>18. ASSUME NEW w \in Workers, WorkerRun(w) PROVE Service!Next
  <2>1. PICK t \in Tasks : held[w] = t
    BY <1>18 DEF WorkerRun
  <2> QED
    BY <1>18, <2>1, FinishStep DEF Service!Next
<1>19. ASSUME NEW w \in Workers, WorkerFree(w) PROVE Quiet
  BY <1>19 DEF WorkerFree, RunningTasks, DoneTasks, RefusedTasks, Inv, TypeOK, Control, Ownership, RunOnce
<1>20. ASSUME NEW w \in Workers, WorkerExit(w) PROVE Quiet
  BY <1>20, PoolAssumption DEF WorkerExit, RunningTasks, DoneTasks, RefusedTasks, Inv, TypeOK
<1>21. ASSUME NEW w \in Workers, SpuriousWakeup(w) PROVE Quiet
  BY <1>21 DEF SpuriousWakeup, RunningTasks, DoneTasks, RefusedTasks, Inv, TypeOK
<1>22. ASSUME NEW w \in Workers, UseFreedPool(w) PROVE Quiet
  BY <1>22 DEF UseFreedPool, RunningTasks, DoneTasks, RefusedTasks, Inv, TypeOK
<1>23. ASSUME UNCHANGED vars PROVE Quiet
  BY <1>23 DEF vars, RunningTasks, DoneTasks, RefusedTasks
<1>24. Quiet => UNCHANGED Service!vars
  BY ServiceStutter
<1> HIDE DEF Quiet
<1> QED
  BY <1>1, <1>2, <1>3, <1>4, <1>5, <1>6, <1>7, <1>8, <1>9, <1>10, <1>11,
     <1>12, <1>13, <1>14, <1>15, <1>16, <1>17, <1>18, <1>19, <1>20, <1>21,
     <1>22, <1>23, <1>24
  DEF Next, MainStep, WorkerStep, Ended

\* Seen from the thread that posts, the pool is the service of TaskService.
THEOREM PoolImplementsService == Spec => ImplementsService
<1>1. Init => Service!Init
  BY DEF Init, Service!Init, ClientQueue
<1>2. Inv /\ [Next]_vars => [Service!Next]_(Service!vars)
  BY ServiceStep
<1> QED
  BY <1>1, <1>2, Invariance, PTL DEF Spec, ImplementsService, Service!Spec
=============================================================================
