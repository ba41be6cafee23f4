-------------------------- MODULE TaskQueueProofs ---------------------------
(***************************************************************************)
(* The linked list of the pool implements a sequence, for every set of     *)
(* task objects.  TypeOK, ListIsFifo, LastIsEnd and QueuedOnce together    *)
(* are inductive: none of them is alone.                                   *)
(***************************************************************************)
EXTENDS TaskQueue, SequenceTheorems, TLAPS

ListInv == TypeOK /\ ListIsFifo /\ LastIsEnd /\ QueuedOnce

\* thread_pool_queue_init establishes an empty list.
LEMMA InitList == Init => ListInv
<1> SUFFICES ASSUME Init PROVE ListInv
  OBVIOUS
<1>1. TypeOK
  BY DEF Init, TypeOK
<1>2. ListIsFifo /\ LastIsEnd
  BY DEF Init, ListIsFifo, LastIsEnd
<1>3. QueuedOnce
  BY DEF Init, QueuedOnce
<1> QED
  BY <1>1, <1>2, <1>3 DEF ListInv

\* Linking a task that is in no list, at the place `last' points to, appends
\* it to the sequence.
LEMMA PostList == ASSUME ListInv, NEW t \in All, Post(t) PROVE ListInv'
<1> USE DEF ListInv
<1>1. t \notin {Null, First} /\ where[t] = "free"
  BY QueueAssumption DEF Post, All
<1>2. \A i \in 1..Len(fifo) : fifo[i] # t
  BY <1>1 DEF QueuedOnce
<1>3. fifo \in Seq(All) /\ Len(fifo) \in Nat /\ fifo' = Append(fifo, t)
  BY DEF Post, TypeOK
<1>4. /\ Len(fifo') = Len(fifo) + 1
      /\ \A i \in 1..Len(fifo) : fifo'[i] = fifo[i] /\ fifo[i] \in All
      /\ fifo'[Len(fifo) + 1] = t
      /\ fifo' # <<>>
  BY <1>3
<1>5. last = First <=> fifo = <<>>
  BY <1>3, QueueAssumption DEF LastIsEnd, All
<1>6. TypeOK'
  BY <1>3 DEF Post, TypeOK
<1>7. LastIsEnd'
  BY <1>3, <1>4 DEF Post, LastIsEnd
<1>8. QueuedOnce'
  <2>1. \A u \in All : where'[u] = "queued" <=> u = t \/ where[u] = "queued"
    BY <1>1 DEF Post, TypeOK
  <2>2. \A i, j \in 1..Len(fifo') : fifo'[i] = fifo'[j] => i = j
    BY <1>2, <1>3, <1>4 DEF QueuedOnce
  <2>3. \A u \in All : (\E i \in 1..Len(fifo') : fifo'[i] = u)
                         <=> u = t \/ \E i \in 1..Len(fifo) : fifo[i] = u
    BY <1>3, <1>4
  <2> QED
    BY <2>1, <2>2, <2>3 DEF QueuedOnce
<1>9. ListIsFifo'
  <2>1. CASE fifo = <<>>
    BY <1>3, <1>4, <1>5, <2>1 DEF Post, ListIsFifo, TypeOK
  <2>2. CASE fifo # <<>>
    <3>1. last = fifo[Len(fifo)] /\ last # t /\ last \in All /\ last # First
      BY <1>2, <1>3, <1>4, <1>5, <2>2 DEF LastIsEnd
    <3>2. next' = [next EXCEPT ![t] = Null, ![last] = t] /\ first' = first
      BY <3>1 DEF Post
    <3>3. /\ next'[t] = Null
          /\ next'[last] = t
          /\ \A u \in All \ {t, last} : next'[u] = next[u]
      BY <3>1, <3>2 DEF TypeOK
    <3>4. \A i \in 1..Len(fifo) : i # Len(fifo) => fifo[i] # last
      BY <1>3, <2>2, <3>1 DEF QueuedOnce
    <3>5. ASSUME NEW i \in 1..Len(fifo')
          PROVE  next'[fifo'[i]] = IF i = Len(fifo') THEN Null ELSE fifo'[i + 1]
      <4>1. CASE i = Len(fifo) + 1
        BY <1>4, <3>3, <4>1
      <4>2. CASE i = Len(fifo)
        BY <1>3, <1>4, <3>1, <3>3, <4>2
      <4>3. CASE i < Len(fifo)
        BY <1>2, <1>3, <1>4, <3>3, <3>4, <4>3 DEF ListIsFifo
      <4> QED
        BY <1>3, <1>4, <4>1, <4>2, <4>3
    <3>6. first' = fifo'[1]
      BY <1>3, <1>4, <2>2, <3>2 DEF ListIsFifo
    <3> QED
      BY <1>4, <3>5, <3>6 DEF ListIsFifo
  <2> QED
    BY <2>1, <2>2
<1> QED
  BY <1>6, <1>7, <1>8, <1>9

\* Unlinking the first task removes the head of the sequence, and `last' goes
\* back to queue.first exactly when the list becomes empty.
LEMMA TakeList == ASSUME ListInv, Take PROVE ListInv'
<1> USE DEF ListInv
<1>1. /\ fifo \in Seq(All) /\ fifo # <<>> /\ first = fifo[1] /\ first \in All
      /\ Len(fifo) \in Nat \ {0}
  BY QueueAssumption DEF Take, ListIsFifo, TypeOK
<1>2. /\ fifo' \in Seq(All)
      /\ Len(fifo') = Len(fifo) - 1
      /\ \A i \in 1..Len(fifo') : fifo'[i] = fifo[i + 1] /\ i + 1 \in 1..Len(fifo)
  BY <1>1, HeadTailProperties DEF Take
<1>3. next[first] = IF Len(fifo) = 1 THEN Null ELSE fifo[2]
  <2>1. 1 \in 1..Len(fifo)
    BY <1>1
  <2>2. next[fifo[1]] = IF 1 = Len(fifo) THEN Null ELSE fifo[1 + 1]
    BY <2>1 DEF ListIsFifo
  <2> QED
    BY <1>1, <2>2
<1>4. next[first] = Null <=> Len(fifo) = 1
  <2>0. Len(fifo) \in Nat \ {0}
    BY <1>1
  <2>1. Len(fifo) # 1 => 2 \in 1..Len(fifo)
    BY <2>0
  <2>2. \A i \in 1..Len(fifo) : fifo[i] \in All
    BY <1>1
  <2> QED
    BY <1>1, <1>3, <2>1, <2>2, QueueAssumption DEF All
<1>5. fifo' = <<>> <=> Len(fifo) = 1
  BY <1>1, <1>2
<1>6. TypeOK'
  BY <1>1, <1>2 DEF Take, TypeOK
<1>7. LastIsEnd'
  <2>1. CASE Len(fifo) = 1
    BY <1>4, <1>5, <2>1 DEF Take, LastIsEnd
  <2>2. CASE Len(fifo) # 1
    <3>1. fifo'[Len(fifo')] = fifo[Len(fifo)]
      BY <1>1, <1>2, <2>2
    <3> QED
      BY <1>1, <1>4, <1>5, <2>2, <3>1 DEF Take, LastIsEnd
  <2> QED
    BY <2>1, <2>2
<1>8. ListIsFifo'
  <2>1. first' = IF fifo' = <<>> THEN Null ELSE fifo'[1]
    BY <1>1, <1>2, <1>3, <1>4, <1>5 DEF Take
  <2>2. ASSUME NEW i \in 1..Len(fifo')
        PROVE  next'[fifo'[i]] = IF i = Len(fifo') THEN Null ELSE fifo'[i + 1]
    <3>1. /\ fifo'[i] = fifo[i + 1]
          /\ i + 1 \in 1..Len(fifo)
          /\ next[fifo[i + 1]] = IF i + 1 = Len(fifo) THEN Null ELSE fifo[(i + 1) + 1]
      BY <1>1, <1>2 DEF ListIsFifo
    <3>2. i # Len(fifo') => fifo'[i + 1] = fifo[(i + 1) + 1]
      <4>1. ASSUME i # Len(fifo') PROVE i + 1 \in 1..Len(fifo')
        BY <1>1, <1>2, <4>1
      <4> QED
        BY <1>2, <4>1
    <3>3. i = Len(fifo') <=> i + 1 = Len(fifo)
      BY <1>1, <1>2
    <3> QED
      BY <3>1, <3>2, <3>3 DEF Take
  <2> QED
    BY <2>1, <2>2 DEF ListIsFifo
<1>9. QueuedOnce'
  <2>1. \A u \in All : where'[u] = "queued" <=> u # first /\ where[u] = "queued"
    BY <1>1 DEF Take, TypeOK
  <2>2. \A i, j \in 1..Len(fifo') : fifo'[i] = fifo'[j] => i = j
    BY <1>1, <1>2 DEF QueuedOnce
  <2>3. ASSUME NEW u \in All
        PROVE  (\E i \in 1..Len(fifo') : fifo'[i] = u)
                 <=> u # first /\ \E i \in 1..Len(fifo) : fifo[i] = u
    <3>1. ASSUME NEW i \in 1..Len(fifo'), fifo'[i] = u
          PROVE  u # first /\ \E j \in 1..Len(fifo) : fifo[j] = u
      BY <1>1, <1>2, <3>1 DEF QueuedOnce
    <3>2. ASSUME u # first, NEW j \in 1..Len(fifo), fifo[j] = u
          PROVE  \E i \in 1..Len(fifo') : fifo'[i] = u
      <4>1. j - 1 \in 1..Len(fifo')
        <5>1. j # 1
          BY <1>1, <3>2
        <5> QED
          BY <1>1, <1>2, <5>1
      <4>2. fifo'[j - 1] = fifo[(j - 1) + 1] /\ (j - 1) + 1 = j
        BY <1>2, <4>1
      <4> QED
        BY <3>2, <4>1, <4>2
    <3> QED
      BY <3>1, <3>2
  <2> QED
    BY <2>1, <2>2, <2>3 DEF QueuedOnce
<1> QED
  BY <1>6, <1>7, <1>8, <1>9

\* A worker that clears and frees its task outside the mutex does not touch
\* the list.
LEMMA FreeList == ASSUME ListInv, NEW t \in Tasks, Free(t) PROVE ListInv'
<1> USE DEF ListInv
<1>1. t \in All /\ where[t] = "taken"
  BY DEF Free, All
<1>2. \A i \in 1..Len(fifo) : fifo[i] # t
  BY <1>1 DEF QueuedOnce
<1>3. \A i \in 1..Len(fifo) : fifo[i] \in All
  BY DEF TypeOK
<1>4. TypeOK'
  BY <1>1 DEF Free, TypeOK
<1>5. LastIsEnd'
  BY DEF Free, LastIsEnd
<1>6. ListIsFifo'
  BY <1>2, <1>3 DEF Free, ListIsFifo, TypeOK
<1>7. QueuedOnce'
  BY <1>1 DEF Free, QueuedOnce, TypeOK
<1> QED
  BY <1>4, <1>5, <1>6, <1>7

\* Every step of a poster, a worker or the exit handler keeps the list.
LEMMA StepList == ListInv /\ [Next]_vars => ListInv'
<1> SUFFICES ASSUME ListInv, [Next]_vars PROVE ListInv'
  OBVIOUS
<1>1. CASE ExitHandler
  BY <1>1 DEF ExitHandler, ListInv, TypeOK, ListIsFifo, LastIsEnd, QueuedOnce, All
<1>2. CASE UNCHANGED vars
  BY <1>2 DEF vars, ListInv, TypeOK, ListIsFifo, LastIsEnd, QueuedOnce
<1> QED
  BY <1>1, <1>2, PostList, TakeList, FreeList DEF Next

\* The parts of the invariant hold together in every reachable state.
THEOREM ListInvariance == Spec => []ListInv
  BY InitList, StepList, PTL DEF Spec

\* Every pointer of the list is NULL or a task object, whatever the posters
\* and workers do.
THEOREM ListTyped == Spec => []TypeOK
<1>1. ListInv => TypeOK
  BY DEF ListInv
<1> QED
  BY <1>1, ListInvariance, PTL

\* The first/last/next pointers of the pool's queue always spell the sequence
\* of posted tasks: nothing is lost, duplicated or reordered, and `last' never
\* dangles, for any number of task objects and any pattern of reuse.
THEOREM ListCorrect == Spec => [](ListIsFifo /\ LastIsEnd)
<1>1. ListInv => ListIsFifo /\ LastIsEnd
  BY DEF ListInv
<1> QED
  BY <1>1, ListInvariance, PTL

\* A task object is in the list at most once, and exactly while it is queued,
\* so thread_task_post never links an object that is still linked.
THEOREM NeverLinkedTwice == Spec => []QueuedOnce
<1>1. ListInv => QueuedOnce
  BY DEF ListInv
<1> QED
  BY <1>1, ListInvariance, PTL
=============================================================================
