----------------------------- MODULE TaskQueue ------------------------------
(***************************************************************************)
(* The intrusive task list of the pool: thread_pool_queue_init, the append *)
(* in thread_task_post and the removal in thread_pool_cycle, with `last'   *)
(* pointing either to queue.first or to the `next' field of a task.        *)
(* ThreadPool models this list by a sequence; `fifo' is that sequence.     *)
(*                                                                         *)
(* Task objects are recycled: calloc may return the address of a task that *)
(* was freed.  The exit task of thread_pool_destroy is posted again and    *)
(* again without passing through the heap, and nobody posts until a worker *)
(* has run it.                                                             *)
(***************************************************************************)
EXTENDS Integers, Sequences

CONSTANTS Tasks,    \* heap addresses of task objects
          ExitTask, \* the task on the stack of thread_pool_destroy
          Null, First

ASSUME QueueAssumption ==
    /\ ExitTask \notin Tasks
    /\ Null \notin Tasks \cup {ExitTask}
    /\ First \notin Tasks \cup {ExitTask}

All == Tasks \cup {ExitTask}

VARIABLES first,  \* queue.first
          last,   \* First for &queue.first, t for &t->next
          next,   \* the field `next' of each task object
          where,  \* "free", "queued" or "taken"
          fifo    \* history: the tasks in the queue, oldest first

vars == <<first, last, next, where, fifo>>

\* thread_pool_queue_init.  calloc and memset clear every task object.
Init ==
    /\ first = Null
    /\ last = First
    /\ next = [t \in All |-> Null]
    /\ where = [t \in All |-> "free"]
    /\ fifo = <<>>

\* Mutant: queue.first is set whether or not the list is empty.
Post_First(t) ==
    /\ where[t] = "free"
    /\ where[ExitTask] = "free"
    /\ first' = t
    /\ next' = IF last = First THEN [next EXCEPT ![t] = Null]
                               ELSE [next EXCEPT ![t] = Null, ![last] = t]
    /\ last' = t
    /\ where' = [where EXCEPT ![t] = "queued"]
    /\ fifo' = Append(fifo, t)

\* *tp->queue.last = task; tp->queue.last = &task->next, after
\* task->next = NULL.
Post(t) ==
    /\ where[t] = "free"
    /\ where[ExitTask] = "free"
    /\ IF last = First
         THEN /\ first' = t
              /\ next' = [next EXCEPT ![t] = Null]
         ELSE /\ next' = [next EXCEPT ![t] = Null, ![last] = t]
              /\ UNCHANGED first
    /\ last' = t
    /\ where' = [where EXCEPT ![t] = "queued"]
    /\ fifo' = Append(fifo, t)

\* Mutant: `last' is cleared instead of pointing to queue.first.
Take_NullLast ==
    /\ first # Null
    /\ first' = next[first]
    /\ last' = IF next[first] = Null THEN Null ELSE last
    /\ where' = [where EXCEPT ![first] = "taken"]
    /\ fifo' = Tail(fifo)
    /\ UNCHANGED next

\* task = first; first = task->next; an empty list points `last' to itself.
Take ==
    /\ first # Null
    /\ first' = next[first]
    /\ last' = IF next[first] = Null THEN First ELSE last
    /\ where' = [where EXCEPT ![first] = "taken"]
    /\ fifo' = Tail(fifo)
    /\ UNCHANGED next

\* Mutant: a task may be freed while it is still linked.
Free_Linked(t) ==
    /\ t \in Tasks
    /\ where[t] # "free"
    /\ next' = [next EXCEPT ![t] = Null]
    /\ where' = [where EXCEPT ![t] = "free"]
    /\ UNCHANGED <<first, last, fifo>>

\* After its handler, outside the mutex: task->next = NULL, free(task).
Free(t) ==
    /\ t \in Tasks
    /\ where[t] = "taken"
    /\ next' = [next EXCEPT ![t] = Null]
    /\ where' = [where EXCEPT ![t] = "free"]
    /\ UNCHANGED <<first, last, fifo>>

\* The exit handler lets thread_pool_destroy use its task again and does not
\* return: `next' stays as it is.
ExitHandler ==
    /\ where[ExitTask] = "taken"
    /\ where' = [where EXCEPT ![ExitTask] = "free"]
    /\ UNCHANGED <<first, last, next, fifo>>

Next ==
    \/ \E t \in All : Post(t)
    \/ Take
    \/ \E t \in Tasks : Free(t)
    \/ ExitHandler

Spec == Init /\ [][Next]_vars

-----------------------------------------------------------------------------

\* Every variable has its type.
TypeOK ==
    /\ first \in All \cup {Null}
    /\ last \in All \cup {First}
    /\ next \in [All -> All \cup {Null}]
    /\ where \in [All -> {"free", "queued", "taken"}]
    /\ fifo \in Seq(All)

\* The pointers spell the sequence: `first' and the `next' fields lead through
\* the queued tasks in the order of their posts and end in NULL.
ListIsFifo ==
    /\ first = IF fifo = <<>> THEN Null ELSE fifo[1]
    /\ \A i \in 1..Len(fifo) :
         next[fifo[i]] = IF i = Len(fifo) THEN Null ELSE fifo[i + 1]

\* `last' never points into a task that has left the list, where the next
\* thread_task_post would write: it points to the end of the list.
LastIsEnd == last = IF fifo = <<>> THEN First ELSE fifo[Len(fifo)]

\* The list holds each queued task once and nothing else.
QueuedOnce ==
    /\ \A t \in All : where[t] = "queued" <=> \E i \in 1..Len(fifo) : fifo[i] = t
    /\ \A i, j \in 1..Len(fifo) : fifo[i] = fifo[j] => i = j
=============================================================================
