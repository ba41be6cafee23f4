---------------------------- MODULE TaskService -----------------------------
(***************************************************************************)
(* What a thread pool promises its client: tasks it accepts are started in *)
(* the order in which they were accepted, each once, at most Threads of    *)
(* them at a time, and it refuses a task only when MaxQueue tasks wait.    *)
(***************************************************************************)
EXTENDS Integers, Sequences, FiniteSets

CONSTANTS Tasks, MaxQueue, Threads

VARIABLES pending,  \* accepted and not started, oldest first
          running,  \* started, handler not returned
          done,     \* handler returned
          refused   \* thread_task_post returned T_ERROR

vars == <<pending, running, done, refused>>

New(t) ==
    /\ t \notin running \cup done \cup refused
    /\ \A i \in DOMAIN pending : pending[i] # t

Init == pending = <<>> /\ running = {} /\ done = {} /\ refused = {}

Accept(t) ==
    /\ New(t)
    /\ Len(pending) < MaxQueue + Threads
    /\ pending' = Append(pending, t)
    /\ UNCHANGED <<running, done, refused>>

Refuse(t) ==
    /\ New(t)
    /\ Len(pending) >= MaxQueue
    /\ refused' = refused \cup {t}
    /\ UNCHANGED <<pending, running, done>>

Start ==
    /\ pending # <<>>
    /\ Cardinality(running) < Threads
    /\ running' = running \cup {Head(pending)}
    /\ pending' = Tail(pending)
    /\ UNCHANGED <<done, refused>>

Finish(t) ==
    /\ t \in running
    /\ running' = running \ {t}
    /\ done' = done \cup {t}
    /\ UNCHANGED <<pending, refused>>

Next ==
    \/ \E t \in Tasks : Accept(t) \/ Refuse(t) \/ Finish(t)
    \/ Start

Spec == Init /\ [][Next]_vars
=============================================================================
