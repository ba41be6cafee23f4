---------------------------- MODULE EventNumber -----------------------------
(***************************************************************************)
(* iEvent::generateSegNo: `static u32 sn; return sn++', called without a   *)
(* lock by the network thread (request events, in parseEvent) and by the   *)
(* pool threads (response events).  The unsynchronised increment is a data *)
(* race; the build reads the variable and writes it back.                  *)
(***************************************************************************)
EXTENDS Integers

CONSTANTS Threads,   \* the threads that create events
          Width      \* bits of sn

VARIABLES sn,      \* the static variable
          pc,      \* "idle" or "read" for each thread
          reg,     \* the value each thread has read
          numbers  \* the sn_ of the events each thread created, in order

vars == <<sn, pc, reg, numbers>>

Init ==
    /\ sn = 0
    /\ pc = [t \in Threads |-> "idle"]
    /\ reg = [t \in Threads |-> 0]
    /\ numbers = [t \in Threads |-> {}]

Read(t) ==
    /\ pc[t] = "idle"
    /\ reg' = [reg EXCEPT ![t] = sn]
    /\ pc' = [pc EXCEPT ![t] = "read"]
    /\ UNCHANGED <<sn, numbers>>

Write(t) ==
    /\ pc[t] = "read"
    /\ sn' = (reg[t] + 1) % 2^Width
    /\ numbers' = [numbers EXCEPT ![t] = @ \cup {reg[t]}]
    /\ pc' = [pc EXCEPT ![t] = "idle"]
    /\ UNCHANGED reg

Next == \E t \in Threads : Read(t) \/ Write(t)

Spec == Init /\ [][Next]_vars

\* "internal sequential number for each event": no two events share one.
NumbersDiffer ==
    \A s, t \in Threads : s # t => numbers[s] \cap numbers[t] = {}
=============================================================================
