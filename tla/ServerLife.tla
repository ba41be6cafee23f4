----------------------------- MODULE ServerLife -----------------------------
(***************************************************************************)
(* The life of the server process: Startup composed with the database      *)
(* connections of the logins it serves (MySqlConnection).  A worker that   *)
(* handles a request may run one login on the database; the handler        *)
(* returns when that login is through.                                     *)
(***************************************************************************)
EXTENDS Startup

CONSTANTS Blocks, NULL

ASSUME LifeAssumption == NULL \notin Blocks

VARIABLES sqlPc, mysql, block, freeMe, up, logins, lost, oom, ub

sqlVars == <<sqlPc, mysql, block, freeMe, up, logins, lost, oom, ub>>
lifeVars == <<vars, sqlVars>>

Sql == INSTANCE MySqlConnection
           WITH Threads <- Requests, MaxLogins <- 1, pc <- sqlPc

LifeInit == Init /\ Sql!Init

Running == code = 1 /\ ~crash /\ ~ub

\* The worker with request r is done with the database, or does not need it.
NoLogin(r) == sqlPc[r] = "idle"

LifeNext ==
    \/ Running /\ Main /\ UNCHANGED sqlVars
    \/ Running /\ \E r \in Requests : Svc(r) /\ UNCHANGED sqlVars
    \/ Running /\ \E r \in Requests : NoLogin(r) /\ SvcDone(r) /\ UNCHANGED sqlVars
    \/ Running /\ \E r \in busy : Sql!Login(r) /\ UNCHANGED vars
    \/ Running /\ Sql!ServerDown /\ UNCHANGED vars
    \/ Running /\ Sql!ServerUp /\ UNCHANGED vars

LifeSpec == LifeInit /\ [][LifeNext]_lifeVars
-----------------------------------------------------------------------------

\* Each live MYSQL handle belongs to one login in progress, or its connect
\* failed (MySqlConnection).
LeakOnlyByFailedConnect == Sql!LeakOnlyByFailedConnect

\* Only an out-of-memory makes the process use or free a handle wrongly
\* (MySqlConnection).
UndefinedOnlyByOom == Sql!UndefinedOnlyByOom
=============================================================================
