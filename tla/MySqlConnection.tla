--------------------------- MODULE MySqlConnection ---------------------------
(***************************************************************************)
(* MySqlConnection and SqlRecordSet as the logins use them: every login    *)
(* makes a connection of its own (new MySqlConnection, Init), runs exist   *)
(* and insert of UserService on it, and drops it.  The module is about the *)
(* memory and the server connections behind the pointer mysql_, and about  *)
(* which statement runs on what after the server went away.                *)
(*                                                                         *)
(* The MySQL client library is external: mysql_init, mysql_real_connect,   *)
(* mysql_real_query, mysql_store_result, mysql_ping and mysql_close do     *)
(* what their documentation says of a handle in the given state.           *)
(***************************************************************************)
EXTENDS Integers, FiniteSets

CONSTANTS Threads,   \* pool threads that run logins, each one login at a time
          Blocks,    \* heap blocks for MYSQL structures
          MaxLogins, \* bound: logins per thread
          NULL

VARIABLES
    pc,      \* where each thread's login is
    mysql,   \* MySqlConnection::mysql_ of each thread's connection
    block,   \* state of each heap block
    freeMe,  \* blocks that the library allocated, and frees in mysql_close
    up,      \* the database server can be reached
    logins,  \* history: logins started by each thread
    lost,    \* history: blocks whose mysql_real_connect failed
    oom,     \* history: malloc has failed
    ub       \* a block was freed twice or used in a state it must not be in

vars == <<pc, mysql, block, freeMe, up, logins, lost, oom, ub>>

\* "raw": from malloc; "init": after mysql_init; "open": with a connection to
\* the server; "down": the connection broke.
BlockState == {"free", "raw", "init", "open", "down"}
ThreadPC == {"idle", "new", "connect", "exist", "insert", "end"}

Init ==
    /\ pc = [t \in Threads |-> "idle"]
    /\ mysql = [t \in Threads |-> NULL]
    /\ block = [b \in Blocks |-> "free"]
    /\ freeMe = {}
    /\ up = TRUE
    /\ logins = [t \in Threads |-> 0]
    /\ lost = {}
    /\ oom = FALSE
    /\ ub = FALSE

Goto(t, l) == pc' = [pc EXCEPT ![t] = l]

\* The handle of t's connection and what is known of it.
Handle(t) == block[mysql[t]]
-----------------------------------------------------------------------------
(***************************************************************************)
(* The database server, and the connections to it.                         *)
(***************************************************************************)

\* The server goes away and takes its connections along.
ServerDown ==
    /\ up
    /\ up' = FALSE
    /\ block' = [b \in Blocks |-> IF block[b] = "open" THEN "down" ELSE block[b]]
    /\ UNCHANGED <<pc, mysql, freeMe, logins, lost, oom, ub>>

ServerUp ==
    /\ ~up
    /\ up' = TRUE
    /\ UNCHANGED <<pc, mysql, block, freeMe, logins, lost, oom, ub>>

-----------------------------------------------------------------------------
(***************************************************************************)
(* Constructor and Init.                                                   *)
(***************************************************************************)

\* MySqlConnection(): malloc, which may fail.
New(t) ==
    /\ pc[t] = "idle"
    /\ logins[t] < MaxLogins
    /\ logins' = [logins EXCEPT ![t] = @ + 1]
    /\ Goto(t, "new")
    /\ \/ \E b \in Blocks :
            /\ block[b] = "free"
            /\ block' = [block EXCEPT ![b] = "raw"]
            /\ mysql' = [mysql EXCEPT ![t] = b]
            /\ UNCHANGED oom
       \/ /\ oom' = TRUE
          /\ mysql' = [mysql EXCEPT ![t] = NULL]
          /\ UNCHANGED block
    /\ UNCHANGED <<freeMe, up, lost, ub>>

\* mysql_init(mysql_): with a block it prepares it, with NULL it allocates one
\* itself (and will free it), or fails.  Setting MYSQL_OPT_RECONNECT follows.
MysqlInit(t) ==
    /\ pc[t] = "new"
    /\ \/ /\ mysql[t] # NULL
          /\ block' = [block EXCEPT ![mysql[t]] = "init"]
          /\ Goto(t, "connect")
          /\ UNCHANGED <<mysql, freeMe, oom>>
       \/ /\ mysql[t] = NULL
          /\ \E b \in Blocks :
               /\ block[b] = "free"
               /\ block' = [block EXCEPT ![b] = "init"]
               /\ mysql' = [mysql EXCEPT ![t] = b]
               /\ freeMe' = freeMe \cup {b}
          /\ Goto(t, "connect")
          /\ UNCHANGED oom
       \/ /\ mysql[t] = NULL
          /\ Goto(t, "end")
          /\ UNCHANGED <<mysql, block, freeMe, oom>>
    /\ UNCHANGED <<up, logins, lost, ub>>

\* mysql_ = mysql_real_connect(mysql_, ...): on failure mysql_ becomes NULL,
\* and with it the only pointer to the handle is gone.
RealConnect(t) ==
    /\ pc[t] = "connect"
    /\ \/ /\ up
          /\ block' = [block EXCEPT ![mysql[t]] = "open"]
          /\ Goto(t, "exist")
          /\ UNCHANGED <<mysql, lost>>
       \/ /\ mysql' = [mysql EXCEPT ![t] = NULL]
          /\ lost' = lost \cup {mysql[t]}
          /\ Goto(t, "end")
          /\ UNCHANGED block
    /\ UNCHANGED <<freeMe, up, logins, oom, ub>>
-----------------------------------------------------------------------------
(***************************************************************************)
(* Execute.                                                                *)
(***************************************************************************)

\* mysql_real_query is answered: a broken connection is first re-established,
\* as MYSQL_OPT_RECONNECT asks for.
QueryAnswered(t) ==
    /\ up
    /\ block' = [block EXCEPT ![mysql[t]] = "open"]

\* Mutant: Execute closes the connection when the server is gone, as if the
\* next Execute would open another.
QueryFails_Close(t) ==
    \/ /\ ~up
       /\ block' = [block EXCEPT ![mysql[t]] = "init"]
    \/ UNCHANGED block

\* mysql_real_query fails.  With CR_SERVER_GONE_ERROR, Reconnect pings the
\* server, which may be back by then; with any other error (the statement is
\* wrong, or the answer was lost) the connection stays as it is.
QueryFails(t) ==
    \/ /\ ~up \/ Handle(t) = "down"
       /\ block' = [block EXCEPT ![mysql[t]] = IF up THEN "open" ELSE "down"]
    \/ UNCHANGED block

\* UserService::exist, with the result set that SqlRecordSet holds and frees
\* when exist returns.  A failed select reads as "no such user".
Exist(t) ==
    /\ pc[t] = "exist"
    /\ \/ QueryAnswered(t) /\ Goto(t, "end")      \* GetRowCount() # 0
       \/ QueryAnswered(t) /\ Goto(t, "insert")   \* no row, or no result
       \/ QueryFails(t) /\ Goto(t, "insert")
    /\ ub' = (ub \/ Handle(t) \notin {"open", "down"})
    /\ UNCHANGED <<mysql, freeMe, up, logins, lost, oom>>

\* UserService::insert.
Insert(t) ==
    /\ pc[t] = "insert"
    /\ QueryAnswered(t) \/ QueryFails(t)
    /\ Goto(t, "end")
    /\ ub' = (ub \/ Handle(t) \notin {"open", "down"})
    /\ UNCHANGED <<mysql, freeMe, up, logins, lost, oom>>

-----------------------------------------------------------------------------

\* Mutant: the destructor forgets the handle and neither closes nor frees it.
Destroy_Forget(t) ==
    /\ pc[t] = "end"
    /\ Goto(t, "idle")
    /\ IF mysql[t] = NULL
         THEN UNCHANGED <<mysql, block, freeMe, ub>>
         ELSE /\ mysql' = [mysql EXCEPT ![t] = NULL]
              /\ UNCHANGED <<block, freeMe, ub>>
    /\ UNCHANGED <<up, logins, lost, oom>>

\* ~MySqlConnection, run when the shared_ptr of handle_login_req is dropped:
\* mysql_close and free.  If the library had allocated the block itself,
\* mysql_close has freed it already.
Destroy(t) ==
    /\ pc[t] = "end"
    /\ Goto(t, "idle")
    /\ IF mysql[t] = NULL
         THEN UNCHANGED <<mysql, block, freeMe, ub>>
         ELSE /\ block' = [block EXCEPT ![mysql[t]] = "free"]
              /\ ub' = (ub \/ Handle(t) = "free" \/ mysql[t] \in freeMe)
              /\ freeMe' = freeMe \ {mysql[t]}
              /\ mysql' = [mysql EXCEPT ![t] = NULL]
    /\ UNCHANGED <<up, logins, lost, oom>>

\* The steps of thread t's login.
Login(t) ==
    \/ New(t) \/ MysqlInit(t) \/ RealConnect(t)
    \/ Exist(t) \/ Insert(t) \/ Destroy(t)
-----------------------------------------------------------------------------

\* Whatever failed, and although blocks are recycled among logins: each live
\* handle belongs to exactly one login in progress, so memory and server
\* connections are given back when a login ends.  The one exception is the
\* handle of a connect that failed: it has no server connection, and nothing
\* ever frees it.
LeakOnlyByFailedConnect ==
    \A b \in Blocks : block[b] # "free" =>
        \/ \E t \in Threads : /\ mysql[t] = b /\ pc[t] # "idle"
                             /\ \A s \in Threads \ {t} : mysql[s] # b
        \/ b \in lost /\ block[b] = "init"

\* No statement runs on a handle that is not connected, and no handle is freed
\* twice, unless malloc has failed: then mysql_init(NULL) makes a handle that
\* mysql_close frees and the destructor frees again.
UndefinedOnlyByOom == ub => oom
=============================================================================
