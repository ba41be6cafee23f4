------------------------------- MODULE Startup -------------------------------
(***************************************************************************)
(* main(): the steps that bring the server up, each of which may fail, and *)
(* the loop that follows.  Also DispatchMsgService open, close, subscribe  *)
(* and unsubscribe, the constructor and destructor of UserEventHandler and *)
(* QueryProcessor, NetworkInterface::start and Iniconfig::loadfile.        *)
(*                                                                         *)
(* What a request does is the matter of Server and UserEventHandler; here  *)
(* a request is a task that walks subscribers_ while it is "busy".         *)
(*                                                                         *)
(* The loop of main never ends, so DispatchMsgService::close and the       *)
(* destructors after it are dead code.  LoopEnds lets the loop end, to say *)
(* something about them.                                                   *)
(***************************************************************************)
EXTENDS Integers, Sequences, FiniteSets

CONSTANTS Requests,  \* requests that clients send
          Workers,   \* threads of the pool
          MaxQueue,  \* max_queue of the pool
          LoopEnds

ASSUME StartupAssumption ==
    /\ LoopEnds \in BOOLEAN
    /\ Workers \in Nat \ {0}
    /\ MaxQueue \in Nat \ {0}

VARIABLES
    pc,        \* index of main's next step in Order
    code,      \* exit code of the process, 1 while it runs
    root,      \* Logger::root_category_ is set
    conf,      \* Iniconfig::_config holds the values of the file
    subs,      \* DispatchMsgService::subscribers_
    tables,    \* tables that exist in the database
    tp,        \* DispatchMsgService::tp_: "null" or "pool"
    svrExit,   \* DispatchMsgService::svr_exit_
    listener,  \* NetworkInterface::listener_ is set
    queued, busy, answered,  \* requests in the pool, with a worker, answered
    caught,    \* those that were with a worker when close cleared subscribers_
    crash      \* a null pointer was dereferenced

vars == <<pc, code, root, conf, subs, tables, tp, svrExit, listener,
          queued, busy, answered, caught, crash>>

\* Mutant: the configuration is loaded before the logger is there.
Order_ConfigFirst ==
    <<"args", "config", "logger", "connect", "handlers", "userTable",
      "bikeTable", "open", "start", "loop", "close", "return">>

\* The steps of main, in program order.
Order ==
    <<"args", "logger", "config", "connect", "handlers", "userTable",
      "bikeTable", "open", "start", "loop", "close", "return">>

Ids == {"code", "login"}   \* the event ids the handler subscribes

Init ==
    /\ pc = 1
    /\ code = 1
    /\ root = FALSE
    /\ conf = FALSE
    /\ subs = [i \in {} |-> <<>>]
    /\ tables = {}
    /\ tp = "null"
    /\ svrExit = FALSE
    /\ listener = FALSE
    /\ queued = {} /\ busy = {} /\ answered = {} /\ caught = {}
    /\ crash = FALSE

At(s) == code = 1 /\ ~crash /\ Order[pc] = s
Step == pc' = pc + 1 /\ UNCHANGED code
Exit(c) == code' = c /\ UNCHANGED pc
poolVars == <<queued, busy, answered, caught>>

\* LOG_... goes through root_category_.
Log == crash' = (crash \/ ~root)
-----------------------------------------------------------------------------

\* argc < 3
Args ==
    /\ At("args")
    /\ Step \/ Exit(-1)
    /\ UNCHANGED <<root, conf, subs, tables, tp, svrExit, listener, poolVars, crash>>

\* Logger::init: root_category_ is set unless ConfigureFailure is caught.
LoggerInit ==
    /\ At("logger")
    /\ \/ root' = TRUE /\ Step
       \/ UNCHANGED root /\ Exit(-2)
    /\ UNCHANGED <<conf, subs, tables, tp, svrExit, listener, poolVars, crash>>

\* Iniconfig::loadfile; main logs what it loaded.
LoadFile ==
    /\ At("config")
    /\ \/ conf' = TRUE /\ Step
       \/ UNCHANGED conf /\ Exit(-3)
    /\ Log
    /\ UNCHANGED <<root, subs, tables, tp, svrExit, listener, poolVars>>

\* MySqlConnection::Init for the connection that creates the tables.
Connect ==
    /\ At("connect")
    /\ Step \/ Exit(-4)
    /\ Log
    /\ UNCHANGED <<root, conf, subs, tables, tp, svrExit, listener, poolVars>>

\* DispatchMsgService::subscribe: append the handler unless it is there.
Subscribe(s, id, h) ==
    [i \in DOMAIN s \cup {id} |->
        IF i # id THEN s[i]
        ELSE IF id \notin DOMAIN s THEN <<h>>
        ELSE IF \E k \in DOMAIN s[id] : s[id][k] = h THEN s[id]
        ELSE Append(s[id], h)]

\* DispatchMsgService::unsubscribe
Unsubscribe(s, id, h) ==
    [i \in DOMAIN s |->
        IF i # id THEN s[i] ELSE SelectSeq(s[i], LAMBDA x : x # h)]

\* QueryProcessor and with it UserEventHandler: its constructor subscribes.
Handlers ==
    /\ At("handlers")
    /\ subs' = Subscribe(Subscribe(subs, "code", "user"), "login", "user")
    /\ Log
    /\ Step
    /\ UNCHANGED <<root, conf, tables, tp, svrExit, listener, poolVars>>

\* QueryProcessor::init: CREATE TABLE IF NOT EXISTS, result ignored.
CreateTable(step, name) ==
    /\ At(step)
    /\ \/ tables' = tables \cup {name}
       \/ UNCHANGED tables
    /\ Log
    /\ Step
    /\ UNCHANGED <<root, conf, subs, tp, svrExit, listener, poolVars>>

\* DispatchMsgService::open; main ignores that there may be no pool.
Open ==
    /\ At("open")
    /\ svrExit' = FALSE
    /\ tp' \in {"pool", "null"}
    /\ Step
    /\ UNCHANGED <<root, conf, subs, tables, listener, poolVars, crash>>

\* NetworkInterface::start.  When it fails, "exit;" is evaluated, which calls
\* nothing, and main goes on.
Start ==
    /\ At("start")
    /\ listener' \in BOOLEAN
    /\ Log
    /\ Step
    /\ UNCHANGED <<root, conf, subs, tables, tp, svrExit, poolVars>>
-----------------------------------------------------------------------------

\* tp->waiting, the queued tasks less the idle workers (ThreadPool's
\* WaitingCount), against the limit.  A worker that is through with a task
\* counts as idle when it has come back to the queue.
MayRefuse == Cardinality(queued) >= MaxQueue
MayAccept == Cardinality(queued) + Cardinality(busy) < MaxQueue + Workers

\* A request comes in through the listener and is posted to tp_.  One that the
\* pool refuses changes nothing here.
Enqueue(r) ==
    /\ At("loop")
    /\ listener
    /\ r \in Requests \ (queued \cup busy \cup answered)
    /\ IF tp = "null"
         THEN crash' = TRUE /\ UNCHANGED queued
         ELSE MayAccept /\ queued' = queued \cup {r} /\ UNCHANGED crash
    /\ UNCHANGED <<pc, code, root, conf, subs, tables, tp, svrExit, listener,
                   busy, answered, caught>>

\* Mutant: svc does not look at svr_exit_.
Svc_NoExit(r) ==
    /\ ~crash
    /\ r \in queued
    /\ Cardinality(busy) < Workers
    /\ queued' = queued \ {r}
    /\ busy' = busy \cup {r}
    /\ UNCHANGED <<pc, code, root, conf, subs, tables, tp, svrExit, listener,
                   answered, caught, crash>>

\* svc: a worker starts to walk the handlers, unless the server is to exit.
Svc(r) ==
    /\ ~crash
    /\ r \in queued
    /\ Cardinality(busy) < Workers
    /\ queued' = queued \ {r}
    /\ busy' = IF svrExit THEN busy ELSE busy \cup {r}
    /\ UNCHANGED <<pc, code, root, conf, subs, tables, tp, svrExit, listener,
                   answered, caught, crash>>

\* The handlers are through, and the response is in its queue.  For a request
\* that was caught both are undefined: subscribers_ is empty, and queue_mutex
\* destroyed.
SvcDone(r) ==
    /\ ~crash
    /\ r \in busy
    /\ busy' = busy \ {r}
    /\ answered' = answered \cup {r}
    /\ UNCHANGED <<pc, code, root, conf, subs, tables, tp, svrExit, listener,
                   queued, caught, crash>>

LeaveLoop ==
    /\ At("loop")
    /\ LoopEnds
    /\ Step
    /\ UNCHANGED <<root, conf, subs, tables, tp, svrExit, listener, poolVars, crash>>

\* close, first half: svr_exit_ is set, and thread_pool_destroy(tp_) starts.
CloseBegin ==
    /\ At("close")
    /\ ~svrExit
    /\ svrExit' = TRUE
    /\ crash' = (tp = "null")
    /\ UNCHANGED <<pc, code, root, conf, subs, tables, tp, listener, poolVars>>

\* close, second half, when thread_pool_destroy is back: it has drained the
\* pool (ThreadPool's DestroyDrains), or returned without a word because its
\* first exit task was refused, and the workers go on.  Either way the mutex of
\* the responses is destroyed and the handlers and the pool are forgotten.
CloseEnd ==
    /\ At("close")
    /\ svrExit
    /\ (queued = {} /\ busy = {}) \/ MayRefuse
    /\ caught' = busy
    /\ subs' = [i \in {} |-> <<>>]
    /\ tp' = "null"
    /\ Step
    /\ UNCHANGED <<root, conf, tables, svrExit, listener, queued, busy, answered, crash>>

\* The destructor of UserEventHandler.
HandlerDestroyed(s) == Unsubscribe(Unsubscribe(s, "code", "user"), "login", "user")

\* main returns 0: ~QueryProcessor destroys the handler, which unsubscribes.
Return ==
    /\ At("return")
    /\ subs' = HandlerDestroyed(subs)
    /\ Exit(0)
    /\ UNCHANGED <<root, conf, tables, tp, svrExit, listener, poolVars, crash>>

\* The steps of main's thread.
Main ==
    \/ Args \/ LoggerInit \/ LoadFile \/ Connect \/ Handlers
    \/ CreateTable("userTable", "userinfo") \/ CreateTable("bikeTable", "bikeinfo")
    \/ Open \/ Start
    \/ \E r \in Requests : Enqueue(r)
    \/ LeaveLoop \/ CloseBegin \/ CloseEnd \/ Return
-----------------------------------------------------------------------------

\* Whichever steps of main failed: while a worker handles a request, the logger
\* and the configuration are there, and each event id has its one handler in
\* subscribers_, which the worker walks without a lock.  Only close breaks this,
\* when the pool was too full to be destroyed, and only for the requests that
\* were with a worker at that moment: those still queued never reach the
\* handlers, however late a worker takes them.
ReadyToServe ==
    /\ busy # {} => root /\ conf
    /\ \A r \in busy \ caught : \A id \in Ids : id \in DOMAIN subs /\ Len(subs[id]) = 1
    /\ caught # {} => Order[pc] = "return"

\* Of all failures that main ignores only one is deadly: without a pool the
\* first request, or close(), uses a null tp_.  No LOG_ macro runs before
\* Logger::init succeeded.
CrashOnlyWithoutPool ==
    crash => Order[pc] \in {"loop", "close"} /\ tp = "null"
=============================================================================
