-------------------------- MODULE ServerLifeProofs --------------------------
(***************************************************************************)
(* main's start-up and the database connections of the logins, for any     *)
(* set of requests and of heap blocks.                                     *)
(***************************************************************************)
EXTENDS ServerLife, TLAPS

\* The handler of users is subscribed, once per event id.
Subscribed == \A id \in Ids : id \in DOMAIN subs /\ subs[id] = <<"user">>

\* main: what each step relies on was done by an earlier one, and workers have
\* requests only while main is in its loop or in close, or from then on.
StartInv ==
    /\ pc \in 1..12
    /\ queued \in SUBSET Requests /\ busy \in SUBSET Requests
    /\ root \in BOOLEAN /\ conf \in BOOLEAN /\ crash \in BOOLEAN
    /\ pc > 2 => root
    /\ pc > 3 => conf
    /\ pc <= 5 => DOMAIN subs = {}
    /\ pc > 5 /\ pc < 12 => Subscribed
    /\ svrExit \in BOOLEAN /\ (pc = 12 => svrExit)
    /\ pc < 10 => queued = {} /\ busy = {}
    /\ pc < 12 => caught = {}
    /\ pc = 12 => busy \subseteq caught
    /\ crash => pc \in {10, 11} /\ tp = "null"

\* Every variable of the database connections has its type.
SqlTyped ==
    /\ sqlPc \in [Requests -> Sql!ThreadPC]
    /\ mysql \in [Requests -> Blocks \cup {NULL}]
    /\ block \in [Blocks -> Sql!BlockState]
    /\ freeMe \in SUBSET Blocks
    /\ lost \in SUBSET Blocks
    /\ ub \in BOOLEAN

\* A handle has one owner, and is in the state that the owner's step expects.
Owned ==
    /\ \A s, t \in Requests : mysql[s] = mysql[t] /\ mysql[s] # NULL => s = t
    /\ \A t \in Requests :
         /\ sqlPc[t] = "idle" => mysql[t] = NULL
         /\ sqlPc[t] \in {"connect", "exist", "insert"} => mysql[t] # NULL
         /\ mysql[t] # NULL =>
              block[mysql[t]] \in CASE sqlPc[t] = "new" -> {"raw"}
                                    [] sqlPc[t] = "connect" -> {"init"}
                                    [] OTHER -> {"open", "down"}

\* A live handle has an owner, or its connect failed and it has none for ever.
Accounted ==
    /\ \A b \in Blocks : block[b] # "free" =>
         b \in lost \/ \E t \in Requests : mysql[t] = b
    /\ \A b \in lost : block[b] = "init" /\ \A t \in Requests : mysql[t] # b

\* mysql_init gets NULL only after malloc failed.
OnlyOom ==
    /\ \A t \in Requests : sqlPc[t] = "new" /\ mysql[t] = NULL => oom
    /\ freeMe # {} => oom
    /\ ub => oom

\* The inductive invariant of the connections.
SqlInv == SqlTyped /\ Owned /\ Accounted /\ OnlyOom

-----------------------------------------------------------------------------
(***************************************************************************)
(* main.                                                                   *)
(***************************************************************************)

\* main's steps by number.
LEMMA Steps ==
  ASSUME pc \in 1..12
  PROVE  /\ Order[pc] = "args" => pc = 1
         /\ Order[pc] = "logger" => pc = 2
         /\ Order[pc] = "config" => pc = 3
         /\ Order[pc] = "connect" => pc = 4
         /\ Order[pc] = "handlers" => pc = 5
         /\ Order[pc] = "userTable" => pc = 6
         /\ Order[pc] = "bikeTable" => pc = 7
         /\ Order[pc] = "open" => pc = 8
         /\ Order[pc] = "start" => pc = 9
         /\ Order[pc] = "loop" <=> pc = 10
         /\ Order[pc] = "close" <=> pc = 11
         /\ Order[pc] = "return" => pc = 12
<1>1. \/ pc = 1 \/ pc = 2 \/ pc = 3 \/ pc = 4 \/ pc = 5 \/ pc = 6 \/ pc = 7
      \/ pc = 8 \/ pc = 9 \/ pc = 10 \/ pc = 11 \/ pc = 12
  OBVIOUS
<1>2. CASE pc = 1
  BY <1>2 DEF Order
<1>3. CASE pc = 2
  BY <1>3 DEF Order
<1>4. CASE pc = 3
  BY <1>4 DEF Order
<1>5. CASE pc = 4
  BY <1>5 DEF Order
<1>6. CASE pc = 5
  BY <1>6 DEF Order
<1>7. CASE pc = 6
  BY <1>7 DEF Order
<1>8. CASE pc = 7
  BY <1>8 DEF Order
<1>9. CASE pc = 8
  BY <1>9 DEF Order
<1>10. CASE pc = 9
  BY <1>10 DEF Order
<1>11. CASE pc = 10
  BY <1>11 DEF Order
<1>12. CASE pc = 11
  BY <1>12 DEF Order
<1>13. CASE pc = 12
  BY <1>13 DEF Order
<1> QED
  BY <1>1, <1>2, <1>3, <1>4, <1>5, <1>6, <1>7, <1>8, <1>9, <1>10, <1>11, <1>12, <1>13

\* The constructor of UserEventHandler on an empty table.
LEMMA SubscribeBoth ==
  ASSUME NEW s, DOMAIN s = {},
         NEW u, u = Subscribe(Subscribe(s, "code", "user"), "login", "user")
  PROVE  \A id \in Ids : id \in DOMAIN u /\ u[id] = <<"user">>
<1> DEFINE f == Subscribe(s, "code", "user")
<1>1. DOMAIN f = {"code"} /\ f["code"] = <<"user">>
  BY DEF Subscribe
<1>2. u = Subscribe(f, "login", "user")
  OBVIOUS
<1> HIDE DEF f
<1>3. /\ "code" \in DOMAIN u /\ "login" \in DOMAIN u
      /\ u["code"] = f["code"] /\ u["login"] = <<"user">>
  BY <1>1, <1>2 DEF Subscribe
<1> QED
  BY <1>1, <1>3 DEF Ids

\* A step of main keeps the start-up invariant.
LEMMA MainKeeps ==
  ASSUME StartInv, Main
  PROVE  StartInv'
<1> USE DEF StartInv, At, Step, Exit, Log, poolVars
<1>1. CASE Args
  BY <1>1, Steps DEF Args, Subscribed
<1>2. CASE LoggerInit
  <2>1. pc = 2 /\ ~crash
    BY <1>2, Steps DEF LoggerInit
  <2>2. \/ root' = TRUE /\ pc' = 3
        \/ root' = root /\ pc' = 2
    BY <1>2, <2>1 DEF LoggerInit
  <2>3. root' \in BOOLEAN
    BY <2>2
  <2> QED
    BY <1>2, <2>1, <2>2, <2>3 DEF LoggerInit
<1>3. CASE LoadFile
  <2>1. pc = 3 /\ ~crash /\ root
    BY <1>3, Steps DEF LoadFile
  <2>2. \/ conf' = TRUE /\ pc' = 4
        \/ conf' = conf /\ pc' = 3
    BY <1>3, <2>1 DEF LoadFile
  <2>3. conf' \in BOOLEAN
    BY <2>2
  <2>4. crash' = FALSE
    BY <1>3, <2>1 DEF LoadFile
  <2> QED
    BY <1>3, <2>1, <2>2, <2>3, <2>4 DEF LoadFile
<1>4. CASE Connect
  BY <1>4, Steps DEF Connect, Subscribed
<1>5. CASE Handlers
  <2>1. pc = 5 /\ pc' = 6
    BY <1>5, Steps DEF Handlers
  <2>2. DOMAIN subs = {} /\ subs' = Subscribe(Subscribe(subs, "code", "user"), "login", "user")
    BY <1>5, <2>1 DEF Handlers
  <2>3. Subscribed'
    BY <2>2, SubscribeBoth DEF Subscribed
  <2> QED
    BY <1>5, <2>1, <2>3 DEF Handlers
<1>6. CASE CreateTable("userTable", "userinfo")
  <2>1. pc = 6 /\ ~crash /\ root
    BY <1>6, Steps DEF CreateTable
  <2>2. pc' = 7 /\ UNCHANGED <<root, conf, subs, tp, queued, busy, caught, svrExit>>
    BY <1>6, <2>1 DEF CreateTable
  <2>3. crash' = FALSE
    BY <1>6, <2>1 DEF CreateTable
  <2> QED
    BY <1>6, <2>1, <2>2, <2>3 DEF CreateTable, Subscribed
<1>7. CASE CreateTable("bikeTable", "bikeinfo")
  <2>1. pc = 7 /\ ~crash /\ root
    BY <1>7, Steps DEF CreateTable
  <2>2. pc' = 8 /\ UNCHANGED <<root, conf, subs, tp, queued, busy, caught, svrExit>>
    BY <1>7, <2>1 DEF CreateTable
  <2>3. crash' = FALSE
    BY <1>7, <2>1 DEF CreateTable
  <2>4. Subscribed'
    BY <2>1, <2>2 DEF Subscribed
  <2>5. pc' \in 1..12 /\ (pc' > 2 => root') /\ (pc' > 3 => conf') /\ ~(pc' <= 5)
    BY <2>1, <2>2
  <2>6. queued' = {} /\ busy' = {} /\ caught' = {} /\ root' \in BOOLEAN /\ conf' \in BOOLEAN
    BY <2>1, <2>2
  <2>8. svrExit' \in BOOLEAN /\ pc' # 12 /\ pc' # 10 /\ pc' # 11
    BY <2>1, <2>2
  <2>7. crash' \in BOOLEAN /\ ~crash'
    BY <2>3
  <2> QED
    BY <2>4, <2>5, <2>6, <2>7, <2>8
<1>8. CASE Open
  <2>1. pc = 8 /\ pc' = 9 /\ svrExit' = FALSE
    BY <1>8, Steps DEF Open
  <2>2. UNCHANGED <<root, conf, subs, queued, busy, caught, crash>>
    BY <1>8 DEF Open
  <2>3. Subscribed'
    BY <2>1, <2>2 DEF Subscribed
  <2>4. svrExit' \in BOOLEAN
    BY <2>1
  <2>5. root' \in BOOLEAN /\ conf' \in BOOLEAN /\ crash' \in BOOLEAN /\ ~crash'
    BY <2>1, <2>2
  <2>6. /\ pc' \in 1..12 /\ (pc' > 2 => root') /\ (pc' > 3 => conf') /\ ~(pc' <= 5)
        /\ pc' < 10
    BY <2>1, <2>2
  <2>7. queued' = {} /\ busy' = {} /\ caught' = {}
    BY <2>1, <2>2
  <2> QED
    BY <2>3, <2>4, <2>5, <2>6, <2>7
<1>9. CASE Start
  BY <1>9, Steps DEF Start, Subscribed
<1>10. CASE \E r \in Requests : Enqueue(r)
  <2>1. PICK r \in Requests : Enqueue(r)
    BY <1>10
  <2>2. pc = 10 /\ UNCHANGED <<pc, root, conf, subs, tp, busy, caught, svrExit>>
    BY <2>1, Steps DEF Enqueue
  <2>3. \/ tp = "null" /\ crash' = TRUE /\ queued' = queued
        \/ crash' = crash /\ queued' = queued \cup {r}
    BY <2>1 DEF Enqueue
  <2>4. crash = FALSE
    BY <2>1 DEF Enqueue
  <2>5. crash' \in BOOLEAN /\ (crash' = FALSE \/ tp = "null")
    BY <2>3, <2>4
  <2> QED
    BY <2>2, <2>3, <2>5 DEF Subscribed
<1>11. CASE LeaveLoop
  BY <1>11, Steps DEF LeaveLoop, Subscribed
<1>12. CASE CloseBegin
  BY <1>12, Steps DEF CloseBegin, Subscribed
<1>13. CASE CloseEnd
  BY <1>13, Steps DEF CloseEnd, Subscribed
<1>14. CASE Return
  BY <1>14, Steps DEF Return, Subscribed
<1> QED
  BY <1>1, <1>2, <1>3, <1>4, <1>5, <1>6, <1>7, <1>8, <1>9, <1>10, <1>11, <1>12,
     <1>13, <1>14 DEF Main

\* A worker takes no request to the handlers once svr_exit_ is set.
LEMMA WorkerKeeps ==
  ASSUME StartInv, NEW r \in Requests, Svc(r) \/ SvcDone(r)
  PROVE  StartInv'
  BY DEF StartInv, Svc, SvcDone, Subscribed

-----------------------------------------------------------------------------
(***************************************************************************)
(* The logins.                                                             *)
(***************************************************************************)

\* malloc, or its failure.
LEMMA NewKeeps ==
  ASSUME SqlInv, NEW t \in Requests, Sql!New(t)
  PROVE  SqlInv'
<1> USE DEF SqlInv, Sql!Goto
<1>1. sqlPc[t] = "idle" /\ mysql[t] = NULL
  BY DEF Sql!New, Owned
<1>2. /\ sqlPc' = [sqlPc EXCEPT ![t] = "new"]
      /\ UNCHANGED <<freeMe, lost, ub>>
  BY DEF Sql!New
<1>3. ASSUME NEW b \in Blocks, block[b] = "free",
             block' = [block EXCEPT ![b] = "raw"],
             mysql' = [mysql EXCEPT ![t] = b], oom' = oom
      PROVE  SqlInv'
  <2>1. SqlTyped'
    BY <1>2, <1>3 DEF SqlTyped, Sql!ThreadPC, Sql!BlockState
  <2>2. \A s \in Requests : mysql[s] # b
    BY <1>3, LifeAssumption DEF SqlTyped, Owned
  <2>3. Owned'
    BY <1>2, <1>3, <2>2, LifeAssumption DEF SqlTyped, Owned
  <2>4. Accounted'
    BY <1>1, <1>2, <1>3, <2>2, LifeAssumption DEF SqlTyped, Accounted
  <2>5. OnlyOom'
    BY <1>2, <1>3, LifeAssumption DEF SqlTyped, OnlyOom
  <2> QED
    BY <2>1, <2>3, <2>4, <2>5
<1>4. ASSUME oom', mysql' = [mysql EXCEPT ![t] = NULL], block' = block
      PROVE  SqlInv'
  <2>1. mysql' = mysql
    BY <1>1, <1>4 DEF SqlTyped
  <2>2. SqlTyped' /\ Accounted' /\ OnlyOom'
    BY <1>2, <1>4, <2>1 DEF SqlTyped, Sql!ThreadPC, Accounted, OnlyOom
  <2>3. Owned'
    BY <1>1, <1>2, <1>4, <2>1 DEF SqlTyped, Owned
  <2> QED
    BY <2>2, <2>3
<1> QED
  BY <1>3, <1>4 DEF Sql!New

\* A step that changes only the state of t's own handle and t's place.
LEMMA OwnHandleKeeps ==
  ASSUME SqlInv, NEW t \in Requests, mysql[t] # NULL,
         NEW l \in Sql!ThreadPC, NEW v,
         v \in CASE l = "connect" -> {"init"} [] OTHER -> {"open", "down"},
         l \notin {"idle", "new"},
         sqlPc' = [sqlPc EXCEPT ![t] = l],
         block' = [block EXCEPT ![mysql[t]] = v],
         UNCHANGED <<mysql, freeMe, lost, oom, ub>>
  PROVE  SqlInv'
<1> USE DEF SqlInv
<1>1. mysql[t] \in Blocks /\ \A s \in Requests \ {t} : mysql[s] # mysql[t]
  BY DEF SqlTyped, Owned
<1>2. mysql[t] \notin lost
  BY <1>1 DEF Accounted
<1>3. v \in Sql!BlockState /\ v # "free"
  BY DEF Sql!BlockState
<1>4. SqlTyped'
  BY <1>1, <1>3 DEF SqlTyped
<1>5. Owned'
  BY <1>1 DEF SqlTyped, Owned
<1>6. Accounted'
  BY <1>1, <1>2 DEF SqlTyped, Accounted
<1>7. OnlyOom'
  BY DEF SqlTyped, OnlyOom
<1> QED
  BY <1>4, <1>5, <1>6, <1>7

\* mysql_init.
LEMMA InitKeeps ==
  ASSUME SqlInv, NEW t \in Requests, Sql!MysqlInit(t)
  PROVE  SqlInv'
<1> USE DEF SqlInv, Sql!Goto
<1>1. sqlPc[t] = "new" /\ UNCHANGED <<lost, ub, oom>>
  BY DEF Sql!MysqlInit
<1>2. CASE /\ mysql[t] # NULL
           /\ block' = [block EXCEPT ![mysql[t]] = "init"]
           /\ Sql!Goto(t, "connect")
           /\ UNCHANGED <<mysql, freeMe>>
  BY <1>1, <1>2, OwnHandleKeeps DEF Sql!ThreadPC
<1>3. ASSUME mysql[t] = NULL, NEW b \in Blocks, block[b] = "free",
             block' = [block EXCEPT ![b] = "init"],
             mysql' = [mysql EXCEPT ![t] = b],
             freeMe' = freeMe \cup {b},
             Sql!Goto(t, "connect")
      PROVE  SqlInv'
  <2>1. SqlTyped'
    BY <1>1, <1>3 DEF SqlTyped, Sql!ThreadPC, Sql!BlockState
  <2>2. \A s \in Requests : mysql[s] # b
    BY <1>3, LifeAssumption DEF SqlTyped, Owned
  <2>3. Owned'
    BY <1>3, <2>2, LifeAssumption DEF SqlTyped, Owned
  <2>4. Accounted'
    BY <1>1, <1>3, <2>2, LifeAssumption DEF SqlTyped, Accounted
  <2>5. OnlyOom'
    BY <1>1, <1>3 DEF SqlTyped, OnlyOom
  <2> QED
    BY <2>1, <2>3, <2>4, <2>5
<1>4. ASSUME mysql[t] = NULL, Sql!Goto(t, "end"), UNCHANGED <<mysql, block, freeMe>>
      PROVE  SqlInv'
  <2>1. SqlTyped' /\ Accounted' /\ OnlyOom'
    BY <1>1, <1>4 DEF SqlTyped, Sql!ThreadPC, Accounted, OnlyOom
  <2>2. Owned'
    BY <1>1, <1>4 DEF SqlTyped, Owned
  <2> QED
    BY <2>1, <2>2
<1> QED
  BY <1>2, <1>3, <1>4 DEF Sql!MysqlInit

\* mysql_real_connect; when it fails the handle has lost its owner.
LEMMA ConnectKeeps ==
  ASSUME SqlInv, NEW t \in Requests, Sql!RealConnect(t)
  PROVE  SqlInv'
<1> USE DEF SqlInv, Sql!Goto
<1>1. /\ sqlPc[t] = "connect" /\ mysql[t] # NULL /\ UNCHANGED <<freeMe, oom, ub>>
      /\ mysql[t] \in Blocks /\ block[mysql[t]] = "init"
  BY DEF Sql!RealConnect, Owned, SqlTyped
<1>2. CASE /\ block' = [block EXCEPT ![mysql[t]] = "open"]
           /\ Sql!Goto(t, "exist")
           /\ UNCHANGED <<mysql, lost>>
  BY <1>1, <1>2, OwnHandleKeeps DEF Sql!ThreadPC
<1>3. CASE /\ mysql' = [mysql EXCEPT ![t] = NULL]
           /\ lost' = lost \cup {mysql[t]}
           /\ Sql!Goto(t, "end")
           /\ block' = block
  <2>1. SqlTyped'
    BY <1>1, <1>3 DEF SqlTyped, Sql!ThreadPC
  <2>2. Owned'
    BY <1>1, <1>3 DEF SqlTyped, Owned
  <2>3. Accounted'
    <3>1. \A s \in Requests \ {t} : mysql[s] # mysql[t] /\ mysql'[s] = mysql[s]
      BY <1>1, <1>3 DEF SqlTyped, Owned
    <3>2. mysql'[t] = NULL
      BY <1>3 DEF SqlTyped
    <3>3. ASSUME NEW b \in lost' PROVE block'[b] = "init" /\ \A s \in Requests : mysql'[s] # b
      BY <1>1, <1>3, <3>1, <3>2, <3>3, LifeAssumption DEF Accounted, SqlTyped
    <3>4. ASSUME NEW b \in Blocks, block'[b] # "free"
          PROVE  b \in lost' \/ \E s \in Requests : mysql'[s] = b
      <4>1. CASE b \in lost \/ b = mysql[t]
        BY <1>3, <4>1
      <4>2. CASE \E s \in Requests \ {t} : mysql[s] = b
        BY <3>1, <4>2
      <4> QED
        BY <1>3, <3>4, <4>1, <4>2 DEF Accounted
    <3> QED
      BY <3>3, <3>4 DEF Accounted
  <2>4. OnlyOom'
    BY <1>1, <1>3 DEF SqlTyped, OnlyOom
  <2> QED
    BY <2>1, <2>2, <2>3, <2>4
<1> QED
  BY <1>2, <1>3 DEF Sql!RealConnect

\* exist and insert run on a handle that has, or had, a server connection.
LEMMA QueryKeeps ==
  ASSUME SqlInv, NEW t \in Requests, Sql!Exist(t) \/ Sql!Insert(t)
  PROVE  SqlInv'
<1> USE DEF SqlInv, Sql!Goto
<1>1. /\ sqlPc[t] \in {"exist", "insert"} /\ mysql[t] # NULL
      /\ mysql[t] \in Blocks /\ block[mysql[t]] \in {"open", "down"}
  BY DEF Sql!Exist, Sql!Insert, Owned, SqlTyped
<1>2. UNCHANGED <<mysql, freeMe, lost, oom, ub>>
  BY <1>1 DEF Sql!Exist, Sql!Insert, Sql!Handle, SqlTyped
<1>3. PICK l \in {"end", "insert"} : sqlPc' = [sqlPc EXCEPT ![t] = l]
  BY DEF Sql!Exist, Sql!Insert
<1>4. \E v \in {"open", "down"} : block' = [block EXCEPT ![mysql[t]] = v]
  <2>1. CASE Sql!QueryAnswered(t)
    BY <2>1 DEF Sql!QueryAnswered
  <2>2. CASE Sql!QueryFails(t)
    <3>1. CASE block' = [block EXCEPT ![mysql[t]] = IF up THEN "open" ELSE "down"]
      BY <3>1
    <3>2. CASE block' = block
      <4>1. block = [block EXCEPT ![mysql[t]] = block[mysql[t]]]
        BY <1>1 DEF SqlTyped
      <4> QED
        BY <1>1, <3>2, <4>1
    <3> QED
      BY <2>2, <3>1, <3>2 DEF Sql!QueryFails
  <2> QED
    BY <2>1, <2>2 DEF Sql!Exist, Sql!Insert
<1>5. PICK v \in {"open", "down"} : block' = [block EXCEPT ![mysql[t]] = v]
  BY <1>4
<1> QED
  BY <1>1, <1>2, <1>3, <1>5, OwnHandleKeeps DEF Sql!ThreadPC

\* ~MySqlConnection gives back the handle of t and no other.
LEMMA DestroyKeeps ==
  ASSUME SqlInv, NEW t \in Requests, Sql!Destroy(t)
  PROVE  SqlInv'
<1> USE DEF SqlInv, Sql!Goto
<1>1. /\ sqlPc[t] = "end" /\ sqlPc' = [sqlPc EXCEPT ![t] = "idle"]
      /\ UNCHANGED <<lost, oom>>
  BY DEF Sql!Destroy
<1>2. CASE mysql[t] = NULL
  <2>1. UNCHANGED <<mysql, block, freeMe, ub>>
    BY <1>2 DEF Sql!Destroy
  <2>2. SqlTyped' /\ Accounted' /\ OnlyOom'
    BY <1>1, <2>1 DEF SqlTyped, Sql!ThreadPC, Accounted, OnlyOom
  <2>3. Owned'
    BY <1>1, <1>2, <2>1 DEF SqlTyped, Owned
  <2> QED
    BY <2>2, <2>3
<1>3. CASE mysql[t] # NULL
  <2>1. /\ mysql[t] \in Blocks
        /\ block' = [block EXCEPT ![mysql[t]] = "free"]
        /\ ub' = (ub \/ Sql!Handle(t) = "free" \/ mysql[t] \in freeMe)
        /\ freeMe' = freeMe \ {mysql[t]}
        /\ mysql' = [mysql EXCEPT ![t] = NULL]
    BY <1>3 DEF Sql!Destroy, SqlTyped
  <2>2. block[mysql[t]] \in {"open", "down"}
    BY <1>1, <1>3 DEF Owned
  <2>3. \A s \in Requests \ {t} : mysql'[s] = mysql[s] /\ mysql[s] # mysql[t]
    BY <1>3, <2>1 DEF SqlTyped, Owned
  <2>4. mysql'[t] = NULL
    BY <2>1 DEF SqlTyped
  <2>5. SqlTyped'
    BY <1>1, <2>1 DEF SqlTyped, Sql!ThreadPC, Sql!BlockState
  <2>6. Owned'
    BY <1>1, <2>1, <2>3, <2>4 DEF SqlTyped, Owned
  <2>7. Accounted'
    BY <1>1, <2>1, <2>2, <2>3, <2>4, LifeAssumption DEF SqlTyped, Accounted
  <2>8. OnlyOom'
    BY <1>1, <2>1, <2>2, <2>3, <2>4 DEF SqlTyped, OnlyOom, Sql!Handle
  <2> QED
    BY <2>5, <2>6, <2>7, <2>8
<1> QED
  BY <1>2, <1>3

\* The server takes its connections along when it goes.
LEMMA DownKeeps ==
  ASSUME SqlInv, Sql!ServerDown \/ Sql!ServerUp
  PROVE  SqlInv'
<1> USE DEF SqlInv
<1>1. UNCHANGED <<sqlPc, mysql, freeMe, lost, oom, ub>>
  BY DEF Sql!ServerDown, Sql!ServerUp
<1>2. \A b \in Blocks : block'[b] = block[b] \/ (block[b] = "open" /\ block'[b] = "down")
  BY DEF Sql!ServerDown, Sql!ServerUp
<1>3. block' \in [Blocks -> Sql!BlockState]
  BY DEF Sql!ServerDown, Sql!ServerUp, SqlTyped, Sql!BlockState
<1>4. SqlTyped' /\ OnlyOom'
  BY <1>1, <1>3 DEF SqlTyped, OnlyOom
<1>5. Accounted'
  BY <1>1, <1>2 DEF Accounted, SqlTyped
<1>6. Owned'
  <2>1. \A t \in Requests : mysql[t] # NULL => mysql[t] \in Blocks
    BY DEF SqlTyped
  <2> QED
    BY <1>1, <1>2, <2>1 DEF Owned
<1> QED
  BY <1>4, <1>5, <1>6

-----------------------------------------------------------------------------

\* Every step of the process keeps both invariants.
LEMMA LifeStep == StartInv /\ SqlInv /\ [LifeNext]_lifeVars => StartInv' /\ SqlInv'
<1> SUFFICES ASSUME StartInv, SqlInv, [LifeNext]_lifeVars PROVE StartInv' /\ SqlInv'
  OBVIOUS
<1>1. ASSUME UNCHANGED vars PROVE StartInv'
  BY <1>1 DEF vars, StartInv, Subscribed
<1>2. ASSUME UNCHANGED sqlVars PROVE SqlInv'
  BY <1>2 DEF sqlVars, SqlInv, SqlTyped, Owned, Accounted, OnlyOom
<1>3. CASE UNCHANGED lifeVars
  BY <1>1, <1>2, <1>3 DEF lifeVars
<1>4. CASE Main /\ UNCHANGED sqlVars
  BY <1>2, <1>4, MainKeeps
<1>5. ASSUME NEW r \in Requests, Svc(r) \/ SvcDone(r), UNCHANGED sqlVars
      PROVE  StartInv' /\ SqlInv'
  BY <1>2, <1>5, WorkerKeeps
<1>6. ASSUME NEW r \in busy, Sql!Login(r), UNCHANGED vars PROVE StartInv' /\ SqlInv'
  <2>1. r \in Requests
    BY DEF StartInv
  <2> QED
    BY <1>1, <1>6, <2>1, NewKeeps, InitKeeps, ConnectKeeps, QueryKeeps, DestroyKeeps
       DEF Sql!Login
<1>7. CASE (Sql!ServerDown \/ Sql!ServerUp) /\ UNCHANGED vars
  BY <1>1, <1>7, DownKeeps
<1> QED
  BY <1>3, <1>4, <1>5, <1>6, <1>7 DEF LifeNext

\* The process starts in both.
LEMMA LifeStart == LifeInit => StartInv /\ SqlInv
<1> SUFFICES ASSUME LifeInit PROVE StartInv /\ SqlInv
  OBVIOUS
<1>1. StartInv
  <2>1. /\ pc = 1 /\ root = FALSE /\ conf = FALSE /\ crash = FALSE /\ queued = {} /\ busy = {}
        /\ subs = [i \in {} |-> <<>>] /\ caught = {} /\ svrExit = FALSE
    BY DEF LifeInit, Init
  <2>2. DOMAIN subs = {}
    BY <2>1
  <2>3. pc \in 1..12 /\ ~(pc > 2) /\ ~(pc > 3) /\ ~(pc > 5) /\ pc < 12
    BY <2>1
  <2>4. /\ root \in BOOLEAN /\ conf \in BOOLEAN /\ crash \in BOOLEAN /\ ~crash
        /\ svrExit \in BOOLEAN
    BY <2>1
  <2> QED
    BY <2>1, <2>2, <2>3, <2>4 DEF StartInv
<1>2. SqlTyped
  BY DEF LifeInit, Sql!Init, SqlTyped, Sql!ThreadPC, Sql!BlockState
<1>3. Owned /\ Accounted /\ OnlyOom
  BY DEF LifeInit, Sql!Init, Owned, Accounted, OnlyOom
<1> QED
  BY <1>1, <1>2, <1>3 DEF SqlInv

\* Both invariants hold throughout the life of the process.
THEOREM LifeInvariance == LifeSpec => [](StartInv /\ SqlInv)
  BY LifeStart, LifeStep, PTL DEF LifeSpec

\* ReadyToServe: whichever steps of main failed, a worker that handles a request
\* finds the logger, the configuration and its handler, but for a request that
\* it had when close cleared the handlers of a pool too full to be destroyed.
THEOREM ServesWhenReady == LifeSpec => []ReadyToServe
<1>1. StartInv => ReadyToServe
  <2> SUFFICES ASSUME StartInv PROVE ReadyToServe
    OBVIOUS
  <2>1. busy # {} => root /\ conf
    BY DEF StartInv
  <2>2. ASSUME NEW r \in busy \ caught, NEW id \in Ids
        PROVE  id \in DOMAIN subs /\ Len(subs[id]) = 1
    <3>1. pc \in {10, 11} /\ Subscribed
      BY <2>2 DEF StartInv
    <3> QED
      BY <3>1 DEF Subscribed
  <2>3. caught # {} => Order[pc] = "return"
    <3>1. caught # {} => pc = 12
      BY DEF StartInv
    <3> QED
      BY <3>1 DEF Order
  <2> QED
    BY <2>1, <2>2, <2>3 DEF ReadyToServe
<1> QED
  BY <1>1, LifeInvariance, PTL

\* CrashOnlyWithoutPool: the one failure ignored by main that is deadly is that
\* of thread_pool_init in DispatchMsgService::open.
THEOREM OnlyMissingPoolCrashes == LifeSpec => []CrashOnlyWithoutPool
<1>1. StartInv => CrashOnlyWithoutPool
  BY Steps DEF StartInv, CrashOnlyWithoutPool
<1> QED
  BY <1>1, LifeInvariance, PTL

\* LeakOnlyByFailedConnect: a MYSQL handle outlives its login only when
\* mysql_real_connect has overwritten mysql_ with NULL.
THEOREM HandlesAreAccounted == LifeSpec => []LeakOnlyByFailedConnect
<1>1. SqlInv => LeakOnlyByFailedConnect
  <2> SUFFICES ASSUME SqlInv, NEW b \in Blocks, block[b] # "free"
               PROVE  \/ \E t \in Requests : /\ mysql[t] = b /\ sqlPc[t] # "idle"
                                             /\ \A s \in Requests \ {t} : mysql[s] # b
                      \/ b \in lost /\ block[b] = "init"
    BY DEF LeakOnlyByFailedConnect, Sql!LeakOnlyByFailedConnect
  <2>1. CASE b \in lost
    BY <2>1 DEF SqlInv, Accounted
  <2>2. ASSUME NEW t \in Requests, mysql[t] = b
        PROVE  sqlPc[t] # "idle" /\ \A s \in Requests \ {t} : mysql[s] # b
    BY <2>2, LifeAssumption DEF SqlInv, Owned
  <2> QED
    BY <2>1, <2>2 DEF SqlInv, Accounted
<1> QED
  BY <1>1, LifeInvariance, PTL

\* UndefinedOnlyByOom: no statement runs on a dead handle and none is freed
\* twice, unless the constructor's malloc has failed.
THEOREM OnlyOomIsUndefined == LifeSpec => []UndefinedOnlyByOom
<1>1. SqlInv => UndefinedOnlyByOom
  BY DEF SqlInv, OnlyOom, UndefinedOnlyByOom, Sql!UndefinedOnlyByOom
<1> QED
  BY <1>1, LifeInvariance, PTL
=============================================================================
