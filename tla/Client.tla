------------------------------- MODULE Client -------------------------------
(***************************************************************************)
(* The test client (client.cc), several of them at once, and what the      *)
(* server does for them: the code request, which draws a code and stores   *)
(* it under pm_, and the login, which compares the code.  Every client has *)
(* the same mobile number built in, so m2c_ has one entry.                 *)
(*                                                                         *)
(* The server handles the requests of one connection one after the other   *)
(* (Server, which is also about requests that stay unread or are refused), *)
(* and those of different connections concurrently.  A connection may end  *)
(* while a worker has its request.  The response then goes through the     *)
(* pointer to a session that was freed: when the memory was given to a new *)
(* connection, to another client.                                          *)
(*                                                                         *)
(* A response is two units of the TCP stream, its header and its payload.  *)
(* A read of the client takes as many units as have arrived, and the       *)
(* client takes what it read for one message.                              *)
(***************************************************************************)
EXTENDS Integers, Sequences, FiniteSets

CONSTANTS Clients, Codes,
          NoCode,   \* icode as it is set at the start, and an absent m2c_ entry
          NoClient,
          MaxCmds,  \* bound: commands typed at all clients together
          BufUnits  \* units that fill the buffer msg of server_msg_cb

ASSUME ClientAssumption ==
    /\ NoCode \notin Codes /\ NoClient \notin Clients /\ MaxCmds \in Nat
    /\ BufUnits \in Nat /\ BufUnits > 2

VARIABLES
    pc,     \* each client: "start", "run", "done", or "ub" when it wrote or read
            \* outside of a buffer, from where on it is not followed
    icode,  \* the global icode of each client
    typed,  \* number of commands typed so far
    reqs,   \* requests on their way to the server
    jobs,   \* the requests in the pool, queued or with a worker
    due,    \* the session of the connection waits for a response
    cell,   \* its place in memory, named by the client whose session was there first
    wire,   \* units on their way to the client
    open,   \* the server still has the connection
    m2c,    \* the code stored for the mobile
    owner,  \* history: the client whose request stored it
    lost,   \* history: the client did not read its last code response properly
    late,   \* history: connections that ended while the pool had their request
    stray,  \* history: clients that got a response to somebody else's request
    wild    \* the server used a session that was freed and not reused

sessVars == <<jobs, due, cell, open, late, stray, wild>>
vars == <<pc, icode, typed, reqs, sessVars, wire, m2c, owner, lost>>

Units(kind, code) == << [part |-> "head", kind |-> kind, code |-> code],
                        [part |-> "body", kind |-> kind, code |-> code] >>

Init ==
    /\ pc = [c \in Clients |-> "start"]
    /\ icode = [c \in Clients |-> NoCode]
    /\ typed = 0
    /\ reqs = [c \in Clients |-> <<>>]
    /\ jobs = {}
    /\ due = [c \in Clients |-> FALSE]
    /\ cell = [c \in Clients |-> c]
    /\ wire = [c \in Clients |-> <<>>]
    /\ open = [c \in Clients |-> FALSE]
    /\ m2c = NoCode
    /\ owner = NoClient
    /\ lost = [c \in Clients |-> FALSE]
    /\ late = {} /\ stray = {} /\ wild = FALSE
-----------------------------------------------------------------------------
(***************************************************************************)
(* The client.                                                             *)
(***************************************************************************)

\* Where there are sessions that are not freed, and where listener_cb may make
\* one for c: in new memory, or where one was freed.
InUse == {cell[d] : d \in {x \in Clients : open[x]}}
Places(c) == ({c} \cup {cell[d] : d \in {x \in Clients : pc[x] # "start"}}) \ InUse

\* tcp_connect_server: a bad address, socket or connect may fail.
TcpConnect(c) ==
    \/ UNCHANGED <<open, cell>>
    \/ /\ open' = [open EXCEPT ![c] = TRUE]
       /\ \E a \in Places(c) : cell' = [cell EXCEPT ![c] = a]

\* main: without its arguments or a connection it ends; else it sets up the
\* events for the terminal and the socket.
Start(c) ==
    /\ pc[c] = "start"
    /\ TcpConnect(c)
    /\ pc' = [pc EXCEPT ![c] = IF open'[c] THEN "run" ELSE "done"]
    /\ UNCHANGED <<icode, typed, reqs, jobs, due, wire, m2c, owner, lost, late, stray,
                   wild>>

\* cmd_msg_cb: "send_mr", "send_lr" or anything else.
Type(c, cmd) ==
    /\ pc[c] = "run"
    /\ typed < MaxCmds
    /\ typed' = typed + 1
    /\ reqs' = [reqs EXCEPT ![c] =
                  CASE cmd = "send_mr" -> Append(@, [kind |-> "code", code |-> NoCode])
                    [] cmd = "send_lr" -> Append(@, [kind |-> "login", code |-> icode[c]])
                    [] OTHER -> @]
    /\ UNCHANGED <<pc, icode, sessVars, wire, m2c, owner, lost>>

\* The process is gone, and with it what it has not read.
Ends(c, how) ==
    /\ pc' = [pc EXCEPT ![c] = how]
    /\ wire' = [wire EXCEPT ![c] = <<>>]

\* cmd_msg_cb when read fails (exit) or finds the end of the input, where
\* cmd[ret - 1] lies in front of the buffer.
TypeEnds(c) ==
    /\ pc[c] = "run"
    /\ \E how \in {"done", "ub"} : Ends(c, how)
    /\ UNCHANGED <<icode, typed, reqs, sessVars, m2c, owner, lost>>

\* Units of code responses among the first n that arrived.
CodeUnits(c, n) == {i \in 1..n : wire[c][i].kind = "code"}

\* icode = mr.icode()
NewCode(u) == IF u.kind = "code" THEN u.code ELSE NoCode

\* server_msg_cb reads n units.  Only what starts with the magic is looked at,
\* and only as one message: units behind the first message are dropped; when
\* the first message is not there completely, its payload is whatever is on
\* the stack.  A full buffer is overrun by the terminating zero.
ServerMsg(c, n) ==
    LET u == wire[c][1]
        whole == n >= 2 /\ u.part = "head"
    IN  /\ pc[c] = "run"
        /\ IF n = BufUnits THEN Ends(c, "ub")
           ELSE wire' = [wire EXCEPT ![c] = SubSeq(@, n + 1, Len(@))] /\ UNCHANGED pc
        /\ \/ /\ u.part = "head" /\ u.kind = "code"
              /\ \E k \in Codes \cup {NoCode} :
                    /\ whole => k = NewCode(u)
                    /\ icode' = [icode EXCEPT ![c] = k]
           \/ ~(u.part = "head" /\ u.kind = "code") /\ UNCHANGED icode
        /\ lost' = [lost EXCEPT ![c] =
                      IF CodeUnits(c, n) = {} THEN @
                      ELSE ~(whole /\ u.kind = "code" /\ CodeUnits(c, n) = {1, 2})]
        /\ UNCHANGED <<typed, reqs, sessVars, m2c, owner>>

\* Mutant: event_cb leaves the event for the terminal in place.
EventCb_KeepStdin(c) ==
    /\ pc[c] = "run"
    /\ ~open[c] /\ wire[c] = <<>>
    /\ UNCHANGED vars

\* event_cb: the server closed the connection.  Both events are freed, so
\* event_base_dispatch has nothing left to wait for and main returns.
EventCb(c) ==
    /\ pc[c] = "run"
    /\ ~open[c] /\ wire[c] = <<>>
    /\ Ends(c, "done")
    /\ UNCHANGED <<icode, typed, reqs, sessVars, m2c, owner, lost>>
-----------------------------------------------------------------------------
(***************************************************************************)
(* The server.                                                             *)
(***************************************************************************)

JobsOf(c) == {j \in jobs : j.conn = c}

\* A number that tells the requests of one connection in the pool apart.
Number(c) ==
    CHOOSE n \in 0..Cardinality(JobsOf(c)) : \A j \in JobsOf(c) : j.nr # n

\* The next request is complete and goes to the pool.  For a code request,
\* code_gen draws the code before pm_ is taken.
Dispatch(c) ==
    /\ ~wild
    /\ open[c] /\ ~due[c] /\ reqs[c] # <<>>
    /\ reqs' = [reqs EXCEPT ![c] = Tail(@)]
    /\ due' = [due EXCEPT ![c] = TRUE]
    /\ LET r == Head(reqs[c])
       IN  \E k \in Codes :
               jobs' = jobs \cup {[conn |-> c, nr |-> Number(c),
                                  kind |-> IF r.kind = "code" THEN "store" ELSE "login",
                                  code |-> IF r.kind = "code" THEN k ELSE r.code]}
    /\ UNCHANGED <<pc, icode, typed, cell, wire, open, m2c, owner, lost, late, stray,
                   wild>>

\* Mutant: the first code of a mobile stays.
StoreCode_First(j) ==
    /\ ~wild
    /\ j.kind = "store"
    /\ m2c' = IF m2c = NoCode THEN j.code ELSE m2c
    /\ owner' = j.conn
    /\ jobs' = (jobs \ {j}) \cup {[j EXCEPT !.kind = "code"]}
    /\ UNCHANGED <<pc, icode, typed, reqs, due, cell, wire, open, lost, late, stray,
                   wild>>

\* m2c_[mobile_] = icode under pm_
StoreCode(j) ==
    /\ ~wild
    /\ j.kind = "store"
    /\ m2c' = j.code
    /\ owner' = j.conn
    /\ jobs' = (jobs \ {j}) \cup {[j EXCEPT !.kind = "code"]}
    /\ UNCHANGED <<pc, icode, typed, reqs, due, cell, wire, open, lost, late, stray,
                   wild>>

\* The connections whose session is in the cell that a request points to: its
\* own one as long as that is open.
Sessions(j) == {d \in Clients : open[d] /\ cell[d] = cell[j.conn]}

\* The response is written to the session the request came from, and the
\* session is reset: the code, or the outcome of the login, for which the
\* payload carries no code.  What follows the use of freed memory is left out.
Respond(j) ==
    /\ ~wild
    /\ j.kind \in {"code", "login"}
    /\ jobs' = jobs \ {j}
    /\ \/ /\ Sessions(j) = {}
          /\ wild' = TRUE
          /\ UNCHANGED <<wire, due, stray>>
       \/ \E d \in Sessions(j) :
             /\ wire' = [wire EXCEPT ![d] = IF pc[d] = "run" THEN @ \o Units(j.kind, j.code)
                                           ELSE @]
             /\ due' = [due EXCEPT ![d] = FALSE]
             /\ stray' = stray \cup ({d} \ {j.conn})
             /\ UNCHANGED wild
    /\ UNCHANGED <<pc, icode, typed, reqs, cell, open, m2c, owner, lost, late>>

\* handle_error: the client is gone, or nothing was received for 10 s, be it
\* that a worker has a request of the connection.
CloseConn(c) ==
    /\ open[c]
    /\ open' = [open EXCEPT ![c] = FALSE]
    /\ reqs' = [reqs EXCEPT ![c] = <<>>]
    /\ late' = IF JobsOf(c) # {} THEN late \cup {c} ELSE late
    /\ UNCHANGED <<pc, icode, typed, jobs, due, cell, wire, m2c, owner, lost, stray,
                   wild>>
-----------------------------------------------------------------------------

Next ==
    \E c \in Clients :
        \/ Start(c)
        \/ \E cmd \in {"send_mr", "send_lr"} : Type(c, cmd)
        \/ TypeEnds(c)
        \/ \E n \in 1..BufUnits : n <= Len(wire[c]) /\ ServerMsg(c, n)
        \/ EventCb(c)
        \/ Dispatch(c) \/ CloseConn(c)
        \/ \E j \in JobsOf(c) : StoreCode(j) \/ Respond(j)

Spec == Init /\ [][Next]_vars

\* The client's event loop serves its socket, and the kernel reports the end
\* of the stream.
Fairness ==
    \A c \in Clients :
        /\ WF_vars(\E n \in 1..BufUnits : n <= Len(wire[c]) /\ ServerMsg(c, n))
        /\ WF_vars(EventCb(c))

FairSpec == Spec /\ Fairness
-----------------------------------------------------------------------------

\* A code request of c, or its response, is on the way.
CodePending(c) ==
    \/ \E i \in DOMAIN reqs[c] : reqs[c][i].kind = "code"
    \/ \E j \in JobsOf(c) : j.kind \in {"store", "code"}
    \/ \E i \in DOMAIN wire[c] : wire[c][i].kind = "code"

\* A response of c was read with others or in parts, somebody else's response
\* came in between, or the server used a freed session.
Disturbed(c) == lost[c] \/ c \in stray \/ wild

\* The code a client holds is the one the server compares with, unless the
\* client is still waiting for a code, another client has asked for a code of
\* the same mobile later, a response was cut or glued to another one on the
\* way, or a response to somebody else came in between.  These are the only
\* ways in which the code seen last is not the one that counts.  And the last
\* of them, like the use of a freed session, needs a connection that ended
\* while the server had its request.
CodeInSync ==
    /\ \A c \in Clients :
          pc[c] = "run" /\ open[c] /\ owner = c /\ ~CodePending(c) /\ ~Disturbed(c)
              => icode[c] = m2c
    /\ stray # {} \/ wild => late # {}

\* When the server closes the connection (10 s of silence are enough) the
\* client comes to its end, whatever is typed meanwhile.
ClientEnds ==
    \A c \in Clients :
        (pc[c] = "run" /\ ~open[c]) ~> pc[c] \in {"done", "ub"}
=============================================================================
