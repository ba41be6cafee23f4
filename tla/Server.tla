------------------------------- MODULE Server -------------------------------
(***************************************************************************)
(* The request path of the server: NetworkInterface (the libevent          *)
(* callbacks of the network thread) composed with DispatchMsgService       *)
(* (parse, enqueue, svc, the response queue) over the worker pool.  The    *)
(* pool is the abstract TaskService, which ThreadPool implements.          *)
(*                                                                         *)
(* The network thread alternates between event_base_loop, where one        *)
(* callback runs at a time, and handleAllResponseEvent.  Workers run in    *)
(* between any two of its steps.                                           *)
(*                                                                         *)
(* A ConnectSession is a cell of the heap.  A cell that was freed may be   *)
(* handed out again for another connection, and an event refers to its     *)
(* session by the cell (`args').                                           *)
(*                                                                         *)
(* Abstractions: a message travels as two pieces, its header and its       *)
(* body, which TCP may deliver together or apart (RequestReader is about   *)
(* the bytes).  What a handler computes is UserEventHandler's matter; here *)
(* it takes arbitrarily long and answers with the event id of its request. *)
(***************************************************************************)
EXTENDS Integers, Sequences, FiniteSets

CONSTANTS Conns,     \* client connections, each accepted once
          Cells,     \* heap cells for ConnectSession objects
          NoCell,    \* no pointer yet
          Messages,  \* the messages clients send, a subset of MessageKind
          MaxSend,   \* bound: messages per connection
          MaxQueue,  \* max_queue of the pool
          Threads,   \* worker threads of the pool
          Prompt     \* TRUE: no peer leaves, and no 10 s pass, while a request
                     \* of the connection is being processed

\* "code", "login": well-formed requests; "other": an event id parseEvent does
\* not know; "garbled": a payload that protobuf rejects; "badhead": wrong magic
\* or a length outside 1..MAX_MSG_LEN.
MessageKind == {"code", "login", "other", "garbled", "badhead"}

ASSUME ServerAssumption ==
    /\ Messages \subseteq MessageKind
    /\ MaxSend \in Nat
    /\ MaxQueue \in Nat
    /\ Threads \in Nat \ {0}
    /\ Prompt \in BOOLEAN
    /\ NoCell \notin Cells

VARIABLES
    conn,      \* each connection: "new", "open" or "closed"
    cell,      \* the cell of its session, the callback argument of its bev
    heap,      \* the sessions, or Free
    net,       \* pieces sent by the client and not yet read from the socket
    inbuf,     \* the input evbuffer of the bufferevent
    phase,     \* what the network thread is doing: "events" or "responses"
    args,      \* ev->args_ of each event
    responses, \* DispatchMsgService::response_events
    ub,        \* the process made an access C++ leaves undefined
    pending, running, done, refused,  \* the pool (TaskService)
    req,       \* history: the requests of each connection turned into events
    out,       \* history: the events whose responses were written to each bev
    got        \* history: complete messages received on each connection

netVars == <<conn, cell, heap, net, inbuf>>
poolVars == <<pending, running, done, refused>>
vars == <<conn, cell, heap, net, inbuf, phase, args, responses, ub,
          pending, running, done, refused, req, out, got>>

\* An event is named by its connection and its number on that connection.
Events == Conns \X (1..MaxSend)

Pool == INSTANCE TaskService WITH Tasks <- Events

Free == [live |-> FALSE]
Session == [live : {TRUE}, bev : Conns, stat : {"request", "response"},
            rstat : {"header", "message"}]

\* What listener_cb and session_reset leave in a session.
FreshSession(c) ==
    [live |-> TRUE, bev |-> c, stat |-> "request", rstat |-> "header"]

Pieces(m) == <<[part |-> "head", msg |-> m], [part |-> "body", msg |-> m]>>

InFlight ==
    {e \in Events : \/ \E i \in DOMAIN pending : pending[i] = e
                    \/ e \in running
                    \/ \E i \in DOMAIN responses : responses[i] = e}

Kind(e) == req[e[1]][e[2]]

\* The messages parseEvent turns into events.
Parsed == {"code", "login"}

\* Mutant: the handler does not subscribe the login event.
Subscribed_NoLogin == {"code"}

\* The event ids the constructor of UserEventHandler subscribes.
Subscribed == {"code", "login"}

Init ==
    /\ conn = [c \in Conns |-> "new"]
    /\ cell = [c \in Conns |-> NoCell]
    /\ heap = [a \in Cells |-> Free]
    /\ net = [c \in Conns |-> <<>>]
    /\ inbuf = [c \in Conns |-> <<>>]
    /\ phase = "events"
    /\ args = [e \in Events |-> NoCell]
    /\ responses = <<>>
    /\ ub = FALSE
    /\ Pool!Init
    /\ req = [c \in Conns |-> <<>>]
    /\ out = [c \in Conns |-> <<>>]
    /\ got = [c \in Conns |-> 0]

-----------------------------------------------------------------------------
(***************************************************************************)
(* The clients and the sockets.                                            *)
(***************************************************************************)

\* listener_cb: a bufferevent and a session for a new connection.
Accept(c, a) ==
    /\ phase = "events"
    /\ conn[c] = "new"
    /\ heap[a] = Free
    /\ conn' = [conn EXCEPT ![c] = "open"]
    /\ cell' = [cell EXCEPT ![c] = a]
    /\ heap' = [heap EXCEPT ![a] = FreshSession(c)]
    /\ UNCHANGED <<net, inbuf, phase, args, responses, ub, poolVars, req, out, got>>

ClientSend(c, m) ==
    /\ conn[c] = "open"
    /\ got[c] + Cardinality({i \in DOMAIN net[c] : net[c][i].part = "body"}) < MaxSend
    /\ net' = [net EXCEPT ![c] = @ \o Pieces(m)]
    /\ UNCHANGED <<conn, cell, heap, inbuf, phase, args, responses, ub, poolVars,
                   req, out, got>>

-----------------------------------------------------------------------------
(***************************************************************************)
(* NetworkInterface::handle_request.  libevent calls it when it has read   *)
(* k more pieces from the socket into the input buffer, and only then:     *)
(* data that the callback leaves in the buffer brings no further call.     *)
(***************************************************************************)

Sess(c) == heap[cell[c]]

\* The input buffer with k more pieces.
Buffered(c, k) == inbuf[c] \o SubSeq(net[c], 1, k)

\* Read k pieces from the socket and drop the first d of the input buffer.
Consume(c, k, d) ==
    /\ net' = [net EXCEPT ![c] = SubSeq(@, k + 1, Len(@))]
    /\ inbuf' = [inbuf EXCEPT ![c] = SubSeq(Buffered(c, k), d + 1, Len(Buffered(c, k)))]

\* bufferevent_free(bev); session_free(cs): unread input is gone, and so is
\* the session, whoever still points to it.
CloseSession(c) ==
    /\ conn' = [conn EXCEPT ![c] = "closed"]
    /\ heap' = [heap EXCEPT ![cell[c]] = Free]
    /\ net' = [net EXCEPT ![c] = <<>>]
    /\ inbuf' = [inbuf EXCEPT ![c] = <<>>]
    /\ UNCHANGED <<cell, phase, args, responses, ub, poolVars, req, out>>

\* A response is due: handle_request returns at once.
IgnoreInput(c, k) ==
    /\ Sess(c).stat # "request"
    /\ Consume(c, k, 0)
    /\ UNCHANGED <<conn, cell, heap, phase, args, responses, ub, poolVars, req, out>>

HeaderNext(c) == Sess(c).stat = "request" /\ Sess(c).rstat = "header"

GoodHeader(p) == p.part = "head" /\ p.msg # "badhead"

\* The next ten bytes are no valid header: close.
BadHeader(c, k) ==
    /\ HeaderNext(c)
    /\ ~GoodHeader(Buffered(c, k)[1])
    /\ CloseSession(c)

\* A header, and nothing after it yet.
ReadHeader(c, k) ==
    /\ HeaderNext(c)
    /\ GoodHeader(Buffered(c, k)[1])
    /\ Len(Buffered(c, k)) = 1
    /\ Consume(c, k, 1)
    /\ heap' = [heap EXCEPT ![cell[c]].rstat = "message"]
    /\ UNCHANGED <<conn, cell, phase, args, responses, ub, poolVars, req, out>>

\* Where the body of the current request is in the input buffer.
BodyAt(c) == IF Sess(c).rstat = "header" THEN 2 ELSE 1

\* Mutant: handle_request does not look at session_stat.
Complete_AnyState(c, k) ==
    /\ Len(Buffered(c, k)) >= BodyAt(c)
    /\ HeaderNext(c) => GoodHeader(Buffered(c, k)[1])

\* msg_len == read_msg_len: the request is complete.
Complete(c, k) ==
    /\ Sess(c).stat = "request"
    /\ Len(Buffered(c, k)) >= BodyAt(c)
    /\ HeaderNext(c) => GoodHeader(Buffered(c, k)[1])

\* parseEvent returned an event: it keeps cs, and is posted to the pool.  The
\* result of enqueue is ignored.
DispatchEvent(c, k) ==
    LET e == <<c, Len(req[c]) + 1>>
        m == Buffered(c, k)[1].msg
    IN  /\ Complete(c, k)
        /\ m \in Parsed
        /\ Consume(c, k, BodyAt(c))
        /\ heap' = [heap EXCEPT ![cell[c]].stat = "response",
                                ![cell[c]].rstat = "message"]
        /\ args' = [args EXCEPT ![e] = cell[c]]
        /\ req' = [req EXCEPT ![c] = Append(@, m)]
        /\ Pool!Accept(e) \/ Pool!Refuse(e)
        /\ UNCHANGED <<conn, cell, phase, responses, ub, out>>

\* parseEvent returned NULL: close.
RejectMessage(c, k) ==
    /\ Complete(c, k)
    /\ Buffered(c, k)[1].msg \notin Parsed
    /\ CloseSession(c)

\* parseEvent ran off its end after ParseFromArray failed and the caller uses
\* whatever is in the return register as an event.
ParseUndefined(c, k) ==
    /\ Complete(c, k)
    /\ Buffered(c, k)[1].msg = "garbled"
    /\ ub' = TRUE
    /\ UNCHANGED <<netVars, phase, args, responses, poolVars, req, out>>

HandleRequest(c) ==
    /\ phase = "events"
    /\ conn[c] = "open"
    /\ \E k \in 1..Len(net[c]) :
         /\ got' = [got EXCEPT ![c] = @ +
                      Cardinality({i \in 1..k : net[c][i].part = "body"})]
         /\ \/ IgnoreInput(c, k) \/ BadHeader(c, k) \/ ReadHeader(c, k)
            \/ DispatchEvent(c, k) \/ RejectMessage(c, k) \/ ParseUndefined(c, k)

\* Mutant: no timeout runs while a response is due.
HandleError_NotWaiting(c) ==
    /\ phase = "events"
    /\ conn[c] = "open"
    /\ Sess(c).stat = "request"
    /\ Prompt => \A e \in InFlight : e[1] # c
    /\ CloseSession(c)
    /\ UNCHANGED got

\* handle_error: end of file, an error, or 10 s without input or output.
HandleError(c) ==
    /\ phase = "events"
    /\ conn[c] = "open"
    /\ Prompt => \A e \in InFlight : e[1] # c
    /\ CloseSession(c)
    /\ UNCHANGED got

\* event_base_loop has run the callbacks that were ready.
EventsHandled ==
    /\ phase = "events"
    /\ phase' = "responses"
    /\ UNCHANGED <<netVars, args, responses, ub, poolVars, req, out, got>>

-----------------------------------------------------------------------------
(***************************************************************************)
(* The workers: DispatchMsgService::svc and process.                       *)
(***************************************************************************)

StartSvc ==
    /\ Pool!Start
    /\ UNCHANGED <<netVars, phase, args, responses, ub, req, out, got>>

\* Mutant: the response is not pushed.
Svc_NoPush(e) ==
    /\ Pool!Finish(e)
    /\ UNCHANGED <<netVars, phase, args, responses, ub, req, out, got>>

\* The handlers have returned; the response takes over the event's args and is
\* pushed on response_events under queue_mutex.
Svc(e) ==
    /\ Pool!Finish(e)
    /\ responses' = Append(responses, e)
    /\ UNCHANGED <<netVars, phase, args, ub, req, out, got>>

-----------------------------------------------------------------------------
(***************************************************************************)
(* handleAllResponseEvent, assembleResponse and send_response_msg.         *)
(***************************************************************************)

\* process found no handler for the request, so svc pushed an ExitRspEv.
IsExitRsp(e) == Kind(e) \notin Subscribed

\* Mutant: the session is not reset after the response.
HandleResponse_NoReset ==
    /\ phase = "responses"
    /\ responses # <<>>
    /\ LET e == Head(responses)
           a == args[e]
       IN  IF heap[a] = Free \/ IsExitRsp(e)
             THEN ub' = TRUE /\ UNCHANGED out
             ELSE /\ out' = [out EXCEPT ![heap[a].bev] = Append(@, e)]
                  /\ UNCHANGED ub
    /\ responses' = Tail(responses)
    /\ UNCHANGED <<netVars, phase, args, poolVars, req, got>>

\* Mutant: response_events.pop() is missing.
HandleResponse_NoPop ==
    /\ phase = "responses"
    /\ responses # <<>>
    /\ LET e == Head(responses)
           a == args[e]
       IN  IF heap[a] = Free \/ IsExitRsp(e)
             THEN ub' = TRUE /\ UNCHANGED <<heap, out>>
             ELSE /\ out' = [out EXCEPT ![heap[a].bev] = Append(@, e)]
                  /\ heap' = [heap EXCEPT ![a] = FreshSession(heap[a].bev)]
                  /\ UNCHANGED ub
    /\ UNCHANGED <<conn, cell, net, inbuf, phase, args, responses, poolVars,
                   req, got>>

\* Serialise the response into cs, write it to cs->bev and reset the session.
HandleResponse ==
    /\ phase = "responses"
    /\ responses # <<>>
    /\ LET e == Head(responses)
           a == args[e]
       IN  IF heap[a] = Free \/ IsExitRsp(e)
             THEN ub' = TRUE /\ UNCHANGED <<heap, out>>
             ELSE /\ out' = [out EXCEPT ![heap[a].bev] = Append(@, e)]
                  /\ heap' = [heap EXCEPT ![a] = FreshSession(heap[a].bev)]
                  /\ UNCHANGED ub
    /\ responses' = Tail(responses)
    /\ UNCHANGED <<conn, cell, net, inbuf, phase, args, poolVars, req, got>>

\* response_events is empty: back to main's loop and to event_base_loop.
ResponsesHandled ==
    /\ phase = "responses"
    /\ responses = <<>>
    /\ phase' = "events"
    /\ UNCHANGED <<netVars, args, responses, ub, poolVars, req, out, got>>

-----------------------------------------------------------------------------

Next ==
    \/ ~ub /\ \E c \in Conns :
                 \/ \E a \in Cells : Accept(c, a)
                 \/ \E m \in Messages : ClientSend(c, m)
                 \/ HandleRequest(c)
                 \/ HandleError(c)
    \/ ~ub /\ (EventsHandled \/ HandleResponse \/ ResponsesHandled)
    \/ ~ub /\ (StartSvc \/ \E e \in Events : Svc(e))
    \/ ub /\ UNCHANGED vars

Spec == Init /\ [][Next]_vars

\* main loops forever, the pool runs what it accepted (ThreadPool's
\* AcceptedRuns), and libevent closes a connection on which nothing is
\* received for 10 s, in whichever pass of the loop the timer has expired.
Fairness ==
    /\ WF_vars(~ub /\ EventsHandled)
    /\ WF_vars(~ub /\ (HandleResponse \/ ResponsesHandled))
    /\ WF_vars(~ub /\ StartSvc)
    /\ \A e \in Events : WF_vars(~ub /\ Svc(e))
    /\ \A c \in Conns : SF_vars(~ub /\ HandleError(c))

FairSpec == Spec /\ Fairness

-----------------------------------------------------------------------------
(***************************************************************************)
(* Properties.                                                             *)
(***************************************************************************)

\* "The event keeps cs so that the response can use it": as long as an event
\* is on its way, the session it points to is alive, is the session of the
\* connection that sent the request, and waits for this very response.
EventKeepsSession ==
    \A e \in InFlight :
        /\ heap[args[e]] # Free
        /\ heap[args[e]].bev = e[1]
        /\ heap[args[e]].stat = "response"

\* A session waits for a response only while one request of it is on its way,
\* or after the pool refused that request.
NoStrayWait ==
    \A c \in Conns : conn[c] = "open" /\ Sess(c).stat = "response" =>
        \/ Cardinality({e \in InFlight : e[1] = c}) = 1
        \/ <<c, Len(req[c])>> \in refused

\* The responses a client gets answer its own requests, each once, in the
\* order in which it sent them.
ResponsesMatch ==
    \A c \in Conns : \A i \in DOMAIN out[c] : out[c][i] = <<c, i>>

\* Undefined behaviour needs a payload that protobuf rejects: a freed session
\* is never written, and the ExitRspEv path, which would write a response
\* without a buffer, is never taken.
UndefinedOnlyByParse ==
    ub => /\ phase = "events"
          /\ \E c \in Conns : /\ conn[c] = "open"
                              /\ Sess(c).stat = "request"
                              /\ inbuf[c] \o net[c] # <<>>
                              /\ Head(inbuf[c] \o net[c]).msg = "garbled"

\* A request that the pool accepted is answered.
AcceptedAnswered ==
    \A e \in Events :
        e \in InFlight ~> ub \/ \E i \in DOMAIN out[e[1]] : out[e[1]][i] = e

\* A message that was received completely is answered, or its connection is
\* closed: no client is left waiting, be it because the pool refused its
\* request or because the message stayed in the input buffer behind another.
NoSilentStall ==
    \A c \in Conns : \A k \in 1..MaxSend :
        got[c] >= k ~> (Len(out[c]) >= k \/ conn[c] = "closed" \/ ub)
=============================================================================
