------------------------------ MODULE LogSinks ------------------------------
(***************************************************************************)
(* What an appender of log4cpp does with an event: the threshold and the   *)
(* filter chain of AppenderSkeleton, then the _append of the class:        *)
(* StringQueueAppender, OstreamAppender, BufferingAppender, SyslogAppender,*)
(* RemoteSyslogAppender, IdsaAppender, AbortAppender and the two Windows   *)
(* ones.  An event carries the nested diagnostic context (NDC) of the      *)
(* thread that logs it, which the thread library the build chose keeps.    *)
(*                                                                         *)
(* Events are numbered in the order they are logged; a formatted event is  *)
(* its number and its length.  A filter of the application (_decide) is    *)
(* the pair of the priorities it denies and of those it accepts; it is     *)
(* neutral about the others.  The category's mutex makes one append one    *)
(* action.                                                                 *)
(***************************************************************************)
EXTENDS Integers, Sequences, SequencesExt, FiniteSets, Functions

CONSTANTS
    Sinks,       \* the appender classes to look at
    Backends,    \* the thread libraries to look at
    Priorities,  \* the priorities events are logged with
    Filters,     \* the filters of the application: [deny, accept]
    Lengths,     \* the lengths of formatted events
    PacketSize,  \* the 900 bytes of a syslog packet
    Preamble,    \* the length of "<priority>"
    MaxQueue,    \* max_size of the BufferingAppender
    Trigger,     \* the name of its LevelEvaluator's level
    Thresholds,  \* the names of the thresholds that are set
    Threads,
    Labels,      \* what is pushed on a diagnostic context
    MaxEvents,   \* bound on the events logged
    MaxSets      \* bound on the calls that configure the appender or the NDC

VARIABLES
    sink,        \* the class of this appender
    skel,        \* [threshold, filter, layout]: _threshold, the chain from
                 \* _filter, and _layout
    buffer,      \* [queue, lossy] of the BufferingAppender, newest first
    conn,        \* [ip, socket]: _ipAddr, and _socket or the IDSA connection
    out,         \* what came out, in order
    backend,     \* the thread library of the build
    ndc,         \* the threads with an NDC -> its _stack
    leaked,      \* NDC objects that no thread can reach any more
    isUsedNDC,
    clone,       \* a stack that cloneStack returned
    events,      \* ghost: every event logged, with what held when it was
    sets         \* calls that configured something

ndcVars  == <<backend, ndc, leaked, isUsedNDC, clone>>
sinkVars == <<sink, skel, buffer, conn, out, ndcVars, events, sets>>

\* A preamble leaves room in its packet, and the constructor of the
\* BufferingAppender makes max_size at least 1.
ASSUME SinksAssumption ==
    /\ Priorities \subseteq Int
    /\ Lengths \subseteq Nat
    /\ PacketSize \in Nat /\ Preamble \in Nat /\ Preamble < PacketSize
    /\ MaxQueue \in Nat \ {0}

NotSet == 800   \* Priority::NOTSET
Closed == 0
Failed == -1
Set == sets < MaxSets /\ sets' = sets + 1
-----------------------------------------------------------------------------
(* Priorities.                                                             *)

\* Division as in C, toward zero.
Slot(p) == IF p + 1 < 0 THEN -((-(p + 1)) \div 100) ELSE (p + 1) \div 100

ToSyslogPriority(p) ==
    LET s == Slot(p) IN IF s < 0 THEN 0 ELSE IF s > 7 THEN 7 ELSE s

Names == <<"FATAL", "ALERT", "CRIT", "ERROR", "WARN", "NOTICE", "INFO", "DEBUG",
           "NOTSET", "UNKNOWN">>

GetPriorityName(p) ==
    LET s == Slot(p) IN Names[1 + (IF s < 0 \/ s > 8 THEN 8 ELSE s)]

GetPriorityValue(name) ==
    IF name = "EMERG" THEN 0
    ELSE 100 * ((CHOOSE i \in 1..10 : Names[i] = name) - 1)
-----------------------------------------------------------------------------
(* AppenderSkeleton and Filter.                                            *)

\* The filters of a chain that are not neutral, and what one of them says.
Speaking(chain, p) == {i \in 1..Len(chain) : p \in chain[i].deny \cup chain[i].accept}
Says(f, p) == IF p \in f.deny THEN "DENY" ELSE "ACCEPT"

\* Mutant: the last filter that is not neutral decides.
Decide_Last(chain, p) ==
    IF Speaking(chain, p) = {} THEN "NEUTRAL" ELSE Says(chain[Max(Speaking(chain, p))], p)

\* decide: the chain is walked while the filters are neutral.
Decide(chain, p) ==
    IF Speaking(chain, p) = {} THEN "NEUTRAL" ELSE Says(chain[Min(Speaking(chain, p))], p)

\* doAppend lets the event through.
Passes(p) ==
    /\ skel.threshold = NotSet \/ p <= skel.threshold
    /\ skel.filter = << >> \/ Decide(skel.filter, p) # "DENY"

\* What a layout shows of an event.
BasicLayout(e) ==
    [event |-> e.id, name |-> GetPriorityName(e.priority), ndc |-> e.ndc]
SimpleLayout(e) == [event |-> e.id, name |-> GetPriorityName(e.priority)]
PassThroughLayout(e) == [event |-> e.id]

Formatted(e) ==
    CASE skel.layout = "simple" -> SimpleLayout(e)
      [] skel.layout = "pass" -> PassThroughLayout(e)
      [] OTHER -> BasicLayout(e)

\* LayoutAppender::setLayout, with NULL for the default; classes without a
\* layout ignore it.
SetLayout(l) ==
    /\ Set
    /\ sink \in {"queue", "ostream", "debug"}
    /\ skel' = [skel EXCEPT !.layout = IF l = "null" THEN "basic" ELSE l]
    /\ UNCHANGED <<sink, buffer, conn, out, ndcVars, events>>

SetThreshold(p) ==
    /\ Set
    /\ skel' = [skel EXCEPT !.threshold = p]
    /\ UNCHANGED <<sink, buffer, conn, out, ndcVars, events>>

\* setFilter deletes the old chain.
SetFilter(f) ==
    /\ Set
    /\ skel' = [skel EXCEPT !.filter = <<f>>]
    /\ UNCHANGED <<sink, buffer, conn, out, ndcVars, events>>

AppendChainedFilter(f) ==
    /\ Set
    /\ skel.filter # << >>
    /\ skel' = [skel EXCEPT !.filter = Append(@, f)]
    /\ UNCHANGED <<sink, buffer, conn, out, ndcVars, events>>

\* setChainedFilter on the first filter deletes the rest of the chain.
SetChainedFilter(f) ==
    /\ Set
    /\ skel.filter # << >>
    /\ skel' = [skel EXCEPT !.filter = <<Head(@), f>>]
    /\ UNCHANGED <<sink, buffer, conn, out, ndcVars, events>>
-----------------------------------------------------------------------------
(* The nested diagnostic context, in the thread-local data of the library  *)
(* that the build uses: whether a thread has data of its own, and whether  *)
(* its end deletes them.                                                   *)

PThreadsData     == [own |-> TRUE, freed |-> TRUE]
OmniThreadsData  == [own |-> TRUE, freed |-> TRUE]
BoostThreadsData == [own |-> TRUE, freed |-> TRUE]
MSThreadsData    == [own |-> TRUE, freed |-> FALSE]
DummyThreadsData == [own |-> FALSE, freed |-> FALSE]

LocalData ==
    CASE backend = "pthreads" -> PThreadsData
      [] backend = "omni" -> OmniThreadsData
      [] backend = "boost" -> BoostThreadsData
      [] backend = "ms" -> MSThreadsData
      [] OTHER -> DummyThreadsData

\* A build without threads has one.
Running == IF LocalData.own THEN Threads ELSE {CHOOSE t \in Threads : TRUE}

\* getNDC: the thread's NDC, a new one with an empty stack if it has none.
Stack(t) == IF t \in DOMAIN ndc THEN ndc[t] ELSE << >>
WithStack(t, s) == [u \in DOMAIN ndc \cup {t} |-> IF u = t THEN s ELSE ndc[u]]

\* A DiagnosticContext appends its message to the full one of its parent.
Context(stack, l) ==
    [message |-> l,
     full |-> IF stack = << >> THEN <<l>> ELSE Append(Last(stack).full, l)]

\* Until the first push anywhere, get does not look for an NDC.
Get(t) == IF ~isUsedNDC \/ Stack(t) = << >> THEN << >> ELSE Last(Stack(t)).full

Pushed(stack, l) == Append(stack, Context(stack, l))
Popped(stack) == Front(stack)

NdcPush(t, l) ==
    /\ Set
    /\ isUsedNDC' = TRUE
    /\ ndc' = WithStack(t, Pushed(Stack(t), l))
    /\ UNCHANGED <<sink, skel, buffer, conn, out, backend, leaked, clone, events>>

\* pop on an empty stack is undefined; the application does not call it then.
NdcPop(t) ==
    /\ Set
    /\ Stack(t) # << >>
    /\ ndc' = WithStack(t, Popped(Stack(t)))
    /\ UNCHANGED <<sink, skel, buffer, conn, out, backend, leaked, isUsedNDC, clone, events>>

NdcClear(t) ==
    /\ Set
    /\ ndc' = WithStack(t, << >>)
    /\ UNCHANGED <<sink, skel, buffer, conn, out, backend, leaked, isUsedNDC, clone, events>>

NdcCloneStack(t) ==
    /\ Set
    /\ clone' = Stack(t)
    /\ ndc' = WithStack(t, Stack(t))
    /\ UNCHANGED <<sink, skel, buffer, conn, out, backend, leaked, isUsedNDC, events>>

NdcInherit(t) ==
    /\ Set
    /\ ndc' = WithStack(t, clone)
    /\ UNCHANGED <<sink, skel, buffer, conn, out, backend, leaked, isUsedNDC, clone, events>>

\* A thread ends and another one, without data, takes its place.
ThreadExit(t) ==
    /\ Set
    /\ LocalData.own
    /\ t \in DOMAIN ndc
    /\ ndc' = Restrict(ndc, DOMAIN ndc \ {t})
    /\ leaked' = IF LocalData.freed THEN leaked ELSE leaked + 1
    /\ UNCHANGED <<sink, skel, buffer, conn, out, backend, isUsedNDC, clone, events>>
-----------------------------------------------------------------------------
(* The connection of the two syslog appenders, of IDSA and of the Windows  *)
(* event log.                                                              *)

\* open of the RemoteSyslogAppender, called by the constructor and by reopen: a
\* name that was resolved once is not resolved again, and a name that cannot
\* be resolved leaves the socket closed.
RemoteOpened(known, resolves, opens) ==
    LET ip == known \/ resolves
    IN  [ip |-> ip, socket |-> IF ~ip THEN Closed ELSE IF opens THEN 1 ELSE Failed]

\* The constructor's open, before any name is known.
RemoteConstructed == {RemoteOpened(FALSE, r, o) : r, o \in BOOLEAN}

\* openlog and idsa_open.
SyslogOpened == [ip |-> TRUE, socket |-> 1]

\* addRegistryInfo creates the key of the source unless it is there; its ip is
\* that the registry has the key.
AddRegistryInfo(c) == [c EXCEPT !.ip = TRUE]
NTEventOpened(c) == [AddRegistryInfo(c) EXCEPT !.socket = 1]

SinksInit ==
    /\ sink \in Sinks
    /\ skel = [threshold |-> NotSet, filter |-> << >>, layout |-> "basic"]
    /\ buffer = [queue |-> << >>, lossy |-> FALSE]
    /\ conn \in CASE sink = "remote" -> RemoteConstructed
                  [] sink = "ntevent" -> {NTEventOpened([ip |-> known, socket |-> Closed]) : known \in BOOLEAN}
                  [] OTHER -> {SyslogOpened}
    /\ out = << >> /\ events = << >> /\ sets = 0
    /\ backend \in Backends
    /\ sink # "idsa" => backend = "pthreads"
    /\ ndc = << >> /\ leaked = 0
    /\ clone = << >> /\ isUsedNDC = FALSE

Connected == {"remote", "syslog", "idsa", "ntevent"}

\* The NTEventLogAppender keeps the handle it has deregistered, which reports
\* nothing any more; a reopen deregisters it again.
CloseSink ==
    /\ Set
    /\ sink \in Connected
    /\ conn' = [conn EXCEPT !.socket = Closed]
    /\ UNCHANGED <<sink, skel, buffer, out, ndcVars, events>>

\* close, then open.
Reopen(resolves, opens) ==
    /\ Set
    /\ sink \in Connected
    /\ conn' = CASE sink = "remote" -> RemoteOpened(conn.ip, resolves, opens)
                 [] sink = "ntevent" -> NTEventOpened(conn)
                 [] OTHER -> SyslogOpened
    /\ UNCHANGED <<sink, skel, buffer, out, ndcVars, events>>
-----------------------------------------------------------------------------
(* _append.                                                                *)

\* What a RemoteSyslogAppender hands to sendto: [first, last] of the event's
\* bytes, each packet behind a preamble; nothing for an empty message.
Room == PacketSize - Preamble

Packets(e) ==
    LET n == (e.length + Room - 1) \div Room
        end(i) == IF i * Room < e.length THEN i * Room ELSE e.length
    IN  [i \in 1..n |-> [event |-> e.id, priority |-> ToSyslogPriority(e.priority),
                         first |-> (i - 1) * Room + 1, last |-> end(i)]]

\* sendto on a socket that is not open fails.
SendTo(ps) == IF conn.socket > 0 THEN out \o ps ELSE out

\* LevelEvaluator::eval.
LevelReached(e) == e.priority <= GetPriorityValue(Trigger)

\* The BufferingAppender dumps from the back, which is the oldest event, into
\* one event of priority NOTSET; its sink is one without a threshold.
Dump(q) == [dumped |-> [i \in 1..Len(q) |-> q[Len(q) - i + 1].id]]

\* A full queue loses its oldest event or is dumped, and is not cleared then;
\* the event that triggers the evaluator is dumped with all others, and the
\* queue is empty after that.
BufferedAppend(e) ==
    LET full  == Len(buffer.queue) = MaxQueue
        held  == IF full /\ buffer.lossy THEN Front(buffer.queue) ELSE buffer.queue
        early == IF full /\ ~buffer.lossy THEN <<Dump(held)>> ELSE << >>
        q     == <<e>> \o held
    IN  /\ out' = out \o early \o (IF LevelReached(e) THEN <<Dump(q)>> ELSE << >>)
        /\ buffer' = [buffer EXCEPT !.queue = IF LevelReached(e) THEN << >> ELSE q]

SetLossy(b) ==
    /\ Set
    /\ sink = "buffer"
    /\ buffer' = [buffer EXCEPT !.lossy = b]
    /\ UNCHANGED <<sink, skel, conn, out, ndcVars, events>>

\* The other classes: what they add to the output.
OstreamAppend(e) == <<Formatted(e)>>
DebugAppend(e) == <<Formatted(e)>>
SyslogAppend(e) == <<[event |-> e.id, priority |-> ToSyslogPriority(e.priority)]>>
IdsaAppend(e) == <<[event |-> e.id, priority |-> e.priority, ndc |-> e.ndc]>>

GetCategory(p) == (p \div 100) + 1

GetType(p) ==
    IF p \in {0, 100, 200, 300} THEN "error" ELSE IF p = 400 THEN "warning" ELSE "information"

NTEventAppend(e) ==
    <<[event |-> e.id, type |-> GetType(e.priority), category |-> GetCategory(e.priority)]>>

AppendTo(e) ==
    IF sink = "buffer" THEN BufferedAppend(e)
    ELSE /\ out' = CASE sink = "remote" -> SendTo(Packets(e))
                     [] sink = "syslog" -> out \o SyslogAppend(e)
                     [] sink = "idsa" -> SendTo(IdsaAppend(e))
                     [] sink = "ntevent" -> SendTo(NTEventAppend(e))
                     [] sink = "debug" -> out \o DebugAppend(e)
                     [] OTHER -> out \o OstreamAppend(e)
         /\ UNCHANGED buffer

\* AbortAppender ends the program: no event follows.
Aborted == sink = "abort" /\ out # << >>

\* The event a category makes of a call; category, thread and time are left out.
LoggingEvent(id, p, n, ndcText) == [id |-> id, priority |-> p, length |-> n, ndc |-> ndcText]

\* A thread logs: the LoggingEvent takes the thread's context.
DoAppend(t, p, n) ==
    /\ Len(events) < MaxEvents
    /\ ~Aborted
    /\ LET e == LoggingEvent(Len(events) + 1, p, n, Get(t))
       IN  /\ events' = Append(events, [event |-> e, threshold |-> skel.threshold,
                                         filter |-> skel.filter, open |-> conn.socket > 0,
                                         lossy |-> buffer.lossy,
                                         own |-> [i \in 1..Len(Stack(t)) |-> Stack(t)[i].message]])
           /\ IF Passes(p) THEN AppendTo(e) ELSE UNCHANGED <<out, buffer>>
    /\ ndc' = IF isUsedNDC THEN WithStack(t, Stack(t)) ELSE ndc
    /\ UNCHANGED <<sink, skel, conn, backend, leaked, isUsedNDC, clone, sets>>

\* popMessage of the StringQueueAppender; nothing is taken from an empty queue.
PopMessage ==
    /\ Set
    /\ sink = "queue"
    /\ out # << >>
    /\ out' = Tail(out)
    /\ events' = [events EXCEPT ![Head(out).event].open = FALSE]
    /\ UNCHANGED <<sink, skel, buffer, conn, ndcVars>>

\* Lengths and contexts vary only where the output depends on them.
LengthsSeen == IF sink = "remote" THEN Lengths ELSE {1}
ContextSeen == IF sink \in {"idsa", "queue"} THEN Running ELSE {}

SinksNext ==
    \/ \E t \in Running : \E p \in Priorities : \E n \in LengthsSeen : DoAppend(t, p, n)
    \/ PopMessage
    \/ \E name \in Thresholds : SetThreshold(GetPriorityValue(name))
    \/ \E f \in Filters : SetFilter(f) \/ AppendChainedFilter(f) \/ SetChainedFilter(f)
    \/ \E t \in ContextSeen : \E l \in Labels : NdcPush(t, l)
    \/ \E t \in ContextSeen : NdcPop(t) \/ NdcClear(t) \/ NdcCloneStack(t) \/ NdcInherit(t)
                                 \/ ThreadExit(t)
    \/ \E l \in {"basic", "simple", "pass", "null"} : SetLayout(l)
    \/ CloseSink
    \/ \E r, o \in BOOLEAN : Reopen(r, o)
    \/ \E b \in BOOLEAN : SetLossy(b)

SinksSpec == SinksInit /\ [][SinksNext]_sinkVars
-----------------------------------------------------------------------------
(* What should come out, from the record of the events alone.              *)

\* A filter denies p and every filter before it is neutral about p.
Denied(chain, p) ==
    \E i \in 1..Len(chain) :
        /\ p \in chain[i].deny
        /\ \A j \in 1..(i - 1) : p \notin chain[j].deny \cup chain[j].accept

Let(i) ==
    LET e == events[i]
    IN  /\ e.threshold = NotSet \/ e.event.priority <= e.threshold
        /\ ~Denied(e.filter, e.event.priority)

Wanted == {i \in 1..Len(events) : Let(i)}
Sent == {i \in Wanted : events[i].open}

\* The i-th name stands for priority p, if p has a name.
Named(i, p) == p \in {100 * s : s \in 0..7} => GetPriorityValue(Names[i]) = p

\* The events that passed the threshold and the filters of their moment, and
\* no others, came out once, in the order they were logged, as long as the
\* connection was open; each is the event as it was logged, with the context
\* its own thread had pushed and not popped by then, and under the name,
\* category or severity that stands for its priority.
InOrder ==
    sink \in {"queue", "ostream", "debug", "syslog", "idsa", "ntevent"} =>
        /\ {out[k].event : k \in 1..Len(out)}
             = IF sink \in {"queue", "idsa", "ntevent"} THEN Sent ELSE Wanted
        /\ \A k, l \in 1..Len(out) : k < l => out[k].event < out[l].event
        /\ \A k \in 1..Len(out) :
               LET e == events[out[k].event]
               IN  /\ sink = "syslog" => Named(out[k].priority + 1, e.event.priority)
                   /\ sink = "ntevent" => Named(out[k].category, e.event.priority)
                   /\ "name" \in DOMAIN out[k] =>
                          \E i \in 1..10 : Names[i] = out[k].name /\ Named(i, e.event.priority)
                   /\ "ndc" \in DOMAIN out[k] => out[k].ndc = e.own

\* Put together again, the packets of an event are the whole message, each
\* byte once and in order, and no packet is larger than the maximum.
PacketsJoin ==
    sink = "remote" =>
        /\ \A i \in Sent : \A b \in 1..events[i].event.length :
               \E k \in 1..Len(out) : out[k].event = i /\ b \in out[k].first..out[k].last
        /\ \A k \in 1..Len(out) :
               /\ out[k].event \in Sent
               /\ 1 <= out[k].first /\ out[k].last <= events[out[k].event].event.length
               /\ Preamble + out[k].last - out[k].first + 1 <= PacketSize
        /\ \A k, l \in 1..Len(out) : k < l =>
               \/ out[k].event < out[l].event
               \/ out[k].event = out[l].event /\ out[k].last < out[l].first

Dumped == UNION {Range(out[k].dumped) : k \in 1..Len(out)}
Triggers == {i \in Wanted : LevelReached(events[i].event)}

\* Every dump is in order.  A triggering event is the last one of its dump and
\* leaves nothing behind in the queue; unless the buffer was allowed to lose
\* events, all that came before the trigger were dumped by then.
BufferDumps ==
    sink = "buffer" =>
        /\ \A k \in 1..Len(out) : \A x, y \in 1..Len(out[k].dumped) :
               x < y => out[k].dumped[x] < out[k].dumped[y]
        /\ \A i \in Triggers :
               /\ \E k \in 1..Len(out) : Last(out[k].dumped) = i
               /\ (\A j \in 1..i : ~events[j].lossy) => Wanted \cap (1..i) \subseteq Dumped
               /\ \A q \in 1..Len(buffer.queue) : buffer.queue[q].id > i
        /\ Dumped \subseteq Wanted

\* A full queue that may not lose events is dumped but not cleared, so its
\* events come out again: once more at most, with the next triggering event.
\* Until then the queue has passed max_size, which happens in no other way.
DumpsRepeat ==
    sink = "buffer" =>
        /\ \A k, l \in 1..Len(out) :
               k < l /\ Range(out[k].dumped) \cap Range(out[l].dumped) # {} =>
                   Last(out[k].dumped) \notin Triggers /\ Last(out[l].dumped) \in Triggers
        /\ Len(buffer.queue) > MaxQueue <=>
               \E q \in 1..Len(buffer.queue) : buffer.queue[q].id \in Dumped

\* Appenders let through what threshold and filters allow, in order and whole,
\* with the diagnostic context of the thread that logged, and once but for what
\* a full buffer has dumped before its trigger.
\* Only the Windows threads of the build leave NDC objects behind.
SinksFaithful ==
    /\ InOrder /\ PacketsJoin /\ BufferDumps /\ DumpsRepeat
    /\ leaked > 0 => backend = "ms"
=============================================================================
