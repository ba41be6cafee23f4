---------------------------- MODULE LogHierarchy ----------------------------
(***************************************************************************)
(* The categories and appenders of log4cpp (git/log4cpp/src), the library  *)
(* the server logs with.                                                   *)
(*                                                                         *)
(* A category name is the sequence of its dot-separated parts; the root is *)
(* << >>.  Appenders are heap objects: app[a] is the name of the appender  *)
(* allocated at address a, NULL if there is none.  Every method that works *)
(* on a category's appenders holds that category's mutex, so one method is *)
(* one action; a thread that logs gives the mutex up between a category    *)
(* and its parent, so logging is one action per category and the calls of  *)
(* other threads come in between.                                          *)
(*                                                                         *)
(* What an application must not do is in MayGive, MayShare and MayDelete:  *)
(* it passes the ownership of an appender once, and deletes or gives away  *)
(* no appender that is attached.                                           *)
(***************************************************************************)
EXTENDS Naturals, Sequences, SequencesExt, FiniteSets, Functions, TLC

CONSTANTS
    Cats,        \* the category names that are asked for
    Apps,        \* the addresses of appenders
    AppNames,    \* the names of appenders
    Levels,      \* the priorities that are set and logged with
    Called,      \* the methods with a priority in their name that are called
    MaxCalls,    \* bound on the number of calls of the application
    NULL

ASSUME HierarchyAssumption ==
    /\ NULL \notin Apps /\ NULL \notin Nat /\ NULL \notin Seq(STRING)
    /\ Cats \subseteq Seq(STRING) /\ AppNames \subseteq Seq(STRING)
    /\ Levels \subseteq Nat /\ MaxCalls \in Nat

VARIABLES
    cat,         \* HierarchyMaintainer::_categoryMap, name -> category
    app,         \* the heap of appenders
    reg,         \* Appender::_allAppenders, appender name -> address
    all,         \* PropertyConfiguratorImpl::_allAppenders, name -> address
    log,         \* the call of callAppenders in progress, or NULL
    stream,      \* a CategoryStream, or NULL
    fault,       \* "none" or the undefined behaviour that was run into
    forced,      \* whether shutdownForced deleted appenders that were not owned
    calls        \* calls made so far

heapVars == <<app, reg, all, forced>>
logVars  == <<log, stream>>

INFO   == 600
NOTSET == 800

\* A category: _priority, _isAdditive, _appender and _ownsAppender.
CategoryType ==
    [priority : Nat, additive : BOOLEAN, appender : SUBSET Apps, owns : SUBSET Apps]

\* A CategoryStream: _category, _priority and whether there is a _buffer.
StreamType == [cat : DOMAIN cat, priority : Nat, buffer : BOOLEAN]

Live(a) == app[a] # NULL
Attached(a) == \E c \in DOMAIN cat : a \in cat[c].appender
Given(a) == a \in Range(all) \/ \E c \in DOMAIN cat : a \in cat[c].owns

Call == calls < MaxCalls /\ calls' = calls + 1

Init ==
    /\ cat = << >> /\ reg = << >> /\ all = << >>
    /\ app = [a \in Apps |-> NULL]
    /\ log = NULL /\ stream = NULL
    /\ fault = "none" /\ forced = FALSE /\ calls = 0
-----------------------------------------------------------------------------
(* HierarchyMaintainer and the category tree.                              *)

Parent(n) == Front(n)

NewCategory(n) ==
    [priority |-> IF n = << >> THEN INFO ELSE NOTSET, additive |-> TRUE,
     appender |-> {}, owns |-> {}]

\* _getInstance calls itself for the parent until it meets a category.
Created(n) ==
    {m \in Prefixes(n) :
        \A k \in Prefixes(n) \cap DOMAIN cat : m \notin Prefixes(k)}

WithInstance(n) ==
    [m \in DOMAIN cat \cup Created(n) |->
        IF m \in DOMAIN cat THEN cat[m] ELSE NewCategory(m)]

GetInstance(n) ==
    /\ Call
    /\ cat' = WithInstance(n)
    /\ UNCHANGED <<heapVars, logVars, fault>>

\* Whether setPriority accepts p for category n.
PriorityAccepted(n, p) == p < NOTSET \/ n # << >>

SetPriority(n, p) ==
    /\ Call
    /\ PriorityAccepted(n, p)
    /\ cat' = [cat EXCEPT ![n].priority = p]
    /\ UNCHANGED <<heapVars, logVars, fault>>

SetAdditivity(n, b) ==
    /\ Call
    /\ cat' = [cat EXCEPT ![n].additive = b]
    /\ UNCHANGED <<heapVars, logVars, fault>>

\* The priority of the nearest ancestor that has one; NULL when the loop
\* runs past the root.
ChainedPriority(n) ==
    LET set == {m \in Prefixes(n) : cat[m].priority < NOTSET}
    IN  IF set = {} THEN NULL
        ELSE cat[CHOOSE m \in set : \A k \in set : Len(k) <= Len(m)].priority
-----------------------------------------------------------------------------
(* Appenders: the registry by name and the heap.                           *)

\* Appender::Appender registers the new object under its name, in the place
\* of an older appender of that name.
Register(a, n) ==
    [m \in DOMAIN reg \cup {n} |-> IF m = n THEN a ELSE reg[m]]

Construct(a, n) ==
    /\ ~Live(a)
    /\ app' = [app EXCEPT ![a] = n]
    /\ reg' = Register(a, n)

\* Appender::~Appender erases the entry of its name, whoever is there.
Unregister(S) == Restrict(reg, DOMAIN reg \ {app[a] : a \in S})

Freed(S) == [a \in Apps |-> IF a \in S THEN NULL ELSE app[a]]

Delete(S) ==
    /\ app' = Freed(S)
    /\ reg' = Unregister(S)
    /\ fault' = IF \A a \in S : Live(a) THEN fault ELSE "memory"

NewAppender(a, n) ==
    /\ Call
    /\ Construct(a, n)
    /\ UNCHANGED <<cat, all, forced, logVars, fault>>

MayDelete(a) == Live(a) /\ ~Given(a) /\ ~Attached(a)

DeleteAppender(a) ==
    /\ Call
    /\ MayDelete(a)
    /\ Delete({a})
    /\ UNCHANGED <<cat, all, forced, logVars>>
-----------------------------------------------------------------------------
(* The appenders of a category.                                            *)

MayGive(a) == MayDelete(a)
MayShare(a) == Live(a) /\ \A c \in DOMAIN cat : a \notin cat[c].owns

\* addAppender(Appender*) takes the ownership, addAppender(Appender&) not; an
\* appender that is there already stays as it is.
Plus(c, a, owned) ==
    IF a \in c.appender THEN c
    ELSE [c EXCEPT !.appender = @ \cup {a},
                   !.owns = IF owned THEN @ \cup {a} ELSE @ \ {a}]

AddAppenderPtr(n, a) ==
    /\ Call
    /\ MayGive(a)
    /\ cat' = [cat EXCEPT ![n] = Plus(@, a, TRUE)]
    /\ UNCHANGED <<heapVars, logVars, fault>>

AddAppenderRef(n, a) ==
    /\ Call
    /\ MayShare(a)
    /\ cat' = [cat EXCEPT ![n] = Plus(@, a, FALSE)]
    /\ UNCHANGED <<heapVars, logVars, fault>>

RemoveAppender(n, a) ==
    /\ Call
    /\ a \in cat[n].appender
    /\ cat' = [cat EXCEPT ![n].appender = @ \ {a}, ![n].owns = @ \ {a}]
    /\ Delete({a} \cap cat[n].owns)
    /\ UNCHANGED <<all, forced, logVars>>

Emptied(c) == [c EXCEPT !.appender = {}, !.owns = {}]

Owned(C) == UNION {cat[n].owns : n \in C}

\* Mutant: the owned appenders are deleted and their pointers stay.
RemoveAllAppenders_KeepSet(n) ==
    /\ Call
    /\ Delete(cat[n].owns)
    /\ cat' = [cat EXCEPT ![n].owns = {}]
    /\ UNCHANGED <<all, forced, logVars>>

RemoveAllAppenders(n) ==
    /\ Call
    /\ Delete(cat[n].owns)
    /\ cat' = [cat EXCEPT ![n] = Emptied(@)]
    /\ UNCHANGED <<all, forced, logVars>>

\* setAppender(Appender*), with NULL for removeAllAppenders.
SetAppender(n, a) ==
    IF a = NULL THEN RemoveAllAppenders(n) ELSE AddAppenderPtr(n, a)

Shutdown ==
    /\ Call
    /\ Delete(Owned(DOMAIN cat))
    /\ cat' = [n \in DOMAIN cat |-> Emptied(cat[n])]
    /\ UNCHANGED <<all, forced, logVars>>

\* shutdown, then _deleteAllAppenders deletes whatever is registered.
ShutdownForced ==
    /\ Call
    /\ LET owned == Owned(DOMAIN cat)
           rest  == Range(Unregister(owned))
       IN  /\ app' = Freed(owned \cup rest)
           /\ fault' = IF \A a \in owned \cup rest : Live(a) THEN fault ELSE "memory"
           /\ forced' = (forced \/ rest # {})
    /\ reg' = << >>
    /\ cat' = [n \in DOMAIN cat |-> Emptied(cat[n])]
    /\ UNCHANGED <<all, logVars>>

\* Static destruction: ~HierarchyMaintainer shuts down and deletes the
\* categories, ~AppenderMapStorage deletes the appenders; no call follows.
Exit ==
    /\ log = NULL /\ stream = NULL
    /\ calls < MaxCalls /\ calls' = MaxCalls
    /\ LET rest == Owned(DOMAIN cat) \cup Range(Unregister(Owned(DOMAIN cat)))
       IN  /\ app' = Freed(rest)
           /\ fault' = IF \A a \in rest : Live(a) THEN fault ELSE "memory"
    /\ reg' = << >> /\ cat' = << >> /\ all' = << >>
    /\ UNCHANGED <<forced, logVars>>
-----------------------------------------------------------------------------
(* Logging.                                                                *)

\* The call of callAppenders that log(p) on category n leads to when its
\* chained priority is q; a NULL q is a null pointer that is followed.
Enabled(q, p) == q # NULL /\ q >= p

LogWith(n, q, p) ==
    /\ log' = IF Enabled(q, p) THEN [at |-> n] ELSE log
    /\ fault' = IF q = NULL THEN "null" ELSE fault

Log(n, p) ==
    /\ Call
    /\ log = NULL
    /\ LogWith(n, ChainedPriority(n), p)
    /\ UNCHANGED <<cat, heapVars, stream>>

\* A FixedContextCategory with priority own logs through the category of its
\* name; it inherits only if own is exactly NOTSET.
FixedContextLog(n, own, p) ==
    /\ Call
    /\ log = NULL
    /\ own = NOTSET \/ PriorityAccepted(n, own)
    /\ LogWith(n, IF own = NOTSET THEN ChainedPriority(n) ELSE own, p)
    /\ UNCHANGED <<cat, heapVars, stream>>

\* The methods with a priority in their name: debug(...), isDebugEnabled() and
\* debugStream() up to fatal(...), isFatalEnabled() and fatalStream().
MinorMethods ==
    [debug |-> 700, info |-> INFO, notice |-> 500, warn |-> 400, error |-> 300]
MajorMethods == [crit |-> 200, alert |-> 100, emerg |-> 0, fatal |-> 0]
Methods ==
    [m \in DOMAIN MinorMethods \cup DOMAIN MajorMethods |->
        IF m \in DOMAIN MinorMethods THEN MinorMethods[m] ELSE MajorMethods[m]]

ASSUME MethodsAssumption == Called \subseteq DOMAIN Methods

LogBy(n, method) == Log(n, Methods[method])

CallAppenders ==
    /\ log # NULL
    /\ fault' = IF \A a \in cat[log.at].appender : Live(a) THEN fault ELSE "memory"
    /\ log' = IF cat[log.at].additive /\ log.at # << >>
              THEN [at |-> Parent(log.at)] ELSE NULL
    /\ UNCHANGED <<cat, heapVars, stream, calls>>

GetStream(n, p) ==
    /\ Call
    /\ stream = NULL
    /\ LET q == ChainedPriority(n)
       IN  /\ stream' = [cat |-> n, buffer |-> FALSE,
                         priority |-> IF Enabled(q, p) THEN p ELSE NOTSET]
           /\ fault' = IF q = NULL THEN "null" ELSE fault
    /\ UNCHANGED <<cat, heapVars, log>>

StreamBy(n, method) == GetStream(n, Methods[method])

\* operator<<, and width on a stream that discards nothing.
StreamIn ==
    /\ Call
    /\ stream # NULL /\ stream.priority # NOTSET
    /\ stream' = [stream EXCEPT !.buffer = TRUE]
    /\ UNCHANGED <<cat, heapVars, log, fault>>

\* width on a stream that discards: its _buffer is a null pointer.
StreamWidth ==
    /\ Call
    /\ stream # NULL /\ stream.priority = NOTSET
    /\ fault' = "width"
    /\ UNCHANGED <<cat, heapVars, logVars>>

\* eol flushes, the destructor flushes and ends the stream; flush logs the
\* buffer if the priority is still enabled.
StreamFlush(end) ==
    /\ Call
    /\ stream # NULL /\ log = NULL
    /\ stream' = IF end THEN NULL ELSE [stream EXCEPT !.buffer = FALSE]
    /\ IF stream.buffer
       THEN LogWith(stream.cat, ChainedPriority(stream.cat), stream.priority)
       ELSE UNCHANGED <<log, fault>>
    /\ UNCHANGED <<cat, heapVars>>
=============================================================================
