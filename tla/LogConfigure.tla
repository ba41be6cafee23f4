---------------------------- MODULE LogConfigure ----------------------------
(***************************************************************************)
(* The configurators of log4cpp on top of the categories and appenders of  *)
(* LogHierarchy.                                                           *)
(*                                                                         *)
(* A property file is what Properties::load makes of it, in the order of   *)
(* the map: the appenders it defines, each with the first thing that is    *)
(* wrong with its definition, and the category lines, the root first.  The *)
(* configurator holds no lock, so other calls come between its steps.      *)
(***************************************************************************)
EXTENDS LogHierarchy

CONSTANTS
    Files,       \* the property files: [appenders |-> ..., categories |-> ...]
    ParamSets,   \* the sets of parameters given to a factory
    ClassNames   \* the class names an application registers and asks for

AppenderLines == [name : Seq(STRING), bad : {"no", "type", "layout", "threshold"}]
CategoryLines ==
    [cat : Seq(STRING), priority : Nat \cup {NULL}, additive : BOOLEAN, apps : Seq(Seq(STRING))]

\* The name of the appender that BasicConfigurator makes.
BasicName == <<"_">>

ASSUME FilesAssumption ==
    /\ Files \subseteq [appenders : Seq(AppenderLines), categories : Seq(CategoryLines)]
    /\ BasicName # NULL

VARIABLES
    cfg,         \* the run of doConfigure in progress, or NULL
    done,        \* the last complete run and the calls made by then, or NULL
    failed,      \* whether a run ended with a ConfigureFailure
    creators     \* factory -> the creators_ of its instance, if it has one

cfgVars  == <<cfg, done, failed>>
confVars == <<cat, app, reg, all, log, stream, fault, forced, calls, cfgVars, creators>>

ConfInit == Init /\ cfg = NULL /\ done = NULL /\ failed = FALSE /\ creators = << >>
-----------------------------------------------------------------------------
(* PropertyConfigurator.                                                   *)

DoConfigure(f) ==
    /\ Call
    /\ cfg = NULL
    /\ cfg' = [file |-> f, apps |-> f.appenders, cats |-> f.categories,
               start |-> calls + 1]
    /\ UNCHANGED <<cat, heapVars, logVars, fault, done, failed>>

\* A ConfigureFailure ends the run; what was done so far stays.
Throw == cfg' = NULL /\ failed' = TRUE /\ UNCHANGED done

\* _allAppenders[name] = instantiateAppender(name): whether the left side is
\* evaluated, and a null entry inserted, before the right side throws depends
\* on the language standard the library is compiled for.
MaybeNullEntry(n) ==
    \/ all' = all
    \/ /\ n \notin DOMAIN all
       /\ all' = [m \in DOMAIN all \cup {n} |-> IF m = n THEN NULL ELSE all[m]]

NextAppender == Head(cfg.apps)

\* No definition, an unknown type or an invalid target: nothing is created.
InstantiateUnknown ==
    /\ cfg # NULL /\ cfg.apps # << >>
    /\ NextAppender.bad = "type"
    /\ MaybeNullEntry(NextAppender.name)
    /\ Throw
    /\ UNCHANGED <<cat, app, reg, forced, logVars, fault, calls>>

\* setLayout throws; the appender stays in the registry, owned by nobody.
InstantiateWithoutLayout(a) ==
    /\ cfg # NULL /\ cfg.apps # << >>
    /\ NextAppender.bad = "layout"
    /\ Construct(a, NextAppender.name)
    /\ MaybeNullEntry(NextAppender.name)
    /\ Throw
    /\ UNCHANGED <<cat, forced, logVars, fault, calls>>

\* An invalid threshold: the appender is deleted again, and with it the
\* registry entry of its name.
InstantiateWithoutThreshold(a) ==
    /\ cfg # NULL /\ cfg.apps # << >>
    /\ NextAppender.bad = "threshold"
    /\ ~Live(a)
    /\ reg' = Restrict(reg, DOMAIN reg \ {NextAppender.name})
    /\ MaybeNullEntry(NextAppender.name)
    /\ Throw
    /\ UNCHANGED <<cat, app, forced, logVars, fault, calls>>

InstantiateAppender(a) ==
    /\ cfg # NULL /\ cfg.apps # << >>
    /\ NextAppender.bad = "no"
    /\ Construct(a, NextAppender.name)
    /\ LET n == NextAppender.name
       IN  all' = [m \in DOMAIN all \cup {n} |-> IF m = n THEN a ELSE all[m]]
    /\ cfg' = [cfg EXCEPT !.apps = Tail(@)]
    /\ UNCHANGED <<cat, forced, logVars, fault, calls, done, failed>>

\* The appenders a category line attaches: all of its list, or those before
\* the first name that is unknown.
Known(names) ==
    {i \in 1..Len(names) : \A j \in 1..i : names[j] \in DOMAIN all}

Listed(k) == {all[k.apps[i]] : i \in Known(k.apps)}

\* Mutant: a category that exists keeps its priority.
Configured_KeepPriority(k) ==
    [priority |-> WithInstance(k.cat)[k.cat].priority, additive |-> k.additive,
     appender |-> Listed(k) \ {NULL}, owns |-> {}]

\* configureCategory: priority, additivity, all appenders removed, the listed
\* ones added by reference.
Configured(k) ==
    [priority |-> k.priority, additive |-> k.additive,
     appender |-> Listed(k) \ {NULL}, owns |-> {}]

NextCategory == Head(cfg.cats)

\* The first category is the root, whether or not the file has a line for it.
RootMissing ==
    /\ cfg.cats = cfg.file.categories
    /\ cfg.cats = << >> \/ NextCategory.cat # << >>

ConfigureRootMissing ==
    /\ cfg # NULL /\ cfg.apps = << >>
    /\ RootMissing
    /\ Throw
    /\ UNCHANGED <<cat, heapVars, logVars, fault, calls>>

\* An unknown priority, or NOTSET for the root: the category exists by now.
ConfigurePriorityFails ==
    /\ cfg # NULL /\ cfg.apps = << >> /\ cfg.cats # << >>
    /\ ~RootMissing
    /\ NextCategory.priority # NULL =>
           ~PriorityAccepted(NextCategory.cat, NextCategory.priority)
    /\ cat' = WithInstance(NextCategory.cat)
    /\ Throw
    /\ UNCHANGED <<heapVars, logVars, fault, calls>>

\* A null entry of _allAppenders is dereferenced.
ConfigureCategory ==
    /\ cfg # NULL /\ cfg.apps = << >> /\ cfg.cats # << >>
    /\ ~RootMissing
    /\ NextCategory.priority # NULL
    /\ PriorityAccepted(NextCategory.cat, NextCategory.priority)
    /\ LET k   == NextCategory
           old == WithInstance(k.cat)
       IN  /\ cat' = [old EXCEPT ![k.cat] = Configured(k)]
           /\ app' = Freed(old[k.cat].owns)
           /\ reg' = Unregister(old[k.cat].owns)
           /\ fault' = IF NULL \in Listed(k) THEN "null"
                       ELSE IF \A a \in old[k.cat].owns : Live(a) THEN fault
                       ELSE "memory"
           /\ IF Known(k.apps) # 1..Len(k.apps) THEN Throw
              ELSE /\ cfg' = [cfg EXCEPT !.cats = Tail(@)]
                   /\ UNCHANGED <<done, failed>>
    /\ UNCHANGED <<all, forced, logVars, calls>>

ConfigureDone ==
    /\ cfg # NULL /\ cfg.apps = << >> /\ cfg.cats = << >>
    /\ ~RootMissing
    /\ cfg' = NULL
    /\ done' = IF cfg.start = calls THEN [file |-> cfg.file, at |-> calls] ELSE NULL
    /\ UNCHANGED <<cat, heapVars, logVars, fault, calls, failed>>
-----------------------------------------------------------------------------
(* The other configurators.                                                *)

BasicConfigure(a) ==
    /\ Call
    /\ ~Live(a)
    /\ LET old   == WithInstance(<< >>)
           freed == old[<< >>].owns
       IN  /\ cat' = [old EXCEPT ![<< >>] =
                        [@ EXCEPT !.priority = INFO, !.appender = {a}, !.owns = {a}]]
           /\ app' = [Freed(freed) EXCEPT ![a] = BasicName]
           /\ reg' = [m \in (DOMAIN Unregister(freed)) \cup {BasicName} |->
                        IF m = BasicName THEN a ELSE reg[m]]
           /\ fault' = IF \A x \in freed : Live(x) THEN fault ELSE "memory"
    /\ UNCHANGED <<all, forced, logVars, cfgVars>>

\* A command of a file for SimpleConfigurator names a category, which exists
\* from then on whether or not the rest of the command is valid.  The appender
\* gets the name of its category; the layout is looked at when the appender
\* exists.
SimpleCategory(n) == GetInstance(n) /\ UNCHANGED cfgVars

SimplePriority(n, p) ==
    /\ Call
    /\ PriorityAccepted(n, p)
    /\ cat' = [WithInstance(n) EXCEPT ![n].priority = p]
    /\ UNCHANGED <<heapVars, logVars, fault, cfgVars>>

SimpleAppender(n, a, layoutOk) ==
    /\ Call
    /\ Construct(a, n)
    /\ cat' = IF layoutOk THEN [WithInstance(n) EXCEPT ![n] = Plus(@, a, TRUE)]
              ELSE WithInstance(n)
    /\ UNCHANGED <<all, forced, logVars, fault, cfgVars>>
-----------------------------------------------------------------------------
(* The factories.  The caller owns what it gets.                           *)

FileParams == {"name", "filename"}
RollFileParams == {"name", "filename", "max_file_size", "max_backup_index"}
DailyRollFileParams == {"name", "filename", "max_days_keep"}
RemoteSyslogParams == {"name", "syslog_name", "relayer"}
SyslogParams == {"name", "syslog_name"}
AbortParams == {"name"}
SmtpParams == {"name", "host", "from", "to", "subject"}
IdsaParams == {"name", "idsa_name"}
NTEventLogParams == {"name", "source_name"}
Win32DebugParams == {"name"}
LevelParams == {"level"}

\* What getInstance registers in a new factory, with everything the build may
\* include: class name -> the parameters that its creator requires.
AppenderCreators ==
    ("file" :> FileParams) @@ ("roll file" :> RollFileParams)
    @@ ("daily roll file" :> DailyRollFileParams) @@ ("remote syslog" :> RemoteSyslogParams)
    @@ ("abort" :> AbortParams) @@ ("syslog" :> SyslogParams) @@ ("smtp" :> SmtpParams)
    @@ ("idsa" :> IdsaParams) @@ ("nt event log" :> NTEventLogParams)
    @@ ("win32 debug" :> Win32DebugParams)

LayoutCreators == [n \in {"simple", "basic", "pattern", "pass through"} |-> {}]

EvaluatorCreators == ("level" :> LevelParams)

BuiltIn(k) ==
    CASE k = "appenders" -> AppenderCreators
      [] k = "layouts" -> LayoutCreators
      [] k = "evaluators" -> EvaluatorCreators

Registered(k) == IF k \in DOMAIN creators THEN creators[k] ELSE BuiltIn(k)

\* The factory k has the creators f.
WithFactory(k, f) ==
    [j \in DOMAIN creators \cup {k} |-> IF j = k THEN f ELSE creators[j]]

\* A name that is there keeps its creator, and the call throws; an own creator
\* requires no parameter.
WithCreator(f, n) == [m \in DOMAIN f \cup {n} |-> IF m \in DOMAIN f THEN f[m] ELSE {}]

RegisterCreator(k, n) ==
    /\ Call
    /\ creators' = WithFactory(k, WithCreator(Registered(k), n))
    /\ UNCHANGED <<cat, heapVars, logVars, fault>>

\* required(p, ...)(q, ...): the first parameter that is missing throws.
Validated(required, params) == required \subseteq params

\* create throws for a name without a creator.
FactoryCreate(a, n, class, params) ==
    /\ Call
    /\ class \in DOMAIN Registered("appenders")
    /\ Validated(Registered("appenders")[class], params)
    /\ Construct(a, n)
    /\ creators' = WithFactory("appenders", Registered("appenders"))
    /\ UNCHANGED <<cat, all, forced, logVars, fault>>

Factories ==
    \/ \E k \in {"appenders", "layouts", "evaluators"} : \E n \in ClassNames :
           RegisterCreator(k, n)
    \/ \E a \in Apps : \E n \in AppNames : \E c \in ClassNames : \E p \in ParamSets :
           FactoryCreate(a, n, c, p)
-----------------------------------------------------------------------------
Application ==
    \/ \E n \in Cats : GetInstance(n)
    \/ \E n \in DOMAIN cat : \E p \in Levels : SetPriority(n, p) \/ Log(n, p) \/ GetStream(n, p)
    \/ \E n \in DOMAIN cat : \E q, p \in Levels : FixedContextLog(n, q, p)
    \/ \E n \in DOMAIN cat : \E b \in BOOLEAN : SetAdditivity(n, b)
    \/ \E n \in DOMAIN cat : \E a \in Apps :
           AddAppenderPtr(n, a) \/ AddAppenderRef(n, a) \/ RemoveAppender(n, a)
    \/ \E n \in DOMAIN cat : \E m \in Called : LogBy(n, m) \/ StreamBy(n, m)
    \/ \E n \in DOMAIN cat : RemoveAllAppenders(n) \/ \E a \in Apps \cup {NULL} : SetAppender(n, a)
    \/ \E a \in Apps : \E n \in AppNames : NewAppender(a, n)
    \/ \E a \in Apps : DeleteAppender(a)
    \/ StreamIn \/ StreamWidth \/ \E end \in BOOLEAN : StreamFlush(end)
    \/ Shutdown \/ ShutdownForced

Configurators ==
    \/ \E f \in Files : DoConfigure(f)
    \/ InstantiateUnknown
    \/ \E a \in Apps :
           \/ InstantiateWithoutLayout(a)
           \/ InstantiateWithoutThreshold(a)
           \/ InstantiateAppender(a)
           \/ BasicConfigure(a)
    \/ ConfigureRootMissing
    \/ ConfigurePriorityFails
    \/ ConfigureCategory
    \/ ConfigureDone
    \/ \E n \in Cats : SimpleCategory(n)
    \/ \E n \in Cats : \E p \in Levels : SimplePriority(n, p)
    \/ \E n \in Cats : \E a \in Apps : \E ok \in BOOLEAN : SimpleAppender(n, a, ok)

\* Nothing is said of what happens after undefined behaviour.
ConfNext ==
    /\ fault = "none"
    /\ \/ Application /\ UNCHANGED <<cfgVars, creators>>
       \/ Factories /\ UNCHANGED cfgVars
       \/ CallAppenders /\ UNCHANGED <<cfgVars, creators>>
       \/ cfg = NULL /\ Exit /\ UNCHANGED <<cfgVars, creators>>
       \/ Configurators /\ UNCHANGED creators

ConfSpec == ConfInit /\ [][ConfNext]_confVars
-----------------------------------------------------------------------------

\* As long as nobody called shutdownForced on appenders that others still
\* hold, every pointer to an appender in a category, in the registry and in
\* the property configurator leads to a live object, no appender is owned
\* twice, and no category, appender or parent is used after its end; a null
\* pointer is followed only after a failed configuration.  A stream's category
\* exists as long as the stream, and no registration replaces a built-in
\* creator.
NoDangling ==
    /\ \A c \in DOMAIN cat : cat[c] \in CategoryType
    /\ stream # NULL => stream \in StreamType
    /\ \A k \in DOMAIN creators : \A n \in DOMAIN BuiltIn(k) : creators[k][n] = BuiltIn(k)[n]
    /\ ~forced =>
        /\ \A c \in DOMAIN cat : \A a \in cat[c].appender : Live(a)
        /\ \A c \in DOMAIN cat : cat[c].owns \subseteq cat[c].appender
        /\ \A c, d \in DOMAIN cat : c # d => cat[c].owns \cap cat[d].owns = {}
        /\ \A n \in DOMAIN reg : app[reg[n]] = n
        /\ \A n \in DOMAIN all : all[n] = NULL \/ Live(all[n])
        /\ fault # "memory"
        /\ fault = "null" => failed

\* What a category line asks for holds.
InForce(k) ==
    /\ cat[k.cat].priority = k.priority /\ cat[k.cat].additive = k.additive
    /\ cat[k.cat].appender = {all[n] : n \in Range(k.apps)}

\* A configuration that ran to its end without another call in between is in
\* force: a category of the file has the priority and the additivity of its
\* line (of its last line, if the file names it twice), the appenders that line
\* lists and no others.
ConfigApplied ==
    done # NULL /\ done.at = calls =>
        LET lines == done.file.categories
        IN  \A i \in 1..Len(lines) :
                (\A j \in (i + 1)..Len(lines) : lines[j].cat # lines[i].cat) => InForce(lines[i])
=============================================================================
