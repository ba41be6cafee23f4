# SharedBike: specifications, model checking and proofs

This directory holds the TLA+ development kept beside the SharedBike server: modules translated from
`src/src/` and from log4cpp, the logging library kept in `src/git/log4cpp/`, the TLC configurations
that check them on small instances, and TLAPS proofs that hold for any number of threads, tasks and
calls. `PROJECT.json` maps every definition that models code to its source lines and lists the runs,
mutants, findings, hazards and theorems.

Check a run with `tlc -config MCThreadPool.cfg MCThreadPool`, a proof with
`tlapm ThreadPoolProofs.tla`.

## 1. The system and its parts

SharedBike is the back end of a bike-rental app. One process: a network thread that runs a
non-blocking libevent loop, a pool of worker threads that run event handlers, and MySQL behind the
handlers.

```
 client --TCP--> NetworkInterface --parseEvent/enqueue--> thread pool --svc--> handlers --> MySQL
 client <--TCP-- NetworkInterface <--handleAllResponseEvent-- response_events <--push-- svc
```

| Part | State | Operations | Talks to | What is hard | What makes it correct |
|---|---|---|---|---|---|
| Thread pool (`threadpool/`) | `thread_pool_t` (mutex, condition, task list, `waiting`), task objects, a stack task and a `lock` word during destroy | `thread_pool_init`, `thread_task_post`, `thread_pool_cycle`, `thread_pool_destroy`, `thread_pool_exit_handler` | called by DispatchMsgService; calls `svc` | signal before append, a counter that goes negative, unsynchronised spin on `lock`, a stack object shared with threads, `free(tp)` under detached threads | every accepted task runs exactly once, no wakeup is lost, the limit holds, destroy drains the pool and leaves nobody behind |
| Task list | `first`, `last` (pointer to pointer), `next` of each task | append, remove, recycling of task objects | inside the pool | `last` pointing into a task that has left | the pointers spell the FIFO sequence |
| NetworkInterface | one `ConnectSession` per connection, libevent buffers | `listener_cb`, `handle_request`, `handle_error`, `network_event_dispatch`, `send_response_msg`, `session_*` | DispatchMsgService, libevent | partial reads, a session freed while its request is in flight, timeouts against late answers, refused posts | messages are framed whatever the cuts; a response reaches the connection that asked; nobody waits for ever |
| DispatchMsgService | subscribers, pool, `response_events` under `queue_mutex` | `open`, `close`, `subscribe`, `unsubscribe`, `parseEvent`, `enqueue`, `svc`, `process`, `handleAllResponseEvent`, `assembleResponse` | both sides of the pool | completion order, stale session pointers, a missing return in `parseEvent` | one response per accepted request |
| UserEventHandler | `m2c_` (mobile to code) under `pm_` | `handle_mobile_code_req`, `handle_login_req` | UserService | concurrent logins, failing statements | a login needs the code of its own mobile; success means the user is recorded |
| UserService, MySqlConnection | a MySQL handle per login | `exist`, `insert`, `Init`, `Execute`, ... | MySQL | check-then-insert without a transaction; answers lost after execution | one row per user |
| Event objects | `static u32 sn`, `sn_`, `args_` | constructors, `generateSegNo` | everyone | unsynchronised counter | numbers differ |
| Start-up (`main.cc`, QueryProcessor, SqlTables, Iniconfig) | configuration singleton, database schema, subscriptions, pool | the sequence in `main`, `open`, `close`, `subscribe`, `unsubscribe`, `NetworkInterface::start` | all of the above | a part that fails half way and is ignored | nothing serves before everything it needs is there |
| Test client (`client/client.cc`) | one connection, the last code (`icode`) | `cmd_msg_cb`, `server_msg_cb`, `event_cb` | the server | responses that TCP cuts or glues, several clients with one mobile | the code it uses is the one the server compares with; it ends with its connection |
| log4cpp: categories, appender registry | tree of categories with priority, additivity and appenders; registry by name; `shutdown` | `getInstance`, `setPriority`, `add`/`removeAppender`, `callAppenders`, streams, shutdown and exit | configurators, appenders | an appender removed or deleted while another thread logs, ownership, exit order | no pointer to a dead appender is followed |
| log4cpp: configurators, factories | `_allAppenders`, creators | `doConfigure` of three configurators, `create` | registry, layouts | a failure half way, a second configuration | a configuration that ran to its end is in force |
| log4cpp: file appenders | descriptor, names and inodes, day of the log | `_append`, `rollOver`, `reopen`, `close`, setters | the file system, the clock | steps of a roll-over against `reopen` and crashes; days by the calendar, deadlines by the second | files hold the messages in order |
| log4cpp: layouts, properties, `vform`, own `vsnprintf` | the parser's position, literals and widths; line buffer; `str_l`, `str_m` | `setConversionPattern`, `Properties::load`, `split`, `portable_vsnprintf` | configurators, categories | widths that carry over, lines longer than the buffer, lengths that wrap | the text is what pattern, file and format say, within the buffer |
| log4cpp: other appenders, filters, NDC | threshold, filter chain, buffers, sockets, a context per thread | `doAppend`, `setFilter`, `push`, `pop`, `inherit`, `reopen` | categories | a chain replaced, a message longer than a packet, one flag for all threads | what passes threshold and filters comes out whole, once and in order |
| log4cpp: mail sender | list of mails, `should_exit_`, a thread | `send`, `operator()`, `sender_shutdown` | a mail server | an iterator kept without the mutex, wakeups, a second shutdown | mails leave once and in order |
| Logger, protobuf messages, other vendored files, demos, tests | -- | -- | -- | -- | not part of the core logic |

The hazards of this code (what a test would hardly reach), each at its line, are listed in
`PROJECT.json` under `hazards` with the properties that cover them.

## 2. Modules and how they correspond to the code

| Module | Models | Lines |
|---|---|---|
| `ThreadPool` | the pool, at the granularity of its mutex and condition variable | `thread_pool.cc`, `thread_mutex.cc`, `thread_cond.cc` |
| `TaskService` | abstract: what the pool promises its client | the interface in `thread_pool.h` |
| `TaskQueue` | the intrusive list that `ThreadPool` abstracts to a sequence | `thread_pool.cc` |
| `Server` | NetworkInterface and DispatchMsgService composed over `TaskService` | `NetworkInterface.cc`, `DispatchMsgService.cc` |
| `RequestReader` | the byte-level reading of `handle_request` that `Server` abstracts to two pieces per message | `NetworkInterface.cc` |
| `UserEventHandler` | the handlers, UserService and the database | `user_event_handler.cc`, `database/user_service.cc` |
| `EventNumber` | `iEvent::generateSegNo` | `ievent.cc` |
| `Startup` | `main`, subscriptions, `open`/`close`, configuration, tables, listener | `main.cc`, `DispatchMsgService.cc`, `QueryProcessor.cc`, `iniconfig.cc`, `logger.cc` |
| `MySqlConnection` | the MySQL handle of each login and what its failures leave behind | `database/sqlconnection.cc`, `user_event_handler.cc` |
| `ServerLife` | `Startup` composed with `MySqlConnection`: a worker that is busy may run one login | the same |
| `Client` | test clients against the code requests and logins of the server | `client/client.cc` |
| `LogHierarchy` | categories, streams and the registry of appenders | `Category.cpp`, `Appender.cpp`, `HierarchyMaintainer.cpp`, `CategoryStream.cpp`, `FixedContextCategory.cpp` |
| `LogConfigure` | configurators and factories, on top of `LogHierarchy` | `PropertyConfiguratorImpl.cpp`, `SimpleConfigurator.cpp`, `BasicConfigurator.cpp`, the factories |
| `LogFiles` | the three file appenders over a file system of names, inodes and descriptors | `FileAppender.cpp`, `RollingFileAppender.cpp`, `DailyRollingFileAppender.cpp` |
| `LogText` | pattern parser and formatting, `split`, `Properties::load` | `PatternLayout.cpp`, `Properties.cpp`, `StringUtil` |
| `Snprintf` | the portable `vsnprintf`, the `asprintf` family, `vform`, `getThreadId` | `snprintf.c`, `StringUtil.cpp`, `PThreads.cpp` |
| `LogSinks` | threshold, filters, the other appenders, priorities, NDC over five thread libraries | `AppenderSkeleton.cpp`, `Filter.cpp`, the appenders, `NDC.cpp`, `threading/` |
| `MailSender` | the thread of the SMTP appender | `SmtpAppender.cpp` |
| `MC*`, `SnprintfFormats` | symmetry sets and constant definitions for TLC; `MCLog` puts the parts of log4cpp side by side | -- |
| `*Proofs` | theorems about the module they extend | -- |

Definitions named `<Definition>_<Variant>` under a comment that starts with "Mutant" are wrong
versions of `<Definition>` (a dropped guard, an off-by-one, a missing reset). No specification uses
them; `PROJECT.json` pairs each with the property that breaks when it takes the definition's place,
which shows that the property depends on that line of the code.

**ThreadPool.** `mem`, `mtx`, `queue`, `waiting` are the `thread_pool_t`; `main`, `cur`, `n`,
`lock` the program counter and locals of the one thread that creates the pool, posts and destroys
it; `pc`, `held` those of the workers in `thread_pool_cycle`; `task`, `ran` the life of task objects
and `ub` whether an undefined access happened. An action is what a thread does between two
operations other threads can see: taking the mutex, one critical section, a wait, the handler.
`PostAccept` is the critical section of `thread_task_post` with `Signal` before the append, as in
the code. `WorkerWait` releases and sleeps atomically, `SpuriousWakeup` is allowed as POSIX does.
`InitCallocFails`, `InitSetUpFails` and `CreateThreadFails` are the failures of `thread_pool_init`,
including the one that frees the pool under running threads (`UseFreedPool`). `waiting` is an unbounded integer:
by `WaitingCount` it stays between minus the number of threads and `max_queue`, far from overflow.

**TaskService.** `pending`, `running`, `done`, `refused`: accepted tasks start in order, each
once, at most `Threads` at a time; a post is refused only when at least `MaxQueue` tasks wait.
`ThreadPool!ImplementsService` is the refinement, with the exit task hidden.

**Server.** A session is a cell of a heap, and a freed cell may be handed out for the next
connection, as `new` may do. `phase` says whether the network thread is inside `event_base_loop`
(callbacks, one at a time) or inside `handleAllResponseEvent`; workers run at any time. A message is
two pieces, head and body, delivered together or apart; `handle_request` runs only when new input
arrives, which is how libevent calls it (external). `Prompt` is a constant that excludes the one
environment the code does not handle: a connection that ends (or 10 s that pass) while its request
is being processed. Output that was written and not flushed is lost when `bufferevent_free` runs;
`out` records what was written.

**RequestReader.** One connection; a byte is (message, offset). `HandleRequest(k)` is one callback
after `k` new bytes: the header read, the check of magic and length, then the body read in the same
call. The length field is an `i32` stored in a `u32` (`U32`), so that negative values become large.

**UserEventHandler.** One `Calls` element is one run of a handler on a pool thread. `pm` is the
mutex `pm_`; each database statement is one atomic step; a failing statement may or may not have
been executed (`InsertFails`), and a failing select is reported as "no such user" (`ExistFails`), as
`UserService::exist` does. The database is external.

**EventNumber.** The unsynchronised `sn++` as a read and a write.

**Startup.** `pc` walks through the steps of `main`; each may fail as the code lets it: some end
the process with their exit code, others (`open`, `start`, the tables) are ignored. `Enqueue`,
`Svc` and `SvcDone` are a request that comes in on whatever was brought up. `main`'s loop never
ends, so `close` and the destructors are dead code; `LoopEnds` lets it end, so that something can
be said of them. `MayRefuse` and `MayAccept` are the limit of the pool seen from outside: a worker
that is through with its task counts as idle only once it is back at the queue. `CloseEnd` is
therefore two cases. `thread_pool_destroy` has drained the pool, or its first exit task was refused
and it came back at once; `close` goes on in both, and `caught` are the requests that were with a
worker when it cleared `subscribers_`. A later exit task cannot be refused, because the one before
it ran behind everything that was queued.

**MySqlConnection.** Each login has a connection object; `mysql` is its pointer, `block` the heap.
The library (external) is described by what each call does to a handle: connect fails, the server
goes away and comes back (`up`), `malloc` fails. `ServerLife` runs these logins inside the busy
requests of `Startup`.

**Client.** Responses are two units, header and payload, on a stream; a read takes any number of
them and the client takes what it got for one message. The server's side is the code request (draw,
then store under `pm_`) and the comparison of a login; `jobs` are the requests in the pool. A
connection may end (`CloseConn`) while the pool has its request. The session is freed then, `cell`
says where it was, and a later connection may get the same memory: `Respond` goes to whoever has the
cell. `late`, `stray` and `wild` are ghosts for connections that ended too early, clients that got
somebody else's response, and a session used after it was freed and not reused; behind the last one
the server does nothing any more. A client whose buffer overflows, or whose input ends, ends in
`pc = "ub"`.

**LogHierarchy, LogConfigure.** `cat`, `app`, `reg`, `all` are the category map, the heap of
appenders, the registry and `_allAppenders`. A method that holds the category's mutex is one
action; `CallAppenders` is one action per category because the mutex is given up between a category
and its parent. `MayGive`, `MayShare` and `MayDelete` are the obligations of the application.
Whether a failed `instantiateAppender` leaves a null entry behind depends on the order in which the
compiler evaluates an assignment, so both outcomes are allowed. A file without a line for the root
category fails before a category is touched, but after the appenders were made
(`ConfigureRootMissing`).

**LogFiles.** `disk`, `data` and `fds` are names, inodes and descriptors. One process appends (the
category's mutex); each system call of `rollOver` is a step, between which `reopen`, `close`, the
setters (none of which takes a mutex) and `Restart` may come. `Restart` is a crash or an exit
followed by the constructor, with any of the arguments `Confs`: the program may have been
reconfigured in between. Name 0 is `_fileName` and `n` the backup with index `n`, or the one of day
`n`. `time` is `time(NULL)`, in units that divide a day: the roll-over of a daily file compares local
days (`LocalDay`, any monotone function, so that a day may have 23 or 25 hours), while old backups
are deleted by the time since the last write (`Oldest`, days of `DayLength`). A message that was
logged early on a day is therefore deleted by a roll-over that comes later on a day, although the
calendar would keep it, and `Due` promises only what the seconds promise. Between the look at the
clock and the write (`WriteEvent`) midnight may pass. `RollOver` is a call of the public `rollOver`
between two messages: it sets no day, and a second one for the same day overwrites that day's backup.
`scandir` may fail, and then nothing is deleted. `gap` is a ghost: from the moment a call from
elsewhere truncated, overwrote, left behind or orphaned a file, or a roll-over deleted the file in
use, nothing is promised any more. `LeavesBehind` is the case of the backup index: a smaller one leaves
the files above it, one with more digits all of them, for the names are padded to its width. A daily
backup holds the messages of its date. When midnight passes before the write, the file takes the
later date if the program starts again, so that the backup then holds a message of an earlier day,
but never one of a later day. `FilesInOrder` says exactly that.

Left out are a roll-over in two threads at once, `stat` or `unlink` failing for a single file,
`rename` failing for any reason but a missing source, and a number of days to keep (49711 and more)
whose seconds overflow the `unsigned int` they are computed in.

**LogText.** A pattern arrives one character at a time, so that every pattern up to the bound is a
state; `Tokenizations` and the other reference definitions say declaratively what a pattern is, and
the parser's components must agree. Property lines arrive in pieces of the size of `load`'s buffer.

**Snprintf.** A conversion is a record of flags, width, precision and argument text. `str_l` is
kept modulo `SizeMod`, which is why the padding of an argument longer than its field wraps as it
does in C. The passes of the `asprintf` family are `measure` and `print`.

**LogSinks.** One appender of any class, with `out` for what it produced; `events` is the record
from which the properties compute what should have come out. A buffer that is full and may not lose
events is dumped without being cleared, as in the code; `DumpsRepeat` says which events come out
again because of it, and when the queue is longer than its limit. `backend` chooses among the five
thread libraries, which differ in whether a thread has data of its own and whether they are freed
at its end.

**MailSender.** `iter` is the iterator the thread holds while `mails_mutex_` is free.

## 3. The runs

| Run | Question | Instance and why it is enough |
|---|---|---|
| `pool` | are counting, wakeups, task ownership, `free` and the shutdown handshake right, with every failure of init; does the pool implement `TaskService`; does every accepted task run and destroy return? | 3 workers, 3 tasks, limit 1: the queue overflows, several workers sleep when the exit tasks come |
| `task_queue` | do the pointers spell the sequence? | 4 heap tasks and the exit task; `next` fields survive recycling |
| `server` | do responses reach their requesters, with every kind of message, and is every message answered or its connection closed? | 2 connections, 2 cells, 2 messages each, 2 threads, limit 1 (so posts are refused, and a cell is reused after a close) |
| `server_impatient` | *violation*: what if a connection ends while its request is processed? | one message per connection |
| `request_reader` | is every cut of the stream read correctly? | headers of 3 bytes, bodies of at most 3, 3 messages, a length field of 4 bits with values below, in, at the end of and above the range |
| `login` | are the answers justified under concurrency and failures, and does every call return? | 3 calls, 2 mobiles, 2 codes: a code request against a login of the same and of another mobile, and two logins at once |
| `login_race` | *violation*: is a user recorded once? | 3 calls (a code, two logins), a database that never fails |
| `event_numbers` | *violation*: do events have different numbers? | two threads |
| `server_life` | what holds after each combination of failed start-up steps, with a database that comes and goes, and in the code after the loop, with an empty and with a full pool? | 3 requests, 2 threads and a limit of 1 (so that two requests run while a third fills the queue and `destroy` is refused), 2 heap blocks that logins reuse |
| `client` | when is the code a client saw last the one the server compares with, and does a client end? | 2 clients with one mobile, 2 codes, 3 commands, connections that end with a request in the pool and cells that the other client reuses, reads of up to 4 units (two whole responses glued) |
| `log4cpp` | each part of log4cpp on its own (`MCLog!part`): see the properties below | 2 appenders, 2 names, 3 categories, 4 calls, a configuration file without root; 4 messages (3 for a daily file), roll-over at 2, 2 backups, 5 half days with 1 day to keep (so that a backup is deleted in the middle of a day, and a roll-over that takes long deletes the file it opened), 2 calls of `reopen`, `close`, `rollOver`, setters or restarts; patterns up to 5 characters over two alphabets; 3 property lines in pieces of 3; one conversion before, after or without a literal in buffers of 0, 3 and 6; 3 events and 3 settings per appender class; 5 mails and 2 shutdowns |
| `snprintf_length` | *violation*: does the portable `vsnprintf` return the length of the text? | the same formats |

The parts of log4cpp share no state beyond the calls that are modelled in each of them (a category
reaches an appender only through `doAppend`), so one run looks at them side by side: a behaviour is
one of one part.

The properties, module by module:

* ThreadPool: `WaitingCount` (the counter the limit is tested on is exactly queued minus idle),
  `NoLostWakeup`, `OneOwner`, `NoUseAfterFree`, `StackTaskConfined` (the stack task and
  `lock` of destroy are out of reach when it posts again or returns), `DestroyDrains`,
  `AcceptedRuns`, `DestroyReturns`, `ImplementsService`.
* TaskQueue: `ListIsFifo`, `QueuedOnce`.
* Server: `EventKeepsSession`, `NoStrayWait`, `ResponsesMatch`, `UndefinedOnlyByParse`,
  `AcceptedAnswered`, `NoSilentStall`.
* RequestReader: `InBounds`, `Framing`, `NoByteLost`.
* UserEventHandler: `TypeOK` (with mutual exclusion: `pm_` is held by exactly the call between
  lock and unlock), `SuccessRegistered`, `LoginNeedsCode`, `RowsEarned`, `Answered`,
  `OneRowPerUser` (violated).
* EventNumber: `NumbersDiffer` (violated).
* Startup: `ReadyToServe` (a worker finds logger, configuration and one handler per id whatever
  failed; the handlers are taken only from the requests that `close` catches in a pool too full to
  be destroyed, and `svr_exit_` keeps those still queued away from them), `CrashOnlyWithoutPool`.
* MySqlConnection: `LeakOnlyByFailedConnect`, `UndefinedOnlyByOom`.
* Client: `CodeInSync` names the only ways in which the code seen last is not the one that counts: a
  code request of one's own under way, a later one of another client, a response that was cut or
  glued, and a response to somebody else's request, which needs a connection that ended while the
  pool had its request (finding 1); `ClientEnds`.
* LogConfigure: `NoDangling`, `ConfigApplied`.
* LogFiles: `FilesInOrder`. LogText: `TextMatches`. Snprintf: `InBuffer`, `ReturnsLength`
  (violated). LogSinks: `SinksFaithful` (the conjunction of `InOrder`, `PacketsJoin`, `BufferDumps`
  and `DumpsRepeat`, and that only the Windows threads leave NDC objects behind). MailSender: `MailsInOrder`.

### Fairness

* Pool: weak fairness of every worker's step (the OS schedules threads; handlers return), strong
  fairness of `PostLock` (a thread that asks for a contended mutex again and again gets it), weak
  fairness of the other steps of a post and of destroy. Nobody is obliged to post or to destroy.
* Server: weak fairness of the two halves of `main`'s loop, of the pool (justified by
  `AcceptedRuns`) and strong fairness of the timeout of a connection: libevent's 10 s timer fires in
  whichever pass of the loop it has expired. Clients are under no obligation. A connection on which
  a client sends for ever would keep its timer from firing; `MaxSend` bounds what a client sends.
* Handlers: weak fairness of each step (the database answers or fails), strong fairness of taking
  `pm_`.
* Client: weak fairness of its two libevent callbacks; nobody is obliged to type, and the server
  need not answer.
* The log4cpp parts and `server_life` are checked for safety only.

### Findings

1. **A session freed under its request** (`server_impatient`). `handle_error` frees the
   `ConnectSession` of a connection whose event is queued or running; the response later writes
   through the stale pointer, into freed memory or into the session of a new client that was given
   the same address. The comment at `NetworkInterface.cc:176` says the event keeps `cs` for that use.
2. **Duplicate users** (`login_race`). `exist` and `insert` are separate statements, `userinfo` has
   no unique key on `mobile`, and two logins of a new user insert two rows.
3. **Duplicate event numbers** (`event_numbers`). `generateSegNo` is not synchronised.
4. **A padding that wraps** (`snprintf_length`). In the portable `vsnprintf` an argument longer than
   its field makes the unsigned padding huge, and the test `n > 0` lets it through: blanks fill the
   buffer, the text is not written and the length returned is wrong. The file is used where the C
   library has no `snprintf`.

`UndefinedOnlyByParse` and `NoUseAfterFree` also say exactly where undefined behaviour remains:
after `ParseFromArray` fails (`parseEvent` then has no return statement), and in a pool whose
`thread_pool_init` failed half way. In the same way `CrashOnlyWithoutPool`, `UndefinedOnlyByOom`,
`NoDangling` and `MailsInOrder` name the circumstances that remain: a pool that could not be made
(`main.cc:78` ignores it), `malloc` failing in `MySqlConnection`, an appender used after
`shutdownForced` or a null entry after a failed configuration, a wakeup without notification or a
second shutdown of the mail sender.

Seen while reading, and too plain for a model:

* `iniconfig.cc:30` asks for `databse:port`, so the configured port is never used.
* `MySqlConnection::Close` and `EscapeString` have no caller; `NetworkInterface::close` neither, and
  would free `base_` before the listener that uses it.
* The constructor of `UserEventHandler` ignores the result of `thread_mutex_create`.
* `NDC.hh:132` promises "" for a `pop` without a context; `NDC.cpp:111` calls `back()` on the empty
  vector. `LogSinks` pops only where there is something.
* `CategoryStream.cpp:60` dereferences `_buffer` in `width` for a stream that discards
  (`StreamWidth` of `LogHierarchy`).
* `PropertyConfiguratorImpl.cpp:246` takes -1 times 8 for the facility, which is never the -1 that
  stands for LOG_USER.
* `setMaxBackupIndex` with a smaller number leaves older backups on disk for ever, and one with
  more digits all of them, because `_maxBackupIndexWidth` pads the names; `LogFiles` sets `gap`
  there.
* A daily roll-over that takes longer than the days to keep deletes the file it has just opened and
  writes its message to the deleted inode; `LogFiles` sets `gap` there.
* A daily backup is kept for whole days of 24 hours since its last write and not for calendar days.
* `thread_pool_destroy` does not tell its caller that it gave up, so that `close` would take mutex and
  handlers from running workers; `close` is dead code today.
* The holder of thread-local data for Windows threads frees nothing at the end of a thread
  (`leaked` in `LogSinks`).

## 4. The proofs

A theorem holds for every value of the constants that satisfies the named `ASSUME` of the module it
is about. Each `*Proofs` module defines the inductive invariant, checked with TLC on the instance of
the corresponding run before it was proved, and has one step per action.

**ThreadPoolProofs** proves, for every finite non-empty set of workers, any tasks and any limit, the
type invariant and the safety invariants of `pool` (and `RunOnce`). None of them is inductive alone. The
inductive invariant is built in layers, each proved from the ones before it:

1. `TypeOK`;
2. `Control`: who owns the mutex is told by the control points, which tasks Main and the workers
   hold by theirs, and when threads exist and the pool is live;
3. `ExitPlace`: while destroy spins with `lock = 1`, the exit task is at exactly one place, the end
   of the queue or (with an empty queue) one worker; otherwise it is nowhere;
4. `Ownership`: `OneOwner`, `RunOnce`, that a task being posted is in no queue and no hand, and that
   every allocated task is being posted, queued or held;
5. `Lifecycle`: how many threads exist and have left at each point of init and destroy, so that
   `n = NumThreads` in destroy means all of them have left and the queue is empty;
6. `WaitingCount`, by the change of `Cardinality(Idle)` and `Len(queue)` in each action;
7. `NoLostWakeup`: the signal in `PostAccept` turns one sleeper into an awake worker in the same
   critical section that lengthens the queue.

The assumption used is `PoolAssumption`: `Workers` is finite and not empty, and the special values
differ from workers and tasks. `PoolImplementsService` is the refinement: under that invariant every
action of the pool maps to `Post`, `Refuse`, `Start` or `Finish` of `TaskService`, or leaves its
variables alone. It needs `WaitingCount` (a refused post means `MaxQueue` pending tasks) and
`ExitPlace` (filtering the exit task out of the queue commutes with append and with taking the head).

**TaskQueueProofs** proves `TypeOK`, `ListIsFifo` (with `LastIsEnd`) and `QueuedOnce`, which are
inductive together: the append needs `last` at the end of the list, the removal needs the list to
hold no task twice.

**UserEventHandlerProofs** proves `TypeOK` (mutual exclusion under `pm_` is part of it),
`LoginNeedsCode` (with the fact that every stored code
was issued, and that a mobile's code is compared with that of the same mobile), `SuccessRegistered`
and `RowsEarned`, for any finite set of concurrent calls and with a database that fails at will. The
last needs the stronger count of logins that have inserted so far: a row is paid for by a call
before its answer says so.

**ServerProofs** is about the request path. Its theorems have the form `Prompt /\ Spec => []P`:
without `Prompt` they are false, as `server_impatient` shows. The invariant `SInv` ties together what
is left of each byte stream (`Streaming`: whole messages, of which the session may have read the
first header), that there is no request without a message (`Counting`, which bounds event numbers by
`MaxSend`), that open connections own sessions nobody else has (`Sessions`), that an event is at one
place of the pipeline (`OnePlace`) and is the last request of an open connection whose session waits
for it (`LastRequest`), and that a waiting session has its event on its way or refused and lacks
exactly that response (`Waiting`). `EventKeepsSession` alone is not inductive: nothing in it keeps
two connections from sharing a cell, or an old event from outliving the next request.

**RequestReaderProofs** proves `InBounds`, `Framing` and `NoByteLost` for every header length, every
limit and every cut of the stream. The invariant is `Position` (the unread bytes are the messages
from the current position on) and `Receiving` (what header and buffer hold is the beginning of the
current message). `ReaderAssumption` says what the code's types give: the length field is a signed
integer of `Width` bits and `MAX_MESSAGE_LEN` is less than half its range; with this a negative
length is larger than the limit once it is stored in the `u32`.

**ServerLifeProofs** proves `ReadyToServe`, `CrashOnlyWithoutPool` (invariant `StartInv`: what
each step of `main` relies on was done by an earlier one, requests exist only from the loop on, and
behind `close` those with a worker are the ones it caught, because `svr_exit_` is set by then),
`LeakOnlyByFailedConnect` and `UndefinedOnlyByOom` (invariant `SqlInv`: a handle has one owner and is in the
state its owner's next step expects, a live handle without owner is in `lost`, and a null pointer
before `mysql_init` comes from `malloc`).

**ClientProofs** proves `CodeInSync`. A connection without a stray response has at most one request
in the pool, the code stored last travels through the worker and over the wire behind every older
code, and a header is followed by its payload (`Fine`), so that a read that took whole responses
leaves the newest code in `icode`. Two open connections have their sessions in different places
(`Apart`), so that a response can go astray only from a connection that ended (`Blame`).

**LogProofs** proves `MailsInOrder` of the mail sender. What was tried, and then the list, are
consecutive numbers (`MailList`); the iterator taken under the mutex is the head of the list until
it is erased, because only the thread erases (`Iterator`); `should_exit_` is set before the
notification, so that the thread does not wait any more (`MailLife`); and a wakeup without mail or
order to end is a spurious one (`Wakeups`).

It also proves `NoDangling` of the categories, the appender registry and the configurators, for any
names, appenders, configuration files and calls. `NoDangling` is not inductive: it lets an appender
that one category owns be attached to another, or be known to the property configurator, and the
owner's next `removeAllAppenders` would leave a dead pointer there. The invariant `LogInv` adds

* `CatOk`: a category comes with its ancestors, and the root has a priority, so that the search for
  a priority and the walk of a logging thread end at the root;
* `HeapOk`: what kind of thing the registry and `_allAppenders` hold;
* `Ownership`: an attached appender is live, an owned one is attached nowhere else and unknown to the
  configurator, and an entry of the registry names its appender (only while `forced` is false);
* `Progress`, `NullEntries` and `BuiltInKept`: the calls in progress refer to categories that exist,
  a null entry of `_allAppenders` comes from a failed configuration, and registrations add only.

`ConfigApplied` speaks of the whole file after the last line, so its invariant `ConfInv` says what
is in force in the middle: of the lines that are no longer pending the last one of each category
(`DoneSoFar`), provided that no other call came since the configuration began.

The assumptions are `HierarchyAssumption` (the special value is no address, number or name; the
names asked for are sequences of parts), `MethodsAssumption` and `FilesAssumption` (the shape of the
methods' table and of the files). That an application passes the ownership of an appender once is in
the guards `MayGive`, `MayShare` and `MayDelete`, a precondition of the library's interface.

`InBuffer` of `vsnprintf` is proved for every format, buffer size and width of `size_t`
(`FormatsAssumption`: formats are sequences of items, `SizeMod` is positive). That the second pass
of the `asprintf` family generates what the first one measured would need induction over the
format; instead `PassOk` keeps the history of the first pass, a function from items to lengths
(`Course`), along which the second pass moves although both lengths wrap around.

`FilesInOrder` of the file appenders is proved for all constructor arguments and settings, any
number of messages and calls and every clock (`FileAppendersAssumption`: the constructors replace an
index and a number of days of 0, and the local day does not go back). Inodes, names and descriptors
are looked at through `View`, the files under their names. `FilesInv` says

* `Descriptors` and `RollSteps`: `_fd` is open or -1 except in the middle of a roll-over, and a
  daily roll-over has its message still to write, unless it was called by hand;
* `InSequence`: each file is in order, an older name (`Before`) holds older messages and was not
  written later, and only the oldest messages are gone. Not having been written later is what makes
  the deletion by date remove the oldest files and no others;
* `InUse`: `_fd` is the file under name 0. Without it a message could land in a backup, behind newer
  ones;
* `Rolled`, `Dated` and `Undated`: where the backups are at each step of a roll-over, so that no
  rename overwrites one unless somebody rolled over by hand, and that a backup has no date after
  `_logsTime`;
* `Alone`, while nobody interferes: how many messages are newer than those of backup `b`
  (`RolledDue`: at least as many as the names below it have room for, counting the file that is
  being moved), and that a daily message that is gone was logged before the days to keep began
  (`DailyKept`, which rests on `Whole`: a file was last written after each of its messages was
  logged), from which it follows that what is removed is not due any more.

The system calls are lemmas about views (`NewFile`, `WriteFile`, `RenameFile`, `DropFiles`), which
the lemma of each action cites.

`SinksFaithful` of the other appenders is proved for all priorities, filters, lengths, thread
libraries, threads, contexts and bounds (`SinksAssumption`: priorities are integers, a preamble
leaves room in its packet, and a buffer holds at least one event, which its constructor sees to). A
chain of filters is represented by its filters that are not neutral, of which the first decides, so
that no recursion over the chain is needed. `InOrder` and `PacketsJoin` are inductive given the rest of
`SinksInv`:

* `ConnOk`: only a class with a connection can lose it, so that nothing that was let through is
  missing from the output of the others;
* `NdcOk`: the full message of a context is what was pushed up to it, also after `inherit` and after
  another thread took the place of one that ended, and nothing is on a stack before `isUsedNDC` is
  set. This is why `get` may skip the look-up;
* `EventsOk`: an event has the number of its place and the context of its thread;
* `BufferOk`: the queue holds events that were let through, the newest first, and everything that
  was not dumped as long as none may be lost. Without it the dump of a trigger could be incomplete;
* `RepeatOk`: no dump is empty, and what was dumped before is still in the queue exactly while the
  queue is longer than its limit, so that only a trigger can dump it again, and clears it then.

That the packets cover a message is the arithmetic of `PacketFacts` (`Quotient`, `ProductUp`,
`ProductOrder`), for every packet size.

Only model-checked:

* liveness (`AcceptedRuns`, `DestroyReturns`, `AcceptedAnswered`, `NoSilentStall`, `Answered`,
  `ClientEnds`), which is out of the prover's reach, as are `ENABLED` and induction over data;
* `TextMatches`: it compares what recursive functions over patterns and lines compute with a
  reference definition, which needs induction over data.

## 5. Not modelled, and why

* `dump`, accessors, `getReasonByErrorCode` and protobuf serialisation: conversions without state.
* Failures of `pthread_mutex_lock` and its relatives on initialised objects, and of `new`: the code
  treats them as fatal or not at all, and on the platforms it runs on they do not happen.
* Of log4cpp: the format of dates, `TimeStamp`, `Localtime`, `Manipulator`, `DllMain`, the mutexes
  of the thread libraries other than pthreads (they promise the same), configuration headers, the
  optional dialects of `snprintf.c`, and what the mail server answers.
* `iniparser` (headers only), the copies of log4cpp's headers under `third/`, `demo/`, `tests/`:
  duplicates and stand-alone code.

## 6. Plan

Done, in this order: ThreadPool and TaskService; TaskQueue; Server over TaskService; RequestReader;
UserEventHandler; EventNumber; the first proofs for ThreadPool, TaskQueue and UserEventHandler;
Startup, MySqlConnection and ServerLife; Client; the modules of log4cpp; the refinement of
TaskService and the safety invariants of Server, RequestReader, UserEventHandler, ServerLife, Client,
MailSender, LogConfigure, Snprintf, LogFiles and LogSinks.
