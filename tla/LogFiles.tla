------------------------------ MODULE LogFiles ------------------------------
(***************************************************************************)
(* The file appenders of log4cpp: FileAppender, RollingFileAppender and    *)
(* DailyRollingFileAppender.                                               *)
(*                                                                         *)
(* Names map to inodes and descriptors to inodes, as in the file system:   *)
(* name 0 is _fileName, and n the backup with the index n of a rolling     *)
(* file or the one of day n of a daily file.  Messages are numbered in the *)
(* order they are logged.  The category's mutex makes the appends of one   *)
(* appender follow one another, so one process (step) appends, and calls   *)
(* rollOver now and then; reopen, close and the setters take no mutex and  *)
(* come between any two of its system calls, and so does a crash of the    *)
(* program.  time(NULL) ticks meanwhile: a roll-over goes by the local     *)
(* day, the deletion of old backups by the seconds since the last write.   *)
(***************************************************************************)
EXTENDS Integers, Sequences, SequencesExt, FiniteSets, Functions

CONSTANTS
    Kinds,       \* the appender classes to look at
    Confs,       \* what their constructors are called with
    Settings,    \* what the setters of the index, the size and the days are called with
    MaxMsgs,     \* bound on the messages logged, for each kind
    MaxCtl,      \* bound on the calls of reopen, close, rollOver and the setters
    MaxTime,     \* bound on the clock
    LocalDay,    \* localtime_r: the day that a time belongs to
    DayLength    \* 24 hours

ConfType(least) ==
    [trunc : BOOLEAN, backups : {n \in Nat : n >= least}, size : Nat,
     days : {n \in Nat : n >= least}]

\* The constructors replace an index and a number of days of 0.
ASSUME FileAppendersAssumption ==
    /\ Kinds \subseteq {"plain", "rolling", "daily"}
    /\ Confs \subseteq ConfType(1)
    /\ Settings \subseteq Nat
    /\ MaxTime \in Nat \ {0} /\ DayLength \in Nat
    /\ LocalDay \in [1..MaxTime -> Nat \ {0}]
    /\ \A t, u \in 1..MaxTime : t <= u => LocalDay[t] <= LocalDay[u]

VARIABLES
    kind,        \* "plain", "rolling" or "daily"
    disk, data,  \* name -> inode; the inodes: [text, mtime]
    fds, fd,     \* open descriptors -> inode; the member _fd
    conf,        \* _flags & O_TRUNC, _maxBackupIndex, _maxFileSize, _maxDaysToKeep
    logsDay,     \* the day of _logsTime
    time,        \* the clock
    step,        \* where the appending thread is, the day it rolls over for (0 when
                 \* somebody called rollOver), and the backup its next rename makes
    reo,         \* the reopen in progress: its new descriptor, or 0
    sent,        \* messages logged so far
    written,     \* those that reached a file
    timeOf,      \* the time each message was logged at
    gap,         \* whether files were truncated, orphaned or overwritten because of
                 \* a call from elsewhere, or deleted while they were in use
    hand,        \* whether rollOver was called by hand
    ctl          \* calls of reopen, close, rollOver and the setters so far

fileVars == <<kind, disk, data, fds, fd, conf, logsDay, time, step, reo, sent,
              written, timeOf, gap, hand, ctl>>

Idle == [at |-> "idle", now |-> 0, to |-> 0]
Today == LocalDay[time]
Free ==
    CHOOSE n \in 1..(Cardinality(DOMAIN fds) + 1) :
        n \notin DOMAIN fds /\ \A k \in 1..(n - 1) : k \in DOMAIN fds
With(f, x, y) == [z \in DOMAIN f \cup {x} |-> IF z = x THEN y ELSE f[z]]
Without(f, x) == [z \in DOMAIN f \ {x} |-> f[z]]
Ctl == ctl < MaxCtl /\ ctl' = ctl + 1
-----------------------------------------------------------------------------
(* System calls.                                                           *)

\* open(_fileName, _flags): the name, the inodes and the truncation.
OpenedInode == IF 0 \in DOMAIN disk THEN disk[0] ELSE Len(data) + 1
Truncates(trunc) == trunc /\ 0 \in DOMAIN disk /\ data[disk[0]].text # << >>

Open(trunc) ==
    LET empty == [text |-> << >>, mtime |-> time]
    IN  /\ disk' = With(disk, 0, OpenedInode)
        /\ data' = IF 0 \notin DOMAIN disk THEN Append(data, empty)
                   ELSE IF Truncates(trunc) THEN [data EXCEPT ![disk[0]] = empty] ELSE data

\* write(_fd) on a descriptor that is closed fails, and nobody is told.
Write(m) ==
    IF fd \in DOMAIN fds
    THEN /\ data' = [data EXCEPT ![fds[fd]] = [text |-> Append(@.text, m), mtime |-> time]]
         /\ written' = written \cup {m}
    ELSE UNCHANGED <<data, written>>

Rename(a, b) ==
    disk' = IF a \in DOMAIN disk THEN With(Without(disk, a), b, disk[a]) ELSE disk
-----------------------------------------------------------------------------
FilesInit ==
    /\ kind \in Kinds
    /\ time = 1 /\ logsDay = LocalDay[1]
    /\ disk = [n \in {0} |-> 1] /\ data = <<[text |-> << >>, mtime |-> 1]>>
    /\ fds = [n \in {1} |-> 1] /\ fd = 1
    /\ conf \in Confs
    /\ step = Idle /\ reo = 0
    /\ sent = 0 /\ written = {} /\ timeOf = << >>
    /\ gap = FALSE /\ hand = FALSE /\ ctl = 0

\* A smaller index leaves the files above it behind, and one with more digits
\* all of them, for the names are padded to its width.
Widens(n) == \E k \in 1..n : conf.backups < 10^k /\ 10^k <= n
LeavesBehind(n) == kind = "rolling" /\ (n < conf.backups \/ Widens(n))

\* The program starts again, after a crash or an exit: the descriptors are
\* gone, and the constructor takes the day from the file it opened.
Restart(c) ==
    /\ Ctl
    /\ conf' = c
    /\ Open(c.trunc)
    /\ gap' = (gap \/ Truncates(c.trunc) \/ LeavesBehind(c.backups))
    /\ fds' = [n \in {1} |-> OpenedInode] /\ fd' = 1
    /\ logsDay' = LocalDay[data'[OpenedInode].mtime]
    /\ step' = Idle /\ reo' = 0
    /\ UNCHANGED <<kind, time, sent, written, timeOf, hand>>
-----------------------------------------------------------------------------
(* Appending.                                                              *)

\* RollingFileAppender and FileAppender write first; only the former looks at
\* the size.
MustRoll(i) == kind = "rolling" /\ Len(data'[i].text) >= conf.size

AfterWrite ==
    step' = IF fd \in DOMAIN fds /\ MustRoll(fds[fd]) THEN [Idle EXCEPT !.at = "close"] ELSE Idle

\* DailyRollingFileAppender takes the time before it writes, and rolls over on
\* the first message of another day.
AppendEvent ==
    /\ step = Idle
    /\ sent < MaxMsgs[kind]
    /\ sent' = sent + 1
    /\ timeOf' = Append(timeOf, time)
    /\ IF kind = "daily"
       THEN /\ step' = IF Today # logsDay THEN [Idle EXCEPT !.at = "close", !.now = Today]
                       ELSE [Idle EXCEPT !.at = "write"]
            /\ UNCHANGED <<data, written>>
       ELSE Write(sent + 1) /\ AfterWrite
    /\ UNCHANGED <<kind, disk, fds, fd, conf, logsDay, time, reo, gap, hand, ctl>>

\* FileAppender::_append of a daily file: midnight may be over meanwhile.
WriteEvent ==
    /\ step.at = "write"
    /\ Write(sent)
    /\ step' = Idle
    /\ UNCHANGED <<kind, disk, fds, fd, conf, logsDay, time, reo, sent, timeOf, gap,
                   hand, ctl>>

\* rollOver closes the descriptor and keeps its number.  The index is read
\* here once; the code reads it three times, which makes a difference only
\* when it gets smaller or wider in between, and that sets gap.
RollClose ==
    /\ step.at = "close"
    /\ fds' = Without(fds, fd)
    /\ step' = IF kind = "rolling"
               THEN IF conf.backups > 0
                    THEN [Idle EXCEPT !.at = "remove", !.to = conf.backups]
                    ELSE [Idle EXCEPT !.at = "open"]
               ELSE [step EXCEPT !.at = "date"]
    /\ UNCHANGED <<kind, disk, data, fd, conf, logsDay, time, reo, sent, written,
                   timeOf, gap, hand, ctl>>

RollRemove ==
    /\ step.at = "remove"
    /\ disk' = Without(disk, step.to)
    /\ step' = [step EXCEPT !.at = "rename"]
    /\ UNCHANGED <<kind, data, fds, fd, conf, logsDay, time, reo, sent, written,
                   timeOf, gap, hand, ctl>>

\* From the oldest to the newest: to - 1 becomes to, the file itself 1.
RollRename ==
    /\ step.at = "rename"
    /\ Rename(step.to - 1, step.to)
    /\ step' = IF step.to = 1 THEN [Idle EXCEPT !.at = "open"]
               ELSE [step EXCEPT !.to = @ - 1]
    /\ UNCHANGED <<kind, data, fds, fd, conf, logsDay, time, reo, sent, written,
                   timeOf, gap, hand, ctl>>

\* Mutant: the backup gets the date of the roll-over.
RollToDate_Today ==
    /\ step.at = "date"
    /\ Rename(0, Today)
    /\ gap' = (gap \/ (hand /\ {0, Today} \subseteq DOMAIN disk))
    /\ step' = [step EXCEPT !.at = "open"]
    /\ UNCHANGED <<kind, data, fds, fd, conf, logsDay, time, reo, sent, written,
                   timeOf, hand, ctl>>

\* The second roll-over for a day overwrites the backup of the first.
RollToDate ==
    /\ step.at = "date"
    /\ Rename(0, logsDay)
    /\ gap' = (gap \/ (hand /\ {0, logsDay} \subseteq DOMAIN disk))
    /\ step' = [step EXCEPT !.at = "open"]
    /\ UNCHANGED <<kind, data, fds, fd, conf, logsDay, time, reo, sent, written,
                   timeOf, hand, ctl>>

RollOpen ==
    /\ step.at = "open"
    /\ Open(conf.trunc)
    /\ gap' = (gap \/ (ctl # 0 /\ Truncates(conf.trunc)))
    /\ fd' = Free
    /\ fds' = With(fds, Free, OpenedInode)
    /\ step' = IF kind = "daily" THEN [step EXCEPT !.at = "expire"] ELSE Idle
    /\ UNCHANGED <<kind, conf, logsDay, time, reo, sent, written, timeOf, hand, ctl>>

\* open fails: _fd is -1 (0 here) until somebody calls reopen.
RollOpenFails ==
    /\ step.at = "open"
    /\ fd' = 0
    /\ step' = IF kind = "daily" THEN [step EXCEPT !.at = "expire"] ELSE Idle
    /\ UNCHANGED <<kind, disk, data, fds, conf, logsDay, time, reo, sent, written,
                   timeOf, gap, hand, ctl>>

\* The time from which on a file must have been written to be kept.
Oldest == time - conf.days * DayLength

\* The files last written before that are deleted, unless scandir fails; the
\* one in use is among them when it was opened that long ago.  A roll-over for
\* a message sets the day and goes on to write it.
RollExpire ==
    /\ step.at = "expire"
    /\ \/ disk' = [n \in {x \in DOMAIN disk : data[disk[x]].mtime >= Oldest} |-> disk[n]]
       \/ UNCHANGED disk
    /\ gap' = (gap \/ (0 \in DOMAIN disk /\ 0 \notin DOMAIN disk'))
    /\ IF step.now = 0 THEN step' = Idle /\ UNCHANGED logsDay
       ELSE step' = [Idle EXCEPT !.at = "write"] /\ logsDay' = step.now
    /\ UNCHANGED <<kind, data, fds, fd, conf, time, reo, sent, written, timeOf, hand, ctl>>
-----------------------------------------------------------------------------
(* Calls from elsewhere.                                                   *)

\* rollOver is public.  The thread that logs calls it between two messages; a
\* roll-over in two threads at once is left out.
RollOver ==
    /\ Ctl
    /\ kind # "plain"
    /\ step = Idle
    /\ step' = [Idle EXCEPT !.at = "close"]
    /\ hand' = TRUE
    /\ UNCHANGED <<kind, disk, data, fds, fd, conf, logsDay, time, reo, sent, written,
                   timeOf, gap>>

\* Appender::reopenAll reaches this appender if the ones before it succeeded.
ReopenBegin ==
    /\ Ctl
    /\ reo = 0
    /\ Open(conf.trunc)
    /\ gap' = (gap \/ Truncates(conf.trunc))
    /\ reo' = Free
    /\ fds' = With(fds, Free, OpenedInode)
    /\ UNCHANGED <<kind, fd, conf, logsDay, time, step, sent, written, timeOf, hand>>

\* A roll-over between the two steps leaves the new descriptor on a backup.
ReopenEnd ==
    /\ reo # 0
    /\ fds' = Without(fds, fd)
    /\ fd' = reo
    /\ gap' = (gap \/ ~(0 \in DOMAIN disk /\ fds[reo] = disk[0]))
    /\ reo' = 0
    /\ UNCHANGED <<kind, disk, data, conf, logsDay, time, step, sent, written, timeOf,
                   hand, ctl>>

\* closeAll and reopenAll hold the mutex of the appender map.
Close ==
    /\ Ctl
    /\ reo = 0
    /\ fd # 0
    /\ fds' = Without(fds, fd)
    /\ fd' = 0
    /\ UNCHANGED <<kind, disk, data, conf, logsDay, time, step, reo, sent, written,
                   timeOf, gap, hand>>

SetAppend(append) ==
    /\ Ctl
    /\ conf' = [conf EXCEPT !.trunc = ~append]
    /\ UNCHANGED <<kind, disk, data, fds, fd, logsDay, time, step, reo, sent, written,
                   timeOf, gap, hand>>

SetMaxBackupIndex(n) ==
    /\ Ctl
    /\ kind = "rolling"
    /\ conf' = [conf EXCEPT !.backups = n]
    /\ gap' = (gap \/ LeavesBehind(n))
    /\ UNCHANGED <<kind, disk, data, fds, fd, logsDay, time, step, reo, sent, written,
                   timeOf, hand>>

SetMaximumFileSize(n) ==
    /\ Ctl
    /\ kind = "rolling"
    /\ conf' = [conf EXCEPT !.size = n]
    /\ UNCHANGED <<kind, disk, data, fds, fd, logsDay, time, step, reo, sent, written,
                   timeOf, gap, hand>>

SetMaxDaysToKeep(n) ==
    /\ Ctl
    /\ kind = "daily"
    /\ conf' = [conf EXCEPT !.days = n]
    /\ UNCHANGED <<kind, disk, data, fds, fd, logsDay, time, step, reo, sent, written,
                   timeOf, gap, hand>>

Tick ==
    /\ kind = "daily"
    /\ time < MaxTime
    /\ time' = time + 1
    /\ UNCHANGED <<kind, disk, data, fds, fd, conf, logsDay, step, reo, sent, written,
                   timeOf, gap, hand, ctl>>

FilesNext ==
    \/ AppendEvent \/ WriteEvent \/ RollClose \/ RollRemove \/ RollRename \/ RollToDate
    \/ RollOpen \/ RollOpenFails \/ RollExpire
    \/ RollOver \/ ReopenBegin \/ ReopenEnd \/ Close \/ Tick
    \/ \E c \in Confs : Restart(c)
    \/ \E b \in BOOLEAN : SetAppend(b)
    \/ \E n \in Settings : SetMaxBackupIndex(n) \/ SetMaximumFileSize(n) \/ SetMaxDaysToKeep(n)

FilesSpec == FilesInit /\ [][FilesNext]_fileVars
-----------------------------------------------------------------------------
Text(n) == data[disk[n]].text

\* Of two names, which one holds the older messages.
Older(a, b) == IF kind = "daily" THEN a # 0 /\ (b = 0 \/ a < b) ELSE a > b

Kept == UNION {Range(Text(n)) : n \in DOMAIN disk}

\* The messages that have to survive when nobody interferes: as many as the
\* backups have room for, or those of the last days to keep, of 24 hours each.
Due(m) ==
    CASE kind = "plain"   -> TRUE
      [] kind = "rolling" -> Cardinality({q \in written : q > m}) < conf.backups * conf.size
      [] kind = "daily"   -> timeOf[m] >= time - conf.days * DayLength

\* Read from the oldest backup to the file in use, the log is in order and
\* without a duplicate, and rolling over, reopening, closing, failing to open
\* and crashing in between lose nothing but the oldest messages and those
\* logged while no file was open.  A daily backup holds no message of a day
\* after its date, and none of an earlier one unless the program was started
\* again (on a file last written after midnight).  Rolling over by itself loses
\* no message that is due, however late in the day it happens.  Nothing is said
\* once a file was truncated or overwritten because of a call from elsewhere
\* (rollOver twice for a day does it), or the file in use was deleted by a
\* roll-over that took longer than the days to keep.
FilesInOrder ==
    ~gap =>
        /\ \A n \in DOMAIN disk : \A i, j \in DOMAIN Text(n) : i < j => Text(n)[i] < Text(n)[j]
        /\ \A a, b \in DOMAIN disk : Older(a, b) =>
               \A m \in Range(Text(a)), q \in Range(Text(b)) : m < q
        /\ Kept \subseteq written
        /\ \A m \in Kept, q \in written : m < q => q \in Kept
        /\ kind = "daily" => \A d \in DOMAIN disk \ {0} : \A m \in Range(Text(d)) :
               /\ LocalDay[timeOf[m]] <= d
               /\ ctl = 0 => LocalDay[timeOf[m]] = d
        /\ ctl = 0 => \A m \in written : Due(m) => m \in Kept
=============================================================================
