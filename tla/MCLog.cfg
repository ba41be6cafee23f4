SPECIFICATION LogSpec
CONSTANTS
    NULL = NULL
    Cats <- MCCats
    Files <- MCFiles
    ParamSets <- MCParams
    Apps = {a1, a2}
    AppNames <- MCNames
    Levels = {300, 800, 900}
    MaxCalls = 4
    Called = {"info", "fatal"}
    ClassNames = {"file", "own"}
    Kinds = {"plain", "rolling", "daily"}
    Confs <- MCConfs
    Settings = {0, 1, 3}
    MaxMsgs <- MCMaxMsgs
    MaxCtl = 2
    MaxTime = 5
    LocalDay <- MCLocalDay
    DayLength = 2
    Alphabets <- MCAlphabets
    MaxPattern = 5
    Lines <- MCLines
    MaxLines = 3
    BufSize = 3
    Env <- MCEnv
    Formats <- MCFormats
    BufferSizes = {0, 3, 6}
    SizeMod = 64
    Sinks = {"queue", "ostream", "syslog", "idsa", "remote", "buffer", "abort",
             "ntevent", "debug"}
    Backends = {"pthreads", "omni", "boost", "ms", "dummy"}
    Priorities = {300, 700}
    Filters <- MCFilters
    Lengths = {0, 5}
    PacketSize = 4
    Preamble = 2
    MaxQueue = 1
    Trigger = "ERROR"
    Thresholds = {"ERROR", "NOTSET"}
    Threads = {t1, t2}
    Labels = {"l"}
    MaxEvents = 3
    MaxSets = 3
    MaxMails = 5
    MaxShutdowns = 2
SYMMETRY Symmetry
INVARIANTS
    NoDangling
    ConfigApplied
    FilesInOrder
    TextMatches
    InBuffer
    SinksFaithful
    MailsInOrder
CHECK_DEADLOCK FALSE
