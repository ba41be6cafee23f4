SPECIFICATION FairSpec
CONSTANTS
    Conns = {c1, c2}
    Cells = {a1, a2}
    NoCell = NoCell
    Messages = {"login", "other", "garbled", "badhead"}
    MaxSend = 2
    MaxQueue = 1
    Threads = 2
    Prompt = TRUE
INVARIANTS
    EventKeepsSession
    NoStrayWait
    ResponsesMatch
    UndefinedOnlyByParse
PROPERTIES
    AcceptedAnswered
    NoSilentStall
