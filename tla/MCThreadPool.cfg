SPECIFICATION FairSpec
CONSTANTS
    Workers = {w1, w2, w3}
    Tasks = {t1, t2, t3}
    MaxQueue = 1
    CanFail = {"setup", "calloc", "create"}
    Main = Main
    ExitTask = ExitTask
    NoTask = NoTask
    NoOwner = NoOwner
INVARIANTS
    TypeOK
    WaitingCount
    NoLostWakeup
    OneOwner
    NoUseAfterFree
    StackTaskConfined
    DestroyDrains
PROPERTIES
    ImplementsService
    AcceptedRuns
    DestroyReturns
