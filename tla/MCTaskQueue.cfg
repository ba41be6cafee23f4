SPECIFICATION Spec
CONSTANTS
    Tasks = {t1, t2, t3, t4}
    ExitTask = ExitTask
    Null = Null
    First = First

INVARIANTS
    TypeOK
    ListIsFifo
    QueuedOnce
