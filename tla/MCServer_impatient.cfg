SPECIFICATION Spec
CONSTANTS
    Conns = {c1, c2}
    Cells = {a1, a2}
    NoCell = NoCell
    Messages = {"code", "login"}
    MaxSend = 1
    MaxQueue = 1
    Threads = 2
    Prompt = FALSE
SYMMETRY Symmetry
INVARIANT
    EventKeepsSession
