SPECIFICATION FairSpec
CONSTANTS
    Clients = {c1, c2}
    Codes = {k1, k2}
    NoCode = NoCode
    NoClient = NoClient
    MaxCmds = 3
    BufUnits = 4
CHECK_DEADLOCK FALSE
INVARIANT
    CodeInSync
PROPERTY
    ClientEnds
