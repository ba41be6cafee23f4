SPECIFICATION FairSpec
CONSTANTS
    Calls = {p1, p2, p3}
    Mobiles = {m1, m2}
    Codes = {k1, k2}
    DbCanFail = TRUE
    NoCode = NoCode
    NoCall = NoCall
    NoMobile = NoMobile
INVARIANTS
    TypeOK
    SuccessRegistered
    LoginNeedsCode
    RowsEarned
PROPERTY
    Answered
