SPECIFICATION Spec
CONSTANTS
    Calls = {p1, p2, p3}
    Mobiles = {m1}
    Codes = {k1}
    DbCanFail = FALSE
    NoCode = NoCode
    NoCall = NoCall
    NoMobile = NoMobile
SYMMETRY Symmetry
INVARIANT
    OneRowPerUser
