SPECIFICATION Spec
CONSTANTS
    HeaderLen = 3
    MaxMsgLen = 3
    Lengths <- LengthFields
    MaxMsgs = 3
    Width = 4
INVARIANTS
    InBounds
    Framing
    NoByteLost
