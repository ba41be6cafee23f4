SPECIFICATION Spec
CONSTANTS
    Threads = {main, w1}
    Width = 8
INVARIANT
    NumbersDiffer
