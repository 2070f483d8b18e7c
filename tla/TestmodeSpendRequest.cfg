SPECIFICATION Spec
CONSTANTS
    Second = 3
    MaxInt = 63
    Intervals = {1, 2, 22, 43}
    Lifetimes = {12, 36}
    Timeout = 34
    MaxTime = 40
    MaxAsked = 12
    Period = 6
PROPERTIES
    PollsSpaced
    ProgramEnds
CHECK_DEADLOCK FALSE
