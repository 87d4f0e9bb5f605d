SPECIFICATION Spec
CONSTANTS
    Users = {u1}
    Questions = {q1}
    Slots = {p1, p2}
    Readers = {}
    Durations <- Fast
    NoState = NoState
    Faults = FALSE
    MaxClock = 0
    MaxSubmits = 2
SYMMETRY Symmetry
INVARIANTS EveryAnswerCounts
