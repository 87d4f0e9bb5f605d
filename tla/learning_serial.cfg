SPECIFICATION Spec
CONSTANTS
    Users = {u1, u2}
    Questions = {q1}
    Slots = {p1}
    Readers = {u1, u2}
    Durations <- Fast
    NoState = NoState
    Faults = FALSE
    MaxClock = 0
    MaxSubmits = 3
SYMMETRY Symmetry
INVARIANTS RecordedInBoth EveryAnswerCounts
PROPERTIES OnlyOwnerErases ImplementsRecord
