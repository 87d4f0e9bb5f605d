SPECIFICATION Spec
CONSTANTS
    Users = {u1}
    Questions = {q1}
    Slots = {p1}
    Readers = {u1}
    Durations <- Fast
    NoState = NoState
    Faults = FALSE
    MaxClock = 0
    MaxSubmits = 2
SYMMETRY Symmetry
PROPERTIES DeleteErasesWhatWasSeen
