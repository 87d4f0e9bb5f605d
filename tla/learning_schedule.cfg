SPECIFICATION Spec
CONSTANTS
    Users = {u1}
    Questions = {q1}
    Slots = {p1, p2}
    Readers = {}
    Durations <- FastAndSlow
    NoState = NoState
    Faults = TRUE
    MaxClock = 1
    MaxSubmits = 3
SYMMETRY Symmetry
INVARIANTS TypeOK ScheduleSound RepetitionsCredited SrsHasOrigin InFlightSound RetiredRowsAreFresh
