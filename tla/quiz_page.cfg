SPECIFICATION Spec
CONSTANTS
    q1 = q1
    q2 = q2
    core = core
    mock = mock
    cash = cash
    sales = sales
    Unset = Unset
    Questions = {q1, q2}
    Sets = {core, mock}
    CoreSet = core
    Members <- TwoSets
    Topic <- Topics
    Queries <- Links
    Faults = TRUE
    MaxOthers = 1
INVARIANTS TypeOK
PROPERTIES PrefsKept NotAskedAgain SequentialCovers
