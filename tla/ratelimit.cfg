SPECIFICATION Spec
CONSTANTS
    SlidingMax = 2
    SlidingWindow = 3
    FixedMax = 2
    FixedWindow = 3
    Period = 2
    Burst = 5
    BucketTTL = 5
    NoEntry = NoEntry
    MaxClock = 9
    MaxBack = 2
INVARIANTS TypeOK SlidingBound FixedBound BucketBound RefusalsJustified
