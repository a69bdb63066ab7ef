SPECIFICATION Spec
CONSTANTS
    MaxItems = 3
    MaxTimeout = 50000
INVARIANTS
    ListAllOrNothing
    ListLastWriterWins
    ListFindsItsOwn
    BucketsIncrease
    BucketAtTimeout
