SPECIFICATION FairSpec
CONSTANTS
    MaxItems = 3
    Concurrency = 2
    Retries = 2
    CallRetries = 2
INVARIANTS
    TypeOK
    SummaryMatchesOutcomes
    BoundedConcurrency
    NothingSentAfterFailure
    OnlyHangUpsRepeat
PROPERTY
    Returns
CHECK_DEADLOCK FALSE
