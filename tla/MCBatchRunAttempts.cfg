SPECIFICATION Spec
CONSTANTS
    MaxItems = 3
    Concurrency = 2
    Retries = 2
    CallRetries = 2
INVARIANT
    RetryAttemptsAreThoseMade
CHECK_DEADLOCK FALSE
