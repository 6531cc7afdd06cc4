SPECIFICATION Spec
CONSTANTS
    Caller = {1}
    Interval = 3
    MaxRetries = 2
    BaseBackoff = 1
    MaxBackoff = 1
    Address = {1, 2}
    NoAddress = NoAddress
    ConnectInfo = FALSE
    Limit = 2
    Window = 2
    MaxBuckets = 1
    TokenRequired = TRUE
    Retries = 3
    HasFallback = TRUE
INVARIANT
    MinimumGap
CHECK_DEADLOCK FALSE
