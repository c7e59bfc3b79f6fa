CONSTANTS
    Now = 1000
    Count = 2
    IsPath = TRUE
    NULL = NULL
SPECIFICATION Spec
INVARIANT PassMeansRoundTrip
CHECK_DEADLOCK FALSE
