CONSTANTS
    TC_PATH_MAX = 4096
    Alphabet = {"/", ".", "a"}
    MaxLen = 5
    MaxBaseLen = 6
    MaxViaLen = 3
SPECIFICATION Spec
INVARIANT ComponentsMatchReference
INVARIANT NormalizeIsCanonical
INVARIANT RebaseReachesPath
INVARIANT DistanceIsTreeMetric
INVARIANT JoinInPlaceIsNormalized
INVARIANT RebaseOnlyWhenShorter
