SPECIFICATION Spec
CONSTANTS
    Pairs = {1, 2, 3, 4}
    Clip <- ShippedClip
    Ranks = {0, 1}
    Trials <- ShippedTrials
INVARIANT MaxConcurrentHolds
