SPECIFICATION FairSpec
CONSTANTS
    Pairs = {1, 2, 3}
    Clip <- MCClip
    Ranks = {0, 1}
    Trials <- MCTrials
INVARIANT TypeOK
INVARIANT PoolSlotsHold
PROPERTY RotationFollowsTheRules
PROPERTY Settles
PROPERTY HaltFlattens
