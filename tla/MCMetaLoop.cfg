\* Three iterations, at most three cycles each, two tasks held in and one held out.
CONSTANTS
    rejected = rejected
    crashed = crashed
    in1 = in1
    in2 = in2
    out1 = out1
    out2 = out2
    Causes <- MCCauses
    HeldIn <- MCHeldIn
    HeldOut = {out1}
    Scale = 2
    Threshold = 1
    MinCluster = 2
    InitialRetries = {0, 1}
    RetryCap = 2
    RateWindow = 3
    TuneWindow = 2
    MaxEntries = 3
    MaxMeta = 3
    MaxSuccesses = 2

SPECIFICATION FairSpec

CHECK_DEADLOCK FALSE

INVARIANTS
    NoFailureLost
    VersionsImprove

PROPERTY LoopsEnd
