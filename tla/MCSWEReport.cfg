\* The same run; what the how-to guide says of its result.
SPECIFICATION AgentSpec
CONSTANTS
    File <- MCFile
    Absent <- MCAbsent
    Text <- MCText
    Universal <- MCUniversal
    Original <- MCOriginal
    None = None
    Garbled = Garbled
    Patterns = 2
    MaxIterations = 2
    MaxFaults = 2
INVARIANT
    PatchIsReported
CHECK_DEADLOCK FALSE
