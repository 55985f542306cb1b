SPECIFICATION AgentSpec
CONSTANTS
    File <- MCFile
    Absent <- MCAbsent
    Text <- MCText
    Universal <- MCUniversal
    Original <- MCOriginal
    None = None
    Garbled = Garbled
    Patterns = 2
    MaxIterations = 2
    MaxFaults = 2
INVARIANTS
    ContextTellsChange
    DiagnosisSeesLastTest
    RevertRestores
CHECK_DEADLOCK FALSE
