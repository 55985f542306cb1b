\* Three models, registered in every order and with every status; windows of one
\* sample and generations of two candidates; six planner calls of evaluations.
CONSTANTS
    m1 = m1
    m2 = m2
    m3 = m3
    None = None
    Names <- MCNames
    WarmupRounds = 2
    MaxMatches = 4
    MaxRegisters = 3
    MaxRollbacks = 2
    Window = 1
    MinSamples = 1
    Limit = 2
    Errors <- MCErrors
    Objectives = 2
    Points <- MCPoints
    Size = 2
    Generations = 1
    Reserve = 3
    Debounce = 3
    MaxCalls = 6
    MaxSamples = 4
    MaxVersions = 3
    MaxFaults = 2

SPECIFICATION MCSpec

SYMMETRY MCSymmetry

INVARIANTS
    OneChampion
    LiveIsChampion
    PipelineKeepsOrder
    FrontsSurvive

PROPERTIES
    RollbackRestores
    PromotionEarned
    LostCallsAreRecent

\* The bounds on matches, registrations and rollbacks end every behaviour.
CHECK_DEADLOCK FALSE
