SPECIFICATION Spec
CONSTANTS
    t1 = t1
    t2 = t2
    t3 = t3
    Task <- MCTask
    Bad <- MCBad
    MaxRetries = 1
    Epochs = 2
    Threshold = 2
    PerRun = 3
    Reserve = 1
    MaxRuns = 2
    MaxFaults = 1
INVARIANTS
    BudgetFloor
    CountsAgree
    SamplesConserved
PROPERTIES
    TrainingEnds
CHECK_DEADLOCK FALSE
