\* Two subjects, two uses, three grants that last zero to two ticks.
CONSTANTS
    alice = alice
    bob = bob
    cloud = cloud
    local = local
    Subjects <- MCSubjects
    Uses <- MCUses
    TTLs = {0, 1, 2}
    MaxRecords = 3
    MaxTime = 3

SPECIFICATION Spec

SYMMETRY MCSymmetry

INVARIANTS
    CheckIsLedger

PROPERTY ImplementsLedger

