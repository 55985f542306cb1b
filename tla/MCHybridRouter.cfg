\* Two concurrent requests at a time, a window of four calls, half of them planners.
CONSTANTS
    sota = sota
    backup = backup
    local = local
    spare = spare
    judge = judge
    Slots = {s1, s2}
    Models <- MCModels
    Chain <- MCChain
    Reliable <- MCReliable
    Window = 4
    RatioNum = 1
    RatioDen = 2

SPECIFICATION FairSpec

INVARIANTS
    OverrunBound
    AnswerMatchesRecord
    FailsOnlyWithoutModels

PROPERTIES
    RequestsAnswered
    BudgetReopens
