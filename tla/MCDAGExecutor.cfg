\* Every graph on three nodes, every kind of on_complete.
CONSTANTS
    a = a
    b = b
    c = c
    Nodes <- MCNodes
    MaxConcurrency = 2
    MaxRetries <- MCMaxRetries
    Latency <- MCLatency

SPECIFICATION FairSpec

INVARIANTS
    ParentsStayCompleted
    ReturnAccounts
    ValidateIsRight
    ExecutorsAgree

PROPERTIES
    TerminalIsFinal
    ImplementsDependencyRun
    ExecuteReturns
