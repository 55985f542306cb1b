\* The graphs of MCDAGExecutor, for what a call of the Celery executor submits.
CONSTANTS
    a = a
    b = b
    c = c
    Nodes <- MCNodes
    MaxConcurrency = 2
    MaxRetries <- MCMaxRetries
    Latency <- MCLatency

SPECIFICATION Spec

INVARIANT EachNodeSubmitted
