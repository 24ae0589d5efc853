SPECIFICATION Spec
CONSTANTS
    w1 = w1
    w2 = w2
    Workers <- TwoWorkers
    Calls <- TwoCalls
    Listings <- Lists
    MaxCalls = 1
    Limit = 1
    Window = 1
    Slack = 1
    MaxTime = 0
    MaxRequests = 2
    MaxStepBack = 1
    MaxSteps = 1
INVARIANTS
    WindowHeld
    ResultComplete
PROPERTIES
    RunFinishes
CHECK_DEADLOCK FALSE
