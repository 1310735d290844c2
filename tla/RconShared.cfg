SPECIFICATION Spec
CONSTANTS
    Threads = {loop, worker}
    Others = {}
    MaxCalls = 2
    MaxRetries = 1
    TTL = 1
    MaxTime = 0
    Reliable = TRUE
PROPERTIES OwnAnswer
CHECK_DEADLOCK FALSE
