SPECIFICATION RepliesSpec
CONSTANTS
    Threads = {loop, worker}
    Others = {}
    MaxCalls = 2
    MaxRetries = 2
    TTL = 1
    MaxTime = 1
    Reliable = FALSE
    \* a command given up, one that meets its reply, and a line nobody waits for
    MaxCommands = 3
    MaxFaults = 3
    \* two slots, two names, one AI player; a departure and an arrival may both be missed
    People = {"a", "b", "ai"}
    Bots = {"ai"}
    Slots = {"1", "2"}
    Names = {"x", "y"}
    MaxLost = 2
INVARIANTS RepliesTypeOK NeverRepeated RepliesBelong RefusedOnce RostersAreTrue
PROPERTIES EveryCallEnds
\* the calls, commands and clocks are bounded
CHECK_DEADLOCK FALSE
