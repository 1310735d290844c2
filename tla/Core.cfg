SPECIFICATION CoreSpec
CONSTANTS
    Slots = {s1, s2}
    Tasks = {t1, t2, t3}
    MaxAttempts = 2
    NoTask = NoTask
    MaxJobs = 2
    Jobs <- MCJobs
    DueAt <- MCDueAt
    OneShot <- MCOneShot
    Seconds = 2
    Cascade = 1
    MaxLines = 2
    MaxPolls = 1
    Players = {p1}
    Minute = 2
    MaxTime = 6
    MaxRecords = 2
    Lengths = {0, 1, 3}
    Timed = TRUE
    Cap = 2
    ZeroIsForever = FALSE
    ByGuid = FALSE
    KickOnly = FALSE
    CanUnban = TRUE
    Reliable = FALSE
INVARIANTS CoreTypeOK RegistryIsLive NothingForgotten ServerKeepsToTheSentence
PROPERTIES WaitingEnds LoopGoesOn ImplementsSentences
\* the run loop really ends, and the clock is bounded
CHECK_DEADLOCK FALSE
