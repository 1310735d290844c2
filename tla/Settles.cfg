SPECIFICATION SettlesSpec
CONSTANTS
    ann = ann
    bob = bob
    None = None
    NoTask = NoTask
    Slots = {s1}
    Tasks = {t1}
    MaxAttempts = 1
    Players = {ann, bob}
    LogGuid <- SpeltByLog
    TableGuid <- SpeltOnce
    KeyedOnLog = FALSE
    MaxEvents = 2
    MaxUnread = 2
    MaxMissed = 1
    MaxUnreadable = 1
\* each may challenge one other at a time, and be challenged by more
    Rivals = {"a", "b", "c"}
    MaxDuels = 1
    Timeout = 1
    MaxKills = 1
    MaxTime = 2
\* one player may be moved and one is above the balancer; an admin forces them red
    Crew = {"a", "b"}
    Exempt = {"b"}
    Tolerance = 1
    Quiet = 1
    RoundBased = TRUE
    ForceInto = {"red", "spec"}
    MaxNews = 3
\* two who change team, one who is moved only, and one above the balancer
    Games = {"moh", "bfbc2", "hf", "bf3"}
    Squad = {"a", "b", "c", "d"}
    Switchers = {"a", "b"}
    Spared = {"d"}
    Difference = 1
    Calm = 2
    CalmAfterMove = 1
    MaxLines = 2
\* two reminders' worth of waiting and a countdown of two
    Crowd = {"a", "b", "c"}
    Nag = 2
    CountFrom = 2
    Beat = 1
INVARIANTS SettlesTypeOK DuelsAreMutual TeamsSettle
PROPERTIES RosterSettles OnlyWhatWasAgreed
\* moves and clocks are bounded
CHECK_DEADLOCK FALSE
