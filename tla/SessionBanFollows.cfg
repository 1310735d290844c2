SPECIFICATION Spec
CONSTANTS
    ann = ann
    bob = bob
    None = None
    NoTask = NoTask
    Slots = {s1}
    Tasks = {t1}
    MaxAttempts = 1
    Players = {ann, bob}
    LogGuid <- SpeltByLog
    TableGuid <- SpeltOnce
    KeyedOnLog = FALSE
    MaxEvents = 3
    MaxUnread = 2
    MaxMissed = 1
    MaxUnreadable = 1
PROPERTY BanFollowsThePlayer
