SPECIFICATION Spec
CONSTANTS
    ann = ann
    bob = bob
    None = None
    NoTask = NoTask
    Slots = {s1}
    Tasks = {t1}
    MaxAttempts = 1
    Players = {ann, bob}
    LogGuid <- SpeltOnce
    TableGuid <- SpeltOnce
    KeyedOnLog = TRUE
    MaxEvents = 2
    MaxUnread = 2
    MaxMissed = 0
    MaxUnreadable = 1
PROPERTY UnreadableDropsNobody
