SPECIFICATION FairSpec
CONSTANTS
    Reader = reader
    Askers = {asker}
    Wrap = 2
    Window = 1
    Outrun = 1
    Late = 1
    DeadAfter = 0
    RetryMax = 1
    MaxAsks = 2
    MaxEvents = 1
    MaxFaults = 1
INVARIANTS TypeOK EachEventOnce OwnReply SentInOrder
PROPERTY ComesBackUp
