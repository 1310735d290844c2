SPECIFICATION LinesSpec
CONSTANTS
    \* a log with lines of two bytes, of one (an empty line), of three and of two
    Newlines = {2, 3, 6, 8}
    FromStart = FALSE
    MaxGap = 2
    MaxBytes = 8
    MaxRotations = 2
    MaxFailures = 2
    \* an event before or during a command and one after it, on a connection that is lost twice
    MaxEvents = 2
    MaxAsks = 2
    MaxFaults = 2
    RetryInterval = 2
    RetryMax = 3
INVARIANTS LinesTypeOK LinesAsWritten OwnReply
PROPERTIES NotHammered LinesComeAgain
\* what is written and how often it fails is bounded
CHECK_DEADLOCK FALSE
