-------------------------------- MODULE MCLines --------------------------------
(* Where the run loop's lines come from, one at a time: a log that is followed   *)
(* over the network, and the servers that send lines over the connection for     *)
(* commands.  A variable of the one that is not checked is Off, but for those    *)
(* that its liveness property looks at.                                         *)
EXTENDS Integers

CONSTANTS
    Newlines, FromStart, MaxGap, MaxBytes, MaxRotations, MaxFailures, \* of LogTail
    MaxEvents, MaxAsks, MaxFaults,                                    \* of Streams
    RetryInterval, RetryMax

ASSUME LogAssumption ==
    /\ Newlines \subseteq Nat \ {0} /\ FromStart \in BOOLEAN
    /\ {MaxGap, MaxBytes, MaxRotations, MaxFailures} \subseteq Nat
ASSUME FlowAssumption == {MaxEvents, MaxAsks, MaxFaults} \subseteq Nat
ASSUME RetryAssumption == {RetryInterval, RetryMax} \subseteq Nat /\ RetryInterval <= RetryMax

VARIABLES
    part, pc, connected, retryIn,
    written, base, unnoticed, offset, buf, failures, gap, skipped, given, delivered, torn, lost,
    rotations, failed,
    game, up, right, open, wire, owed, conn, made, kept, out, asked, delay, ended, heard,
    handed, answer, refused, faults

Log == INSTANCE LogTail
Flow == INSTANCE Streams WITH Games <- {"frostbite", "homefront", "frontline", "ravaged"}

Off == "off"
tailVars == <<written, base, unnoticed, offset, buf, failures, gap, skipped, given, delivered,
              torn, lost, rotations, failed>>
flowVars == <<game, up, right, open, wire, owed, conn, made, kept, out, asked, delay, ended,
              heard, handed, answer, refused, faults>>
bothVars == <<pc, connected, retryIn>>

TailRests ==
    /\ written = 0 /\ base = Off /\ unnoticed = Off /\ offset = Off /\ buf = Off
    /\ failures = Off /\ gap = Off /\ skipped = Off /\ given = {} /\ delivered = {}
    /\ torn = Off /\ lost = {} /\ rotations = Off /\ failed = Off

FlowRests ==
    /\ game = "ravaged" /\ up = FALSE /\ right = Off /\ open = Off /\ wire = Off /\ owed = Off
    /\ conn = Off /\ made = Off /\ kept = Off /\ out = Off /\ asked = Off /\ delay = Off
    /\ ended = Off /\ heard = Off /\ handed = Off /\ answer = Off /\ refused = Off
    /\ faults = Off

LinesInit ==
    \/ part = "tail" /\ Log!Init /\ FlowRests
    \/ part = "flow" /\ Flow!Init /\ TailRests

LinesNext ==
    /\ \/ part = "tail" /\ Log!Next /\ UNCHANGED flowVars
       \/ part = "flow" /\ Flow!Next /\ UNCHANGED tailVars
    /\ UNCHANGED part

\* The run loop keeps reading and the clock runs.
LinesSpec ==
    /\ LinesInit /\ [][LinesNext]_<<part, bothVars, tailVars, flowVars>>
    /\ WF_<<tailVars, bothVars>>(part = "tail" /\ Log!Tick)
    /\ WF_<<tailVars, bothVars>>(part = "tail" /\ Log!ReadLines)
    /\ WF_<<flowVars, bothVars>>(part = "flow" /\ Flow!Tick)
    /\ WF_<<flowVars, bothVars>>(part = "flow" /\ Flow!Reads)

LinesTypeOK ==
    /\ part = "tail" => Log!TypeOK
    /\ part = "flow" => Flow!TypeOK

\* What the bot is handed is what the server said, all of it, whole and in its order: of
\* LogTail and, but for Ravaged, of Streams.
LinesAsWritten ==
    /\ part = "tail" => Log!DeliveredWhole /\ Log!DeliveredInOrder /\ Log!NothingDropped
    /\ part = "flow" => Flow!EventsInOrder

\* A property of Streams: a reply answers the command it is returned to.
OwnReply == part = "flow" => Flow!OwnReply

\* A property of Streams: a refused password is not tried again and again.
NotHammered == [][part = "flow" => Flow!NotHammered]_<<part, bothVars, tailVars, flowVars>>

\* Failures and back-off pass, and lines come again: of LogTail and Streams.
LinesComeAgain ==
    /\ part = "tail" => Log!EveryLineArrives
    /\ part = "flow" => Flow!ComesBack
=============================================================================
