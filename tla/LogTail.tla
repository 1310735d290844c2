------------------------------- MODULE LogTail -------------------------------
(****************************************************************************)
(* Following a game log over the network (net/logsource.py).  A poll asks    *)
(* for the size of the remote file, works out what is new, fetches it and    *)
(* cuts it into lines; the server writes, and may truncate the file, at any  *)
(* moment in between, and each of the three requests may fail.               *)
(*                                                                          *)
(* The bytes ever written are numbered on across truncations, and those in   *)
(* Newlines end a line.  A line handed over is the set of its bytes, its     *)
(* newline among them.  A poll takes no time on the clock.                   *)
(****************************************************************************)
EXTENDS Integers

CONSTANTS
    Newlines,      \* the bytes that end a line, from 1 on
    FromStart,     \* the log is replayed from its beginning
    MaxGap,        \* max_gap, in bytes; 0 for none
    RetryInterval, RetryMax,
    MaxBytes,      \* how much is ever written: the bound
    MaxRotations,  \* how often the file is truncated: the bound
    MaxFailures    \* how many requests fail: the bound

VARIABLES
    written,   \* the server: the last byte it has written
    base,      \* the server: the last byte written before the file was truncated
    unnoticed, \* the file was truncated and the tailer does not know
    offset,    \* _offset, -1 before the first size is known
    buf,       \* _buf: the incomplete line at the end
    connected,
    failures,  \* _failures
    retryIn,   \* how long until _retry_at
    pc,        \* where the poll is: "idle", "size" or "read"
    gap,       \* how much it is about to read
    skipped,   \* it has jumped over part of the log
    given,     \* history: the lines the last poll handed to the bot
    delivered, \* history: the lines handed over before those
    torn,      \* history: where the tailer began to read without knowing of a line start
    lost,      \* history: the bytes it jumped over or never saw
    rotations, failed

server == <<written, base, unnoticed, rotations>>
link == <<connected, failures, retryIn, failed>>
history == <<given, delivered, torn, lost>>
vars == <<server, offset, buf, link, pc, gap, skipped, history>>

Size == written - base

\* The last byte of the file as it is now that the tailer is past.
Place == IF offset = -1 \/ unnoticed THEN base ELSE base + offset

Init ==
    /\ written \in 0..MaxBytes
    /\ base = 0
    /\ unnoticed = FALSE
    /\ offset = -1
    /\ buf = {}
    /\ connected = TRUE
    /\ failures = 0
    /\ retryIn = 0
    /\ pc = "idle" /\ gap = 0 /\ skipped = FALSE
    /\ given = {} /\ delivered = {} /\ torn = {} /\ lost = {}
    /\ rotations = 0
    /\ failed = 0

-----------------------------------------------------------------------------
(* The game server.                                                         *)

\* The tailer can only see a truncation while the file is smaller than it was:
\* a file that has outgrown the old offset by the next poll is beyond it.
Write ==
    /\ written < MaxBytes
    /\ unnoticed => Size + 1 < offset
    /\ written' = written + 1
    /\ UNCHANGED <<base, unnoticed, rotations, offset, buf, link, pc, gap, skipped, history>>

\* The file starts again empty; the rest of a line half written never comes.
Rotate ==
    /\ rotations < MaxRotations
    /\ rotations' = rotations + 1
    /\ \E end \in written..MaxBytes :
         /\ end \in Newlines \cup {0} /\ \A e \in Newlines : e < end => e < written
         /\ written' = end
         /\ base' = end
         /\ lost' = lost \cup (Place + 1)..end
    /\ unnoticed' = (offset > 0)
    /\ UNCHANGED <<offset, buf, link, pc, gap, skipped, given, delivered, torn>>

-----------------------------------------------------------------------------
(* The connection.                                                          *)

\* Mutant: the delay doubles without end.
DelayUncapped(n) == RetryInterval * 2^(n - 1)

Delay(n) == LET d == RetryInterval * 2^(n - 1) IN IF d < RetryMax THEN d ELSE RetryMax

\* _fail: the connection is dropped and the next attempt put off.
Fail ==
    /\ failed < MaxFailures
    /\ failed' = failed + 1
    /\ failures' = failures + 1
    /\ retryIn' = Delay(failures + 1)
    /\ connected' = FALSE
    /\ pc' = "idle"

\* read_lines, when there is no connection and the time has come to try again.
Connect ==
    /\ pc = "idle"
    /\ ~connected
    /\ retryIn = 0
    /\ \/ /\ connected' = TRUE
          /\ failures' = 0
          /\ pc' = "size"
          /\ UNCHANGED <<retryIn, failed>>
       \/ Fail
    /\ UNCHANGED <<server, offset, buf, gap, skipped, history>>

Poll ==
    /\ pc = "idle"
    /\ connected
    /\ pc' = "size"
    /\ UNCHANGED <<server, offset, buf, link, gap, skipped, history>>

Tick ==
    /\ retryIn > 0
    /\ retryIn' = retryIn - 1
    /\ UNCHANGED <<server, offset, buf, connected, failures, failed, pc, gap, skipped, history>>

-----------------------------------------------------------------------------
(* What is new.                                                             *)

\* The poll has succeeded.
Succeed ==
    /\ pc' = "idle"
    /\ failures' = 0
    /\ UNCHANGED <<connected, retryIn, failed>>

\* Mutant: the tailer keeps its place in a file that was truncated.
StartingAtHeld == IF offset = -1 THEN (IF FromStart THEN 0 ELSE Size) ELSE offset

\* Where the file is read from: its end at first, its start when it has shrunk.
StartingAt ==
    IF offset = -1 THEN (IF FromStart THEN 0 ELSE Size)
    ELSE IF Size < offset THEN 0 ELSE offset

\* A line starts after byte b.
StartsAfter(b) == b \in Newlines \cup {0, base}

\* _advance, up to the fetch.  What it decides is kept even when the fetch fails.
Measure ==
    /\ pc = "size"
    /\ LET from == StartingAt
           news == Size - from
           skip == MaxGap > 0 /\ news > MaxGap
       IN  /\ offset' = IF skip THEN Size - MaxGap ELSE from
           /\ buf' = IF skip \/ (offset # -1 /\ Size < offset) THEN {} ELSE buf
           /\ skipped' = skip
           /\ gap' = IF skip THEN MaxGap ELSE news
           /\ lost' = lost \cup (base + (IF offset = -1 THEN 0 ELSE from) + 1)..(base + offset')
           /\ torn' = IF offset = -1 /\ ~skip /\ ~StartsAfter(base + from)
                      THEN torn \cup {base + from + 1} ELSE torn
           /\ IF news <= 0 THEN Succeed ELSE pc' = "read" /\ UNCHANGED link
    /\ unnoticed' = (unnoticed /\ Size >= offset)
    /\ UNCHANGED <<written, base, rotations, given, delivered>>

MeasureFails ==
    /\ pc = "size"
    /\ Fail
    /\ UNCHANGED <<server, offset, buf, gap, skipped, history>>

-----------------------------------------------------------------------------
(* Fetching it and cutting it into lines.                                   *)

\* What follows the first newline.
AfterFragment(data) == {c \in data : \E e \in data \cap Newlines : e < c}

\* Mutant: the fragment the tailer landed in is kept.
KeptWhole(data) == data

\* Mutant: every fetch loses what comes before its first newline.
KeptAfterFragment(data) == AfterFragment(data)

\* Having landed mid-line, the fragment is dropped.
Kept(data) == IF skipped THEN AfterFragment(data) ELSE data

\* _split_lines: what is left after the last newline, and each line before it;
\* the incomplete line of the buffer goes with the first of them.
Rest(data) ==
    {c \in data : \A e \in data \cap Newlines : e < c}
        \cup (IF data \cap Newlines = {} THEN buf ELSE {})

Line(data, end) ==
    {c \in data : c <= end /\ \A e \in data \cap Newlines : e < end => e < c}
        \cup (IF \A e \in data \cap Newlines : e >= end THEN buf ELSE {})

SplitLines(data) == {Line(data, end) : end \in data \cap Newlines}

\* Mutant: the offset moves by what was asked for.
NewOffsetAsked(n) == offset + gap

\* The offset moves by what came, which may be more than was asked for.
NewOffset(n) == offset + n

\* How much comes of what was asked for: nothing when the file has shrunk; what
\* FTP sends is all there is by now.
Fetched == IF Size <= offset THEN {0}
           ELSE {Size - offset, IF gap < Size - offset THEN gap ELSE Size - offset}

Read ==
    /\ pc = "read"
    /\ \E n \in Fetched :
         LET data == (base + offset + 1)..(base + offset + n)
             kept == Kept(data)
         IN  /\ offset' = NewOffset(n)
             /\ buf' = Rest(kept)
             /\ given' = SplitLines(kept)
             /\ delivered' = delivered \cup given
             /\ lost' = IF skipped THEN lost \cup (data \ AfterFragment(data)) ELSE lost
             /\ torn' = IF skipped /\ data \cap Newlines = {}
                        THEN torn \cup {base + offset' + 1} ELSE torn
    /\ Succeed
    /\ UNCHANGED <<server, gap, skipped>>

\* After a skip, that a fragment is to be dropped is forgotten.
ReadFails ==
    /\ pc = "read"
    /\ Fail
    /\ torn' = IF skipped THEN torn \cup {base + offset + 1} ELSE torn
    /\ UNCHANGED <<server, offset, buf, gap, skipped, given, delivered, lost>>

ReadLines == Connect \/ Poll \/ Measure \/ MeasureFails \/ Read \/ ReadFails

Next == Write \/ Rotate \/ Tick \/ ReadLines

Spec == Init /\ [][Next]_vars

\* The run loop keeps polling and the clock runs; requests fail as they like.
FairSpec == Spec /\ WF_vars(Tick) /\ WF_vars(ReadLines)

-----------------------------------------------------------------------------
Bytes == 1..MaxBytes

TypeOK ==
    /\ written \in 0..MaxBytes /\ base \in 0..written
    /\ unnoticed \in BOOLEAN /\ connected \in BOOLEAN /\ skipped \in BOOLEAN
    /\ offset \in -1..MaxBytes
    /\ buf \subseteq Bytes
    /\ failures \in Nat /\ failed \in 0..MaxFailures
    /\ rotations \in 0..MaxRotations
    /\ retryIn \in 0..RetryMax
    /\ pc \in {"idle", "size", "read"}
    /\ gap \in Nat
    /\ given \subseteq SUBSET Bytes /\ delivered \subseteq SUBSET Bytes

\* The bytes of the line that byte b ends.
WholeLine(b) == {c \in Bytes : c <= b /\ \A e \in Newlines : e < b => e < c}

\* "yields complete text lines" (logsource.py:3): what the bot is handed is a line
\* the server wrote, never two run together, and never the end of one - but for
\* the first line after the tailer began mid-line or after a skip whose fetch
\* failed or held no newline.
DeliveredWhole ==
    \A line \in given :
        \E b \in line \cap Newlines :
            \/ line = WholeLine(b)
            \/ \E c \in torn : line = {d \in WholeLine(b) : c <= d}

\* No line is handed over twice or after a later one, through reconnections,
\* truncations and skips.  (logsource.py:135-153)
DeliveredInOrder ==
    \A line \in given, earlier \in delivered : \A c \in line, d \in earlier : d < c

HandedOver(b) == \E line \in given \cup delivered : b \in line

\* A line the tailer has read past was handed over, unless it lay in what a skip
\* or a truncation took, or before the place where tailing began.
\* (logsource.py:230-306)
NothingDropped ==
    \A b \in Newlines : b <= Place => HandedOver(b) \/ b \in lost

\* Every complete line the server wrote is handed over in the end, but for those.
\* (logsource.py:230-255)
EveryLineArrives ==
    \A b \in Newlines : written >= b ~> HandedOver(b) \/ b \in lost
=============================================================================
