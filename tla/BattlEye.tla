------------------------------- MODULE BattlEye -------------------------------
(****************************************************************************)
(* The BattlEye client (net/battleye.py).  One UDP socket carries commands,  *)
(* their replies, which may be split, and the events the server pushes,      *)
(* which it sends again until they are acknowledged.  read_lines drains the  *)
(* socket, and finds out whether a silent server is still there; command     *)
(* pumps it until its own reply has come and queues the events it meets.     *)
(*                                                                          *)
(* The reader runs read_lines on a thread of its own.  What the run loop's   *)
(* handlers and the status polls ask, they ask from other threads, while it  *)
(* may be reading.  A thread runs on undisturbed between two blocking calls, *)
(* but for the hand-over of the events at the end of read_lines.             *)
(*                                                                          *)
(* Assumed of the network: a copy of an event is outrun by fewer than Outrun *)
(* later ones, a reply by no more than Late later commands, and what is on   *)
(* its way at a login does not reach the new socket.  An event overtakes and *)
(* is overtaken, so the window has to hold those before it and those after.  *)
(* Every event has the same text, so only its number tells it from another.  *)
(****************************************************************************)
EXTENDS Integers, Sequences, FiniteSets

CONSTANTS
    Askers, Reader, \* the threads that ask, and the one that reads
    Wrap,           \* 256: the sequence byte
    Window,         \* SEEN_WINDOW
    Outrun,         \* how late an event may come, in later events
    Late,           \* how late a reply may come, in sequence numbers
    DeadAfter,      \* dead_after
    RetryMax,       \* retry_max
    MaxAsks,        \* how many commands and chat lines are ever sent: the bound
    MaxEvents,      \* how many events the server ever pushes: the bound
    MaxFaults       \* how often the server restarts or the link fails: the bound

ASSUME CallersAssumption == Reader \notin Askers
ASSUME WindowAssumption ==
    /\ Outrun \in Nat \ {0} /\ Window \in Nat /\ Window >= 2 * Outrun - 1
    /\ Wrap \in Nat /\ Wrap >= 2 * Window /\ Late \in 0..(Wrap - 1)
ASSUME TimesAssumption == DeadAfter \in Nat /\ RetryMax \in Nat \ {0}
ASSUME BoundsAssumption == MaxAsks \in Nat /\ MaxEvents \in Nat /\ MaxFaults \in Nat

Threads == Askers \cup {Reader}

VARIABLES
    session,   \* the server: it knows the bot's current socket
    pushed,    \* the server: how many events it has pushed
    first,     \* the server: how many of them before this session
    unacked,   \* the server: the events it will send again
    flying,    \* datagrams on their way to the bot
    connected, \* _sock is not None
    seq,       \* _seq
    seen,      \* _seen
    events,    \* _events
    outbox,    \* _outbox
    parts,     \* _parts: which command each part of a split reply answers
    quiet,     \* how long since _last_heard
    retryIn,   \* how long until _retry_at
    pc,        \* where each thread is
    asking,    \* the command it awaits the reply of, and under which sequence
    copy,      \* list(self._events), about to be returned
    asks,      \* how many commands and chat lines were asked for
    handed,    \* history: the events handed to the bot
    acked,     \* history: the events acknowledged
    latest,    \* history: the latest of the commands and chat lines sent
    overlap,   \* history: two threads have been inside at once
    faults

server == <<session, pushed, first, unacked>>
history == <<handed, acked, latest, overlap>>
client == <<connected, seq, seen, events, outbox, parts>>
threads == <<pc, asking, copy>>
vars == <<server, flying, client, quiet, retryIn, threads, asks, history, faults>>

Probe == 0  \* the command sent to a silent server
Nobody == [ask |-> Probe, seq |-> -1]
Event(n) == [type |-> "event", n |-> n, seq |-> (n - first - 1) % Wrap]
Replies(ask, s, total) ==
    {[type |-> "reply", ask |-> ask, seq |-> s, part |-> i, total |-> total] : i \in 1..total}

Init ==
    /\ session = TRUE /\ pushed = 0 /\ first = 0 /\ unacked = {}
    /\ flying = {}
    /\ connected = TRUE
    /\ seq = 0 /\ seen = <<>> /\ events = <<>> /\ outbox = <<>> /\ parts = <<>>
    /\ quiet = 0 /\ retryIn = 0
    /\ pc = [t \in Threads |-> "idle"]
    /\ asking = [t \in Threads |-> Nobody]
    /\ copy = <<>>
    /\ asks = 0
    /\ handed = {} /\ acked = {} /\ latest = 0
    /\ overlap = FALSE
    /\ faults = 0

-----------------------------------------------------------------------------
(* The server and the network.                                              *)

Push ==
    /\ session
    /\ pushed < MaxEvents
    /\ \A n \in unacked \cup {d.n : d \in {e \in flying : e.type = "event"}} :
         pushed + 1 - n < Outrun
    /\ pushed' = pushed + 1
    /\ unacked' = unacked \cup {pushed + 1}
    /\ flying' = flying \cup {Event(pushed + 1)}
    /\ UNCHANGED <<session, first, client, quiet, retryIn, threads, asks, history, faults>>

PushAgain(n) ==
    /\ n \in unacked
    /\ flying' = flying \cup {Event(n)}
    /\ UNCHANGED <<server, client, quiet, retryIn, threads, asks, history, faults>>

\* The server restarts and knows nobody.
Restart ==
    /\ session
    /\ faults < MaxFaults
    /\ faults' = faults + 1
    /\ session' = FALSE
    /\ unacked' = {}
    /\ UNCHANGED <<pushed, first, flying, client, quiet, retryIn, threads, asks, history>>

Tick ==
    /\ quiet <= DeadAfter \/ retryIn > 0
    /\ quiet' = IF quiet <= DeadAfter THEN quiet + 1 ELSE quiet
    /\ retryIn' = IF retryIn > 0 THEN retryIn - 1 ELSE 0
    /\ UNCHANGED <<server, flying, client, threads, asks, history, faults>>

-----------------------------------------------------------------------------
(* Sending.                                                                 *)

\* Chat, and a keepalive, take a number each; what they are answered is dropped by
\* whoever meets it, and is left out.
Latest(sent) == CHOOSE c \in {latest} \cup {sent[i] : i \in DOMAIN sent} :
                    \A i \in DOMAIN sent : sent[i] <= c /\ latest <= c

\* Mutant: the number outgrows its byte.
NumberUnbounded(n) ==
    /\ seq' = seq + n
    /\ UNCHANGED flying

Number(n) ==
    /\ seq' = (seq + n) % Wrap
    /\ UNCHANGED flying

\* Mutant: a command goes out before the chat that waits.
WaitingNone == <<>>

\* What _flush_outbox(paced=False) sends ahead of a command.
Waiting == outbox

\* command, up to its first wait for an answer.  The server answers it in one
\* datagram or in two, or never hears it.
Send(t, ask) ==
    /\ outbox' = SubSeq(outbox, Len(Waiting) + 1, Len(outbox))
    /\ latest' = Latest(Waiting \o <<ask>>)
    /\ parts' = <<>>
    /\ LET number == (seq + Len(Waiting)) % Wrap
       IN  /\ seq' = (number + 1) % Wrap
           /\ asking' = [asking EXCEPT ![t] = [ask |-> ask, seq |-> number]]
           /\ \E total \in IF session THEN 0..2 ELSE {0} :
                 flying' = {d \in flying : d.type = "event" \/ (number - d.seq) % Wrap \in 1..Late}
                               \cup Replies(ask, number, total)
    /\ overlap' = (overlap \/ \E u \in Threads \ {t} : pc[u] # "idle")
    /\ UNCHANGED <<server, connected, seen, events, quiet, retryIn, copy, handed, acked, faults>>

Command(t) ==
    /\ pc[t] = "idle"
    /\ connected
    /\ asks < MaxAsks
    /\ asks' = asks + 1
    /\ pc' = [pc EXCEPT ![t] = "await"]
    /\ Send(t, asks + 1)

\* write: chat is queued, and its head sent when the last was long enough ago.
Write(t) ==
    /\ pc[t] = "idle"
    /\ connected
    /\ asks < MaxAsks
    /\ asks' = asks + 1
    /\ LET queue == Append(outbox, asks + 1)
       IN  \/ outbox' = queue /\ Number(0) /\ UNCHANGED latest
           \/ outbox' = Tail(queue) /\ Number(1) /\ latest' = Latest(<<Head(queue)>>)
    /\ UNCHANGED <<server, connected, seen, events, parts, quiet, retryIn, threads, handed, acked,
                   overlap, faults>>

-----------------------------------------------------------------------------
(* Receiving.                                                               *)

\* Mutant: an event is remembered by nobody.
SawNone(s) == UNCHANGED seen

Saw(s) == seen' = IF Len(seen) < Window THEN Append(seen, s) ELSE Append(Tail(seen), s)

\* Mutant: an event is acknowledged and queued only by the reader.
KeepUnlessAsking(d) == IF pc[Reader] = "drain" THEN events' = Append(events, d.n) ELSE UNCHANGED events

Keep(d) == events' = Append(events, d.n)

\* _handle_message: acknowledge, which the server hears or not; queue unless seen.
HandleMessage(d) ==
    /\ unacked' \in {unacked, unacked \ {d.n}}
    /\ acked' = acked \cup {d.n}
    /\ IF \E i \in DOMAIN seen : seen[i] = d.seq
       THEN UNCHANGED <<seen, events>>
       ELSE Saw(d.seq) /\ Keep(d)

Take(d) ==
    /\ connected
    /\ d \in flying
    /\ flying' = flying \ {d}
    /\ quiet' = 0

\* The thread no longer waits; the reader's probe was its last step but one.
Back(t) ==
    /\ pc' = [pc EXCEPT ![t] = IF pc[t] = "probe" THEN "collect" ELSE "idle"]
    /\ asking' = [asking EXCEPT ![t] = Nobody]

\* _assemble: the parts there are with this one, and whether they are enough.
Gathered(d) == [i \in DOMAIN parts \cup {d.part} |-> IF i = d.part THEN d.ask ELSE parts[i]]

Complete(d) == d.total = 1 \/ Cardinality(DOMAIN Gathered(d)) >= d.total

Answers(d) == IF d.total = 1 THEN {d.ask} ELSE {Gathered(d)[i] : i \in DOMAIN Gathered(d)}

Awaits(t) == pc[t] \in {"await", "probe"}

MeetEvent(t, d) ==
    /\ Awaits(t)
    /\ d.type = "event"
    /\ Take(d)
    /\ HandleMessage(d)
    /\ UNCHANGED <<session, pushed, first, connected, seq, outbox, parts, retryIn, threads, asks,
                   handed, latest, overlap, faults>>

\* Mutant: whatever reply comes is taken for the command's own.
IsMineAny(t, d) == TRUE

IsMine(t, d) == d.seq = asking[t].seq

MeetReply(t, d) ==
    /\ Awaits(t)
    /\ d.type = "reply"
    /\ Take(d)
    /\ IF ~IsMine(t, d)
       THEN UNCHANGED <<parts, pc, asking>>
       ELSE IF ~Complete(d)
       THEN parts' = Gathered(d) /\ UNCHANGED <<pc, asking>>
       ELSE /\ parts' = IF d.total = 1 THEN parts ELSE <<>>
            /\ Back(t)
    /\ UNCHANGED <<server, connected, seq, seen, events, outbox, retryIn, copy, asks, handed, acked,
                   latest, overlap, faults>>

\* _lost: the socket is closed and the next attempt put off.  What comes for a closed
\* socket is lost, and when the server was last heard is asked again from a login only.
Lost ==
    /\ connected' = FALSE
    /\ flying' = {}
    /\ session' = FALSE
    /\ unacked' = {}
    /\ outbox' = <<>>
    /\ retryIn' \in 1..RetryMax
    /\ UNCHANGED <<pushed, first>>

\* Nothing comes, or a datagram whose checksum is wrong: BattleyeTimeout.  The
\* reader's probe has then failed.
TimesOut(t) ==
    /\ Awaits(t)
    /\ IF pc[t] = "probe"
       THEN Lost /\ UNCHANGED quiet
       ELSE /\ UNCHANGED <<server, connected, outbox, retryIn>>
            /\ \/ UNCHANGED <<flying, quiet>>
               \/ \E d \in flying : Take(d)
    /\ Back(t)
    /\ UNCHANGED <<seq, seen, events, parts, copy, asks, history, faults>>

-----------------------------------------------------------------------------
(* read_lines.                                                              *)

ReadLines ==
    /\ pc[Reader] = "idle"
    /\ connected
    /\ pc' = [pc EXCEPT ![Reader] = "drain"]
    /\ overlap' = (overlap \/ \E u \in Threads \ {Reader} : pc[u] # "idle")
    /\ UNCHANGED <<server, flying, client, quiet, retryIn, asking, copy, asks, handed, acked, latest, faults>>

\* _try_reconnect.  A new login has a new socket and a new numbering.
Login ==
    /\ pc[Reader] = "idle"
    /\ ~connected
    /\ retryIn = 0
    /\ connected' = TRUE
    /\ session' = TRUE
    /\ first' = pushed
    /\ flying' = {}
    /\ seq' = 0
    /\ seen' = <<>>
    /\ quiet' = 0
    /\ pc' = [pc EXCEPT ![Reader] = "drain"]
    /\ overlap' = (overlap \/ \E u \in Threads \ {Reader} : pc[u] # "idle")
    /\ UNCHANGED <<pushed, unacked, events, outbox, parts, retryIn, asking, copy, asks, handed,
                   acked, latest, faults>>

\* Refused, or not answered.
LoginFails ==
    /\ pc[Reader] = "idle"
    /\ ~connected
    /\ retryIn = 0
    /\ retryIn' \in 1..RetryMax
    /\ UNCHANGED <<server, flying, client, quiet, threads, asks, history, faults>>

\* _drain: an event is handled, a reply nobody waits for dropped.
Drain(d) ==
    /\ pc[Reader] = "drain"
    /\ Take(d)
    /\ IF d.type = "event" THEN HandleMessage(d) ELSE UNCHANGED <<unacked, acked, seen, events>>
    /\ UNCHANGED <<session, pushed, first, connected, seq, outbox, parts, retryIn, threads, asks,
                   handed, latest, overlap, faults>>

\* The socket fails: read_lines returns nothing, and keeps what it has.
DrainFails ==
    /\ pc[Reader] = "drain"
    /\ faults < MaxFaults
    /\ faults' = faults + 1
    /\ Lost
    /\ pc' = [pc EXCEPT ![Reader] = "idle"]
    /\ UNCHANGED <<seq, seen, events, parts, quiet, asking, copy, asks, history>>

\* Mutant: the bot waits for a goodbye.
SilentNever == FALSE

SilentTooLong == quiet > DeadAfter

\* The chat that may go out now, and a keepalive if one is due; then the silence.
Housekeep ==
    /\ pc[Reader] = "drain"
    /\ \E say \in {n \in {0, 1} : n <= Len(outbox)}, keepalive \in IF quiet > 0 THEN {0, 1} ELSE {0} :
          /\ Number(say + keepalive)
          /\ latest' = Latest(SubSeq(outbox, 1, say))
          /\ outbox' = SubSeq(outbox, say + 1, Len(outbox))
    /\ pc' = [pc EXCEPT ![Reader] = IF SilentTooLong THEN "silent" ELSE "collect"]
    /\ UNCHANGED <<server, connected, seen, events, parts, quiet, retryIn, asking, copy, asks,
                   handed, acked, overlap, faults>>

\* _still_there asks the server something.
StillThere ==
    /\ pc[Reader] = "silent"
    /\ pc' = [pc EXCEPT ![Reader] = "probe"]
    /\ Send(Reader, Probe)
    /\ UNCHANGED asks

\* lines, self._events = list(self._events), deque(), which is two steps.
Collect ==
    /\ pc[Reader] = "collect"
    /\ copy' = events
    /\ pc' = [pc EXCEPT ![Reader] = "return"]
    /\ UNCHANGED <<server, flying, client, quiet, retryIn, asking, asks, history, faults>>

Return ==
    /\ pc[Reader] = "return"
    /\ events' = <<>>
    /\ handed' = handed \cup {copy[i] : i \in DOMAIN copy}
    /\ copy' = <<>>
    /\ pc' = [pc EXCEPT ![Reader] = "idle"]
    /\ UNCHANGED <<server, flying, connected, seq, seen, outbox, parts, quiet, retryIn, asking, asks,
                   acked, latest, overlap, faults>>

Reading ==
    \/ ReadLines \/ Login \/ LoginFails \/ DrainFails \/ Housekeep \/ StillThere
    \/ Collect \/ Return
    \/ \E d \in flying : Drain(d)

Awaiting(t) == TimesOut(t) \/ \E d \in flying : MeetEvent(t, d) \/ MeetReply(t, d)

Network == Push \/ Restart \/ \E n \in unacked : PushAgain(n)

Next ==
    \/ Network \/ Tick \/ Reading
    \/ \E t \in Askers : Command(t) \/ Write(t)
    \/ \E t \in Threads : Awaiting(t)

Spec == Init /\ [][Next]_vars

\* The reader's thread keeps running, the clock too, and of the logins tried again and
\* again one is answered.
FairSpec ==
    /\ Spec
    /\ WF_vars(Tick) /\ WF_vars(Reading \/ Awaiting(Reader)) /\ SF_vars(Login)

-----------------------------------------------------------------------------
Asks == 0..MaxAsks
Pushed == 1..MaxEvents

TypeOK ==
    /\ session \in BOOLEAN /\ connected \in BOOLEAN /\ overlap \in BOOLEAN
    /\ pushed \in 0..MaxEvents /\ first \in 0..pushed
    /\ unacked \subseteq Pushed /\ acked \subseteq Pushed
    /\ seq \in 0..(Wrap - 1)
    /\ seen \in Seq(0..(Wrap - 1)) /\ Len(seen) <= Window
    /\ events \in Seq(Pushed) /\ copy \in Seq(Pushed) /\ handed \subseteq Pushed
    /\ outbox \in Seq(Asks) /\ latest \in Asks
    /\ DOMAIN parts \subseteq 1..2
    /\ quiet \in 0..(DeadAfter + 1) /\ retryIn \in 0..RetryMax
    /\ pc \in [Threads -> {"idle", "await", "drain", "silent", "probe", "collect", "return"}]
    /\ asking \in [Threads -> [ask : Asks, seq : -1..(Wrap - 1)]]
    /\ asks \in Asks /\ faults \in 0..MaxFaults

\* "Acting on it twice would run a chat command twice" (battleye.py:496-497): an
\* event is handed to the bot once, however often the server sends it and whichever
\* thread meets it, and through lost connections.
HandedOnce == \A i \in DOMAIN events :
    events[i] \notin handed /\ \A j \in DOMAIN events : i # j => events[i] # events[j]

\* "Server messages that arrive while waiting are queued rather than dropped"
\* (battleye.py:349): an event the server was told not to send again has been
\* handed over or will be - while the threads take turns.
AckedIsKept ==
    ~overlap => \A n \in acked : n \in handed \/ \E i \in DOMAIN events : events[i] = n

\* Each event the server pushes reaches the bot, and no more than once.
EachEventOnce == HandedOnce /\ AckedIsKept

\* "keeps it from being handed to the *next* caller as their answer"
\* (battleye.py:488-489): a reply is whole and answers the command it is returned
\* for, through late and split replies - while the threads take turns.
OwnReply ==
    ~overlap => \A t \in Threads, d \in flying :
        Awaits(t) /\ d.type = "reply" /\ IsMine(t, d) /\ Complete(d)
            => Answers(d) = {asking[t].ask}

\* "a 'banning Bob' announcement cannot arrive after the ban it describes"
\* (battleye.py:350-351): chat and commands go out in the order they were asked for.
SentInOrder == \A i \in DOMAIN outbox : latest < outbox[i]

\* "a server that restarts - a mission change, a nightly cron - simply stops
\* answering" (battleye.py:273-274): the bot finds out and logs in again.
ComesBackUp == ~session ~> session
=============================================================================
