------------------------------ MODULE Streams ------------------------------
(****************************************************************************)
(* Servers that say what happens over the connection that also carries the     *)
(* commands (net/frostbite.py, homefront.py, frontline.py, ravaged.py).  The    *)
(* bot reads it from the run loop, and sends commands between two reads; two    *)
(* of the four wait for the reply, and events come before it and after it.      *)
(* The server hangs up, restarts, changes its password and answers late.        *)
(*                                                                            *)
(* An event is numbered with the connection it came on; number 0 is the notice  *)
(* of a reconnection that two of the clients hand to their parser.  The chat    *)
(* Frostbite queues is sent as a command is.  A chunk of the stream is cut      *)
(* between two messages.                                                       *)
(****************************************************************************)
EXTENDS Integers, Sequences, Functions

CONSTANTS
    Games,
    RetryInterval, RetryMax,
    MaxEvents,    \* how many events there are: the bound
    MaxAsks,      \* how many commands wait for a reply: the bound
    MaxFaults     \* how often the server hangs up, stops or changes its password: the bound

VARIABLES
    game,
    up,        \* the server accepts connections
    right,     \* the password is the server's
    open,      \* the server has not hung up
    wire,      \* what it has sent and the client has not read
    owed,      \* the commands it may still answer
    conn,      \* the number of the connection
    made,      \* the events there have been
    connected, \* the client: the connection is up, for all it knows
    kept,      \* Frostbite's _events, Ravaged's _pending
    out,       \* what a read that is under way will hand over
    pc,        \* what the client waits for
    asked,     \* the last command it has sent
    delay,     \* how long it waits after the next failure
    retryIn,   \* how long until _retry_at
    ended,     \* the run loop has stopped on an exception
    heard,     \* history: the events taken off the connection
    handed,    \* history: what read_lines has returned
    answer,    \* history: the reply a command was last given, and to what it was
    refused,   \* history: how long ago a login was last refused
    faults

server == <<game, up, right, open, wire, owed, conn, made, faults>>
retries == <<delay, retryIn, refused>>
client == <<connected, kept, out, pc, asked, ended>>
told == <<heard, handed, answer>>
stVars == <<server, retries, client, told>>

Event(n) == [type |-> "event", id |-> n, word |-> "none"]
Reply(n, w) == [type |-> "reply", id |-> n, word |-> w]
IsEvent(m) == m.type = "event"
EventsIn(s) ==
    LET upTo[i \in 0..Len(s)] ==
            IF i = 0 THEN <<>>
            ELSE IF IsEvent(s[i]) THEN Append(upTo[i - 1], <<conn, s[i].id>>) ELSE upTo[i - 1]
    IN upTo[Len(s)]
From(i, s) == SubSeq(s, i, Len(s))

\* The commands: what a plugin asks for, and what read_lines asks for itself.
Word(purpose) == IF purpose = "command" THEN "kick" ELSE "list"
Waiting == {"command", "upkeep", "probe", "refresh"}

Init ==
    /\ game \in Games
    /\ up = TRUE /\ right = TRUE /\ open = TRUE
    /\ wire = <<>> /\ owed = {} /\ conn = 1 /\ made = 0
    /\ connected = TRUE /\ kept = <<>> /\ out = <<>> /\ pc = "idle" /\ asked = 0
    /\ delay = RetryInterval /\ retryIn = 0 /\ refused = RetryMax /\ ended = FALSE
    /\ heard = <<>> /\ handed = <<>> /\ answer = <<0, 0, "none", "none">>
    /\ faults = 0

-----------------------------------------------------------------------------
(* The server.                                                              *)

Happens ==
    /\ open /\ made < MaxEvents
    /\ made' = made + 1
    /\ wire' = Append(wire, Event(made + 1))
    /\ UNCHANGED <<game, up, right, open, owed, conn, faults, retries, client, told>>

\* A command is answered, perhaps when nobody waits any more.  Ravaged may refuse it.
Answers ==
    /\ open
    /\ \E c \in owed :
          /\ owed' = owed \ {c}
          /\ wire' \in {Append(wire, Reply(c[1], w)) :
                           w \in {c[2]} \cup IF game = "ravaged" THEN {"refused"} ELSE {}}
    /\ UNCHANGED <<game, up, right, open, conn, made, faults, retries, client, told>>

Fault == faults < MaxFaults /\ faults' = faults + 1

\* The connection goes, and with it, perhaps, what was under way.
HangsUp ==
    /\ open /\ Fault
    /\ open' = FALSE /\ owed' = {}
    /\ wire' \in {wire, <<>>}
    /\ UNCHANGED <<game, up, right, conn, made, retries, client, told>>

StopsOrStarts ==
    /\ Fault
    /\ up' = ~up
    /\ open' = (open /\ up') /\ owed' = IF open' THEN owed ELSE {}
    /\ UNCHANGED <<game, right, wire, conn, made, retries, client, told>>

ChangesPassword ==
    /\ Fault
    /\ right' = ~right
    /\ UNCHANGED <<game, up, open, wire, owed, conn, made, retries, client, told>>

Tick ==
    /\ retryIn > 0
    /\ retryIn' = retryIn - 1
    /\ refused' = IF refused < RetryMax THEN refused + 1 ELSE refused
    /\ UNCHANGED <<server, delay, client, told>>

-----------------------------------------------------------------------------
(* Connecting again.                                                        *)

Longer == IF 2 * delay < RetryMax THEN 2 * delay ELSE RetryMax

\* Closing what there is of a connection.
Closed == open' = FALSE /\ wire' = <<>> /\ owed' = {}

\* Mutant: a wrong password is tried again as any failure is.
RefusedSoon ==
    /\ up /\ ~right
    /\ retryIn' = delay /\ delay' = Longer
    /\ refused' = 0
    /\ Closed
    /\ UNCHANGED <<connected, conn, ended, handed>>

\* open: the password is refused, and not tried again for the longest time there is.
Refused ==
    /\ up /\ ~right
    /\ retryIn' = RetryMax /\ delay' = RetryMax
    /\ refused' = 0
    /\ Closed
    /\ UNCHANGED <<connected, conn, ended, handed>>

\* open: nobody answers.
Unreachable ==
    /\ ~up
    /\ retryIn' = delay /\ delay' = Longer
    /\ Closed
    /\ UNCHANGED <<refused, connected, conn, ended, handed>>

\* open: logged in, and the parser told so.
LoggedIn ==
    /\ up /\ right
    /\ open' = TRUE /\ wire' = <<>> /\ owed' = {} /\ conn' = conn + 1
    /\ connected' = TRUE
    /\ delay' = RetryInterval
    /\ retryIn' = IF game = "frontline" THEN delay ELSE 0
    /\ handed' = IF game = "frostbite" THEN handed ELSE Append(handed, <<conn + 1, 0>>)
    /\ UNCHANGED <<refused, ended>>

\* The server hangs up at once on what a client sends first: Homefront raises out of
\* read_lines, and the other two try again later.
LoggedInAndLost ==
    /\ up /\ right /\ game # "frostbite"
    /\ Closed /\ conn' = conn + 1
    /\ IF game = "homefront"
       THEN ended' = TRUE /\ retryIn' = 0 /\ delay' = RetryInterval
       ELSE ended' = ended /\ retryIn' = delay
            /\ delay' = IF 2 * RetryInterval < RetryMax THEN 2 * RetryInterval ELSE RetryMax
    /\ UNCHANGED <<connected, refused, handed>>

Tries ==
    /\ \/ Refused /\ UNCHANGED faults
       \/ Unreachable /\ UNCHANGED faults
       \/ LoggedIn /\ UNCHANGED faults
       \/ LoggedInAndLost /\ Fault
    /\ UNCHANGED <<game, up, right, made, kept, out, pc, asked, heard, answer>>

\* Mutant: after the longest wait nobody tries any more.
ReconnectUnlessLongest ==
    /\ ~connected /\ pc = "idle" /\ ~ended /\ retryIn = 0 /\ game # "ravaged"
    /\ delay < RetryMax
    /\ Tries

\* _try_reconnect, in a read that finds no connection.
Reconnect ==
    /\ ~connected /\ pc = "idle" /\ ~ended /\ retryIn = 0 /\ game # "ravaged"
    /\ Tries

-----------------------------------------------------------------------------
(* Commands.                                                                *)

\* A command goes out; to a server that has hung up it may fail to.
Sent(purpose) ==
    /\ asked < MaxAsks
    /\ asked' = asked + 1
    /\ pc' = purpose
    /\ owed' = IF open THEN owed \cup {<<asked + 1, Word(purpose)>>} ELSE owed

Command ==
    /\ connected /\ pc = "idle" /\ ~ended /\ game \in {"frostbite", "ravaged"}
    /\ Sent("command")
    /\ UNCHANGED <<game, up, right, open, wire, conn, made, faults, retries, connected, kept,
                   out, ended, told>>

\* Whatever is sent fails: the clients that keep a flag take note.
SendFails ==
    /\ connected /\ pc = "idle" /\ ~ended /\ ~open /\ game # "frostbite"
    /\ connected' = FALSE
    /\ UNCHANGED <<server, retries, kept, out, pc, asked, ended, told>>

-----------------------------------------------------------------------------
(* Frostbite.                                                               *)

\* _lost
Lost ==
    /\ connected' = FALSE
    /\ Closed
    /\ retryIn' = delay /\ delay' = Longer
    /\ UNCHANGED refused

FbHandOver(events) == handed' = handed \o events /\ kept' = <<>> /\ pc' = "idle"

\* read_lines: all that has come is read and acknowledged.
FbRead ==
    /\ game = "frostbite" /\ pc = "idle" /\ connected /\ open
    /\ heard' = heard \o EventsIn(wire)
    /\ wire' = <<>>
    /\ \/ /\ FbHandOver(kept \o EventsIn(wire))
          /\ UNCHANGED <<owed, asked>>
       \/ /\ \E purpose \in {"upkeep", "probe"} : Sent(purpose)
          /\ kept' = kept \o EventsIn(wire)
          /\ UNCHANGED handed
    /\ UNCHANGED <<game, up, right, open, conn, made, faults, retries, connected, out, ended,
                   answer>>

\* The server has hung up: an event that can no longer be acknowledged is left.
FbReadLost ==
    /\ game = "frostbite" /\ pc = "idle" /\ connected /\ ~open
    /\ \E n \in 0..Len(wire) :
          /\ heard' = heard \o EventsIn(SubSeq(wire, 1, n))
          /\ kept' = kept \o EventsIn(SubSeq(wire, 1, n))
    /\ Lost
    /\ UNCHANGED <<game, up, right, conn, made, faults, out, pc, asked, ended, handed, answer>>

\* Mutant: the sequence of a reply is not looked at.
FbMineAny(m) == m.type = "reply"

FbMine(m) == m.type = "reply" /\ m.id = asked

\* Mutant: events that come while a reply is awaited are dropped.
FbReceiveReplyOnly ==
    /\ game = "frostbite" /\ pc \in Waiting /\ wire # <<>>
    /\ LET m == Head(wire)
       IN  /\ heard' = IF IsEvent(m) THEN heard \o EventsIn(<<m>>) ELSE heard
           /\ IF FbMine(m)
              THEN /\ answer' = <<asked, m.id, Word(pc), m.word>>
                   /\ IF pc = "command" THEN pc' = "idle" /\ UNCHANGED <<kept, handed>>
                      ELSE FbHandOver(kept)
              ELSE UNCHANGED <<kept, handed, answer, pc>>
    /\ wire' = Tail(wire)
    /\ UNCHANGED <<game, up, right, open, owed, conn, made, faults, retries, connected, out,
                   asked, ended>>

\* _command_words: the next packet.
FbReceive ==
    /\ game = "frostbite" /\ pc \in Waiting /\ wire # <<>>
    /\ LET m == Head(wire)
       IN  /\ heard' = IF IsEvent(m) THEN heard \o EventsIn(<<m>>) ELSE heard
           /\ IF FbMine(m)
              THEN /\ answer' = <<asked, m.id, Word(pc), m.word>>
                   /\ IF pc = "command" THEN pc' = "idle" /\ UNCHANGED <<kept, handed>>
                      ELSE FbHandOver(kept)
              ELSE /\ kept' = IF IsEvent(m) THEN kept \o EventsIn(<<m>>) ELSE kept
                   /\ UNCHANGED <<handed, answer, pc>>
    /\ wire' = Tail(wire)
    /\ UNCHANGED <<game, up, right, open, owed, conn, made, faults, retries, connected, out,
                   asked, ended>>

\* No reply comes, or an acknowledgement fails.  A plugin's command raises, and the next read
\* finds out why; one of read_lines' own costs the connection.
FbGiveUp ==
    /\ game = "frostbite" /\ pc \in Waiting /\ (wire = <<>> \/ ~open)
    /\ IF pc = "command"
       THEN pc' = "idle" /\ UNCHANGED <<open, wire, owed, connected, retries, kept, handed>>
       ELSE /\ Lost
            /\ IF pc = "probe" THEN FbHandOver(kept) ELSE pc' = "idle" /\ UNCHANGED <<kept, handed>>
    /\ UNCHANGED <<game, up, right, conn, made, faults, out, asked, ended, heard, answer>>

-----------------------------------------------------------------------------
(* Homefront and Frontline, where nothing waits for a reply.                *)

\* read_lines: all there is of Homefront's, a chunk of Frontline's, with the loss it may find.
Read ==
    /\ game \in {"homefront", "frontline"} /\ pc = "idle" /\ connected /\ ~ended
    /\ \E n \in IF game = "homefront" \/ wire = <<>> THEN {Len(wire)} ELSE 1..Len(wire) :
          /\ heard' = heard \o EventsIn(SubSeq(wire, 1, n))
          /\ handed' = handed \o EventsIn(SubSeq(wire, 1, n))
          /\ wire' = From(n + 1, wire)
    /\ connected' = (open \/ (game = "frontline" /\ wire # <<>>))
    /\ UNCHANGED <<game, up, right, open, owed, conn, made, faults, retries, kept, out, pc,
                   asked, ended, answer>>

\* The ping of a read fails: Frontline takes the connection for lost, and Homefront raises,
\* which ends the run loop.
PingFails ==
    /\ game \in {"homefront", "frontline"} /\ pc = "idle" /\ connected /\ ~ended /\ ~open
    /\ connected' = FALSE
    /\ ended' = (game = "homefront")
    /\ IF ended' THEN UNCHANGED <<handed, heard, wire>>
       ELSE \E n \in 0..Len(wire) :
               /\ heard' = heard \o EventsIn(SubSeq(wire, 1, n))
               /\ handed' = handed \o EventsIn(SubSeq(wire, 1, n))
               /\ wire' = From(n + 1, wire)
    /\ UNCHANGED <<game, up, right, open, owed, conn, made, faults, retries, kept, out, pc,
                   asked, answer>>

-----------------------------------------------------------------------------
(* Ravaged, which never connects again.                                     *)

\* read_lines without a connection hands over what is kept.
RvReadLost ==
    /\ game = "ravaged" /\ pc = "idle" /\ ~connected
    /\ handed' = handed \o kept /\ kept' = <<>>
    /\ UNCHANGED <<server, retries, connected, out, pc, asked, ended, heard, answer>>

\* read_lines takes what is kept, and now and then asks who is playing.
RvRead ==
    /\ game = "ravaged" /\ pc = "idle" /\ connected
    /\ out' = kept /\ kept' = <<>>
    /\ \/ Sent("refresh")
       \/ pc' = "pump" /\ UNCHANGED <<owed, asked>>
    /\ UNCHANGED <<game, up, right, open, wire, conn, made, faults, retries, connected, ended,
                   told>>

\* What ends the wait for a reply: the reply, by the command's name, or a refusal.
RvEnds(m) == m.type = "reply" /\ m.word \in {Word(pc), "refused"}

\* The wait is over; what a read has kept meanwhile goes before what it reads next.
RvOver(more) ==
    IF pc = "refresh"
    THEN out' = out \o kept \o more /\ kept' = <<>> /\ pc' = "pump"
    ELSE kept' = kept \o more /\ pc' = "idle" /\ UNCHANGED out

\* command: a chunk.  What follows the reply in it is dropped; what a refused read has kept
\* waits for the next one.
RvReceive ==
    /\ game = "ravaged" /\ pc \in Waiting /\ wire # <<>>
    /\ \E n \in 1..Len(wire) :
         LET chunk == SubSeq(wire, 1, n)
             ends == {i \in 1..n : RvEnds(chunk[i])}
             end == CHOOSE i \in ends : \A j \in ends : i <= j
         IN  /\ wire' = From(n + 1, wire)
             /\ heard' = heard \o EventsIn(chunk)
             /\ IF ends = {}
                THEN kept' = kept \o EventsIn(chunk) /\ UNCHANGED <<out, pc, answer>>
                ELSE IF chunk[end].word = "refused"
                THEN /\ kept' = kept \o EventsIn(SubSeq(chunk, 1, end))
                     /\ pc' = IF pc = "refresh" THEN "pump" ELSE "idle"
                     /\ UNCHANGED <<out, answer>>
                ELSE /\ RvOver(EventsIn(SubSeq(chunk, 1, end)))
                     /\ answer' = <<asked, chunk[end].id, Word(pc), chunk[end].word>>
    /\ UNCHANGED <<game, up, right, open, owed, conn, made, faults, retries, connected, asked,
                   ended, handed>>

\* No reply in time.
RvGiveUp ==
    /\ game = "ravaged" /\ pc \in Waiting /\ wire = <<>>
    /\ connected' = open
    /\ RvOver(<<>>)
    /\ UNCHANGED <<server, retries, asked, ended, told>>

\* The rest of read_lines: another chunk, of which the replies are left out.
RvPump ==
    /\ pc = "pump"
    /\ \E n \in IF wire = <<>> THEN {0} ELSE 1..Len(wire) :
          /\ heard' = heard \o EventsIn(SubSeq(wire, 1, n))
          /\ handed' = handed \o out \o EventsIn(SubSeq(wire, 1, n))
          /\ wire' = From(n + 1, wire)
    /\ connected' = (connected /\ (open \/ wire # <<>>))
    /\ out' = <<>> /\ pc' = "idle"
    /\ UNCHANGED <<game, up, right, open, owed, conn, made, faults, retries, kept, asked, ended,
                   answer>>

-----------------------------------------------------------------------------
Serves == Happens \/ Answers \/ HangsUp \/ StopsOrStarts \/ ChangesPassword

Reads ==
    \/ Reconnect
    \/ FbRead \/ FbReadLost \/ FbReceive \/ FbGiveUp
    \/ Read \/ PingFails
    \/ RvReadLost \/ RvRead \/ RvReceive \/ RvGiveUp \/ RvPump

Next == Serves \/ Tick \/ Command \/ SendFails \/ Reads

-----------------------------------------------------------------------------
Sequenced(s) ==
    \A i, j \in DOMAIN s : i < j => s[i][1] < s[j][1] \/ (s[i][1] = s[j][1] /\ s[i][2] < s[j][2])

TypeOK ==
    /\ game \in Games /\ pc \in Waiting \cup {"idle", "pump"}
    /\ made \in 0..MaxEvents /\ asked \in 0..MaxAsks /\ faults \in 0..MaxFaults
    /\ delay \in RetryInterval..RetryMax /\ retryIn \in 0..RetryMax /\ refused \in 0..RetryMax
    /\ open => up
    /\ ~open => owed = {}
    /\ pc # "idle" => ~ended

IsReal(e) == e[2] # 0

\* What was taken off the connection is on its way to the bot, all of it, and nothing else but
\* the notices is.
NothingLost == {e \in Range(handed \o out \o kept) : IsReal(e)} = Range(heard)

\* Every event that was read is handed over once and in order, whatever was asked in between and
\* however often the connection went, and the notice of a reconnection lies between those of the
\* connection before and those of the new one. (net/frostbite.py:361-375, 562-583,
\* net/homefront.py:222-254, net/frontline.py:250-272)
EventsInOrder ==
    game # "ravaged" => NothingLost /\ Sequenced(handed \o out \o kept)

\* "wait for its reply, keeping any events that arrive meanwhile" (net/ravaged.py:364)
KeptMeanwhile == game = "ravaged" => NothingLost

\* A late reply is not taken for the reply to another command: Frostbite goes by the sequence
\* and Ravaged by the name. (net/frostbite.py:575, net/ravaged.py:386-390)
OwnReply ==
    IF game = "frostbite" THEN answer[1] = answer[2] ELSE answer[3] = answer[4]

\* A password that was refused is not tried again before the longest wait is over.
\* (net/frostbite.py:691-699, net/homefront.py:267-275, net/frontline.py:302-307)
NotHammered == Reconnect /\ up /\ ~right => refused = RetryMax

\* When the server is there to stay, so is the connection, or the run loop has ended.
\* (net/frostbite.py:686-707, net/homefront.py:256-288, net/frontline.py:288-315)
ComesBack == <>[](up /\ right) => []<>(game = "ravaged" \/ ended \/ connected)
=============================================================================
