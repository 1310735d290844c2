------------------------------- MODULE Jumper -------------------------------
(****************************************************************************)
(* Timed runs on a jump server, plugins/jumper, and the demos the server       *)
(* records of them at the word of plugins/urtserversidedemo.                   *)
(*                                                                          *)
(* The bot reads the server's log some lines late, and asks the server of now:  *)
(* who started a run may have left the team when the demo is asked for.  What it *)
(* asks may not arrive, and the answer may be lost, or not be understood; a demo *)
(* may be where the bot cannot delete it.  It deletes a demo before it writes the *)
(* record that is to take its place, and can be killed, or the row refused, in    *)
(* between.  A map stands for itself and its one way.  The demos of runs are told  *)
(* apart, those an admin asked for are not.  An answer that comes is that of the   *)
(* question.  The clock is left out: what is due at some time may happen at any.   *)
(****************************************************************************)
EXTENDS Integers, Sequences

CONSTANTS
    Players,
    Times,
    Files,      \* bound: the demos of runs there can be at once
    Maps, Stock, \* STANDARD_MAPS
    MaxCycles,
    MaxBehind,  \* bound: the lines of the log the bot has not read
    MaxOrders,  \* bound: what admins do
    Fates       \* bound: the ways one step may go; each is the set of what fails in it

VARIABLES
    server,   \* each player's team, and the demo it records of each; the map
    disk,     \* the demos of runs that are on disk
    lines,    \* of the log, not read
    orders,
    demos,    \* urtserversidedemo: on, recording, waiting, recording_all
    jumper,   \* on, runs, the map, _cycles
    records,  \* jumper_runs
    writing,  \* the row that is to be written, when the demo of the one before is deleted
    \* History: the demos of runs that the bot does not know of, or could not delete; who is
    \* recorded though a stop was sent; the rows that were to be written, and were not.
    lost, stray, cut

jumperVars ==
    <<server, disk, lines, orders, demos, jumper, records, writing, lost, stray, cut>>

None == "none"
Other == "other"   \* a demo that is not of a run
All == "all"

NoRun == [map |-> None, demo |-> None]
NoRecord == [time |-> 0, demo |-> None]

TypeOK ==
    /\ server.team \in [Players -> {"away", "spec", "play"}]
    /\ server.taping \in [Players -> Files \cup {None, Other}] /\ server.map \in Maps
    /\ disk \subseteq Files /\ lost \subseteq Files
    /\ Len(lines) <= MaxBehind /\ orders \in 0..MaxOrders
    /\ demos.on \in BOOLEAN /\ demos.everyone \in BOOLEAN
    /\ demos.recording \in [Players -> Files \cup {None, Other}]
    /\ demos.timed \subseteq Players /\ demos.waiting \subseteq Players
    /\ jumper.on \in BOOLEAN /\ jumper.cycles \in 0..MaxCycles
    /\ jumper.runs \in [Players -> [map : Maps \cup {None}, demo : Files \cup {None}]]
    /\ records \in [Players \X Maps -> [time : Times \cup {0}, demo : Files \cup {None}]]
    /\ \A x \in writing : x.key \in DOMAIN records /\ x.to.time \in Times \cup {0}
    /\ stray \subseteq Players /\ cut \subseteq DOMAIN records

Init ==
    /\ \E m \in Maps :
          /\ server = [team |-> [p \in Players |-> "spec"],
                       taping |-> [p \in Players |-> None], map |-> m]
          /\ jumper = [on |-> TRUE, runs |-> [p \in Players |-> NoRun], map |-> m, cycles |-> 0]
    /\ demos = [on |-> TRUE, recording |-> [p \in Players |-> None], timed |-> {},
                waiting |-> {}, everyone |-> FALSE]
    /\ disk = {} /\ lines = <<>> /\ orders = 0
    /\ writing = {} /\ lost = {} /\ stray = {} /\ cut = {}
    /\ records = [k \in Players \X Maps |-> NoRecord]

-----------------------------------------------------------------------------
(* The server.  A line is a word, a player or a map, and a time.                 *)

Written(word, who, time) ==
    Len(lines) < MaxBehind /\ lines' = Append(lines, <<word, who, time>>)

Plays(p) == server.team[p] = "play"

Team(p, from, to, word) ==
    /\ server.team[p] = from /\ server' = [server EXCEPT !.team[p] = to]
    /\ Written(word, p, 0)

\* The server stops recording who leaves.
Leaves(p) ==
    /\ server.team[p] # "away"
    /\ server' = [server EXCEPT !.team[p] = "away", !.taping[p] = None]
    /\ Written("gone", p, 0)

Comes(p) ==
    /\ server.team[p] = "away" /\ lines = <<>>
    /\ server' = [server EXCEPT !.team[p] = "spec"] /\ UNCHANGED lines

Jumps(p) ==
    /\ Plays(p) /\ UNCHANGED server
    /\ \/ \E word \in {"start", "cancel"} : Written(word, p, 0)
       \/ \E t \in Times \cup {0} : Written("stop", p, t)

\* The demos may end with the map, or not.
MapStarts(m) ==
    /\ \E kept \in {server.taping, [p \in Players |-> None]} :
          server' = [server EXCEPT !.map = m, !.taping = kept]
    /\ Written("map", m, 0)

ServerStep ==
    /\ \/ \E p \in Players :
             \/ Team(p, "spec", "play", "join") \/ Team(p, "play", "spec", "spec")
             \/ Leaves(p) \/ Comes(p) \/ Jumps(p)
       \/ \E m \in Maps : MapStarts(m)
    /\ stray' = {p \in stray : server'.taping[p] # None}
    /\ UNCHANGED <<disk, orders, demos, jumper, records, writing, lost, cut>>

-----------------------------------------------------------------------------
(* The demos.  The state that one handler changes is a record: the server's demos, *)
(* the disk, and the two plugins; and what fails while it runs.                  *)

World(fate) ==
    [taping |-> server.taping, disk |-> disk, d |-> demos, j |-> jumper, r |-> records,
     writing |-> writing, lost |-> lost, stray |-> stray, fate |-> fate]

Become(w) ==
    /\ server' = [server EXCEPT !.taping = w.taping]
    /\ disk' = w.disk /\ demos' = w.d /\ jumper' = w.j /\ records' = w.r
    /\ writing' = w.writing /\ lost' = w.lost
    /\ stray' = {p \in w.stray : w.taping[p] # None}

Fails(w, what, who) == <<what, who>> \in w.fate

\* The server does not give a demo the name of one that there is, or was.
Named(w) == w.disk \cup {w.taping[p] : p \in Players} \cup {w.r[k].demo : k \in DOMAIN w.r}
NewFile(w) == CHOOSE f \in Files : f \notin Named(w)
HasRoom(w) == \E f \in Files : f \notin Named(w)

\* The server begins a demo.
Taped(w, p, file) ==
    [w EXCEPT !.taping[p] = file, !.disk = @ \cup ({file} \cap Files), !.stray = @ \ {p}]

Remembered(w, p, file, timed) ==
    [w EXCEPT !.d.recording[p] = file, !.d.waiting = @ \ {p},
              !.d.timed = IF timed THEN @ \cup {p} ELSE @ \ {p}]

\* record begins a demo, and is answered with its name.
Begins(w, p) == Plays(p) /\ w.taping[p] = None /\ ~Fails(w, "record", p)
Answered(w, p) == ~Fails(w, "record", p) /\ ~Fails(w, "reply", p)

\* record: who is not on a team is waited for, who is recorded is left alone.  A demo that
\* begins after the wait is no run's: the one that asked was answered without a file.  Of a
\* demo whose name does not come back, or is not found in what does, nothing is remembered.
Record(w, p, file, timed) ==
    IF Begins(w, p)
    THEN IF Answered(w, p) THEN Remembered(Taped(w, p, file), p, file, timed)
         ELSE [Taped(w, p, file) EXCEPT !.lost = @ \cup ({file} \cap Files)]
    ELSE IF server.team[p] = "spec" /\ Answered(w, p) THEN [w EXCEPT !.d.waiting = @ \cup {p}]
    ELSE w

\* stop: what is remembered is forgotten, whether the server hears of it or not.
Stop(w, p) ==
    [w EXCEPT !.d.waiting = @ \ {p}, !.d.recording[p] = None, !.d.timed = @ \ {p},
              !.taping[p] = IF Fails(w, "stop", p) THEN @ ELSE None, !.stray = @ \cup {p}]

\* record_all: the server records everyone on a team.
RecordAll(w) ==
    [w EXCEPT !.d.everyone = TRUE,
              !.taping = [p \in Players |->
                              IF w.taping[p] = None /\ Plays(p) /\ ~Fails(w, "record", All)
                              THEN Other ELSE w.taping[p]]]

StopAll(w) ==
    [w EXCEPT !.d.everyone = FALSE, !.d.recording = [p \in Players |-> None], !.d.timed = {},
              !.taping = [p \in Players |-> IF Fails(w, "stop", All) THEN w.taping[p] ELSE None],
              !.stray = Players]

\* on_join of urtserversidedemo, also for a change of team.
DemosOnJoin(w, p) ==
    IF ~w.d.on THEN w
    ELSE IF w.d.everyone /\ w.d.recording[p] = None THEN Record(w, p, Other, FALSE)
    ELSE IF p \in w.d.waiting THEN Record([w EXCEPT !.d.waiting = @ \ {p}], p, Other, FALSE)
    ELSE w

DemosOnDisconnect(w, p) ==
    IF ~w.d.on THEN w
    ELSE [w EXCEPT !.d.waiting = @ \ {p}, !.d.recording[p] = None, !.d.timed = @ \ {p}]

\* _run_pending: a recording has lasted, one who waits is tried again, or is given up.
DemosRunPending(p, fate) ==
    /\ writing = {} /\ demos.on
    /\ \/ p \in demos.timed /\ Become(Stop(World(fate), p))
       \/ /\ p \in demos.waiting
          /\ LET w == [World(fate) EXCEPT !.d.waiting = @ \ {p}] IN
             Become(w) \/ Become(Record(w, p, Other, FALSE))
    /\ UNCHANGED <<lines, orders, cut>>

-----------------------------------------------------------------------------
(* The runs.                                                                    *)

RunDemos == {jumper.runs[p].demo : p \in Players} \cap Files

\* A demo that nothing names any more.
Left(w, demo) == [w EXCEPT !.lost = @ \cup ({demo} \cap w.disk)]

\* _unlink: the demo may be where the bot does not find it, or it may not delete it.
Unlinked(w, p, demo) ==
    IF Fails(w, "unlink", p) THEN Left(w, demo)
    ELSE [w EXCEPT !.disk = @ \ {demo}, !.lost = @ \ {demo}]

\* A bug: whether there is a demo to stop is not asked of the run.
StopDemoNever(w, p) == w

\* _stop_demo, of a run with a demo.
StopDemo(w, p) ==
    IF w.d.on /\ w.j.runs[p].demo # None THEN Stop(w, p) ELSE w

Cancel(w, p) ==
    IF w.j.runs[p] = NoRun THEN w
    ELSE [Unlinked(StopDemo(w, p), p, w.j.runs[p].demo) EXCEPT !.j.runs[p] = NoRun]

\* _cancel of every run.
CancelAll(w) ==
    LET recorded == IF w.d.on THEN {p \in Players : w.j.runs[p].demo # None} ELSE {}
        kept == {p \in Players : Fails(w, "unlink", p)} IN
    [w EXCEPT !.disk = @ \ {w.j.runs[p].demo : p \in Players \ kept},
              !.lost = @ \cup ({w.j.runs[p].demo : p \in kept} \cap w.disk),
              !.taping = [p \in Players |-> IF p \in recorded /\ ~Fails(w, "stop", p) THEN None
                                                ELSE w.taping[p]],
              !.stray = @ \cup recorded,
              !.d.recording =
                  [p \in Players |-> IF p \in recorded THEN None ELSE w.d.recording[p]],
              !.d.waiting = @ \ recorded, !.d.timed = @ \ recorded,
              !.j.runs = [p \in Players |-> NoRun]]

\* A run is on, with the demo that was begun if its name came back.
Begun(w, p) ==
    LET file == NewFile(w)
        demo == IF w.d.on /\ Begins(w, p) /\ Answered(w, p) THEN file ELSE None IN
    [(IF w.d.on THEN Record(w, p, file, FALSE) ELSE w) EXCEPT
        !.j.runs[p] = [map |-> w.j.map, demo |-> demo]]

\* A bug: the demo of the run before is left.
OnRunStartAgain(w, p) == Begun(w, p)

\* on_run_start: the run before is over.
OnRunStart(w, p) == Begun(Cancel(w, p), p)

\* A bug: the last run is the record.
FinishLast(w, p, run, time) ==
    [Unlinked(w, p, w.r[<<p, run.map>>].demo) EXCEPT
        !.writing = {[key |-> <<p, run.map>>, to |-> [time |-> time, demo |-> run.demo]]}]

\* _finish: the best of a player on a way is kept, and its demo.  The demo of the one before is
\* deleted first, and then the row is written.  Where the row of before cannot be read, all is off.
Finish(w, p, run, time) ==
    LET best == w.r[<<p, run.map>>] IN
    IF Fails(w, "best", p) THEN Left(w, run.demo)
    ELSE IF best # NoRecord /\ time >= best.time THEN Unlinked(w, p, run.demo)
    ELSE [Unlinked(w, p, best.demo) EXCEPT
             !.writing = {[key |-> <<p, run.map>>, to |-> [time |-> time, demo |-> run.demo]]}]

\* on_run_stop: a run whose start was not seen is one on the map of now, without a demo.  One
\* without a time, or of a player who is not known yet, which is the same, is not for the record.
OnRunStop(w, p, time) ==
    LET run == IF w.j.runs[p] = NoRun THEN [map |-> w.j.map, demo |-> None] ELSE w.j.runs[p]
        over == [StopDemo(w, p) EXCEPT !.j.runs[p] = NoRun] IN
    IF time = 0 THEN Unlinked(over, p, run.demo) ELSE Finish(over, p, run, time)

\* on_disconnect: the server has stopped the demo.
OnDisconnect(w, p) == [Unlinked(w, p, w.j.runs[p].demo) EXCEPT !.j.runs[p] = NoRun]

\* _cycle_if_standard
Cycles(w, m) == m \in Stock /\ w.j.cycles < MaxCycles

\* on_map_start.  The runs of the map before are over.
OnMapStart(w) ==
    LET m == w.j.map
        over == CancelAll(w) IN
    IF Cycles(over, m) THEN [over EXCEPT !.j.cycles = @ + 1]
    ELSE [over EXCEPT !.j.cycles = 0]

\* What the jumper does at a line, when it is on.
JumperAt(w, word, who, time) ==
    IF ~w.j.on THEN w
    ELSE CASE word = "start" -> OnRunStart(w, who)
           [] word = "cancel" -> Cancel(w, who)
           [] word = "stop" -> OnRunStop(w, who, time)
           [] word = "spec" -> Cancel(w, who)
           [] word = "gone" -> OnDisconnect(w, who)
           [] word = "map" -> OnMapStart(w)
           [] OTHER -> w

\* A line is read: the demo plugin is told before the jumper, which loads after it.
Read(fate) ==
    /\ writing = {} /\ lines # <<>> /\ lines' = Tail(lines)
    /\ LET word == Head(lines)[1]
           who == Head(lines)[2]
           w == World(fate)
           told == CASE word \in {"join", "spec"} -> DemosOnJoin(w, who)
                     [] word = "gone" -> DemosOnDisconnect(w, who)
                     [] word = "map" -> [w EXCEPT !.j.map = who]
                     [] OTHER -> w IN
       /\ word = "start" => HasRoom(w)
       /\ Become(JumperAt(told, word, who, Head(lines)[3]))
    /\ UNCHANGED <<orders, cut>>

\* _store, and the delete of cmd_delrecord.
Write ==
    /\ \E x \in writing :
          /\ Become([World({}) EXCEPT !.r[x.key] = x.to, !.writing = {}]) /\ cut' = cut \ {x.key}
    /\ UNCHANGED <<lines, orders>>

\* What is left when a row is not written: a demo without a row, and a row without a demo.
Unwritten(w) ==
    [w EXCEPT !.writing = {}, !.lost = @ \cup ({x.to.demo : x \in writing} \cap Files)]
RowsCut == cut \cup {x.key : x \in writing}

WriteFails ==
    /\ writing # {} /\ Become(Unwritten(World({}))) /\ cut' = RowsCut
    /\ UNCHANGED <<lines, orders>>

-----------------------------------------------------------------------------
(* Admins.                                                                      *)

\* cmd_delrecord: the demo is deleted first, and then the row.
DelRecord(w, p, m) ==
    [Unlinked(w, p, w.r[<<p, m>>].demo) EXCEPT
        !.writing = {[key |-> <<p, m>>, to |-> NoRecord]}]

\* on_enable and on_disable of the two.
SwitchDemos(w) ==
    IF ~w.d.on THEN IF w.d.everyone THEN RecordAll([w EXCEPT !.d.on = TRUE])
                    ELSE [w EXCEPT !.d.on = TRUE]
    ELSE [StopAll(w) EXCEPT !.d.on = FALSE, !.d.waiting = {}, !.d.everyone = w.d.everyone]

SwitchJumper(w) ==
    IF w.j.on THEN [CancelAll(w) EXCEPT !.j.on = FALSE]
    ELSE [w EXCEPT !.j.on = TRUE,
                   !.j.cycles = IF Cycles(w, w.j.map) THEN @ + 1 ELSE @]

Admin(fate) ==
    /\ writing = {} /\ orders < MaxOrders /\ orders' = orders + 1
    /\ LET w == World(fate) IN
       \/ /\ demos.on
          /\ \/ \E p \in Players :
                   \/ \E timed \in BOOLEAN : Become(Record(w, p, Other, timed))
                   \/ Become(Stop(w, p))
             \/ Become(RecordAll(w)) \/ Become(StopAll(w))
       \/ jumper.on /\ \E p \in Players, m \in Maps :
             records[<<p, m>>] # NoRecord /\ Become(DelRecord(w, p, m))
       \/ Become(SwitchDemos(w)) \/ Become(SwitchJumper(w))
    /\ UNCHANGED <<lines, cut>>

\* The bot is killed, or stopped, and started again: what was in memory is gone, also the row
\* that was to be written; on_startup of the two.
Restart(fate) ==
    /\ orders < MaxOrders /\ orders' = orders + 1
    /\ lines' = <<>>
    /\ Become([StopAll(Unwritten(World(fate))) EXCEPT
          !.lost = @ \cup RunDemos,
          !.d = [on |-> TRUE, recording |-> [p \in Players |-> None], timed |-> {},
                 waiting |-> {}, everyone |-> FALSE],
          !.j = [on |-> TRUE, runs |-> [p \in Players |-> NoRun], map |-> server.map,
                 cycles |-> 0]])
    /\ cut' = RowsCut

Next ==
    \/ ServerStep \/ Write \/ WriteFails
    \/ \E fate \in Fates :
          Read(fate) \/ Admin(fate) \/ Restart(fate) \/ \E p \in Players : DemosRunPending(p, fate)

Spec == Init /\ [][Next]_jumperVars

-----------------------------------------------------------------------------
Kept == {k \in DOMAIN records : records[k].demo \in Files}
Standing == Kept \ (cut \cup {x.key : x \in writing})

\* Of the demos of runs that the bot knows of, and could delete, those are on disk that belong to
\* a run that is on, or to a record that stands, or is about to, whatever became of the others'
\* runs, their players, the map and the plugins; no two records share one; and the demo of a record
\* is whole: the server is through with it, and records no run that is over, but where the stop
\* that it was sent did not arrive.  A record does not stand whose demo was deleted for a row that
\* was then not written.
DemosAreKept ==
    /\ disk \ lost = RunDemos \cup ({x.to.demo : x \in writing} \cap Files)
                               \cup {records[k].demo : k \in Standing}
    /\ \A k, l \in Kept : records[k].demo = records[l].demo => k = l
    /\ \A p \in Players : server.taping[p] \in Files =>
          server.taping[p] = jumper.runs[p].demo \/ server.taping[p] \in lost \/ p \in stray

\* A record is of a time, and gives way to a better one, or to an admin's word.
RecordsImprove ==
    \A k \in DOMAIN records :
        LET taken == [key |-> k, to |-> NoRecord] IN
        /\ \/ records'[k] = records[k]
           \/ records[k] = NoRecord /\ records'[k].time \in Times
           \/ records'[k] = NoRecord /\ taken \in writing
           \/ records'[k].time \in 1..(records[k].time - 1)
        /\ taken \in writing' /\ taken \notin writing => orders' # orders

=============================================================================
