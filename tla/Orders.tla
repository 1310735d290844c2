-------------------------------- MODULE Orders --------------------------------
(****************************************************************************)
(* What admins have the server do, on Battlefield 3, Bad Company 2, Medal of  *)
(* Honor, Homefront and Black Ops (plugins/poweradminbf3, poweradminbfbc2,     *)
(* poweradminmoh, poweradminhf, poweradmincod7; !map in net/frostbite.py).     *)
(*                                                                          *)
(* An order that is announced is carried out a moment later, by a pass of      *)
(* every second that also sends a config file a few lines at a time; rounds    *)
(* and maps end in between, plugins are switched off and on, the bot is killed *)
(* and started, and a command may not arrive or the server refuses it, which   *)
(* the bot does not notice.  One of those that would change nothing is no step.*)
(*                                                                          *)
(* The next map is an index into the rotation; Black Ops has playlists, and a  *)
(* map is brought about by excluding every other one until the round is over,  *)
(* while the operator's own exclusions are kept.  The server is external.      *)
(****************************************************************************)
EXTENDS Naturals, Sequences, SequencesExt, FiniteSets

CONSTANTS
    Titles, Maps, Players,
    Desks,      \* what is watched at once: "rotation" or "lists"
    Rotation,   \* the server's at first
    File,       \* the rotation in a config file, which is not played from otherwise
    PerPass,    \* CONFIG_LINES_PER_PASS
    Wait,       \* seconds between what is announced and what is done, less than a second more
    StockIdle,  \* vars.idleTimeout as the server starts, and _last_idle_seconds as the bot does
    MaxList, MaxDelayed, MaxLost  \* bounds: the rotation, what is announced, what does not arrive

VARIABLES
    game,
    desk,
    on,        \* the plugin is enabled
    server,    \* [list, now, next, saved, slots, disk, idle, excluded]
    delayed,   \* _delayed: what is announced, [what, left, old]; old: from before it was off
    loading,   \* _loading: how many lines are left, 0 if there is none
    held,      \* _restore: {the operator's exclusions} or {}
    lastIdle,  \* _last_idle_seconds
    lost,      \* how many commands or answers did not arrive
    asked,     \* history: {the map an admin was last told is next} until it is played, or {}
    operator,  \* history: the exclusions the operator wants, or {} for those that are given up
    wasIdle,   \* history: the idle time when it was switched off, 0 if it is on or not known
    told,      \* history: who was told of a reserved slot, and of no loss of it
    gaps       \* history: [list, disk], the places in File of maps whose lines did not arrive,
               \*   in the file that is sent and in the one on the server's disk

odVars == <<game, desk, on, server, delayed, loading, held, lastIdle, lost, asked, operator, wasIdle, told, gaps>>
plugin == <<on, delayed, loading, held, lastIdle>>
history == <<asked, operator, wasIdle, told, gaps>>

Frostbite == {"bf3", "bfbc2", "moh"}
Is(titles) == game \in titles /\ on

Init ==
    /\ game \in Titles /\ desk \in Desks
    /\ on = TRUE
    /\ server = [list |-> Rotation, now |-> 1, next |-> (1 % Len(Rotation)) + 1,
                 saved |-> Rotation, slots |-> {}, disk |-> {}, idle |-> StockIdle, excluded |-> {}]
    /\ delayed = <<>> /\ loading = 0 /\ held = {} /\ lastIdle = StockIdle /\ lost = 0
    /\ asked = {} /\ operator = {{}} /\ wasIdle = 0 /\ told = {}
    /\ gaps = [list |-> {}, disk |-> {}]

-----------------------------------------------------------------------------
(* The server.                                                              *)

Following(s, i) == IF s.list = <<>> THEN 1 ELSE (i % Len(s.list)) + 1

MapEnd(s) ==
    IF s.list = <<>> THEN s
    ELSE [s EXCEPT !.now = s.next, !.next = Following(s, s.next)]

\* It reads from its disk what was saved there.
Booted(s) ==
    [s EXCEPT !.list = s.saved, !.now = 1, !.next = Following([s EXCEPT !.list = s.saved], 1),
              !.slots = s.disk, !.idle = StockIdle]

Inserted(s, i, m) == IF i <= Len(s.list) + 1 THEN [s EXCEPT !.list = InsertAt(@, i, m)] ELSE s
PointedAt(s, i) == IF i \in DOMAIN s.list THEN [s EXCEPT !.next = i] ELSE s

-----------------------------------------------------------------------------
(* What is lost.                                                            *)

Misses(n) == lost' = lost + n /\ lost' <= MaxLost
Missed(arrives) == IF arrives THEN 0 ELSE 1

-----------------------------------------------------------------------------
(* Announced now and done a moment later.                                   *)

\* _after
After(what) ==
    /\ Len(delayed) < MaxDelayed
    /\ delayed' = Append(delayed, [what |-> what, left |-> Wait, old |-> FALSE])
    /\ UNCHANGED <<game, desk, on, loading, held, lastIdle>>

Announce(what) == After(what) /\ UNCHANGED <<server, lost, history>>

\* _announce_then: !roundnext, !roundrestart, !endround and !serverreboot of Battlefield 3
AnnounceBf3 == Is({"bf3"}) /\ \E what \in {"cycle", "round", "reboot"} : Announce(what)
\* !pamaprestart
MapRestart == Is({"bfbc2"}) /\ Announce("round")
\* !runnextround and !restartround
AnnounceMoh == Is({"moh"}) /\ \E what \in {"cycle", "round"} : Announce(what)
\* !panextmap
NextMap == Is({"hf"}) /\ Announce("cycle")
\* !pamaprestart, !pafastrestart and !pagametype, on a server that is not ranked
RestartCod7 == Is({"cod7"}) /\ Announce("round")

\* Who is outranked: nobody outranks themselves, and the senior outrank everyone else.
Outranked(admin, rank) == {p \in Players \ {admin} : rank[admin] = 2 \/ rank[p] < rank[admin]}

\* !nuke: those are chosen as it is announced.
Nuke == Is({"bf3"}) /\ \E admin \in Players : \E rank \in [Players -> 0..2] :
    Outranked(admin, rank) # {} /\ Announce("nuke")

\* !pamapreload: the next map is to be the one that is played, if the rotation has it.
MapReload(arrives) ==
    LET map == server.list[server.now]
    IN  /\ Is({"bfbc2"}) /\ server.now \in DOMAIN server.list
        /\ After("cycle")
        /\ Misses(Missed(arrives))
        /\ IF arrives
           THEN /\ server' = PointedAt(server, CHOOSE i \in DOMAIN server.list :
                        server.list[i] = map /\ \A j \in 1..(i - 1) : server.list[j] # map)
                /\ asked' = {map}
           ELSE UNCHANGED <<server, asked>>
        /\ UNCHANGED <<operator, wasIdle, told, gaps>>

Carried(s, order) ==
    CASE order.what = "cycle" -> MapEnd(s) [] order.what = "reboot" -> Booted(s) [] OTHER -> s

\* What a pass of the second finds due.
Due == {i \in DOMAIN delayed : delayed[i].left = 0}
Does(done, what) == \E i \in done : delayed[i].what = what

\* It carries out what is due, in the order it was announced, done being what arrives; the
\* rest waits on.
CarriedOut(done) ==
    LET pass[n \in 0..Len(delayed)] ==
            IF n = 0 THEN [then |-> server, rest |-> <<>>]
            ELSE IF delayed[n].left = 0
                 THEN [then |-> IF n \in done THEN Carried(pass[n - 1].then, delayed[n])
                                ELSE pass[n - 1].then,
                       rest |-> pass[n - 1].rest]
                 ELSE [then |-> pass[n - 1].then, rest |-> Append(pass[n - 1].rest, delayed[n])]
    IN  pass[Len(delayed)]

\* _config_lines: settings first, then the rotation, cleared, built and saved; Black Ops has
\* settings only.
ClearAt == 2
\* Mutant: saved before it is built.
SaveAtOnce == ClearAt + 1
SaveAt == ClearAt + Len(File) + 1
LinesOf == IF game = "bf3" THEN ClearAt + Len(File) + 1 ELSE 1

\* The lines a pass sends are those after SentBefore, up to SentNow.
SentBefore == LinesOf - loading
SentNow == IF PerPass < loading THEN SentBefore + PerPass ELSE LinesOf
PassLines == (SentBefore + 1)..SentNow

PlaceOf(line) == line - ClearAt
Adds(line) == game = "bf3" /\ PlaceOf(line) \in DOMAIN File

Obeyed(s, line) ==
    [s EXCEPT !.list = IF line = ClearAt THEN <<>>
                       ELSE IF Adds(line) THEN Append(@, File[PlaceOf(line)]) ELSE @,
              !.now = IF line = ClearAt THEN 1 ELSE @,
              !.next = IF line = ClearAt THEN 1 ELSE @,
              !.saved = IF line = SaveAt THEN s.list ELSE @]

\* Each line is dropped as it is sent; those of heard arrive.
SendConfigLines(s, heard) ==
    LET after[n \in 0..SentNow] ==
            IF n = 0 THEN s ELSE IF n \in heard THEN Obeyed(after[n - 1], n) ELSE after[n - 1]
    IN  after[SentNow]

\* A server that starts plays what it has on its disk, and the file that is sent goes on.
BootedGaps == [gaps EXCEPT !.list = IF loading = 0 THEN {} ELSE @ \cup gaps.disk]

GapsAfter(done, heard) ==
    LET before == IF ClearAt \in PassLines THEN {}
                  ELSE IF Does(done, "reboot") THEN BootedGaps.list ELSE gaps.list
        list == before \cup {PlaceOf(line) : line \in {l \in PassLines \ heard : Adds(l)}}
    IN  [list |-> IF SentNow = LinesOf THEN {} ELSE list,
         disk |-> IF SaveAt \in heard THEN list ELSE gaps.disk]

\* _run_pending, while the plugin is enabled.  What does not arrive is not sent again.
RunPending(done, heard) ==
    /\ on
    /\ Due # {} \/ loading # 0
    /\ Misses(Cardinality(Due \ done) + Cardinality(PassLines \ heard))
    /\ server' = SendConfigLines(CarriedOut(done).then, heard)
    /\ delayed' = CarriedOut(done).rest
    /\ loading' = LinesOf - SentNow
    /\ gaps' = GapsAfter(done, heard)
    /\ asked' = IF Does(done, "cycle") \/ Does(done, "reboot") \/ ClearAt \in heard THEN {} ELSE asked
    /\ wasIdle' = IF Does(done, "reboot") THEN 0 ELSE wasIdle
    /\ UNCHANGED <<game, desk, on, held, lastIdle, operator, told>>

Pass == \E done \in SUBSET Due, heard \in SUBSET PassLines : RunPending(done, heard)

Second ==
    /\ \E i \in DOMAIN delayed : delayed[i].left > 0
    /\ on => Due = {} /\ loading = 0
    /\ delayed' = [i \in DOMAIN delayed |->
                      [delayed[i] EXCEPT !.left = IF @ = 0 THEN 0 ELSE @ - 1]]
    /\ UNCHANGED <<game, desk, on, server, loading, held, lastIdle, lost, history>>

-----------------------------------------------------------------------------
(* The rotation.                                                            *)

\* !loadconfig, and !paload with settings only; one at a time.
LoadConfig ==
    /\ Is({"bf3", "cod7"})
    /\ loading = 0 /\ Len(server.saved) <= MaxList
    /\ loading' = LinesOf
    /\ UNCHANGED <<game, desk, on, server, delayed, held, lastIdle, lost, history>>

\* The two commands that name the next map; one that is lost leaves the other.
Point(i, m, inserts, arrive) ==
    LET put == IF inserts /\ "put" \in arrive THEN Inserted(server, i, m) ELSE server
        missing == {"put", "point"} \ arrive
    IN  /\ server' = IF "point" \in arrive THEN PointedAt(put, i) ELSE put
        /\ Len(server'.list) <= MaxList
        /\ Misses(Cardinality(missing))
        /\ asked' = IF missing = {} THEN {m} ELSE {}
        /\ UNCHANGED <<game, desk, plugin, operator, wasIdle, told, gaps>>

\* _current_index and one more, or the second place if the server does not say.
IndexBf3(knows) == IF knows THEN server.now + 1 ELSE 2

\* !setnextmap of Battlefield 3: always put in, just after the map that is played.
SetNextBf3(m, knows, arrive) ==
    /\ Is({"bf3"}) /\ Contains(server.list, m)
    /\ knows \/ lost < MaxLost
    /\ Point(IndexBf3(knows), m, TRUE, arrive)

FirstOf(m) == CHOOSE i \in DOMAIN server.list :
                  server.list[i] = m /\ \A j \in 1..(i - 1) : server.list[j] # m

\* _next_index, of a rotation that was read or not
NextIndex(knows, length) == IF knows /\ server.next # 0 THEN server.next ELSE length + 1

\* !pasetnextmap and !setnextmap: pointed at where it is, or put in at the next index where
\* the rotation could not be read.
SetNextFlat(m, read, knows, arrive) ==
    /\ Is({"bfbc2", "moh"})
    /\ IF read THEN Contains(server.list, m) /\ Point(FirstOf(m), m, FALSE, arrive)
       ELSE lost < MaxLost /\ Point(NextIndex(knows, 0), m, TRUE, arrive)

\* !pamaplist: mapList.load
MapList ==
    /\ Is({"bfbc2"})
    /\ server' = [server EXCEPT !.list = server.saved, !.now = 1,
                      !.next = Following([server EXCEPT !.list = server.saved], 1)]
    /\ asked' = {}
    /\ UNCHANGED <<game, desk, plugin, lost, operator, wasIdle, told, gaps>>

\* _next_index of !map: after the map that is played, or where the server's next index is, or at
\* the end where the server does not say.
IndexOfMap(knows) ==
    IF ~knows THEN Len(server.list) + 1 ELSE IF game = "bf3" THEN server.now + 1 ELSE server.next

\* change_map, for !map: put in, pointed at and the round ended; one that does not arrive ends
\* it, after n of the three.  The plugin is not asked.
ChangeMap(m, knows, n) ==
    LET put == Inserted(server, IndexOfMap(knows), m)
        pointed == PointedAt(put, IndexOfMap(knows))
    IN  /\ game \in Frostbite
        /\ Misses((IF n < 3 THEN 1 ELSE 0) + Missed(knows))
        /\ server' = CASE n = 1 -> put [] n = 2 -> pointed [] n = 3 -> MapEnd(pointed)
        /\ Len(server'.list) <= MaxList
        /\ asked' = {}
        /\ UNCHANGED <<game, desk, plugin, operator, wasIdle, told, gaps>>

MapEnds ==
    /\ server' = MapEnd(server)
    /\ asked' = {}
    /\ UNCHANGED <<game, desk, plugin, lost, operator, wasIdle, told, gaps>>

-----------------------------------------------------------------------------
(* Black Ops: the exclusions.                                               *)

\* A bug: a second order keeps the first one's exclusions.
KeptAgain(answered) == {IF answered THEN server.excluded ELSE {}}

\* What is kept is read when nothing is kept yet; no answer is an empty list.
Kept(answered) == IF held # {} THEN held ELSE {IF answered THEN server.excluded ELSE {}}

\* !pasetmap, on a ranked server
SetMap(m, answered, arrives) ==
    /\ Is({"cod7"})
    /\ held' = Kept(answered)
    /\ Misses(Missed(answered) + Missed(arrives))
    /\ server' = IF arrives THEN [server EXCEPT !.excluded = Maps \ {m}] ELSE server
    /\ operator' = IF answered \/ held # {} THEN operator ELSE {}
    /\ UNCHANGED <<game, desk, on, delayed, loading, lastIdle, asked, wasIdle, told, gaps>>

\* !paexcludemaps, and !paset of the same setting
ExcludeMaps(S, arrives) ==
    /\ Is({"cod7"})
    /\ Misses(Missed(arrives))
    /\ server' = IF arrives THEN [server EXCEPT !.excluded = S] ELSE server
    /\ held' = {} /\ operator' = IF arrives THEN {S} ELSE {}
    /\ UNCHANGED <<game, desk, on, delayed, loading, lastIdle, asked, wasIdle, told, gaps>>

\* _restore_exclusions: what was kept is dropped before it is sent.
RestoreExclusions(arrives) ==
    /\ held = {} => arrives
    /\ Misses(Missed(arrives))
    /\ server' = IF held # {} /\ arrives THEN [server EXCEPT !.excluded = CHOOSE S \in held : TRUE]
                 ELSE server
    /\ held' = {}
    /\ operator' = IF arrives THEN operator ELSE {}
    /\ UNCHANGED <<asked, wasIdle, told, gaps>>

RoundStart(arrives) ==
    /\ Is({"cod7"})
    /\ RestoreExclusions(arrives)
    /\ UNCHANGED <<game, desk, on, delayed, loading, lastIdle>>

-----------------------------------------------------------------------------
(* Idle players, and the slots that are reserved.                           *)

\* Mutant: switched off twice, it is off for good.
IdleKeptAlways(answered) == IF answered THEN server.idle ELSE lastIdle

\* What !idle off remembers.
IdleKept(answered) == IF answered /\ server.idle # 0 THEN server.idle ELSE lastIdle

IdleOff(answered, arrives) ==
    /\ Is({"bf3"})
    /\ Misses(Missed(answered) + Missed(arrives))
    /\ lastIdle' = IdleKept(answered)
    /\ server' = IF arrives THEN [server EXCEPT !.idle = 0] ELSE server
    /\ wasIdle' = IF server.idle = 0 THEN wasIdle
                  ELSE IF arrives /\ answered THEN server.idle ELSE 0
    /\ UNCHANGED <<game, desk, on, delayed, loading, held, asked, operator, told, gaps>>

\* !idle on, or with a number of minutes
IdleOn(seconds) ==
    /\ Is({"bf3"})
    /\ server' = [server EXCEPT !.idle = seconds]
    /\ wasIdle' = 0
    /\ UNCHANGED <<game, desk, plugin, lost, asked, operator, told, gaps>>

\* Mutant: the list is not written back.
SlotsUnwritten(s, S, arrive) == IF "change" \in arrive THEN [s EXCEPT !.slots = S] ELSE s

\* _slots_write: the list is read, changed and written; a loss ends none of it.
SlotsWrite(s, S, arrive) ==
    LET changed == IF "change" \in arrive THEN [s EXCEPT !.slots = S] ELSE s
    IN  IF "save" \in arrive THEN [changed EXCEPT !.disk = changed.slots] ELSE changed

Steps == {"load", "change", "save"}

\* !reserveslot and !unreserveslot of Medal of Honor, unless the server refuses.
ReserveSlot(p, arrive) ==
    LET read == IF "load" \in arrive THEN [server EXCEPT !.slots = server.disk] ELSE server
        S == IF p \in read.slots THEN read.slots \ {p} ELSE read.slots \cup {p}
    IN  /\ Is({"moh"})
        /\ Misses(Cardinality(Steps \ arrive))
        /\ server' = SlotsWrite(read, S, arrive)
        /\ told' = IF p \in read.slots THEN told \ {p}
                   ELSE IF arrive = Steps THEN told \cup {p} ELSE told
        /\ UNCHANGED <<game, desk, plugin, asked, operator, wasIdle, gaps>>

\* !vipadd, !vipremove and !vipclear of Battlefield 3 are in the server's memory until !vipsave,
\* and gone at !vipload.
Vips ==
    /\ Is({"bf3"})
    /\ \/ \E p \in Players : \E S \in {server.slots \cup {p}, server.slots \ {p}, {}} :
              server' = [server EXCEPT !.slots = S]
       \/ server' = [server EXCEPT !.slots = server.disk]
       \/ server' = [server EXCEPT !.disk = server.slots]
    /\ UNCHANGED <<game, desk, plugin, lost, history>>

-----------------------------------------------------------------------------
(* Switched off and on, killed and started.                                 *)

Aged == [i \in DOMAIN delayed |-> [delayed[i] EXCEPT !.old = TRUE]]
\* Mutant: what was announced waits for the plugin to be switched on.
OnDisableKeeps == Aged

\* on_disable; Battlefield 3 and Black Ops keep what was announced.
OnDisable == IF game \in {"moh", "bfbc2", "hf"} THEN <<>> ELSE Aged

Disable(arrives) ==
    /\ on /\ on' = FALSE
    /\ delayed' = OnDisable
    /\ RestoreExclusions(arrives)
    /\ UNCHANGED <<game, desk, loading, lastIdle>>

Enable == ~on /\ on' = TRUE /\ UNCHANGED <<game, desk, server, delayed, loading, held, lastIdle, lost, history>>

\* The bot is killed, or restarted: nothing is put back.
Killed ==
    /\ on' = TRUE /\ delayed' = <<>> /\ loading' = 0 /\ held' = {} /\ lastIdle' = StockIdle
    /\ operator' = IF held = {} THEN operator ELSE {}
    /\ wasIdle' = 0
    /\ gaps' = [gaps EXCEPT !.list = {}]
    /\ UNCHANGED <<game, desk, server, lost, asked, told>>

ServerRestarts ==
    /\ server # Booted(server)
    /\ server' = Booted(server)
    /\ asked' = {} /\ wasIdle' = 0 /\ gaps' = BootedGaps
    /\ UNCHANGED <<game, desk, plugin, lost, operator, told>>

Announces == desk = "rotation" /\
    (\/ AnnounceBf3 \/ MapRestart \/ AnnounceMoh \/ NextMap \/ RestartCod7
     \/ Nuke \/ \E arrives \in BOOLEAN : MapReload(arrives))

SetsNext == desk = "rotation" /\
    \E m \in Maps, knows \in BOOLEAN, arrive \in SUBSET {"put", "point"} :
        \/ SetNextBf3(m, knows, arrive)
        \/ \E read \in BOOLEAN : SetNextFlat(m, read, knows, arrive)

TurnsMaps == desk = "rotation" /\
    (\/ LoadConfig \/ MapList \/ MapEnds
     \/ \E m \in Maps, knows \in BOOLEAN, n \in 1..3 : ChangeMap(m, knows, n))

Excludes ==
    \/ \E m \in Maps, answered, arrives \in BOOLEAN : SetMap(m, answered, arrives)
    \/ \E S \in SUBSET Maps, arrives \in BOOLEAN : ExcludeMaps(S, arrives)
    \/ \E arrives \in BOOLEAN : RoundStart(arrives)

Lists == desk = "lists" /\
    (\/ Excludes \/ Vips
     \/ \E answered, arrives \in BOOLEAN : IdleOff(answered, arrives)
     \/ \E seconds \in {lastIdle, 1} : IdleOn(seconds)
     \/ \E p \in Players, arrive \in SUBSET Steps : ReserveSlot(p, arrive))

Next ==
    \/ Announces \/ Pass \/ Second \/ SetsNext \/ TurnsMaps \/ Lists
    \/ Enable \/ Killed \/ ServerRestarts
    \/ \E arrives \in BOOLEAN : Disable(arrives)

Spec == Init /\ [][Next]_odVars

-----------------------------------------------------------------------------
TypeOK ==
    /\ game \in Titles /\ desk \in Desks /\ on \in BOOLEAN
    /\ server.list \in Seq(Maps) /\ server.saved \in Seq(Maps)
    /\ server.next \in Nat /\ server.slots \cup server.disk \subseteq Players
    /\ \A i \in DOMAIN delayed : delayed[i].left \in 0..Wait
    /\ loading \in 0..LinesOf
    /\ held \subseteq SUBSET Maps /\ lost \in 0..MaxLost
    /\ gaps \in [list : SUBSET DOMAIN File, disk : SUBSET DOMAIN File]

\* An admin who is told that a map is next is told the truth until it is played: whatever is
\* put into the rotation by others, and whether or not the bot knows where in it the server is,
\* unless a file or the server's disk replaces the rotation, or another map was asked for with
\* !map. (poweradminbf3 632-674,
\* poweradminbfbc2 585-626, poweradminmoh 613-650)
NextIsAsked == \A m \in asked : server.list # <<>> /\ server.list[server.next] = m

\* What s has at the places of I is in t, in order.
Within(s, I, t) ==
    \E at \in [I -> DOMAIN t] :
        /\ \A i \in I : t[at[i]] = s[i]
        /\ \A i, j \in I : i < j => at[i] < at[j]

\* The rotation on the server's disk has all of the one it had, or all of a file's but the maps
\* whose own lines did not arrive, in order, besides what was put in: no file is saved half
\* built, whoever is killed or switched off, and whatever else is lost, while it is sent.
\* (poweradminbf3 1210-1256)
FilesAreWhole ==
    \/ Within(Rotation, DOMAIN Rotation, server.saved)
    \/ Within(File, DOMAIN File \ gaps.disk, server.saved)

\* "Put the operator's exclusion list back, exactly as it was" (poweradmincod7 433): it is in
\* force or kept, after any number of maps, unless it could not be read, the bot was killed, or
\* the command that sets it or puts it back did not arrive: the bot has dropped it by then.
ExclusionsComeBack ==
    \A S \in operator : IF held = {} THEN server.excluded = S ELSE held = {S}

\* What idle players had before it was switched off, as often as it was, comes on again.
IdleComesBack == wasIdle # 0 => lastIdle = wasIdle

\* Who was told of a reserved slot has it on the server's disk as well. (poweradminmoh 777-789)
SlotsAreWritten == told \subseteq server.disk

OrdersHold ==
    NextIsAsked /\ FilesAreWhole /\ ExclusionsComeBack /\ IdleComesBack /\ SlotsAreWritten

\* Nothing that was announced before the plugin was switched off is done after, where on_disable
\* clears it. (poweradminmoh 289-292)
NothingHeldOver ==
    Pass => game \in {"bf3", "cod7"} \/ \A i \in Due : ~delayed[i].old
=============================================================================
