-------------------------------- MODULE Afk --------------------------------
(****************************************************************************)
(* Removing who has stopped playing (plugins/afk).  Deaths in a row, or the  *)
(* word "afk" in chat, make the plugin look at a player; who looks absent is *)
(* asked, and whoever has not answered when the time is up is kicked.  The   *)
(* kick is a request to the server: the player is on the roster until their  *)
(* quit line is read.                                                        *)
(****************************************************************************)
EXTENDS Integers, FiniteSets

CONSTANTS
    Players,
    Bots,        \* the AI among them
    Immune,      \* the ones at or above settings.immunity_level
    Deaths,      \* settings.consecutive_deaths, 0 for never
    Idle,        \* settings.inactivity_threshold
    LastChance,  \* settings.last_chance_delay
    MinHumans,   \* settings.min_ingame_humans
    Throttle,    \* CHAT_TRIGGER_THROTTLE
    MaxTime      \* how long the clock runs: the bound

VARIABLES
    now,
    connected,   \* clients.connected()
    spectating,
    enabled,
    activity,    \* the Activity of each client; lastSeen and answerBy are 0 for None
    lastSweep,
    kicked,      \* the server: who it has thrown out and the bot has not seen leave
    quiet,       \* history: who was asked and has done nothing since
    asked,       \* history: when each was last asked
    emptied      \* history: a kick left fewer than MinHumans playing

vars == <<now, connected, spectating, enabled, activity, lastSweep, kicked, quiet, asked, emptied>>

Fresh == [lastSeen |-> 0, deaths |-> 0, answerBy |-> 0]

Init ==
    /\ now = 1
    /\ connected = Players /\ spectating = {} /\ enabled = TRUE
    /\ activity = [p \in Players |-> Fresh]
    /\ lastSweep = 0
    /\ kicked = {}
    /\ quiet = {} /\ asked = [p \in Players |-> 0]
    /\ emptied = FALSE

-----------------------------------------------------------------------------
Playing == connected \ (Bots \cup spectating)

IsInactive(p, record) ==
    /\ p \notin Bots \cup spectating \cup Immune
    /\ record.lastSeen # 0
    /\ now - record.lastSeen > Idle

\* check and ask, for every one of P who looks absent and has not been asked yet, now that
\* `doing` have done something
Check(P, records, doing) ==
    LET suspects == {p \in P : IsInactive(p, records[p]) /\ records[p].answerBy = 0}
    IN  /\ activity' = [p \in Players |->
              IF p \in suspects THEN [records[p] EXCEPT !.answerBy = now + LastChance]
              ELSE records[p]]
        /\ asked' = [p \in Players |-> IF p \in suspects THEN now ELSE asked[p]]
        /\ quiet' = (quiet \ doing) \cup suspects

\* Mutant: whoever shows up is not told apart from whoever is still silent.
SeenStillAsked(p) ==
    IF enabled THEN [activity EXCEPT ![p].lastSeen = now, ![p].deaths = 0] ELSE activity

\* on_activity: the records once p has done something
Seen(p) ==
    IF enabled THEN [activity EXCEPT ![p] = [Fresh EXCEPT !.lastSeen = now]] ELSE activity

Acts(p) ==
    /\ p \in connected \ kicked
    /\ activity' = Seen(p)
    /\ quiet' = quiet \ {p}
    /\ UNCHANGED <<now, connected, spectating, enabled, lastSweep, kicked, asked, emptied>>

\* A team change is something the player does.
ChangesTeam(p) ==
    /\ p \in connected \ kicked
    /\ spectating' = (spectating \ {p}) \cup ({p} \ spectating)
    /\ activity' = Seen(p)
    /\ quiet' = quiet \ {p}
    /\ UNCHANGED <<now, connected, enabled, lastSweep, kicked, asked, emptied>>

\* on_death, after on_activity has credited the killer.  A suicide counts for neither.
Killed(killer, p) ==
    /\ {killer, p} \subseteq connected \ kicked /\ killer # p
    /\ IF ~enabled THEN quiet' = quiet \ {killer} /\ UNCHANGED <<activity, asked>>
       ELSE LET records == [Seen(killer) EXCEPT ![p].deaths = IF @ < Deaths THEN @ + 1 ELSE @]
                looked == Deaths > 0 /\ records[p].deaths >= Deaths
                              /\ Cardinality(Playing) > MinHumans
            IN  Check(IF looked THEN {p} ELSE {}, records, {killer})
    /\ UNCHANGED <<now, connected, spectating, enabled, lastSweep, kicked, emptied>>

\* on_chat: somebody says "afk", which is also something they did.
SaysAfk(p) ==
    /\ p \in connected \ kicked
    /\ IF enabled /\ (lastSweep = 0 \/ now - lastSweep >= Throttle)
       THEN lastSweep' = now /\ Check(connected, Seen(p), {p})
       ELSE activity' = Seen(p) /\ quiet' = quiet \ {p} /\ UNCHANGED <<lastSweep, asked>>
    /\ UNCHANGED <<now, connected, spectating, enabled, kicked, emptied>>

\* on_break: a round, a warmup or a map begins or ends.
Break ==
    /\ activity' = IF enabled THEN [p \in Players |-> Fresh] ELSE activity
    /\ quiet' = {}
    /\ UNCHANGED <<now, connected, spectating, enabled, lastSweep, kicked, asked, emptied>>

\* _check_deadlines and kick_if_still_absent.  Everybody whose time is up is judged in one
\* pass over the roster, and the server may miss any of the kicks.
CheckDeadlines ==
    LET due == {p \in connected : activity[p].answerBy # 0 /\ now >= activity[p].answerBy}
        absent == {p \in due : Cardinality(Playing) > MinHumans /\ IsInactive(p, activity[p])}
    IN  /\ enabled /\ due # {}
        /\ activity' = [p \in Players |->
              IF p \in due THEN [activity[p] EXCEPT !.answerBy = 0] ELSE activity[p]]
        /\ \E thrown \in SUBSET absent :
              /\ kicked' = kicked \cup thrown
              /\ emptied' = (emptied \/ (thrown # {}
                                         /\ Cardinality(Playing \ kicked') < MinHumans))
        /\ UNCHANGED <<now, connected, spectating, enabled, lastSweep, quiet, asked>>

-----------------------------------------------------------------------------
\* Mutant: who has left is still waited for.
LeaveStillKicked(p) ==
    /\ p \in connected
    /\ connected' = connected \ {p} /\ spectating' = spectating \ {p}
    /\ activity' = [activity EXCEPT ![p] = Fresh]
    /\ quiet' = quiet \ {p} /\ asked' = [asked EXCEPT ![p] = 0]
    /\ UNCHANGED <<now, enabled, lastSweep, kicked, emptied>>

\* The quit line of who left or was thrown out.
Leave(p) ==
    /\ p \in connected
    /\ connected' = connected \ {p} /\ spectating' = spectating \ {p} /\ kicked' = kicked \ {p}
    /\ activity' = [activity EXCEPT ![p] = Fresh]
    /\ quiet' = quiet \ {p} /\ asked' = [asked EXCEPT ![p] = 0]
    /\ UNCHANGED <<now, enabled, lastSweep, emptied>>

\* Connecting is something the player does.
Enter(p) ==
    /\ p \notin connected
    /\ connected' = connected \cup {p}
    /\ activity' = Seen(p)
    /\ quiet' = quiet \ {p}
    /\ UNCHANGED <<now, spectating, enabled, lastSweep, kicked, asked, emptied>>

\* !plugin disable: on_disable drops every question, and nothing is heard while it is off.
Switch ==
    /\ enabled' = ~enabled
    /\ activity' = IF enabled THEN [p \in Players |->
                       IF p \in connected THEN [activity[p] EXCEPT !.answerBy = 0]
                       ELSE activity[p]] ELSE activity
    /\ UNCHANGED <<now, connected, spectating, lastSweep, kicked, quiet, asked, emptied>>

Tick ==
    /\ now < MaxTime
    /\ now' = now + 1
    /\ UNCHANGED <<connected, spectating, enabled, activity, lastSweep, kicked, quiet, asked,
                   emptied>>

Does(p) ==
    \/ Acts(p) \/ ChangesTeam(p) \/ SaysAfk(p) \/ Leave(p) \/ Enter(p)
    \/ \E killer \in Players : Killed(killer, p)

Next == Tick \/ Break \/ Switch \/ CheckDeadlines \/ \E p \in Players : Does(p)

Spec == Init /\ [][Next]_vars

-----------------------------------------------------------------------------
TypeOK ==
    /\ now \in 1..MaxTime
    /\ spectating \cup kicked \subseteq connected
    /\ connected \cup quiet \subseteq Players
    /\ activity \in [Players -> [lastSeen : 0..MaxTime, deaths : 0..Deaths,
                                 answerBy : 0..(MaxTime + LastChance)]]

\* Nobody is kicked who was not asked, given all the time there is to answer, and silent
\* since.  (plugins/afk/__init__.py:211-221, 261-279, 306-338)
KicksOnlyTheSilent ==
    \A p \in kicked' \ kicked : p \in quiet /\ asked[p] + LastChance <= now
KickedOnlyIfSilent == [][KicksOnlyTheSilent]_vars

\* An AFK kick never leaves fewer than min_ingame_humans playing.  (docs/plugins.md:168-170,
\* plugins/afk/__init__.py:326-338)
NeverBelowMinHumans == ~emptied

=============================================================================
