------------------------------- MODULE Conduct -------------------------------
(****************************************************************************)
(* Plugins that watch how players behave: spamcontrol, censor, pingwatch,       *)
(* nickreg, and spree with firstkill.  They share the clock and nothing else,   *)
(* so a behaviour is about one of them.                                        *)
(*                                                                          *)
(* The exempt, moderators and AI players, are left out: nothing is done about   *)
(* them.  A player of spamcontrol, censor and pingwatch stands for each.        *)
(****************************************************************************)
EXTENDS Integers, Sequences, FiniteSets

CONSTANTS
    Watches,
    ChatFalloff, RadioFalloff, \* seconds in which a point is forgotten
    MaxSpamins,
    LongGap,                   \* of the radio: 20 seconds
    MuteFor,                   \* mute_seconds of the radio
    Ladder,                    \* mute_minutes of censor
    WarnAfter,
    Endurance, Settle,         \* of pingwatch
    Players, Names,
    MaxNicks, Interval,        \* of nickreg
    Late,                      \* bound: how late a sweep runs
    KillSpree, LossSpree,
    MaxEvents,                 \* bound: what happens in one map
    MaxTime                    \* bound

VARIABLES
    watch,
    now,
    spam,    \* spam_points, spam_time, last_message, radio_time, the mute; the messages since
             \* the last penalty, and what was done at last
    words,   \* offences, the mute; what was done at last
    ping,    \* high_ping_since, ignore_until; the high readings since a low one, what was done
    nick,    \* the names, who registered them, checked_at, _quiet_until, the last sweep; since
             \* when a player has gone unwarned
    spree,   \* spree of each player, _kill_pending, _teamkill_pending
    story    \* what happened in this map

conductVars == <<watch, now, spam, words, ping, nick, spree, story>>

None == -1
NoOne == "nobody"
Nothing == "nothing"

\* can: whether the game has a verb that mutes.
InitSpam(can) == [points |-> 0, time |-> 0, last |-> Nothing, radio |-> None, mute |-> 0, lines |-> 0,
                  did |-> Nothing, can |-> can]
InitWords(can) == [offences |-> 0, mute |-> 0, did |-> Nothing, for |-> 0, can |-> can]
InitPing == [since |-> None, ignore |-> Settle, highs |-> 0, did |-> Nothing]

-----------------------------------------------------------------------------
(* spamcontrol.  A point is ChatFalloff * RadioFalloff, so that what is forgotten in a *)
(* second is a whole number.                                                   *)

Point == ChatFalloff * RadioFalloff
Texts == {"plain", "coloured", "order"}
Calls == {"call1", "call2"}

\* score
Score(falloff) ==
    LET forgotten == (now - spam.time) * (Point \div falloff) IN
    IF spam.points > forgotten THEN spam.points - forgotten ELSE 0

\* points_for
PointsFor(text) ==
    LET repeated == text = spam.last IN
    (CASE repeated /\ text = "coloured" -> 5 [] repeated -> 3 [] text = "coloured" -> 2
       [] OTHER -> 1) + (IF text = "order" THEN 1 ELSE 0)

\* radio_points, by the gap since the call before.
RadioPoints(text) ==
    LET gap == now - spam.radio IN
    IF spam.radio = None THEN 0
    ELSE (IF gap < LongGap THEN 1 ELSE 0)
         + (IF gap < 2 THEN IF text = spam.last THEN 4 ELSE 1 ELSE 0)
         + (IF gap < 1 THEN 3 ELSE 0)

\* add_points
Added(text, points, falloff) ==
    [spam EXCEPT !.points = Score(falloff) + points * Point, !.time = now, !.last = text,
                 !.lines = @ + 1, !.did = Nothing]

TooMuch(s) == s.points >= MaxSpamins * Point

SpamWarned(s) == [s EXCEPT !.points = 0, !.did = "warn", !.lines = 0]

\* A bug: the score is not cleared by the warning it led to.
ChatKeepingPoints(text) ==
    LET s == Added(text, PointsFor(text), ChatFalloff) IN
    spam' = IF TooMuch(s) THEN [s EXCEPT !.did = "warn", !.lines = 0] ELSE s

\* on_chat.  The server takes no chat from the muted.
Chat(text) ==
    LET s == Added(text, PointsFor(text), ChatFalloff) IN
    spam' = IF TooMuch(s) THEN SpamWarned(s) ELSE s

\* on_radio.  Half of the score stays with one who is muted for it.
Radio(text) ==
    LET s == [Added(text, RadioPoints(text), RadioFalloff) EXCEPT !.radio = now] IN
    IF spam.mute > now THEN UNCHANGED spam
    ELSE IF ~TooMuch(s) THEN spam' = s
    ELSE spam' = IF s.can THEN [s EXCEPT !.points = @ \div 2, !.mute = now + MuteFor,
                                         !.did = "mute", !.lines = 0]
                 ELSE SpamWarned(s)

SpamStep ==
    /\ \/ spam.mute <= now /\ \E text \in Texts : Chat(text)
       \/ \E text \in Calls : Radio(text)
    /\ UNCHANGED <<words, ping, nick, spree, story>>

-----------------------------------------------------------------------------
(* censor                                                                       *)

\* A bug: a mute that stands is not looked for.
MutedStandingNever(w) == FALSE

MutedStanding(w) == w.mute > now

Step(n) == Ladder[IF n < Len(Ladder) THEN n ELSE Len(Ladder)]

\* _punish and _mute_for: the mutes get longer, and past warn_after the word's own penalty is
\* added; where the game cannot mute it is the penalty alone.
Trip ==
    IF MutedStanding(words) THEN words' = [words EXCEPT !.did = Nothing, !.for = 0]
    ELSE LET n == words.offences + 1 IN
         words' = [words EXCEPT !.offences = n,
                       !.mute = IF words.can THEN now + Step(n) ELSE @,
                       !.did = IF ~words.can \/ n > WarnAfter THEN "penalty" ELSE Nothing,
                       !.for = IF words.can THEN Step(n) ELSE 0]

\* Another plugin, or an admin, mutes the player.
MutedElsewhere ==
    /\ words.can
    /\ words' = [words EXCEPT !.mute = IF @ > now + 1 THEN @ ELSE now + 1, !.did = Nothing,
                              !.for = 0]

\* _on_disconnect, and the player comes back, to the same slot or another: the mute is the slot's.
WordsReconnect ==
    \E mute \in {0, words.mute} : words' = [InitWords(words.can) EXCEPT !.mute = mute]

WordStep ==
    /\ words.offences <= Len(Ladder) + WarnAfter
    /\ Trip \/ MutedElsewhere \/ WordsReconnect
    /\ UNCHANGED <<spam, ping, nick, spree, story>>

-----------------------------------------------------------------------------
(* pingwatch                                                                    *)

\* A bug: a good reading does not end the bad spell.
LowReadingKept(p) == p

LowReading(p) == [p EXCEPT !.since = None]

\* check: what the server says of the player is high or not; that the server says nothing at all
\* leaves everything as it is.
PingCheck(high) ==
    LET seen == [ping EXCEPT !.did = Nothing, !.highs = IF high THEN @ + 1 ELSE 0] IN
    IF now < ping.ignore THEN UNCHANGED ping
    ELSE ping' =
        IF ~high THEN LowReading(seen)
        ELSE IF ping.since = None THEN [seen EXCEPT !.since = now]
        ELSE IF now - ping.since <= Endurance THEN seen
        ELSE [seen EXCEPT !.since = None, !.did = "kick", !.highs = 0]

\* _settle, at a change of the map.
PingSettle == ping' = [ping EXCEPT !.ignore = now + Settle, !.did = Nothing]

PingStep ==
    /\ ping.highs < MaxEvents
    /\ PingSettle \/ \E high \in BOOLEAN : PingCheck(high)
    /\ UNCHANGED <<spam, words, nick, spree, story>>

-----------------------------------------------------------------------------
(* nickreg                                                                      *)

InitNick(f) ==
    [name |-> f, owner |-> [n \in Names |-> NoOne], checked |-> [p \in Players |-> None],
     quiet |-> 0, swept |-> 0, since |-> [p \in Players |-> None]]

Steals(k, p) == k.owner[k.name[p]] \notin {NoOne, p}

\* Since when each thief has gone unwarned: a change of the map begins it anew.
Dated(k) ==
    [k EXCEPT !.since = [p \in Players |->
        IF ~Steals(k, p) THEN None ELSE IF k.since[p] = None THEN now ELSE k.since[p]]]

\* A bug: who was checked once is not checked again.
CheckOnce(k, p) ==
    IF k.checked[p] # None THEN k
    ELSE [k EXCEPT !.checked[p] = now, !.since[p] = IF Steals(k, p) THEN now ELSE None]

\* check: at most once in an interval.
Check(k, p) ==
    IF k.checked[p] # None /\ now - k.checked[p] < Interval THEN k
    ELSE [k EXCEPT !.checked[p] = now, !.since[p] = IF Steals(k, p) THEN now ELSE None]

Rename(p, n) ==
    n # nick.name[p] /\ nick' = Check(Dated([nick EXCEPT !.name[p] = n]), p)

Sweep ==
    /\ now >= nick.swept + Interval
    /\ LET k == [nick EXCEPT !.swept = (now \div Interval) * Interval] IN
       nick' = IF now < nick.quiet THEN k
               ELSE [k EXCEPT
                   !.checked = [p \in Players |-> Check(k, p).checked[p]],
                   !.since = [p \in Players |-> Check(k, p).since[p]]]

OnMapChange ==
    nick' = Dated([nick EXCEPT !.quiet = now + Interval, !.since = [p \in Players |-> None]])

\* cmd_registernick
RegisterNick(p) ==
    LET n == nick.name[p] IN
    /\ nick.owner[n] = NoOne
    /\ Cardinality({m \in Names : nick.owner[m] = p}) < MaxNicks
    /\ nick' = Dated([nick EXCEPT !.owner[n] = p])

\* cmd_deletenick, by the owner or an admin.
DeleteNick(n) == nick.owner[n] # NoOne /\ nick' = Dated([nick EXCEPT !.owner[n] = NoOne])

NickStep ==
    /\ \/ Sweep \/ OnMapChange
       \/ \E p \in Players : RegisterNick(p) \/ \E n \in Names : Rename(p, n)
       \/ \E n \in Names : DeleteNick(n)
    /\ UNCHANGED <<spam, words, ping, spree, story>>

-----------------------------------------------------------------------------
(* spree, and firstkill.  An event is a word, a killer and a victim; the world has no name. *)

NewSpree == [kills |-> 0, deaths |-> 0, endKill |-> FALSE, endLoss |-> FALSE]
InitSpree == [of |-> [p \in Players |-> NewSpree], kill |-> TRUE, teamkill |-> TRUE,
              said |-> <<>>]

Said(s, word, p) == [s EXCEPT !.said = Append(@, <<word, p>>)]

\* record_kill: the losing streak that ends is announced before the spree that begins.
RecordKill(s, p) ==
    LET a == IF s.of[p].endLoss THEN Said(s, "back", p) ELSE s
        kills == s.of[p].kills + 1
        b == IF kills = KillSpree THEN Said(a, "spree", p) ELSE a IN
    [b EXCEPT !.of[p] = [kills |-> kills, deaths |-> 0, endLoss |-> FALSE,
                         endKill |-> @.endKill \/ kills = KillSpree]]

\* record_death: there is someone to be given the credit, or not.
RecordDeath(s, p, killer) ==
    LET a == IF s.of[p].endKill /\ killer # NoOne THEN Said(s, "stopped", p) ELSE s
        deaths == s.of[p].deaths + 1
        b == IF deaths = LossSpree THEN Said(a, "keep", p) ELSE a IN
    [b EXCEPT !.of[p] = [kills |-> 0, deaths |-> deaths, endKill |-> FALSE,
                         endLoss |-> @.endLoss \/ deaths = LossSpree]]

\* A bug: who kills a team-mate goes on with the spree, and the victim too.
OnTeamKillIgnored(s, k, v) == s

\* on_team_kill: the death counts, the kill does not.
OnTeamKill(s, k, v) == IF v = NoOne THEN s ELSE RecordDeath(s, v, k)

\* on_kill and on_self_kill
OnKill(s, k, v) ==
    IF k # NoOne /\ k = v THEN RecordDeath(s, v, NoOne)
    ELSE LET a == IF k = NoOne THEN s ELSE RecordKill(s, k) IN
         IF v = NoOne THEN a ELSE RecordDeath(a, v, k)

\* on_kill and on_team_kill of firstkill.
FirstKill(s, k, v) ==
    IF ~s.kill \/ NoOne \in {k, v} \/ k = v THEN s ELSE Said([s EXCEPT !.kill = FALSE], "first", k)
FirstTeamKill(s, k, v) ==
    IF ~s.teamkill \/ NoOne \in {k, v} THEN s
    ELSE Said([s EXCEPT !.teamkill = FALSE], "firsttk", k)

Silent == [spree EXCEPT !.said = <<>>]

Deed(word, k, v) ==
    /\ Len(story) < MaxEvents /\ story' = Append(story, <<word, k, v>>)
    /\ spree' = CASE word = "kill" -> FirstKill(OnKill(Silent, k, v), k, v)
                  [] word = "team" -> FirstTeamKill(OnTeamKill(Silent, k, v), k, v)
                  [] word = "self" -> RecordDeath(Silent, v, NoOne)

\* on_map_over of both.
MapOver == spree' = InitSpree /\ story' = <<>>

\* on_disconnect, and the player comes back.
SpreeReconnect(p) ==
    /\ Len(story) < MaxEvents /\ story' = Append(story, <<"gone", p, p>>)
    /\ spree' = [Silent EXCEPT !.of[p] = NewSpree]

SpreeStep ==
    /\ \/ \E k, v \in Players \cup {NoOne} :
             \/ Deed("kill", k, v)
             \/ k # v /\ Deed("team", k, v)
             \/ k = v /\ v # NoOne /\ Deed("self", k, v)
       \/ MapOver \/ \E p \in Players : SpreeReconnect(p)
    /\ UNCHANGED <<spam, words, ping, nick>>

-----------------------------------------------------------------------------
Init ==
    /\ watch \in Watches /\ now = 0
    /\ \E can \in BOOLEAN :
          (can \/ watch \in {"spam", "words"}) /\ spam = InitSpam(can) /\ words = InitWords(can)
    /\ ping = InitPing
    /\ nick \in (IF watch = "nick" THEN {InitNick(f) : f \in [Players -> Names]}
                 ELSE {InitNick([p \in Players |-> CHOOSE n \in Names : TRUE])})
    /\ spree = InitSpree /\ story = <<>>

\* A sweep is run within its second, or Late.
Tick ==
    /\ now < MaxTime /\ watch # "spree" /\ now' = now + 1
    /\ watch = "nick" => now < nick.swept + Interval + Late
    /\ UNCHANGED <<watch, spam, words, ping, nick, spree, story>>

Next ==
    \/ Tick
    \/ /\ \/ watch = "spam" /\ SpamStep
          \/ watch = "words" /\ WordStep
          \/ watch = "ping" /\ PingStep
          \/ watch = "nick" /\ NickStep
          \/ watch = "spree" /\ SpreeStep
       /\ UNCHANGED <<watch, now>>

Spec == Init /\ [][Next]_conductVars

TypeOK ==
    /\ watch \in Watches /\ now \in 0..MaxTime
    /\ spam.points \in Nat /\ spam.did \in {Nothing, "warn", "mute"}
    /\ words.offences \in 0..(Len(Ladder) + WarnAfter + 1) /\ words.did \in {Nothing, "penalty"}
    /\ ping.highs \in 0..MaxEvents /\ ping.did \in {Nothing, "kick"}
    /\ nick.name \in [Players -> Names] /\ nick.owner \in [Names -> Players \cup {NoOne}]
    /\ spree.of \in [Players -> [kills : 0..MaxEvents, deaths : 0..MaxEvents,
                                 endKill : BOOLEAN, endLoss : BOOLEAN]]

-----------------------------------------------------------------------------
\* NoOne is put out, or silenced, for one deed: a warning or a mute for spam comes of at least
\* two messages since the last; the word's own penalty is for a player whose mutes are used up, or
\* who could not be muted, and never for one who is muted already; and who is kicked for a
\* ping was over the limit at every reading of a spell longer than Endurance.
NotForOnce ==
    /\ spam'.did # Nothing /\ spam' # spam => spam.lines >= 1
    /\ words'.did = "penalty" /\ words' # words =>
          words.mute <= now /\ (words.can => words.offences >= WarnAfter)
    /\ words'.for > 0 /\ words' # words => words.mute <= now /\ words'.for >= words.for
    /\ ping'.did = "kick" /\ ping' # ping => ping.highs >= 1 /\ now - ping.since > Endurance

\* Whoever has another's name is warned within two intervals, and again, however often the name
\* changes, unless the map does.
NobodyStealsForLong ==
    watch = "nick" => \A p \in Players :
        nick.since[p] # None => now - nick.since[p] <= 2 * Interval + Late

\* What happened in the map, by its events' numbers.
Leaves(i, p) == story[i][1] = "gone" /\ story[i][3] = p
Dies(i, p) == story[i][3] = p
Kills(i, p) == story[i][1] = "kill" /\ story[i][2] = p /\ story[i][3] # p

KillsSince(p) ==
    {i \in DOMAIN story : Kills(i, p) /\ \A j \in (i + 1)..Len(story) : ~Dies(j, p)}
DeathsSince(p) ==
    {i \in DOMAIN story :
        /\ Dies(i, p) /\ ~Leaves(i, p)
        /\ \A j \in (i + 1)..Len(story) : ~Kills(j, p) /\ ~Leaves(j, p)}

\* What is announced is so: a player's spree is the kills since the last death, of whatever kind,
\* and a losing streak the deaths since the last kill; who is on one that was announced is owed
\* its end; and the first kill of a map is announced once, and is the first.
SpreesAreTrue ==
    /\ \A p \in Players :
          LET me == spree.of[p] IN
          /\ me.kills = Cardinality(KillsSince(p)) /\ me.deaths = Cardinality(DeathsSince(p))
          /\ me.endKill <=> me.kills >= KillSpree
          /\ me.endLoss <=> me.deaths >= LossSpree
    /\ spree.kill <=> \A i \in DOMAIN story :
          story[i][1] = "kill" => story[i][2] = story[i][3] \/ NoOne \in {story[i][2], story[i][3]}

=============================================================================
