------------------------------ MODULE Referee ------------------------------
(****************************************************************************)
(* The duties of plugins/poweradminurt beside the teams (UrtTeams): slaps    *)
(* given one a second, voting that is off for the first minutes of a round,  *)
(* names, the map rotation that fits the number of players, and AI players.   *)
(*                                                                          *)
(* They share match mode and the clock and nothing else, so a behaviour is    *)
(* about one of them.  What is asked of the server is answered; one rename of  *)
(* a player is one event.                                                    *)
(****************************************************************************)
EXTENDS Integers, FiniteSets

CONSTANTS
    Duties,
    Players,
    Repeats,     \* how many slaps an admin asks for
    VoteDelay,   \* vote_delay_minutes
    VoteValues,  \* what g_allowvote is when the bot starts
    VoteDefault,
    Names,
    MaxChanges,  \* namecheck_max_changes
    SmallMax, MediumMax, Margin,  \* of the rotations
    MaxPlayers,
    Maps,
    BotMaps,     \* botsupport_maps
    MaxOrders,   \* bound: how often an admin gives an order
    MaxTime      \* bound

VARIABLES
    duty,
    now,
    match,     \* match_mode
    orders,    \* the orders given
    slaps,     \* who is in the slot, whose leaving the plugin is still to be told, what is
               \* pending of each order; how often it slapped each, and was to
    votes,     \* g_allowvote, _vote_was, _voting_back_at; the last start of a round, and what
               \* voting was before
    names,     \* name_seen, name_changes, name_kicked; how often the player chose a name since
    rotation,  \* players, the band and the one before, and how many they were when it was chosen
    bots       \* the map, what the plugin is still to be told, bot_minplayers, _bots_running

refVars == <<duty, now, match, orders, slaps, votes, names, rotation, bots>>

None == -1
NoOne == "nobody"
NoName == "unknown"

Orders == 1..MaxOrders
NoSlaps == [k \in Orders \X Players |-> 0]
InitSlaps == [here |-> NoOne, left |-> {}, gone |-> {}, pending |-> [o \in {} |-> NoOne],
              given |-> NoSlaps, asked |-> NoSlaps]
InitVotes(v) == [cvar |-> v, was |-> None, backAt |-> None, started |-> None, before |-> None]
InitNames == [seen |-> NoName, changes |-> 0, kicked |-> FALSE, own |-> 0]
InitRotation == [players |-> 0, band |-> 0, from |-> 0, chosenAt |-> None]

Order == orders < MaxOrders /\ orders' = orders + 1

-----------------------------------------------------------------------------
(* Slaps.                                                                      *)

Fresh(p) == p # slaps.here /\ p \notin slaps.gone

Kept(s, S) == [o \in S |-> s.pending[o]]

\* _punish: once at once, and the rest is pending.  What an order does is told by its number.
Punish(times) ==
    /\ slaps.here # NoOne /\ Order
    /\ LET k == <<orders', slaps.here>>
           rest == [who |-> slaps.here, remaining |-> times - 1, due |-> now + 1]
           more == IF times = 1 THEN {} ELSE {orders'} IN
       slaps' = [slaps EXCEPT !.asked[k] = times, !.given[k] = 1,
                     !.pending = [o \in DOMAIN slaps.pending \cup more |->
                                     IF o = orders' THEN rest ELSE slaps.pending[o]]]

Dropped(s, p) ==
    [s EXCEPT !.pending = Kept(s, {o \in DOMAIN s.pending : s.pending[o].who # p})]

\* The one in the slot leaves by a line, and another may come by the next.
Joins(p) == slaps.here = NoOne /\ Fresh(p) /\ slaps' = [slaps EXCEPT !.here = p]

Leaves ==
    /\ slaps.here # NoOne
    /\ slaps' = Dropped([slaps EXCEPT !.here = NoOne, !.gone = @ \cup {slaps.here}], slaps.here)

\* A status shows another in the slot, or none: the plugin is told later.
Replaced(p) ==
    /\ slaps.here # NoOne /\ (p = NoOne \/ Fresh(p))
    /\ slaps' = [slaps EXCEPT !.here = p, !.gone = @ \cup {slaps.here},
                              !.left = @ \cup {slaps.here}]

OnDisconnect(p) ==
    p \in slaps.left /\ slaps' = Dropped([slaps EXCEPT !.left = @ \ {p}], p)

\* A bug: whoever has the slot takes the rest.
StillHereOrAnother(r, s) == TRUE

StillHere(r, s) == r.who = s.here

\* Those that are due: the next slap each, or none for one who is not there.  apply_verb names
\* the slot.
Due == {o \in DOMAIN slaps.pending : now >= slaps.pending[o].due}
Struck == {o \in Due : StillHere(slaps.pending[o], slaps) /\ slaps.here # NoOne}
Again == {o \in Struck : slaps.pending[o].remaining > 1}

RunRepeats ==
    /\ slaps.pending # InitSlaps.pending
    /\ slaps' = [slaps EXCEPT
          !.given = [k \in Orders \X Players |->
                        slaps.given[k] + IF k[1] \in Struck /\ k[2] = slaps.here THEN 1 ELSE 0],
          !.pending = [o \in (DOMAIN slaps.pending \ Due) \cup Again |->
                          IF o \in Again
                          THEN [slaps.pending[o] EXCEPT !.remaining = @ - 1, !.due = now + 1]
                          ELSE slaps.pending[o]]]

SlapStep ==
    /\ \/ \E n \in Repeats : Punish(n)
       \/ /\ UNCHANGED orders
          /\ \/ Leaves \/ RunRepeats \/ Replaced(NoOne)
             \/ \E p \in Players : Joins(p) \/ Replaced(p) \/ OnDisconnect(p)
    /\ UNCHANGED <<match, votes, names, rotation, bots>>

-----------------------------------------------------------------------------
(* Voting.                                                                     *)

Noted(v) == IF v.cvar # 0 THEN [v EXCEPT !.was = v.cvar] ELSE v

\* set_voting
SetVoting(v, on) ==
    IF on THEN [v EXCEPT !.cvar = IF v.was = None THEN VoteDefault ELSE v.was]
    ELSE [Noted(v) EXCEPT !.cvar = 0]

\* An admin's word: what voting was before no longer counts.
PaVote(on) == Order /\ votes' = [SetVoting(votes, on) EXCEPT !.before = None]

\* A bug: a round that starts within the delay does not begin it again.
StartVoteDelayOnce ==
    IF match \/ votes.cvar = 0 THEN votes
    ELSE [SetVoting(votes, FALSE) EXCEPT !.backAt = now + VoteDelay, !.before = votes.cvar]

\* _start_vote_delay.  Nothing in a match, or where voting is off.
StartVoteDelay ==
    IF match \/ (votes.backAt = None /\ votes.cvar = 0) THEN votes
    ELSE IF votes.backAt # None THEN [votes EXCEPT !.backAt = now + VoteDelay]
    ELSE [SetVoting(votes, FALSE) EXCEPT !.backAt = now + VoteDelay, !.before = votes.cvar]

RoundStart ==
    votes' = [StartVoteDelay EXCEPT !.started = IF match THEN @ ELSE now]

\* Every second.
CheckVoteDelay ==
    /\ votes.backAt # None /\ now >= votes.backAt
    /\ votes' = [SetVoting(votes, TRUE) EXCEPT !.backAt = None, !.before = None]

VoteStep ==
    /\ \/ \E on \in BOOLEAN : PaVote(on)
       \/ (RoundStart \/ CheckVoteDelay) /\ UNCHANGED orders
    /\ UNCHANGED <<match, slaps, names, rotation, bots>>

-----------------------------------------------------------------------------
(* Names.  The engine's renaming, Bob_3, is the name without its suffix.         *)

\* A bug: the engine's renaming counts.
Renamed(n) == TRUE

NewName(n) == names.seen # n

\* on_name_change: too many changes are a kick, once.
OnNameChange(n, chosen) ==
    LET changes == names.changes + IF NewName(n) THEN 1 ELSE 0 IN
    names' = [seen |-> n, changes |-> changes,
              kicked |-> names.kicked \/ changes > MaxChanges,
              own |-> names.own + IF chosen THEN 1 ELSE 0]

Rename(n) == Order /\ n # names.seen /\ OnNameChange(n, TRUE)

\* The engine renames the player, who may not have been seen renamed before.
EngineRenames == \E n \in Names : names.seen \in {NoName, n} /\ OnNameChange(n, FALSE)

\* The map ends: nothing was counted but the name is known.
ResetNameChanges == names' = [names EXCEPT !.changes = 0, !.kicked = FALSE, !.own = 0]

Reconnects == names' = InitNames

NameStep ==
    /\ \/ \E n \in Names : Rename(n)
       \/ (EngineRenames \/ ResetNameChanges \/ Reconnects) /\ UNCHANGED orders
    /\ UNCHANGED <<match, slaps, votes, rotation, bots>>

-----------------------------------------------------------------------------
(* The rotation: 1 is SMALL, 2 is MEDIUM, 3 is LARGE.                            *)

PlainBand(n) == IF n > MediumMax THEN 3 ELSE IF n > SmallMax THEN 2 ELSE 1

\* A bug: the switch alone.
BandForSwitch(n, band) == PlainBand(n)

\* _band_for
BandFor(n, band) ==
    IF band = 0 THEN PlainBand(n)
    ELSE IF n > MediumMax + Margin THEN 3
    ELSE IF n < SmallMax - Margin THEN 1
    ELSE IF (band = 3 /\ n < MediumMax - Margin) \/ (band = 1 /\ n > SmallMax + Margin) THEN 2
    ELSE band

\* rotation_check; nothing while the checks stand down.
RotationCheck(r) ==
    LET band == BandFor(r.players, r.band) IN
    IF band = r.band THEN r ELSE [r EXCEPT !.band = band, !.from = r.band, !.chosenAt = r.players]

Counted(n) == {[rotation EXCEPT !.players = n], RotationCheck([rotation EXCEPT !.players = n])}

\* Players come and go; they also take sides and watch, which is not an event here.
RotationStep ==
    /\ \E n \in {rotation.players - 1, rotation.players, rotation.players + 1} \cap 0..MaxPlayers :
          rotation' \in Counted(n)
    /\ UNCHANGED <<match, orders, slaps, votes, names, bots>>

-----------------------------------------------------------------------------
(* AI players.                                                                 *)

\* _set_bot_count: no zero over a server the plugin has not touched.
SetBotCount(b, n) ==
    IF n = 0 /\ ~b.running THEN b ELSE [b EXCEPT !.count = n, !.running = n > 0]

\* A bug: a match is not asked about.
BotSupportInMatch(b, inMatch) == IF b.map \in BotMaps THEN SetBotCount(b, 1) ELSE SetBotCount(b, 0)

BotSupport(b, inMatch) ==
    IF ~inMatch /\ b.map \in BotMaps THEN SetBotCount(b, 1) ELSE SetBotCount(b, 0)

\* The map ends.
GameExit == bots' = SetBotCount(bots, 0)

\* Another begins, and the plugin is told; the same again, or the first, it is not told of.
MapStarts(m) ==
    /\ bots.told
    /\ bots' = [bots EXCEPT !.map = m, !.told = m = bots.map \/ bots.map = NoName]

OnMapChange == ~bots.told /\ bots' = BotSupport([bots EXCEPT !.told = TRUE], match)

\* At startup, on whatever map it is, if that is known.
ApplyBotSettings(m) ==
    BotSupport([map |-> m, told |-> TRUE, count |-> 0, running |-> FALSE], FALSE)

BotStep ==
    /\ GameExit \/ OnMapChange \/ \E m \in Maps : MapStarts(m)
    /\ UNCHANGED <<orders, match, slaps, votes, names, rotation>>

-----------------------------------------------------------------------------
(* Match mode; the plugins it switches are a matter of Commands.                *)
SetMatchMode ==
    /\ Order /\ match' = ~match
    /\ bots' = BotSupport(bots, match')
    /\ UNCHANGED <<slaps, votes, names, rotation>>

-----------------------------------------------------------------------------
Init ==
    /\ duty \in Duties /\ now = 0 /\ match = FALSE /\ orders = 0
    /\ slaps = InitSlaps
    /\ \E v \in VoteValues : votes = InitVotes(v)
    /\ names = InitNames /\ rotation = InitRotation
    /\ \E m \in IF duty = "bots" THEN Maps \cup {NoName} ELSE {NoName} : bots = ApplyBotSettings(m)

Tick == duty \in {"slaps", "votes"} /\ now < MaxTime /\ now' = now + 1

Next ==
    /\ \/ Tick /\ UNCHANGED <<match, orders, slaps, votes, names, rotation, bots>>
       \/ /\ UNCHANGED now
          /\ \/ duty = "slaps" /\ SlapStep
             \/ duty = "votes" /\ VoteStep
             \/ duty = "names" /\ NameStep
             \/ duty = "rotation" /\ RotationStep
             \/ duty = "bots" /\ BotStep
             \/ duty \in {"votes", "bots"} /\ SetMatchMode
    /\ UNCHANGED duty

Spec == Init /\ [][Next]_refVars

-----------------------------------------------------------------------------
TypeOK ==
    /\ duty \in Duties /\ now \in 0..MaxTime /\ match \in BOOLEAN /\ orders \in 0..MaxOrders
    /\ slaps.here \in Players \cup {NoOne} /\ slaps.left \subseteq slaps.gone
    /\ votes.cvar \in VoteValues \cup {0, VoteDefault}
    /\ names.seen \in Names \cup {NoName} /\ rotation.band \in 0..3
    /\ bots.map \in Maps \cup {NoName} /\ bots.count \in {0, 1}

\* No order slaps anybody more often than an admin asked for them, whoever comes to have the
\* slot: whom it was not for it never slaps.
\* (poweradminurt/__init__.py:1202-1220)
SlappedAsAsked == \A k \in Orders \X Players : slaps.given[k] <= slaps.asked[k]

\* While voting is off for the start of a round, and no admin has set it, it is off and what it
\* will be is what it was.  (poweradminurt/__init__.py:2745-2755 and 2762-2791)
VotingIsKept ==
    votes.backAt # None /\ votes.before # None => votes.cvar = 0 /\ votes.was = votes.before

\* A player is not kicked for names the engine gave, but for the first that was seen.
\* (poweradminurt/__init__.py:1894-1931)
KickedForOwnNames == names.kicked => names.own + 1 > MaxChanges

\* AI players play on the maps that are safe for them, and in no match.
\* (poweradminurt/__init__.py:1792-1824)
BotsWhereSafe == bots.told /\ bots.count > 0 => bots.map \in BotMaps /\ ~match

RefereeIsFair == SlappedAsAsked /\ VotingIsKept /\ KickedForOwnNames /\ BotsWhereSafe

\* Voting is given back no earlier than the delay after the last start of a round, unless an admin
\* says so, and the rotation goes back to what it was only when the number of players has moved by
\* more than the margin since.  (poweradminurt/__init__.py:2775-2778 and 1649-1668)
NothingTooSoon ==
    /\ votes.cvar = 0 /\ votes'.cvar # 0 /\ orders' = orders /\ votes.started # None =>
          now - votes.started >= VoteDelay
    /\ rotation'.band # rotation.band /\ rotation'.band = rotation.from =>
          LET d == rotation'.players - rotation.chosenAt IN d > Margin \/ -d > Margin
=============================================================================
