------------------------------ MODULE Penalties ------------------------------
(****************************************************************************)
(* Bans, timed bans, kicks and warnings (runtime/bot.py over storage).  A    *)
(* penalty is recorded first and told to the game server second, over a      *)
(* link that loses commands; the record is what the bot enforces when the    *)
(* player is authenticated again.  The server keeps a ban list of its own,   *)
(* and what its verbs can express differs from title to title.               *)
(*                                                                          *)
(* The log is read in order, so a player's quit line is seen before their    *)
(* next join line; Session has the rest of how a client comes to be known.   *)
(* Rows are ordered by time_add and id; the clock is taken never to go back. *)
(****************************************************************************)
EXTENDS Integers, Sequences, FiniteSetsExt

CONSTANTS
    Players,
    Minute,        \* the ticks of the clock in a minute
    MaxTime,       \* how long the clock runs: the bound
    MaxRecords,    \* how many penalties are ever recorded: the bound
    Lengths,       \* the minutes a timed ban or a warning is given for
    Timed,         \* profile.tempban_template is not None
    Cap,           \* profile.tempban_max_minutes, 0 for none
    ZeroIsForever, \* the verb reads a length of 0 as a permanent ban
    ByGuid,        \* the ban verb names a guid rather than a slot
    KickOnly,      \* profile.ban_template = profile.kick_template
    CanUnban,      \* profile.unban_template is not None
    Reliable       \* every command reaches the server

ASSUME ClockAssumption == Minute \in Nat \ {0} /\ MaxTime \in Nat /\ MaxRecords \in Nat
ASSUME ProfileAssumption == Lengths \subseteq Nat /\ Cap \in Nat

VARIABLES
    now,
    penalties, \* storage: the rows of the penalties table, oldest first
    seated,    \* the server: who is on it
    serverBan, \* the server: when each player's entry on its ban list ends, 0 for none
    client,    \* the bot: "none", "authed" or "rejected"
    stuck      \* history: an entry of the server's list outlived an unban

vars == <<now, penalties, seated, serverBan, client, stuck>>

Never == -1  \* NEVER_EXPIRES
Bans == {"ban", "tempban"}
Types == Bans \cup {"kick", "warning"}
Ends == {Never} \cup Nat
Penalty == [who : Players, type : Types, duration : Nat, expire : Ends, inactive : BOOLEAN]

Init ==
    /\ now = 0
    /\ penalties = <<>>
    /\ seated = {}
    /\ serverBan = [p \in Players |-> 0]
    /\ client = [p \in Players |-> "none"]
    /\ stuck = [p \in Players |-> FALSE]

-----------------------------------------------------------------------------
(* The penalties table.                                                     *)

\* Mutant: a row counts until somebody lifts it.
StillRunsAlways(end) == TRUE

StillRuns(end) == end = Never \/ end > now

Active(i) == ~penalties[i].inactive /\ StillRuns(penalties[i].expire)

\* get_active_penalties, as row numbers: the newest is the largest.
ActiveOf(p, type) ==
    {i \in DOMAIN penalties : Active(i) /\ penalties[i].who = p /\ penalties[i].type = type}

\* add_penalty, through _record_penalty
Record(p, type, minutes, end) ==
    /\ Len(penalties) < MaxRecords
    /\ penalties' = Append(penalties, [who |-> p, type |-> type, duration |-> minutes,
                                       expire |-> end, inactive |-> FALSE])

\* disable_penalties
Disable(p, types) ==
    penalties' = [i \in DOMAIN penalties |->
        [penalties[i] EXCEPT !.inactive =
            @ \/ (penalties[i].who = p /\ penalties[i].type \in types)]]

-----------------------------------------------------------------------------
(* The server's verbs.                                                      *)

ListedOn(p) == serverBan[p] = Never \/ serverBan[p] > now

\* A verb that names a slot is not sent for who is in none (_send_penalty).
Reaches(p) == p \in seated \/ (ByGuid /\ ~KickOnly)

\* A ban verb: the server throws the player out and lists them, or never hears it.
ServerBans(p, end) ==
    \/ /\ Reaches(p)
       /\ seated' = seated \ {p}
       /\ serverBan' = IF KickOnly THEN serverBan ELSE [serverBan EXCEPT ![p] = end]
    \/ ~(Reliable /\ Reaches(p)) /\ UNCHANGED <<seated, serverBan>>

Capped(minutes) == IF Cap > 0 /\ minutes > Cap THEN Cap ELSE minutes

\* _send_tempban
SendTempban(p, minutes) ==
    ServerBans(p, IF ~Timed \/ (minutes = 0 /\ ZeroIsForever) THEN Never
                  ELSE now + Capped(minutes) * Minute)

-----------------------------------------------------------------------------
(* A player comes and goes.                                                 *)

Connect(p) ==
    /\ p \notin seated
    /\ client[p] = "none"
    /\ ~ListedOn(p)
    /\ seated' = seated \cup {p}
    /\ UNCHANGED <<now, penalties, serverBan, client, stuck>>

Leave(p) ==
    /\ p \in seated
    /\ seated' = seated \ {p}
    /\ UNCHANGED <<now, penalties, serverBan, client, stuck>>

\* The quit line of a player who left or was thrown out.
Quit(p) ==
    /\ p \notin seated
    /\ client[p] # "none"
    /\ client' = [client EXCEPT ![p] = "none"]
    /\ UNCHANGED <<now, penalties, seated, serverBan, stuck>>

\* Mutant: a timed ban is re-applied for its whole length.
RemainingWhole(i) == penalties[i].duration

\* enforce_ban: what is left of a timed ban, in minutes.
Remaining(i) == Max({1, (penalties[i].expire - now) \div Minute})

\* _ban_in_force and enforce_ban: the newest ban, or else the newest timed ban.
EnforceBan(p) ==
    IF ActiveOf(p, "ban") # {} THEN ServerBans(p, Never)
    ELSE SendTempban(p, Remaining(Max(ActiveOf(p, "tempban"))))

\* Mutant: only permanent bans are looked for.
BannedForGood(p) == ActiveOf(p, "ban") # {}

Banned(p) == ActiveOf(p, "ban") # {} \/ ActiveOf(p, "tempban") # {}

\* A join line, the one a map change repeats included (_authenticate).  A client
\* that was rejected stays so, and nothing is sent for its lines again.
Join(p) ==
    /\ p \in seated
    /\ client[p] # "rejected"
    /\ IF Banned(p)
       THEN client' = [client EXCEPT ![p] = "rejected"] /\ EnforceBan(p)
       ELSE client' = [client EXCEPT ![p] = "authed"] /\ UNCHANGED <<seated, serverBan>>
    /\ UNCHANGED <<now, penalties, stuck>>

-----------------------------------------------------------------------------
(* What an admin or a plugin does.  The player may be offline.               *)

Ban(p) ==
    /\ Record(p, "ban", 0, Never)
    /\ ServerBans(p, Never)
    /\ UNCHANGED <<now, client, stuck>>

Tempban(p, minutes) ==
    /\ Record(p, "tempban", minutes, now + minutes * Minute)
    /\ SendTempban(p, minutes)
    /\ UNCHANGED <<now, client, stuck>>

Kick(p) ==
    /\ Record(p, "kick", 0, Never)
    /\ seated' \in {seated \ {p}} \cup (IF Reliable THEN {} ELSE {seated})
    /\ UNCHANGED <<now, serverBan, client, stuck>>

Warn(p, minutes) ==
    /\ Record(p, "warning", minutes, IF minutes > 0 THEN now + minutes * Minute ELSE Never)
    /\ UNCHANGED <<now, seated, serverBan, client, stuck>>

\* Every ban is lifted and the server told.  !unban asks for this only while a ban is
\* in force, the undoing of a vote without looking.
Unban(p) ==
    /\ Disable(p, Bans)
    /\ \/ /\ CanUnban
          /\ serverBan' = [serverBan EXCEPT ![p] = 0]
          /\ stuck' = [stuck EXCEPT ![p] = FALSE]
       \/ /\ ~(CanUnban /\ Reliable)
          /\ stuck' = [stuck EXCEPT ![p] = @ \/ ListedOn(p)]
          /\ UNCHANGED serverBan
    /\ UNCHANGED <<now, seated, client>>

\* !warnclear
ClearWarnings(p) ==
    /\ ActiveOf(p, "warning") # {}
    /\ Disable(p, {"warning"})
    /\ UNCHANGED <<now, seated, serverBan, client, stuck>>

Tick ==
    /\ now < MaxTime
    /\ now' = now + 1
    /\ UNCHANGED <<penalties, seated, serverBan, client, stuck>>

Comes(p) == Connect(p) \/ Leave(p) \/ Quit(p) \/ Join(p)

Moderates(p) ==
    \/ Ban(p) \/ Kick(p) \/ Unban(p) \/ ClearWarnings(p)
    \/ \E m \in Lengths : Tempban(p, m) \/ Warn(p, m)

Next == Tick \/ \E p \in Players : Comes(p) \/ Moderates(p)

Spec == Init /\ [][Next]_vars

\* The bot reads its log and the clock runs.
BotSpec == Spec /\ WF_vars(Tick) /\ \A p \in Players : SF_vars(Join(p)) /\ WF_vars(Quit(p))

\* And the players keep coming back, and none stays on the server for ever.
FairSpec == BotSpec /\ \A p \in Players : WF_vars(Connect(p)) /\ WF_vars(Leave(p))

-----------------------------------------------------------------------------
TypeOK ==
    /\ now \in 0..MaxTime
    /\ penalties \in Seq(Penalty) /\ Len(penalties) <= MaxRecords
    /\ seated \subseteq Players
    /\ serverBan \in [Players -> Ends]
    /\ client \in [Players -> {"none", "authed", "rejected"}]
    /\ stuck \in [Players -> BOOLEAN]

BanRows(p) ==
    {i \in DOMAIN penalties : penalties[i].who = p /\ penalties[i].type \in Bans}

\* The ends of the sentences on record that nobody lifted.
Terms == [p \in Players |->
    {penalties[i].expire : i \in {j \in BanRows(p) : ~penalties[j].inactive}}]

\* Nobody is admitted while any sentence of theirs runs, a later one never
\* shortens an earlier one, an unban lifts every one, and a warning that ends or
\* is cleared lifts none.  (bot.py:850-930, 2016-2148, store.py:143-194)
Sentence == INSTANCE Sentences WITH terms <- Terms,
                                    admitted <- {p \in Players : client[p] = "authed"}
ImplementsSentences == Sentence!Spec

\* How long the records keep a player out.
OwedUntil(p) == Max({0} \cup Terms[p])

\* The server's own ban list follows the record: a permanent entry has a permanent
\* ban behind it, and a timed one outlasts the record by less than the minute the
\* remaining time is rounded up to.  (bot.py:930-948, 2053-2080)
ServerKeepsToTheSentence ==
    \A p \in Players : ListedOn(p) /\ ~stuck[p] =>
        IF serverBan[p] = Never THEN Never \in Terms[p]
        ELSE Never \in Terms[p] \/ serverBan[p] < OwedUntil(p) + Minute

\* Whoever's sentences have been over for a minute is let in again and served,
\* unless an unban never reached the server.  (bot.py:930-948, 2103-2148)
ComesBack ==
    \A p \in Players :
        <>[](~stuck[p] /\ \A end \in Terms[p] : end # Never /\ end + Minute <= now)
            => []<>(client[p] = "authed")

=============================================================================
