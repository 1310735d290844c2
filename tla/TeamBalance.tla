---------------------------- MODULE TeamBalance ----------------------------
(****************************************************************************)
(* Even teams on Medal of Honor, Bad Company 2, Homefront and Battlefield 3   *)
(* (plugins/poweradminmoh, poweradminbfbc2, poweradminhf, poweradminbf3).      *)
(* Players change team, admins and the bot move them, and the server says so   *)
(* later; whoever makes the teams uneven is put back.  Three of the plugins    *)
(* tell a player's own switch from a move of theirs by a mark on the client,   *)
(* and leave everybody alone for a while after a move.                        *)
(*                                                                          *)
(* Two playing teams.  Who joined a team last, and how a scramble deals, are    *)
(* left open; so are match mode, which holds off as the quiet time does, and    *)
(* the switch of the automatic balance, which is on.  The server takes every   *)
(* move, and says nothing of one that changes nothing.                        *)
(****************************************************************************)
EXTENDS Integers, Sequences, FiniteSets, SequencesExt

CONSTANTS
    Games,
    Players,
    Switchers,      \* who changes team of their own accord: the bound
    Exempt,         \* no_balance_level and bots
    Difference,     \* max_difference; team_swap_threshold is one more
    Quiet,          \* QUIET_SECONDS
    QuietAfterMove, \* QUIET_AFTER_MOVE
    MaxNews         \* how many lines the bot is behind: the bound

VARIABLES
    game,
    side,     \* the server: the team of each
    news,     \* the lines the bot has not read, <<player, team, own>>
    team,     \* client.team
    marked,   \* moved_by_bot
    quiet,    \* how long until _quiet_until
    planned,  \* scramble_planned
    settled,  \* _settled
    finished  \* _round_finished

tbVars == <<game, side, news, team, marked, quiet, planned, settled, finished>>

Teams == {"red", "blue"}
Other(t) == IF t = "red" THEN "blue" ELSE "red"
Marks == game # "bf3"

Init ==
    /\ game \in Games
    /\ side \in [Players -> Teams] /\ team = side
    /\ news = <<>>
    /\ marked = {}
    /\ quiet = IF Marks THEN Quiet ELSE 0
    /\ planned = FALSE /\ settled = TRUE /\ finished = FALSE

-----------------------------------------------------------------------------
On(t) == {p \in Players : team[p] = t}
Gap(t) == Cardinality(On(t)) - Cardinality(On(Other(t)))
Manned == On("red") # {} /\ On("blue") # {}
Larger(m, n) == IF m > n THEN m ELSE n

\* The players S are put where `to` has them: who is there already is not a line, the others
\* are one each, in any order.
CarriesOut(unread, S, to, own) ==
    LET lines == {<<p, to[p], own>> : p \in {q \in S : side[q] # to[q]}}
    IN  /\ Len(unread) + Cardinality(lines) <= MaxNews
        /\ side' = [p \in Players |-> IF p \in S THEN to[p] ELSE side[p]]
        /\ \E said \in SetToSeqs(lines) : news' = unread \o said

\* What the server is told to do: Homefront's verb takes no team, and changes the one that the
\* player is on.
Told(to) == IF game = "hf" THEN [p \in Players |-> Other(side[p])] ELSE to

\* The server's word, the mark and the bot's own view.
Put(unread, S, to) ==
    /\ CarriesOut(unread, S, Told(to), FALSE)
    /\ team' = [p \in Players |-> IF p \in S THEN to[p] ELSE team[p]]
    /\ marked' = IF Marks THEN marked \cup S ELSE marked

\* Mutant: a move is followed by no quiet.
MoveNoQuiet(unread, S, to, held) == Put(unread, S, to) /\ quiet' = held

\* move, and switch on Homefront: quiet follows.
Move(unread, S, to, held) ==
    /\ Put(unread, S, to)
    /\ quiet' = IF Marks THEN Larger(held, QuietAfterMove) ELSE held

Stays == UNCHANGED <<side, news, team, marked, quiet>>

\* balance: half of what one team has more, of those who may be moved.
Balance ==
    LET big == {t \in Teams : Manned /\ Gap(t) > Difference /\ ~(On(t) \subseteq Exempt)}
        size(t) == LET half == Gap(t) \div 2
                       movable == Cardinality(On(t) \ Exempt)
                   IN  IF movable < half THEN movable ELSE half
    IN  IF big = {} THEN Stays
        ELSE \E t \in big : \E P \in SUBSET (On(t) \ Exempt) :
                /\ Cardinality(P) = size(t)
                /\ Move(news, P, [p \in P |-> Other(t)], quiet)

-----------------------------------------------------------------------------
(* What the bot reads.                                                      *)

\* Whether who is on t now has made the teams uneven.
Uneven(p, t) ==
    LET on(u) == Cardinality({q \in Players \ {p} : team[q] = u})
    IN  /\ t \in Teams /\ p \notin Exempt
        /\ on(t) + 1 - on(Other(t)) > Difference

\* on_team_change on the games that mark.
PutsBack(p, t) ==
    /\ p \notin marked /\ quiet = 0
    /\ Uneven(p, t) /\ \E q \in Players \ {p} : team[q] = Other(t)

\* autoassign, for on_team_change of Battlefield 3; with nobody on the other team there is
\* no other team.
Reassigns(p, t) ==
    /\ finished /\ settled
    /\ Cardinality({q \in Players \ {p} : team[q] \in Teams}) + 1 >= 3
    /\ Uneven(p, t) /\ \E q \in Players \ {p} : team[q] = Other(t)

Intervenes(p, t) == IF Marks THEN PutsBack(p, t) ELSE Reassigns(p, t)

\* A line the bot has nothing against.
ReadAndLeave ==
    /\ news # <<>>
    /\ LET p == news[1][1]
           t == news[1][2]
       IN  /\ ~Intervenes(p, t)
           /\ team' = [team EXCEPT ![p] = t]
           /\ marked' = marked \ {p}
    /\ news' = Tail(news)
    /\ UNCHANGED <<side, quiet>>

\* A line for which the bot moves the player to the other team.
ReadAndMove ==
    /\ news # <<>>
    /\ LET p == news[1][1]
           t == news[1][2]
       IN  Intervenes(p, t) /\ Move(Tail(news), {p}, [q \in {p} |-> Other(t)], quiet)

Read ==
    /\ ReadAndLeave \/ ReadAndMove
    /\ UNCHANGED <<game, planned, settled, finished>>

-----------------------------------------------------------------------------
(* Players and admins.                                                      *)

SwitchTeam(p, t) ==
    /\ t # side[p]
    /\ CarriesOut(news, {p}, [q \in {p} |-> t], TRUE)
    /\ UNCHANGED <<game, team, marked, quiet, planned, settled, finished>>

\* !changeteam
ChangeTeam(p) ==
    /\ game = "hf" \/ team[p] \in Teams
    /\ Move(news, {p}, [q \in {p} |-> Other(team[p])], quiet)
    /\ UNCHANGED <<game, planned, settled, finished>>

\* !spect: Homefront's is not marked, and Battlefield 3 has none.
Spectate(p) ==
    /\ \/ game \in {"moh", "bfbc2"} /\ Move(news, {p}, [q \in {p} |-> "spec"], quiet)
       \/ /\ game = "hf"
          /\ CarriesOut(news, {p}, [q \in {p} |-> "spec"], FALSE)
          /\ team' = [team EXCEPT ![p] = "spec"]
          /\ quiet' = Larger(quiet, QuietAfterMove)
          /\ UNCHANGED marked
    /\ UNCHANGED <<game, planned, settled, finished>>

\* !swap
Swap(p, q) ==
    /\ game \in {"moh", "bf3"}
    /\ team[p] # team[q] /\ {team[p], team[q]} \subseteq Teams
    /\ Move(news, {p, q}, [r \in {p, q} |-> Other(team[r])], quiet)
    /\ UNCHANGED <<game, planned, settled, finished>>

\* !teams, !pateams, !autobalance now
AskBalance ==
    /\ Balance
    /\ UNCHANGED <<game, planned, settled, finished>>

\* _run_pending, when the time for a balance has come.
TimedBalance ==
    /\ \/ game = "moh" /\ quiet = 0
       \/ game = "bf3" /\ finished /\ settled
    /\ Balance
    /\ UNCHANGED <<game, planned, settled, finished>>

\* !scramble
PlanScramble ==
    /\ game \in {"moh", "bf3"}
    /\ planned' = ~planned
    /\ UNCHANGED <<game, side, news, team, marked, quiet, settled, finished>>

\* scramble: dealt in turn, so one team has one more at most and red is not the smaller.
Scramble(held) ==
    LET dealt == IF game = "moh" THEN {p \in Players : team[p] # "spec"} ELSE Players
    IN  IF Cardinality(dealt) < 3 THEN quiet' = held /\ UNCHANGED <<side, news, team, marked>>
        ELSE \E blue \in SUBSET dealt :
                /\ Cardinality(blue) = Cardinality(dealt) \div 2
                /\ Move(news, dealt, [p \in dealt |-> IF p \in blue THEN "blue" ELSE "red"], held)

\* on_round_start
RoundStart ==
    /\ LET held == IF Marks THEN Quiet ELSE quiet
       IN  IF planned THEN Scramble(held)
           ELSE quiet' = held /\ UNCHANGED <<side, news, team, marked>>
    /\ planned' = FALSE
    /\ settled' = TRUE
    /\ UNCHANGED <<game, finished>>

\* on_round_end of Battlefield 3
RoundEnd ==
    /\ game = "bf3"
    /\ finished' = TRUE
    /\ settled' = FALSE
    /\ UNCHANGED <<game, side, news, team, marked, quiet, planned>>

\* A line is read before a quiet time has run out.
Tick ==
    /\ quiet > 0 /\ news = <<>>
    /\ quiet' = quiet - 1
    /\ UNCHANGED <<game, side, news, team, marked, planned, settled, finished>>

Does(p) ==
    \/ ChangeTeam(p) \/ Spectate(p)
    \/ \E t \in Teams \cup {"spec"} : SwitchTeam(p, t)
    \/ \E q \in Switchers : Swap(p, q)

Next ==
    \/ \E p \in Switchers : Does(p)
    \/ Read \/ AskBalance \/ TimedBalance \/ PlanScramble \/ RoundStart \/ RoundEnd \/ Tick

-----------------------------------------------------------------------------
TypeOK ==
    /\ game \in Games
    /\ side \in [Players -> Teams \cup {"spec"}] /\ team \in [Players -> Teams \cup {"spec"}]
    /\ news \in Seq(Players \X (Teams \cup {"spec"}) \X BOOLEAN) /\ Len(news) <= MaxNews
    /\ marked \subseteq Players /\ quiet \in 0..Larger(Quiet, QuietAfterMove)
    /\ planned \in BOOLEAN /\ settled \in BOOLEAN /\ finished \in BOOLEAN

\* Once every line is read the bot has everybody on the team they are on, whatever players,
\* admins and the balancer did at once. (plugins/poweradminhf/__init__.py:298-311,
\* plugins/poweradminmoh/__init__.py:425-438)
TeamsSettle == news = <<>> => team = side

\* Where the bot marks whom it moves, only a switch of a player's own is undone: never what an
\* admin or the balancer has done. (plugins/poweradminmoh/__init__.py:349-372)
UndoesOnlyOwnSwitches == (ReadAndMove /\ Marks) => news[1][3]
=============================================================================
