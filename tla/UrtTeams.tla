------------------------------ MODULE UrtTeams ------------------------------
(****************************************************************************)
(* Who plays for which team on Urban Terror (plugins/poweradminurt): an      *)
(* admin forces a player into a team and may lock them there, the balancer   *)
(* and the shuffles move players, players move themselves and the server     *)
(* moves everybody.  The bot learns of a move from a line of the log, and    *)
(* counts by client.team, which it also sets itself when it moves somebody.  *)
(* A line that says what client.team already is raises no event.             *)
(*                                                                          *)
(* The server carries out every forceteam; locks end with the map, which is so *)
(* unless the operator has them stay (team_locks_permanent).  Match           *)
(* mode holds off as the quiet time does and is left out, and so is the least  *)
(* time between two deals.  Who of the bigger team came last                   *)
(* and what a deal of the players is worth are left open.                    *)
(****************************************************************************)
EXTENDS Integers, Sequences, FiniteSets, SequencesExt

CONSTANTS
    Players,
    Exempt,      \* at or above teambalance_max_level
    Tolerance,   \* teambalance_difference
    Quiet,       \* teambalance_quiet_seconds
    RoundBased,  \* the gametype is one of teambalance_round_based
    ForceInto,   \* the teams an admin forces players into
    MaxNews      \* how many lines the bot is behind: the bound

VARIABLES
    side,           \* the server: the team of each
    news,           \* the log the bot has not read, <<player, team>>
    team,           \* client.team
    locked,         \* locked_to
    quiet,          \* how long until _quiet_until
    roundEnded,     \* _round_ended
    balancePending, \* _balance_pending
    skillPending,   \* _skill_pending
    dealt           \* history: the locked players a shuffle has moved since

rounds == <<roundEnded, balancePending, skillPending>>
utVars == <<side, news, team, locked, quiet, rounds, dealt>>

Sides == {"red", "blue"}
Other(t) == IF t = "red" THEN "blue" ELSE "red"
NoSide == "none"

Init ==
    /\ side \in [Players -> Sides] /\ team = side
    /\ news = <<>>
    /\ locked = [p \in Players |-> NoSide]
    /\ quiet = Quiet
    /\ roundEnded = FALSE
    /\ balancePending = FALSE /\ skillPending = FALSE
    /\ dealt = {}

-----------------------------------------------------------------------------
(* The server.                                                              *)

\* How the players stand after those of S have been put where `to` has them, and the lines
\* that say so: none of who was there already.
After(from, S, to) == [p \in Players |-> IF p \in S THEN to[p] ELSE from[p]]
Lines(from, S, to) == {<<p, to[p]>> : p \in {q \in S : from[q] # to[q]}}

CarriesOut(S, to) ==
    /\ Len(news) + Cardinality(Lines(side, S, to)) <= MaxNews
    /\ side' = After(side, S, to)
    /\ \E said \in SetToSeqs(Lines(side, S, to)) : news' = news \o said

Stays == UNCHANGED <<side, news>>

\* A player changes team, or the server shuffles or swaps the teams for the admin.
ChangeTeam(p, t) ==
    /\ t # side[p]
    /\ CarriesOut({p}, [q \in {p} |-> t])
    /\ UNCHANGED <<team, locked, quiet, rounds, dealt>>

-----------------------------------------------------------------------------
(* The balancer.                                                            *)

On(t) == {p \in Players : team[p] = t}
HoldingOff == quiet > 0
MayMove(p) == locked[p] = NoSide /\ p \notin Exempt

\* _move, for each of P.
Move(P, t) ==
    /\ CarriesOut(P, [p \in P |-> t])
    /\ team' = [p \in Players |-> IF p \in P THEN t ELSE team[p]]

\* balance: as many as it takes, of the bigger team.
Balance ==
    \E t \in Sides :
        LET surplus == Cardinality(On(t)) - Cardinality(On(Other(t)))
            movable == {p \in On(t) : MayMove(p)}
            wanted == (surplus - Tolerance + 1) \div 2
        IN  IF surplus <= Tolerance \/ movable = {}
            THEN /\ Cardinality(On(Other(t))) - Cardinality(On(t)) <= Tolerance \/ movable = {}
                 /\ surplus >= 0
                 /\ Stays /\ UNCHANGED <<team, quiet>>
            ELSE \E P \in SUBSET movable :
                    /\ Cardinality(P) = IF Cardinality(movable) < wanted
                                        THEN Cardinality(movable) ELSE wanted
                    /\ Move(P, Other(t))
                    /\ quiet' = Quiet

\* _teamcheck, every so often, and !pateams, which does not ask whether to hold off.
TeamCheck(asked) ==
    /\ asked \/ ~HoldingOff
    /\ IF RoundBased /\ ~roundEnded
       THEN balancePending' = TRUE /\ Stays /\ UNCHANGED <<team, quiet>>
       ELSE Balance /\ UNCHANGED balancePending
    /\ UNCHANGED <<locked, roundEnded, skillPending, dealt>>

\* _balance_after_switch: put back who has just made the teams uneven.
PutBack(p, t) ==
    /\ ~HoldingOff /\ t \in Sides /\ MayMove(p)
    /\ Cardinality(On(t) \cup {p}) - Cardinality(On(Other(t)) \ {p}) > Tolerance

\* Mutant: whoever changes team is let go, locked or not.
ReadUnlocked ==
    /\ news # <<>>
    /\ team' = [team EXCEPT ![news[1][1]] = news[1][2]]
    /\ news' = Tail(news)
    /\ UNCHANGED <<side, locked, quiet, rounds, dealt>>

\* A line of the log, and on_team_change when it is news to the bot.
Read ==
    /\ news # <<>>
    /\ LET p == news[1][1]
           t == news[1][2]
           forced == locked[p] \notin {NoSide, t}
           back == locked[p] = NoSide /\ PutBack(p, t)
           to == IF forced THEN locked[p] ELSE Other(t)
       IN  IF team[p] = t \/ ~(forced \/ back)
           THEN team' = [team EXCEPT ![p] = t] /\ news' = Tail(news) /\ UNCHANGED side
           ELSE /\ side' = [side EXCEPT ![p] = to]
                /\ news' = Tail(news) \o IF side[p] = to THEN <<>> ELSE <<<<p, to>>>>
                /\ team' = [team EXCEPT ![p] = IF forced THEN t ELSE to]
    /\ UNCHANGED <<locked, quiet, rounds, dealt>>

-----------------------------------------------------------------------------
(* What an admin does.                                                      *)

\* !paforce: the team, and whether to hold them there.
Force(p, t, lock) ==
    /\ locked' = [locked EXCEPT ![p] = IF lock THEN t ELSE NoSide]
    /\ CarriesOut({p}, [q \in {p} |-> t])
    /\ quiet' = Quiet
    /\ dealt' = dealt \ {p}
    /\ UNCHANGED <<team, rounds>>

\* !paforce <player> free
Free(p) ==
    /\ locked[p] # NoSide
    /\ locked' = [locked EXCEPT ![p] = NoSide]
    /\ dealt' = dealt \ {p}
    /\ UNCHANGED <<side, news, team, quiet, rounds>>

\* !paswap: the server exchanges the two.
Swap(p, q) ==
    /\ team[p] # team[q] /\ {team[p], team[q]} \subseteq Sides
    /\ CarriesOut({p, q}, [r \in {p, q} |-> IF r = p THEN side[q] ELSE side[p]])
    /\ quiet' = Quiet
    /\ UNCHANGED <<team, locked, rounds, dealt>>

\* !paswapteams
SwapTeams ==
    /\ CarriesOut(Players, [p \in Players |-> IF side[p] \in Sides THEN Other(side[p]) ELSE side[p]])
    /\ quiet' = Quiet
    /\ UNCHANGED <<team, locked, rounds, dealt>>

-----------------------------------------------------------------------------
(* The shuffles.                                                            *)

Playing == On("red") \cup On("blue")

\* _random_teams: who may be on the blue side of a deal.  The locked stay where they are.
Deals ==
    LET held == {p \in Playing : locked[p] # NoSide}
        free == Playing \ held
        n == Cardinality(Playing) \div 2 - Cardinality(held \cap On("blue"))
        size == IF n < 0 THEN 0 ELSE IF n > Cardinality(free) THEN Cardinality(free) ELSE n
    IN  {(held \cap On("blue")) \cup S : S \in {T \in SUBSET free : Cardinality(T) = size}}

\* shuffle_into.  When the teams are as large, one of those who go to blue is parked in the
\* spectators until the others have gone.
ShuffleInto(blue) ==
    LET to == [p \in Playing |-> IF p \in blue THEN "blue" ELSE "red"]
        aside == [p \in Playing |-> "spec"]
        going == {p \in Playing : team[p] # to[p]}
        even == Cardinality(On("blue")) = Cardinality(On("red"))
        parked == IF even THEN going \cap blue ELSE {}
    IN  /\ side' = After(side, going, to)
        /\ \E P \in IF parked = {} THEN {{}} ELSE {{p} : p \in parked} :
              \E out \in SetToSeqs(Lines(side, P, aside)),
                 said \in SetToSeqs(Lines(side, going \ P, to)),
                 back \in SetToSeqs(Lines(After(side, P, aside), P, to)) :
                    news' = news \o out \o said \o back /\ Len(news') <= MaxNews
        /\ team' = [p \in Players |-> IF p \in going THEN to[p] ELSE team[p]]
        /\ dealt' = dealt \cup {p \in going : locked[p] # NoSide}
        /\ quiet' = IF going = {} THEN quiet ELSE Quiet

\* skuffle.  Whoever asked stays where they are: the other way round if need be.
Skuffle(asker) ==
    \/ Stays /\ UNCHANGED <<team, quiet, dealt>>
    \/ \E blue \in Deals :
          ShuffleInto(IF asker \in Playing /\ (asker \in blue) # (team[asker] = "blue")
                      THEN Playing \ blue ELSE blue)

\* At once, or when the round ends.
Deal(asker) ==
    /\ IF RoundBased /\ ~roundEnded
       THEN skillPending' = TRUE /\ Stays /\ UNCHANGED <<team, quiet, dealt>>
       ELSE Skuffle(asker) /\ UNCHANGED skillPending
    /\ UNCHANGED <<locked, roundEnded, balancePending>>

\* skillcheck, every so often; what it would have done for nobody is a deal.
SkillCheck == ~HoldingOff /\ Deal(NoSide)

\* !paskuffle, and !pabalance, whose deal is not turned round for who asked.
SkillAsked(p) == Deal(p) \/ Deal(NoSide)

\* !paunskuffle: the worse half is blue, whoever they are.
Unskuffle ==
    /\ \E blue \in SUBSET Playing :
          Cardinality(blue) = Cardinality(Playing) \div 2 /\ ShuffleInto(blue)
    /\ UNCHANGED <<locked, rounds>>

-----------------------------------------------------------------------------
(* Rounds.                                                                  *)

RoundStart ==
    /\ roundEnded' = FALSE
    /\ quiet' = Quiet
    /\ UNCHANGED <<side, news, team, locked, balancePending, skillPending, dealt>>

\* What was put off is done now.
RoundEnd ==
    /\ roundEnded' = TRUE
    /\ balancePending' = FALSE /\ skillPending' = FALSE
    /\ IF skillPending THEN Skuffle(NoSide)
       ELSE IF balancePending THEN Balance /\ UNCHANGED dealt
       ELSE Stays /\ UNCHANGED <<team, quiet, dealt>>
    /\ UNCHANGED locked

\* The map is over, and so are the locks.
GameExit ==
    /\ balancePending' = FALSE /\ skillPending' = FALSE
    /\ quiet' = Quiet
    /\ locked' = [p \in Players |-> NoSide] /\ dealt' = {}
    /\ UNCHANGED <<side, news, team, roundEnded>>

Tick ==
    /\ quiet > 0
    /\ quiet' = quiet - 1
    /\ UNCHANGED <<side, news, team, locked, rounds, dealt>>

Does(p) ==
    \/ \E t \in Sides \cup {"spec"} : ChangeTeam(p, t)
    \/ \E t \in ForceInto, lock \in BOOLEAN : Force(p, t, lock)
    \/ Free(p) \/ SkillAsked(p) \/ \E q \in Players : Swap(p, q)

Next ==
    \/ \E p \in Players : Does(p)
    \/ \E asked \in BOOLEAN : TeamCheck(asked)
    \/ SkillCheck \/ Read \/ SwapTeams \/ Unskuffle \/ RoundStart \/ RoundEnd \/ GameExit \/ Tick

-----------------------------------------------------------------------------
TypeOK ==
    /\ side \in [Players -> Sides \cup {"spec"}] /\ team \in [Players -> Sides \cup {"spec"}]
    /\ news \in Seq(Players \X (Sides \cup {"spec"})) /\ Len(news) <= MaxNews
    /\ locked \in [Players -> Sides \cup {"spec", NoSide}]
    /\ quiet \in 0..Quiet /\ roundEnded \in BOOLEAN
    /\ balancePending \in BOOLEAN /\ skillPending \in BOOLEAN
    /\ dealt \subseteq Players

\* Once every line is read the bot has everybody on the team they are on, and whoever is
\* locked is on theirs, unless a shuffle has moved them: however moves by players, admins,
\* balancer and server fell together.  (plugins/poweradminurt/__init__.py:1269-1304,
\* 1372-1412, 1439-1465)
TeamsSettle ==
    news = <<>> =>
        /\ team = side
        /\ \A p \in Players \ dealt : locked[p] \in {NoSide, side[p]}
=============================================================================
