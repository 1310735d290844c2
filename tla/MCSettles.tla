------------------------------ MODULE MCSettles ------------------------------
(* What comes to rest, one part at a time: the roster of Session on one slot,  *)
(* where it must settle, the teams of a game, duels, and the wait for a match. *)
(* A variable of a part that is not the one being checked is Off, those of     *)
(* Session are at rest.                                                       *)
EXTENDS MCSession

CONSTANTS
    Rivals, MaxDuels, Timeout, MaxKills, MaxTime,                          \* of Duels
    Crew, Exempt, Tolerance, Quiet, RoundBased, ForceInto, MaxNews,        \* of UrtTeams
    Games, Squad, Switchers, Spared, Difference, Calm, CalmAfterMove, MaxLines, \* TeamBalance
    Crowd, Nag, CountFrom, Beat                                            \* of ReadyUp

VARIABLES
    part, now, connected,
    duels, agreed,
    side, news, team, hush,
    locked, roundEnded, balancePending, skillPending, dealt,
    game, marked, planned, settled, finished,
    here, inForce, inMatch, awaiting, ready, count, wait, willing

Fight == INSTANCE Duels WITH Players <- Rivals

Turf == INSTANCE UrtTeams WITH Players <- Crew, quiet <- hush

Even == INSTANCE TeamBalance WITH
    Players <- Squad, Exempt <- Spared, Quiet <- Calm, QuietAfterMove <- CalmAfterMove,
    MaxNews <- MaxLines, quiet <- hush

Muster == INSTANCE ReadyUp WITH Players <- Crowd, match <- inMatch, agreed <- willing

\* What a quiet time is set to is some time: QUIET_SECONDS and QUIET_AFTER_MOVE of the plugins.
ASSUME DuelAssumption == MaxKills \in Nat /\ MaxTime \in Nat
ASSUME CrewAssumption ==
    IsFiniteSet(Crew) /\ Quiet \in Nat /\ MaxNews \in Nat /\ ForceInto \subseteq {"red", "blue", "spec"}
ASSUME SquadAssumption ==
    /\ IsFiniteSet(Squad) /\ Switchers \subseteq Squad
    /\ Calm \in Nat \ {0} /\ CalmAfterMove \in Nat \ {0} /\ MaxLines \in Nat
ASSUME CrowdAssumption == Muster!Paces

Off == "off"
NoDuel == duels = Off /\ agreed = Off /\ now = Off /\ connected = Off
NoTurf == locked = Off /\ roundEnded = Off /\ balancePending = Off /\ skillPending = Off
          /\ dealt = Off
NoEven == game = Off /\ marked = Off /\ planned = Off /\ settled = Off /\ finished = Off
NoTeams == side = Off /\ news = Off /\ team = Off /\ hush = Off
NoMatch == here = Off /\ inForce = Off /\ inMatch = Off /\ awaiting = Off /\ ready = Off
           /\ count = Off /\ wait = Off /\ willing = Off

\* Nobody is on the server and nothing may happen.
NoRoster ==
    /\ seat = [s \in Slots |-> None] /\ table = seat /\ lines = <<>> /\ client = seat
    /\ banned = {} /\ events = 0 /\ missed = 0 /\ unreadable = 0
    /\ AuthInit

\* What a part has to itself rests while another is checked.
Rests ==
    /\ IF part = "roster" THEN TRUE ELSE NoRoster
    /\ IF part = "duel" THEN TRUE ELSE NoDuel
    /\ IF part = "turf" THEN TRUE ELSE NoTurf
    /\ IF part = "even" THEN TRUE ELSE NoEven
    /\ IF part \in {"turf", "even"} THEN TRUE ELSE NoTeams
    /\ IF part = "match" THEN TRUE ELSE NoMatch

SettlesInit ==
    /\ \/ part = "roster" /\ Init
       \/ part = "duel" /\ Fight!Init
       \/ part = "turf" /\ Turf!Init
       \/ part = "even" /\ Even!Init
       \/ part = "match" /\ Muster!Init
    /\ Rests

duelVars == <<duels, agreed, now, connected>>
turfVars == <<locked, roundEnded, balancePending, skillPending, dealt>>
evenVars == <<game, marked, planned, settled, finished>>
teamVars == <<side, news, team, hush>>
matchVars == <<here, inForce, inMatch, awaiting, ready, count, wait, willing>>
allVars == <<part, vars, duelVars, turfVars, evenVars, teamVars, matchVars>>

SettlesNext ==
    /\ \/ part = "roster" /\ Next
       \/ part = "duel" /\ Fight!Next
       \/ part = "turf" /\ Turf!Next
       \/ part = "even" /\ Even!Next
       \/ part = "match" /\ Muster!Next
    /\ IF part = "roster" THEN TRUE ELSE UNCHANGED vars
    /\ IF part = "duel" THEN TRUE ELSE UNCHANGED duelVars
    /\ IF part = "turf" THEN TRUE ELSE UNCHANGED turfVars
    /\ IF part = "even" THEN TRUE ELSE UNCHANGED evenVars
    /\ IF part \in {"turf", "even"} THEN TRUE ELSE UNCHANGED teamVars
    /\ IF part = "match" THEN TRUE ELSE UNCHANGED matchVars
    /\ UNCHANGED part

\* The fairness of Session: of steps that nobody can take while another part is checked.
SettlesSpec ==
    /\ SettlesInit /\ [][SettlesNext]_allVars
    /\ WF_vars(part = "roster" /\ Feed)
    /\ WF_vars(part = "roster" /\ Sync)
    /\ WF_vars(part = "roster" /\ Refresh)
    /\ \A t \in Tasks : WF_vars(part = "roster" /\ Poll(t))

SettlesTypeOK ==
    CASE part = "roster" -> TypeOK
      [] part = "duel" -> Fight!TypeOK
      [] part = "turf" -> Turf!TypeOK
      [] part = "even" -> Even!TypeOK
      [] part = "match" -> Muster!TypeOK

\* The property of Duels.
DuelsAreMutual == part = "duel" => Fight!DuelsAreMutual

\* The property of UrtTeams and of TeamBalance.
TeamsSettle ==
    /\ part = "turf" => Turf!TeamsSettle
    /\ part = "even" => Even!TeamsSettle

\* A switch of team is undone only when the bot did not ask for it, and a match starts only
\* for those who agreed: of TeamBalance and ReadyUp.
OnlyWhatWasAgreed ==
    [][/\ part = "even" => Even!UndoesOnlyOwnSwitches
       /\ part = "match" => Muster!StartsAgreed]_allVars
=============================================================================
