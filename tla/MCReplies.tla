------------------------------- MODULE MCReplies -------------------------------
(* The two clients that ask and wait, and what is made of what servers say, one *)
(* at a time: the RCON client of the Quake 3 engines, which threads share, the  *)
(* one of the Source engine, and the rosters of seven kinds of server.          *)
(* Whichever is not checked rests.                                             *)
EXTENDS Rcon

CONSTANTS
    MaxCommands, MaxFaults,                \* the bounds of SourceRcon
    People, Bots, Slots, Names, MaxLost    \* those of Rosters

ASSUME BoundsAssumption == {MaxCommands, MaxFaults, MaxLost} \subseteq Nat

\* What is nobody's slot is no slot, and what is nobody's identity is nobody's.
ASSUME NobodyAssumption == "nowhere" \notin Slots /\ "" \notin People

VARIABLES
    part,
    up, right, open, stream, owed, faults, authed, refused, id, mine, attempt, parts, sent, done,
    answer, denials,
    game, seat, nick, side, clients, unheard, astray, claimed, trailing, lost

Titles == {"source", "altitude", "ravaged", "homefront", "frostbite", "battleye", "frontline"}

Source == INSTANCE SourceRcon WITH wire <- stream, tries <- attempt
Roll == INSTANCE Rosters WITH Games <- Titles

Off == "off"
sourceVars == <<up, right, open, stream, owed, faults, authed, refused, id, mine, attempt, parts,
                sent, done, answer, denials>>
rollVars == <<game, seat, nick, side, clients, unheard, astray, claimed, trailing, lost>>

SourceRests ==
    /\ up = Off /\ right = Off /\ open = Off /\ stream = Off /\ owed = Off /\ faults = Off
    /\ authed = Off /\ refused = Off /\ id = Off /\ mine = Off /\ attempt = Off /\ parts = Off
    /\ sent = Off /\ done = Off /\ answer = Off /\ denials = Off

RollRests ==
    /\ game = Off /\ seat = Off /\ nick = Off /\ side = Off /\ clients = Off /\ unheard = Off
    /\ astray = Off /\ claimed = Off /\ trailing = Off /\ lost = Off

RepliesInit ==
    /\ Init
    /\ \/ part = "rcon" /\ SourceRests /\ RollRests
       \/ part = "source" /\ Source!Init /\ RollRests
       \/ part = "roll" /\ SourceRests /\ Roll!Init

RepliesNext ==
    /\ \/ part = "rcon" /\ Next /\ UNCHANGED <<sourceVars, rollVars>>
       \/ part = "source" /\ Source!Next /\ UNCHANGED <<vars, rollVars>>
       \/ part = "roll" /\ Roll!Next /\ UNCHANGED <<vars, sourceVars>>
    /\ UNCHANGED part

\* A thread that has begun a request goes on with it.
RepliesSpec ==
    /\ RepliesInit /\ [][RepliesNext]_<<part, vars, sourceVars, rollVars>>
    /\ \A t \in Threads : WF_vars(part = "rcon" /\ Request(t))

RepliesTypeOK ==
    /\ TypeOK
    /\ part = "source" => Source!TypeOK
    /\ part = "roll" => Roll!TypeOK

\* A reply is given to the command it answers and to no other: of Rcon, where nothing that was
\* waiting when a request began is taken for its answer and no status is older than the cache's
\* lifetime, and of SourceRcon, whose replies carry
\* the identifier of their command.
RepliesBelong ==
    /\ NothingStale /\ StatusIsRecent
    /\ part = "source" => Source!OwnReply

\* A property of SourceRcon.
RefusedOnce == part = "source" => Source!RefusedOnce

\* A property of Rosters, in its three parts.
RostersAreTrue ==
    part = "roll" => Roll!EachActsAsOneself /\ Roll!RosterIsTrue /\ Roll!TeamKillsAreTrue
=============================================================================
