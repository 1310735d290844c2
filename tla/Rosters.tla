------------------------------- MODULE Rosters -------------------------------
(****************************************************************************)
(* Who is who on seven kinds of server: how the parsers of Source, Altitude,   *)
(* Ravaged, Homefront, Frostbite, BattlEye and Frontline titles keep the bot's *)
(* clients (core/clients.py) from what the server says.                        *)
(*                                                                          *)
(* Each keys a client on what its lines carry: a slot that the next player     *)
(* takes over, a name, or an identity; some state the identity on every line,  *)
(* some once, some only in a roll call.  Lines are lost while the bot is       *)
(* paused or its connection is down.                                          *)
(*                                                                          *)
(* A person's identity is the person.  Names do not begin with one another.    *)
(* Authentication, scores, addresses, squads and lines about no player are     *)
(* left out; maps and rounds too.                                             *)
(****************************************************************************)
EXTENDS Naturals, FiniteSets

CONSTANTS
    Games,      \* source, altitude, ravaged, homefront, frostbite, battleye, frontline
    People,
    Bots,       \* of People: AI players, who have no identity
    Slots, Names,
    MaxLost     \* how many lines are lost: the bound

VARIABLES
    game,
    seat,     \* the server: the slot of each, or Nowhere
    nick,     \* the server: the name of each
    side,     \* the server: the team of each
    clients,  \* ClientManager: cid, guid, name, team and is_bot
    unheard,  \* people of whom no line that introduces them was read
    astray,   \* lines were lost that nothing has made up for
    claimed,  \* a guid was believed that was not the player's
    trailing, \* Source: of who has left, the line that they are on no team is still to come
    lost      \* how many lines were lost

roVars == <<game, seat, nick, side, clients, unheard, astray, claimed, trailing, lost>>

Nowhere == "nowhere"
NoGuid == ""
Sides == {"red", "blue"}
NoTeam == "none"
Untold == ""     \* a line that tells no team
NoName == ""
Here == {p \in People : seat[p] # Nowhere}

Init ==
    /\ game \in Games
    /\ seat = [p \in People |-> Nowhere]
    /\ nick = [p \in People |-> NoName]
    /\ side = [p \in People |-> NoTeam]
    /\ clients = {}
    /\ unheard = {} /\ astray = FALSE /\ claimed = FALSE /\ trailing = {} /\ lost = 0

-----------------------------------------------------------------------------
\* What a line can say of a person.
Line(p) == [who |-> p, slot |-> seat[p], name |-> nick[p], side |-> side[p]]

\* What a title calls a player by.
Cid(l) ==
    CASE game = "ravaged" -> l.who
      [] game \in {"homefront", "frostbite"} -> l.name
      [] OTHER -> l.slot

\* An AI player's identity, and the one that no player has, are none.
Guid(p) == IF p \in Bots THEN NoGuid ELSE p

InSlot(cid) == {c \in clients : c.cid = cid}
OfGuid(p) == {c \in clients : c.guid = p}
Named(n) == {c \in clients : c.name = n}
The(S) == CHOOSE c \in S : TRUE

\* A new client, which BattlEye and Frostbite tell the identity of in a line of its own.
Fresh(l) ==
    [cid |-> Cid(l), guid |-> IF game \in {"battleye", "frostbite"} THEN NoGuid ELSE Guid(l.who),
     name |-> l.name, team |-> NoTeam, bot |-> l.who \in Bots]

Told(t, l) == IF l.side = Untold THEN t ELSE l.side

Known(S, l) == IF S = {} THEN Fresh(l) ELSE [The(S) EXCEPT !.cid = Cid(l), !.name = l.name]

\* A bug: inheriting the record of the slot's last player.
SourceEnsureAnyone(l) ==
    LET c == Known(InSlot(l.slot), l)
    IN [c EXCEPT !.guid = IF @ = NoGuid THEN Guid(l.who) ELSE @, !.team = Told(@, l)]

\* A bug: the team that the line tells is kept for a client that has one.
SourceEnsureKeepingTeam(l) ==
    LET c == Known({c \in InSlot(l.slot) : c.guid \in {NoGuid, l.who}}, l)
    IN [c EXCEPT !.guid = IF @ = NoGuid THEN Guid(l.who) ELSE @,
                 !.team = IF @ = NoTeam THEN Told(@, l) ELSE @]

\* Every line of Source tells slot, identity, name and team: only a client that is not known to
\* be another is meant.
SourceEnsure(l) ==
    LET c == Known({c \in InSlot(l.slot) : c.guid \in {NoGuid, l.who}}, l)
    IN [c EXCEPT !.guid = IF @ = NoGuid THEN Guid(l.who) ELSE @, !.team = Told(@, l)]

\* On Ravaged the key is the identity, and some lines tell the team.
RavagedEnsure(l) ==
    [Known(InSlot(l.who), l) EXCEPT !.team = IF l.side \in Sides THEN l.side ELSE @]

\* On Homefront the one with that identity is meant, who may be under a former name.
HomefrontEnsure(l) == Known(OfGuid(l.who), l)

FrostbiteClient(l) == Known(InSlot(l.name), l)

BattlEyeClient(l) == Known(InSlot(l.slot), l)

\* The client that a line about a person means, made if there is none.
Ensured(l) ==
    CASE game = "source" -> SourceEnsure(l)
      [] game = "ravaged" -> RavagedEnsure(l)
      [] game = "homefront" -> HomefrontEnsure(l)
      [] game = "frostbite" -> FrostbiteClient(l)
      [] game = "battleye" -> BattlEyeClient(l)

\* A client is put under its cid, away from the one it had.
Put(cs, c) ==
    {d \in cs : d.cid # c.cid /\ ~(game = "homefront" /\ d.guid = c.guid)} \cup {c}

-----------------------------------------------------------------------------
\* What a line makes of the clients, and which clients its events are about.

\* A player connects.  On Altitude the line always makes a new client; a Frontline server says
\* nothing.
AltitudeClientAdd(l) == {Fresh(l)}
Joined(l) ==
    CASE game = "altitude" -> AltitudeClientAdd(l)
      [] game = "frontline" -> {}
      [] OTHER -> {Ensured(l)}

\* BattlEye keeps the first guid it is told, and what a player claims comes before the server has
\* looked at it.
BattlEyeIdentify(l, g) == {[BattlEyeClient(l) EXCEPT !.guid = IF @ = NoGuid THEN g ELSE @]}
FrostbiteJoin(l, g) == {[FrostbiteClient(l) EXCEPT !.guid = g]}
HomefrontUid(l) == {HomefrontEnsure(l)}

\* The line that gives the identity.
Identified(l, g) ==
    CASE game \in {"altitude", "frontline"} -> {}
      [] game = "battleye" -> BattlEyeIdentify(l, g)
      [] game = "frostbite" -> FrostbiteJoin(l, g)
      [] game = "homefront" -> HomefrontUid(l)
      [] OTHER -> {Ensured(l)}

\* On Altitude whoever is in the slot leaves, unless it is known to be another.
AltitudeClientRemove(l) ==
    {c \in InSlot(l.slot) : NoGuid \in {c.guid, Guid(l.who)} \/ c.guid = l.who}
HomefrontLogout(l) == OfGuid(l.who)
SourceDisconnected(l) == InSlot(l.slot)
RavagedDisconnected(l) == InSlot(l.who)
FrostbiteLeave(l) == InSlot(l.name)
BattlEyeDisconnected(l) == InSlot(l.slot)

\* A player leaves.
Leavers(l) ==
    CASE game = "altitude" -> AltitudeClientRemove(l)
      [] game = "homefront" -> HomefrontLogout(l)
      [] game = "source" -> SourceDisconnected(l)
      [] game = "ravaged" -> RavagedDisconnected(l)
      [] game = "frostbite" -> FrostbiteLeave(l)
      [] game = "battleye" -> BattlEyeDisconnected(l)
      [] game = "frontline" -> {}

\* Chat, and whatever else names one player: some titles make the client, some look for the
\* name, some for the slot.
SplitSpeaker(l) == Named(l.name)
ByName(l) == Named(l.name)
Resolve(l) == InSlot(l.name)
AltitudeClient(l) == InSlot(l.slot)
Speakers(l) ==
    CASE game = "battleye" -> SplitSpeaker(l)
      [] game = "frontline" -> ByName(l)
      [] game = "homefront" -> Resolve(l)
      [] game = "altitude" -> AltitudeClient(l)
      [] OTHER -> {Ensured(l)}

\* A bug: the line makes a client whatever team it tells.
SourceChangeTeamAlways(l) == {SourceEnsure(l)}

\* Moving to no team is also what a Source server writes of one who has left: it makes no client.
SourceChangeTeam(l) == IF l.side = NoTeam THEN InSlot(l.slot) ELSE {SourceEnsure(l)}
AltitudeTeamChange(l) == InSlot(l.slot)
HomefrontTeamChange(l) == OfGuid(l.who)
FrostbiteTeamChange(l) == {FrostbiteClient(l)}
RavagedJoinedTeam(l) == {RavagedEnsure(l)}

\* A player is on another team.
Changed(l) ==
    LET found == CASE game = "source" -> SourceChangeTeam(l)
                   [] game = "altitude" -> AltitudeTeamChange(l)
                   [] game = "homefront" -> HomefrontTeamChange(l)
                   [] game = "frostbite" -> FrostbiteTeamChange(l)
                   [] game = "ravaged" -> RavagedJoinedTeam(l)
                   [] OTHER -> {}
    IN {[c EXCEPT !.team = l.side] : c \in found}

\* Who killed, or was killed; Homefront names them, or gives the identity.
AltitudeKill(l) == InSlot(l.slot)
HomefrontKill(l) == Resolve(l)
Fighter(l) ==
    CASE game = "altitude" -> AltitudeKill(l)
      [] game = "homefront" -> HomefrontKill(l)
      [] game \in {"battleye", "frontline"} -> {}
      [] OTHER -> {Ensured(l)}

\* What is told of a kill: by oneself or by nobody who is known, of a team mate, or of another.
Mates(c, d) == game # "altitude" /\ c.team \in Sides /\ c.team = d.team
KillTold(a, v) ==
    CASE Fighter(v) = {} -> "nothing"
      [] Fighter(v) # {} /\ (Fighter(a) = {} \/ a = v) -> "suicide"
      [] OTHER -> IF Mates(The(Fighter(a)), The(Fighter(v))) THEN "teamkill" ELSE "kill"

Read(cs) == clients' = IF cs = {} THEN clients ELSE Put(clients, The(cs))

\* Altitude, Homefront and BattlEye have no line for a change of name, and Frostbite no change.
RenameLine(l, n) ==
    game = "source" /\ Read({[Ensured(l) EXCEPT !.name = n]})

-----------------------------------------------------------------------------
\* Roll calls.  A row for everybody on the server; what each title does with them is its own.

\* Homefront: one row at a time, which tells the team as well.
PlayerRow(p) ==
    /\ game = "homefront"
    /\ Read({[Ensured(Line(p)) EXCEPT !.team = side[p]]})
    /\ unheard' = unheard \ {p}
    /\ UNCHANGED astray

\* Ravaged: nobody is taken off the list, and no team is told.
ReadPlayers ==
    /\ game = "ravaged"
    /\ LET rows == {[Line(p) EXCEPT !.side = Untold] : p \in Here}
       IN clients' = {c \in clients : c.cid \notin Here} \cup {Ensured(l) : l \in rows}
    /\ unheard' = {} /\ UNCHANGED astray

\* A bug: whoever has no row is taken off the list although rows are missing.
PlayerListPrunes(read, known) ==
    LET short == UNION {InSlot(seat[p]) : p \in read}
    IN /\ game = "frontline"
       /\ clients' = short /\ astray' = (read # Here \/ known # Here)
       /\ UNCHANGED unheard

\* Frontline: a row gives a client that is known its name and its team; a player whose profile is
\* not known yet is passed over, and nobody is taken off the list unless all rows were read.
PlayerList(read, known) ==
    LET updated(c, l) == [c EXCEPT !.name = l.name, !.team = IF l.side = NoTeam THEN @ ELSE l.side]
        row(p) == LET l == Line(p) IN
                  IF InSlot(l.slot) # {} THEN {updated(The(InSlot(l.slot)), l)}
                  ELSE IF p \in known THEN {[Fresh(l) EXCEPT !.team = l.side]} ELSE {}
        slots == {seat[p] : p \in read}
    IN /\ game = "frontline"
       /\ clients' = (UNION {row(p) : p \in read})
                     \cup {c \in clients : c.cid \notin slots /\ read # Here}
       /\ astray' = (read # Here \/ known # Here)
       /\ unheard' = unheard \ (read \cap known)

\* The others that are asked for their players: what the bot's sync makes of the answer.
Reconcile ==
    LET kept(c, p) == c.guid \in {NoGuid, p}
        adopted(p) == [Fresh(Line(p)) EXCEPT !.guid = Guid(p)]
        row(p) == LET own == {c \in InSlot(Cid(Line(p))) : kept(c, p)}
                  IN IF own = {} THEN adopted(p)
                     ELSE IF game = "frostbite" /\ side[p] # NoTeam
                          THEN [The(own) EXCEPT !.team = side[p]] ELSE The(own)
    IN /\ game \in {"source", "battleye", "frostbite"}
       /\ clients' = {row(p) : p \in Here}
       /\ unheard' = {} /\ astray' = FALSE

RollCall ==
    /\ \/ \E p \in Here : PlayerRow(p)
       \/ ReadPlayers
       \/ \E read, known \in SUBSET Here : PlayerList(read, known)
       \/ Reconcile
    /\ UNCHANGED <<game, seat, nick, side, claimed, trailing, lost>>

\* The connection was down: whoever was known is reported gone.
Reconnect ==
    /\ game \in {"homefront", "frontline"}
    /\ clients' = {}
    /\ unheard' = Here /\ astray' = (game = "frontline")
    /\ UNCHANGED <<game, seat, nick, side, claimed, trailing, lost>>

-----------------------------------------------------------------------------
\* What happens on the server, and whether its line is read.
Miss == lost < MaxLost /\ lost' = lost + 1 /\ astray' = TRUE /\ UNCHANGED clients
Heard == UNCHANGED <<lost, astray>>
Settled == UNCHANGED <<game, claimed, trailing>>

\* A Frostbite name is one account's; an AI player is on Source and Altitude only.
Enter(p, s, n) ==
    LET l == [who |-> p, slot |-> s, name |-> n, side |-> Untold]
    IN /\ p \notin Here /\ s \notin {seat[q] : q \in Here} /\ n \notin {nick[q] : q \in Here}
       /\ s \notin {t.slot : t \in trailing}
       /\ p \in Bots => game \in {"source", "altitude"}
       /\ seat' = [seat EXCEPT ![p] = s]
       /\ nick' = [nick EXCEPT ![p] = IF game = "frostbite" THEN p ELSE n]
       /\ side' = [side EXCEPT ![p] = NoTeam]
       /\ \/ /\ Read(Joined(IF game = "frostbite" THEN [l EXCEPT !.name = p] ELSE l))
             /\ UNCHANGED lost /\ unheard' = unheard \ {p}
             /\ astray' = (astray \/ game = "frontline")
          \/ Miss /\ unheard' = unheard \cup {p}
       /\ Settled

Identify(p) ==
    /\ game \notin {"altitude", "frontline"}
    /\ \/ Read(Identified(Line(p), p)) /\ unheard' = unheard \ {p} /\ Heard
       \/ Miss /\ UNCHANGED unheard
    /\ UNCHANGED <<seat, nick, side>> /\ Settled

Claim(p, g) ==
    /\ game = "battleye" /\ Read(Identified(Line(p), g)) /\ Heard
    /\ claimed' = (claimed \/ g # p)
    /\ UNCHANGED <<game, seat, nick, side, unheard, trailing>>

Leave(p) ==
    /\ seat' = [seat EXCEPT ![p] = Nowhere]
    /\ \/ /\ clients' = clients \ Leavers(Line(p)) /\ UNCHANGED lost
          /\ astray' = (astray \/ game = "frontline")
       \/ Miss
    /\ trailing' = IF game = "source" THEN {[Line(p) EXCEPT !.side = NoTeam]} ELSE {}
    /\ nick' = [nick EXCEPT ![p] = NoName] /\ side' = [side EXCEPT ![p] = NoTeam]
    /\ UNCHANGED <<game, unheard, claimed>>

Unassigned ==
    /\ \E l \in trailing : Read(Changed(l)) /\ Heard
    /\ trailing' = {}
    /\ UNCHANGED <<game, seat, nick, side, unheard, claimed>>

\* What is said and done changes nothing where clients are not made for it.
Act(p) ==
    /\ game \in {"source", "ravaged", "frostbite"}
    /\ Read(Speakers(Line(p))) /\ Heard
    /\ UNCHANGED <<seat, nick, side, unheard>> /\ Settled

ChangeTeam(p, t) ==
    /\ side[p] # t
    /\ side' = [side EXCEPT ![p] = t]
    /\ \/ Read(Changed([Line(p) EXCEPT !.side = t])) /\ Heard
       \/ Miss
       \/ game \in {"battleye", "frontline"} /\ UNCHANGED clients /\ Heard
    /\ UNCHANGED <<seat, nick, unheard>> /\ Settled

Kill(a, v) ==
    /\ {side[a], side[v]} \subseteq Sides
    /\ game \in {"source", "ravaged", "frostbite"}
    /\ clients' = Put(Put(clients, The(Fighter(Line(v)))), The(Fighter(Line(a)))) /\ Heard
    /\ UNCHANGED <<seat, nick, side, unheard>> /\ Settled

\* Homefront and Frontline show a new name the next time they state who is there.
Rename(p, n) ==
    /\ n \notin {nick[q] : q \in Here}
    /\ nick' = [nick EXCEPT ![p] = n]
    /\ \/ RenameLine(Line(p), n) /\ Heard /\ UNCHANGED unheard
       \/ /\ game \in {"homefront", "frontline"} /\ UNCHANGED clients /\ Heard
          /\ unheard' = unheard \cup {p}
    /\ UNCHANGED <<seat, side>> /\ Settled

Next ==
    \/ RollCall \/ Reconnect \/ Unassigned
    \/ \E p \in People, s \in Slots, n \in Names : Enter(p, s, n)
    \/ \E p \in Here :
           \/ Identify(p) \/ Leave(p) \/ Act(p)
           \/ \E g \in People : Claim(p, g)
           \/ \E t \in Sides : ChangeTeam(p, t)
           \/ \E v \in Here : Kill(p, v)
           \/ \E n \in Names : Rename(p, n)

Spec == Init /\ [][Next]_roVars

-----------------------------------------------------------------------------
TypeOK ==
    /\ game \in Games
    /\ seat \in [People -> Slots \cup {Nowhere}] /\ nick \in [People -> Names \cup People \cup {NoName}]
    /\ side \in [People -> Sides \cup {NoTeam}]
    /\ \A c \in clients : InSlot(c.cid) = {c}
    /\ unheard \subseteq People /\ {astray, claimed} \subseteq BOOLEAN /\ lost \in 0..MaxLost

\* Nobody acts under another's identity: not after taking over the slot or the name of one who
\* left unnoticed, if one line that introduces them was read.  Two titles are the exceptions: on
\* Frontline a slot that changes hands between two roll calls keeps its client, and on BattlEye
\* a client keeps the first guid it was given, a claimed one or that of a player whose
\* departure was lost.  Nor is anybody taken for an AI player while no line is lost.
\* (parsers/source/parser.py:188-227, parsers/altitude/parser.py:208-301,
\* parsers/homefront/parser.py:228-253, parsers/frontline/parser.py:275-287,
\* parsers/battleye/parser.py:91-98)
EachActsAsOneself ==
    \A p \in Here \ unheard :
        LET l == Line(p)
            lines == Identified(l, p) \cup Leavers(l) \cup Speakers(l) \cup Changed(l) \cup Fighter(l)
        IN /\ \/ \A c \in lines : c.guid \in {NoGuid, p}
              \/ game = "frontline"
              \/ game = "battleye" /\ (lost > 0 \/ claimed)
           /\ lost = 0 => \A c \in lines : c.bot <=> p \in Bots

\* The clients are the players, by slot or name, once nothing is missing that no roll call has
\* made up for: nobody comes back who has left, and a short roll call drops nobody.
\* (parsers/source/parser.py:345-374, parsers/frontline/parser.py:195-209)
RosterIsTrue ==
    ~astray /\ unheard \cap Here = {} => {c.cid : c \in clients} = {Cid(Line(p)) : p \in Here}

\* On the titles whose lines carry the teams a kill is told as what it is, whatever was lost
\* before. (parsers/source/parser.py:402-421, parsers/ravaged/parser.py:204-215)
TeamKillsAreTrue ==
    game \in {"source", "ravaged"} =>
        \A a, v \in {p \in Here : side[p] \in Sides} :
            a # v => (KillTold(Line(a), Line(v)) = "teamkill" <=> side[a] = side[v])
=============================================================================
