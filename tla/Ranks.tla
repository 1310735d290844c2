-------------------------------- MODULE Ranks --------------------------------
(****************************************************************************)
(* The groups a player is in, on record and for as long as they are on the   *)
(* server: plugins/admin (!putgroup, !ungroup, !makereg, !unreg, !register,   *)
(* !mask, !iamgod), plugins/login, and the places of runtime/bot.py that      *)
(* write a client back to its record.                                        *)
(*                                                                          *)
(* A client loaded when a player comes is written back whole, ranks and mask  *)
(* with it, whenever anything of theirs is to be remembered: an address, a    *)
(* greeting, a password.  A command that finds its target by its number       *)
(* (@12) works on a copy of the record, also while the player is here.        *)
(****************************************************************************)
EXTENDS Naturals, FiniteSets

CONSTANTS
    Players,
    Threshold,    \* threshold_level of the login plugin
    MaxCommands   \* bound: the commands that are given

VARIABLES
    login,    \* the login plugin is in use
    row,      \* the record: groups and mask
    here,
    session,  \* the client: groups and mask
    restore,  \* restore_bits: the groups that logging in gives back
    proven,   \* who has logged in
    due,      \* whose authentication is still to be told to the plugins, and whether they spoke
    commands  \* the commands given so far

raVars == <<login, row, here, session, restore, proven, due, commands>>

-----------------------------------------------------------------------------
(* Groups and their levels.                                                    *)

Groups == {"user", "reg", "senioradmin", "superadmin"}

Level(g) == CASE g = "user" -> 1 [] g = "reg" -> 2 [] g = "senioradmin" -> 80
              [] g = "superadmin" -> 100 [] g = "guest" -> 0

\* The highest level of a set of groups, a guest's of none.
Rank(s) == LET levels == {Level(g) : g \in s}
           IN  CHOOSE n \in levels \cup {0} : \A m \in levels : m <= n

RankOf(p) == Rank(session[p].groups)

Only(g) == IF g = "guest" THEN {} ELSE {g}
IsIn(s, g) == IF g = "guest" THEN s = {} ELSE g \in s

NoOne == [groups |-> {}, mask |-> 0]
HasSuperadmin == \E p \in Players : "superadmin" \in row[p].groups

Init ==
    /\ login \in BOOLEAN
    /\ row \in [Players -> {[groups |-> Only(g), mask |-> 0] : g \in {"guest"} \cup Groups}]
    /\ here = {} /\ session = [p \in Players |-> NoOne]
    /\ restore = [p \in Players |-> {}] /\ proven = {}
    /\ due = <<>> /\ commands = 0

-----------------------------------------------------------------------------
(* Coming and going.                                                           *)

\* The groups are read from the record, the mask is not, and the client is written back.
Come(p) ==
    /\ due = <<>> /\ p \notin here
    /\ here' = here \cup {p}
    /\ session' = [session EXCEPT ![p] = [groups |-> row[p].groups, mask |-> 0]]
    /\ row' = [row EXCEPT ![p] = session'[p]]
    /\ due' = <<p>>
    /\ UNCHANGED <<login, restore, proven, commands>>

LoggedOut == {"reg"}

\* The plugins learn of it: whoever is above the threshold must log in first.
OnAuth ==
    /\ due # <<>> /\ due' = <<>>
    /\ LET p == due[1] IN
       IF login /\ p \in here /\ RankOf(p) > Threshold /\ p \notin proven
       THEN /\ restore' = [restore EXCEPT ![p] = session[p].groups]
            /\ session' = [session EXCEPT ![p].groups = LoggedOut]
       ELSE UNCHANGED <<restore, session>>
    /\ UNCHANGED <<login, row, here, proven, commands>>

Gone(p) ==
    /\ here' = here \ {p} /\ proven' = proven \ {p}
    /\ session' = [session EXCEPT ![p] = NoOne]
    /\ restore' = [restore EXCEPT ![p] = {}]

Leave(p) == due = <<>> /\ p \in here /\ Gone(p) /\ UNCHANGED <<login, row, due, commands>>

\* Something of a player is to be remembered: the whole client is.
Remember(p) ==
    /\ due = <<>> /\ p \in here
    /\ row' = [row EXCEPT ![p] = session[p]]
    /\ UNCHANGED <<login, here, session, restore, proven, due, commands>>

-----------------------------------------------------------------------------
(* Commands.                                                                   *)

\* Anyone who is here gives a command; who was not authenticated is by what they say, and it is
\* carried out before the plugins learn who they are.
Gives(p, level) ==
    /\ p \in here /\ RankOf(p) >= level
    /\ due \in {<<>>, <<p>>} /\ due' = IF due = <<>> THEN <<>> ELSE <<p, "spoke">>
    /\ commands < MaxCommands /\ commands' = commands + 1

\* A target named by number is a copy of the record, one named otherwise the client that is here.
CanBeNamed(t, copy) == copy \/ t \in here
Target(t, copy) == IF copy THEN row[t] ELSE session[t]

\* A bug: an equal may be acted on.
MayActOnEquals(a, t, copy) == t # a /\ Rank(Target(t, copy).groups) <= RankOf(a)

\* NoOne acts on oneself, on an equal or on one above.
MayActOn(a, t, copy) == t # a /\ Rank(Target(t, copy).groups) < RankOf(a)

\* What is changed is written to the record.
Write(t, copy, new) ==
    /\ row' = [row EXCEPT ![t] = new]
    /\ session' = IF copy THEN session ELSE [session EXCEPT ![t] = new]

PutInto(t, copy, s) == Write(t, copy, [Target(t, copy) EXCEPT !.groups = s])

\* A bug: a group is given by whoever is below it.
WithinReachOfAnyone(a, g) == TRUE

\* A group is given by those above it, or by the highest.
WithinReach(a, g) == Level(g) < RankOf(a) \/ RankOf(a) = 100

PutGroup(a, t, copy, g) ==
    /\ Gives(a, 80) /\ WithinReach(a, g) /\ MayActOn(a, t, copy)
    /\ ~IsIn(Target(t, copy).groups, g) /\ PutInto(t, copy, Only(g))
    /\ UNCHANGED <<login, here, restore, proven>>

UnGroup(a, t, copy, g) ==
    /\ Gives(a, 80) /\ MayActOn(a, t, copy)
    /\ IsIn(Target(t, copy).groups, g) /\ PutInto(t, copy, Target(t, copy).groups \ {g})
    /\ UNCHANGED <<login, here, restore, proven>>

MakeReg(a, t, copy) ==
    /\ Gives(a, 80) /\ MayActOn(a, t, copy)
    /\ Rank(Target(t, copy).groups) < Level("reg") /\ PutInto(t, copy, {"reg"})
    /\ UNCHANGED <<login, here, restore, proven>>

UnReg(a, t, copy) ==
    /\ Gives(a, 80) /\ MayActOn(a, t, copy)
    /\ "reg" \in Target(t, copy).groups /\ PutInto(t, copy, {"user"})
    /\ UNCHANGED <<login, here, restore, proven>>

Register(p) ==
    /\ Gives(p, 0) /\ RankOf(p) < Level("user") /\ PutInto(p, FALSE, {"user"})
    /\ UNCHANGED <<login, here, restore, proven>>

\* A bug: at any time.
GodAtAnyTime == TRUE

\* Only as long as no superadmin is on record.
NoGodYet == ~HasSuperadmin

IAmGod(p) ==
    /\ Gives(p, 0) /\ NoGodYet /\ PutInto(p, FALSE, session[p].groups \cup {"superadmin"})
    /\ UNCHANGED <<login, here, restore, proven>>

\* One masks oneself or one below; taking the mask off is a mask of 0.
Mask(a, t, copy, level) ==
    /\ Gives(a, 100) /\ ((t = a /\ ~copy) \/ MayActOn(a, t, copy))
    /\ Write(t, copy, [Target(t, copy) EXCEPT !.mask = level])
    /\ UNCHANGED <<login, here, restore, proven>>

\* A kick takes effect at once here.
Kick(a, t) ==
    /\ t \in here /\ Gives(a, 40) /\ MayActOn(a, t, FALSE) /\ Gone(t)
    /\ UNCHANGED <<login, row>>

\* Setting a password remembers its owner as they are.
SetPassword(a, t, copy) ==
    /\ Gives(a, 40)
    /\ IF t = a /\ ~copy THEN TRUE ELSE Rank(Target(t, copy).groups) < RankOf(a) \/ RankOf(a) = 100
    /\ Write(t, copy, Target(t, copy))
    /\ UNCHANGED <<login, here, restore, proven>>

\* The right password; one in the classic's form is written again in the modern one.
LogIn(p) ==
    /\ Gives(p, 2) /\ login /\ p \notin proven /\ restore[p] # {}
    /\ proven' = proven \cup {p}
    /\ session' = [session EXCEPT ![p].groups = restore[p]]
    /\ \/ UNCHANGED row
       \/ row' = [row EXCEPT ![p] = session'[p]]
    /\ UNCHANGED <<login, here, restore>>

CommandOn(a, t, copy) ==
    \/ \E g \in {"guest"} \cup Groups : PutGroup(a, t, copy, g) \/ UnGroup(a, t, copy, g)
    \/ MakeReg(a, t, copy) \/ UnReg(a, t, copy) \/ SetPassword(a, t, copy)
    \/ \E level \in {0, 2} : Mask(a, t, copy, level)

Next ==
    \/ OnAuth
    \/ \E p \in Players :
          Come(p) \/ Leave(p) \/ Remember(p) \/ Register(p) \/ IAmGod(p) \/ LogIn(p)
    \/ \E a, t \in Players :
          Kick(a, t) \/ \E copy \in BOOLEAN : CanBeNamed(t, copy) /\ CommandOn(a, t, copy)

Spec == Init /\ [][Next]_raVars

-----------------------------------------------------------------------------
Clients == [groups : SUBSET Groups, mask : {0, 2}]

TypeOK ==
    /\ login \in BOOLEAN /\ here \subseteq Players /\ proven \subseteq here
    /\ row \in [Players -> Clients] /\ session \in [Players -> Clients]
    /\ restore \in [Players -> SUBSET Groups]
    /\ commands \in 0..MaxCommands

\* Where nobody has to log in, a superadmin on record stays on record, whatever is given and taken
\* from clients and from copies: !iamgod never opens again. (plugins/admin/__init__.py:1455-1465)
SuperadminStays == ~login /\ HasSuperadmin => HasSuperadmin'

\* NoOne who is here rises but to what they came with, to user, or by one who is above it.
\* (plugins/admin/__init__.py:579-584, plugins/login/__init__.py:268-270)
RaisedFromAbove ==
    \A p \in here \cap here' :
        RankOf(p)' > RankOf(p) =>
           \/ session'[p].groups \in {restore[p], {"user"}}
           \/ ~HasSuperadmin
           \/ \E q \in here \ {p} : RankOf(q) > RankOf(p)' \/ RankOf(q) = 100
=============================================================================
