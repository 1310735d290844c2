---------------------------- MODULE Plugins_proofs ----------------------------
(* What the plugins promise, and what they may never do, for every configuration *)
(* and any players, times and numbers of commands.  Each plugin is an instance   *)
(* of its module; Loading, which they are loaded by, is first.                   *)
EXTENDS Loading, FiniteSetTheorems, SequenceTheorems, WellFoundedInduction, TLAPS

CONSTANTS
    Slots, Lengths, Sweep, MaxTime,                                         \* of Mutes
    Players, Bots, Immune, Deaths, Idle, LastChance, MinHumans, Throttle,   \* of Afk
    Delay, AlertAt, KickAt, TempbanAt, Grace, TempbanFor, Divider, Longest, \* of Warnings
    Batch, MaxWarnings,
    Level, Needed, Protected, MaxLines, MaxVotes,                           \* of CallVote
    Threshold, MaxCommands,                                                 \* of Ranks
    Admins, Groups, NonMember, MinFree, RetainFor, OnlyWhenFull, MaxPending, \* of MakeRoom
    Times, Files, Maps, Stock, MaxCycles, MaxBehind, MaxOrders, Fates,      \* of Jumper
    Duties, Repeats, VoteDelay, VoteValues, VoteDefault, Names, MaxChanges, \* of Referee
    SmallMax, MediumMax, Margin, MaxPlayers, BotMaps

VARIABLES
    now,
    counts, seated, muted, silent, promised, inherited,
    connected, spectating, enabled, activity, lastSweep, kicked, quiet, asked, emptied,
    warnings, events, pendingKicks, lastWarn, given, fresh, bans,
    engine, running, banned, called, log, current, lastVote, warned, missed,
    login, row, here, session, restore, proven, due, commands,
    roster, authed, level, retain, automation,
    server, disk, unread, orders, demos, jumper, bests, writing, lost, stray, cut,
    duty, match, slaps, votes, names, rotation, bots

Mute == INSTANCE Mutes
Absent == INSTANCE Afk
Warn == INSTANCE Warnings
Vote == INSTANCE CallVote
Rank == INSTANCE Ranks
Room == INSTANCE MakeRoom
Jump == INSTANCE Jumper WITH lines <- unread, records <- bests
Umpire == INSTANCE Referee

-----------------------------------------------------------------------------
(* Loading.  The invariant that is inductive says what order_names has done so   *)
(* far: whoever is placed comes after its needs, whoever waits does so for just  *)
(* those that are not placed yet, and a plugin that was loaded is on if and only *)
(* if it may be.                                                               *)

Placed(i) == {order[j] : j \in 1..(i - 1)}

Shape ==
    /\ listed \subseteq Modules
    /\ requires \in [Modules -> SUBSET Modules] /\ follows \in [Modules -> SUBSET Modules]
    /\ \A p \in Modules : p \notin requires[p] \cup follows[p]
    /\ order \in Seq(listed)
    /\ loaded \in Nat /\ loaded <= Len(order)
    /\ started \in Nat /\ started <= Len(order)

Underway == phase \in {"ordering", "loading", "starting", "cycle"}

Waiting ==
    Underway => /\ Missing = {}
                /\ DOMAIN pending = listed
                /\ \A p \in listed : pending[p] = Needs(p) \ Ordered

InOrder ==
    \A i \in 1..Len(order) :
        /\ \A p \in listed : order[i] = p => Needs(p) \subseteq Placed(i)
        /\ \A j \in 1..Len(order) : order[i] = order[j] => i = j

Steps ==
    /\ phase = "importing" => order = <<>>
    /\ phase \in {"importing", "ordering", "cycle"} => loaded = 0
    /\ phase \in {"loading", "starting"} => Ordered = listed
    /\ phase = "starting" => loaded = Len(order)
    /\ phase # "starting" => started = 0
    /\ phase = "cycle" => Ready = {} /\ Ordered # listed
    /\ loaded > 0 => Missing = {}

Switched ==
    /\ on \subseteq Loaded
    /\ \A i \in 1..loaded :
          order[i] \in on <=> order[i] \notin unfit /\ requires[order[i]] \subseteq on

IInv == Shape /\ Waiting /\ InOrder /\ Steps /\ Switched /\ phase \in Phases

\* The rows of a configuration are numbered.
RowsAreNumbers == Row \in [Modules -> Nat]

\* Of any plugins one is the first in the configuration: of the intervals from 0 to their rows,
\* which are finite sets, one has no other inside it.
SomeoneIsFirst ==
    \A S \in SUBSET Modules : S # {} => \E p \in S : \A q \in S : Row[p] <= Row[q]

LEMMA RowsHaveAFirst == ASSUME RowsAreNumbers PROVE SomeoneIsFirst
  <1> SUFFICES ASSUME NEW S \in SUBSET Modules, S # {}
               PROVE  \E p \in S : \A q \in S : Row[p] <= Row[q]
    BY DEF SomeoneIsFirst
  <1> DEFINE upTo == {0..Row[p] : p \in S}
             inside == StrictSubsetOrdering(Nat)
  <1>1. \A p \in S : Row[p] \in Nat /\ 0..Row[p] \in FiniteSubsetsOf(Nat)
    BY FS_Interval DEF FiniteSubsetsOf, RowsAreNumbers
  <1>2. upTo \subseteq FiniteSubsetsOf(Nat) /\ upTo # {}
    BY <1>1
  <1>3. IsWellFoundedOn(inside, FiniteSubsetsOf(Nat))
    BY FS_StrictSubsetOrderingWellFounded
  <1> HIDE DEF inside
  <1>4. PICK x \in upTo : \A y \in upTo : ~ (<<y, x>> \in inside)
    BY <1>2, <1>3, WFMin
  <1>5. PICK p \in S : x = 0..Row[p]
    BY <1>4
  <1>6. ASSUME NEW q \in S, Row[q] < Row[p] PROVE FALSE
    <2>1. /\ 0..Row[q] \in upTo /\ 0..Row[q] \subseteq 0..Row[p]
          /\ Row[p] \in 0..Row[p] /\ Row[p] \notin 0..Row[q]
      BY <1>6, <1>1
    <2>2. <<0..Row[q], x>> \in inside
      BY <2>1, <1>5, <1>1 DEF inside, StrictSubsetOrdering, FiniteSubsetsOf
    <2> QED BY <2>1, <2>2, <1>4
  <1>7. \A q \in S : Row[p] <= Row[q]
    BY <1>1, <1>6
  <1> QED BY <1>7

-----------------------------------------------------------------------------
(* What each action leaves of the invariant.                                   *)

LEMMA FirstRowIsOne ==
    ASSUME SomeoneIsFirst, NEW S \in SUBSET Modules, S # {}
    PROVE  FirstRow(S) \in S
  BY DEF SomeoneIsFirst, FirstRow

LEMMA InitOK == Init => IInv
  <1> SUFFICES ASSUME Init PROVE IInv
    OBVIOUS
  <1>1. Shape
    BY DEF Init, Shape
  <1>2. Waiting /\ InOrder /\ Steps /\ Switched /\ phase \in Phases
    BY DEF Init, Waiting, InOrder, Steps, Switched, Phases, Underway, Loaded
  <1> QED BY <1>1, <1>2 DEF IInv

\* What does not touch the configuration leaves everyone's needs.
LEMMA SameNeeds ==
    ASSUME UNCHANGED conf
    PROVE  Missing' = Missing /\ \A p : Needs(p)' = Needs(p)
  BY DEF conf, Missing, Needs

\* An action that changes neither the order nor what is on keeps what is said of them.
LEMMA SameOrder ==
    ASSUME IInv, UNCHANGED <<conf, unfit, order, loaded, on>>
    PROVE  InOrder' /\ Switched' /\ Ordered' = Ordered
  BY SameNeeds DEF IInv, InOrder, Switched, Ordered, Loaded, Placed, conf

LEMMA ImportOK == IInv /\ Import => IInv'
  <1> SUFFICES ASSUME IInv, Import PROVE IInv'
    OBVIOUS
  <1>1. Shape'
    BY DEF Import, conf, Shape, IInv
  <1>2. phase = "importing" /\ phase' \in {"ordering", "refused"} /\ UNCHANGED <<loaded, order, conf>>
    BY DEF Import
  <1>3. InOrder' /\ Switched' /\ Ordered' = Ordered
    BY SameOrder DEF Import
  <1>4. loaded = 0 /\ order = <<>> /\ started = 0
    BY <1>2 DEF IInv, Steps
  <1>5. Steps'
    BY <1>2, <1>4 DEF Steps, Import
  <1>6. Ordered' = {}
    <2>1. Len(order) = 0 /\ 1..0 = {}
      BY <1>4
    <2> QED BY <1>3, <2>1 DEF Ordered
  <1>7. Waiting'
    <2> SUFFICES ASSUME phase' = "ordering" PROVE Waiting'
      BY <1>2 DEF Waiting, Underway
    <2>1. Missing = {} /\ pending' = [p \in listed |-> Needs(p)]
      BY DEF Import
    <2> QED BY <2>1, <1>2, <1>6, SameNeeds DEF Waiting, conf
  <1> QED BY <1>1, <1>2, <1>3, <1>5, <1>7 DEF IInv, Phases

LEMMA OrderNextOK == SomeoneIsFirst /\ IInv /\ OrderNext => IInv'
  <1> SUFFICES ASSUME SomeoneIsFirst, IInv, OrderNext PROVE IInv'
    OBVIOUS
  <1> DEFINE p == FirstRow(Ready)
  <1>1. /\ phase = "ordering" /\ Ready # {} /\ order' = Append(order, p)
        /\ pending' = [q \in listed |-> pending[q] \ {p}]
        /\ UNCHANGED <<conf, unfit, phase, loaded, on, started>>
    BY DEF OrderNext
  <1>2. /\ DOMAIN pending = listed /\ Missing = {}
        /\ \A q \in listed : pending[q] = Needs(q) \ Ordered
    BY <1>1 DEF IInv, Waiting, Underway
  <1>3. listed \subseteq Modules /\ order \in Seq(listed)
    BY DEF IInv, Shape
  <1>4. p \in Ready
    BY <1>1, <1>2, <1>3, FirstRowIsOne DEF Ready
  <1>5. p \in listed /\ p \notin Ordered /\ Needs(p) \subseteq Ordered
    BY <1>4, <1>2 DEF Ready
  <1> HIDE DEF p
  <1>6. /\ Len(order') = Len(order) + 1 /\ order'[Len(order) + 1] = p
        /\ \A i \in 1..Len(order) : order'[i] = order[i]
    BY <1>1, <1>3, <1>5
  <1>7. Ordered' = Ordered \cup {p}
    BY <1>6, <1>3 DEF Ordered
  <1>8. loaded = 0 /\ started = 0
    BY <1>1 DEF IInv, Steps
  <1>9. Shape'
    BY <1>1, <1>3, <1>5, <1>6, <1>8 DEF Shape, IInv, conf
  <1>10. Waiting'
    BY <1>1, <1>2, <1>7, SameNeeds DEF Waiting, conf
  <1>11. InOrder'
    <2>1. ASSUME NEW i \in 1..Len(order'), NEW q \in listed, order'[i] = q
          PROVE  Needs(q) \subseteq Placed(i)'
      <3>1. CASE i = Len(order) + 1
        BY <2>1, <3>1, <1>5, <1>6, <1>3 DEF Placed, Ordered
      <3>2. CASE i \in 1..Len(order)
        <4>1. Placed(i)' = Placed(i)
          BY <3>2, <1>6, <1>3 DEF Placed
        <4> QED BY <2>1, <3>2, <4>1, <1>6 DEF IInv, InOrder
      <3> QED BY <3>1, <3>2, <1>6, <1>3
    <2>2. ASSUME NEW i \in 1..Len(order'), NEW j \in 1..Len(order'), order'[i] = order'[j]
          PROVE  i = j
      BY <2>2, <1>3, <1>5, <1>6 DEF IInv, InOrder, Ordered
    <2> QED BY <1>1, <2>1, <2>2, SameNeeds DEF InOrder, conf
  <1>12. Steps'
    BY <1>1, <1>8 DEF Steps
  <1>13. Switched'
    BY <1>1, <1>8 DEF Switched, IInv, Loaded
  <1> QED BY <1>1, <1>9, <1>10, <1>11, <1>12, <1>13 DEF IInv, Phases

LEMMA OrderEndsOK == IInv /\ OrderEnds => IInv'
  <1> SUFFICES ASSUME IInv, OrderEnds PROVE IInv'
    OBVIOUS
  <1>1. InOrder' /\ Switched' /\ Ordered' = Ordered
    BY SameOrder DEF OrderEnds
  <1>2. Shape' /\ phase' \in {"loading", "cycle"} /\ phase = "ordering"
    BY DEF OrderEnds, conf, Shape, IInv
  <1>3. Waiting'
    BY <1>1, <1>2, SameNeeds DEF Waiting, IInv, OrderEnds, Underway, conf
  <1>4. Ready' = Ready
    BY <1>1 DEF Ready, OrderEnds
  <1>5. Steps'
    BY <1>1, <1>2, <1>4 DEF Steps, IInv, OrderEnds, conf
  <1> QED BY <1>1, <1>2, <1>3, <1>5 DEF IInv, Phases

LEMMA LoadOK == IInv /\ Load => IInv'
  <1> SUFFICES ASSUME IInv, Load PROVE IInv'
    OBVIOUS
  <1> DEFINE p == order[loaded + 1]
  <1>1. /\ phase = "loading" /\ loaded < Len(order)
        /\ unfit' \in {unfit, unfit \cup {p}}
        /\ \/ phase' = "refused" /\ UNCHANGED <<loaded, on>>
           \/ /\ loaded' = loaded + 1 /\ UNCHANGED phase
              /\ on' = IF MayRun(p, unfit') THEN on \cup {p} ELSE on
        /\ UNCHANGED <<conf, pending, order, started>>
    BY DEF Load
  <1>2. loaded \in Nat /\ order \in Seq(listed) /\ loaded + 1 \in 1..Len(order)
    BY <1>1 DEF IInv, Shape
  <1>3. Missing = {} /\ Ordered = listed
    BY <1>1 DEF IInv, Waiting, Underway, Steps
  <1>4. Shape'
    BY <1>1, <1>2 DEF Shape, IInv, conf
  <1>5. InOrder' /\ Ordered' = Ordered
    <2>1. listed' = listed /\ order' = order /\ \A q : Needs(q)' = Needs(q)
      BY <1>1, SameNeeds DEF conf
    <2>2. Ordered' = Ordered /\ \A i : Placed(i)' = Placed(i)
      BY <2>1 DEF Ordered, Placed
    <2>3. InOrder'
      BY <2>1, <2>2 DEF InOrder, IInv
    <2> QED BY <2>2, <2>3
  <1>6. Waiting'
    BY <1>1, <1>5, SameNeeds DEF Waiting, IInv, Underway, conf
  <1>7. Steps'
    BY <1>1, <1>2, <1>3, <1>5, SameNeeds DEF Steps, IInv, conf
  <1>8. p \notin Loaded
    BY <1>2 DEF Loaded, IInv, InOrder
  <1>9. \A i \in 1..loaded : requires[order[i]] \subseteq Loaded
    <2> TAKE i \in 1..loaded
    <2>1. i \in 1..Len(order) /\ order[i] \in listed
      BY <1>2
    <2>2. requires[order[i]] \subseteq Needs(order[i])
      BY <1>3, <2>1 DEF Missing, Needs, IInv, Shape
    <2>3. Needs(order[i]) \subseteq Placed(i)
      BY <2>1 DEF IInv, InOrder
    <2>4. Placed(i) \subseteq Loaded
      BY <1>2 DEF Placed, Loaded
    <2> QED BY <2>2, <2>3, <2>4
  <1>10. p \notin requires[p]
    BY <1>2 DEF IInv, Shape
  <1>11. \A i \in 1..loaded : order[i] # p
    BY <1>8 DEF Loaded
  <1>12. on \subseteq Loaded
    BY DEF IInv, Switched
  <1>13. Switched'
    <2>1. CASE phase' = "refused" /\ UNCHANGED <<loaded, on>>
      <3>1. Loaded' = Loaded
        BY <1>1, <2>1 DEF Loaded
      <3>2. \A i \in 1..loaded : order[i] \in unfit' <=> order[i] \in unfit
        BY <1>1, <1>11
      <3> QED BY <1>1, <2>1, <3>1, <3>2 DEF Switched, IInv, conf
    <2>2. CASE loaded' = loaded + 1 /\ on' = IF MayRun(p, unfit') THEN on \cup {p} ELSE on
      <3>1. Loaded' = Loaded \cup {p}
        BY <1>1, <1>2, <2>2 DEF Loaded
      <3>2. on' \subseteq on \cup {p} /\ on \subseteq on'
        BY <2>2
      <3>3. ASSUME NEW i \in 1..loaded
            PROVE  order[i] \in on' <=> order[i] \notin unfit' /\ requires[order[i]] \subseteq on'
        <4>1. order[i] # p /\ p \notin requires[order[i]]
          BY <1>8, <1>9, <1>11
        <4>2. order[i] \in on <=> order[i] \notin unfit /\ requires[order[i]] \subseteq on
          BY DEF IInv, Switched
        <4>3. order[i] \in unfit' <=> order[i] \in unfit
          BY <1>1, <4>1
        <4> HIDE DEF p
        <4> QED BY <3>2, <4>1, <4>2, <4>3
      <3>4. p \in on' <=> p \notin unfit' /\ requires[p] \subseteq on'
        BY <2>2, <1>8, <1>10, <1>12 DEF MayRun
      <3>5. \A i \in 1..loaded' : i \in 1..loaded \/ i = loaded + 1
        BY <1>2, <2>2
      <3> QED BY <1>1, <3>1, <3>2, <3>3, <3>4, <3>5, <1>12 DEF Switched, conf
    <2> QED BY <1>1, <2>1, <2>2
  <1> QED BY <1>1, <1>4, <1>5, <1>6, <1>7, <1>13 DEF IInv, Phases

LEMMA LoadEndsOK == IInv /\ LoadEnds => IInv'
  <1> SUFFICES ASSUME IInv, LoadEnds PROVE IInv'
    OBVIOUS
  <1>1. InOrder' /\ Switched' /\ Ordered' = Ordered
    BY SameOrder DEF LoadEnds
  <1>2. Shape' /\ Steps'
    BY <1>1, SameNeeds DEF LoadEnds, conf, Shape, IInv, Steps
  <1>3. Waiting'
    BY <1>1, SameNeeds DEF Waiting, IInv, LoadEnds, Underway, conf
  <1> QED BY <1>1, <1>2, <1>3 DEF IInv, Phases, LoadEnds

LEMMA StartOK == IInv /\ Start => IInv'
  <1> SUFFICES ASSUME IInv, Start PROVE IInv'
    OBVIOUS
  <1>1. InOrder' /\ Switched' /\ Ordered' = Ordered
    BY SameOrder DEF Start
  <1>2. Shape' /\ Steps'
    BY <1>1, SameNeeds DEF Start, conf, Shape, IInv, Steps
  <1>3. Waiting'
    BY <1>1, SameNeeds DEF Waiting, IInv, Start, Underway, conf
  <1> QED BY <1>1, <1>2, <1>3 DEF IInv, Phases, Start

LEMMA StutterOK == IInv /\ UNCHANGED loVars => IInv'
  <1> SUFFICES ASSUME IInv, UNCHANGED loVars PROVE IInv'
    OBVIOUS
  <1>1. InOrder' /\ Switched' /\ Ordered' = Ordered
    BY SameOrder DEF loVars, conf
  <1>2. Shape' /\ Steps'
    BY <1>1, SameNeeds DEF loVars, conf, Shape, IInv, Steps, Ready
  <1>3. Waiting'
    BY <1>1, SameNeeds DEF Waiting, IInv, loVars, Underway, conf
  <1> QED BY <1>1, <1>2, <1>3 DEF IInv, loVars

LEMMA Inductive == ASSUME RowsAreNumbers PROVE Spec => []IInv
  <1>1. IInv /\ [Next]_loVars => IInv'
    BY RowsHaveAFirst, ImportOK, OrderNextOK, OrderEndsOK, LoadOK, LoadEndsOK, StartOK, StutterOK DEF Next
  <1> QED BY InitOK, <1>1, PTL DEF Spec

-----------------------------------------------------------------------------
(* What the invariant says to whoever starts the bot.                          *)

LEMMA NeedsComeFirst ==
    ASSUME IInv, Missing = {}, NEW i \in 1..Len(order)
    PROVE  requires[order[i]] \subseteq Placed(i) /\ follows[order[i]] \cap listed \subseteq Placed(i)
  <1>1. order[i] \in listed /\ listed \subseteq Modules
    BY DEF IInv, Shape
  <1>2. requires[order[i]] \cup (follows[order[i]] \cap listed) \subseteq Needs(order[i])
    BY <1>1 DEF Missing, Needs, IInv, Shape
  <1> QED BY <1>1, <1>2 DEF IInv, InOrder

\* When a plugin is started, everything it requires is up, and so is everything that is on and
\* that it wants to come after, in every configuration.
THEOREM PluginsStartAfterTheirNeeds == ASSUME RowsAreNumbers PROVE Spec => []UpAfterItsNeeds
  <1>1. IInv => UpAfterItsNeeds
    <2> SUFFICES ASSUME IInv, NEW p \in Up
                 PROVE  requires[p] \subseteq Up /\ follows[p] \cap on \subseteq Up
      BY DEF UpAfterItsNeeds
    <2>1. PICK i \in 1..started : order[i] = p
      BY DEF Up
    <2>2. loaded = Len(order) /\ phase = "starting" /\ started <= Len(order) /\ started \in Nat
      BY <2>1 DEF IInv, Steps, Shape, Phases
    <2>3. Missing = {}
      BY <2>2 DEF IInv, Waiting, Underway
    <2>4. Placed(i) \subseteq {order[j] : j \in 1..started}
      BY <2>2 DEF Placed
    <2>5. i \in 1..Len(order) /\ i \in 1..loaded /\ p \in on
      BY <2>1, <2>2 DEF Up
    <2>6. requires[p] \subseteq on
      BY <2>1, <2>5 DEF IInv, Switched
    <2>7. on \subseteq listed
      BY <2>2 DEF IInv, Switched, Loaded, Shape
    <2> QED BY <2>1, <2>3, <2>4, <2>5, <2>6, <2>7, NeedsComeFirst DEF Up
  <1> QED BY Inductive, <1>1, PTL

\* The bot refuses to start over the order only when plugins wait for one another all round.
THEOREM OnlyACycleIsRefused == ASSUME RowsAreNumbers PROVE Spec => []RefusedForACycle
  <1>1. IInv => RefusedForACycle
    <2> SUFFICES ASSUME IInv, phase = "cycle" PROVE RefusedForACycle
      BY DEF RefusedForACycle
    <2>1. Ready = {} /\ Ordered # listed /\ DOMAIN pending = listed
      BY DEF IInv, Steps, Waiting, Underway
    <2>2. \A p \in listed : pending[p] = Needs(p) \ Ordered
      BY DEF IInv, Waiting, Underway
    <2>3. Ordered \subseteq listed
      BY DEF IInv, Shape, Ordered
    <2> QED BY <2>1, <2>2, <2>3 DEF RefusedForACycle, Ready
  <1> QED BY Inductive, <1>1, PTL

\* A plugin is off after loading if and only if it is unfit or something it requires is off.
THEOREM PluginsAreOffForCause == ASSUME RowsAreNumbers PROVE Spec => []OffForCause
  <1>1. IInv => OffForCause
    BY DEF IInv, Steps, Switched, OffForCause, Ordered
  <1> QED BY Inductive, <1>1, PTL

-----------------------------------------------------------------------------
(* Counting.                                                                  *)

LEMMA Smallest ==
  ASSUME NEW B \in SUBSET Nat, B # {}
  PROVE  \E n \in B : \A m \in B : n <= m
<1>1. PICK n \in B : \A m \in B : ~(<<m, n>> \in OpToRel(<, Nat))
  BY NatLessThanWellFounded, WFMin
<1>2. ASSUME NEW m \in B, m < n PROVE <<m, n>> \in OpToRel(<, Nat)
  <2>1. <<m, n>> \in Nat \X Nat /\ <<m, n>>[1] < <<m, n>>[2]
    BY <1>2
  <2> QED
    BY <2>1 DEF OpToRel
<1>3. \A m \in B : n <= m
  <2>1. \A m \in B : m \in Nat /\ n \in Nat /\ ~(m < n)
    BY <1>1, <1>2
  <2> QED
    BY <2>1
<1> QED
  BY <1>3

\* Induction over a set of numbers.
LEMMA Counting ==
  ASSUME NEW n \in Nat, NEW S, 0 \in S, \A k \in 1..n : k - 1 \in S => k \in S
  PROVE  \A k \in 0..n : k \in S
<1> DEFINE B == {k \in 0..n : k \notin S}
<1>1. SUFFICES ASSUME B # {} PROVE FALSE
  OBVIOUS
<1>2. PICK k \in B : \A m \in B : k <= m
  <2>1. B \in SUBSET Nat
    OBVIOUS
  <2> HIDE DEF B
  <2> QED
    BY <1>1, <2>1, Smallest
<1>3. k \in 1..n /\ k - 1 \in 0..n /\ ~(k <= k - 1)
  BY <1>2
<1>4. k - 1 \in S
  BY <1>2, <1>3
<1> QED
  BY <1>3, <1>4

-----------------------------------------------------------------------------
(* Mutes.                                                                     *)

\* Whoever was told of a mute is under a deadline as late; what silences somebody is never later
\* than the deadline that ends it, and the two are the same unless the slot had one before.
MuteInv ==
    /\ now \in Nat /\ counts \in BOOLEAN /\ seated \subseteq Slots /\ inherited \subseteq seated
    /\ muted \in [Slots -> Nat] /\ silent \in [Slots -> Nat] /\ promised \in [Slots -> Nat]
    /\ \A c \in Slots :
          /\ promised[c] > now => muted[c] >= promised[c]
          /\ silent[c] <= muted[c]
          /\ c \in seated \ inherited => silent[c] = muted[c]
          /\ c \notin seated => silent[c] = 0 /\ promised[c] = 0

LEMMA MuteStep == ASSUME Lengths \subseteq Nat, MuteInv, [Mute!Next]_(Mute!vars) PROVE MuteInv'
<1> USE DEF MuteInv
<1>1. CASE UNCHANGED Mute!vars
  BY <1>1 DEF Mute!vars
<1>2. ASSUME NEW c \in Slots, NEW s \in Lengths, Mute!Mute(c, s) PROVE MuteInv'
  <2>1. CASE now + s <= muted[c]
    BY <1>2, <2>1 DEF Mute!Mute, Mute!Longer
  <2>2. CASE ~(now + s <= muted[c])
    BY <1>2, <2>2 DEF Mute!Mute, Mute!Longer
  <2> QED
    BY <2>1, <2>2
<1>3. ASSUME NEW c \in Slots, Mute!Unmute(c) PROVE MuteInv'
  BY <1>3 DEF Mute!Unmute
<1>4. ASSUME NEW c \in Slots, Mute!Sit(c) PROVE MuteInv'
  BY <1>4 DEF Mute!Sit
<1>5. ASSUME NEW c \in Slots, Mute!Leave(c) PROVE MuteInv'
  BY <1>5 DEF Mute!Leave
<1>6. CASE Mute!LiftExpired
  BY <1>6 DEF Mute!LiftExpired
<1>7. CASE Mute!Tick
  BY <1>7 DEF Mute!Tick
<1> QED
  BY <1>1, <1>2, <1>3, <1>4, <1>5, <1>6, <1>7 DEF Mute!Next

\* However many plugins mute a player and whatever the sweep lifts in between, they are silent for
\* the longest mute they were told of, unless an admin lets them speak or the slot had its last
\* occupant's deadline; and a silence has a deadline that ends it (bot.py:1547-1589).
THEOREM LongestMutesHold ==
  ASSUME Lengths \subseteq Nat PROVE Mute!Spec => []Mute!LongestMuteHolds
<1>1. Mute!Init => MuteInv
  BY DEF Mute!Init, MuteInv
<1>2. MuteInv /\ [Mute!Next]_(Mute!vars) => MuteInv'
  BY MuteStep
<1>3. MuteInv => Mute!LongestMuteHolds
  BY DEF MuteInv, Mute!LongestMuteHolds, Mute!Silenced
<1> QED
  BY <1>1, <1>2, <1>3, PTL DEF Mute!Spec

-----------------------------------------------------------------------------
(* Afk.                                                                       *)

Records == [lastSeen : Nat, deaths : Nat, answerBy : Nat]

\* Who is waited for is here, has done nothing since being asked, and has all the time there is.
WaitedFor(p) ==
    /\ enabled /\ p \in connected /\ p \in quiet
    /\ activity[p].answerBy = asked[p] + LastChance

AfkInv ==
    /\ now \in Nat /\ connected \subseteq Players /\ enabled \in BOOLEAN
    /\ activity \in [Players -> Records] /\ asked \in [Players -> Nat]
    /\ \A p \in Players : activity[p].answerBy # 0 => WaitedFor(p)

AfkNumbers == Deaths \in Nat /\ LastChance \in Nat

LEMMA FreshIsOne == Absent!Fresh \in Records /\ Absent!Fresh.answerBy = 0
BY DEF Absent!Fresh, Records

\* Somebody does something.
LEMMA SeenOne ==
  ASSUME AfkInv, NEW p \in Players
  PROVE  /\ Absent!Seen(p) \in [Players -> Records]
         /\ Absent!Seen(p)[p].answerBy = 0
         /\ \A q \in Players \ {p} : Absent!Seen(p)[q] = activity[q]
<1> USE DEF AfkInv
<1> DEFINE r == [Absent!Fresh EXCEPT !.lastSeen = now]
<1>1. r \in Records /\ r.answerBy = 0
  BY DEF Records, Absent!Fresh
<1> HIDE DEF r
<1>2. CASE enabled
  <2>1. Absent!Seen(p) = [activity EXCEPT ![p] = r]
    BY <1>2 DEF Absent!Seen, r
  <2> QED
    BY <1>1, <2>1
<1>3. CASE ~enabled
  BY <1>3 DEF Absent!Seen, WaitedFor
<1> QED
  BY <1>2, <1>3

\* Some are looked at, and who looks absent is asked.
LEMMA CheckOne ==
  ASSUME AfkInv, AfkNumbers, enabled, NEW P \in SUBSET connected, NEW records \in [Players -> Records],
         NEW doing \in SUBSET Players,
         \A q \in Players : records[q].answerBy # 0 =>
              records[q].answerBy = activity[q].answerBy /\ q \notin doing,
         Absent!Check(P, records, doing), UNCHANGED <<now, connected, enabled>>
  PROVE  AfkInv'
<1> USE DEF AfkInv, AfkNumbers
<1>1. PICK suspects \in SUBSET P :
        /\ \A q \in suspects : records[q].answerBy = 0
        /\ activity' = [q \in Players |-> IF q \in suspects
                           THEN [records[q] EXCEPT !.answerBy = now + LastChance] ELSE records[q]]
        /\ asked' = [q \in Players |-> IF q \in suspects THEN now ELSE asked[q]]
        /\ quiet' = (quiet \ doing) \cup suspects
  BY DEF Absent!Check
<1>2. ASSUME NEW q \in Players
      PROVE  activity'[q] \in Records /\ (activity'[q].answerBy # 0 => WaitedFor(q)')
  <2>1. records[q] \in Records
    OBVIOUS
  <2>2. CASE q \in suspects
    <3>1. activity'[q] = [records[q] EXCEPT !.answerBy = now + LastChance] /\ asked'[q] = now
      BY <1>1, <2>2
    <3>2. activity'[q] \in Records /\ activity'[q].answerBy = now + LastChance
      BY <2>1, <3>1 DEF Records
    <3> QED
      BY <1>1, <2>2, <3>1, <3>2 DEF WaitedFor
  <2>3. CASE q \notin suspects
    <3>1. activity'[q] = records[q] /\ asked'[q] = asked[q]
      BY <1>1, <2>3
    <3> QED
      BY <1>1, <2>1, <3>1 DEF WaitedFor
  <2> QED
    BY <2>2, <2>3
<1>3. activity' \in [Players -> Records]
  BY <1>1, <1>2
<1>4. asked' \in [Players -> Nat]
  BY <1>1
<1> QED
  BY <1>2, <1>3, <1>4

\* Nobody is asked, and what is on record of each stays or is forgotten.
LEMMA NobodyAsked ==
  ASSUME AfkInv, activity' \in [Players -> Records], now' \in Nat, connected' \subseteq Players,
         enabled' \in BOOLEAN, asked' \in [Players -> Nat],
         \A q \in Players : activity'[q].answerBy # 0 =>
              /\ activity'[q].answerBy = activity[q].answerBy
              /\ enabled' /\ q \in connected' /\ (q \in quiet => q \in quiet') /\ asked'[q] = asked[q]
  PROVE  AfkInv'
BY DEF AfkInv, WaitedFor

\* p does something, and nobody is asked.
LEMMA JustSeen ==
  ASSUME AfkInv, NEW p \in Players, activity' = Absent!Seen(p), quiet' = quiet \ {p},
         connected' \subseteq Players, connected \subseteq connected', UNCHANGED <<now, enabled, asked>>
  PROVE  AfkInv'
<1>1. ASSUME NEW q \in Players, activity'[q].answerBy # 0
      PROVE  activity'[q].answerBy = activity[q].answerBy /\ q # p /\ WaitedFor(q)
  BY <1>1, SeenOne DEF AfkInv
<1>2. activity' \in [Players -> Records]
  BY SeenOne
<1> QED
  BY <1>1, <1>2, NobodyAsked DEF AfkInv, WaitedFor

LEMMA AfkStep == ASSUME AfkNumbers, AfkInv, [Absent!Next]_(Absent!vars) PROVE AfkInv'
<1> USE DEF AfkInv, AfkNumbers
<1>1. CASE UNCHANGED Absent!vars
  BY <1>1 DEF Absent!vars, WaitedFor
<1>2. CASE Absent!Tick
  BY <1>2 DEF Absent!Tick, WaitedFor
<1>3. CASE Absent!Break
  <2>1. \A q \in Players : activity'[q].answerBy = 0
    <3>1. CASE enabled
      BY <1>3, <3>1, FreshIsOne DEF Absent!Break
    <3>2. CASE ~enabled
      BY <1>3, <3>2 DEF Absent!Break, WaitedFor
    <3> QED
      BY <3>1, <3>2
  <2>2. activity' \in [Players -> Records]
    BY <1>3, FreshIsOne DEF Absent!Break
  <2> QED
    BY <1>3, <2>1, <2>2, NobodyAsked DEF Absent!Break
<1>4. CASE Absent!Switch
  <2>1. UNCHANGED <<now, connected, quiet, asked>> /\ enabled' \in BOOLEAN
    BY <1>4 DEF Absent!Switch
  <2>2. CASE enabled
    <3>1. activity' = [q \in Players |-> IF q \in connected
                           THEN [activity[q] EXCEPT !.answerBy = 0] ELSE activity[q]]
      BY <1>4, <2>2 DEF Absent!Switch
    <3>2. ASSUME NEW q \in Players PROVE activity'[q] \in Records /\ activity'[q].answerBy = 0
      <4>1. activity[q] \in Records
        OBVIOUS
      <4>2. CASE q \in connected
        BY <3>1, <4>1, <4>2 DEF Records
      <4>3. CASE q \notin connected
        BY <3>1, <4>1, <4>3 DEF WaitedFor
      <4> QED
        BY <4>2, <4>3
    <3>3. activity' \in [Players -> Records]
      BY <3>1, <3>2
    <3> QED
      BY <2>1, <3>2, <3>3, NobodyAsked
  <2>3. CASE ~enabled
    <3>1. activity' = activity
      BY <1>4, <2>3 DEF Absent!Switch
    <3> QED
      BY <2>1, <2>3, <3>1, NobodyAsked DEF WaitedFor
  <2> QED
    BY <2>2, <2>3
<1>5. CASE Absent!CheckDeadlines
  <2>1. PICK late : activity' = [q \in Players |-> IF q \in late
                         THEN [activity[q] EXCEPT !.answerBy = 0] ELSE activity[q]]
    BY <1>5 DEF Absent!CheckDeadlines
  <2>2. UNCHANGED <<now, connected, enabled, quiet, asked>>
    BY <1>5 DEF Absent!CheckDeadlines
  <2>3. ASSUME NEW q \in Players
        PROVE  activity'[q] \in Records /\ activity'[q].answerBy \in {0, activity[q].answerBy}
    <3>1. activity[q] \in Records
      OBVIOUS
    <3> QED
      BY <2>1, <3>1 DEF Records
  <2>4. activity' \in [Players -> Records]
    BY <2>1, <2>3
  <2> QED
    BY <2>2, <2>3, <2>4, NobodyAsked DEF WaitedFor
<1>6. ASSUME NEW p \in Players, Absent!Acts(p) \/ Absent!ChangesTeam(p) \/ Absent!Enter(p) PROVE AfkInv'
  BY <1>6, JustSeen DEF Absent!Acts, Absent!ChangesTeam, Absent!Enter
<1>7. ASSUME NEW p \in Players, Absent!Leave(p) PROVE AfkInv'
  BY <1>7, FreshIsOne, NobodyAsked DEF Absent!Leave, WaitedFor
<1>8. ASSUME NEW p \in Players, Absent!SaysAfk(p) PROVE AfkInv'
  <2>1. UNCHANGED <<now, connected, enabled>>
    BY <1>8 DEF Absent!SaysAfk
  <2>2. CASE enabled /\ Absent!Check(connected, Absent!Seen(p), {p})
    <3> DEFINE records == Absent!Seen(p)
    <3>1. \A q \in Players : records[q].answerBy # 0 =>
             records[q].answerBy = activity[q].answerBy /\ q \notin {p}
      BY SeenOne
    <3>2. records \in [Players -> Records] /\ Absent!Check(connected, records, {p})
      BY <2>2, SeenOne
    <3>3. {p} \in SUBSET Players /\ connected \in SUBSET connected
      OBVIOUS
    <3> HIDE DEF records
    <3> QED
      BY <2>1, <2>2, <3>1, <3>2, <3>3, CheckOne
  <2>3. CASE activity' = Absent!Seen(p) /\ quiet' = quiet \ {p} /\ UNCHANGED asked
    BY <2>1, <2>3, JustSeen
  <2> QED
    BY <1>8, <2>2, <2>3 DEF Absent!SaysAfk
<1>9. ASSUME NEW p \in Players, NEW killer \in Players, Absent!Killed(killer, p) PROVE AfkInv'
  <2>1. UNCHANGED <<now, connected, enabled>> /\ p \in connected /\ killer # p
    BY <1>9 DEF Absent!Killed
  <2>2. CASE ~enabled
    BY <1>9, <2>1, <2>2, NobodyAsked DEF Absent!Killed, WaitedFor
  <2>3. CASE enabled
    <3> DEFINE seen == Absent!Seen(killer)
               records == [seen EXCEPT ![p].deaths = IF @ < Deaths THEN @ + 1 ELSE @]
    <3>1. PICK P \in {{}, {p}} : Absent!Check(P, records, {killer})
      BY <1>9, <2>3 DEF Absent!Killed
    <3>2. seen \in [Players -> Records] /\ seen[killer].answerBy = 0
            /\ \A q \in Players \ {killer} : seen[q] = activity[q]
      BY SeenOne
    <3> HIDE DEF seen
    <3>3. ASSUME NEW q \in Players PROVE records[q] \in Records /\ records[q].answerBy = seen[q].answerBy
      <4>1. seen[q] \in Records
        BY <3>2
      <4> QED
        BY <3>2, <4>1 DEF Records
    <3>4. records \in [Players -> Records]
      BY <3>2, <3>3
    <3> HIDE DEF records
    <3>5. \A q \in Players : records[q].answerBy # 0 =>
             records[q].answerBy = activity[q].answerBy /\ q \notin {killer}
      BY <3>2, <3>3
    <3>6. P \in SUBSET connected /\ {killer} \in SUBSET Players
      BY <2>1
    <3> QED
      BY <2>1, <2>3, <3>1, <3>4, <3>5, <3>6, CheckOne
  <2> QED
    BY <2>2, <2>3
<1> QED
  BY <1>1, <1>2, <1>3, <1>4, <1>5, <1>6, <1>7, <1>8, <1>9 DEF Absent!Next, Absent!Does

\* Nobody is kicked who was not asked, given all the time there is to answer, and silent since,
\* for any players, limits and delays, and however often the plugin is switched off and on
\* (plugins/afk/__init__.py:211-221, 261-279, 306-338).
THEOREM OnlyTheSilentAreKicked ==
  ASSUME AfkNumbers PROVE Absent!Spec => Absent!KickedOnlyIfSilent
<1>1. Absent!Init => AfkInv
  BY FreshIsOne DEF Absent!Init, AfkInv
<1>2. AfkInv /\ [Absent!Next]_(Absent!vars) => AfkInv'
  BY AfkStep
<1>3. AfkInv /\ [Absent!Next]_(Absent!vars) => [Absent!KicksOnlyTheSilent]_(Absent!vars)
  <2> SUFFICES ASSUME AfkInv, Absent!Next, NEW p \in kicked', p \notin kicked
               PROVE  p \in quiet /\ asked[p] + LastChance <= now
    BY DEF Absent!KicksOnlyTheSilent
  <2>1. Absent!CheckDeadlines
    BY DEF Absent!Next, Absent!Does, Absent!Tick, Absent!Break, Absent!Switch, Absent!Acts, Absent!ChangesTeam,
           Absent!SaysAfk, Absent!Killed, Absent!Enter, Absent!Leave
  <2>2. p \in connected /\ activity[p].answerBy # 0 /\ now >= activity[p].answerBy
    BY <2>1 DEF Absent!CheckDeadlines
  <2> QED
    BY <2>2 DEF AfkInv, WaitedFor
<1> QED
  BY <1>1, <1>2, <1>3, PTL DEF Absent!Spec, Absent!KickedOnlyIfSilent

-----------------------------------------------------------------------------
(* Warnings.                                                                  *)

Warned == Warn!Warning

InForce(w) == w.expire = Warn!Never \/ w.expire > now + 1

\* What Active computes for the first n warnings of s.
ActiveUpto(s, n, f) ==
    f = [i \in 0..n |-> IF i = 0 THEN <<>>
                        ELSE IF InForce(s[i]) THEN Append(f[i - 1], s[i]) ELSE f[i - 1]]

NextActive(s, k, t) == IF InForce(s[k]) THEN Append(t, s[k]) ELSE t

LEMMA ActiveMore ==
  ASSUME NEW s, NEW k \in Nat \ {0}, NEW f, ActiveUpto(s, k - 1, f)
  PROVE  ActiveUpto(s, k, [i \in 0..k |-> IF i = k THEN NextActive(s, k, f[k - 1]) ELSE f[i]])
<1> DEFINE g == [i \in 0..k |-> IF i = k THEN NextActive(s, k, f[k - 1]) ELSE f[i]]
           Fill(i) == IF i = 0 THEN <<>>
                      ELSE IF InForce(s[i]) THEN Append(g[i - 1], s[i]) ELSE g[i - 1]
           FillOld(i) == IF i = 0 THEN <<>>
                         ELSE IF InForce(s[i]) THEN Append(f[i - 1], s[i]) ELSE f[i - 1]
<1>1. \A i \in 0..(k - 1) : f[i] = FillOld(i)
  BY DEF ActiveUpto
<1>2. \A i \in 0..(k - 1) : g[i] = f[i]
  OBVIOUS
<1>3. g[k] = NextActive(s, k, f[k - 1])
  OBVIOUS
<1>4. ASSUME NEW i \in 0..k PROVE g[i] = Fill(i)
  <2>1. CASE i = 0
    <3>1. 0 \in 0..(k - 1)
      OBVIOUS
    <3>2. f[0] = <<>>
      BY <1>1, <3>1
    <3> HIDE DEF g
    <3> QED
      BY <1>2, <2>1, <3>1, <3>2
  <2>2. CASE i = k
    <3>1. g[k - 1] = f[k - 1] /\ k # 0
      BY <1>2
    <3> QED
      BY <1>3, <2>2, <3>1 DEF NextActive
  <2>3. CASE i # 0 /\ i # k
    <3>1. i \in 0..(k - 1) /\ i - 1 \in 0..(k - 1)
      BY <2>3
    <3>2. g[i - 1] = f[i - 1] /\ g[i] = FillOld(i)
      BY <1>1, <1>2, <3>1
    <3> HIDE DEF g
    <3> QED
      BY <3>2
  <2> QED
    BY <2>1, <2>2, <2>3
<1>5. g = [i \in 0..k |-> g[i]]
  OBVIOUS
<1>6. [i \in 0..k |-> g[i]] = [i \in 0..k |-> Fill(i)]
  <2> HIDE DEF g, Fill
  <2> QED
    BY <1>4
<1>7. g = [i \in 0..k |-> Fill(i)]
  BY <1>5, <1>6
<1> QED
  BY <1>7 DEF ActiveUpto

LEMMA ActiveExists == ASSUME NEW s, NEW n \in Nat PROVE \E f : ActiveUpto(s, n, f)
<1> DEFINE S == {k \in 0..n : \E f : ActiveUpto(s, k, f)}
<1>1. 0 \in S
  <2> DEFINE f == [i \in 0..0 |-> <<>>]
  <2>1. f = [i \in 0..0 |-> IF i = 0 THEN <<>>
              ELSE IF InForce(s[i]) THEN Append(f[i - 1], s[i]) ELSE f[i - 1]]
    OBVIOUS
  <2>2. ActiveUpto(s, 0, f)
    BY <2>1 DEF ActiveUpto
  <2> QED
    BY <2>2
<1>2. ASSUME NEW k \in 1..n, k - 1 \in S PROVE k \in S
  <2>1. PICK f : ActiveUpto(s, k - 1, f)
    BY <1>2
  <2>2. k \in Nat \ {0} /\ k \in 0..n
    OBVIOUS
  <2> QED
    BY <2>1, <2>2, ActiveMore
<1>3. \A k \in 0..n : k \in S
  <2> HIDE DEF S
  <2> QED
    BY <1>1, <1>2, Counting
<1> QED
  BY <1>3

\* Leaving out the warnings that have run out adds none.
LEMMA ActiveFewer ==
  ASSUME NEW s \in Seq(Warned)
  PROVE  Warn!Active(s) \in Seq(Warned) /\ Len(Warn!Active(s)) <= Len(s)
<1>1. Len(s) \in Nat
  OBVIOUS
<1>2. Warn!Active(s) = (CHOOSE f : ActiveUpto(s, Len(s), f))[Len(s)]
  BY DEF Warn!Active, ActiveUpto, InForce
<1>3. PICK f : ActiveUpto(s, Len(s), f) /\ Warn!Active(s) = f[Len(s)]
  BY <1>1, <1>2, ActiveExists
<1> DEFINE S == {k \in 0..Len(s) : f[k] \in Seq(Warned) /\ Len(f[k]) <= k}
<1>4. 0 \in S
  <2>1. f[0] = <<>>
    BY <1>1, <1>3 DEF ActiveUpto
  <2>2. <<>> \in Seq(Warned) /\ Len(<<>>) <= 0 /\ 0 \in 0..Len(s)
    BY <1>1
  <2> QED
    BY <2>1, <2>2
<1>5. ASSUME NEW k \in 1..Len(s), k - 1 \in S PROVE k \in S
  <2>1. k \in 0..Len(s) /\ k # 0 /\ s[k] \in Warned
    OBVIOUS
  <2>2. f[k] = IF InForce(s[k]) THEN Append(f[k - 1], s[k]) ELSE f[k - 1]
    BY <1>3, <2>1 DEF ActiveUpto
  <2>3. f[k - 1] \in Seq(Warned) /\ Len(f[k - 1]) <= k - 1 /\ Len(f[k - 1]) \in Nat
    BY <1>5
  <2>4. Append(f[k - 1], s[k]) \in Seq(Warned) /\ Len(Append(f[k - 1], s[k])) = Len(f[k - 1]) + 1
    BY <2>1, <2>3, AppendProperties
  <2>5. f[k] \in Seq(Warned) /\ Len(f[k]) <= k
    BY <2>2, <2>3, <2>4
  <2> QED
    BY <2>1, <2>5
<1>6. \A k \in 0..Len(s) : k \in S
  <2> HIDE DEF S
  <2> QED
    BY <1>1, <1>4, <1>5, Counting
<1> QED
  BY <1>1, <1>3, <1>6

\* No player has more warnings on record than they were given since an amnesty.
WarnInv ==
    /\ now \in Nat
    /\ warnings \in [Players -> Seq(Warned)] /\ fresh \in [Players -> Nat]
    /\ \E S : bans \in [Players -> Seq(S)]
    /\ \A p \in Players : Warn!Count(p) <= fresh[p]

WarnNumbers ==
    /\ Delay \in Nat /\ AlertAt \in Nat /\ KickAt \in Nat
    /\ Lengths \subseteq Nat
    /\ AlertAt <= KickAt

\* Some are thrown out: each ban is put on record of theirs.
LEMMA BansAreBans ==
  ASSUME WarnInv, NEW P, Warn!WarnTempban(P)
  PROVE  /\ \E S : bans' \in [Players -> Seq(S)]
         /\ \A p \in Players \ P : bans'[p] = bans[p]
<1>1. PICK S : bans \in [Players -> Seq(S)]
  BY DEF WarnInv
<1> DEFINE T == S \cup {Warn!KickDuration(p) : p \in Players}
<1>2. ASSUME NEW p \in Players PROVE bans'[p] \in Seq(T) /\ (p \notin P => bans'[p] = bans[p])
  <2>1. PICK d : d = Warn!KickDuration(p)
    OBVIOUS
  <2>2. d \in T /\ bans[p] \in Seq(S) /\ S \subseteq T
    BY <1>1, <2>1
  <2> HIDE DEF T
  <2>3. bans[p] \in Seq(T)
    BY <2>2
  <2>4. Append(bans[p], d) \in Seq(T)
    BY <2>2, <2>3
  <2>5. bans'[p] = IF p \in P /\ d > 0 THEN Append(bans[p], d) ELSE bans[p]
    BY <2>1 DEF Warn!WarnTempban
  <2> QED
    BY <2>3, <2>4, <2>5
<1>3. bans' \in [Players -> Seq(T)]
  <2> HIDE DEF T
  <2>1. bans' = [p \in Players |-> bans'[p]]
    BY DEF Warn!WarnTempban
  <2> QED
    BY <1>2, <2>1
<1> QED
  BY <1>2, <1>3

\* One more warning.
LEMMA GivenOne ==
  ASSUME WarnNumbers, WarnInv, NEW p \in Players, NEW m \in Lengths, Warn!GiveWarning(p, m) PROVE WarnInv'
<1> USE DEF WarnInv, WarnNumbers
<1>1. PICK w : w = [minutes |-> m, expire |-> IF m > 0 THEN now + m ELSE Warn!Never]
  OBVIOUS
<1>2. w \in Warned
  BY <1>1 DEF Warned, Warn!Warning
<1>3. warnings' = [warnings EXCEPT ![p] = Append(@, w)] /\ fresh' = [fresh EXCEPT ![p] = @ + 1]
        /\ UNCHANGED <<now, bans>>
  BY <1>1 DEF Warn!GiveWarning
<1>4. Append(warnings[p], w) \in Seq(Warned) /\ Len(Append(warnings[p], w)) = Len(warnings[p]) + 1
  BY <1>2
<1>5. warnings' \in [Players -> Seq(Warned)] /\ fresh' \in [Players -> Nat]
  BY <1>3, <1>4
<1>6. ASSUME NEW q \in Players PROVE Len(warnings'[q]) <= fresh'[q]
  <2>1. Len(warnings[q]) \in Nat /\ Len(warnings[q]) <= fresh[q] /\ fresh[q] \in Nat
    BY DEF Warn!Count
  <2> QED
    BY <1>3, <1>4, <2>1
<1> QED
  BY <1>3, <1>5, <1>6 DEF Warn!Count

\* Nothing is given, and nobody has more of them than before but who was given as many.
LEMMA FewerOrSame ==
  ASSUME WarnInv, now' \in Nat, warnings' \in [Players -> Seq(Warned)], UNCHANGED fresh,
         \E S : bans' \in [Players -> Seq(S)],
         \A q \in Players : Len(warnings'[q]) <= Len(warnings[q])
  PROVE  WarnInv'
<1>1. ASSUME NEW q \in Players PROVE Len(warnings'[q]) <= fresh'[q]
  <2>1. Len(warnings[q]) \in Nat /\ Len(warnings[q]) <= fresh[q] /\ fresh[q] \in Nat
          /\ Len(warnings'[q]) \in Nat
    BY DEF Warn!Count, WarnInv
  <2> QED
    BY <2>1
<1> QED
  BY <1>1 DEF WarnInv, Warn!Count

LEMMA WarnStep == ASSUME WarnNumbers, WarnInv, [Warn!Next]_(Warn!vars) PROVE WarnInv'
<1> USE DEF WarnInv
<1>0. \A q \in Players : Len(warnings[q]) \in Nat
  OBVIOUS
<1>1. CASE UNCHANGED Warn!vars
  BY <1>0, <1>1, FewerOrSame DEF Warn!vars
<1>2. ASSUME NEW p \in Players, NEW m \in Lengths, Warn!PluginWarns(p, m) \/ Warn!AdminWarns(p, m)
      PROVE  WarnInv'
  BY <1>2, GivenOne DEF Warn!PluginWarns, Warn!AdminWarns
<1>3. ASSUME NEW P, Warn!Clear(P) PROVE WarnInv'
  <2>1. warnings' = [p \in Players |-> IF p \in P THEN <<>> ELSE warnings[p]]
          /\ fresh' = [p \in Players |-> IF p \in P THEN 0 ELSE fresh[p]] /\ UNCHANGED <<now, bans>>
    BY <1>3 DEF Warn!Clear
  <2>2. warnings' \in [Players -> Seq(Warned)] /\ fresh' \in [Players -> Nat]
    BY <2>1
  <2>3. \A q \in Players : Len(warnings'[q]) <= fresh'[q]
    BY <2>1 DEF Warn!Count
  <2> QED
    BY <2>1, <2>2, <2>3 DEF Warn!Count
<1>4. ASSUME NEW p \in Players, Warn!RemoveLatest(p) PROVE WarnInv'
  <2> DEFINE n == Len(warnings[p])
             shorter == SubSeq(warnings[p], 1, n - 1)
  <2>1. warnings' = [warnings EXCEPT ![p] = shorter] /\ n > 0 /\ UNCHANGED <<now, bans, fresh>>
    BY <1>4 DEF Warn!RemoveLatest, Warn!Front, Warn!Count
  <2>2. \A i \in 1..(n - 1) : warnings[p][i] \in Warned
    BY <1>0
  <2>3. shorter \in Seq(Warned) /\ Len(shorter) = n - 1
    <3>1. n \in Nat /\ n - 1 \in Int /\ 1 \in Int
      BY <1>0
    <3>2. shorter \in Seq(Warned) /\ Len(shorter) = IF 1 <= n - 1 THEN n - 1 - 1 + 1 ELSE 0
      BY <2>2, <3>1, SubSeqProperties
    <3> HIDE DEF n, shorter
    <3> QED
      BY ONLY <2>1, <3>1, <3>2
  <2> HIDE DEF shorter
  <2>4. warnings' \in [Players -> Seq(Warned)]
    BY <2>1, <2>3
  <2>5. \A q \in Players : Len(warnings'[q]) <= Len(warnings[q])
    BY <1>0, <2>1, <2>3
  <2> QED
    BY <2>1, <2>4, <2>5, FewerOrSame
<1>5. ASSUME NEW p \in Players, Warn!Reconnect(p) PROVE WarnInv'
  BY <1>0, <1>5, FewerOrSame DEF Warn!Reconnect
<1>6. CASE Warn!OnWarned \/ Warn!CheckPendingKicks
  <2>1. PICK P : Warn!WarnTempban(P)
    BY <1>6 DEF Warn!OnWarned, Warn!CheckPendingKicks
  <2>2. UNCHANGED <<now, warnings, fresh>>
    BY <1>6 DEF Warn!OnWarned, Warn!CheckPendingKicks
  <2> QED
    BY <1>0, <2>1, <2>2, BansAreBans, FewerOrSame
<1>7. CASE Warn!Tick
  <2>1. warnings' = [p \in Players |-> Warn!Active(warnings[p])] /\ now' = now + 1 /\ UNCHANGED <<fresh, bans>>
    BY <1>7 DEF Warn!Tick
  <2>2. ASSUME NEW q \in Players
        PROVE  warnings'[q] \in Seq(Warned) /\ Len(warnings'[q]) <= Len(warnings[q])
    BY <2>1, ActiveFewer
  <2>3. warnings' \in [Players -> Seq(Warned)]
    BY <2>1, <2>2
  <2> QED
    BY <2>1, <2>2, <2>3, FewerOrSame
<1> QED
  BY <1>1, <1>2, <1>3, <1>4, <1>5, <1>6, <1>7 DEF Warn!Next

\* Nobody is thrown out over warnings unless AlertAt of them were given since they were last
\* forgiven everything, for any lengths, limits and number of warnings, as long as what alerts is
\* no more than what kicks (plugins/admin/__init__.py:123-188, 494-501, 745-758).
THEOREM WarningsBanForCause ==
  ASSUME WarnNumbers PROVE Warn!Spec => Warn!WarnedOutForCause
<1>1. Warn!Init => WarnInv
  <2> SUFFICES ASSUME Warn!Init PROVE WarnInv
    OBVIOUS
  <2>1. bans \in [Players -> Seq({})]
    BY DEF Warn!Init
  <2> QED
    BY <2>1 DEF Warn!Init, WarnInv, WarnNumbers, Warn!Count
<1>2. WarnInv /\ [Warn!Next]_(Warn!vars) => WarnInv'
  BY WarnStep
<1>3. WarnInv /\ [Warn!Next]_(Warn!vars) => [Warn!BansForCause]_(Warn!vars)
  <2> SUFFICES ASSUME WarnInv, Warn!Next, NEW p \in Players, Len(bans'[p]) > Len(bans[p])
               PROVE  fresh[p] >= AlertAt
    BY DEF Warn!BansForCause
  <2>1. Warn!Count(p) \in Nat /\ Warn!Count(p) <= fresh[p] /\ Len(bans[p]) \in Nat /\ fresh[p] \in Nat
    <3>1. PICK S : bans \in [Players -> Seq(S)]
      BY DEF WarnInv
    <3> QED
      BY <3>1 DEF WarnInv, Warn!Count
  <2>2. bans'[p] # bans[p]
    BY <2>1
  <2>3. CASE Warn!OnWarned
    <3>1. PICK q, P : P = (IF Warn!Count(q) >= KickAt THEN {q} ELSE {}) /\ Warn!WarnTempban(P)
      BY <2>3 DEF Warn!OnWarned
    <3>2. p \in P
      BY <2>2, <3>1, BansAreBans
    <3>3. Warn!Count(p) >= KickAt
      BY <3>1, <3>2
    <3> QED
      BY <2>1, <3>3 DEF WarnNumbers
  <2>4. CASE Warn!CheckPendingKicks
    <3>1. PICK late : Warn!WarnTempban({q \in late : Warn!Count(q) >= AlertAt})
      BY <2>4 DEF Warn!CheckPendingKicks
    <3>2. p \in {q \in late : Warn!Count(q) >= AlertAt}
      BY <2>2, <3>1, BansAreBans
    <3> QED
      BY <2>1, <3>2 DEF WarnNumbers
  <2> QED
    BY <2>2, <2>3, <2>4 DEF Warn!Next, Warn!PluginWarns, Warn!AdminWarns, Warn!GiveWarning, Warn!Clear,
       Warn!RemoveLatest, Warn!Reconnect, Warn!Tick
<1> QED
  BY <1>1, <1>2, <1>3, PTL DEF Warn!Spec, Warn!WarnedOutForCause

-----------------------------------------------------------------------------
(* Votes.                                                                     *)

Ballots == Vote!Vote
Finished == {"passed", "failed"}
Lines == [line : {"called", "barred"} \cup Finished, vote : Ballots]

VoteTypes ==
    /\ engine \in {"urt", "homefront", "altitude"} /\ missed \in BOOLEAN
    /\ running \in Ballots \cup {Vote!NoVote} /\ current \in Ballots \cup {Vote!NoVote}
    /\ banned \subseteq Ballots /\ log \in Seq(Lines)

\* What the engines can do: a ban is voted on Homefront, and a kick keeps one out on Altitude.
VoteKinds ==
    /\ engine # "homefront" => running.type # "ban"
    /\ engine = "urt" => banned = {}
    /\ \A ban \in banned : Vote!Bars(ban)

\* Where nothing is cancelled, the end of a vote is read right after its call.
InPairs(lines, read, vote) ==
    /\ \A i \in 1..Len(lines) :
          /\ lines[i].line # "barred"
          /\ lines[i].line \in Finished =>
                IF i = 1 THEN read = lines[1].vote
                ELSE lines[i - 1].line = "called" /\ lines[i - 1].vote = lines[i].vote
    /\ vote # Vote!NoVote =>
          IF Len(lines) = 0 THEN read = vote
          ELSE lines[Len(lines)].line = "called" /\ lines[Len(lines)].vote = vote

\* The line of a vote that keeps somebody out is still to be read.
Awaited(ban, lines) ==
    \E i \in 1..Len(lines) :
        /\ lines[i].vote = ban
        /\ lines[i].line = IF engine = "altitude" THEN "barred" ELSE "passed"

VoteInv ==
    /\ VoteTypes /\ VoteKinds
    /\ engine = "homefront" /\ ~missed => InPairs(log, current, running)
    /\ ~missed => \A ban \in banned : Vote!Shielded(ban) => Awaited(ban, log)

LEMMA NoVoteIsNone == \A vote \in Ballots : vote # Vote!NoVote /\ vote.type \in {"kick", "ban", "map"}
BY DEF Ballots, Vote!Vote, Vote!Types, Vote!NoVote

\* A line is read.
LEMMA OneLess ==
  ASSUME VoteTypes, log # <<>>
  PROVE  /\ Len(log) \in Nat /\ Len(log) >= 1 /\ Head(log) = log[1] /\ log[1] \in Lines
         /\ Tail(log) \in Seq(Lines) /\ Len(Tail(log)) = Len(log) - 1
         /\ \A i \in 1..(Len(log) - 1) : Tail(log)[i] = log[i + 1]
<1>1. log \in Seq(Lines)
  BY DEF VoteTypes
<1>2. Len(log) \in Nat /\ Len(log) # 0
  BY <1>1, EmptySeq
<1>3. Head(log) = log[1] /\ log[1] \in Lines
  BY <1>1, <1>2
<1>4. Tail(log) \in Seq(Lines) /\ Len(Tail(log)) = Len(log) - 1
        /\ \A i \in 1..Len(Tail(log)) : Tail(log)[i] = log[i + 1]
  BY <1>1, HeadTailProperties
<1> QED
  BY <1>2, <1>3, <1>4

LEMMA PairsRead ==
  ASSUME VoteTypes, log # <<>>, InPairs(log, current, running), NEW next,
         Head(log).line \in Finished \/ next = Head(log).vote
  PROVE  InPairs(Tail(log), next, running)
<1>1. /\ Len(log) \in Nat /\ Len(log) >= 1 /\ Head(log) = log[1] /\ Len(Tail(log)) = Len(log) - 1
      /\ \A i \in 1..(Len(log) - 1) : Tail(log)[i] = log[i + 1]
  BY OneLess
<1>2. ASSUME NEW i \in 1..Len(Tail(log))
      PROVE  /\ Tail(log)[i].line # "barred"
             /\ Tail(log)[i].line \in Finished =>
                   IF i = 1 THEN next = Tail(log)[1].vote
                   ELSE Tail(log)[i - 1].line = "called" /\ Tail(log)[i - 1].vote = Tail(log)[i].vote
  <2>1. i + 1 \in 1..Len(log) /\ i + 1 # 1 /\ (i + 1) - 1 = i /\ Tail(log)[i] = log[i + 1]
    BY <1>1
  <2>2. log[i + 1].line # "barred"
          /\ (log[i + 1].line \in Finished => log[i].line = "called" /\ log[i].vote = log[i + 1].vote)
    BY <2>1 DEF InPairs
  <2>3. CASE i = 1
    <3>1. "called" \notin Finished
      BY DEF Finished
    <3> QED
      BY <1>1, <2>1, <2>2, <2>3, <3>1
  <2>4. CASE i # 1
    <3>1. i - 1 \in 1..(Len(log) - 1) /\ (i - 1) + 1 = i
      BY <1>1, <2>4
    <3>2. Tail(log)[i - 1] = log[i]
      BY <1>1, <3>1
    <3> QED
      BY <2>1, <2>2, <2>4, <3>2
  <2> QED
    BY <2>3, <2>4
<1>3. ASSUME running # Vote!NoVote
      PROVE  IF Len(Tail(log)) = 0 THEN next = running
             ELSE Tail(log)[Len(Tail(log))].line = "called" /\ Tail(log)[Len(Tail(log))].vote = running
  <2>1. log[Len(log)].line = "called" /\ log[Len(log)].vote = running
    BY <1>1, <1>3 DEF InPairs
  <2>2. CASE Len(Tail(log)) = 0
    <3>0. Len(log) \in Nat /\ Len(log) - 1 = 0
      BY <1>1, <2>2
    <3>1. Len(log) = 1
      BY ONLY <3>0
    <3>2. "called" \notin Finished
      BY DEF Finished
    <3> QED
      BY <1>1, <2>1, <2>2, <3>1, <3>2
  <2>3. CASE Len(Tail(log)) # 0
    <3>1. Tail(log)[Len(log) - 1] = log[Len(log)]
      BY <1>1, <2>3
    <3> QED
      BY <1>1, <2>1, <2>3, <3>1
  <2> QED
    BY <2>2, <2>3
<1> QED
  BY <1>2, <1>3 DEF InPairs

\* A line is written: a call, or the end of the vote that runs.
LEMMA PairsWritten ==
  ASSUME VoteTypes, InPairs(log, current, running), NEW m \in Lines, NEW vote,
         \/ m.line = "called" /\ vote = m.vote
         \/ m.line \in Finished /\ running # Vote!NoVote /\ m.vote = running /\ vote = Vote!NoVote
  PROVE  InPairs(Append(log, m), current, vote)
<1> DEFINE n == Len(log)
           lines == Append(log, m)
<1>1. n \in Nat /\ Len(lines) = n + 1 /\ lines[n + 1] = m /\ \A i \in 1..n : lines[i] = log[i]
  <2>1. log \in Seq(Lines)
    BY DEF VoteTypes
  <2> QED
    BY <2>1, AppendProperties
<1> HIDE DEF n, lines
<1>2. ASSUME NEW i \in 1..Len(lines)
      PROVE  /\ lines[i].line # "barred"
             /\ lines[i].line \in Finished =>
                   IF i = 1 THEN current = lines[1].vote
                   ELSE lines[i - 1].line = "called" /\ lines[i - 1].vote = lines[i].vote
  <2>1. CASE i = n + 1
    <3>1. lines[i] = m /\ m.line # "barred" /\ "called" \notin Finished
      BY <1>1, <2>1 DEF Finished
    <3>2. CASE m.line \in Finished
      <4>1. IF n = 0 THEN current = running ELSE log[n].line = "called" /\ log[n].vote = running
        BY <3>1, <3>2 DEF InPairs, n
      <4>2. CASE n = 0
        BY <2>1, <3>1, <3>2, <4>1, <4>2
      <4>3. CASE n # 0
        <5>1. i # 1 /\ i - 1 = n /\ n \in 1..n
          BY <1>1, <2>1, <4>3
        <5> QED
          BY <1>1, <3>1, <3>2, <4>1, <4>3, <5>1
      <4> QED
        BY <4>2, <4>3
    <3> QED
      BY <3>1, <3>2
  <2>2. CASE i \in 1..n
    <3>1. lines[i] = log[i] /\ i \in 1..Len(log)
      BY <1>1, <2>2 DEF n
    <3>2. CASE i = 1
      BY <3>1, <3>2 DEF InPairs
    <3>3. CASE i # 1
      <4>1. i - 1 \in 1..n
        BY <1>1, <2>2, <3>3
      <4> QED
        BY <1>1, <3>1, <3>3, <4>1 DEF InPairs
    <3> QED
      BY <3>2, <3>3
  <2> QED
    BY <1>1, <2>1, <2>2
<1>3. vote # Vote!NoVote => lines[Len(lines)].line = "called" /\ lines[Len(lines)].vote = vote
  BY <1>1
<1>4. Len(lines) # 0
  BY <1>1
<1>5. InPairs(lines, current, vote)
  BY <1>2, <1>3, <1>4 DEF InPairs
<1> QED
  BY <1>5 DEF lines

LEMMA AwaitedStill ==
  ASSUME VoteTypes, NEW ban, Awaited(ban, log), NEW m \in Lines
  PROVE  Awaited(ban, Append(log, m))
<1>1. log \in Seq(Lines)
  BY DEF VoteTypes
<1>2. PICK i \in 1..Len(log) : log[i].vote = ban
                                 /\ log[i].line = IF engine = "altitude" THEN "barred" ELSE "passed"
  BY DEF Awaited
<1>3. Append(log, m)[i] = log[i] /\ i \in 1..Len(Append(log, m))
  BY <1>1, <1>2, AppendProperties
<1> QED
  BY <1>2, <1>3 DEF Awaited

LEMMA AwaitedYet ==
  ASSUME VoteTypes, NEW ban, Awaited(ban, log), log # <<>>,
         \/ Head(log).vote # ban
         \/ Head(log).line # IF engine = "altitude" THEN "barred" ELSE "passed"
  PROVE  Awaited(ban, Tail(log))
<1>1. PICK i \in 1..Len(log) : log[i].vote = ban
                                 /\ log[i].line = IF engine = "altitude" THEN "barred" ELSE "passed"
  BY DEF Awaited
<1>2. Len(log) \in Nat /\ Head(log) = log[1] /\ Len(Tail(log)) = Len(log) - 1
        /\ \A j \in 1..(Len(log) - 1) : Tail(log)[j] = log[j + 1]
  BY OneLess
<1>3. i # 1
  BY <1>1, <1>2
<1>4. i - 1 \in 1..(Len(log) - 1) /\ (i - 1) + 1 = i
  BY <1>2, <1>3
<1>5. Tail(log)[i - 1] = log[i] /\ i - 1 \in 1..Len(Tail(log))
  BY <1>2, <1>4
<1> QED
  BY <1>1, <1>5 DEF Awaited

\* What a line read leaves of the bans: those that it is not about are awaited as before.
LEMMA BansAwaited ==
  ASSUME VoteInv, ~missed, log # <<>>, NEW bans1 \in SUBSET banned,
         \A ban \in bans1 : Vote!Shielded(ban) =>
            \/ Head(log).vote # ban
            \/ Head(log).line # IF engine = "altitude" THEN "barred" ELSE "passed"
  PROVE  \A ban \in bans1 : Vote!Shielded(ban) => Awaited(ban, Tail(log))
<1> SUFFICES ASSUME NEW ban \in bans1, Vote!Shielded(ban) PROVE Awaited(ban, Tail(log))
  OBVIOUS
<1>1. Awaited(ban, log) /\ VoteTypes
  BY DEF VoteInv
<1> QED
  BY <1>1, AwaitedYet

LEMMA CallStep ==
  ASSUME VoteInv, NEW caller \in Players, NEW target \in Players, NEW type \in Vote!Types,
         Vote!Call(caller, type, target)
  PROVE  VoteInv'
<1> DEFINE ballot == [type |-> type, caller |-> caller, target |-> target]
           m == [line |-> "called", vote |-> ballot]
<1>1. ballot \in Ballots /\ ballot.type = type
  BY DEF Ballots, Vote!Vote
<1>2. m \in Lines /\ m.line = "called" /\ m.vote = ballot
  BY <1>1 DEF Lines
<1>3. /\ running' = ballot /\ log' = Append(log, m) /\ (type = "ban" => engine = "homefront")
      /\ engine' = engine /\ banned' = banned /\ current' = current /\ missed' = missed
  BY DEF Vote!Call
<1> HIDE DEF ballot, m
<1>4. VoteTypes'
  BY <1>1, <1>2, <1>3, AppendProperties DEF VoteInv, VoteTypes
<1>5. VoteKinds'
  BY <1>1, <1>3 DEF VoteInv, VoteKinds, Vote!Bars
<1>6. (engine = "homefront" /\ ~missed => InPairs(log, current, running))'
  BY <1>2, <1>3, PairsWritten DEF VoteInv
<1>7. (~missed => \A ban \in banned : Vote!Shielded(ban) => Awaited(ban, log))'
  <2> SUFFICES ASSUME ~missed, NEW ban \in banned, Vote!Shielded(ban) PROVE Awaited(ban, Append(log, m))
    BY <1>3 DEF Awaited, Vote!Shielded
  <2> QED
    BY <1>2, AwaitedStill DEF VoteInv
<1> QED
  BY <1>4, <1>5, <1>6, <1>7 DEF VoteInv

\* A vote ends: the line that says so is written with the ban.
LEMMA EndStep ==
  ASSUME VoteInv, NEW passed \in BOOLEAN, Vote!End(passed)
  PROVE  VoteInv'
<1> DEFINE word == IF engine = "altitude" THEN "barred" ELSE IF passed THEN "passed" ELSE "failed"
           m == [line |-> word, vote |-> running]
<1>1. running \in Ballots /\ running # Vote!NoVote
  BY DEF VoteInv, VoteTypes, Vote!End
<1>2. m \in Lines /\ m.line = word /\ m.vote = running
  BY <1>1 DEF Lines, Finished
<1>3. /\ engine' = engine /\ running' = Vote!NoVote /\ current' = current /\ missed' = missed
      /\ banned' = IF passed /\ Vote!Bars(running) THEN banned \cup {running} ELSE banned
      /\ log' = IF engine = "altitude" /\ ~(passed /\ Vote!Bars(running)) THEN log ELSE Append(log, m)
  BY DEF Vote!End
<1>4. engine # "altitude" => word \in Finished /\ (passed => word = "passed")
  BY DEF Finished
<1>5. engine = "altitude" => word = "barred"
  OBVIOUS
<1> HIDE DEF word, m
<1>6. VoteTypes'
  <2>1. log' \in Seq(Lines)
    BY <1>2, <1>3, AppendProperties DEF VoteInv, VoteTypes
  <2> QED
    BY <1>1, <1>3, <2>1 DEF VoteInv, VoteTypes
<1>7. VoteKinds'
  <2>1. Vote!NoVote.type # "ban"
    BY DEF Vote!NoVote
  <2>2. engine = "urt" => ~Vote!Bars(running)
    BY DEF VoteInv, VoteKinds, Vote!Bars
  <2> QED
    BY <1>3, <2>1, <2>2 DEF VoteInv, VoteKinds, Vote!Bars
<1>8. (engine = "homefront" /\ ~missed => InPairs(log, current, running))'
  <2> SUFFICES ASSUME engine = "homefront", ~missed
               PROVE  InPairs(Append(log, m), current, Vote!NoVote)
    BY <1>3
  <2> QED
    BY <1>1, <1>2, <1>4, PairsWritten DEF VoteInv
<1>9. (~missed => \A ban \in banned : Vote!Shielded(ban) => Awaited(ban, log))'
  <2> SUFFICES ASSUME ~missed, NEW ban \in banned', Vote!Shielded(ban) PROVE Awaited(ban, log')
    BY <1>3 DEF Awaited, Vote!Shielded
  <2>1. CASE ban \in banned
    <3>1. Awaited(ban, log)
      BY <2>1 DEF VoteInv
    <3>2. Awaited(ban, Append(log, m))
      BY <1>2, <3>1, AwaitedStill DEF VoteInv
    <3> QED
      BY <1>3, <3>1, <3>2
  <2>2. CASE ban \notin banned
    <3>1. passed /\ Vote!Bars(running) /\ ban = running /\ log' = Append(log, m)
      BY <1>3, <2>2
    <3>2. Len(log') = Len(log) + 1 /\ Len(log) \in Nat /\ log'[Len(log) + 1] = m
      BY <1>2, <3>1, AppendProperties DEF VoteInv, VoteTypes
    <3>3. m.line = IF engine = "altitude" THEN "barred" ELSE "passed"
      BY <1>2, <1>4, <1>5, <3>1
    <3>4. Len(log) + 1 \in 1..Len(log')
      BY <3>2
    <3> QED
      BY <1>2, <3>1, <3>2, <3>3, <3>4 DEF Awaited
  <2> QED
    BY <2>1, <2>2
<1> QED
  BY <1>6, <1>7, <1>8, <1>9 DEF VoteInv

LEMMA ReadCalledStep ==
  ASSUME VoteInv, NEW enough \in BOOLEAN, Vote!ReadCalled(enough)
  PROVE  VoteInv'
<1>1. log # <<>> /\ Head(log).line = "called" /\ Head(log) \in Lines /\ Tail(log) \in Seq(Lines)
  BY OneLess DEF VoteInv, Vote!ReadCalled
<1>2. /\ engine' = engine /\ banned' = banned /\ missed' = missed /\ log' = Tail(log)
      /\ \/ engine # "urt" /\ current' = Head(log).vote /\ running' = running
         \/ engine = "urt" /\ current' \in {Head(log).vote, Vote!NoVote}
                           /\ running' \in {running, Vote!NoVote}
  BY DEF Vote!ReadCalled, Vote!Handled, Vote!CanVeto
<1>3. VoteTypes'
  BY <1>1, <1>2 DEF VoteInv, VoteTypes, Lines
<1>4. VoteKinds'
  BY <1>2 DEF VoteInv, VoteKinds, Vote!Bars, Vote!NoVote
<1>5. (engine = "homefront" /\ ~missed => InPairs(log, current, running))'
  BY <1>1, <1>2, PairsRead DEF VoteInv
<1>6. (~missed => \A ban \in banned : Vote!Shielded(ban) => Awaited(ban, log))'
  <2> SUFFICES ASSUME ~missed PROVE \A ban \in banned : Vote!Shielded(ban) => Awaited(ban, Tail(log))
    BY <1>2 DEF Awaited, Vote!Shielded
  <2> QED
    BY <1>1, BansAwaited
<1> QED
  BY <1>3, <1>4, <1>5, <1>6 DEF VoteInv

\* The end of a vote is read: on Homefront it is the vote that was called last.
LEMMA ReadFinishedStep ==
  ASSUME VoteInv, Vote!ReadFinished
  PROVE  VoteInv'
<1>1. log # <<>> /\ Head(log).line \in Finished /\ Head(log) \in Lines
        /\ Head(log) = log[1] /\ Len(log) >= 1 /\ Len(log) \in Nat /\ Tail(log) \in Seq(Lines)
  BY OneLess DEF VoteInv, Vote!ReadFinished, Finished
<1>2. /\ engine' = engine /\ running' = running /\ missed' = missed /\ log' = Tail(log)
      /\ current' = Vote!NoVote
  BY DEF Vote!ReadFinished
<1>3. banned' \in SUBSET banned
  BY DEF Vote!ReadFinished, Vote!Undone
<1>4. VoteTypes'
  BY <1>1, <1>2, <1>3 DEF VoteInv, VoteTypes
<1>5. VoteKinds'
  BY <1>2, <1>3 DEF VoteInv, VoteKinds, Vote!Bars
<1>6. (engine = "homefront" /\ ~missed => InPairs(log, current, running))'
  BY <1>1, <1>2, PairsRead DEF VoteInv
<1>7. (~missed => \A ban \in banned : Vote!Shielded(ban) => Awaited(ban, log))'
  <2> SUFFICES ASSUME ~missed PROVE \A ban \in banned' : Vote!Shielded(ban) => Awaited(ban, Tail(log))
    BY <1>2 DEF Awaited, Vote!Shielded
  <2>1. ASSUME NEW ban \in banned', Vote!Shielded(ban), Head(log).vote = ban,
               Head(log).line = IF engine = "altitude" THEN "barred" ELSE "passed"
        PROVE  FALSE
    <3>1. engine = "homefront"
      <4>1. engine # "altitude"
        BY <1>1, <2>1 DEF Finished
      <4>2. engine # "urt"
        BY <1>3, <2>1 DEF VoteInv, VoteKinds
      <4> QED
        BY <4>1, <4>2 DEF VoteInv, VoteTypes
    <3>2. Head(log).line = "passed" /\ ban \in banned /\ ban.type = "ban"
      BY <1>3, <2>1, <3>1 DEF VoteInv, VoteKinds, Vote!Bars
    <3>3. current = ban
      BY <1>1, <2>1, <3>1 DEF VoteInv, InPairs
    <3>4. current # Vote!NoVote
      BY <3>2, <3>3 DEF Vote!NoVote
    <3>5. banned' = Vote!Undone(current)
      BY <3>1, <3>2, <3>4 DEF Vote!ReadFinished
    <3> QED
      BY <2>1, <3>2, <3>3, <3>5 DEF Vote!Undone
  <2> QED
    BY <1>1, <1>3, <2>1, BansAwaited
<1> QED
  BY <1>4, <1>5, <1>6, <1>7 DEF VoteInv

\* Somebody thrown out by vote leaves: on Altitude alone.
LEMMA ReadThrownOutStep ==
  ASSUME VoteInv, Vote!ReadThrownOut
  PROVE  VoteInv'
<1>1. log # <<>> /\ Head(log).line = "barred" /\ Head(log) \in Lines
        /\ Head(log) = log[1] /\ Len(log) >= 1 /\ Len(log) \in Nat /\ Tail(log) \in Seq(Lines)
  BY OneLess DEF VoteInv, Vote!ReadThrownOut
<1>2. /\ engine' = engine /\ running' = running /\ missed' = missed /\ log' = Tail(log)
      /\ current' = current
  BY DEF Vote!ReadThrownOut
<1>3. banned' \in SUBSET banned
  BY DEF Vote!ReadThrownOut
<1>4. VoteTypes'
  BY <1>1, <1>2, <1>3 DEF VoteInv, VoteTypes
<1>5. VoteKinds'
  BY <1>2, <1>3 DEF VoteInv, VoteKinds, Vote!Bars
<1>6. (engine = "homefront" /\ ~missed => InPairs(log, current, running))'
  BY <1>1, <1>2 DEF VoteInv, InPairs
<1>7. (~missed => \A ban \in banned : Vote!Shielded(ban) => Awaited(ban, log))'
  <2> SUFFICES ASSUME ~missed PROVE \A ban \in banned' : Vote!Shielded(ban) => Awaited(ban, Tail(log))
    BY <1>2 DEF Awaited, Vote!Shielded
  <2>1. ASSUME NEW ban \in banned', Vote!Shielded(ban), Head(log).vote = ban PROVE FALSE
    BY <2>1 DEF Vote!ReadThrownOut, Vote!Shielded
  <2> QED
    BY <1>3, <1>1, <2>1, BansAwaited
<1> QED
  BY <1>4, <1>5, <1>6, <1>7 DEF VoteInv

LEMMA SkipStep ==
  ASSUME VoteInv, Vote!Skip
  PROVE  VoteInv'
<1>1. log # <<>> /\ Tail(log) \in Seq(Lines)
  BY OneLess DEF VoteInv, Vote!Skip
<1> QED
  BY <1>1 DEF VoteInv, VoteTypes, VoteKinds, Vote!Bars, Vote!Skip

\* !veto is for Urban Terror, where no vote keeps anybody out.
LEMMA VetoStep ==
  ASSUME VoteInv, Vote!Veto
  PROVE  VoteInv'
<1>1. VoteTypes' /\ VoteKinds'
  BY DEF VoteInv, VoteTypes, VoteKinds, Vote!Bars, Vote!Veto, Vote!CanVeto, Vote!NoVote
<1>2. (engine = "homefront" /\ ~missed => InPairs(log, current, running))'
  BY DEF Vote!Veto, Vote!CanVeto
<1>3. (~missed => \A ban \in banned : Vote!Shielded(ban) => Awaited(ban, log))'
  BY DEF VoteInv, VoteKinds, Vote!Veto, Vote!CanVeto
<1> QED
  BY <1>1, <1>2, <1>3 DEF VoteInv

\* Once the bot has read what the server wrote, no vote against a protected player by somebody
\* they outrank keeps them out, unless a line was passed over while the bot was paused.  It
\* holds for any players, levels, levels needed and protection, and however far the bot's
\* reading is behind.  (plugins/callvote/__init__.py:356-457, 514-543)
THEOREM NoShieldedBanStays == Vote!Spec => []Vote!NoShieldedBanStands
<1>1. Vote!Init => VoteInv
  <2> SUFFICES ASSUME Vote!Init PROVE VoteInv
    OBVIOUS
  <2>1. Len(log) = 0 /\ log \in Seq(Lines)
    BY EmptySeq DEF Vote!Init
  <2>2. VoteTypes /\ VoteKinds
    BY <2>1 DEF Vote!Init, VoteTypes, VoteKinds, Vote!NoVote
  <2>3. InPairs(log, current, running)
    BY <2>1 DEF Vote!Init, InPairs
  <2> QED
    BY <2>2, <2>3 DEF Vote!Init, VoteInv
<1>2. VoteInv /\ [Vote!Next]_Vote!vars => VoteInv'
  <2> SUFFICES ASSUME VoteInv, [Vote!Next]_Vote!vars PROVE VoteInv'
    OBVIOUS
  <2>1. CASE Vote!Votes
    BY <2>1, CallStep, EndStep DEF Vote!Votes
  <2>2. CASE Vote!Reads
    BY <2>2, SkipStep, ReadFinishedStep, ReadThrownOutStep, ReadCalledStep DEF Vote!Reads
  <2>3. CASE Vote!Veto
    BY <2>3, VetoStep
  <2>4. CASE UNCHANGED Vote!vars
    BY <2>4 DEF Vote!vars, VoteInv, VoteTypes, VoteKinds, Vote!Bars, InPairs, Awaited, Vote!Shielded
  <2> QED
    BY <2>1, <2>2, <2>3, <2>4 DEF Vote!Next
<1>3. VoteInv => Vote!NoShieldedBanStands
  <2> SUFFICES ASSUME VoteInv, log = <<>>, ~missed, NEW ban \in banned, Vote!Shielded(ban)
               PROVE  FALSE
    BY DEF Vote!NoShieldedBanStands
  <2>1. Awaited(ban, log) /\ Len(log) = 0
    BY EmptySeq DEF VoteInv
  <2> QED
    BY <2>1 DEF Awaited
<1> QED
  BY <1>1, <1>2, <1>3, PTL DEF Vote!Spec

-----------------------------------------------------------------------------
(* Groups.                                                                    *)

RanksTyped ==
    /\ login \in BOOLEAN /\ here \subseteq Players
    /\ row \in [Players -> Rank!Clients] /\ session \in [Players -> Rank!Clients]
    /\ restore \in [Players -> SUBSET Rank!Groups]

IsSuper(client) == "superadmin" \in client.groups

\* On record as a superadmin, and as the client too for whoever is here.
Anchored(p) == IsSuper(row[p]) /\ (p \in here => IsSuper(session[p]))

Anchor == \E p \in Players : Anchored(p)
Supers == \E p \in Players : IsSuper(row[p]) \/ IsSuper(session[p])

\* Wherever there is a superadmin, there is one whom nothing that is written back degrades.
RankInv ==
    /\ RanksTyped
    /\ ~login => (Supers => Anchor)

Kept == ~login => (Anchor => Anchor') /\ (Supers' => Anchor')

LEMMA Levels ==
  /\ Rank!Level("user") = 1 /\ Rank!Level("reg") = 2 /\ Rank!Level("senioradmin") = 80
  /\ Rank!Level("superadmin") = 100 /\ Rank!Level("guest") = 0
<1>1. Rank!Level("user") = 1
  BY DEF Rank!Level
<1>2. Rank!Level("reg") = 2
  BY DEF Rank!Level
<1>3. Rank!Level("senioradmin") = 80
  BY DEF Rank!Level
<1>4. Rank!Level("superadmin") = 100
  BY DEF Rank!Level
<1>5. Rank!Level("guest") = 0
  BY DEF Rank!Level
<1> QED
  BY <1>1, <1>2, <1>3, <1>4, <1>5

\* The rank of a set of groups is the level of the highest of them.
LEMMA RankIsHighest ==
  ASSUME NEW s \in SUBSET Rank!Groups
  PROVE  /\ Rank!Rank(s) \in Nat /\ Rank!Rank(s) <= 100
         /\ \A g \in s : Rank!Level(g) <= Rank!Rank(s)
         /\ Rank!Rank(s) = 0 \/ \E g \in s : Rank!Level(g) = Rank!Rank(s)
<1> DEFINE levels == {Rank!Level(g) : g \in s}
<1>1. levels \subseteq {1, 2, 80, 100}
  <2> SUFFICES ASSUME NEW g \in s PROVE Rank!Level(g) \in {1, 2, 80, 100}
    OBVIOUS
  <2>1. g \in {"user", "reg", "senioradmin", "superadmin"}
    BY DEF Rank!Groups
  <2> QED
    BY <2>1, Levels
<1>2. \E n \in levels \cup {0} : \A m \in levels : m <= n
  <2> HIDE DEF levels
  <2>1. CASE 100 \in levels
    BY <1>1, <2>1
  <2>2. CASE 100 \notin levels /\ 80 \in levels
    BY <1>1, <2>2
  <2>3. CASE 100 \notin levels /\ 80 \notin levels /\ 2 \in levels
    BY <1>1, <2>3
  <2>4. CASE 100 \notin levels /\ 80 \notin levels /\ 2 \notin levels /\ 1 \in levels
    BY <1>1, <2>4
  <2>5. CASE levels = {}
    BY <2>5
  <2> QED
    BY <1>1, <2>1, <2>2, <2>3, <2>4, <2>5
<1>3. Rank!Rank(s) \in levels \cup {0} /\ \A m \in levels : m <= Rank!Rank(s)
  BY <1>2 DEF Rank!Rank
<1>4. Rank!Rank(s) \in {0, 1, 2, 80, 100}
  <2> HIDE DEF levels
  <2> QED
    BY <1>1, <1>3
<1>5. \A g \in s : Rank!Level(g) <= Rank!Rank(s)
  BY <1>3
<1>6. Rank!Rank(s) = 0 \/ \E g \in s : Rank!Level(g) = Rank!Rank(s)
  BY <1>3
<1>7. Rank!Rank(s) \in Nat /\ Rank!Rank(s) <= 100
  <2> HIDE DEF levels
  <2> QED
    BY ONLY <1>4
<1> QED
  BY <1>5, <1>6, <1>7

LEMMA SuperIsHighest ==
  ASSUME NEW s \in SUBSET Rank!Groups
  PROVE  "superadmin" \in s <=> Rank!Rank(s) = 100
<1>1. ASSUME "superadmin" \in s PROVE Rank!Rank(s) = 100
  <2>1. 100 <= Rank!Rank(s)
    BY <1>1, RankIsHighest, Levels
  <2>2. Rank!Rank(s) \in Nat /\ Rank!Rank(s) <= 100
    BY RankIsHighest
  <2> QED
    BY ONLY <2>1, <2>2
<1>2. ASSUME Rank!Rank(s) = 100 PROVE "superadmin" \in s
  <2>1. PICK g \in s : Rank!Level(g) = 100
    BY <1>2, RankIsHighest
  <2>2. g \in {"user", "reg", "senioradmin", "superadmin"}
    BY DEF Rank!Groups
  <2> QED
    BY <2>1, <2>2, Levels
<1> QED
  BY <1>1, <1>2

LEMMA RankOfOne ==
  ASSUME NEW g \in {"guest"} \cup Rank!Groups
  PROVE  Rank!Only(g) \in SUBSET Rank!Groups /\ Rank!Rank(Rank!Only(g)) = Rank!Level(g)
<1>1. CASE g = "guest"
  <2>1. Rank!Only(g) = {}
    BY <1>1 DEF Rank!Only
  <2>2. Rank!Rank({}) = 0
    BY RankIsHighest
  <2> QED
    BY <1>1, <2>1, <2>2, Levels
<1>2. CASE g # "guest"
  <2>1. Rank!Only(g) = {g} /\ {g} \in SUBSET Rank!Groups
    BY <1>2 DEF Rank!Only
  <2>2. Rank!Level(g) > 0 /\ Rank!Level(g) \in Nat
    <3>1. g \in {"user", "reg", "senioradmin", "superadmin"}
      BY <1>2 DEF Rank!Groups
    <3> QED
      BY <3>1, Levels
  <2>3. Rank!Rank({g}) \in Nat /\ Rank!Level(g) <= Rank!Rank({g})
          /\ (Rank!Rank({g}) = 0 \/ Rank!Level(g) = Rank!Rank({g}))
    BY <2>1, RankIsHighest
  <2>4. Rank!Rank({g}) = Rank!Level(g)
    BY <2>2, <2>3
  <2> QED
    BY <2>1, <2>4
<1> QED
  BY <1>1, <1>2

LEMMA RankGrows ==
  ASSUME NEW s \in SUBSET Rank!Groups, NEW t \in SUBSET s
  PROVE  Rank!Rank(t) <= Rank!Rank(s)
<1>1. /\ Rank!Rank(s) \in Nat /\ Rank!Rank(t) \in Nat
      /\ \A g \in s : Rank!Level(g) <= Rank!Rank(s)
      /\ Rank!Rank(t) = 0 \/ \E g \in t : Rank!Level(g) = Rank!Rank(t)
  BY RankIsHighest
<1> QED
  BY <1>1

\* What a command by a may make of a client: it neither takes a superadmin's rank nor gives it
\* out of nothing, and raises nobody but those below a.
Fit(a, t, copy, new) ==
    LET old == Rank!Target(t, copy)
    IN  /\ IsSuper(old) => IsSuper(new)
        /\ copy /\ IsSuper(new) => Supers
        /\ \/ Rank!Rank(new.groups) <= Rank!Rank(old.groups)
           \/ a # t /\ (Rank!Rank(new.groups) < Rank!RankOf(a) \/ Rank!RankOf(a) = 100)

Writes(a, t, copy) ==
    \E new \in Rank!Clients :
        /\ Rank!Write(t, copy, new) /\ Fit(a, t, copy, new)
        /\ login' = login /\ here' = here /\ restore' = restore

LEMMA TargetTyped ==
  ASSUME RanksTyped, NEW t \in Players, NEW copy \in BOOLEAN
  PROVE  /\ Rank!Target(t, copy) \in Rank!Clients
         /\ Rank!Target(t, copy).groups \in SUBSET Rank!Groups
         /\ IsSuper(Rank!Target(t, copy)) => Supers
         /\ Rank!Rank(Rank!Target(t, copy).groups) \in Nat
         /\ Rank!Rank(Rank!Target(t, copy).groups) <= 100
<1>1. Rank!Target(t, copy) \in {row[t], session[t]}
  BY DEF Rank!Target
<1>2. Rank!Target(t, copy) \in Rank!Clients
  BY <1>1 DEF RanksTyped
<1>3. Rank!Target(t, copy).groups \in SUBSET Rank!Groups
  BY <1>2 DEF Rank!Clients
<1>4. IsSuper(Rank!Target(t, copy)) => Supers
  BY <1>1 DEF Supers
<1>5. Rank!Rank(Rank!Target(t, copy).groups) \in Nat /\ Rank!Rank(Rank!Target(t, copy).groups) <= 100
  BY <1>3, RankIsHighest
<1> QED
  BY <1>2, <1>3, <1>4, <1>5

LEMMA OwnRank ==
  ASSUME RanksTyped, NEW a \in Players
  PROVE  /\ Rank!RankOf(a) \in Nat /\ Rank!RankOf(a) <= 100
         /\ Rank!RankOf(a) = 100 <=> IsSuper(session[a])
         /\ session[a] \in Rank!Clients /\ session[a].groups \in SUBSET Rank!Groups
<1>1. session[a] \in Rank!Clients /\ session[a].groups \in SUBSET Rank!Groups
  BY DEF RanksTyped, Rank!Clients
<1>2. Rank!RankOf(a) \in Nat /\ Rank!RankOf(a) <= 100
  BY <1>1, RankIsHighest DEF Rank!RankOf
<1>3. Rank!RankOf(a) = 100 <=> IsSuper(session[a])
  BY <1>1, SuperIsHighest DEF Rank!RankOf, IsSuper
<1> QED
  BY <1>1, <1>2, <1>3

\* Nobody acts on a superadmin.
LEMMA NoneAbove ==
  ASSUME RanksTyped, NEW a \in Players, NEW t \in Players, NEW copy \in BOOLEAN,
         Rank!MayActOn(a, t, copy)
  PROVE  a # t /\ ~IsSuper(Rank!Target(t, copy))
<1>1. a # t /\ Rank!Rank(Rank!Target(t, copy).groups) < Rank!RankOf(a)
  BY DEF Rank!MayActOn
<1>2. Rank!Rank(Rank!Target(t, copy).groups) # 100
  <2>1. Rank!RankOf(a) \in Nat /\ Rank!RankOf(a) <= 100 /\ Rank!Rank(Rank!Target(t, copy).groups) \in Nat
    BY OwnRank, TargetTyped
  <2> QED
    BY <1>1, <2>1
<1>3. ~IsSuper(Rank!Target(t, copy))
  BY <1>2, TargetTyped, SuperIsHighest DEF IsSuper
<1> QED
  BY <1>1, <1>3

\* The groups of a client are replaced.
LEMMA PutWrites ==
  ASSUME RanksTyped, NEW a \in Players, NEW t \in Players, NEW copy \in BOOLEAN,
         NEW s \in SUBSET Rank!Groups, Rank!PutInto(t, copy, s),
         login' = login /\ here' = here /\ restore' = restore,
         IsSuper(Rank!Target(t, copy)) => "superadmin" \in s,
         copy /\ "superadmin" \in s => Supers,
         \/ Rank!Rank(s) <= Rank!Rank(Rank!Target(t, copy).groups)
         \/ a # t /\ (Rank!Rank(s) < Rank!RankOf(a) \/ Rank!RankOf(a) = 100)
  PROVE  Writes(a, t, copy)
<1> DEFINE new == [Rank!Target(t, copy) EXCEPT !.groups = s]
<1>1. new \in Rank!Clients /\ new.groups = s
  BY TargetTyped DEF Rank!Clients
<1>2. Rank!Write(t, copy, new)
  BY DEF Rank!PutInto
<1>3. Fit(a, t, copy, new)
  BY <1>1 DEF Fit, IsSuper
<1> HIDE DEF new
<1> QED
  BY <1>1, <1>2, <1>3 DEF Writes

LEMMA PutGroupWrites ==
  ASSUME RanksTyped, NEW a \in Players, NEW t \in Players, NEW copy \in BOOLEAN,
         NEW g \in {"guest"} \cup Rank!Groups, Rank!PutGroup(a, t, copy, g)
  PROVE  Writes(a, t, copy)
<1>1. /\ Rank!MayActOn(a, t, copy) /\ Rank!PutInto(t, copy, Rank!Only(g))
      /\ Rank!Level(g) < Rank!RankOf(a) \/ Rank!RankOf(a) = 100
      /\ login' = login /\ here' = here /\ restore' = restore
  BY DEF Rank!PutGroup, Rank!WithinReach
<1>2. a # t /\ ~IsSuper(Rank!Target(t, copy))
  BY <1>1, NoneAbove
<1>3. Rank!Only(g) \in SUBSET Rank!Groups /\ Rank!Rank(Rank!Only(g)) = Rank!Level(g)
  BY RankOfOne
<1>4. "superadmin" \in Rank!Only(g) => Supers
  <2> SUFFICES ASSUME "superadmin" \in Rank!Only(g) PROVE Rank!RankOf(a) = 100
    BY OwnRank DEF Supers
  <2>1. Rank!Level(g) = 100
    BY <1>3, SuperIsHighest
  <2> QED
    BY <1>1, <2>1, OwnRank
<1> QED
  BY <1>1, <1>2, <1>3, <1>4, PutWrites

LEMMA UnGroupWrites ==
  ASSUME RanksTyped, NEW a \in Players, NEW t \in Players, NEW copy \in BOOLEAN,
         NEW g \in {"guest"} \cup Rank!Groups, Rank!UnGroup(a, t, copy, g)
  PROVE  Writes(a, t, copy)
<1> DEFINE old == Rank!Target(t, copy)
<1>1. /\ Rank!MayActOn(a, t, copy) /\ Rank!PutInto(t, copy, old.groups \ {g})
      /\ login' = login /\ here' = here /\ restore' = restore
  BY DEF Rank!UnGroup
<1>2. ~IsSuper(old)
  BY <1>1, NoneAbove
<1>3. old.groups \in SUBSET Rank!Groups
  BY TargetTyped
<1>4. old.groups \ {g} \in SUBSET Rank!Groups /\ Rank!Rank(old.groups \ {g}) <= Rank!Rank(old.groups)
  BY <1>3, RankGrows
<1>5. "superadmin" \notin old.groups \ {g}
  BY <1>2 DEF IsSuper
<1> QED
  BY <1>1, <1>2, <1>4, <1>5, PutWrites

LEMMA RegWrites ==
  ASSUME RanksTyped, NEW a \in Players, NEW t \in Players, NEW copy \in BOOLEAN,
         Rank!MakeReg(a, t, copy) \/ Rank!UnReg(a, t, copy)
  PROVE  Writes(a, t, copy)
<1>1. PICK g \in {"user", "reg"} : Rank!PutInto(t, copy, {g})
  BY DEF Rank!MakeReg, Rank!UnReg
<1>2. /\ Rank!MayActOn(a, t, copy) /\ Rank!RankOf(a) >= 80
      /\ login' = login /\ here' = here /\ restore' = restore
  BY DEF Rank!MakeReg, Rank!UnReg, Rank!Gives
<1>3. a # t /\ ~IsSuper(Rank!Target(t, copy))
  BY <1>2, NoneAbove
<1>4. {g} \in SUBSET Rank!Groups /\ Rank!Rank({g}) = Rank!Level(g)
  <2>1. g \in {"guest"} \cup Rank!Groups /\ Rank!Only(g) = {g}
    BY DEF Rank!Groups, Rank!Only
  <2> QED
    BY <2>1, RankOfOne
<1>5. Rank!Rank({g}) < Rank!RankOf(a)
  BY <1>2, <1>4, Levels, OwnRank
<1>6. "superadmin" \notin {g}
  OBVIOUS
<1> QED
  BY <1>1, <1>2, <1>3, <1>4, <1>5, <1>6, PutWrites

\* A mask and a password leave the groups as they are.
LEMMA MaskWrites ==
  ASSUME RanksTyped, NEW a \in Players, NEW t \in Players, NEW copy \in BOOLEAN,
         Rank!SetPassword(a, t, copy) \/ \E bits \in {0, 2} : Rank!Mask(a, t, copy, bits)
  PROVE  Writes(a, t, copy)
<1> DEFINE old == Rank!Target(t, copy)
<1>1. PICK new : /\ Rank!Write(t, copy, new)
                 /\ new = old \/ \E bits \in {0, 2} : new = [old EXCEPT !.mask = bits]
  BY DEF Rank!SetPassword, Rank!Mask
<1>2. login' = login /\ here' = here /\ restore' = restore
  BY DEF Rank!SetPassword, Rank!Mask
<1>3. old \in Rank!Clients /\ (IsSuper(old) => Supers) /\ Rank!Rank(old.groups) \in Nat
  BY TargetTyped
<1>4. new \in Rank!Clients /\ new.groups = old.groups
  BY <1>1, <1>3 DEF Rank!Clients
<1>5. Fit(a, t, copy, new)
  BY <1>3, <1>4 DEF Fit, IsSuper
<1> QED
  BY <1>1, <1>2, <1>4, <1>5 DEF Writes

LEMMA CommandsWrite ==
  ASSUME RanksTyped, NEW a \in Players, NEW t \in Players, NEW copy \in BOOLEAN,
         Rank!CommandOn(a, t, copy)
  PROVE  Writes(a, t, copy) /\ a \in here
<1>1. a \in here
  BY DEF Rank!CommandOn, Rank!PutGroup, Rank!UnGroup, Rank!MakeReg, Rank!UnReg, Rank!SetPassword,
         Rank!Mask, Rank!Gives
<1>2. Writes(a, t, copy)
  BY PutGroupWrites, UnGroupWrites, RegWrites, MaskWrites DEF Rank!CommandOn
<1> QED
  BY <1>1, <1>2

-----------------------------------------------------------------------------

\* What is written on a client that is here, or on a copy, keeps a superadmin there is.
LEMMA WritingKeeps ==
  ASSUME RankInv, NEW t \in Players, NEW copy \in BOOLEAN, copy \/ t \in here,
         NEW new \in Rank!Clients, Rank!Write(t, copy, new),
         IsSuper(Rank!Target(t, copy)) => IsSuper(new), copy /\ IsSuper(new) => Supers,
         login' = login /\ here' = here /\ restore' = restore
  PROVE  RanksTyped' /\ Kept
<1>2. row' = [row EXCEPT ![t] = new]
        /\ session' = IF copy THEN session ELSE [session EXCEPT ![t] = new]
  BY DEF Rank!Write
<1>3. RanksTyped'
  BY <1>2 DEF RankInv, RanksTyped
<1>4. \A p \in Players : row'[p] = (IF p = t THEN new ELSE row[p])
                          /\ session'[p] = (IF p = t /\ ~copy THEN new ELSE session[p])
  BY <1>2 DEF RankInv, RanksTyped
<1>5. ASSUME Anchor PROVE Anchor'
  <2>1. PICK q \in Players : Anchored(q)
    BY <1>5 DEF Anchor
  <2>2. IsSuper(row'[q]) /\ (q \in here => IsSuper(session'[q]))
    <3>1. CASE q # t
      BY <1>4, <2>1, <3>1 DEF Anchored
    <3>2. CASE q = t
      <4>1. IsSuper(Rank!Target(t, copy))
        BY <2>1, <3>2 DEF Rank!Target, Anchored
      <4> QED
        BY <1>4, <2>1, <3>2, <4>1 DEF Anchored
    <3> QED
      BY <3>1, <3>2
  <2> QED
    BY <2>2 DEF Anchor, Anchored, IsSuper
<1>6. ASSUME ~login, Supers' PROVE Anchor'
  <2>1. CASE Supers
    BY <1>5, <1>6, <2>1 DEF RankInv
  <2>2. CASE ~Supers
    <3>1. PICK p \in Players : IsSuper(row'[p]) \/ IsSuper(session'[p])
      BY <1>6 DEF Supers, IsSuper
    <3>2. p = t /\ IsSuper(new) /\ ~copy
      BY <1>4, <2>2, <3>1 DEF Supers
    <3>3. IsSuper(row'[t]) /\ IsSuper(session'[t])
      BY <1>4, <3>2
    <3> QED
      BY <3>3 DEF Anchor, Anchored, IsSuper
  <2> QED
    BY <2>1, <2>2
<1> QED
  BY <1>3, <1>5, <1>6 DEF Kept

\* Whoever registers, or makes use of the first command of all.
LEMMA OneselfWrites ==
  ASSUME RanksTyped, NEW p \in Players, Rank!Register(p) \/ Rank!IAmGod(p)
  PROVE  /\ p \in here
         /\ \E new \in Rank!Clients :
               /\ Rank!Write(p, FALSE, new) /\ (IsSuper(session[p]) => IsSuper(new))
               /\ login' = login /\ here' = here /\ restore' = restore
               /\ ~Rank!HasSuperadmin \/ new.groups = {"user"}
<1>1. p \in here
  BY DEF Rank!Register, Rank!IAmGod, Rank!Gives
<1> DEFINE new(s) == [session[p] EXCEPT !.groups = s]
<1>2. ASSUME NEW s \in SUBSET Rank!Groups PROVE new(s) \in Rank!Clients /\ new(s).groups = s
  BY DEF RanksTyped, Rank!Clients
<1>3. CASE Rank!Register(p)
  <2>1. Rank!Write(p, FALSE, new({"user"})) /\ login' = login /\ here' = here /\ restore' = restore
    BY <1>3 DEF Rank!Register, Rank!PutInto, Rank!Target
  <2>2. ~IsSuper(session[p])
    <3>1. Rank!RankOf(p) < 1
      BY <1>3, Levels DEF Rank!Register
    <3> QED
      BY <3>1, OwnRank
  <2>3. {"user"} \in SUBSET Rank!Groups
    BY DEF Rank!Groups
  <2> HIDE DEF new
  <2> QED
    BY <1>1, <1>2, <2>1, <2>2, <2>3
<1>4. CASE Rank!IAmGod(p)
  <2> DEFINE s == session[p].groups \cup {"superadmin"}
  <2>1. Rank!Write(p, FALSE, new(s)) /\ login' = login /\ here' = here /\ restore' = restore
          /\ ~Rank!HasSuperadmin
    BY <1>4 DEF Rank!IAmGod, Rank!PutInto, Rank!Target, Rank!NoGodYet
  <2>2. s \in SUBSET Rank!Groups /\ "superadmin" \in s
    BY DEF RanksTyped, Rank!Clients, Rank!Groups
  <2> HIDE DEF new, s
  <2> QED
    BY <1>1, <1>2, <2>1, <2>2 DEF IsSuper
<1> QED
  BY <1>3, <1>4

\* What a step does to the ranks of whoever stays.
Raises(p) ==
    p \in here \cap here' /\ Rank!RankOf(p)' > Rank!RankOf(p) =>
       \/ session'[p].groups \in {restore[p], {"user"}}
       \/ ~Rank!HasSuperadmin
       \/ \E q \in here \ {p} : Rank!RankOf(q) > Rank!RankOf(p)' \/ Rank!RankOf(q) = 100

\* Ranks that stay are not raised.
LEMMA SameRank ==
  ASSUME RanksTyped, NEW p \in Players, session'[p].groups = session[p].groups
  PROVE  Raises(p)
<1>1. Rank!RankOf(p)' = Rank!RankOf(p) /\ Rank!RankOf(p) \in Nat
  BY OwnRank DEF Rank!RankOf
<1> QED
  BY <1>1 DEF Raises

RankStep ==
    /\ login' = login /\ RanksTyped' /\ Kept
    /\ Threshold \in Nat \ {0} => \A p \in Players : Raises(p)

LEMMA CommandStep ==
  ASSUME RankInv, NEW a \in Players, NEW t \in Players, NEW copy \in BOOLEAN,
         Rank!CanBeNamed(t, copy), Rank!CommandOn(a, t, copy)
  PROVE  RankStep
<1>1. RanksTyped /\ (copy \/ t \in here)
  BY DEF RankInv, Rank!CanBeNamed
<1>2. Writes(a, t, copy) /\ a \in here
  BY <1>1, CommandsWrite
<1>3. PICK new \in Rank!Clients :
         /\ Rank!Write(t, copy, new) /\ Fit(a, t, copy, new)
         /\ login' = login /\ here' = here /\ restore' = restore
  BY <1>2 DEF Writes
<1>4. RanksTyped' /\ Kept
  BY <1>1, <1>3, WritingKeeps DEF Fit
<1>5. ASSUME NEW p \in Players PROVE Raises(p)
  <2>1. CASE copy \/ p # t
    <3>1. session'[p] = session[p]
      BY <1>1, <1>3, <2>1 DEF Rank!Write, RanksTyped
    <3> QED
      BY <1>1, <3>1, SameRank
  <2>2. CASE ~copy /\ p = t
    <3>1. session'[p] = new
      BY <1>1, <1>3, <2>2 DEF Rank!Write, RanksTyped
    <3>2. Rank!RankOf(p)' = Rank!Rank(new.groups)
            /\ Rank!RankOf(p) = Rank!Rank(Rank!Target(t, copy).groups)
      BY <2>2, <3>1 DEF Rank!RankOf, Rank!Target
    <3>3. Rank!Rank(new.groups) \in Nat /\ Rank!RankOf(p) \in Nat
      <4>1. new.groups \in SUBSET Rank!Groups
        BY DEF Rank!Clients
      <4> QED
        BY <1>1, <4>1, RankIsHighest, OwnRank
    <3>4. \/ Rank!RankOf(p)' <= Rank!RankOf(p)
          \/ a # p /\ (Rank!RankOf(p)' < Rank!RankOf(a) \/ Rank!RankOf(a) = 100)
      BY <1>3, <2>2, <3>2 DEF Fit
    <3>5. CASE Rank!RankOf(p)' <= Rank!RankOf(p)
      BY <3>2, <3>3, <3>5 DEF Raises
    <3>6. CASE a # p /\ (Rank!RankOf(p)' < Rank!RankOf(a) \/ Rank!RankOf(a) = 100)
      <4>1. Rank!RankOf(a) \in Nat
        BY <1>1, OwnRank
      <4>2. Rank!RankOf(a) > Rank!RankOf(p)' \/ Rank!RankOf(a) = 100
        BY <3>2, <3>3, <3>6, <4>1
      <4> QED
        BY <1>2, <3>6, <4>2 DEF Raises
    <3> QED
      BY <3>4, <3>5, <3>6
  <2> QED
    BY <2>1, <2>2
<1> QED
  BY <1>3, <1>4, <1>5 DEF RankStep

LEMMA OneselfStep ==
  ASSUME RankInv, NEW p \in Players, Rank!Register(p) \/ Rank!IAmGod(p)
  PROVE  RankStep
<1>1. RanksTyped
  BY DEF RankInv
<1>2. p \in here
  BY <1>1, OneselfWrites
<1>3. PICK new \in Rank!Clients :
         /\ Rank!Write(p, FALSE, new) /\ (IsSuper(session[p]) => IsSuper(new))
         /\ login' = login /\ here' = here /\ restore' = restore
         /\ ~Rank!HasSuperadmin \/ new.groups = {"user"}
  BY <1>1, OneselfWrites
<1>4. RanksTyped' /\ Kept
  <2>1. Rank!Target(p, FALSE) = session[p]
    BY DEF Rank!Target
  <2> QED
    BY <1>2, <1>3, <2>1, WritingKeeps
<1>5. ASSUME NEW q \in Players PROVE Raises(q)
  <2>1. CASE q # p
    <3>1. session'[q] = session[q]
      BY <1>1, <1>3, <2>1 DEF Rank!Write, RanksTyped
    <3> QED
      BY <1>1, <3>1, SameRank
  <2>2. CASE q = p
    <3>1. session'[q] = new
      BY <1>1, <1>3, <2>2 DEF Rank!Write, RanksTyped
    <3> QED
      BY <1>3, <3>1 DEF Raises
  <2> QED
    BY <2>1, <2>2
<1> QED
  BY <1>3, <1>4, <1>5 DEF RankStep

\* Coming, going, being kicked and being remembered.
LEMMA PresenceStep ==
  ASSUME RankInv, NEW p \in Players,
         Rank!Come(p) \/ Rank!Leave(p) \/ Rank!Remember(p) \/ \E a \in Players : Rank!Kick(a, p)
  PROVE  RankStep
<1>1. RanksTyped /\ (~login => (Supers => Anchor))
  BY DEF RankInv
<1>2. CASE Rank!Come(p)
  <2> DEFINE new == [groups |-> row[p].groups, mask |-> 0]
  <2>1. /\ p \notin here /\ here' = here \cup {p} /\ login' = login /\ restore' = restore
        /\ session' = [session EXCEPT ![p] = new] /\ row' = [row EXCEPT ![p] = session'[p]]
    BY <1>2 DEF Rank!Come
  <2>2. new \in Rank!Clients /\ (IsSuper(new) <=> IsSuper(row[p]))
    BY <1>1 DEF RanksTyped, Rank!Clients, IsSuper
  <2> HIDE DEF new
  <2>3. session'[p] = new /\ row'[p] = new
          /\ \A q \in Players \ {p} : session'[q] = session[q] /\ row'[q] = row[q]
    BY <1>1, <2>1 DEF RanksTyped
  <2>4. RanksTyped'
    BY <1>1, <2>1, <2>2, <2>3 DEF RanksTyped
  <2>5. Supers' => Supers
    BY <2>2, <2>3 DEF Supers, IsSuper
  <2>6. Anchor => Anchor'
    <3> SUFFICES ASSUME NEW q \in Players, Anchored(q) PROVE Anchored(q)'
      BY DEF Anchor
    <3>1. CASE q = p
      BY <2>2, <2>3, <3>1 DEF Anchored, IsSuper
    <3>2. CASE q # p
      BY <2>1, <2>3, <3>2 DEF Anchored, IsSuper
    <3> QED
      BY <3>1, <3>2
  <2>7. ASSUME NEW q \in Players PROVE Raises(q)
    BY <1>1, <2>1, <2>3, SameRank DEF Raises
  <2> QED
    BY <1>1, <2>1, <2>4, <2>5, <2>6, <2>7 DEF RankStep, Kept
<1>3. CASE Rank!Leave(p) \/ \E a \in Players : Rank!Kick(a, p)
  <2>1. /\ here' = here \ {p} /\ login' = login /\ row' = row
        /\ session' = [session EXCEPT ![p] = Rank!NoOne]
        /\ restore' = [restore EXCEPT ![p] = {}]
    BY <1>3 DEF Rank!Leave, Rank!Kick, Rank!Gone
  <2>2. Rank!NoOne \in Rank!Clients /\ ~IsSuper(Rank!NoOne)
    BY DEF Rank!NoOne, Rank!Clients, IsSuper
  <2>3. RanksTyped'
    BY <1>1, <2>1, <2>2 DEF RanksTyped
  <2>4. session'[p] = Rank!NoOne /\ \A q \in Players \ {p} : session'[q] = session[q]
    BY <1>1, <2>1 DEF RanksTyped
  <2>5. Supers' => Supers
    BY <2>1, <2>2, <2>4 DEF Supers, IsSuper
  <2>6. Anchor => Anchor'
    BY <2>1, <2>4 DEF Anchor, Anchored, IsSuper
  <2>7. ASSUME NEW q \in Players PROVE Raises(q)
    BY <1>1, <2>1, <2>4, SameRank DEF Raises
  <2> QED
    BY <1>1, <2>1, <2>3, <2>5, <2>6, <2>7 DEF RankStep, Kept
<1>4. CASE Rank!Remember(p)
  <2>1. /\ p \in here /\ here' = here /\ login' = login /\ session' = session /\ restore' = restore
        /\ row' = [row EXCEPT ![p] = session[p]]
    BY <1>4 DEF Rank!Remember
  <2>2. RanksTyped'
    BY <1>1, <2>1 DEF RanksTyped
  <2>3. row'[p] = session[p] /\ \A q \in Players \ {p} : row'[q] = row[q]
    BY <1>1, <2>1 DEF RanksTyped
  <2>4. Supers' => Supers
    BY <2>1, <2>3 DEF Supers, IsSuper
  <2>5. Anchor => Anchor'
    BY <2>1, <2>3 DEF Anchor, Anchored, IsSuper
  <2>6. ASSUME NEW q \in Players PROVE Raises(q)
    BY <1>1, <2>1, SameRank
  <2> QED
    BY <1>1, <2>1, <2>2, <2>4, <2>5, <2>6 DEF RankStep, Kept
<1> QED
  BY <1>2, <1>3, <1>4

\* The login plugin takes the groups of whoever is above the threshold, and gives them back.
LEMMA LoginStep ==
  ASSUME RankInv, Rank!OnAuth \/ \E p \in Players : Rank!LogIn(p)
  PROVE  RankStep
<1>1. RanksTyped /\ (~login => (Supers => Anchor)) /\ login' = login /\ here' = here
  BY DEF RankInv, Rank!OnAuth, Rank!LogIn
<1>2. CASE Rank!OnAuth
  <2>1. CASE UNCHANGED <<restore, session, row>>
    <3>1. RanksTyped'
      BY <1>1, <2>1 DEF RanksTyped
    <3>2. (Supers' => Supers) /\ (Anchor => Anchor')
      BY <1>1, <2>1 DEF Supers, Anchor, Anchored, IsSuper
    <3>3. ASSUME NEW q \in Players PROVE Raises(q)
      BY <1>1, <2>1, SameRank
    <3> QED
      BY <1>1, <3>1, <3>2, <3>3 DEF RankStep, Kept
  <2>2. CASE ~UNCHANGED <<restore, session, row>>
    <3>1. PICK p \in here : /\ login /\ Rank!RankOf(p) > Threshold /\ row' = row
                            /\ restore' = [restore EXCEPT ![p] = session[p].groups]
                            /\ session' = [session EXCEPT ![p].groups = {"reg"}]
      BY <1>2, <2>2 DEF Rank!OnAuth, Rank!LoggedOut
    <3>2. p \in Players
      BY <1>1, <3>1 DEF RanksTyped
    <3>3. RanksTyped'
      <4>1. {"reg"} \in SUBSET Rank!Groups
        BY DEF Rank!Groups
      <4> QED
        BY <1>1, <3>1, <3>2, <4>1 DEF RanksTyped, Rank!Clients
    <3>4. ASSUME Threshold \in Nat \ {0}, NEW q \in Players PROVE Raises(q)
      <4>1. CASE q # p
        <5>1. session'[q] = session[q]
          BY <1>1, <3>1, <4>1 DEF RanksTyped
        <5> QED
          BY <1>1, <5>1, SameRank
      <4>2. CASE q = p
        <5>1. session'[p].groups = {"reg"}
          BY <1>1, <3>1, <3>2 DEF RanksTyped, Rank!Clients
        <5>2. Rank!Rank({"reg"}) = 2
          <6>1. "reg" \in {"guest"} \cup Rank!Groups /\ Rank!Only("reg") = {"reg"}
            BY DEF Rank!Groups, Rank!Only
          <6> QED
            BY <6>1, RankOfOne, Levels
        <5>3. Rank!RankOf(q)' = 2 /\ Rank!RankOf(q) >= 2
          <6>1. Rank!RankOf(q) \in Nat /\ Rank!RankOf(q) > Threshold
            BY <1>1, <3>1, <3>2, <4>2, OwnRank
          <6> QED
            BY <3>4, <4>2, <5>1, <5>2, <6>1 DEF Rank!RankOf
        <5>4. ~(Rank!RankOf(q)' > Rank!RankOf(q))
          <6>1. Rank!RankOf(q) \in Nat
            BY <1>1, OwnRank
          <6> QED
            BY <5>3, <6>1
        <5> QED
          BY <5>4 DEF Raises
      <4> QED
        BY <4>1, <4>2
    <3> QED
      BY <1>1, <3>1, <3>3, <3>4 DEF RankStep, Kept
  <2> QED
    BY <2>1, <2>2
<1>3. CASE \E p \in Players : Rank!LogIn(p)
  <2>1. PICK p \in Players : Rank!LogIn(p)
    BY <1>3
  <2>2. /\ login /\ restore' = restore /\ session' = [session EXCEPT ![p].groups = restore[p]]
        /\ row' = row \/ row' = [row EXCEPT ![p] = session'[p]]
    BY <2>1 DEF Rank!LogIn
  <2>3. session' \in [Players -> Rank!Clients]
    BY <1>1, <2>2 DEF RanksTyped, Rank!Clients
  <2>4. RanksTyped'
    BY <1>1, <2>2, <2>3 DEF RanksTyped
  <2>5. ASSUME NEW q \in Players PROVE Raises(q)
    <3>1. CASE q # p
      <4>1. session'[q] = session[q]
        BY <1>1, <2>2, <3>1 DEF RanksTyped
      <4> QED
        BY <1>1, <4>1, SameRank
    <3>2. CASE q = p
      <4>1. session'[q].groups = restore[q]
        BY <1>1, <2>2, <3>2 DEF RanksTyped, Rank!Clients
      <4> QED
        BY <4>1 DEF Raises
    <3> QED
      BY <3>1, <3>2
  <2> QED
    BY <1>1, <2>2, <2>4, <2>5 DEF RankStep, Kept
<1> QED
  BY <1>2, <1>3

LEMMA RankNext ==
  ASSUME RankInv, [Rank!Next]_Rank!raVars
  PROVE  /\ RankInv' /\ Rank!SuperadminStays
         /\ Threshold \in Nat \ {0} => Rank!RaisedFromAbove
<1>1. CASE Rank!Next
  <2>1. RankStep
    <3>1. CASE Rank!OnAuth \/ \E p \in Players : Rank!LogIn(p)
      BY <3>1, LoginStep
    <3>2. CASE \E p \in Players : Rank!Register(p) \/ Rank!IAmGod(p)
      BY <3>2, OneselfStep
    <3>3. CASE \E p \in Players : Rank!Come(p) \/ Rank!Leave(p) \/ Rank!Remember(p)
                                   \/ \E a \in Players : Rank!Kick(a, p)
      BY <3>3, PresenceStep
    <3>4. CASE \E a, t \in Players, copy \in BOOLEAN :
                  Rank!CanBeNamed(t, copy) /\ Rank!CommandOn(a, t, copy)
      BY <3>4, CommandStep
    <3> QED
      BY <1>1, <3>1, <3>2, <3>3, <3>4 DEF Rank!Next
  <2>2. RankInv'
    BY <2>1 DEF RankStep, Kept, RankInv
  <2>3. Rank!SuperadminStays
    <3> SUFFICES ASSUME ~login, Rank!HasSuperadmin PROVE Rank!HasSuperadmin'
      BY DEF Rank!SuperadminStays
    <3>1. Anchor
      BY DEF RankInv, Supers, Rank!HasSuperadmin, IsSuper
    <3>2. Anchor'
      BY <2>1, <3>1 DEF RankStep, Kept
    <3> QED
      BY <3>2 DEF Anchor, Anchored, IsSuper, Rank!HasSuperadmin
  <2>4. Threshold \in Nat \ {0} => Rank!RaisedFromAbove
    <3> SUFFICES ASSUME Threshold \in Nat \ {0},
                        NEW p \in here \cap here', Rank!RankOf(p)' > Rank!RankOf(p)
                 PROVE  \/ session'[p].groups \in {restore[p], {"user"}}
                        \/ ~Rank!HasSuperadmin
                        \/ \E q \in here \ {p} :
                              Rank!RankOf(q) > Rank!RankOf(p)' \/ Rank!RankOf(q) = 100
      BY DEF Rank!RaisedFromAbove
    <3>1. p \in Players /\ Raises(p)
      BY <2>1 DEF RankInv, RanksTyped, RankStep
    <3> QED
      BY <3>1 DEF Raises
  <2> QED
    BY <2>2, <2>3, <2>4
<1>2. CASE UNCHANGED Rank!raVars
  <2>1. /\ login' = login /\ row' = row /\ here' = here /\ session' = session
        /\ restore' = restore
    BY <1>2 DEF Rank!raVars
  <2>2. RankInv'
    BY <2>1 DEF RankInv, RanksTyped, Supers, Anchor, Anchored, IsSuper
  <2>3. Rank!SuperadminStays
    BY <2>1 DEF Rank!SuperadminStays, Rank!HasSuperadmin
  <2>4. Rank!RaisedFromAbove
    <3> SUFFICES ASSUME NEW p \in here \cap here' PROVE ~(Rank!RankOf(p)' > Rank!RankOf(p))
      BY DEF Rank!RaisedFromAbove
    <3>1. Rank!RankOf(p)' = Rank!RankOf(p)
      BY <2>1 DEF Rank!RankOf
    <3>2. Rank!RankOf(p) \in Nat
      BY OwnRank DEF RankInv, RanksTyped
    <3> QED
      BY <3>1, <3>2
  <2> QED
    BY <2>2, <2>3, <2>4
<1> QED
  BY <1>1, <1>2

LEMMA RankFirst == Rank!Init => RankInv
<1> SUFFICES ASSUME Rank!Init PROVE RankInv
  OBVIOUS
<1>1. ASSUME NEW g \in {"guest"} \cup Rank!Groups
      PROVE  [groups |-> Rank!Only(g), mask |-> 0] \in Rank!Clients
  BY RankOfOne DEF Rank!Clients
<1>2. Rank!NoOne \in Rank!Clients /\ ~IsSuper(Rank!NoOne)
  BY DEF Rank!NoOne, Rank!Clients, IsSuper
<1>3. RanksTyped
  BY <1>1, <1>2 DEF Rank!Init, RanksTyped
<1>4. Supers => Anchor
  BY <1>2 DEF Rank!Init, Supers, Anchor, Anchored
<1> QED
  BY <1>3, <1>4 DEF RankInv

\* Where nobody has to log in, a superadmin on record stays on record, whatever is given and
\* taken from clients and from copies: !iamgod never opens again.  It holds for any players and
\* any number of commands.  (plugins/admin/__init__.py:1455-1465)
THEOREM SuperadminsStay == Rank!Spec => [][Rank!SuperadminStays]_Rank!raVars
<1>1. RankInv /\ [Rank!Next]_Rank!raVars => RankInv' /\ Rank!SuperadminStays
  BY RankNext
<1> QED
  BY RankFirst, <1>1, PTL DEF Rank!Spec

\* Nobody who is here rises but to what they came with, to user, or by one who is above it, for
\* any players and any number of commands, unless the login plugin has a threshold of 0.
\* (plugins/admin/__init__.py:579-584, plugins/login/__init__.py:268-270)
THEOREM NobodyRisesAlone ==
  ASSUME Threshold \in Nat \ {0}
  PROVE  Rank!Spec => [][Rank!RaisedFromAbove]_Rank!raVars
<1>1. RankInv /\ [Rank!Next]_Rank!raVars => RankInv' /\ Rank!RaisedFromAbove
  BY RankNext
<1> QED
  BY RankFirst, <1>1, PTL DEF Rank!Spec

-----------------------------------------------------------------------------
(* Room for members.                                                          *)

RoomNumbers ==
    /\ Slots \in Nat /\ RetainFor \in Int /\ NonMember \in Nat
    /\ Groups \in [Players -> Nat]

LEMMA SameCount == \A s : Room!Cardinality(s) = Cardinality(s)
BY DEF Room!Cardinality, Cardinality

\* Who is on the server, identified, no bot and not about to go.
Settled == (Room!ToSet(roster) \cap authed) \ (kicked \cup Bots)

RoomTypes ==
    /\ roster \in Seq(Players) /\ Len(roster) <= Slots
    /\ authed \subseteq Room!ToSet(roster)
    /\ level \in [Players -> Nat] /\ now \in Nat
    /\ \A hold \in retain : hold.until \in Int

\* Those who are settled are no more than the hold lets be, and that is less than the server.
HoldsRight ==
    \A hold \in Room!Held :
        hold.keep \in Int /\ Cardinality(Settled) <= hold.keep /\ hold.keep < Slots

RoomInv == RoomTypes /\ HoldsRight

LEMMA RosterCount ==
  ASSUME RoomTypes
  PROVE  IsFiniteSet(Room!ToSet(roster)) /\ Cardinality(Room!ToSet(roster)) <= Len(roster)
<1> DEFINE n == Len(roster)
<1>1. roster \in Seq(Players) /\ n \in Nat /\ DOMAIN roster = 1..n
  BY DEF RoomTypes
<1>2. Room!ToSet(roster) = {roster[i] : i \in 1..n}
  BY <1>1 DEF Room!ToSet
<1> HIDE DEF n
<1>3. [i \in 1..n |-> roster[i]] \in Surjection(1..n, Room!ToSet(roster))
  BY <1>2 DEF Surjection
<1>4. IsFiniteSet(1..n) /\ Cardinality(1..n) = n
  BY <1>1, FS_Interval
<1>5. IsFiniteSet(Room!ToSet(roster)) /\ Cardinality(Room!ToSet(roster)) <= Cardinality(1..n)
  BY <1>3, <1>4, FS_Surjection
<1> QED
  BY <1>4, <1>5 DEF n

LEMMA SettledCount ==
  ASSUME RoomTypes, NEW s \in SUBSET Room!ToSet(roster)
  PROVE  IsFiniteSet(s) /\ Cardinality(s) \in Nat /\ Cardinality(s) <= Len(roster)
<1>1. IsFiniteSet(Room!ToSet(roster)) /\ Cardinality(Room!ToSet(roster)) <= Len(roster)
  BY RosterCount
<1>2. IsFiniteSet(s) /\ Cardinality(s) <= Cardinality(Room!ToSet(roster))
  BY <1>1, FS_Subset
<1>3. Cardinality(s) \in Nat /\ Cardinality(Room!ToSet(roster)) \in Nat /\ Len(roster) \in Nat
  BY <1>1, <1>2, FS_CardinalityType DEF RoomTypes
<1> QED
  BY <1>1, <1>2, <1>3

\* Nobody more is settled, and no hold is new.
LEMMA HoldsStay ==
  ASSUME RoomInv, Settled' \subseteq Settled, Room!Held' \subseteq Room!Held
  PROVE  HoldsRight'
<1>1. IsFiniteSet(Settled)
  BY SettledCount DEF RoomInv, Settled
<1>2. IsFiniteSet(Settled') /\ Cardinality(Settled') <= Cardinality(Settled)
  BY <1>1, FS_Subset
<1>3. Cardinality(Settled') \in Nat /\ Cardinality(Settled) \in Nat
  BY <1>1, <1>2, FS_CardinalityType
<1> SUFFICES ASSUME NEW hold \in Room!Held'
             PROVE  hold.keep \in Int /\ Cardinality(Settled') <= hold.keep /\ hold.keep < Slots
  BY DEF HoldsRight
<1>4. hold.keep \in Int /\ Cardinality(Settled) <= hold.keep /\ hold.keep < Slots
  BY DEF RoomInv, HoldsRight
<1> QED
  BY <1>2, <1>3, <1>4

LEMMA NoHoldsRight ==
  ASSUME Room!Held' = {}
  PROVE  HoldsRight'
BY DEF HoldsRight

\* There is a lowest level among the candidates, and a newest arrival of it.
LEMMA SomeCandidate ==
  ASSUME RoomTypes, NEW admin, Room!Candidates(admin) # {}
  PROVE  Room!Candidate(admin) \in Room!Candidates(admin)
<1> DEFINE c == Room!Candidates(admin)
           lev(i) == level[roster[i]]
           n == Len(roster)
<1>1. c \subseteq 1..n /\ n \in Nat
  BY DEF RoomTypes, Room!Candidates
<1>2. \A i \in c : lev(i) \in Nat /\ n - i \in Nat /\ i \in Nat
  BY <1>1 DEF RoomTypes
<1> HIDE DEF lev, n
<1>3. PICK m \in {lev(i) : i \in c} : \A k \in {lev(i) : i \in c} : m <= k
  <2>1. {lev(i) : i \in c} \in SUBSET Nat /\ {lev(i) : i \in c} # {}
    BY <1>2
  <2> QED
    BY <2>1, Smallest
<1>4. PICK d \in {n - i : i \in {j \in c : lev(j) = m}} :
         \A k \in {n - i : i \in {j \in c : lev(j) = m}} : d <= k
  <2>1. /\ {n - i : i \in {j \in c : lev(j) = m}} \in SUBSET Nat
        /\ {n - i : i \in {j \in c : lev(j) = m}} # {}
    BY <1>2, <1>3
  <2> QED
    BY <2>1, Smallest
<1>5. PICK i \in c : lev(i) = m /\ d = n - i
  BY <1>4
<1>6. ASSUME NEW j \in c PROVE lev(i) < lev(j) \/ (lev(i) = lev(j) /\ i >= j)
  <2>1. lev(i) <= lev(j) /\ lev(i) \in Nat /\ lev(j) \in Nat
    BY <1>2, <1>3, <1>5
  <2>2. CASE lev(j) = m
    <3>1. n - i <= n - j
      BY <1>4, <1>5, <2>2
    <3>2. i \in Nat /\ j \in Nat /\ n \in Nat
      BY <1>1, <1>2
    <3>3. i >= j
      BY ONLY <3>1, <3>2
    <3> QED
      BY <1>5, <2>2, <3>3
  <2>3. CASE lev(j) # m
    BY <1>5, <2>1, <2>3
  <2> QED
    BY <2>2, <2>3
<1> QED
  BY <1>6 DEF Room!Candidate, lev

\* A slot is freed, with nobody new settled but when nothing is held.
LEMMA FreeingHolds ==
  ASSUME RoomNumbers, RoomInv, NEW admin, Room!FreeASlot(admin),
         roster' = roster, now' = now, level' = level, authed' \subseteq Room!ToSet(roster),
         authed' = authed \/ Room!Held = {}
  PROVE  RoomInv'
<1>1. RoomTypes /\ HoldsRight
  BY DEF RoomInv
<1>2. CASE retain' = Room!Held /\ kicked \subseteq kicked'
  <2>1. Room!Held' \subseteq Room!Held
    BY <1>2 DEF Room!Held
  <2>2. RoomTypes'
    BY <1>1, <1>2 DEF RoomTypes, Room!Held
  <2>3. HoldsRight'
    <3>1. CASE Room!Held = {}
      BY <2>1, <3>1, NoHoldsRight
    <3>2. CASE authed' = authed
      <4>1. Settled' \subseteq Settled
        BY <1>2, <3>2 DEF Settled
      <4> QED
        BY <2>1, <4>1, HoldsStay
    <3> QED
      BY <3>1, <3>2
  <2> QED
    BY <2>2, <2>3 DEF RoomInv
<1>3. CASE /\ Room!Candidates(admin) # {} /\ RetainFor > 0 /\ retain' = {Room!Hold}
           /\ kicked' = kicked \cup {roster[Room!Candidate(admin)]}
  <2> DEFINE who == roster[Room!Candidate(admin)]
  <2>1. who \in Room!ToSet(roster)
    BY <1>1, <1>3, SomeCandidate DEF Room!Candidates, Room!ToSet
  <2>2. /\ Room!Hold.until = now + RetainFor /\ Room!Hold.keep = Len(roster) - 1
        /\ Len(roster) \in Nat /\ Len(roster) <= Slots /\ now \in Nat
    BY <1>1 DEF RoomTypes, Room!Hold, Room!Population
  <2>3. RoomTypes'
    <3>1. Room!Hold.until \in Int
      BY <2>2 DEF RoomNumbers
    <3> QED
      BY <1>1, <1>3, <3>1 DEF RoomTypes
  <2> HIDE DEF who
  <2>4. Settled' \subseteq Room!ToSet(roster) \ {who}
    BY <1>3 DEF Settled, who
  <2>5. Cardinality(Settled') <= Len(roster) - 1
    <3>1. IsFiniteSet(Room!ToSet(roster)) /\ Cardinality(Room!ToSet(roster)) <= Len(roster)
      BY <1>1, RosterCount
    <3>2. /\ IsFiniteSet(Room!ToSet(roster) \ {who})
          /\ Cardinality(Room!ToSet(roster) \ {who}) = Cardinality(Room!ToSet(roster)) - 1
      BY <2>1, <3>1, FS_RemoveElement
    <3>3. IsFiniteSet(Settled') /\ Cardinality(Settled') <= Cardinality(Room!ToSet(roster) \ {who})
      BY <2>4, <3>2, FS_Subset
    <3>4. /\ Cardinality(Settled') \in Nat /\ Cardinality(Room!ToSet(roster)) \in Nat
          /\ Len(roster) \in Nat
      BY <2>2, <3>1, <3>3, FS_CardinalityType
    <3> QED
      BY <3>1, <3>2, <3>3, <3>4
  <2>6. HoldsRight'
    <3> SUFFICES ASSUME NEW hold \in Room!Held'
                 PROVE  hold.keep \in Int /\ Cardinality(Settled') <= hold.keep /\ hold.keep < Slots
      BY DEF HoldsRight
    <3>1. hold = Room!Hold
      BY <1>3 DEF Room!Held
    <3>2. Room!Hold.keep \in Int /\ Room!Hold.keep < Slots
      BY <2>2 DEF RoomNumbers
    <3> QED
      BY <2>2, <2>5, <3>1, <3>2
  <2> QED
    BY <2>3, <2>6 DEF RoomInv
<1> QED
  BY <1>2, <1>3 DEF Room!FreeASlot

LEMMA RoomRequestStep ==
  ASSUME RoomNumbers, RoomInv, NEW admin \in Players, Room!Request(admin)
  PROVE  RoomInv'
<1>1. RoomTypes /\ Room!Held = {}
  BY DEF RoomInv, Room!Request
<1>2. UNCHANGED <<now, roster, authed, level>>
  BY DEF Room!Request
<1>3. CASE Room!FreeASlot(admin)
  <2>1. authed' \subseteq Room!ToSet(roster)
    BY <1>1, <1>2 DEF RoomTypes
  <2> QED
    BY <1>1, <1>2, <1>3, <2>1, FreeingHolds
<1>4. CASE retain' = Room!Held
  <2>1. RoomTypes' /\ Room!Held' = {}
    BY <1>1, <1>2, <1>4 DEF RoomTypes, Room!Held
  <2> QED
    BY <2>1, NoHoldsRight DEF RoomInv
<1> QED
  BY <1>3, <1>4 DEF Room!Request

LEMMA RoomAuthStep ==
  ASSUME RoomNumbers, RoomInv, NEW p \in Players, Room!Auth(p)
  PROVE  RoomInv'
<1>1. /\ p \in Room!ToSet(roster) /\ authed' = authed \cup {p}
      /\ UNCHANGED <<now, roster, level>>
  BY DEF Room!Auth
<1>2. RoomTypes /\ HoldsRight /\ authed' \subseteq Room!ToSet(roster)
  BY <1>1 DEF RoomInv, RoomTypes
<1>3. CASE p \in Bots
  <2>1. kicked' = kicked /\ retain' = retain
    BY <1>3 DEF Room!Auth
  <2>2. Settled' \subseteq Settled /\ Room!Held' = Room!Held /\ RoomTypes'
    BY <1>1, <1>2, <1>3, <2>1 DEF Settled, Room!Held, RoomTypes
  <2> QED
    BY <2>2, HoldsStay DEF RoomInv
<1>4. CASE p \notin Bots /\ Room!Held # {} /\ Room!IsMember(p)
  <2>1. retain' = {}
    BY <1>4 DEF Room!Auth
  <2>2. RoomTypes' /\ Room!Held' = {}
    BY <1>1, <1>2, <2>1 DEF RoomTypes, Room!Held
  <2> QED
    BY <2>2, NoHoldsRight DEF RoomInv
<1>5. CASE p \notin Bots /\ Room!Held # {} /\ ~Room!IsMember(p)
  <2>1. retain' = retain /\ kicked' = IF \E hold \in Room!Held : Room!Population > hold.keep
                                      THEN kicked \cup {p} ELSE kicked
    BY <1>5 DEF Room!Auth
  <2>2. RoomTypes' /\ Room!Held' = Room!Held
    BY <1>1, <1>2, <2>1 DEF RoomTypes, Room!Held
  <2>3. CASE \E hold \in Room!Held : Room!Population > hold.keep
    <3>1. Settled' \subseteq Settled
      BY <1>1, <2>1, <2>3 DEF Settled
    <3> QED
      BY <2>2, <3>1, HoldsStay DEF RoomInv
  <2>4. CASE ~\E hold \in Room!Held : Room!Population > hold.keep
    <3>1. Settled' \subseteq Room!ToSet(roster)
      BY <1>1 DEF Settled
    <3>2. Cardinality(Settled') \in Nat /\ Cardinality(Settled') <= Len(roster) /\ Len(roster) \in Nat
      BY <1>2, <3>1, SettledCount DEF RoomTypes
    <3>3. HoldsRight'
      <4> SUFFICES ASSUME NEW hold \in Room!Held'
                   PROVE  /\ hold.keep \in Int /\ Cardinality(Settled') <= hold.keep
                          /\ hold.keep < Slots
        BY DEF HoldsRight
      <4>1. hold \in Room!Held /\ ~(Len(roster) > hold.keep)
        BY <2>2, <2>4 DEF Room!Population
      <4>2. hold.keep \in Int /\ hold.keep < Slots
        BY <1>2, <4>1 DEF HoldsRight
      <4> QED
        BY <3>2, <4>1, <4>2
    <3> QED
      BY <2>2, <3>3 DEF RoomInv
  <2> QED
    BY <2>3, <2>4
<1>6. CASE p \notin Bots /\ Room!Held = {}
  <2>1. CASE Room!FreeASlot("nobody")
    BY <1>1, <1>2, <1>6, <2>1, FreeingHolds
  <2>2. CASE retain' = Room!Held
    <3>1. RoomTypes' /\ Room!Held' = {}
      BY <1>1, <1>2, <1>6, <2>2 DEF RoomTypes, Room!Held
    <3> QED
      BY <3>1, NoHoldsRight DEF RoomInv
  <2> QED
    BY <1>6, <2>1, <2>2 DEF Room!Auth, Room!CheckFreeSlots, Room!Unasked
<1> QED
  BY <1>3, <1>4, <1>5, <1>6

LEMMA RoomPendingStep ==
  ASSUME RoomNumbers, RoomInv, Room!RunPending
  PROVE  RoomInv'
<1>1. UNCHANGED <<now, roster, authed, level>> /\ RoomTypes
  BY DEF Room!RunPending, RoomInv
<1>2. CASE Room!FreeASlot(Head(pending).admin)
  <2>1. authed' \subseteq Room!ToSet(roster)
    BY <1>1 DEF RoomTypes
  <2> QED
    BY <1>1, <1>2, <2>1, FreeingHolds
<1>3. CASE kicked \subseteq kicked' /\ retain' = Room!Held
  <2>1. Settled' \subseteq Settled /\ Room!Held' \subseteq Room!Held /\ RoomTypes'
    BY <1>1, <1>3 DEF Settled, Room!Held, RoomTypes
  <2> QED
    BY <2>1, HoldsStay DEF RoomInv
<1> QED
  BY <1>2, <1>3 DEF Room!RunPending

\* Taking one off the list leaves all the others, and no more than there were.
LEMMA RosterWithout ==
  ASSUME NEW s, NEW r \in Seq(s), NEW i \in 1..Len(r)
  PROVE  LET without == Room!RemoveAt(r, i)
         IN  /\ without \in Seq(s) /\ Len(without) = Len(r) - 1
             /\ Room!ToSet(without) \subseteq Room!ToSet(r)
             /\ \A p \in Room!ToSet(r) : p # r[i] => p \in Room!ToSet(without)
<1> DEFINE n == Len(r)
           before == SubSeq(r, 1, i - 1)
           after == SubSeq(r, i + 1, n)
           without == Room!RemoveAt(r, i)
<1>1. n \in Nat /\ i \in 1..n /\ DOMAIN r = 1..n
  OBVIOUS
<1>0. i \in Int /\ n \in Int /\ 1 <= i /\ i <= n
  BY <1>1
<1>2. /\ before \in Seq(s) /\ Len(before) = i - 1
      /\ \A j \in 1..(i - 1) : before[j] = r[j]
  <2>1. 1 \in 1..(n + 1) /\ i - 1 \in 0..n
    BY <1>1
  <2> QED
    BY <1>1, <2>1, SubSeqProperties
<1>3. /\ after \in Seq(s) /\ Len(after) = n - i
      /\ \A j \in 1..(n - i) : after[j] = r[i + j]
  <2>1. i + 1 \in 1..(n + 1) /\ n \in 0..n
    BY <1>1
  <2>2. after \in Seq(s) /\ Len(after) = (IF i + 1 <= n THEN n - (i + 1) + 1 ELSE 0)
          /\ \A j \in 1..(n - (i + 1) + 1) : after[j] = r[(i + 1) + j - 1]
    BY <1>1, <2>1, SubSeqProperties
  <2>3. n - (i + 1) + 1 = n - i /\ Len(after) = n - i
    <3>1. n - (i + 1) + 1 = n - i
      BY ONLY <1>0
    <3>2. CASE i + 1 <= n
      BY <2>2, <3>1, <3>2
    <3>3. CASE ~(i + 1 <= n)
      <4>1. n - i = 0
        BY ONLY <1>0, <3>3
      <4> QED
        BY <2>2, <3>1, <3>3, <4>1
    <3> QED
      BY <3>1, <3>2, <3>3
  <2>4. ASSUME NEW j \in 1..(n - i) PROVE after[j] = r[i + j]
    <3>1. (i + 1) + j - 1 = i + j
      BY <1>1
    <3> QED
      BY <2>2, <2>3, <3>1
  <2> QED
    BY <2>2, <2>3, <2>4
<1>4. without = before \o after
  BY DEF Room!RemoveAt
<1> HIDE DEF n, before, after, without
<1>5. /\ without \in Seq(s) /\ Len(without) = n - 1
      /\ \A j \in 1..(n - 1) : without[j] = IF j <= i - 1 THEN r[j] ELSE r[j + 1]
  <2>1. /\ without \in Seq(s) /\ Len(without) = Len(before) + Len(after)
        /\ \A j \in 1..(Len(before) + Len(after)) :
              without[j] = IF j <= Len(before) THEN before[j] ELSE after[j - Len(before)]
    BY <1>2, <1>3, <1>4, ConcatProperties
  <2>2. Len(before) + Len(after) = n - 1
    BY <1>1, <1>2, <1>3
  <2>3. ASSUME NEW j \in 1..(n - 1) PROVE without[j] = IF j <= i - 1 THEN r[j] ELSE r[j + 1]
    <3>1. CASE j <= i - 1
      <4>1. j \in 1..(Len(before) + Len(after)) /\ j \in 1..(i - 1) /\ j <= Len(before)
        BY <1>1, <1>2, <2>2, <3>1
      <4>2. without[j] = before[j] /\ before[j] = r[j]
        BY <1>2, <2>1, <4>1
      <4> QED
        BY <3>1, <4>2
    <3>2. CASE ~(j <= i - 1)
      <4>1. j - (i - 1) \in 1..(n - i) /\ i + (j - (i - 1)) = j + 1
        BY <1>1, <3>2
      <4>2. without[j] = after[j - (i - 1)]
        BY <1>2, <2>1, <2>2, <3>2
      <4> QED
        BY <1>3, <3>2, <4>1, <4>2
    <3> QED
      BY <3>1, <3>2
  <2> QED
    BY <2>1, <2>2, <2>3
<1>6. Room!ToSet(without) = {without[j] : j \in 1..(n - 1)} /\ Room!ToSet(r) = {r[j] : j \in 1..n}
  BY <1>1, <1>5 DEF Room!ToSet
<1>7. Room!ToSet(without) \subseteq Room!ToSet(r)
  <2> SUFFICES ASSUME NEW j \in 1..(n - 1) PROVE without[j] \in {r[k] : k \in 1..n}
    BY <1>6
  <2>1. j \in 1..n /\ j + 1 \in 1..n
    BY <1>1
  <2> QED
    BY <1>5, <2>1
<1>8. ASSUME NEW p \in Room!ToSet(r), p # r[i] PROVE p \in Room!ToSet(without)
  <2>1. PICK k \in 1..n : p = r[k]
    BY <1>6
  <2>2. CASE k < i
    <3>1. k \in 1..(n - 1) /\ k <= i - 1
      BY <1>1, <2>2
    <3> QED
      BY <1>5, <1>6, <2>1, <3>1
  <2>3. CASE k > i
    <3>1. k - 1 \in 1..(n - 1) /\ ~(k - 1 <= i - 1) /\ (k - 1) + 1 = k
      BY <1>1, <2>3
    <3>2. without[k - 1] = r[k]
      BY <1>5, <3>1
    <3> QED
      BY <1>6, <2>1, <3>1, <3>2
  <2> QED
    BY <1>1, <1>8, <2>1, <2>2, <2>3
<1> QED
  BY <1>5, <1>7, <1>8 DEF without, n

LEMMA RoomLeaveStep ==
  ASSUME RoomNumbers, RoomInv, NEW p \in Players, Room!Leave(p)
  PROVE  RoomInv'
<1>1. PICK i \in DOMAIN roster : roster[i] = p /\ roster' = Room!RemoveAt(roster, i)
  BY DEF Room!Leave
<1>2. authed' = authed \ {p} /\ kicked' = kicked \ {p} /\ UNCHANGED <<now, level, retain>>
  BY DEF Room!Leave
<1>3. RoomTypes /\ roster \in Seq(Players) /\ i \in 1..Len(roster) /\ Len(roster) \in Nat
  BY <1>1 DEF RoomInv, RoomTypes
<1>4. /\ roster' \in Seq(Players) /\ Len(roster') = Len(roster) - 1
      /\ Room!ToSet(roster') \subseteq Room!ToSet(roster)
      /\ \A q \in Room!ToSet(roster) : q # p => q \in Room!ToSet(roster')
  BY <1>1, <1>3, RosterWithout
<1>5. Len(roster') <= Slots
  <2>1. Len(roster) <= Slots /\ Slots \in Nat
    BY <1>3 DEF RoomTypes, RoomNumbers
  <2> QED
    BY <1>3, <1>4, <2>1
<1>6. RoomTypes'
  BY <1>2, <1>3, <1>4, <1>5 DEF RoomTypes, Room!ToSet
<1>7. Settled' \subseteq Settled /\ Room!Held' = Room!Held
  BY <1>2, <1>4 DEF Settled, Room!Held, Room!ToSet
<1> QED
  BY <1>6, <1>7, HoldsStay DEF RoomInv

LEMMA RoomEnterStep ==
  ASSUME RoomNumbers, RoomInv, NEW p \in Players, Room!Enter(p)
  PROVE  RoomInv'
<1>1. /\ p \notin Room!ToSet(roster) /\ Len(roster) < Slots /\ roster' = Append(roster, p)
      /\ UNCHANGED <<now, authed, level, kicked, retain>>
  BY DEF Room!Enter, Room!Population
<1>2. RoomTypes /\ roster \in Seq(Players) /\ Len(roster) \in Nat
  BY DEF RoomInv, RoomTypes
<1>3. /\ roster' \in Seq(Players) /\ Len(roster') = Len(roster) + 1
      /\ roster'[Len(roster) + 1] = p /\ \A i \in 1..Len(roster) : roster'[i] = roster[i]
  BY <1>1, <1>2, AppendProperties
<1>4. Room!ToSet(roster') = Room!ToSet(roster) \cup {p}
  <2>1. /\ Room!ToSet(roster') = {roster'[i] : i \in 1..(Len(roster) + 1)}
        /\ Room!ToSet(roster) = {roster[i] : i \in 1..Len(roster)}
    BY <1>2, <1>3 DEF Room!ToSet
  <2>2. 1..(Len(roster) + 1) = 1..Len(roster) \cup {Len(roster) + 1}
    BY <1>2
  <2> QED
    BY <1>3, <2>1, <2>2
<1>5. RoomTypes'
  <2>1. Len(roster') <= Slots
    BY <1>1, <1>2, <1>3 DEF RoomNumbers
  <2>2. authed' \subseteq Room!ToSet(roster')
    BY <1>1, <1>2, <1>4 DEF RoomTypes
  <2>3. (authed \subseteq Room!ToSet(roster))'
    BY <2>2 DEF Room!ToSet
  <2> QED
    BY <1>1, <1>2, <1>3, <2>1, <2>3 DEF RoomTypes
<1>6. Settled' \subseteq Settled
  <2>1. Settled' = (Room!ToSet(roster') \cap authed') \ (kicked' \cup Bots)
    BY DEF Settled, Room!ToSet
  <2> QED
    BY <1>1, <1>2, <1>4, <2>1 DEF Settled, RoomTypes
<1>7. Room!Held' = Room!Held
  BY <1>1 DEF Room!Held
<1> QED
  BY <1>5, <1>6, <1>7, HoldsStay DEF RoomInv

\* Time goes by, a hold runs out, somebody is promoted, automation is switched.
LEMMA RoomOtherStep ==
  ASSUME RoomNumbers, RoomInv,
         \/ Room!Tick \/ Room!Automate \/ Room!Expire \/ UNCHANGED Room!vars
         \/ \E p \in Players : Room!Promote(p)
  PROVE  RoomInv'
<1>1. RoomTypes
  BY DEF RoomInv
<1>2. UNCHANGED <<roster, authed, kicked>>
  BY DEF Room!Tick, Room!Automate, Room!Expire, Room!Promote, Room!vars
<1>3. /\ now' \in {now, now + 1} /\ retain' \subseteq retain
      /\ level' = level \/ \E p \in Players : level' = [level EXCEPT ![p] = NonMember + 1]
  BY DEF Room!Tick, Room!Automate, Room!Expire, Room!Promote, Room!vars
<1>4. RoomTypes'
  <2>1. now' \in Nat
    BY <1>1, <1>3 DEF RoomTypes
  <2>2. level' \in [Players -> Nat]
    <3>1. NonMember + 1 \in Nat /\ level \in [Players -> Nat]
      BY <1>1 DEF RoomTypes, RoomNumbers
    <3> QED
      BY <1>3, <3>1
  <2> QED
    BY <1>1, <1>2, <1>3, <2>1, <2>2 DEF RoomTypes, Room!ToSet
<1>5. Room!Held' \subseteq Room!Held
  <2> SUFFICES ASSUME NEW hold \in retain', now' < hold.until PROVE now < hold.until
    BY <1>3 DEF Room!Held
  <2>1. hold.until \in Int /\ now \in Nat
    BY <1>1, <1>3 DEF RoomTypes
  <2> QED
    BY <1>3, <2>1
<1>6. Settled' = Settled
  BY <1>2 DEF Settled, Room!ToSet
<1> QED
  BY <1>4, <1>5, <1>6, HoldsStay DEF RoomInv

\* While a slot is held, whoever comes and goes in the meantime, the server has it free for a
\* member, but for the bots it adds and for players who have yet to be identified.  It holds
\* for any players, groups, slots, delays and times.  (plugins/makeroom/__init__.py:295-320, 354-374)
THEOREM HeldSlotsAreFree ==
  ASSUME RoomNumbers
  PROVE  Room!Spec => []Room!HeldSlotIsFree
<1>1. Room!Init => RoomInv
  <2> SUFFICES ASSUME Room!Init PROVE RoomInv
    OBVIOUS
  <2>1. Len(roster) = 0 /\ roster \in Seq(Players) /\ retain = {}
    BY EmptySeq DEF Room!Init
  <2>2. RoomTypes
    BY <2>1 DEF Room!Init, RoomTypes, RoomNumbers
  <2>3. HoldsRight
    BY <2>1 DEF HoldsRight, Room!Held
  <2> QED
    BY <2>2, <2>3 DEF RoomInv
<1>2. RoomInv /\ [Room!Next]_Room!vars => RoomInv'
  <2> SUFFICES ASSUME RoomInv, [Room!Next]_Room!vars PROVE RoomInv'
    OBVIOUS
  <2>1. CASE \/ Room!Tick \/ Room!Automate \/ Room!Expire \/ UNCHANGED Room!vars
             \/ \E p \in Players : Room!Promote(p)
    BY <2>1, RoomOtherStep
  <2>2. CASE Room!RunPending
    BY <2>2, RoomPendingStep
  <2>3. CASE \E p \in Players : Room!Enter(p) \/ Room!Leave(p) \/ Room!Auth(p) \/ Room!Request(p)
    BY <2>3, RoomEnterStep, RoomLeaveStep, RoomAuthStep, RoomRequestStep
  <2> QED
    BY <2>1, <2>2, <2>3 DEF Room!Next, Room!Does
<1>3. RoomInv => Room!HeldSlotIsFree
  <2> SUFFICES ASSUME RoomInv, Room!Held # {} PROVE Cardinality(Settled) < Slots
    BY SameCount DEF Room!HeldSlotIsFree, Settled
  <2> PICK hold \in Room!Held : TRUE
    OBVIOUS
  <2>1. hold.keep \in Int /\ Cardinality(Settled) <= hold.keep /\ hold.keep < Slots
    BY DEF RoomInv, HoldsRight
  <2>2. Cardinality(Settled) \in Nat
    BY SettledCount DEF RoomInv, Settled
  <2> QED
    BY <2>1, <2>2 DEF RoomNumbers
<1> QED
  BY <1>1, <1>2, <1>3, PTL DEF Room!Spec

-----------------------------------------------------------------------------
(* Timed runs.  The invariant that is inductive says whose each demo is: of a run *)
(* that is on, of a record that stands or is to be written, or nobody's, and then  *)
(* something went wrong; nothing has two owners, nothing is recorded for who is     *)
(* away, and who has left is away until the log is read.                          *)

RunsAreTimed ==
    /\ Times \subseteq Nat \ {0}
    /\ Files \cap {Jump!None, Jump!Other} = {}
    /\ Jump!None \notin Maps
    /\ MaxCycles \in Nat

Tapes == [Players -> Files \cup {Jump!None, Jump!Other}]
Demos == [on : BOOLEAN, recording : Tapes, timed : SUBSET Players, waiting : SUBSET Players,
          everyone : BOOLEAN]
Runs == [Players -> [map : Maps \cup {Jump!None}, demo : Files \cup {Jump!None}]]
Jumpers == [on : BOOLEAN, runs : Runs, map : Maps, cycles : 0..MaxCycles]
Keys == Players \X Maps
Best == [time : Times \cup {0}, demo : Files \cup {Jump!None}]
Writings == {{}} \cup {{x} : x \in [key : Keys, to : Best]}
Worlds == [taping : Tapes, disk : SUBSET Files, d : Demos, j : Jumpers, r : [Keys -> Best],
           writing : Writings, lost : SUBSET Files, stray : SUBSET Players,
           fate : Fates \cup {{}}]

\* Of a world: the files of a set are nobody's yet, like those that are lost, the records of a set
\* of keys do not stand, and every other file has one owner.
RunsOwn(w, L) ==
    /\ \A p \in Players : w.j.runs[p].demo \in Files =>
          w.j.runs[p].demo \in w.disk /\ w.j.runs[p].demo \notin w.lost /\ w.j.runs[p].demo \notin L
    /\ \A p, q \in Players :
          w.j.runs[p].demo \in Files /\ w.j.runs[p].demo = w.j.runs[q].demo => p = q
RecordsOwn(w, L, G) ==
    /\ \A k \in Keys : k \notin G /\ w.r[k].demo \in Files =>
          w.r[k].demo \in w.disk /\ w.r[k].demo \notin w.lost /\ w.r[k].demo \notin L
    /\ \A k, l \in Keys : w.r[k].demo \in Files /\ w.r[k].demo = w.r[l].demo => k = l
    /\ \A k \in Keys, p \in Players : w.r[k].demo \in Files => w.r[k].demo # w.j.runs[p].demo
WritingOwns(w, L, G) ==
    \A x \in w.writing :
       /\ x.key \in G
       /\ x.to.demo \in Files =>
             /\ x.to.demo \in w.disk /\ x.to.demo \notin w.lost /\ x.to.demo \notin L
             /\ \A p \in Players : w.j.runs[p].demo # x.to.demo
             /\ \A k \in Keys : w.r[k].demo # x.to.demo
Owned(w, G, f) ==
    \/ \E p \in Players : w.j.runs[p].demo = f
    \/ \E k \in Keys : k \notin G /\ w.r[k].demo = f
    \/ \E x \in w.writing : x.to.demo = f
AllOwned(w, L, G) == \A f \in w.disk : f \in w.lost \/ f \in L \/ Owned(w, G, f)
Told(w) ==
    /\ \A p \in Players : w.j.runs[p] = Jump!NoRun \/ w.j.runs[p].map \in Maps
    /\ \A k \in Keys : w.r[k] = Jump!NoRecord \/ w.r[k].time \in Times
    /\ \A x \in w.writing :
          \/ x.to = Jump!NoRecord
          \/ /\ x.to.time \in Times
             /\ w.r[x.key] = Jump!NoRecord \/ x.to.time < w.r[x.key].time
\* What is recorded is a run's, or the stop of it did not arrive, or nobody was told.
Taped(w, team) ==
    \A p \in Players :
       /\ w.taping[p] \in Files =>
             \/ p \in w.stray
             \/ w.taping[p] = w.j.runs[p].demo /\ w.d.on
             \/ /\ w.taping[p] \in w.lost
                /\ \A k \in Keys : w.r[k].demo # w.taping[p]
                /\ \A x \in w.writing : x.to.demo # w.taping[p]
       /\ team[p] = "away" => w.taping[p] = Jump!None

Sound(w, L, G, team) ==
    /\ w \in Worlds /\ w.lost \subseteq w.disk
    /\ RunsOwn(w, L) /\ RecordsOwn(w, L, G) /\ WritingOwns(w, L, G) /\ AllOwned(w, L, G)
    /\ Told(w) /\ Taped(w, team)

KeepsBooks(w, v) == v.r = w.r /\ v.writing = w.writing

\* The server tapes less, other teams, or what is no run's.
LEMMA RetapedIsSound ==
  ASSUME RunsAreTimed, NEW w, NEW v, NEW L, NEW G, NEW team, NEW after, Sound(w, L, G, team),
         v \in Worlds, v.j.runs = w.j.runs, KeepsBooks(w, v), v.disk = w.disk, v.lost = w.lost,
         \A p \in Players : v.taping[p] \in Files =>
            \/ p \in v.stray
            \/ v.taping[p] = w.taping[p] /\ p \notin w.stray /\ (w.d.on => v.d.on),
         \A p \in Players : after[p] = "away" => v.taping[p] = Jump!None
  PROVE  Sound(v, L, G, after)
  <1>1. Taped(v, after)
    <2> SUFFICES ASSUME NEW p \in Players, v.taping[p] \in Files, p \notin v.stray
                 PROVE  \/ v.taping[p] = v.j.runs[p].demo /\ v.d.on
                        \/ /\ v.taping[p] \in v.lost
                           /\ \A k \in Keys : v.r[k].demo # v.taping[p]
                           /\ \A x \in v.writing : x.to.demo # v.taping[p]
      BY DEF Taped
    <2> QED
      BY DEF Sound, Taped, KeepsBooks
  <1>2. RunsOwn(v, L) /\ RecordsOwn(v, L, G) /\ WritingOwns(v, L, G)
    BY DEF Sound, RunsOwn, RecordsOwn, WritingOwns, KeepsBooks
  <1>3. AllOwned(v, L, G) /\ Told(v)
    BY DEF Sound, AllOwned, Owned, Told, KeepsBooks
  <1> QED
    BY <1>1, <1>2, <1>3 DEF Sound

\* The jumper's cycles, its map and what the demo plugin waits for own nothing.
LEMMA BesideIsSound ==
  ASSUME RunsAreTimed, NEW w, NEW v, NEW L, NEW G, Sound(w, L, G, server.team), v \in Worlds,
         v.taping = w.taping, v.disk = w.disk, v.lost = w.lost, v.stray = w.stray,
         w.d.on => v.d.on, v.j.runs = w.j.runs, KeepsBooks(w, v)
  PROVE  Sound(v, L, G, server.team)
  <1>1. \A p \in Players : server.team[p] = "away" => v.taping[p] = Jump!None
    BY DEF Sound, Taped
  <1> QED
    BY <1>1, RetapedIsSound

LEMMA StopIsAWorld ==
  ASSUME NEW w \in Worlds, NEW p \in Players
  PROVE  LET s == Jump!Stop(w, p) IN
         /\ s.j = w.j /\ s.r = w.r /\ s.writing = w.writing /\ s.disk = w.disk /\ s.lost = w.lost
         /\ s.stray = w.stray \cup {p} /\ s.d.on = w.d.on /\ s \in Worlds
         /\ s.taping = w.taping \/ s.taping = [w.taping EXCEPT ![p] = Jump!None]
  <1> DEFINE s == Jump!Stop(w, p)
             tape == IF Jump!Fails(w, "stop", p) THEN w.taping[p] ELSE Jump!None
  <1>1. s = [w EXCEPT !.d.waiting = @ \ {p}, !.d.recording[p] = Jump!None, !.d.timed = @ \ {p},
                      !.taping[p] = tape, !.stray = @ \cup {p}]
    BY DEF Jump!Stop, Worlds, Tapes
  <1>2. tape = Jump!None \/ tape = w.taping[p]
    OBVIOUS
  <1> HIDE DEF s, tape
  <1>3. tape \in Files \cup {Jump!None, Jump!Other}
    BY <1>2 DEF Worlds, Tapes
  <1>4. /\ s.j = w.j /\ s.r = w.r /\ s.writing = w.writing /\ s.disk = w.disk /\ s.lost = w.lost
        /\ s.stray = w.stray \cup {p} /\ s.taping = [w.taping EXCEPT ![p] = tape]
        /\ s.d.on = w.d.on /\ s \in Worlds
    BY <1>1, <1>3 DEF Worlds, Demos, Tapes
  <1>5. s.taping = w.taping \/ s.taping = [w.taping EXCEPT ![p] = Jump!None]
    BY <1>2, <1>4 DEF Worlds, Tapes
  <1> QED
    BY <1>4, <1>5 DEF s

LEMMA StopIsSound ==
  ASSUME RunsAreTimed, NEW w, NEW L, NEW G, Sound(w, L, G, server.team), NEW p \in Players
  PROVE  LET s == Jump!Stop(w, p) IN
         /\ Sound(s, L, G, server.team) /\ KeepsBooks(w, s) /\ p \in s.stray
         /\ s.j = w.j /\ s.disk = w.disk /\ s.d.on = w.d.on
  <1> DEFINE s == Jump!Stop(w, p)
  <1>3. w \in Worlds
    BY DEF Sound
  <1>4. /\ s.j = w.j /\ s.r = w.r /\ s.writing = w.writing /\ s.disk = w.disk /\ s.lost = w.lost
        /\ s.stray = w.stray \cup {p} /\ s.d.on = w.d.on /\ s \in Worlds
        /\ s.taping = w.taping \/ s.taping = [w.taping EXCEPT ![p] = Jump!None]
    BY <1>3, StopIsAWorld
  <1> HIDE DEF s
  <1>5. \A q \in Players : q # p => s.taping[q] = w.taping[q]
    BY <1>3, <1>4 DEF Worlds, Tapes
  <1>6. \A q \in Players : server.team[q] = "away" => s.taping[q] = Jump!None
    BY <1>3, <1>4 DEF Sound, Worlds, Tapes, Taped
  <1>7. \A q \in Players : s.taping[q] \in Files =>
           \/ q \in s.stray
           \/ s.taping[q] = w.taping[q] /\ q \notin w.stray /\ (w.d.on => s.d.on)
    BY <1>4, <1>5
  <1>8. KeepsBooks(w, s) /\ s.j.runs = w.j.runs
    BY <1>4 DEF KeepsBooks
  <1>9. Sound(s, L, G, server.team)
    BY <1>4, <1>6, <1>7, <1>8, RetapedIsSound
  <1> QED
    BY <1>4, <1>8, <1>9 DEF s

\* A demo that is nobody's may be deleted; if it is not, it is lost.
IsPared(w, u, f) ==
    /\ u.j = w.j /\ u.r = w.r /\ u.d = w.d /\ u.writing = w.writing /\ u.stray = w.stray
    /\ u.taping = w.taping /\ u \in Worlds
    /\ \/ u.disk = w.disk /\ u.lost = w.lost \cup ({f} \cap w.disk)
       \/ u.disk = w.disk \ {f} /\ u.lost = w.lost \ {f}

LEMMA ParedIsSound ==
  ASSUME RunsAreTimed, NEW w, NEW u, NEW L, NEW G, NEW f, Sound(w, L, G, server.team),
         IsPared(w, u, f),
         f \in Files => ~Owned(w, G, f) /\ \A q \in Players : w.taping[q] = f => q \in w.stray
  PROVE  /\ Sound(u, L \ {f}, G, server.team) /\ KeepsBooks(w, u)
         /\ u.j = w.j /\ u.d = w.d /\ u.taping = w.taping /\ u.stray = w.stray
         /\ u.disk \subseteq w.disk
  <1>1. /\ u.j = w.j /\ u.r = w.r /\ u.d = w.d /\ u.writing = w.writing /\ u.stray = w.stray
        /\ u.taping = w.taping /\ u \in Worlds
        /\ \/ u.disk = w.disk /\ u.lost = w.lost \cup ({f} \cap w.disk)
           \/ u.disk = w.disk \ {f} /\ u.lost = w.lost \ {f}
    BY DEF IsPared
  <1>2. w.disk \subseteq Files /\ w.lost \subseteq w.disk /\ u.lost \subseteq u.disk
    BY <1>1 DEF Sound, Worlds
  <1>3. \A g : g \in Files /\ g # f => /\ g \in u.disk <=> g \in w.disk
                                       /\ g \in u.lost <=> g \in w.lost
                                       /\ g \in L \ {f} <=> g \in L
    BY <1>1
  <1>4. f \in Files => /\ \A q \in Players : w.j.runs[q].demo # f
                       /\ \A k \in Keys : k \notin G => w.r[k].demo # f
                       /\ \A x \in w.writing : x.to.demo # f
                       /\ \A q \in Players : w.taping[q] = f => q \in w.stray
    BY DEF Owned
  <1>5. RunsOwn(u, L \ {f})
    BY <1>1, <1>3, <1>4 DEF Sound, RunsOwn
  <1>6. RecordsOwn(u, L \ {f}, G)
    BY <1>1, <1>3, <1>4 DEF Sound, RecordsOwn
  <1>7. WritingOwns(u, L \ {f}, G)
    BY <1>1, <1>3, <1>4 DEF Sound, WritingOwns
  <1>8. AllOwned(u, L \ {f}, G)
    <2> SUFFICES ASSUME NEW g \in u.disk, g \notin u.lost, g \notin L \ {f}
                 PROVE  Owned(u, G, g)
      BY DEF AllOwned
    <2>1. g # f /\ g \in w.disk
      BY <1>1, <1>2
    <2>2. Owned(w, G, g)
      BY <1>2, <1>3, <2>1 DEF Sound, AllOwned
    <2> QED
      BY <1>1, <2>2 DEF Owned
  <1>9. Told(u) /\ Taped(u, server.team)
    BY <1>1, <1>3, <1>4 DEF Sound, Told, Taped
  <1> QED
    BY <1>1, <1>2, <1>5, <1>6, <1>7, <1>8, <1>9 DEF Sound, KeepsBooks

LEMMA LeftIsPared ==
  ASSUME NEW w \in Worlds, NEW f
  PROVE  IsPared(w, Jump!Left(w, f), f)
  <1>1. Jump!Left(w, f) = [w EXCEPT !.lost = @ \cup ({f} \cap w.disk)]
    BY DEF Jump!Left
  <1> QED
    BY <1>1 DEF IsPared, Worlds

LEMMA UnlinkedIsPared ==
  ASSUME NEW w \in Worlds, NEW p, NEW f
  PROVE  IsPared(w, Jump!Unlinked(w, p, f), f)
  <1>1. CASE Jump!Fails(w, "unlink", p)
    BY <1>1, LeftIsPared DEF Jump!Unlinked
  <1>2. CASE ~Jump!Fails(w, "unlink", p)
    <2>1. Jump!Unlinked(w, p, f) = [w EXCEPT !.disk = @ \ {f}, !.lost = @ \ {f}]
      BY <1>2 DEF Jump!Unlinked
    <2> QED
      BY <2>1 DEF IsPared, Worlds
  <1> QED
    BY <1>1, <1>2

LEMMA UnlinkedIsSound ==
  ASSUME RunsAreTimed, NEW w, NEW L, NEW G, NEW f, Sound(w, L, G, server.team), NEW p \in Players,
         f \in Files => ~Owned(w, G, f) /\ \A q \in Players : w.taping[q] = f => q \in w.stray
  PROVE  LET u == Jump!Unlinked(w, p, f) IN
         /\ Sound(u, L \ {f}, G, server.team) /\ KeepsBooks(w, u)
         /\ u.j = w.j /\ u.d = w.d /\ u.taping = w.taping /\ u.stray = w.stray
         /\ u.disk \subseteq w.disk
  <1>1. IsPared(w, Jump!Unlinked(w, p, f), f)
    BY UnlinkedIsPared DEF Sound
  <1> QED
    BY <1>1, ParedIsSound

\* A run that is given up leaves its demo to nobody.
GivenUp(w, p) == [w EXCEPT !.j.runs[p] = Jump!NoRun]

LEMMA GivenUpIsSound ==
  ASSUME RunsAreTimed, NEW w, NEW G, Sound(w, {}, G, server.team), NEW p \in Players,
         \/ p \in w.stray \/ w.taping[p] \notin Files
         \/ w.taping[p] # w.j.runs[p].demo \/ ~w.d.on
  PROVE  LET u == GivenUp(w, p)
             f == w.j.runs[p].demo IN
         /\ Sound(u, {f} \cap Files, G, server.team) /\ KeepsBooks(w, u)
         /\ u.j.runs[p] = Jump!NoRun /\ u.j.map = w.j.map /\ u.disk = w.disk /\ u.taping = w.taping
         /\ u.d = w.d /\ u.stray = w.stray
         /\ f \in Files => /\ ~Owned(u, G, f) /\ \A k \in Keys : u.r[k].demo # f
                           /\ \A q \in Players : u.taping[q] = f => q \in u.stray
                           /\ f \in u.disk /\ f \notin u.lost
  <1> DEFINE u == GivenUp(w, p)
             f == w.j.runs[p].demo
             N == {f} \cap Files
  <1>1. /\ u.r = w.r /\ u.disk = w.disk /\ u.d = w.d /\ u.writing = w.writing /\ u.lost = w.lost
        /\ u.stray = w.stray /\ u \in Worlds /\ u.taping = w.taping
        /\ u.j.runs = [w.j.runs EXCEPT ![p] = Jump!NoRun] /\ u.j.map = w.j.map
    BY DEF GivenUp, Sound, Worlds, Jumpers, Runs, Jump!NoRun
  <1> HIDE DEF u
  <1>2. \A q \in Players : u.j.runs[q] = IF q = p THEN Jump!NoRun ELSE w.j.runs[q]
    BY <1>1 DEF Sound, Worlds, Jumpers, Runs
  <1>a. Jump!NoRun.demo \notin Files /\ Jump!NoRun.demo = Jump!None
    BY DEF Jump!NoRun, RunsAreTimed
  <1>3. RunsOwn(u, N)
    BY <1>1, <1>2, <1>a DEF Sound, RunsOwn
  <1>4. RecordsOwn(u, N, G)
    BY <1>1, <1>2, <1>a DEF Sound, RecordsOwn
  <1>5. WritingOwns(u, N, G)
    BY <1>1, <1>2, <1>a DEF Sound, WritingOwns
  <1>6. AllOwned(u, N, G)
    BY <1>1, <1>2, <1>a DEF Sound, AllOwned, Owned, Worlds
  <1>7. Told(u) /\ Taped(u, server.team)
    BY <1>1, <1>2 DEF Sound, Told, Taped
  <1>8. f \in Files => /\ f \in u.disk /\ f \notin u.lost /\ \A k \in Keys : u.r[k].demo # f
                       /\ \A x \in u.writing : x.to.demo # f
                       /\ \A q \in Players : u.j.runs[q].demo # f
    BY <1>1, <1>2, <1>a DEF Sound, RunsOwn, RecordsOwn, WritingOwns
  <1>9. f \in Files => \A q \in Players : u.taping[q] = f => q \in u.stray
    BY <1>1 DEF Sound, Taped, RunsOwn
  <1> HIDE DEF f, N
  <1>10. f \in Files => ~Owned(u, G, f)
    BY <1>8 DEF Owned
  <1> QED
    BY <1>1, <1>2, <1>3, <1>4, <1>5, <1>6, <1>7, <1>8, <1>9, <1>10 DEF u, f, N, Sound, KeepsBooks

\* Who gives up a run has its demo stopped, if there is one and the plugin is on.
LEMMA StopDemoIsSound ==
  ASSUME RunsAreTimed, NEW w, NEW G, Sound(w, {}, G, server.team), NEW p \in Players
  PROVE  LET s == Jump!StopDemo(w, p) IN
         /\ Sound(s, {}, G, server.team) /\ KeepsBooks(w, s) /\ s.j = w.j /\ s.disk = w.disk
         /\ \/ p \in s.stray \/ s.taping[p] \notin Files
            \/ s.taping[p] # s.j.runs[p].demo \/ ~s.d.on
  <1>1. CASE w.d.on /\ w.j.runs[p].demo # Jump!None
    <2>1. Jump!StopDemo(w, p) = Jump!Stop(w, p)
      BY <1>1 DEF Jump!StopDemo
    <2> QED
      BY <2>1, StopIsSound
  <1>2. CASE ~(w.d.on /\ w.j.runs[p].demo # Jump!None)
    <2>1. Jump!StopDemo(w, p) = w
      BY <1>2 DEF Jump!StopDemo
    <2> QED
      BY <1>2, <2>1 DEF KeepsBooks, RunsAreTimed
  <1> QED
    BY <1>1, <1>2

LEMMA CancelIsSound ==
  ASSUME RunsAreTimed, NEW w, NEW G, Sound(w, {}, G, server.team), NEW p \in Players
  PROVE  LET c == Jump!Cancel(w, p) IN
         /\ Sound(c, {}, G, server.team) /\ KeepsBooks(w, c)
         /\ c.j.runs[p] = Jump!NoRun /\ c.disk \subseteq w.disk /\ c.j.map = w.j.map
  <1> DEFINE c == Jump!Cancel(w, p)
             s == Jump!StopDemo(w, p)
             f == w.j.runs[p].demo
             u == GivenUp(s, p)
  <1>1. CASE w.j.runs[p] = Jump!NoRun
    <2>1. c = w
      BY <1>1 DEF Jump!Cancel
    <2> QED
      BY <1>1, <2>1 DEF KeepsBooks
  <1>2. CASE w.j.runs[p] # Jump!NoRun
    <2>1. /\ Sound(s, {}, G, server.team) /\ KeepsBooks(w, s) /\ s.j = w.j /\ s.disk = w.disk
          /\ \/ p \in s.stray \/ s.taping[p] \notin Files
             \/ s.taping[p] # s.j.runs[p].demo \/ ~s.d.on
      BY StopDemoIsSound
    <2>2. c = [Jump!Unlinked(s, p, f) EXCEPT !.j.runs[p] = Jump!NoRun]
      BY <1>2 DEF Jump!Cancel
    <2> HIDE DEF s, c
    <2>3. s.j.runs[p].demo = f
      BY <2>1
    <2> HIDE DEF f, u
    <2>a. u = GivenUp(s, p)
      BY DEF u
    <2>4. /\ Sound(u, {f} \cap Files, G, server.team) /\ KeepsBooks(s, u)
          /\ u.j.runs[p] = Jump!NoRun /\ u.j.map = s.j.map /\ u.disk = s.disk
          /\ f \in Files => ~Owned(u, G, f) /\ \A q \in Players : u.taping[q] = f => q \in u.stray
      BY <2>1, <2>3, <2>a, GivenUpIsSound
    <2>5. c = Jump!Unlinked(u, p, f)
      BY <2>1, <2>2, <2>a DEF Jump!Unlinked, Jump!Left, Jump!Fails, GivenUp, Sound, Worlds
    <2>6. /\ Sound(c, ({f} \cap Files) \ {f}, G, server.team) /\ KeepsBooks(u, c) /\ c.j = u.j
          /\ c.disk \subseteq u.disk
      BY <2>4, <2>5, UnlinkedIsSound
    <2>7. ({f} \cap Files) \ {f} = {}
      OBVIOUS
    <2> QED
      BY <2>1, <2>4, <2>6, <2>7 DEF c, KeepsBooks
  <1> QED
    BY <1>1, <1>2

\* Whom a run is given up of is not taped for another's file.
LEMMA CancelTapes ==
  ASSUME NEW w \in Worlds, NEW p \in Players, NEW q \in Players,
         Jump!Cancel(w, p).taping[q] # Jump!None
  PROVE  Jump!Cancel(w, p).taping[q] = w.taping[q]
  <1> DEFINE c == Jump!Cancel(w, p)
             s == Jump!StopDemo(w, p)
  <1>1. c.taping = w.taping \/ c.taping = s.taping
    <2>1. s \in Worlds
      BY StopIsAWorld DEF Jump!StopDemo
    <2> HIDE DEF s
    <2>2. /\ Jump!Unlinked(s, p, w.j.runs[p].demo) \in Worlds
          /\ Jump!Unlinked(s, p, w.j.runs[p].demo).taping = s.taping
      BY <2>1, UnlinkedIsPared DEF IsPared
    <2>3. CASE w.j.runs[p] = Jump!NoRun
      BY <2>3 DEF Jump!Cancel
    <2>4. CASE w.j.runs[p] # Jump!NoRun
      <3>1. c = [Jump!Unlinked(s, p, w.j.runs[p].demo) EXCEPT !.j.runs[p] = Jump!NoRun]
        BY <2>4 DEF Jump!Cancel, s
      <3> QED
        BY <2>2, <3>1 DEF Worlds
    <2> QED
      BY <2>3, <2>4
  <1>2. s.taping = w.taping \/ s.taping[q] = w.taping[q] \/ s.taping[q] = Jump!None
    <2>1. s = w \/ s = Jump!Stop(w, p)
      BY DEF Jump!StopDemo
    <2>2. s.taping = w.taping \/ s.taping = [w.taping EXCEPT ![p] = Jump!None]
      BY <2>1, StopIsAWorld
    <2> HIDE DEF s
    <2> QED
      BY <2>2 DEF Worlds, Tapes
  <1> QED
    BY <1>1, <1>2

LEMMA CancelAllIsSound ==
  ASSUME RunsAreTimed, NEW w, NEW G, Sound(w, {}, G, server.team)
  PROVE  LET c == Jump!CancelAll(w) IN
         Sound(c, {}, G, server.team) /\ KeepsBooks(w, c) /\ c.j.cycles = w.j.cycles
  <1> DEFINE c == Jump!CancelAll(w)
             recorded == IF w.d.on THEN {p \in Players : w.j.runs[p].demo # Jump!None} ELSE {}
             kept == {p \in Players : Jump!Fails(w, "unlink", p)}
             D == {w.j.runs[p].demo : p \in Players \ kept}
             E == {w.j.runs[p].demo : p \in kept}
             tapes == [p \in Players |->
                          IF p \in recorded /\ ~Jump!Fails(w, "stop", p) THEN Jump!None
                          ELSE w.taping[p]]
  <1>1. /\ c \in Worlds /\ c.r = w.r /\ c.writing = w.writing /\ c.d.on = w.d.on
        /\ c.disk = w.disk \ D /\ c.lost = w.lost \cup (E \cap w.disk)
        /\ c.stray = w.stray \cup recorded /\ c.taping = tapes
        /\ c.j.runs = [p \in Players |-> Jump!NoRun] /\ c.j.cycles = w.j.cycles
    <2> DEFINE known == [p \in Players |-> IF p \in recorded THEN Jump!None ELSE w.d.recording[p]]
               demosThen == [w.d EXCEPT !.recording = known, !.waiting = w.d.waiting \ recorded,
                                        !.timed = w.d.timed \ recorded]
               none == [p \in Players |-> Jump!NoRun]
    <2>0. c = [w EXCEPT !.disk = @ \ D, !.lost = @ \cup (E \cap w.disk), !.taping = tapes,
                        !.stray = @ \cup recorded, !.d.recording = known,
                        !.d.waiting = @ \ recorded, !.d.timed = @ \ recorded, !.j.runs = none]
      BY DEF Jump!CancelAll
    <2>a. recorded \subseteq Players
      OBVIOUS
    <2>b. tapes \in Tapes
      BY DEF Sound, Worlds, Tapes
    <2>c. w \in Worlds
      BY DEF Sound
    <2> HIDE DEF c, recorded, D, E, kept, tapes
    <2>1. /\ c.r = w.r /\ c.writing = w.writing /\ c.disk = w.disk \ D
          /\ c.lost = w.lost \cup (E \cap w.disk) /\ c.taping = tapes
          /\ c.stray = w.stray \cup recorded /\ c.d = demosThen
          /\ c.j = [w.j EXCEPT !.runs = none] /\ c.fate = w.fate
          /\ c = [taping |-> c.taping, disk |-> c.disk, d |-> c.d, j |-> c.j, r |-> c.r,
                  writing |-> c.writing, lost |-> c.lost, stray |-> c.stray, fate |-> c.fate]
      <3> HIDE DEF known, none
      <3> QED
        BY <2>0, <2>c DEF Worlds, Demos
    <2>2. c.d \in Demos /\ c.d.on = w.d.on
      <3>1. known \in Tapes
        BY <2>c DEF Worlds, Demos, Tapes
      <3>2. w.d \in Demos
        BY <2>c DEF Worlds
      <3> HIDE DEF known
      <3>3. demosThen \in Demos /\ demosThen.on = w.d.on
        BY <3>1, <3>2 DEF Demos
      <3> QED
        BY <2>1, <3>3
    <2>3. /\ c.j \in Jumpers /\ c.j.runs = [p \in Players |-> Jump!NoRun]
          /\ c.j.cycles = w.j.cycles
      BY <2>1, <2>c DEF Worlds, Jumpers, Runs, Jump!NoRun
    <2>4. /\ c.disk \in SUBSET Files /\ c.lost \in SUBSET Files /\ c.stray \in SUBSET Players
          /\ c.r \in [Keys -> Best] /\ c.writing \in Writings /\ c.fate \in Fates \cup {{}}
      BY <2>1, <2>a, <2>c DEF Worlds
    <2> HIDE DEF demosThen
    <2> QED
      BY <2>1, <2>2, <2>3, <2>4, <2>b DEF Worlds
  <1>2. /\ Jump!NoRun.demo = Jump!None /\ Jump!None \notin Files /\ w.disk \subseteq Files
    BY DEF Jump!NoRun, RunsAreTimed, Sound, Worlds
  <1>3. \A p \in Players : c.taping[p] = Jump!None \/ c.taping[p] = w.taping[p]
    BY <1>1
  <1>4. \A p \in Players : w.d.on /\ w.j.runs[p].demo \in Files => p \in c.stray
    BY <1>1, <1>2
  <1>5. \A p \in Players : w.j.runs[p].demo \notin c.disk \/ w.j.runs[p].demo \in c.lost
    BY <1>1
  <1>6. \A f : f \in D \cup E => \E p \in Players : w.j.runs[p].demo = f
    OBVIOUS
  <1>7. c.lost \subseteq c.disk
    <2> SUFFICES ASSUME NEW f \in c.lost PROVE f \in w.disk /\ f \notin D
      BY <1>1
    <2>1. CASE f \in w.lost
      BY <1>2, <1>6, <2>1 DEF Sound, RunsOwn
    <2>2. CASE f \notin w.lost
      BY <1>1, <1>2, <2>2 DEF Sound, RunsOwn
    <2> QED
      BY <2>1, <2>2
  <1> HIDE DEF c, recorded, kept, D, E, tapes
  <1>8. Told(c)
    BY <1>1 DEF Sound, Told
  <1>9. Taped(c, server.team)
    <2>1. \A p \in Players : server.team[p] = "away" => c.taping[p] = Jump!None
      BY <1>3 DEF Sound, Taped
    <2>2. ASSUME NEW p \in Players, c.taping[p] \in Files, p \notin c.stray
          PROVE  /\ c.taping[p] \in c.lost
                 /\ \A k \in Keys : c.r[k].demo # c.taping[p]
                 /\ \A x \in c.writing : x.to.demo # c.taping[p]
      <3>1. c.taping[p] = w.taping[p] /\ p \notin w.stray
        BY <1>1, <1>2, <1>3, <2>2
      <3> QED
        BY <1>1, <1>4, <2>2, <3>1 DEF Sound, Taped
    <2> QED
      BY <2>1, <2>2 DEF Taped
  <1>10. RunsOwn(c, {})
    BY <1>1, <1>2 DEF RunsOwn
  <1>11. \A f : f \in w.disk /\ f \notin w.lost /\ (\A p \in Players : w.j.runs[p].demo # f)
                  => f \in c.disk /\ f \notin c.lost
    BY <1>1, <1>6
  <1>12. RecordsOwn(c, {}, G)
    <2>1. \A k \in Keys : k \notin G /\ c.r[k].demo \in Files =>
             c.r[k].demo \in c.disk /\ c.r[k].demo \notin c.lost
      BY <1>1, <1>11 DEF Sound, RecordsOwn
    <2>2. \A k, l \in Keys : c.r[k].demo \in Files /\ c.r[k].demo = c.r[l].demo => k = l
      BY <1>1 DEF Sound, RecordsOwn
    <2> QED
      BY <1>1, <1>2, <2>1, <2>2 DEF RecordsOwn
  <1>13. WritingOwns(c, {}, G)
    BY <1>1, <1>2, <1>11 DEF Sound, WritingOwns
  <1>14. AllOwned(c, {}, G)
    <2> SUFFICES ASSUME NEW f \in c.disk, f \notin c.lost PROVE Owned(c, G, f)
      BY DEF AllOwned
    <2>1. Owned(w, G, f)
      BY <1>1 DEF Sound, AllOwned
    <2>2. \A p \in Players : w.j.runs[p].demo # f
      BY <1>5
    <2> QED
      BY <1>1, <2>1, <2>2 DEF Owned
  <1> QED
    BY <1>1, <1>7, <1>8, <1>9, <1>10, <1>12, <1>13, <1>14 DEF Sound, KeepsBooks, c

\* What the demo plugin knows owns nothing, and what it has begun is the server's.
LEMMA RememberedIsAWorld ==
  ASSUME RunsAreTimed, NEW w \in Worlds, NEW p \in Players, NEW timed \in BOOLEAN,
         NEW f \in Files \cup {Jump!Other}
  PROVE  LET v == Jump!Remembered(w, p, f, timed) IN
         /\ v.j = w.j /\ v.r = w.r /\ v.writing = w.writing /\ v.disk = w.disk /\ v.lost = w.lost
         /\ v.stray = w.stray /\ v.d.on = w.d.on /\ v \in Worlds /\ v.taping = w.taping
  <1>1. CASE timed
    BY <1>1 DEF Worlds, Demos, Tapes, Jump!Remembered
  <1>2. CASE ~timed
    BY <1>2 DEF Worlds, Demos, Tapes, Jump!Remembered
  <1> QED
    BY <1>1, <1>2

LEMMA TapedIsAWorld ==
  ASSUME NEW w \in Worlds, NEW p \in Players, NEW f \in Files \cup {Jump!Other}
  PROVE  LET v == Jump!Taped(w, p, f) IN
         /\ v.j = w.j /\ v.r = w.r /\ v.writing = w.writing /\ v.lost = w.lost /\ v.d = w.d
         /\ v.disk = w.disk \cup ({f} \cap Files) /\ v.stray = w.stray \ {p} /\ v \in Worlds
         /\ v.taping = [w.taping EXCEPT ![p] = f]
  BY DEF Worlds, Tapes, Jump!Taped

\* What record makes of the world.
LEMMA RecordIs ==
  ASSUME RunsAreTimed, NEW w \in Worlds, NEW p \in Players, NEW timed \in BOOLEAN,
         NEW f \in Files \cup {Jump!Other}
  PROVE  LET v == Jump!Record(w, p, f, timed) IN
         /\ v.j = w.j /\ v.r = w.r /\ v.writing = w.writing /\ v.d.on = w.d.on /\ v \in Worlds
         /\ Jump!Begins(w, p) =>
               /\ v.disk = w.disk \cup ({f} \cap Files) /\ v.stray = w.stray \ {p}
               /\ v.taping = [w.taping EXCEPT ![p] = f]
               /\ Jump!Answered(w, p) => v.lost = w.lost
               /\ ~Jump!Answered(w, p) => v.lost = w.lost \cup ({f} \cap Files)
         /\ ~Jump!Begins(w, p) =>
               v.disk = w.disk /\ v.stray = w.stray /\ v.taping = w.taping /\ v.lost = w.lost
  <1> DEFINE v == Jump!Record(w, p, f, timed)
             t == Jump!Taped(w, p, f)
  <1>1. /\ t.j = w.j /\ t.r = w.r /\ t.writing = w.writing /\ t.lost = w.lost /\ t.d = w.d
        /\ t.disk = w.disk \cup ({f} \cap Files) /\ t.stray = w.stray \ {p} /\ t \in Worlds
        /\ t.taping = [w.taping EXCEPT ![p] = f]
    BY TapedIsAWorld
  <1> HIDE DEF t
  <1>2. CASE Jump!Begins(w, p) /\ Jump!Answered(w, p)
    <2>1. v = Jump!Remembered(t, p, f, timed)
      BY <1>2 DEF Jump!Record, t
    <2> QED
      BY <1>1, <1>2, <2>1, RememberedIsAWorld
  <1>3. CASE Jump!Begins(w, p) /\ ~Jump!Answered(w, p)
    <2>1. v = [t EXCEPT !.lost = @ \cup ({f} \cap Files)]
      BY <1>3 DEF Jump!Record, t
    <2>2. /\ v.j = t.j /\ v.r = t.r /\ v.writing = t.writing /\ v.d = t.d /\ v \in Worlds
          /\ v.disk = t.disk /\ v.stray = t.stray /\ v.taping = t.taping
          /\ v.lost = t.lost \cup ({f} \cap Files)
      BY <1>1, <2>1 DEF Worlds
    <2> QED
      BY <1>1, <1>3, <2>2
  <1>4. CASE ~Jump!Begins(w, p)
    <2>1. v = w \/ v = [w EXCEPT !.d.waiting = @ \cup {p}]
      BY <1>4 DEF Jump!Record
    <2> QED
      BY <1>4, <2>1 DEF Worlds, Demos
  <1> QED
    BY <1>2, <1>3, <1>4

LEMMA RecordIsSound ==
  ASSUME RunsAreTimed, NEW w, NEW L, NEW G, Sound(w, L, G, server.team), NEW p \in Players,
         NEW timed \in BOOLEAN
  PROVE  LET v == Jump!Record(w, p, Jump!Other, timed) IN
         Sound(v, L, G, server.team) /\ KeepsBooks(w, v)
  <1> DEFINE v == Jump!Record(w, p, Jump!Other, timed)
  <1>1. w \in Worlds /\ {Jump!Other} \cap Files = {} /\ Jump!Other \in Files \cup {Jump!Other}
    BY DEF Sound, RunsAreTimed
  <1>2. /\ v.j = w.j /\ v.r = w.r /\ v.writing = w.writing /\ v.d.on = w.d.on /\ v \in Worlds
        /\ v.disk = w.disk /\ v.lost = w.lost
        /\ \/ /\ Jump!Begins(w, p) /\ v.stray = w.stray \ {p}
              /\ v.taping = [w.taping EXCEPT ![p] = Jump!Other]
           \/ v.stray = w.stray /\ v.taping = w.taping
    <2>1. /\ v.j = w.j /\ v.r = w.r /\ v.writing = w.writing /\ v.d.on = w.d.on /\ v \in Worlds
          /\ Jump!Begins(w, p) =>
                /\ v.disk = w.disk \cup ({Jump!Other} \cap Files) /\ v.stray = w.stray \ {p}
                /\ v.taping = [w.taping EXCEPT ![p] = Jump!Other]
                /\ Jump!Answered(w, p) => v.lost = w.lost
                /\ ~Jump!Answered(w, p) => v.lost = w.lost \cup ({Jump!Other} \cap Files)
          /\ ~Jump!Begins(w, p) =>
                v.disk = w.disk /\ v.stray = w.stray /\ v.taping = w.taping /\ v.lost = w.lost
      BY <1>1, RecordIs
    <2> HIDE DEF v
    <2> QED
      BY <1>1, <2>1
  <1> HIDE DEF v
  <1>3. \A q \in Players : \/ v.taping[q] = Jump!Other /\ Jump!Plays(q)
                           \/ v.taping[q] = w.taping[q] /\ (q \in v.stray <=> q \in w.stray)
    BY <1>1, <1>2 DEF Worlds, Tapes, Jump!Begins
  <1>4. \A q \in Players : v.taping[q] \in Files =>
           \/ q \in v.stray
           \/ v.taping[q] = w.taping[q] /\ q \notin w.stray /\ (w.d.on => v.d.on)
    BY <1>1, <1>2, <1>3
  <1>5. \A q \in Players : server.team[q] = "away" => v.taping[q] = Jump!None
    BY <1>3 DEF Sound, Taped, Jump!Plays
  <1>6. KeepsBooks(w, v) /\ v.j.runs = w.j.runs
    BY <1>2 DEF KeepsBooks
  <1>7. Sound(v, L, G, server.team)
    BY <1>2, <1>4, <1>5, <1>6, RetapedIsSound
  <1> QED
    BY <1>6, <1>7 DEF v

LEMMA StopAllIsSound ==
  ASSUME RunsAreTimed, NEW w, NEW L, NEW G, Sound(w, L, G, server.team), NEW e \in BOOLEAN,
         NEW b \in BOOLEAN, NEW S \in SUBSET Players
  PROVE  LET v == Jump!StopAll(w)
             u == [v EXCEPT !.d.on = b, !.d.everyone = e, !.d.waiting = S] IN
         /\ Sound(v, L, G, server.team) /\ KeepsBooks(w, v) /\ v.j = w.j /\ v.stray = Players
         /\ Sound(u, L, G, server.team) /\ KeepsBooks(w, u)
         /\ v.disk = w.disk /\ v.lost = w.lost
  <1> DEFINE v == Jump!StopAll(w)
             u == [v EXCEPT !.d.on = b, !.d.everyone = e, !.d.waiting = S]
  <1>1. /\ v.j = w.j /\ v.r = w.r /\ v.writing = w.writing /\ v.disk = w.disk /\ v.lost = w.lost
        /\ v \in Worlds /\ v.stray = Players
        /\ \A p \in Players : v.taping[p] = w.taping[p] \/ v.taping[p] = Jump!None
    BY DEF Jump!StopAll, Sound, Worlds, Demos, Tapes
  <1> HIDE DEF v
  <1>a. \A p \in Players : server.team[p] = "away" => v.taping[p] = Jump!None
    BY <1>1 DEF Sound, Taped
  <1>b. KeepsBooks(w, v) /\ v.j.runs = w.j.runs /\ \A p \in Players : p \in v.stray
    BY <1>1 DEF KeepsBooks
  <1>2. Sound(v, L, G, server.team)
    BY <1>1, <1>a, <1>b, RetapedIsSound
  <1>3. /\ u \in Worlds /\ u.j = v.j /\ u.r = v.r /\ u.writing = v.writing /\ u.disk = v.disk
        /\ u.lost = v.lost /\ u.stray = v.stray /\ u.taping = v.taping
    BY <1>1 DEF Worlds, Demos
  <1> HIDE DEF u
  <1>c. KeepsBooks(v, u) /\ u.j.runs = v.j.runs /\ \A p \in Players : p \in u.stray
    BY <1>1, <1>3 DEF KeepsBooks
  <1>4. Sound(u, L, G, server.team)
    BY <1>2, <1>3, <1>a, <1>c, RetapedIsSound
  <1> QED
    BY <1>1, <1>2, <1>4, <1>b, <1>c DEF u, v, KeepsBooks

LEMMA RecordAllIsSound ==
  ASSUME RunsAreTimed, NEW w, NEW L, NEW G, Sound(w, L, G, server.team)
  PROVE  LET v == Jump!RecordAll(w) IN Sound(v, L, G, server.team) /\ KeepsBooks(w, v)
  <1> DEFINE v == Jump!RecordAll(w)
             tapes == [p \in Players |->
                          IF /\ w.taping[p] = Jump!None /\ Jump!Plays(p)
                             /\ ~Jump!Fails(w, "record", Jump!All)
                          THEN Jump!Other ELSE w.taping[p]]
  <1>1. v = [w EXCEPT !.d.everyone = TRUE, !.taping = tapes]
    BY DEF Jump!RecordAll
  <1>2. tapes \in Tapes
    BY DEF Sound, Worlds, Tapes
  <1> HIDE DEF v
  <1>3. \A p \in Players : tapes[p] \in Files => tapes[p] = w.taping[p]
    BY DEF RunsAreTimed
  <1>4. \A p \in Players : server.team[p] = "away" => tapes[p] = Jump!None
    BY DEF Sound, Taped, Jump!Plays
  <1> HIDE DEF tapes
  <1>5. /\ v.j = w.j /\ v.r = w.r /\ v.writing = w.writing /\ v.disk = w.disk /\ v.d.on = w.d.on
        /\ v.lost = w.lost /\ v.stray = w.stray /\ v \in Worlds /\ v.taping = tapes
    BY <1>1, <1>2 DEF Sound, Worlds, Demos
  <1>6. KeepsBooks(w, v) /\ v.j.runs = w.j.runs
    BY <1>5 DEF KeepsBooks
  <1>7. Sound(v, L, G, server.team)
    BY <1>3, <1>4, <1>5, <1>6, RetapedIsSound
  <1> QED
    BY <1>6, <1>7 DEF v

LEMMA SwitchDemosIsSound ==
  ASSUME RunsAreTimed, NEW w, NEW L, NEW G, Sound(w, L, G, server.team)
  PROVE  LET c == Jump!SwitchDemos(w) IN Sound(c, L, G, server.team) /\ KeepsBooks(w, c)
  <1> DEFINE switched == [w EXCEPT !.d.on = TRUE]
             c == Jump!SwitchDemos(w)
  <1>1. CASE ~w.d.on
    <2>1. /\ switched \in Worlds /\ switched.j = w.j /\ switched.r = w.r /\ switched.disk = w.disk
          /\ switched.taping = w.taping /\ switched.writing = w.writing
          /\ switched.lost = w.lost /\ switched.stray = w.stray
      BY DEF Sound, Worlds, Demos
    <2>2. c = IF w.d.everyone THEN Jump!RecordAll(switched) ELSE switched
      BY <1>1 DEF Jump!SwitchDemos
    <2> HIDE DEF switched, c
    <2>3. KeepsBooks(w, switched)
      BY <2>1 DEF KeepsBooks
    <2>4. Sound(switched, L, G, server.team)
      BY <1>1, <2>1, <2>3, BesideIsSound
    <2>5. LET v == Jump!RecordAll(switched) IN
          Sound(v, L, G, server.team) /\ KeepsBooks(switched, v)
      BY <2>4, RecordAllIsSound
    <2> QED
      BY <2>2, <2>3, <2>4, <2>5 DEF KeepsBooks, c
  <1>2. CASE w.d.on
    <2> DEFINE v == Jump!StopAll(w)
               u == [v EXCEPT !.d.on = FALSE, !.d.everyone = w.d.everyone, !.d.waiting = {}]
    <2>1. PICK e \in BOOLEAN : e = w.d.everyone
      BY DEF Sound, Worlds, Demos
    <2>2. v \in Worlds
      BY StopAllIsSound DEF Sound
    <2>3. Sound(u, L, G, server.team) /\ KeepsBooks(w, u)
      BY <2>1, StopAllIsSound
    <2>4. c = [v EXCEPT !.d.on = FALSE, !.d.waiting = {}, !.d.everyone = w.d.everyone]
      BY <1>2 DEF Jump!SwitchDemos
    <2> HIDE DEF v, c
    <2>5. c = u
      BY <2>2, <2>4 DEF Worlds, Demos
    <2> QED
      BY <2>3, <2>5 DEF c
  <1> QED
    BY <1>1, <1>2

LEMMA OnDisconnectIsSound ==
  ASSUME RunsAreTimed, NEW w, NEW G, Sound(w, {}, G, server.team), NEW p \in Players,
         server.team[p] = "away"
  PROVE  LET c == Jump!OnDisconnect(w, p) IN Sound(c, {}, G, server.team) /\ KeepsBooks(w, c)
  <1> DEFINE f == w.j.runs[p].demo
             u == GivenUp(w, p)
             c == Jump!OnDisconnect(w, p)
  <1>1. w.taping[p] \notin Files
    BY DEF Sound, Taped, RunsAreTimed
  <1>2. c = Jump!Unlinked(u, p, f)
    BY DEF Jump!OnDisconnect, Jump!Unlinked, Jump!Left, Jump!Fails, GivenUp, Sound, Worlds
  <1>3. /\ Sound(u, {f} \cap Files, G, server.team) /\ KeepsBooks(w, u)
        /\ f \in Files => ~Owned(u, G, f) /\ \A q \in Players : u.taping[q] = f => q \in u.stray
    BY <1>1, GivenUpIsSound
  <1> HIDE DEF u, f, c
  <1>4. Sound(c, ({f} \cap Files) \ {f}, G, server.team) /\ KeepsBooks(u, c)
    BY <1>2, <1>3, UnlinkedIsSound
  <1>5. ({f} \cap Files) \ {f} = {}
    OBVIOUS
  <1> QED
    BY <1>3, <1>4, <1>5 DEF c, KeepsBooks

\* A run begins without a demo; one is taped that nobody is told of; or the run has it.
LEMMA BegunIsSound ==
  ASSUME RunsAreTimed, NEW w, NEW G, Sound(w, {}, G, server.team), NEW p \in Players, NEW m \in Maps,
         w.j.runs[p] = Jump!NoRun
  PROVE  LET v == [w EXCEPT !.j.runs[p] = [map |-> m, demo |-> Jump!None]] IN
         Sound(v, {}, G, server.team) /\ KeepsBooks(w, v)
  <1> DEFINE v == [w EXCEPT !.j.runs[p] = [map |-> m, demo |-> Jump!None]]
  <1>1. /\ v.d = w.d /\ v.r = w.r /\ v.disk = w.disk /\ v.taping = w.taping /\ v \in Worlds
        /\ v.writing = w.writing /\ v.lost = w.lost /\ v.stray = w.stray
        /\ v.j.runs = [w.j.runs EXCEPT ![p] = [map |-> m, demo |-> Jump!None]]
    BY DEF Sound, Worlds, Jumpers, Runs
  <1> HIDE DEF v
  <1>2. \A q \in Players : v.j.runs[q].demo = w.j.runs[q].demo
    BY <1>1 DEF Sound, Worlds, Jumpers, Runs, Jump!NoRun
  <1>3. Told(v)
    BY <1>1 DEF Sound, Told, Worlds, Jumpers, Runs
  <1>4. RunsOwn(v, {}) /\ RecordsOwn(v, {}, G)
    BY <1>1, <1>2 DEF Sound, RunsOwn, RecordsOwn
  <1>5. WritingOwns(v, {}, G) /\ AllOwned(v, {}, G)
    BY <1>1, <1>2 DEF Sound, WritingOwns, AllOwned, Owned
  <1>6. Taped(v, server.team)
    BY <1>1, <1>2 DEF Sound, Taped
  <1> QED
    BY <1>1, <1>3, <1>4, <1>5, <1>6 DEF Sound, v, KeepsBooks

Fresh(w, f) == f \in Files /\ f \notin Jump!Named(w)

LEMMA FreshIsNobodys ==
  ASSUME NEW w, NEW G, Sound(w, {}, G, server.team), NEW f, Fresh(w, f)
  PROVE  /\ f \in Files /\ f \notin w.disk /\ f \notin w.lost
         /\ \A p \in Players : w.taping[p] # f /\ w.j.runs[p].demo # f
         /\ \A k \in Keys : w.r[k].demo # f
         /\ \A x \in w.writing : x.to.demo # f
  <1>1. DOMAIN w.r = Keys
    BY DEF Sound, Worlds
  <1> QED
    BY <1>1 DEF Fresh, Jump!Named, Sound, RunsOwn, WritingOwns

LEMMA UntoldIsSound ==
  ASSUME RunsAreTimed, NEW w, NEW G, Sound(w, {}, G, server.team), NEW p \in Players,
         server.team[p] # "away", NEW f, Fresh(w, f), NEW v \in Worlds, KeepsBooks(w, v),
         v.j = w.j, v.d.on = w.d.on, v.disk = w.disk \cup {f}, v.lost = w.lost \cup {f},
         v.stray = w.stray \ {p}, v.taping = [w.taping EXCEPT ![p] = f]
  PROVE  Sound(v, {}, G, server.team)
  <1>1. /\ f \in Files /\ f \notin w.disk /\ f \notin w.lost
        /\ \A q \in Players : w.taping[q] # f /\ w.j.runs[q].demo # f
        /\ \A k \in Keys : w.r[k].demo # f
        /\ \A x \in w.writing : x.to.demo # f
    BY FreshIsNobodys
  <1>2. \A q \in Players : /\ v.taping[q] = IF q = p THEN f ELSE w.taping[q]
                           /\ q \in v.stray <=> q \in w.stray /\ q # p
    BY DEF Sound, Worlds, Tapes
  <1>3. v.r = w.r /\ v.writing = w.writing
    BY DEF KeepsBooks
  <1>4. RunsOwn(v, {})
    BY <1>1 DEF Sound, RunsOwn
  <1>5. RecordsOwn(v, {}, G)
    BY <1>1, <1>3 DEF Sound, RecordsOwn
  <1>6. WritingOwns(v, {}, G)
    BY <1>1, <1>3 DEF Sound, WritingOwns
  <1>7. AllOwned(v, {}, G)
    BY <1>3 DEF Sound, AllOwned, Owned
  <1>8. Told(v) /\ v.lost \subseteq v.disk
    BY <1>3 DEF Sound, Told
  <1>9. Taped(v, server.team)
    BY <1>1, <1>2, <1>3 DEF Sound, Taped
  <1> QED
    BY <1>4, <1>5, <1>6, <1>7, <1>8, <1>9 DEF Sound

LEMMA BegunTapedIsSound ==
  ASSUME RunsAreTimed, NEW w, NEW G, Sound(w, {}, G, server.team), NEW p \in Players, NEW m \in Maps,
         w.j.runs[p] = Jump!NoRun, server.team[p] # "away", NEW f, Fresh(w, f),
         NEW v \in Worlds, KeepsBooks(w, v), v.d.on, v.disk = w.disk \cup {f}, v.lost = w.lost,
         v.stray = w.stray \ {p}, v.taping = [w.taping EXCEPT ![p] = f],
         v.j.runs = [w.j.runs EXCEPT ![p] = [map |-> m, demo |-> f]]
  PROVE  Sound(v, {}, G, server.team)
  <1>1. /\ f \in Files /\ f \notin w.disk /\ f \notin w.lost
        /\ \A q \in Players : w.taping[q] # f /\ w.j.runs[q].demo # f
        /\ \A k \in Keys : w.r[k].demo # f
        /\ \A x \in w.writing : x.to.demo # f
    BY FreshIsNobodys
  <1>2. \A q \in Players : /\ v.taping[q] = IF q = p THEN f ELSE w.taping[q]
                           /\ q \in v.stray <=> q \in w.stray /\ q # p
                           /\ v.j.runs[q] = IF q = p THEN [map |-> m, demo |-> f] ELSE w.j.runs[q]
    BY DEF Sound, Worlds, Tapes, Jumpers, Runs
  <1>3. v.r = w.r /\ v.writing = w.writing
    BY DEF KeepsBooks
  <1>a. Jump!NoRun.demo = Jump!None /\ Jump!None \notin Files
    BY DEF Jump!NoRun, RunsAreTimed
  <1>4. RunsOwn(v, {})
    BY <1>1, <1>2 DEF Sound, RunsOwn
  <1>5. RecordsOwn(v, {}, G)
    BY <1>1, <1>2, <1>3 DEF Sound, RecordsOwn
  <1>6. WritingOwns(v, {}, G)
    BY <1>1, <1>2, <1>3 DEF Sound, WritingOwns
  <1>7. AllOwned(v, {}, G)
    <2> SUFFICES ASSUME NEW g \in v.disk, g \notin v.lost PROVE Owned(v, G, g)
      BY DEF AllOwned
    <2>1. CASE g = f
      BY <2>1, <1>2 DEF Owned
    <2>2. CASE g # f
      <3>1. g \in Files /\ Owned(w, G, g)
        BY <2>2 DEF Sound, Worlds, AllOwned
      <3> QED
        BY <3>1, <1>2, <1>3, <1>a DEF Owned
    <2> QED
      BY <2>1, <2>2
  <1>8. Told(v) /\ v.lost \subseteq v.disk
    BY <1>2, <1>3 DEF Sound, Told
  <1>9. Taped(v, server.team)
    BY <1>1, <1>2, <1>3 DEF Sound, Taped
  <1> QED
    BY <1>4, <1>5, <1>6, <1>7, <1>8, <1>9 DEF Sound

\* A run that begins where none is on.
LEMMA BeginningIsSound ==
  ASSUME RunsAreTimed, NEW w, NEW G, Sound(w, {}, G, server.team), NEW p \in Players,
         w.j.runs[p] = Jump!NoRun, Jump!HasRoom(w)
  PROVE  LET c == Jump!Begun(w, p) IN Sound(c, {}, G, server.team) /\ KeepsBooks(w, c)
  <1> DEFINE f == Jump!NewFile(w)
             m == w.j.map
             told == w.d.on /\ Jump!Begins(w, p) /\ Jump!Answered(w, p)
             v == IF w.d.on THEN Jump!Record(w, p, f, FALSE) ELSE w
             c == Jump!Begun(w, p)
  <1>1. c = [v EXCEPT !.j.runs[p] = [map |-> m, demo |-> IF told THEN f ELSE Jump!None]]
    BY DEF Jump!Begun
  <1>2. Fresh(w, f) /\ f \in Files
    BY DEF Fresh, Jump!HasRoom, Jump!NewFile
  <1>3. m \in Maps /\ w \in Worlds
    BY DEF Sound, Worlds, Jumpers
  <1> HIDE DEF f, m, c
  <1>4. CASE ~w.d.on
    <2>1. c = [w EXCEPT !.j.runs[p] = [map |-> m, demo |-> Jump!None]]
      BY <1>1, <1>4
    <2> HIDE DEF v, told
    <2>2. Sound(c, {}, G, server.team) /\ KeepsBooks(w, c)
      BY <1>3, <2>1, BegunIsSound
    <2> QED
      BY <2>2 DEF c
  <1>5. CASE w.d.on
    <2>1. v = Jump!Record(w, p, f, FALSE)
      BY <1>5
    <2> HIDE DEF v
    <2>2. f \in Files \cup {Jump!Other} /\ {f} \cap Files = {f}
      BY <1>2
    <2>b. PICK timed \in BOOLEAN : v = Jump!Record(w, p, f, timed)
      BY <2>1
    <2>a. /\ v.j = w.j /\ v.r = w.r /\ v.writing = w.writing /\ v.d.on = w.d.on /\ v \in Worlds
          /\ Jump!Begins(w, p) =>
                /\ v.disk = w.disk \cup ({f} \cap Files) /\ v.stray = w.stray \ {p}
                /\ v.taping = [w.taping EXCEPT ![p] = f]
                /\ Jump!Answered(w, p) => v.lost = w.lost
                /\ ~Jump!Answered(w, p) => v.lost = w.lost \cup ({f} \cap Files)
          /\ ~Jump!Begins(w, p) =>
                v.disk = w.disk /\ v.stray = w.stray /\ v.taping = w.taping /\ v.lost = w.lost
      BY <1>3, <2>b, <2>2, RecordIs
    <2>3. /\ v.j = w.j /\ v.r = w.r /\ v.writing = w.writing /\ v.d.on = w.d.on /\ v \in Worlds
          /\ Jump!Begins(w, p) =>
                /\ v.disk = w.disk \cup {f} /\ v.stray = w.stray \ {p}
                /\ v.taping = [w.taping EXCEPT ![p] = f]
                /\ Jump!Answered(w, p) => v.lost = w.lost
                /\ ~Jump!Answered(w, p) => v.lost = w.lost \cup {f}
          /\ ~Jump!Begins(w, p) =>
                v.disk = w.disk /\ v.stray = w.stray /\ v.taping = w.taping /\ v.lost = w.lost
      BY <2>2, <2>a
    <2>4. KeepsBooks(w, v) /\ v.j.runs = w.j.runs
      BY <2>3 DEF KeepsBooks
    <2>5. Jump!Begins(w, p) => server.team[p] # "away"
      BY DEF Jump!Begins, Jump!Plays
    <2>6. CASE ~told
      <3>1. Jump!Begins(w, p) => Sound(v, {}, G, server.team)
        <4> SUFFICES ASSUME Jump!Begins(w, p) PROVE Sound(v, {}, G, server.team)
          OBVIOUS
        <4>1. /\ v.lost = w.lost \cup {f} /\ v.disk = w.disk \cup {f} /\ v.stray = w.stray \ {p}
              /\ v.taping = [w.taping EXCEPT ![p] = f]
          BY <1>5, <2>3, <2>6
        <4> QED
          BY <1>2, <2>3, <2>4, <2>5, <4>1, UntoldIsSound
      <3>2. ~Jump!Begins(w, p) => Sound(v, {}, G, server.team)
        BY <2>3, <2>4, BesideIsSound
      <3>3. Sound(v, {}, G, server.team) /\ v.j.runs[p] = Jump!NoRun
        BY <2>4, <3>1, <3>2
      <3>4. c = [v EXCEPT !.j.runs[p] = [map |-> m, demo |-> Jump!None]]
        BY <1>1, <2>6
      <3> HIDE DEF told
      <3>5. Sound(c, {}, G, server.team) /\ KeepsBooks(v, c)
        BY <1>3, <3>3, <3>4, BegunIsSound
      <3> QED
        BY <2>4, <3>5 DEF c, KeepsBooks
    <2>7. CASE told
      <3>1. c = [v EXCEPT !.j.runs[p] = [map |-> m, demo |-> f]]
        BY <1>1, <2>7
      <3>2. Jump!Begins(w, p) /\ Jump!Answered(w, p)
        BY <2>7
      <3> HIDE DEF told
      <3>3. /\ c \in Worlds /\ c.d = v.d /\ c.r = v.r /\ c.writing = v.writing /\ c.disk = v.disk
            /\ c.lost = v.lost /\ c.stray = v.stray /\ c.taping = v.taping
            /\ c.j.runs = [v.j.runs EXCEPT ![p] = [map |-> m, demo |-> f]]
        BY <1>2, <1>3, <2>3, <3>1 DEF Worlds, Jumpers, Runs
      <3>4. /\ KeepsBooks(w, c) /\ c.d.on /\ c.disk = w.disk \cup {f} /\ c.lost = w.lost
            /\ c.stray = w.stray \ {p} /\ c.taping = [w.taping EXCEPT ![p] = f]
            /\ c.j.runs = [w.j.runs EXCEPT ![p] = [map |-> m, demo |-> f]]
        BY <1>5, <2>3, <2>4, <3>2, <3>3 DEF KeepsBooks
      <3>5. Sound(c, {}, G, server.team)
        BY <1>2, <1>3, <2>5, <3>2, <3>3, <3>4, BegunTapedIsSound
      <3> QED
        BY <3>4, <3>5 DEF c
    <2> QED
      BY <2>6, <2>7
  <1> QED
    BY <1>4, <1>5

LEMMA OnRunStartIsSound ==
  ASSUME RunsAreTimed, NEW w, NEW G, Sound(w, {}, G, server.team), NEW p \in Players, Jump!HasRoom(w)
  PROVE  LET c == Jump!OnRunStart(w, p) IN Sound(c, {}, G, server.team) /\ KeepsBooks(w, c)
  <1> DEFINE over == Jump!Cancel(w, p)
             c == Jump!OnRunStart(w, p)
  <1>1. c = Jump!Begun(over, p)
    BY DEF Jump!OnRunStart
  <1>2. /\ Sound(over, {}, G, server.team) /\ KeepsBooks(w, over)
        /\ over.j.runs[p] = Jump!NoRun /\ over.disk \subseteq w.disk
    BY CancelIsSound
  <1>3. \A q \in Players : over.taping[q] = w.taping[q] \/ over.taping[q] = Jump!None
    BY CancelTapes DEF Sound
  <1> HIDE DEF over, c
  <1>4. Jump!HasRoom(over)
    <2>1. \A f \in Files : f \in Jump!Named(over) => f \in Jump!Named(w)
      BY <1>2, <1>3 DEF Jump!Named, KeepsBooks, RunsAreTimed
    <2> QED
      BY <2>1 DEF Jump!HasRoom
  <1>5. Sound(c, {}, G, server.team) /\ KeepsBooks(over, c)
    BY <1>1, <1>2, <1>4, BeginningIsSound
  <1> QED
    BY <1>2, <1>5 DEF c, KeepsBooks

\* The keys of the rows that are to be written, and what is then not to stand.
Pending(w) == {x.key : x \in w.writing}
Planned(w, G) == G \cup Pending(w)

\* Nobody has a demo that was just given up.
GivenBack(w, G, f) ==
    f \in Files => /\ ~Owned(w, G, f) /\ \A k \in Keys : w.r[k].demo # f
                   /\ \A q \in Players : w.taping[q] = f => q \in w.stray
                   /\ f \in w.disk /\ f \notin w.lost

\* A row is about to be written: its demo is nobody's else, and the record of before does not
\* stand, so that its demo may go.
LEMMA RowIsPlanned ==
  ASSUME RunsAreTimed, NEW w, NEW G, NEW k \in Keys, NEW to \in Best,
         Sound(w, {to.demo} \cap Files, G, server.team), w.writing = {}, GivenBack(w, G, to.demo),
         \/ to = Jump!NoRecord
         \/ to.time \in Times /\ (w.r[k] = Jump!NoRecord \/ to.time < w.r[k].time)
  PROVE  LET v == [w EXCEPT !.writing = {[key |-> k, to |-> to]}]
             b == w.r[k].demo IN
         /\ Sound(v, {b} \cap Files, G \cup {k}, server.team) /\ v.r = w.r
         /\ v.writing = {[key |-> k, to |-> to]}
         /\ b \in Files => /\ ~Owned(v, G \cup {k}, b)
                           /\ \A q \in Players : v.taping[q] = b => q \in v.stray
  <1> DEFINE x == [key |-> k, to |-> to]
             v == [w EXCEPT !.writing = {x}]
             b == w.r[k].demo
             f == to.demo
             N == {b} \cap Files
             H == G \cup {k}
  <1>1. x.key = k /\ x.to = to /\ x \in [key : Keys, to : Best]
    OBVIOUS
  <1> HIDE DEF x
  <1>2. {x} \in Writings
    BY <1>1 DEF Writings
  <1>3. /\ v.j = w.j /\ v.r = w.r /\ v.d = w.d /\ v.disk = w.disk /\ v.lost = w.lost
        /\ v.stray = w.stray /\ v.taping = w.taping /\ v.writing = {x} /\ v \in Worlds
    BY <1>2 DEF Sound, Worlds
  <1> HIDE DEF v
  <1>4. b \in Files => /\ \A p \in Players : w.j.runs[p].demo # b
                       /\ \A l \in Keys : l # k => w.r[l].demo # b
                       /\ f # b
    BY DEF Sound, RecordsOwn, GivenBack
  <1>5. f \in Files => /\ f \in w.disk /\ f \notin w.lost
                       /\ \A p \in Players : w.j.runs[p].demo # f
                       /\ \A l \in Keys : w.r[l].demo # f
                       /\ \A q \in Players : w.taping[q] = f => q \in w.stray
    BY DEF GivenBack, Owned
  <1>6. RunsOwn(v, N)
    BY <1>3, <1>4 DEF Sound, RunsOwn
  <1>7. RecordsOwn(v, N, H)
    <2>1. \A l \in Keys : l \notin H /\ w.r[l].demo \in Files =>
             w.r[l].demo \in w.disk /\ w.r[l].demo \notin w.lost /\ w.r[l].demo \notin N
      BY <1>4 DEF Sound, RecordsOwn
    <2> QED
      BY <1>3, <2>1 DEF Sound, RecordsOwn
  <1>8. WritingOwns(v, N, H)
    BY <1>1, <1>3, <1>4, <1>5 DEF WritingOwns
  <1>9. AllOwned(v, N, H)
    <2> SUFFICES ASSUME NEW g \in v.disk, g \notin v.lost, g \notin N PROVE Owned(v, H, g)
      BY DEF AllOwned
    <2>0. g \in Files /\ g # b
      BY <1>3 DEF Sound, Worlds
    <2>1. CASE g = f
      BY <1>1, <1>3, <2>1 DEF Owned
    <2>2. CASE g # f
      <3>1. Owned(w, G, g)
        BY <1>3, <2>2 DEF Sound, AllOwned
      <3> QED
        BY <1>3, <2>0, <3>1 DEF Owned, Sound
    <2> QED
      BY <2>1, <2>2
  <1>10. Told(v)
    BY <1>1, <1>3 DEF Sound, Told
  <1>11. Taped(v, server.team)
    <2>1. ASSUME NEW p \in Players, w.taping[p] \in Files, p \notin w.stray
          PROVE  \/ w.taping[p] = w.j.runs[p].demo /\ w.d.on
                 \/ /\ w.taping[p] \in w.lost
                    /\ \A l \in Keys : w.r[l].demo # w.taping[p]
                    /\ to.demo # w.taping[p]
      BY <1>5, <2>1 DEF Sound, Taped
    <2> QED
      BY <1>1, <1>3, <2>1 DEF Sound, Taped
  <1>12. b \in Files => ~Owned(v, H, b)
    BY <1>1, <1>3, <1>4 DEF Owned
  <1>13. b \in Files => \A q \in Players : v.taping[q] = b => q \in v.stray
    BY <1>3, <1>4 DEF Sound, Taped
  <1>14. Sound(v, N, H, server.team)
    BY <1>3, <1>6, <1>7, <1>8, <1>9, <1>10, <1>11 DEF Sound
  <1> QED
    BY <1>3, <1>12, <1>13, <1>14 DEF v, x

\* The demo of the record that is to go is deleted, or lost, and the row is yet to be written.
LEMMA RowIsMadeRoomFor ==
  ASSUME RunsAreTimed, NEW w, NEW G, NEW p \in Players, NEW k \in Keys, NEW to \in Best,
         Sound(w, {to.demo} \cap Files, G, server.team), w.writing = {}, GivenBack(w, G, to.demo),
         \/ to = Jump!NoRecord
         \/ to.time \in Times /\ (w.r[k] = Jump!NoRecord \/ to.time < w.r[k].time)
  PROVE  LET c == [Jump!Unlinked(w, p, w.r[k].demo) EXCEPT
                       !.writing = {[key |-> k, to |-> to]}] IN
         /\ Sound(c, {}, Planned(c, G), server.team) /\ c.r = w.r
         /\ c.writing = {[key |-> k, to |-> to]}
  <1> DEFINE v == [w EXCEPT !.writing = {[key |-> k, to |-> to]}]
             b == w.r[k].demo
             c == [Jump!Unlinked(w, p, b) EXCEPT !.writing = {[key |-> k, to |-> to]}]
  <1>1. /\ Sound(v, {b} \cap Files, G \cup {k}, server.team) /\ v.r = w.r
        /\ v.writing = {[key |-> k, to |-> to]}
        /\ b \in Files => /\ ~Owned(v, G \cup {k}, b)
                          /\ \A q \in Players : v.taping[q] = b => q \in v.stray
    BY RowIsPlanned
  <1>2. c = Jump!Unlinked(v, p, b)
    BY DEF Jump!Unlinked, Jump!Left, Jump!Fails, Sound, Worlds
  <1> HIDE DEF v, c, b
  <1>3. Sound(c, ({b} \cap Files) \ {b}, G \cup {k}, server.team) /\ KeepsBooks(v, c)
    BY <1>1, <1>2, UnlinkedIsSound
  <1>4. ({b} \cap Files) \ {b} = {}
    OBVIOUS
  <1>5. c.r = w.r /\ c.writing = {[key |-> k, to |-> to]}
    BY <1>1, <1>3 DEF KeepsBooks
  <1>6. Planned(c, G) = G \cup {k}
    BY <1>5 DEF Planned, Pending
  <1> QED
    BY <1>3, <1>4, <1>5, <1>6 DEF c, b

LEMMA PlannedNothing ==
  ASSUME NEW c, NEW G, c.writing = {}
  PROVE  Planned(c, G) = G
  BY DEF Planned, Pending

\* What the jumper does at a line: the records are what they were, and a row that is to be written
\* is of a run.
Handled(w, c, G) ==
    /\ Sound(c, {}, Planned(c, G), server.team) /\ c.r = w.r
    /\ \A x \in c.writing : x.to.time \in Times

LEMMA FinishIsHandled ==
  ASSUME RunsAreTimed, NEW w, NEW G, NEW p \in Players, NEW m \in Maps, NEW t \in Times,
         NEW f \in Files \cup {Jump!None}, NEW run, run = [map |-> m, demo |-> f],
         Sound(w, {f} \cap Files, G, server.team), w.writing = {}, GivenBack(w, G, f)
  PROVE  Handled(w, Jump!Finish(w, p, run, t), G)
  <1> DEFINE k == <<p, m>>
             best == w.r[k]
             c == Jump!Finish(w, p, run, t)
             to == [time |-> t, demo |-> f]
  <1>1. run.map = m /\ run.demo = f /\ w.r[<<p, run.map>>] = best
    OBVIOUS
  <1>2. w \in Worlds /\ k \in Keys
    BY DEF Sound, Keys
  <1> DEFINE unreadable == Jump!Fails(w, "best", p)
  <1>5. CASE unreadable
    <2>1. c = Jump!Left(w, f)
      BY <1>1, <1>5 DEF Jump!Finish
    <2>a. IsPared(w, c, f)
      BY <1>2, <2>1, LeftIsPared
    <2> HIDE DEF c
    <2>2. Sound(c, ({f} \cap Files) \ {f}, G, server.team) /\ KeepsBooks(w, c)
      BY <2>a, ParedIsSound DEF GivenBack
    <2>3. ({f} \cap Files) \ {f} = {}
      OBVIOUS
    <2>4. c.writing = {} /\ c.r = w.r
      BY <2>2 DEF KeepsBooks
    <2> QED
      BY <2>2, <2>3, <2>4, PlannedNothing DEF Handled, c
  <1>3. CASE ~unreadable /\ best # Jump!NoRecord /\ t >= best.time
    <2>1. c = Jump!Unlinked(w, p, f)
      BY <1>1, <1>3 DEF Jump!Finish
    <2> HIDE DEF c
    <2>2. Sound(c, ({f} \cap Files) \ {f}, G, server.team) /\ KeepsBooks(w, c)
      BY <2>1, UnlinkedIsSound DEF GivenBack
    <2>3. ({f} \cap Files) \ {f} = {}
      OBVIOUS
    <2>4. c.writing = {} /\ c.r = w.r
      BY <2>2 DEF KeepsBooks
    <2> QED
      BY <2>2, <2>3, <2>4, PlannedNothing DEF Handled, c
  <1>4. CASE ~unreadable /\ ~(best # Jump!NoRecord /\ t >= best.time)
    <2>1. c = [Jump!Unlinked(w, p, best.demo) EXCEPT
                  !.writing = {[key |-> <<p, run.map>>, to |-> [time |-> t, demo |-> run.demo]]}]
      BY <1>1, <1>4 DEF Jump!Finish
    <2>2. c = [Jump!Unlinked(w, p, best.demo) EXCEPT !.writing = {[key |-> k, to |-> to]}]
      BY <1>1, <2>1
    <2>3. to \in Best /\ to.demo = f /\ to.time = t
      BY DEF Best
    <2>4. best = Jump!NoRecord \/ to.time < best.time
      <3>1. best = Jump!NoRecord \/ best.time \in Times
        BY <1>2 DEF Sound, Told
      <3>2. t \in Nat \ {0} /\ (best.time \in Times => best.time \in Nat)
        BY DEF RunsAreTimed
      <3> HIDE DEF best, to
      <3> QED
        BY ONLY <1>4, <2>3, <3>1, <3>2
    <2> HIDE DEF to, k, c
    <2>5. /\ Sound(c, {}, Planned(c, G), server.team) /\ c.r = w.r
          /\ c.writing = {[key |-> k, to |-> to]}
      BY <1>2, <2>2, <2>3, <2>4, RowIsMadeRoomFor
    <2>6. \A x \in c.writing : x.to.time \in Times
      BY <2>3, <2>5
    <2> QED
      BY <2>5, <2>6 DEF Handled, c
  <1> QED
    BY <1>3, <1>4, <1>5

LEMMA OnRunStopIsHandled ==
  ASSUME RunsAreTimed, NEW w, NEW G, Sound(w, {}, G, server.team), w.writing = {},
         NEW p \in Players, NEW t \in Times \cup {0}
  PROVE  Handled(w, Jump!OnRunStop(w, p, t), G)
  <1> DEFINE run == IF w.j.runs[p] = Jump!NoRun THEN [map |-> w.j.map, demo |-> Jump!None]
                    ELSE w.j.runs[p]
             s == Jump!StopDemo(w, p)
             f == w.j.runs[p].demo
             u == GivenUp(s, p)
             c == Jump!OnRunStop(w, p, t)
  <1>1. c = IF t = 0 THEN Jump!Unlinked(u, p, run.demo) ELSE Jump!Finish(u, p, run, t)
    BY DEF Jump!OnRunStop, GivenUp
  <1>2. /\ Sound(s, {}, G, server.team) /\ KeepsBooks(w, s) /\ s.j = w.j
        /\ \/ p \in s.stray \/ s.taping[p] \notin Files
           \/ s.taping[p] # s.j.runs[p].demo \/ ~s.d.on
    BY StopDemoIsSound
  <1>3. w.j.map \in Maps /\ f \in Files \cup {Jump!None}
    BY DEF Sound, Worlds, Jumpers, Runs
  <1>4. \E m \in Maps : run = [map |-> m, demo |-> f]
    <2>1. CASE w.j.runs[p] = Jump!NoRun
      BY <1>3, <2>1 DEF Jump!NoRun
    <2>2. CASE w.j.runs[p] # Jump!NoRun
      BY <2>2 DEF Sound, Told, Worlds, Jumpers, Runs
    <2> QED
      BY <2>1, <2>2
  <1>a. s.j.runs[p].demo = f
    BY <1>2
  <1> HIDE DEF s, run, c, f
  <1>5. PICK m \in Maps : run = [map |-> m, demo |-> f]
    BY <1>4
  <1>b. run.demo = f
    BY <1>5
  <1> HIDE DEF u
  <1>c. u = GivenUp(s, p)
    BY DEF u
  <1>6. /\ Sound(u, {f} \cap Files, G, server.team) /\ KeepsBooks(s, u) /\ GivenBack(u, G, f)
    BY <1>2, <1>a, <1>c, GivenUpIsSound DEF GivenBack
  <1>7. u.writing = {} /\ u.r = w.r
    BY <1>2, <1>6 DEF KeepsBooks
  <1>8. CASE t = 0
    <2>1. c = Jump!Unlinked(u, p, f)
      BY <1>1, <1>8, <1>b
    <2>2. Sound(c, ({f} \cap Files) \ {f}, G, server.team) /\ KeepsBooks(u, c)
      BY <1>6, <2>1, UnlinkedIsSound DEF GivenBack
    <2>3. ({f} \cap Files) \ {f} = {}
      OBVIOUS
    <2>4. c.writing = {} /\ c.r = w.r
      BY <1>7, <2>2 DEF KeepsBooks
    <2> QED
      BY <2>2, <2>3, <2>4, PlannedNothing DEF Handled, c
  <1>9. CASE t # 0
    <2>1. c = Jump!Finish(u, p, run, t) /\ t \in Times
      BY <1>1, <1>9
    <2>2. Handled(u, c, G)
      BY <1>3, <1>5, <1>6, <1>7, <2>1, FinishIsHandled
    <2> QED
      BY <1>7, <2>2 DEF Handled, c
  <1> QED
    BY <1>8, <1>9

LEMMA DelRecordIsSound ==
  ASSUME RunsAreTimed, NEW w, NEW G, Sound(w, {}, G, server.team), w.writing = {},
         NEW p \in Players, NEW m \in Maps
  PROVE  LET c == Jump!DelRecord(w, p, m) IN
         Sound(c, {}, Planned(c, G), server.team) /\ c.r = w.r
  <1> DEFINE k == <<p, m>>
             c == Jump!DelRecord(w, p, m)
  <1>1. k \in Keys
    BY DEF Keys
  <1>2. c = [Jump!Unlinked(w, p, w.r[k].demo) EXCEPT
                !.writing = {[key |-> k, to |-> Jump!NoRecord]}]
    BY DEF Jump!DelRecord
  <1>3. /\ Jump!NoRecord \in Best /\ Jump!NoRecord.demo = Jump!None
        /\ Jump!NoRecord.demo \notin Files
    BY DEF Jump!NoRecord, Best, RunsAreTimed
  <1>4. {Jump!NoRecord.demo} \cap Files = {} /\ GivenBack(w, G, Jump!NoRecord.demo)
    BY <1>3 DEF GivenBack
  <1>5. Sound(w, {Jump!NoRecord.demo} \cap Files, G, server.team)
    BY <1>4
  <1> HIDE DEF k, c
  <1>6. Sound(c, {}, Planned(c, G), server.team) /\ c.r = w.r
    BY <1>1, <1>2, <1>3, <1>4, <1>5, RowIsMadeRoomFor
  <1> QED
    BY <1>6 DEF c

LEMMA OnMapStartIsSound ==
  ASSUME RunsAreTimed, NEW w, NEW G, Sound(w, {}, G, server.team)
  PROVE  LET c == Jump!OnMapStart(w) IN Sound(c, {}, G, server.team) /\ KeepsBooks(w, c)
  <1> DEFINE over == Jump!CancelAll(w)
             c == Jump!OnMapStart(w)
  <1>1. Sound(over, {}, G, server.team) /\ KeepsBooks(w, over)
    BY CancelAllIsSound
  <1>2. \E n \in 0..MaxCycles : c = [over EXCEPT !.j.cycles = n]
    <2>1. over.j.cycles \in 0..MaxCycles
      BY <1>1 DEF Sound, Worlds, Jumpers
    <2>2. CASE Jump!Cycles(over, w.j.map)
      <3>1. c = [over EXCEPT !.j.cycles = @ + 1] /\ over.j.cycles < MaxCycles
        BY <2>2 DEF Jump!OnMapStart, Jump!Cycles
      <3> HIDE DEF over, c
      <3>2. over.j.cycles + 1 \in 0..MaxCycles /\ c = [over EXCEPT !.j.cycles = over.j.cycles + 1]
        BY <2>1, <3>1, <1>1 DEF RunsAreTimed, Sound, Worlds, Jumpers
      <3> QED
        BY <3>2
    <2>3. CASE ~Jump!Cycles(over, w.j.map)
      <3>1. c = [over EXCEPT !.j.cycles = 0]
        BY <2>3 DEF Jump!OnMapStart
      <3> QED
        BY <3>1 DEF RunsAreTimed
    <2> QED
      BY <2>2, <2>3
  <1> HIDE DEF over, c
  <1>3. PICK n \in 0..MaxCycles : c = [over EXCEPT !.j.cycles = n]
    BY <1>2
  <1>4. /\ c \in Worlds /\ c.taping = over.taping /\ c.disk = over.disk /\ c.d = over.d
        /\ c.lost = over.lost /\ c.stray = over.stray /\ c.j.runs = over.j.runs
        /\ c.r = over.r /\ c.writing = over.writing
    BY <1>1, <1>3 DEF Sound, Worlds, Jumpers
  <1>5. KeepsBooks(over, c)
    BY <1>4 DEF KeepsBooks
  <1>6. Sound(c, {}, G, server.team)
    BY <1>1, <1>4, <1>5, BesideIsSound
  <1> QED
    BY <1>1, <1>5, <1>6 DEF c, KeepsBooks

LEMMA SwitchJumperIsSound ==
  ASSUME RunsAreTimed, NEW w, NEW G, Sound(w, {}, G, server.team)
  PROVE  LET c == Jump!SwitchJumper(w) IN Sound(c, {}, G, server.team) /\ KeepsBooks(w, c)
  <1> DEFINE over == Jump!CancelAll(w)
             c == Jump!SwitchJumper(w)
  <1>1. CASE w.j.on
    <2>1. Sound(over, {}, G, server.team) /\ KeepsBooks(w, over)
      BY CancelAllIsSound
    <2>2. c = [over EXCEPT !.j.on = FALSE]
      BY <1>1 DEF Jump!SwitchJumper
    <2> HIDE DEF over, c
    <2>3. /\ c \in Worlds /\ c.taping = over.taping /\ c.disk = over.disk /\ c.d = over.d
          /\ c.lost = over.lost /\ c.stray = over.stray /\ c.j.runs = over.j.runs
          /\ c.r = over.r /\ c.writing = over.writing
      BY <2>1, <2>2 DEF Sound, Worlds, Jumpers
    <2>4. KeepsBooks(over, c)
      BY <2>3 DEF KeepsBooks
    <2>5. Sound(c, {}, G, server.team)
      BY <2>1, <2>3, <2>4, BesideIsSound
    <2> QED
      BY <2>1, <2>4, <2>5 DEF c, KeepsBooks
  <1>2. CASE ~w.j.on
    <2> DEFINE n == IF Jump!Cycles(w, w.j.map) THEN w.j.cycles + 1 ELSE w.j.cycles
    <2>1. n \in 0..MaxCycles
      <3>1. w.j.cycles \in 0..MaxCycles
        BY DEF Sound, Worlds, Jumpers
      <3> QED
        BY <3>1 DEF Jump!Cycles, RunsAreTimed
    <2>2. c = [w EXCEPT !.j.on = TRUE, !.j.cycles = n]
      BY <1>2 DEF Jump!SwitchJumper, Sound, Worlds, Jumpers
    <2> HIDE DEF n, c
    <2>3. /\ c \in Worlds /\ c.taping = w.taping /\ c.disk = w.disk /\ c.d = w.d
          /\ c.lost = w.lost /\ c.stray = w.stray /\ c.j.runs = w.j.runs
          /\ c.r = w.r /\ c.writing = w.writing
      BY <2>1, <2>2 DEF Sound, Worlds, Jumpers
    <2>4. KeepsBooks(w, c)
      BY <2>3 DEF KeepsBooks
    <2>5. Sound(c, {}, G, server.team)
      BY <2>3, <2>4, BesideIsSound
    <2> QED
      BY <2>4, <2>5 DEF c
  <1> QED
    BY <1>1, <1>2

\* Who is no longer waited for.
LEMMA UnwaitedIsSound ==
  ASSUME RunsAreTimed, NEW w, NEW G, Sound(w, {}, G, server.team), NEW p \in Players
  PROVE  LET v == [w EXCEPT !.d.waiting = @ \ {p}] IN
         Sound(v, {}, G, server.team) /\ KeepsBooks(w, v)
  <1> DEFINE v == [w EXCEPT !.d.waiting = @ \ {p}]
  <1>1. /\ v \in Worlds /\ v.taping = w.taping /\ v.disk = w.disk /\ v.lost = w.lost
        /\ v.stray = w.stray /\ v.d.on = w.d.on /\ v.j = w.j /\ v.r = w.r
        /\ v.writing = w.writing
    BY DEF Sound, Worlds, Demos
  <1> HIDE DEF v
  <1>2. KeepsBooks(w, v)
    BY <1>1 DEF KeepsBooks
  <1>3. Sound(v, {}, G, server.team)
    BY <1>1, <1>2, BesideIsSound
  <1> QED
    BY <1>2, <1>3 DEF v

LEMMA DemosOnJoinIsSound ==
  ASSUME RunsAreTimed, NEW w, NEW G, Sound(w, {}, G, server.team), NEW p \in Players
  PROVE  LET c == Jump!DemosOnJoin(w, p) IN Sound(c, {}, G, server.team) /\ KeepsBooks(w, c)
  <1> DEFINE v == [w EXCEPT !.d.waiting = @ \ {p}]
             c == Jump!DemosOnJoin(w, p)
  <1>1. Sound(v, {}, G, server.team) /\ KeepsBooks(w, v)
    BY UnwaitedIsSound
  <1>2. PICK never \in BOOLEAN : ~never
    OBVIOUS
  <1>3. \/ c = w
        \/ c = Jump!Record(w, p, Jump!Other, never)
        \/ c = Jump!Record(v, p, Jump!Other, never)
    BY <1>2 DEF Jump!DemosOnJoin
  <1> HIDE DEF v, c
  <1>4. LET a == Jump!Record(v, p, Jump!Other, never) IN
        Sound(a, {}, G, server.team) /\ KeepsBooks(v, a)
    BY <1>1, RecordIsSound
  <1>5. LET a == Jump!Record(w, p, Jump!Other, never) IN
        Sound(a, {}, G, server.team) /\ KeepsBooks(w, a)
    BY RecordIsSound
  <1> QED
    BY <1>1, <1>3, <1>4, <1>5 DEF c, KeepsBooks

LEMMA DemosOnDisconnectIsSound ==
  ASSUME RunsAreTimed, NEW w, NEW G, Sound(w, {}, G, server.team), NEW p \in Players
  PROVE  LET c == Jump!DemosOnDisconnect(w, p) IN
         Sound(c, {}, G, server.team) /\ KeepsBooks(w, c)
  <1> DEFINE c == Jump!DemosOnDisconnect(w, p)
  <1>1. CASE ~w.d.on
    BY <1>1 DEF Jump!DemosOnDisconnect, KeepsBooks
  <1>2. CASE w.d.on
    <2>1. c = [w EXCEPT !.d.waiting = @ \ {p}, !.d.recording[p] = Jump!None,
                        !.d.timed = @ \ {p}]
      BY <1>2 DEF Jump!DemosOnDisconnect
    <2> HIDE DEF c
    <2>2. /\ c \in Worlds /\ c.taping = w.taping /\ c.disk = w.disk /\ c.d.on = w.d.on
          /\ c.lost = w.lost /\ c.stray = w.stray /\ c.j = w.j /\ c.r = w.r
          /\ c.writing = w.writing
      BY <2>1 DEF Sound, Worlds, Demos, Tapes
    <2>3. KeepsBooks(w, c)
      BY <2>2 DEF KeepsBooks
    <2>4. Sound(c, {}, G, server.team)
      BY <2>2, <2>3, BesideIsSound
    <2> QED
      BY <2>3, <2>4 DEF c
  <1> QED
    BY <1>1, <1>2

\* The lines of the log: a player or a map, the time of a run that ended, and who has left is
\* away until all that was written is read.
Words == {"start", "cancel", "stop", "join", "spec", "gone", "map"}
Line == Words \X (Players \cup Maps) \X (Times \cup {0})
Written(l, team) ==
    /\ l[1] = "map" => l[2] \in Maps
    /\ l[1] # "map" => l[2] \in Players
    /\ l[1] = "gone" => team[l[2]] = "away"

LEMMA JumperAtIsHandled ==
  ASSUME RunsAreTimed, NEW w, NEW G, Sound(w, {}, G, server.team), w.writing = {}, NEW l \in Line,
         Written(l, server.team), l[1] = "start" => Jump!HasRoom(w)
  PROVE  Handled(w, Jump!JumperAt(w, l[1], l[2], l[3]), G)
  <1> DEFINE c == Jump!JumperAt(w, l[1], l[2], l[3])
  <1>0. ASSUME NEW v, Sound(v, {}, G, server.team), KeepsBooks(w, v) PROVE Handled(w, v, G)
    <2>1. v.writing = {} /\ v.r = w.r
      BY <1>0 DEF KeepsBooks
    <2> QED
      BY <1>0, <2>1, PlannedNothing DEF Handled
  <1>1. CASE ~w.j.on
    <2>1. c = w
      BY <1>1 DEF Jump!JumperAt
    <2> QED
      BY <1>0, <2>1 DEF KeepsBooks
  <1>2. CASE w.j.on /\ l[1] = "start"
    <2>1. c = Jump!OnRunStart(w, l[2]) /\ l[2] \in Players
      BY <1>2 DEF Jump!JumperAt, Written
    <2> HIDE DEF c
    <2>2. Sound(c, {}, G, server.team) /\ KeepsBooks(w, c)
      BY <1>2, <2>1, OnRunStartIsSound
    <2> QED
      BY <1>0, <2>2 DEF c
  <1>3. CASE w.j.on /\ l[1] \in {"cancel", "spec"}
    <2>1. c = Jump!Cancel(w, l[2]) /\ l[2] \in Players
      BY <1>3 DEF Jump!JumperAt, Written
    <2> HIDE DEF c
    <2>2. Sound(c, {}, G, server.team) /\ KeepsBooks(w, c)
      BY <2>1, CancelIsSound
    <2> QED
      BY <1>0, <2>2 DEF c
  <1>4. CASE w.j.on /\ l[1] = "stop"
    <2>1. c = Jump!OnRunStop(w, l[2], l[3]) /\ l[2] \in Players /\ l[3] \in Times \cup {0}
      BY <1>4 DEF Jump!JumperAt, Written, Line
    <2> QED
      BY <2>1, OnRunStopIsHandled
  <1>5. CASE w.j.on /\ l[1] = "gone"
    <2>1. c = Jump!OnDisconnect(w, l[2]) /\ l[2] \in Players /\ server.team[l[2]] = "away"
      BY <1>5 DEF Jump!JumperAt, Written
    <2> HIDE DEF c
    <2>2. Sound(c, {}, G, server.team) /\ KeepsBooks(w, c)
      BY <2>1, OnDisconnectIsSound
    <2> QED
      BY <1>0, <2>2 DEF c
  <1>6. CASE w.j.on /\ l[1] = "map"
    <2>1. c = Jump!OnMapStart(w)
      BY <1>6 DEF Jump!JumperAt
    <2> HIDE DEF c
    <2>2. Sound(c, {}, G, server.team) /\ KeepsBooks(w, c)
      BY <2>1, OnMapStartIsSound
    <2> QED
      BY <1>0, <2>2 DEF c
  <1>7. CASE w.j.on /\ l[1] \notin {"start", "cancel", "spec", "stop", "gone", "map"}
    <2>1. c = w
      BY <1>7 DEF Jump!JumperAt
    <2> QED
      BY <1>0, <2>1 DEF KeepsBooks
  <1> QED
    BY <1>1, <1>2, <1>3, <1>4, <1>5, <1>6, <1>7

Servers == [team : [Players -> {"away", "spec", "play"}], taping : Tapes, map : Maps]

Rows == {x.key : x \in writing}

JumpInv ==
    /\ server \in Servers
    /\ Sound(Jump!World({}), {}, cut \cup Rows, server.team)
    /\ unread \in Seq(Line) /\ Len(unread) <= MaxBehind
    /\ \A i \in 1..Len(unread) : Written(unread[i], server.team)
    /\ orders \in 0..MaxOrders /\ cut \subseteq Keys

LEMMA WorldIsThat ==
  ASSUME NEW fate
  PROVE  LET w == Jump!World(fate) IN
         /\ w.taping = server.taping /\ w.disk = disk /\ w.d = demos /\ w.j = jumper
         /\ w.r = bests /\ w.writing = writing /\ w.lost = lost /\ w.stray = stray
         /\ w.fate = fate /\ Pending(w) = Rows
  BY DEF Jump!World, Pending, Rows

\* Whatever is to fail, the world is sound before it does.
LEMMA TheWorldIsSound ==
  ASSUME RunsAreTimed, JumpInv, NEW fate \in Fates \cup {{}}
  PROVE  Sound(Jump!World(fate), {}, cut \cup Rows, server.team)
  <1> DEFINE v == Jump!World({})
             w == Jump!World(fate)
  <1>1. Sound(v, {}, cut \cup Rows, server.team) /\ v \in Worlds
    BY DEF JumpInv, Sound
  <1>2. /\ w.taping = v.taping /\ w.disk = v.disk /\ w.d = v.d /\ w.j = v.j /\ w.r = v.r
        /\ w.writing = v.writing /\ w.lost = v.lost /\ w.stray = v.stray /\ w.fate = fate
    BY WorldIsThat
  <1>3. w = [taping |-> w.taping, disk |-> w.disk, d |-> w.d, j |-> w.j, r |-> w.r,
             writing |-> w.writing, lost |-> w.lost, stray |-> w.stray, fate |-> w.fate]
    BY DEF Jump!World
  <1> HIDE DEF v, w
  <1>4. w \in Worlds /\ KeepsBooks(v, w)
    BY <1>1, <1>2, <1>3 DEF Worlds, KeepsBooks
  <1>5. Sound(w, {}, cut \cup Rows, server.team)
    BY <1>1, <1>2, <1>4, BesideIsSound
  <1> QED
    BY <1>5 DEF w

\* What a handler makes of the world is the world, and the teams are the server's own.
LEMMA BecomeIsSound ==
  ASSUME RunsAreTimed, NEW w, NEW G, server \in Servers, Sound(w, {}, G, server.team), Jump!Become(w)
  PROVE  /\ server' \in Servers /\ server'.team = server.team /\ bests' = w.r /\ writing' = w.writing
         /\ Sound(Jump!World({})', {}, G, server'.team)
  <1>1. w \in Worlds
    BY DEF Sound
  <1>2. server' \in Servers /\ server'.team = server.team /\ server'.taping = w.taping
    BY <1>1 DEF Jump!Become, Servers, Worlds
  <1> DEFINE v == [taping |-> w.taping, disk |-> w.disk, d |-> w.d, j |-> w.j, r |-> w.r,
                   writing |-> w.writing, lost |-> w.lost,
                   stray |-> {p \in w.stray : w.taping[p] # Jump!None}, fate |-> {}]
  <1>3. Jump!World({})' = v
    BY <1>2 DEF Jump!World, Jump!Become
  <1>4. v \in Worlds
    BY <1>1 DEF Worlds
  <1>5. /\ v.j.runs = w.j.runs /\ v.disk = w.disk /\ v.lost = w.lost /\ v.taping = w.taping
        /\ v.d = w.d /\ KeepsBooks(w, v)
        /\ \A p \in Players : p \in v.stray <=> p \in w.stray /\ w.taping[p] # Jump!None
    BY DEF KeepsBooks
  <1> HIDE DEF v
  <1>6. \A p \in Players : v.taping[p] \in Files =>
           \/ p \in v.stray
           \/ v.taping[p] = w.taping[p] /\ p \notin w.stray /\ (w.d.on => v.d.on)
    BY <1>5 DEF RunsAreTimed
  <1>7. \A p \in Players : server.team[p] = "away" => v.taping[p] = Jump!None
    BY <1>5 DEF Sound, Taped
  <1>8. Sound(v, {}, G, server.team)
    BY <1>4, <1>5, <1>6, <1>7, RetapedIsSound
  <1> QED
    BY <1>2, <1>3, <1>8 DEF Jump!Become

LEMMA WrittenStays ==
  ASSUME JumpInv, NEW l \in Line, unread' = Append(unread, l), Len(unread) < MaxBehind,
         MaxBehind \in Nat, NEW after, Written(l, after),
         \A p \in Players : server.team[p] = "away" => after[p] = "away"
  PROVE  /\ unread' \in Seq(Line) /\ Len(unread') <= MaxBehind
         /\ \A i \in 1..Len(unread') : Written(unread'[i], after)
  <1>1. unread \in Seq(Line) /\ Len(unread) \in Nat
    BY DEF JumpInv
  <1>2. unread' \in Seq(Line) /\ Len(unread') = Len(unread) + 1
    BY <1>1
  <1>3. ASSUME NEW i \in 1..Len(unread') PROVE Written(unread'[i], after)
    <2>1. CASE i = Len(unread) + 1
      BY <1>1, <2>1
    <2>2. CASE i # Len(unread) + 1
      <3>1. i \in 1..Len(unread) /\ unread'[i] = unread[i]
        BY <1>1, <1>2, <2>2
      <3>2. Written(unread[i], server.team)
        BY <3>1 DEF JumpInv
      <3> QED
        BY <3>1, <3>2 DEF Written
    <2> QED
      BY <2>1, <2>2
  <1> QED
    BY <1>1, <1>2, <1>3

Bounded == MaxBehind \in Nat /\ MaxOrders \in Nat

LEMMA ALineIs ==
  ASSUME NEW word \in Words, NEW x \in Players \cup Maps, NEW t \in Times \cup {0}
  PROVE  /\ <<word, x, t>> \in Line
         /\ <<word, x, t>>[1] = word /\ <<word, x, t>>[2] = x /\ <<word, x, t>>[3] = t
  BY DEF Line

\* A move of the server: teams, lines and what it tapes.
LEMMA ServerStepKeeps ==
  ASSUME RunsAreTimed, Bounded, JumpInv, Jump!ServerStep
  PROVE  JumpInv' /\ bests' = bests /\ writing' = writing
  <1> DEFINE world == Jump!World({})
  <1>0. /\ UNCHANGED <<disk, orders, demos, jumper, bests, writing, lost, cut>>
        /\ stray' = {p \in stray : server'.taping[p] # Jump!None}
    BY DEF Jump!ServerStep
  <1>1. server \in Servers /\ Sound(world, {}, cut \cup Rows, server.team) /\ world \in Worlds
    BY DEF JumpInv, Sound
  <1>a. server.taping = world.taping /\ server.taping \in Tapes
        /\ \A p \in Players : server.team[p] = "away" => server.taping[p] = Jump!None
    BY <1>1, WorldIsThat DEF Sound, Taped, Servers
  <1>b. Rows' = Rows
    BY <1>0 DEF Rows
  <1>2. ASSUME server' \in Servers,
               \A p \in Players : server'.taping[p] \in Files => server'.taping[p] = server.taping[p],
               \A p \in Players : server'.team[p] = "away" => server'.taping[p] = Jump!None
        PROVE  Sound(Jump!World({})', {}, cut \cup Rows, server'.team)
    <2> DEFINE v == [taping |-> server'.taping, disk |-> disk, d |-> demos, j |-> jumper,
                     r |-> bests, writing |-> writing, lost |-> lost, stray |-> stray', fate |-> {}]
    <2>1. Jump!World({})' = v
      BY <1>0 DEF Jump!World
    <2>2. v \in Worlds
      BY <1>0, <1>1, <1>2 DEF Jump!World, Worlds, Servers
    <2>3. /\ v.taping = server'.taping /\ v.j = world.j /\ v.disk = world.disk /\ v.d = world.d
          /\ v.lost = world.lost /\ KeepsBooks(world, v) /\ world.stray = stray
          /\ v.stray = stray'
      BY DEF Jump!World, KeepsBooks
    <2> HIDE DEF v, world
    <2>4. \A p \in Players : v.taping[p] \in Files =>
             \/ p \in v.stray
             \/ v.taping[p] = world.taping[p] /\ p \notin world.stray /\ (world.d.on => v.d.on)
      BY <1>0, <1>2, <1>a, <2>3 DEF RunsAreTimed
    <2>5. Sound(v, {}, cut \cup Rows, server'.team)
      BY <1>1, <1>2, <2>2, <2>3, <2>4, RetapedIsSound
    <2> QED
      BY <2>1, <2>5
  <1> HIDE DEF world
  <1>3. ASSUME server' \in Servers,
               \A p \in Players : server'.taping[p] \in Files => server'.taping[p] = server.taping[p],
               \A p \in Players : server'.team[p] = "away" => server'.taping[p] = Jump!None,
               unread' \in Seq(Line) /\ Len(unread') <= MaxBehind,
               \A i \in 1..Len(unread') : Written(unread'[i], server'.team)
        PROVE  JumpInv'
    BY <1>0, <1>2, <1>3, <1>b DEF JumpInv
  <1>4. ASSUME NEW p \in Players, NEW from, NEW to, NEW word, Jump!Team(p, from, to, word),
               <<from, to, word>> \in {<<"spec", "play", "join">>, <<"play", "spec", "spec">>}
        PROVE  JumpInv'
    <2> DEFINE l == <<word, p, 0>>
    <2>1. l \in Line /\ Written(l, server'.team)
      <3>1. word \in {"join", "spec"}
        BY <1>4
      <3>2. l \in Line /\ l[1] = word /\ l[2] = p
        BY <3>1, ALineIs DEF Words
      <3> HIDE DEF l
      <3> QED
        BY <3>1, <3>2 DEF Written
    <2>2. unread' = Append(unread, l) /\ Len(unread) < MaxBehind
      BY <1>4 DEF Jump!Team, Jump!Written
    <2>3. server' \in Servers /\ server'.taping = server.taping
          /\ server'.team = [server.team EXCEPT ![p] = to] /\ server.team[p] # "away" /\ to # "away"
      BY <1>1, <1>4 DEF Jump!Team, Servers
    <2> HIDE DEF l
    <2>4. \A q \in Players : server'.team[q] = "away" <=> server.team[q] = "away"
      BY <1>1, <2>3 DEF Servers
    <2>5. unread' \in Seq(Line) /\ Len(unread') <= MaxBehind
          /\ \A i \in 1..Len(unread') : Written(unread'[i], server'.team)
      BY <2>1, <2>2, <2>4, WrittenStays DEF Bounded
    <2> QED
      BY <1>3, <1>a, <2>3, <2>4, <2>5
  <1>5. ASSUME NEW p \in Players, Jump!Leaves(p) PROVE JumpInv'
    <2> DEFINE l == <<"gone", p, 0>>
    <2>3. server' \in Servers /\ server'.taping = [server.taping EXCEPT ![p] = Jump!None]
          /\ server'.team = [server.team EXCEPT ![p] = "away"]
      BY <1>1, <1>5 DEF Jump!Leaves, Servers, Tapes
    <2>4. \A q \in Players : /\ server'.team[q] = IF q = p THEN "away" ELSE server.team[q]
                             /\ server'.taping[q] = IF q = p THEN Jump!None ELSE server.taping[q]
      BY <1>1, <2>3 DEF Servers, Tapes
    <2>1. l \in Line /\ Written(l, server'.team)
      <3>1. l \in Line /\ l[1] = "gone" /\ l[2] = p
        BY ALineIs DEF Words
      <3> HIDE DEF l
      <3> QED
        BY <2>4, <3>1 DEF Written
    <2>2. unread' = Append(unread, l) /\ Len(unread) < MaxBehind
      BY <1>5 DEF Jump!Leaves, Jump!Written
    <2> HIDE DEF l
    <2>5. unread' \in Seq(Line) /\ Len(unread') <= MaxBehind
          /\ \A i \in 1..Len(unread') : Written(unread'[i], server'.team)
      BY <2>1, <2>2, <2>4, WrittenStays DEF Bounded
    <2> QED
      BY <1>3, <1>a, <2>3, <2>4, <2>5 DEF RunsAreTimed
  <1>6. ASSUME NEW p \in Players, Jump!Comes(p) PROVE JumpInv'
    <2>3. server' \in Servers /\ server'.taping = server.taping
          /\ server'.team = [server.team EXCEPT ![p] = "spec"]
      BY <1>1, <1>6 DEF Jump!Comes, Servers
    <2>4. \A q \in Players : server'.team[q] = "away" => server.team[q] = "away"
      BY <1>1, <2>3 DEF Servers
    <2>5. unread' = <<>> /\ Len(unread') = 0
      BY <1>6 DEF Jump!Comes
    <2> QED
      BY <1>3, <1>a, <2>3, <2>4, <2>5 DEF Bounded
  <1>7. ASSUME NEW p \in Players, Jump!Jumps(p) PROVE JumpInv'
    <2>1. PICK l \in Line : Written(l, server.team) /\ unread' = Append(unread, l)
                            /\ Len(unread) < MaxBehind
      <3>1. CASE \E word \in {"start", "cancel"} : Jump!Written(word, p, 0)
        <4>1. PICK word \in {"start", "cancel"} : Jump!Written(word, p, 0)
          BY <3>1
        <4> DEFINE l == <<word, p, 0>>
        <4>2. l \in Line /\ l[1] = word /\ l[2] = p
          BY ALineIs DEF Words
        <4>3. unread' = Append(unread, l) /\ Len(unread) < MaxBehind
          BY <4>1 DEF Jump!Written
        <4> HIDE DEF l
        <4>4. Written(l, server.team)
          BY <4>2 DEF Written
        <4> QED
          BY <4>2, <4>3, <4>4
      <3>2. CASE \E t \in Times \cup {0} : Jump!Written("stop", p, t)
        <4>1. PICK t \in Times \cup {0} : Jump!Written("stop", p, t)
          BY <3>2
        <4> DEFINE l == <<"stop", p, t>>
        <4>2. l \in Line /\ l[1] = "stop" /\ l[2] = p /\ l[3] = t
          BY ALineIs DEF Words
        <4>3. unread' = Append(unread, l) /\ Len(unread) < MaxBehind
          BY <4>1 DEF Jump!Written
        <4> HIDE DEF l
        <4>4. Written(l, server.team)
          BY <4>2 DEF Written
        <4> QED
          BY <4>2, <4>3, <4>4
      <3> QED
        BY <1>7, <3>1, <3>2 DEF Jump!Jumps
    <2>2. server' = server
      BY <1>7 DEF Jump!Jumps
    <2>5. unread' \in Seq(Line) /\ Len(unread') <= MaxBehind
          /\ \A i \in 1..Len(unread') : Written(unread'[i], server.team)
      BY <2>1, WrittenStays DEF Bounded
    <2> QED
      BY <1>1, <1>3, <1>a, <2>2, <2>5
  <1>8. ASSUME NEW m \in Maps, Jump!MapStarts(m) PROVE JumpInv'
    <2> DEFINE l == <<"map", m, 0>>
    <2>1. l \in Line /\ Written(l, server.team)
      <3>1. l \in Line /\ l[1] = "map" /\ l[2] = m
        BY ALineIs DEF Words
      <3> QED
        BY <3>1 DEF Written
    <2>2. unread' = Append(unread, l) /\ Len(unread) < MaxBehind
      BY <1>8 DEF Jump!MapStarts, Jump!Written
    <2>3. PICK kept \in {server.taping, [q \in Players |-> Jump!None]} :
             server' = [server EXCEPT !.map = m, !.taping = kept]
      BY <1>8 DEF Jump!MapStarts
    <2>4. kept \in Tapes
      BY <1>a, <2>3 DEF Tapes
    <2>5. server' \in Servers /\ server'.taping = kept /\ server'.team = server.team
      BY <1>1, <2>3, <2>4 DEF Servers
    <2> HIDE DEF l
    <2>6. unread' \in Seq(Line) /\ Len(unread') <= MaxBehind
          /\ \A i \in 1..Len(unread') : Written(unread'[i], server.team)
      BY <2>1, <2>2, WrittenStays DEF Bounded
    <2>7. \A q \in Players : /\ server'.taping[q] \in Files => server'.taping[q] = server.taping[q]
                             /\ server'.team[q] = "away" => server'.taping[q] = Jump!None
      BY <1>a, <2>3, <2>5 DEF RunsAreTimed
    <2> QED
      BY <1>3, <2>5, <2>6, <2>7
  <1> QED
    BY <1>0, <1>4, <1>5, <1>6, <1>7, <1>8 DEF Jump!ServerStep

LEMMA JumpStarts == ASSUME RunsAreTimed, Bounded, Jump!Init PROVE JumpInv
  <1> DEFINE w == Jump!World({})
  <1>1. PICK m \in Maps :
           /\ server = [team |-> [p \in Players |-> "spec"],
                        taping |-> [p \in Players |-> Jump!None], map |-> m]
           /\ jumper = [on |-> TRUE, runs |-> [p \in Players |-> Jump!NoRun], map |-> m, cycles |-> 0]
    BY DEF Jump!Init
  <1>2. server \in Servers
    BY <1>1 DEF Servers, Tapes
  <1>3. w.taping \in Tapes
    BY <1>1 DEF Jump!World, Tapes
  <1>4. w.d \in Demos
    BY DEF Jump!Init, Jump!World, Demos, Tapes
  <1>5. w.j \in Jumpers
    BY <1>1 DEF Jump!World, Jumpers, Runs, Jump!NoRun, RunsAreTimed
  <1>6. w.r \in [Keys -> Best]
    BY DEF Jump!Init, Jump!World, Keys, Best, Jump!NoRecord
  <1>7. w \in Worlds /\ w.disk = {} /\ w.lost = {} /\ w.writing = {}
    BY <1>3, <1>4, <1>5, <1>6 DEF Jump!World, Worlds, Jump!Init, Writings
  <1>8. /\ \A p \in Players : w.j.runs[p] = Jump!NoRun /\ w.taping[p] = Jump!None
        /\ \A k \in Keys : w.r[k] = Jump!NoRecord
    BY <1>1 DEF Jump!Init, Jump!World, Keys
  <1>9. Jump!NoRun.demo = Jump!None /\ Jump!NoRecord.demo = Jump!None /\ Jump!None \notin Files
    BY DEF Jump!NoRun, Jump!NoRecord, RunsAreTimed
  <1> HIDE DEF w
  <1>10. Sound(w, {}, cut \cup Rows, server.team)
    BY <1>7, <1>8, <1>9
       DEF Sound, RunsOwn, RecordsOwn, WritingOwns, AllOwned, Told, Taped
  <1>11. unread = <<>> /\ orders = 0 /\ cut = {}
    BY DEF Jump!Init
  <1> QED
    BY <1>2, <1>10, <1>11 DEF JumpInv, Bounded, w

\* A step in which a handler makes something of the world, and lines are read or lost.
LEMMA HandlerKeeps ==
  ASSUME RunsAreTimed, JumpInv, NEW w, Jump!Become(w), cut' \subseteq Keys,
         Sound(w, {}, cut' \cup Pending(w), server.team),
         unread' \in Seq(Line), Len(unread') <= MaxBehind,
         \A i \in 1..Len(unread') : Written(unread'[i], server.team), orders' \in 0..MaxOrders
  PROVE  JumpInv' /\ bests' = w.r /\ writing' = w.writing
  <1>1. /\ server' \in Servers /\ server'.team = server.team /\ bests' = w.r
        /\ writing' = w.writing
        /\ Sound(Jump!World({})', {}, cut' \cup Pending(w), server'.team)
    BY BecomeIsSound DEF JumpInv
  <1>2. Rows' = Pending(w)
    BY <1>1 DEF Rows, Pending
  <1> QED
    BY <1>1, <1>2 DEF JumpInv

\* What a step does to the records: nothing, and a row that is to be written is of a run; or
\* the row that was to be written is, which is better than the record of before.
Untouched == bests' = bests /\ \A x \in writing' : x \in writing \/ x.to.time \in Times
Improved ==
    /\ writing' = {}
    /\ \A k \in Keys :
          \/ bests'[k] = bests[k]
          \/ bests'[k] = Jump!NoRecord /\ [key |-> k, to |-> Jump!NoRecord] \in writing
          \/ /\ bests'[k].time \in Times
             /\ bests[k] = Jump!NoRecord \/ bests'[k].time \in 1..(bests[k].time - 1)
AtAWord == bests' = bests /\ orders' # orders

LEMMA ReadKeeps ==
  ASSUME RunsAreTimed, Bounded, JumpInv, NEW fate \in Fates, Jump!Read(fate)
  PROVE  JumpInv' /\ Untouched
  <1> DEFINE l == Head(unread)
             world == Jump!World(fate)
             told == CASE l[1] \in {"join", "spec"} -> Jump!DemosOnJoin(world, l[2])
                       [] l[1] = "gone" -> Jump!DemosOnDisconnect(world, l[2])
                       [] l[1] = "map" -> [world EXCEPT !.j.map = l[2]]
                       [] OTHER -> world
             c == Jump!JumperAt(told, l[1], l[2], l[3])
  <1>1. /\ unread # <<>> /\ unread' = Tail(unread) /\ Jump!Become(c) /\ writing = {}
        /\ l[1] = "start" => Jump!HasRoom(told)
        /\ orders' = orders /\ cut' = cut
    <2>1. /\ unread # <<>> /\ unread' = Tail(unread) /\ Jump!Become(c) /\ writing = {}
          /\ l[1] = "start" => Jump!HasRoom(world)
          /\ orders' = orders /\ cut' = cut
      BY DEF Jump!Read
    <2>2. l[1] = "start" => told = world
      OBVIOUS
    <2> QED
      BY <2>1, <2>2
  <1>2. unread \in Seq(Line) /\ l \in Line /\ l = unread[1] /\ Len(unread) \in Nat \ {0}
    BY <1>1 DEF JumpInv
  <1>3. Written(l, server.team)
    BY <1>2 DEF JumpInv
  <1>4. Sound(world, {}, cut, server.team) /\ world.writing = {} /\ world.r = bests
    <2>1. Sound(world, {}, cut \cup Rows, server.team)
      BY TheWorldIsSound
    <2>2. cut \cup Rows = cut
      BY <1>1 DEF Rows
    <2> QED
      BY <1>1, <2>1, <2>2, WorldIsThat
  <1> HIDE DEF l, world
  <1>5. Sound(told, {}, cut, server.team) /\ KeepsBooks(world, told)
    <2>1. CASE l[1] \in {"join", "spec"}
      <3>1. told = Jump!DemosOnJoin(world, l[2]) /\ l[2] \in Players
        BY <1>3, <2>1 DEF Written
      <3> QED
        BY <1>4, <3>1, DemosOnJoinIsSound
    <2>2. CASE l[1] = "gone"
      <3>1. told = Jump!DemosOnDisconnect(world, l[2]) /\ l[2] \in Players
        BY <1>3, <2>2 DEF Written
      <3> QED
        BY <1>4, <3>1, DemosOnDisconnectIsSound
    <2>3. CASE l[1] = "map"
      <3>1. told = [world EXCEPT !.j.map = l[2]] /\ l[2] \in Maps
        BY <1>3, <2>3 DEF Written
      <3> HIDE DEF told
      <3>2. /\ told \in Worlds /\ told.taping = world.taping /\ told.disk = world.disk
            /\ told.d = world.d /\ told.j.runs = world.j.runs /\ told.r = world.r
            /\ told.lost = world.lost /\ told.stray = world.stray
            /\ told.writing = world.writing
        BY <1>4, <3>1 DEF Sound, Worlds, Jumpers
      <3>3. KeepsBooks(world, told)
        BY <3>2 DEF KeepsBooks
      <3> QED
        BY <1>4, <3>2, <3>3, BesideIsSound
    <2>4. CASE l[1] \notin {"join", "spec", "gone", "map"}
      <3>1. told = world
        BY <2>4
      <3> QED
        BY <1>4, <3>1 DEF KeepsBooks
    <2> QED
      BY <2>1, <2>2, <2>3, <2>4
  <1> HIDE DEF told
  <1>6. told.writing = {} /\ told.r = bests
    BY <1>4, <1>5 DEF KeepsBooks
  <1>7. Handled(told, c, cut)
    BY <1>1, <1>2, <1>3, <1>5, <1>6, JumperAtIsHandled
  <1> HIDE DEF c
  <1>8. /\ unread' \in Seq(Line) /\ Len(unread') = Len(unread) - 1
        /\ \A i \in 1..Len(unread') : unread'[i] = unread[i + 1]
    BY <1>1, <1>2
  <1>9. \A i \in 1..Len(unread') : Written(unread'[i], server.team)
    <2> TAKE i \in 1..Len(unread')
    <2>1. i + 1 \in 1..Len(unread)
      BY <1>2, <1>8
    <2> QED
      BY <1>8, <2>1 DEF JumpInv
  <1>10. Len(unread') <= MaxBehind
    BY <1>2, <1>8 DEF JumpInv, Bounded
  <1>11. /\ orders' \in 0..MaxOrders /\ cut' \subseteq Keys
         /\ Sound(c, {}, cut' \cup Pending(c), server.team)
    BY <1>1, <1>7 DEF JumpInv, Handled, Planned
  <1>12. JumpInv' /\ bests' = c.r /\ writing' = c.writing
    BY <1>1, <1>8, <1>9, <1>10, <1>11, HandlerKeeps
  <1> QED
    BY <1>6, <1>7, <1>12 DEF Handled, Untouched

\* A step that leaves the log, the orders and the keys that do not stand, and writes no row.
LEMMA QuietKeeps ==
  ASSUME RunsAreTimed, JumpInv, NEW w, NEW v, Jump!Become(v), UNCHANGED unread,
         orders' \in 0..MaxOrders, cut' = cut, writing = {},
         Sound(v, {}, cut, server.team), KeepsBooks(w, v), w.writing = writing, w.r = bests
  PROVE  JumpInv' /\ bests' = bests /\ writing' = {}
  <1>1. v.writing = {} /\ v.r = bests /\ Pending(v) = {}
    BY DEF KeepsBooks, Pending
  <1>2. Sound(v, {}, cut' \cup Pending(v), server.team)
    <2>1. cut' \cup Pending(v) = cut
      BY <1>1
    <2> QED
      BY <2>1
  <1> QED
    BY <1>1, <1>2, HandlerKeeps DEF JumpInv

LEMMA AdminKeeps ==
  ASSUME RunsAreTimed, Bounded, JumpInv, NEW fate \in Fates, Jump!Admin(fate)
  PROVE  JumpInv' /\ AtAWord
  <1> DEFINE world == Jump!World(fate)
  <1>1. orders < MaxOrders /\ orders' = orders + 1 /\ unread' = unread /\ cut' = cut /\ writing = {}
    BY DEF Jump!Admin
  <1>2. orders' \in 0..MaxOrders /\ orders' # orders
    BY <1>1 DEF JumpInv, Bounded
  <1>3. Sound(world, {}, cut, server.team) /\ world.r = bests /\ world.writing = {}
    <2>1. Sound(world, {}, cut \cup Rows, server.team)
      BY TheWorldIsSound
    <2>2. cut \cup Rows = cut
      BY <1>1 DEF Rows
    <2> QED
      BY <1>1, <2>1, <2>2, WorldIsThat
  <1> HIDE DEF world
  <1>4. ASSUME NEW v, Jump!Become(v), Sound(v, {}, cut, server.team), KeepsBooks(world, v)
        PROVE  JumpInv' /\ AtAWord
    <2>1. world.writing = writing /\ UNCHANGED unread
      BY <1>1, <1>3
    <2> QED
      BY <1>1, <1>2, <1>3, <1>4, <2>1, QuietKeeps DEF AtAWord
  <1>6. ASSUME NEW p \in Players, NEW timed \in BOOLEAN,
               Jump!Become(Jump!Record(world, p, Jump!Other, timed))
        PROVE  JumpInv' /\ AtAWord
    <2>1. PICK w : w = Jump!Record(world, p, Jump!Other, timed)
      OBVIOUS
    <2>2. Sound(w, {}, cut, server.team) /\ KeepsBooks(world, w)
      BY <1>3, <2>1, RecordIsSound
    <2> QED
      BY <1>4, <1>6, <2>1, <2>2
  <1>7. ASSUME NEW p \in Players, Jump!Become(Jump!Stop(world, p))
        PROVE  JumpInv' /\ AtAWord
    <2>1. PICK w : w = Jump!Stop(world, p)
      OBVIOUS
    <2>2. Sound(w, {}, cut, server.team) /\ KeepsBooks(world, w)
      BY <1>3, <2>1, StopIsSound
    <2> QED
      BY <1>4, <1>7, <2>1, <2>2
  <1>8. ASSUME Jump!Become(Jump!RecordAll(world)) \/ Jump!Become(Jump!StopAll(world))
        PROVE  JumpInv' /\ AtAWord
    <2>1. PICK w \in {Jump!RecordAll(world), Jump!StopAll(world)} : Jump!Become(w)
      BY <1>8
    <2>a. CASE w = Jump!RecordAll(world)
      <3>1. Sound(w, {}, cut, server.team) /\ KeepsBooks(world, w)
        BY <1>3, <2>a, RecordAllIsSound
      <3> QED
        BY <1>4, <2>1, <3>1
    <2>b. CASE w = Jump!StopAll(world)
      <3>1. Sound(w, {}, cut, server.team) /\ KeepsBooks(world, w)
        BY <1>3, <2>b, StopAllIsSound
      <3> QED
        BY <1>4, <2>1, <3>1
    <2> QED
      BY <2>1, <2>a, <2>b
  <1>9. ASSUME NEW p \in Players, NEW m \in Maps, Jump!Become(Jump!DelRecord(world, p, m))
        PROVE  JumpInv' /\ AtAWord
    <2>1. PICK w : w = Jump!DelRecord(world, p, m)
      OBVIOUS
    <2>2. Sound(w, {}, Planned(w, cut), server.team) /\ w.r = bests
      BY <1>3, <2>1, DelRecordIsSound
    <2>3. /\ Sound(w, {}, cut' \cup Pending(w), server.team) /\ cut' \subseteq Keys
          /\ unread' \in Seq(Line) /\ Len(unread') <= MaxBehind
          /\ \A i \in 1..Len(unread') : Written(unread'[i], server.team)
      BY <1>1, <2>2 DEF Planned, JumpInv
    <2>4. JumpInv' /\ bests' = w.r
      BY <1>2, <1>9, <2>1, <2>3, HandlerKeeps
    <2> QED
      BY <1>2, <2>2, <2>4 DEF AtAWord
  <1>10. ASSUME Jump!Become(Jump!SwitchDemos(world)) \/ Jump!Become(Jump!SwitchJumper(world))
         PROVE  JumpInv' /\ AtAWord
    <2>1. PICK w \in {Jump!SwitchDemos(world), Jump!SwitchJumper(world)} : Jump!Become(w)
      BY <1>10
    <2>2. Sound(w, {}, cut, server.team) /\ KeepsBooks(world, w)
      BY <1>3, <2>1, SwitchDemosIsSound, SwitchJumperIsSound
    <2> QED
      BY <1>4, <2>1, <2>2
  <1> QED
    BY <1>6, <1>7, <1>8, <1>9, <1>10 DEF Jump!Admin, world

LEMMA PendingKeeps ==
  ASSUME RunsAreTimed, Bounded, JumpInv, NEW p \in Players, NEW fate \in Fates,
         Jump!DemosRunPending(p, fate)
  PROVE  JumpInv' /\ Untouched
  <1> DEFINE world == Jump!World(fate)
             v == [world EXCEPT !.d.waiting = @ \ {p}]
  <1>1. UNCHANGED <<unread, orders, cut>> /\ writing = {}
    BY DEF Jump!DemosRunPending
  <1>2. PICK never \in BOOLEAN : ~never
    OBVIOUS
  <1>3. PICK w \in {Jump!Stop(world, p), v, Jump!Record(v, p, Jump!Other, never)} : Jump!Become(w)
    BY <1>2 DEF Jump!DemosRunPending
  <1>4. Sound(world, {}, cut, server.team) /\ world.r = bests /\ world.writing = writing
    <2>1. Sound(world, {}, cut \cup Rows, server.team)
      BY TheWorldIsSound
    <2>2. cut \cup Rows = cut
      BY <1>1 DEF Rows
    <2> QED
      BY <1>1, <2>1, <2>2, WorldIsThat
  <1> HIDE DEF world
  <1>5. Sound(v, {}, cut, server.team) /\ KeepsBooks(world, v)
    BY <1>4, UnwaitedIsSound
  <1> HIDE DEF v
  <1>6. LET a == Jump!Record(v, p, Jump!Other, never) IN
        Sound(a, {}, cut, server.team) /\ KeepsBooks(v, a)
    BY <1>5, RecordIsSound
  <1>7. LET a == Jump!Stop(world, p) IN Sound(a, {}, cut, server.team) /\ KeepsBooks(world, a)
    BY <1>4, StopIsSound
  <1>8. Sound(w, {}, cut, server.team) /\ KeepsBooks(world, w)
    BY <1>3, <1>5, <1>6, <1>7 DEF KeepsBooks
  <1>9. orders' \in 0..MaxOrders /\ cut' = cut
    BY <1>1 DEF JumpInv
  <1>10. JumpInv' /\ bests' = bests /\ writing' = {}
    BY <1>1, <1>3, <1>4, <1>8, <1>9, QuietKeeps
  <1> QED
    BY <1>10 DEF Untouched

\* The row is written: it is a record then, and one that stands.
LEMMA WriteKeeps ==
  ASSUME RunsAreTimed, Bounded, JumpInv, Jump!Write
  PROVE  JumpInv' /\ Improved
  <1> DEFINE world == Jump!World({})
  <1>1. PICK x \in writing :
           /\ Jump!Become([world EXCEPT !.r[x.key] = x.to, !.writing = {}])
           /\ cut' = cut \ {x.key} /\ UNCHANGED <<unread, orders>>
    BY DEF Jump!Write
  <1> DEFINE G == cut \cup Rows
             k == x.key
             to == x.to
             H == cut \ {k}
             w == [world EXCEPT !.r[x.key] = x.to, !.writing = {}]
  <1>2. Sound(world, {}, G, server.team) /\ world \in Worlds
    BY DEF JumpInv, Sound
  <1>3. /\ world.r = bests /\ world.writing = writing /\ world.j = jumper
    BY WorldIsThat
  <1>4. writing = {x} /\ k \in Keys /\ to \in Best /\ Rows = {k}
    <2>1. writing \in Writings
      BY <1>2, <1>3 DEF Worlds
    <2>2. PICK y \in [key : Keys, to : Best] : writing = {y}
      BY <1>1, <2>1 DEF Writings
    <2> QED
      BY <2>2 DEF Rows
  <1>5. /\ w.j = world.j /\ w.d = world.d /\ w.disk = world.disk /\ w.lost = world.lost
        /\ w.stray = world.stray /\ w.taping = world.taping /\ w.writing = {} /\ w \in Worlds
        /\ w.r = [world.r EXCEPT ![k] = to]
    BY <1>2, <1>4 DEF Worlds, Writings
  <1>6. \A l \in Keys : w.r[l] = IF l = k THEN to ELSE world.r[l]
    BY <1>2, <1>4, <1>5 DEF Worlds
  <1>7. to.demo \in Files => /\ to.demo \in world.disk /\ to.demo \notin world.lost
                             /\ \A p \in Players : world.j.runs[p].demo # to.demo
                             /\ \A l \in Keys : world.r[l].demo # to.demo
    BY <1>2, <1>3, <1>4 DEF Sound, WritingOwns
  <1>8. G = cut \cup {k} /\ \A l \in Keys : l # k => (l \in G <=> l \in H)
    BY <1>4
  <1>9. \/ to = Jump!NoRecord
        \/ to.time \in Times /\ (world.r[k] = Jump!NoRecord \/ to.time < world.r[k].time)
    BY <1>2, <1>3, <1>4 DEF Sound, Told
  <1>a. world.writing = {x} /\ x.to = to
    BY <1>3, <1>4
  <1> HIDE DEF world, w, G, H, k, to
  <1>10. RunsOwn(w, {})
    BY <1>2, <1>5 DEF Sound, RunsOwn
  <1>11. RecordsOwn(w, {}, H)
    BY <1>2, <1>5, <1>6, <1>7, <1>8 DEF Sound, RecordsOwn
  <1>12. WritingOwns(w, {}, H)
    BY <1>5 DEF WritingOwns
  <1>13. AllOwned(w, {}, H)
    <2> SUFFICES ASSUME NEW f \in w.disk, f \notin w.lost PROVE Owned(w, H, f)
      BY DEF AllOwned
    <2>1. Owned(world, G, f)
      BY <1>2, <1>5 DEF Sound, AllOwned
    <2>2. CASE \E p \in Players : world.j.runs[p].demo = f
      BY <1>5, <2>2 DEF Owned
    <2>3. CASE \E l \in Keys : l \notin G /\ world.r[l].demo = f
      <3>1. PICK l \in Keys : l \notin G /\ world.r[l].demo = f
        BY <2>3
      <3>2. l # k /\ l \notin H /\ w.r[l].demo = f
        BY <1>6, <1>8, <3>1
      <3> QED
        BY <3>2 DEF Owned
    <2>4. CASE to.demo = f
      <3>1. k \in Keys /\ k \notin H /\ w.r[k].demo = f
        BY <1>4, <1>6, <2>4 DEF H, k
      <3> QED
        BY <3>1 DEF Owned
    <2> QED
      BY <1>a, <2>1, <2>2, <2>3, <2>4 DEF Owned
  <1>14. Told(w)
    BY <1>2, <1>5, <1>6, <1>9 DEF Sound, Told
  <1>15. Taped(w, server.team)
    <2>1. ASSUME NEW p \in Players, world.taping[p] \in Files, p \notin world.stray
          PROVE  \/ world.taping[p] = world.j.runs[p].demo /\ world.d.on
                 \/ /\ world.taping[p] \in world.lost
                    /\ \A l \in Keys : world.r[l].demo # world.taping[p]
                    /\ to.demo # world.taping[p]
      BY <1>2, <1>a, <2>1 DEF Sound, Taped
    <2> QED
      BY <1>2, <1>5, <1>6, <2>1 DEF Sound, Taped
  <1>16. Sound(w, {}, H, server.team)
    BY <1>2, <1>5, <1>10, <1>11, <1>12, <1>13, <1>14, <1>15 DEF Sound
  <1>17. /\ Sound(w, {}, cut' \cup Pending(w), server.team) /\ cut' \subseteq Keys
         /\ unread' \in Seq(Line) /\ Len(unread') <= MaxBehind /\ orders' \in 0..MaxOrders
         /\ \A i \in 1..Len(unread') : Written(unread'[i], server.team)
    <2>1. cut' \cup Pending(w) = H
      BY <1>1, <1>5 DEF Pending, H, k
    <2> QED
      BY <1>1, <1>16, <2>1 DEF JumpInv
  <1>18. Jump!Become(w)
    BY <1>1 DEF w, world
  <1>19. JumpInv' /\ bests' = w.r /\ writing' = {}
    BY <1>5, <1>17, <1>18, HandlerKeeps
  <1>20. Improved
    <2> SUFFICES ASSUME NEW l \in Keys
                 PROVE  \/ bests'[l] = bests[l]
                        \/ /\ bests'[l] = Jump!NoRecord
                           /\ [key |-> l, to |-> Jump!NoRecord] \in writing
                        \/ /\ bests'[l].time \in Times
                           /\ \/ bests[l] = Jump!NoRecord
                              \/ bests'[l].time \in 1..(bests[l].time - 1)
      BY <1>19 DEF Improved
    <2>1. CASE l # k
      BY <1>3, <1>6, <1>19, <2>1
    <2>2. CASE l = k
      <3>1. bests'[l] = to
        BY <1>6, <1>19, <2>2
      <3>2. CASE to = Jump!NoRecord
        <4>1. [key |-> l, to |-> Jump!NoRecord] = x
          <5>1. x \in [key : Keys, to : Best]
            BY <1>2, <1>a DEF Worlds, Writings
          <5> QED
            BY <2>2, <3>2, <5>1 DEF k, to
        <4> QED
          BY <3>1, <3>2, <4>1
      <3>3. CASE to # Jump!NoRecord
        <4>1. /\ to.time \in Times
              /\ bests[l] = Jump!NoRecord \/ to.time < bests[l].time
          BY <1>3, <1>9, <2>2, <3>3
        <4>2. bests[l] = Jump!NoRecord \/ bests[l].time \in Times
          BY <1>2, <1>3 DEF Sound, Told
        <4>3. to.time \in Nat \ {0} /\ (bests[l].time \in Times => bests[l].time \in Nat)
          BY <4>1 DEF RunsAreTimed
        <4>4. bests[l] = Jump!NoRecord \/ to.time \in 1..(bests[l].time - 1)
          BY <4>1, <4>2, <4>3
        <4> QED
          BY <3>1, <4>1, <4>4
      <3> QED
        BY <3>2, <3>3
    <2> QED
      BY <2>1, <2>2
  <1> QED
    BY <1>19, <1>20

\* The row is not written: its demo is nobody's, and the record of before does not stand.
LEMMA UnwrittenIsSound ==
  ASSUME RunsAreTimed, JumpInv, NEW w, Sound(w, {}, cut \cup Rows, server.team), w.writing = writing
  PROVE  LET u == Jump!Unwritten(w) IN
         /\ Sound(u, {}, cut \cup Rows, server.team) /\ u.r = w.r /\ u.writing = {} /\ u.j = w.j
         /\ Jump!RowsCut = cut \cup Rows /\ cut \cup Rows \subseteq Keys
  <1> DEFINE u == Jump!Unwritten(w)
             G == cut \cup Rows
             N == {x.to.demo : x \in writing} \cap Files
  <1>1. w \in Worlds
    BY DEF Sound
  <1>2. u = [w EXCEPT !.writing = {}, !.lost = @ \cup N]
    BY DEF Jump!Unwritten
  <1>3. \A f \in N : \E x \in w.writing : x.to.demo = f /\ f \in Files
    OBVIOUS
  <1>4. \A x \in w.writing : x.to.demo \in Files => x.to.demo \in N
    OBVIOUS
  <1>5. G \subseteq Keys
    <2>1. \A x \in writing : x.key \in Keys
      BY <1>1 DEF Worlds, Writings
    <2> QED
      BY <2>1 DEF JumpInv, Rows
  <1>6. Jump!RowsCut = G
    BY DEF Jump!RowsCut, Rows
  <1> HIDE DEF u, G, N
  <1>a. Sound(w, {}, G, server.team)
    BY DEF G
  <1>b. N \subseteq Files
    BY <1>3
  <1>7. /\ u.j = w.j /\ u.r = w.r /\ u.d = w.d /\ u.disk = w.disk /\ u.taping = w.taping
        /\ u.stray = w.stray /\ u.writing = {} /\ u.lost = w.lost \cup N /\ u \in Worlds
    BY <1>1, <1>2, <1>b DEF Worlds, Writings
  <1>8. \A f \in N : /\ f \in w.disk
                     /\ \A p \in Players : w.j.runs[p].demo # f
                     /\ \A k \in Keys : w.r[k].demo # f
    BY <1>3, <1>a DEF Sound, WritingOwns
  <1>9. RunsOwn(u, {})
    BY <1>7, <1>8, <1>a DEF Sound, RunsOwn
  <1>10. RecordsOwn(u, {}, G)
    BY <1>7, <1>8, <1>a DEF Sound, RecordsOwn
  <1>11. WritingOwns(u, {}, G)
    BY <1>7 DEF WritingOwns
  <1>12. AllOwned(u, {}, G)
    <2> SUFFICES ASSUME NEW f \in u.disk, f \notin u.lost PROVE Owned(u, G, f)
      BY DEF AllOwned
    <2>1. f \in Files /\ f \notin N /\ Owned(w, G, f)
      BY <1>7, <1>a DEF Sound, AllOwned, Worlds
    <2> QED
      BY <1>4, <1>7, <2>1 DEF Owned
  <1>13. Told(u) /\ u.lost \subseteq u.disk
    BY <1>7, <1>8, <1>a DEF Sound, Told
  <1>14. Taped(u, server.team)
    BY <1>7, <1>a DEF Sound, Taped
  <1>15. Sound(u, {}, G, server.team)
    BY <1>7, <1>9, <1>10, <1>11, <1>12, <1>13, <1>14 DEF Sound
  <1> QED
    BY <1>5, <1>6, <1>7, <1>15 DEF u, G

LEMMA WriteFailsKeeps ==
  ASSUME RunsAreTimed, Bounded, JumpInv, Jump!WriteFails
  PROVE  JumpInv' /\ Untouched
  <1> DEFINE world == Jump!World({})
             u == Jump!Unwritten(world)
  <1>1. Jump!Become(u) /\ cut' = Jump!RowsCut /\ UNCHANGED <<unread, orders>>
    BY DEF Jump!WriteFails
  <1>2. Sound(world, {}, cut \cup Rows, server.team)
    BY DEF JumpInv
  <1>3. world.writing = writing /\ world.r = bests
    BY WorldIsThat
  <1> HIDE DEF world
  <1>4. /\ Sound(u, {}, cut \cup Rows, server.team) /\ u.r = world.r /\ u.writing = {}
        /\ Jump!RowsCut = cut \cup Rows /\ cut \cup Rows \subseteq Keys
    BY <1>2, <1>3, UnwrittenIsSound
  <1> HIDE DEF u
  <1>5. Pending(u) = {}
    BY <1>4 DEF Pending
  <1>6. /\ Sound(u, {}, cut' \cup Pending(u), server.team) /\ cut' \subseteq Keys
        /\ unread' \in Seq(Line) /\ Len(unread') <= MaxBehind /\ orders' \in 0..MaxOrders
        /\ \A i \in 1..Len(unread') : Written(unread'[i], server.team)
    <2>1. cut' \cup Pending(u) = cut \cup Rows
      BY <1>1, <1>4, <1>5
    <2> QED
      BY <1>1, <1>4, <2>1 DEF JumpInv
  <1>7. JumpInv' /\ bests' = u.r /\ writing' = {}
    BY <1>1, <1>4, <1>6, HandlerKeeps
  <1> QED
    BY <1>3, <1>4, <1>7 DEF Untouched

\* What was in memory is gone: the runs' demos are nobody's.
LEMMA RestartKeeps ==
  ASSUME RunsAreTimed, Bounded, JumpInv, NEW fate \in Fates, Jump!Restart(fate)
  PROVE  JumpInv' /\ Untouched
  <1> DEFINE world == Jump!World(fate)
             u == Jump!Unwritten(world)
             s == Jump!StopAll(u)
             d == [on |-> TRUE, recording |-> [p \in Players |-> Jump!None], timed |-> {},
                   waiting |-> {}, everyone |-> FALSE]
             j == [on |-> TRUE, runs |-> [p \in Players |-> Jump!NoRun], map |-> server.map,
                   cycles |-> 0]
             D == Jump!RunDemos
             w == [s EXCEPT !.lost = @ \cup D, !.d = d, !.j = j]
             G == cut \cup Rows
  <1>1. /\ orders < MaxOrders /\ orders' = orders + 1 /\ unread' = <<>>
        /\ Jump!Become(w) /\ cut' = Jump!RowsCut
    BY DEF Jump!Restart
  <1>2. Sound(world, {}, G, server.team) /\ server \in Servers
    BY TheWorldIsSound DEF JumpInv
  <1>3. world.r = bests /\ world.j = jumper /\ world.writing = writing
    BY WorldIsThat
  <1> HIDE DEF world
  <1>4. /\ Sound(u, {}, G, server.team) /\ u.r = world.r /\ u.writing = {} /\ u.j = world.j
        /\ Jump!RowsCut = G /\ G \subseteq Keys
    BY <1>2, <1>3, UnwrittenIsSound
  <1> HIDE DEF u, G
  <1>5. PICK b \in BOOLEAN : b
    OBVIOUS
  <1>6. Sound(s, {}, G, server.team) /\ KeepsBooks(u, s) /\ s.j = u.j /\ s.stray = Players
    BY <1>4, <1>5, StopAllIsSound
  <1>7. d \in Demos /\ d.on
    BY DEF Demos, Tapes
  <1>8. j \in Jumpers /\ \A p \in Players : j.runs[p] = Jump!NoRun
    BY <1>2 DEF Jumpers, Runs, Jump!NoRun, RunsAreTimed, Servers
  <1>9. D \subseteq Files /\ (\A f : f \in D <=> f \in Files /\ \E p \in Players : jumper.runs[p].demo = f)
    BY DEF Jump!RunDemos
  <1> HIDE DEF d, j, D, s
  <1>10. /\ w \in Worlds /\ w.taping = s.taping /\ w.d = d /\ w.j = j /\ w.r = s.r
         /\ w.disk = s.disk /\ w.lost = s.lost \cup D /\ w.stray = Players /\ w.writing = s.writing
    BY <1>6, <1>7, <1>8, <1>9 DEF Sound, Worlds
  <1>11. w.writing = {} /\ w.r = bests
    BY <1>3, <1>4, <1>6, <1>10 DEF KeepsBooks
  <1>12. Jump!NoRun.demo = Jump!None /\ Jump!None \notin Files
    BY DEF Jump!NoRun, RunsAreTimed
  <1>13. s.j = jumper
    BY <1>3, <1>4, <1>6
  <1> HIDE DEF w
  <1>14. Told(w)
    BY <1>6, <1>8, <1>10, <1>11 DEF Sound, Told
  <1>15. Taped(w, server.team)
    BY <1>6, <1>10 DEF Sound, Taped
  <1>16. w.lost \subseteq w.disk
    BY <1>6, <1>9, <1>10, <1>13 DEF Sound, RunsOwn
  <1>17. RunsOwn(w, {})
    BY <1>8, <1>10, <1>12 DEF RunsOwn
  <1>18. RecordsOwn(w, {}, G)
    <2>1. \A k \in Keys : w.r[k].demo \in Files => w.r[k].demo \notin D
      BY <1>6, <1>9, <1>10, <1>13 DEF Sound, RecordsOwn
    <2>2. \A k \in Keys : k \notin G /\ w.r[k].demo \in Files =>
             w.r[k].demo \in w.disk /\ w.r[k].demo \notin w.lost
      BY <1>6, <1>10, <2>1 DEF Sound, RecordsOwn
    <2>3. \A k, l \in Keys : w.r[k].demo \in Files /\ w.r[k].demo = w.r[l].demo => k = l
      BY <1>6, <1>10 DEF Sound, RecordsOwn
    <2> QED
      BY <1>8, <1>10, <1>12, <2>2, <2>3 DEF RecordsOwn
  <1>19. WritingOwns(w, {}, G)
    BY <1>11 DEF WritingOwns
  <1>20. AllOwned(w, {}, G)
    <2> SUFFICES ASSUME NEW f \in w.disk, f \notin w.lost PROVE Owned(w, G, f)
      BY DEF AllOwned
    <2>1. f \in Files /\ Owned(s, G, f) /\ f \notin D /\ s.writing = {}
      BY <1>6, <1>10, <1>11 DEF Sound, AllOwned, Worlds
    <2> QED
      BY <1>9, <1>10, <1>13, <2>1 DEF Owned
  <1>21. Sound(w, {}, G, server.team)
    BY <1>10, <1>14, <1>15, <1>16, <1>17, <1>18, <1>19, <1>20 DEF Sound
  <1>22. unread' \in Seq(Line) /\ Len(unread') = 0 /\ Len(unread') <= MaxBehind
         /\ orders' \in 0..MaxOrders
    BY <1>1 DEF JumpInv, Bounded
  <1>23. Sound(w, {}, cut' \cup Pending(w), server.team) /\ cut' \subseteq Keys
    <2>1. cut' \cup Pending(w) = G
      BY <1>1, <1>4, <1>11 DEF Pending
    <2> QED
      BY <1>1, <1>4, <1>21, <2>1
  <1>24. JumpInv' /\ bests' = w.r /\ writing' = w.writing
    BY <1>1, <1>22, <1>23, HandlerKeeps
  <1> QED
    BY <1>11, <1>24 DEF Untouched

LEMMA JumpInvIsInductive ==
  ASSUME RunsAreTimed, Bounded, JumpInv, [Jump!Next]_Jump!jumperVars
  PROVE  JumpInv' /\ (Untouched \/ Improved \/ AtAWord)
  <1>1. bests' = bests /\ writing' = writing => Untouched
    BY DEF Untouched
  <1>2. CASE UNCHANGED Jump!jumperVars
    <2>1. UNCHANGED <<server, disk, unread, orders, demos, jumper, bests, writing, lost, stray, cut>>
      BY <1>2 DEF Jump!jumperVars
    <2>2. Jump!World({})' = Jump!World({}) /\ Rows' = Rows
      BY <2>1 DEF Jump!World, Rows
    <2> QED
      BY <1>1, <2>1, <2>2 DEF JumpInv
  <1>3. CASE Jump!Next
    BY <1>1, <1>3, ServerStepKeeps, ReadKeeps, WriteKeeps, WriteFailsKeeps, AdminKeeps, RestartKeeps,
       PendingKeeps DEF Jump!Next
  <1> QED
    BY <1>2, <1>3

LEMMA JumpInvSuffices ==
  ASSUME RunsAreTimed, JumpInv PROVE Jump!TypeOK /\ Jump!DemosAreKept
  <1> DEFINE w == Jump!World({})
             G == cut \cup Rows
             N == {x.to.demo : x \in writing} \cap Files
             S == {bests[k].demo : k \in Jump!Standing}
  <1>1. Sound(w, {}, G, server.team) /\ w \in Worlds /\ server \in Servers
    BY DEF JumpInv, Sound
  <1>2. /\ w.taping = server.taping /\ w.disk = disk /\ w.d = demos /\ w.j = jumper
        /\ w.r = bests /\ w.writing = writing /\ w.lost = lost /\ w.stray = stray
    BY WorldIsThat
  <1> HIDE DEF w
  <1>3. /\ disk \subseteq Files /\ lost \subseteq disk /\ demos \in Demos /\ jumper \in Jumpers
        /\ bests \in [Keys -> Best] /\ writing \in Writings /\ stray \subseteq Players
    BY <1>1, <1>2 DEF Sound, Worlds
  <1>4. DOMAIN bests = Keys /\ DOMAIN bests = Players \X Maps
    BY <1>3 DEF Keys
  <1>5. \A x \in writing : x.key \in DOMAIN bests /\ x.to.time \in Times \cup {0}
    BY <1>3, <1>4 DEF Writings, Best
  <1>a. bests \in [Players \X Maps -> [time : Times \cup {0}, demo : Files \cup {Jump!None}]]
    BY <1>3 DEF Keys, Best
  <1>b. cut \subseteq DOMAIN bests /\ Len(unread) <= MaxBehind /\ orders \in 0..MaxOrders
    BY <1>4 DEF JumpInv
  <1>c. jumper.on \in BOOLEAN /\ jumper.cycles \in 0..MaxCycles
        /\ jumper.runs \in [Players -> [map : Maps \cup {Jump!None}, demo : Files \cup {Jump!None}]]
    BY <1>3 DEF Jumpers, Runs
  <1>d. /\ demos.on \in BOOLEAN /\ demos.everyone \in BOOLEAN
        /\ demos.recording \in [Players -> Files \cup {Jump!None, Jump!Other}]
        /\ demos.timed \subseteq Players /\ demos.waiting \subseteq Players
    BY <1>3 DEF Demos, Tapes
  <1>6. Jump!TypeOK
    BY <1>1, <1>3, <1>5, <1>a, <1>b, <1>c, <1>d DEF Jump!TypeOK, Servers, Tapes
  <1>7. Jump!Standing = {k \in Keys : bests[k].demo \in Files /\ k \notin G}
    BY <1>4 DEF Jump!Standing, Jump!Kept, Rows
  <1>8. disk \ lost = Jump!RunDemos \cup N \cup S
    <2>1. \A f \in disk \ lost : f \in Jump!RunDemos \cup N \cup S
      <3> SUFFICES ASSUME NEW f \in disk, f \notin lost PROVE f \in Jump!RunDemos \cup N \cup S
        OBVIOUS
      <3>1. Owned(w, G, f) /\ f \in Files
        BY <1>1, <1>2, <1>3 DEF Sound, AllOwned
      <3> HIDE DEF G
      <3> QED
        BY <1>2, <1>7, <3>1 DEF Owned, Jump!RunDemos
    <2>2. \A f \in Jump!RunDemos : f \in disk \ lost
      BY <1>1, <1>2 DEF Sound, RunsOwn, Jump!RunDemos
    <2>3. \A f \in N : f \in disk \ lost
      BY <1>1, <1>2 DEF Sound, WritingOwns
    <2>4. \A f \in S : f \in disk \ lost
      BY <1>1, <1>2, <1>7 DEF Sound, RecordsOwn
    <2> HIDE DEF S, N
    <2> QED
      BY <2>1, <2>2, <2>3, <2>4
  <1>9. \A k, l \in Jump!Kept : bests[k].demo = bests[l].demo => k = l
    BY <1>1, <1>2, <1>4 DEF Sound, RecordsOwn, Jump!Kept
  <1>10. \A p \in Players : server.taping[p] \in Files =>
            \/ server.taping[p] = jumper.runs[p].demo \/ server.taping[p] \in lost \/ p \in stray
    BY <1>1, <1>2 DEF Sound, Taped
  <1> QED
    BY <1>6, <1>8, <1>9, <1>10 DEF Jump!DemosAreKept

\* Whatever players, admins, the server and the two plugins do, however late the log is read, and
\* whichever commands, answers, deletions and rows are lost: of the demos of runs that the bot
\* knows of, and could delete, those are on disk that a run, a record that stands or a row that is
\* to be written has, each has one owner, and none is recorded for a run that is over but where
\* the stop did not arrive (_cancel, on_run_start, on_run_stop, _finish, _store, on_disconnect of
\* plugins/jumper; record, stop, stop_all and on_disable of urtserversidedemo).
THEOREM TheDemosAreKept ==
  ASSUME RunsAreTimed, Bounded PROVE Jump!Spec => [](Jump!TypeOK /\ Jump!DemosAreKept)
  <1>1. Jump!Init => JumpInv
    BY JumpStarts
  <1>2. JumpInv /\ [Jump!Next]_Jump!jumperVars => JumpInv'
    BY JumpInvIsInductive
  <1>3. JumpInv => Jump!TypeOK /\ Jump!DemosAreKept
    BY JumpInvSuffices
  <1> QED
    BY <1>1, <1>2, <1>3, PTL DEF Jump!Spec

\* A record gives way to a better run of the same player on the same way, or to an admin's word,
\* which alone makes the bot take one back: neither a run that is worse, nor one that began on a
\* map that is over, nor one without a time takes it away (_finish, cmd_delrecord).
THEOREM RecordsOnlyImprove ==
  ASSUME RunsAreTimed, Bounded PROVE Jump!Spec => [][Jump!RecordsImprove]_Jump!jumperVars
  <1>1. Jump!Init => JumpInv
    BY JumpStarts
  <1>2. JumpInv /\ [Jump!Next]_Jump!jumperVars => JumpInv' /\ [Jump!RecordsImprove]_Jump!jumperVars
    <2> SUFFICES ASSUME JumpInv, [Jump!Next]_Jump!jumperVars
                 PROVE  JumpInv' /\ Jump!RecordsImprove
      OBVIOUS
    <2>1. JumpInv' /\ (Untouched \/ Improved \/ AtAWord)
      BY JumpInvIsInductive
    <2>2. DOMAIN bests = Keys
      BY WorldIsThat DEF JumpInv, Sound, Worlds
    <2>3. \A k \in Keys : [key |-> k, to |-> Jump!NoRecord].to.time \notin Times
      BY DEF Jump!NoRecord, RunsAreTimed
    <2>4. CASE Untouched
      BY <2>1, <2>2, <2>3, <2>4 DEF Jump!RecordsImprove, Untouched
    <2>5. CASE Improved
      BY <2>1, <2>2, <2>5 DEF Jump!RecordsImprove, Improved
    <2>6. CASE AtAWord
      BY <2>1, <2>2, <2>6 DEF Jump!RecordsImprove, AtAWord
    <2> QED
      BY <2>1, <2>4, <2>5, <2>6
  <1> QED
    BY <1>1, <1>2, PTL DEF Jump!Spec

-----------------------------------------------------------------------------
(* The referee of Urban Terror.  Its duties share the clock and match mode, and each *)
(* has an invariant of its own.  Of every order of slaps that is not done with, what *)
(* was given and what is left are no more than was asked; while voting is off for a  *)
(* round that has begun, it comes back a delay after the round began; a player's     *)
(* changes of name are their own, but for the first that was seen; and the number    *)
(* of players that chose the rotation was beyond the margin, on the side it chose.   *)

RefereeIsTimed ==
    /\ MaxTime \in Nat /\ MaxOrders \in Nat /\ VoteDelay \in Nat
    /\ Repeats \subseteq Nat \ {0} /\ VoteValues \subseteq Nat /\ VoteDefault \in Nat
    /\ MaxChanges \in Nat /\ SmallMax \in Nat /\ MediumMax \in Nat /\ Margin \in Nat
    /\ SmallMax <= MediumMax /\ MaxPlayers \in Nat
    /\ Umpire!NoOne \notin Players /\ Umpire!NoName \notin Names
    /\ BotMaps \subseteq Maps /\ Umpire!NoName \notin Maps

Tallies == [(1..MaxOrders) \X Players -> Nat]

SlapsRight ==
    /\ slaps = [here |-> slaps.here, left |-> slaps.left, gone |-> slaps.gone,
                pending |-> slaps.pending, given |-> slaps.given, asked |-> slaps.asked]
    /\ slaps.here \in Players \cup {Umpire!NoOne}
    /\ slaps.left \subseteq slaps.gone
    /\ slaps.given \in Tallies /\ slaps.asked \in Tallies

\* What an order has done and what is left of it is what was asked for.
Owed(s, o) ==
    LET rest == s.pending[o] IN
    /\ rest \in [who : Players, remaining : Nat \ {0}, due : Int]
    /\ s.given[<<o, rest.who>>] + rest.remaining <= s.asked[<<o, rest.who>>]

SlapInv ==
    /\ SlapsRight /\ orders \in 0..MaxOrders
    /\ DOMAIN slaps.pending \subseteq 1..orders
    /\ \A o \in DOMAIN slaps.pending : Owed(slaps, o)
    /\ Umpire!SlappedAsAsked

Settings == VoteValues \cup {0, VoteDefault}

VotingInv ==
    /\ votes \in [cvar : Settings, was : Settings \cup {Umpire!None},
                  backAt : Nat \cup {Umpire!None},
                  started : Nat \cup {Umpire!None}, before : Settings \cup {Umpire!None}]
    /\ votes.backAt # Umpire!None =>
          votes.started # Umpire!None /\ votes.backAt = votes.started + VoteDelay
    /\ Umpire!VotingIsKept

NameInv ==
    /\ names \in [seen : Names \cup {Umpire!NoName}, changes : Nat, kicked : BOOLEAN, own : Nat]
    /\ names.changes <= names.own + 1
    /\ names.seen = Umpire!NoName => names.changes <= names.own
    /\ Umpire!KickedForOwnNames

RotationInv ==
    /\ rotation \in [players : Nat, band : 0..3, from : 0..3, chosenAt : Int]
    /\ rotation.band = 0 => rotation.from = 0
    /\ rotation.from = 1 /\ rotation.band = 2 => rotation.chosenAt > SmallMax + Margin
    /\ rotation.from = 3 /\ rotation.band = 2 => rotation.chosenAt < MediumMax - Margin
    /\ rotation.from # 0 /\ rotation.band = 3 => rotation.chosenAt > MediumMax + Margin
    /\ rotation.from # 0 /\ rotation.band = 1 => rotation.chosenAt < SmallMax - Margin

BotKind == [map : Maps \cup {Umpire!NoName}, told : BOOLEAN,
            count : {0, 1}, running : BOOLEAN]

BotInv ==
    /\ bots \in BotKind
    /\ bots.running <=> bots.count > 0
    /\ bots.map = Umpire!NoName => bots.told
    /\ match \in BOOLEAN
    /\ Umpire!BotsWhereSafe

RefereeInv ==
    /\ SlapInv /\ VotingInv /\ NameInv /\ RotationInv /\ BotInv
    /\ duty \in Duties /\ now \in 0..MaxTime

-----------------------------------------------------------------------------
(* Slaps.                                                                      *)

\* What leaves the tallies alone leaves what is owed, of whatever orders are still pending.
LEMMA FewerOwed ==
  ASSUME SlapInv, SlapsRight', orders' = orders,
         slaps'.given = slaps.given, slaps'.asked = slaps.asked,
         DOMAIN slaps'.pending \subseteq DOMAIN slaps.pending,
         \A o \in DOMAIN slaps'.pending : slaps'.pending[o] = slaps.pending[o]
  PROVE  SlapInv'
  <1>1. \A o \in DOMAIN slaps'.pending : Owed(slaps', o)
    BY DEF SlapInv, Owed
  <1>2. Umpire!SlappedAsAsked'
    BY DEF SlapInv, Umpire!SlappedAsAsked, Umpire!Orders
  <1> QED
    BY <1>1, <1>2 DEF SlapInv

LEMMA PunishKeeps ==
  ASSUME RefereeIsTimed, SlapInv, now \in Nat, NEW times \in Repeats, Umpire!Punish(times)
  PROVE  SlapInv'
  <1> DEFINE k == <<orders', slaps.here>>
             rest == [who |-> slaps.here, remaining |-> times - 1, due |-> now + 1]
             more == IF times = 1 THEN {} ELSE {orders'}
             remainder == [o \in DOMAIN slaps.pending \cup more |->
                            IF o = orders' THEN rest ELSE slaps.pending[o]]
  <1>1. /\ orders' = orders + 1 /\ orders' \in 1..MaxOrders /\ times \in Nat \ {0}
        /\ slaps.here \in Players /\ k \in (1..MaxOrders) \X Players
    BY DEF Umpire!Punish, Umpire!Order, SlapInv, SlapsRight, RefereeIsTimed
  <1>2. /\ slaps'.here = slaps.here /\ slaps'.left = slaps.left /\ slaps'.gone = slaps.gone
        /\ slaps'.pending = remainder
        /\ slaps'.given = [slaps.given EXCEPT ![k] = 1]
        /\ slaps'.asked = [slaps.asked EXCEPT ![k] = times]
        /\ slaps' = [here |-> slaps'.here, left |-> slaps'.left, gone |-> slaps'.gone,
                     pending |-> slaps'.pending, given |-> slaps'.given, asked |-> slaps'.asked]
    BY DEF Umpire!Punish, SlapInv, SlapsRight
  <1>3. SlapsRight'
    BY <1>1, <1>2 DEF SlapInv, SlapsRight, Tallies
  <1>4. DOMAIN slaps'.pending \subseteq 1..orders'
    BY <1>1, <1>2 DEF SlapInv
  <1>5. ASSUME NEW o \in DOMAIN slaps'.pending PROVE Owed(slaps', o)
    <2>1. CASE o = orders'
      <3>1. slaps'.pending[o] = rest /\ times # 1
        BY <1>1, <1>2, <2>1 DEF SlapInv
      <3>2. slaps'.given[<<o, rest.who>>] = 1 /\ slaps'.asked[<<o, rest.who>>] = times
        BY <1>1, <1>2, <2>1 DEF SlapInv, SlapsRight, Tallies
      <3> QED
        BY <1>1, <3>1, <3>2 DEF Owed
    <2>2. CASE o # orders'
      <3>1. o \in DOMAIN slaps.pending /\ slaps'.pending[o] = slaps.pending[o]
        BY <1>2, <2>2
      <3>2. Owed(slaps, o)
        BY <3>1 DEF SlapInv
      <3>3. \A p \in Players : /\ slaps'.given[<<o, p>>] = slaps.given[<<o, p>>]
                               /\ slaps'.asked[<<o, p>>] = slaps.asked[<<o, p>>]
        <4> TAKE p \in Players
        <4>1. o \in 1..orders /\ orders \in 0..MaxOrders /\ MaxOrders \in Nat
          BY <3>1 DEF SlapInv, RefereeIsTimed
        <4>2. o \in 1..MaxOrders
          BY ONLY <4>1
        <4>3. <<o, p>> \in (1..MaxOrders) \X Players /\ <<o, p>> # k
          BY ONLY <2>2, <4>2, p \in Players
        <4> HIDE DEF k
        <4> QED
          BY <1>2, <4>3 DEF SlapInv, SlapsRight, Tallies
      <3> QED
        BY <3>1, <3>2, <3>3 DEF Owed
    <2> QED
      BY <2>1, <2>2
  <1>6. Umpire!SlappedAsAsked'
    <2> HIDE DEF k
    <2> QED
      BY <1>1, <1>2 DEF SlapInv, SlapsRight, Tallies, Umpire!SlappedAsAsked, Umpire!Orders
  <1> QED
    BY <1>1, <1>3, <1>4, <1>5, <1>6 DEF SlapInv

LEMMA RunRepeatsKeeps ==
  ASSUME RefereeIsTimed, SlapInv, now \in Nat, Umpire!RunRepeats, orders' = orders
  PROVE  SlapInv'
  <1> DEFINE struck == Umpire!Struck
             again == Umpire!Again
             ripe == Umpire!Due
  <1>1. /\ ripe \subseteq DOMAIN slaps.pending
        /\ struck \subseteq ripe
        /\ \A o \in struck : slaps.pending[o].who = slaps.here
        /\ again \subseteq struck
        /\ \A o \in again : slaps.pending[o].remaining > 1
    BY DEF Umpire!Due, Umpire!Struck, Umpire!Again, Umpire!StillHere
  <1>2. /\ slaps'.here = slaps.here /\ slaps'.left = slaps.left /\ slaps'.gone = slaps.gone
        /\ slaps'.asked = slaps.asked
        /\ slaps'.given = [x \in (1..MaxOrders) \X Players |->
              slaps.given[x] + IF x[1] \in struck /\ x[2] = slaps.here THEN 1 ELSE 0]
        /\ slaps'.pending = [o \in (DOMAIN slaps.pending \ ripe) \cup again |->
              IF o \in again THEN [slaps.pending[o] EXCEPT !.remaining = @ - 1, !.due = now + 1]
              ELSE slaps.pending[o]]
        /\ slaps' = [here |-> slaps'.here, left |-> slaps'.left, gone |-> slaps'.gone,
                     pending |-> slaps'.pending, given |-> slaps'.given, asked |-> slaps'.asked]
    BY DEF Umpire!RunRepeats, Umpire!Orders, SlapInv, SlapsRight
  <1> HIDE DEF struck, again, ripe
  <1>3. SlapsRight'
    <2>1. \A x \in (1..MaxOrders) \X Players :
             slaps.given[x] + (IF x[1] \in struck /\ x[2] = slaps.here THEN 1 ELSE 0) \in Nat
      BY DEF SlapInv, SlapsRight, Tallies
    <2>2. slaps'.given \in Tallies
      BY <1>2, <2>1 DEF Tallies
    <2> QED
      BY <1>2, <2>2 DEF SlapInv, SlapsRight
  <1>4. /\ DOMAIN slaps'.pending \subseteq DOMAIN slaps.pending
        /\ DOMAIN slaps.pending \subseteq 1..MaxOrders
        /\ \A o \in DOMAIN slaps'.pending : o \in again \/ o \notin ripe
    <2>1. DOMAIN slaps'.pending = (DOMAIN slaps.pending \ ripe) \cup again
      BY <1>2
    <2>2. 1..orders \subseteq 1..MaxOrders
      BY DEF SlapInv, RefereeIsTimed
    <2> QED
      BY <1>1, <2>1, <2>2 DEF SlapInv
  \* An order that is pending is for one player; the others it has not slapped, now or before.
  <1>5. ASSUME NEW o \in 1..MaxOrders, NEW p \in Players
        PROVE  /\ slaps'.given[<<o, p>>] = slaps.given[<<o, p>>] +
                     IF o \in struck /\ p = slaps.here THEN 1 ELSE 0
               /\ slaps'.asked[<<o, p>>] = slaps.asked[<<o, p>>]
               /\ slaps.given[<<o, p>>] \in Nat /\ slaps.asked[<<o, p>>] \in Nat
    BY <1>2 DEF SlapInv, SlapsRight, Tallies
  <1>6. ASSUME NEW o \in DOMAIN slaps.pending
        PROVE  /\ slaps.pending[o] \in [who : Players, remaining : Nat \ {0}, due : Int]
               /\ slaps.given[<<o, slaps.pending[o].who>>] + slaps.pending[o].remaining
                     <= slaps.asked[<<o, slaps.pending[o].who>>]
    BY DEF SlapInv, Owed
  <1>7. ASSUME NEW o \in DOMAIN slaps'.pending PROVE Owed(slaps', o)
    <2>1. o \in DOMAIN slaps.pending /\ o \in 1..MaxOrders
      BY <1>4
    <2> DEFINE p == slaps.pending[o].who
               rest == slaps'.pending[o]
    <2>2. p \in Players /\ slaps.pending[o].remaining \in Nat \ {0}
      BY <1>6, <2>1
    <2>3. CASE o \in again
      <3>1. /\ rest = [slaps.pending[o] EXCEPT !.remaining = @ - 1, !.due = now + 1]
            /\ slaps.pending[o].remaining > 1 /\ p = slaps.here
            /\ o \in struck
        BY <1>1, <1>2, <2>3
      <3>2. /\ rest \in [who : Players, remaining : Nat \ {0}, due : Int]
            /\ rest.who = p /\ rest.remaining = slaps.pending[o].remaining - 1
        <4>1. slaps.pending[o] \in [who : Players, remaining : Nat \ {0}, due : Int]
          BY <1>6, <2>1
        <4>2. PICK entry : entry = slaps.pending[o]
          OBVIOUS
        <4>3. /\ entry \in [who : Players, remaining : Nat \ {0}, due : Int] /\ entry.remaining > 1
              /\ rest = [entry EXCEPT !.remaining = entry.remaining - 1, !.due = now + 1]
          BY <3>1, <4>1, <4>2
        <4> HIDE DEF rest
        <4>5. rest = [who |-> entry.who, remaining |-> entry.remaining - 1, due |-> now + 1]
          BY <4>3
        <4>4. /\ rest \in [who : Players, remaining : Nat \ {0}, due : Int]
              /\ rest.who = entry.who /\ rest.remaining = entry.remaining - 1
          BY <4>3, <4>5
        <4> QED
          BY <4>2, <4>4
      <3>3. slaps'.given[<<o, p>>] = slaps.given[<<o, p>>] + 1
            /\ slaps'.asked[<<o, p>>] = slaps.asked[<<o, p>>]
            /\ slaps.given[<<o, p>>] \in Nat /\ slaps.asked[<<o, p>>] \in Nat
        BY <1>5, <2>1, <2>2, <3>1
      <3>4. slaps.given[<<o, p>>] + slaps.pending[o].remaining <= slaps.asked[<<o, p>>]
        BY <1>6, <2>1
      <3>5. slaps'.given[<<o, p>>] + rest.remaining <= slaps'.asked[<<o, p>>]
        BY ONLY <2>2, <3>2, <3>3, <3>4
      <3> QED
        BY <3>2, <3>5 DEF Owed
    <2>4. CASE o \notin again
      <3>1. rest = slaps.pending[o] /\ o \notin struck
        BY <1>1, <1>2, <1>4, <2>1, <2>4
      <3>2. slaps'.given[<<o, p>>] = slaps.given[<<o, p>>]
            /\ slaps'.asked[<<o, p>>] = slaps.asked[<<o, p>>]
        BY <1>5, <2>1, <2>2, <3>1
      <3> QED
        BY <1>6, <2>1, <3>1, <3>2 DEF Owed
    <2> QED
      BY <2>3, <2>4
  <1>8. ASSUME NEW o \in 1..MaxOrders, NEW p \in Players
        PROVE  slaps'.given[<<o, p>>] <= slaps'.asked[<<o, p>>]
    <2>1. slaps.given[<<o, p>>] <= slaps.asked[<<o, p>>]
      BY DEF SlapInv, Umpire!SlappedAsAsked, Umpire!Orders
    <2>2. CASE o \in struck /\ p = slaps.here
      <3>1. o \in DOMAIN slaps.pending /\ slaps.pending[o].who = p
        BY <1>1, <2>2
      <3>2. /\ slaps.pending[o].remaining \in Nat \ {0}
            /\ slaps.given[<<o, p>>] + slaps.pending[o].remaining <= slaps.asked[<<o, p>>]
        BY <1>6, <3>1
      <3>3. slaps'.given[<<o, p>>] = slaps.given[<<o, p>>] + 1
            /\ slaps'.asked[<<o, p>>] = slaps.asked[<<o, p>>]
            /\ slaps.given[<<o, p>>] \in Nat /\ slaps.asked[<<o, p>>] \in Nat
        BY <1>5, <2>2
      <3> QED
        BY ONLY <3>2, <3>3
    <2>3. CASE ~ (o \in struck /\ p = slaps.here)
      <3>1. slaps'.given[<<o, p>>] = slaps.given[<<o, p>>]
            /\ slaps'.asked[<<o, p>>] = slaps.asked[<<o, p>>]
        BY <1>5, <2>3
      <3> QED
        BY <2>1, <3>1
    <2> QED
      BY <2>2, <2>3
  <1>9. Umpire!SlappedAsAsked'
    BY <1>8 DEF Umpire!SlappedAsAsked, Umpire!Orders
  <1> QED
    BY <1>3, <1>4, <1>7, <1>9 DEF SlapInv

LEMMA SlapStepKeeps ==
  ASSUME RefereeIsTimed, SlapInv, now \in Nat, Umpire!SlapStep
  PROVE  SlapInv'
  <1>1. ASSUME NEW n \in Repeats, Umpire!Punish(n) PROVE SlapInv'
    BY <1>1, PunishKeeps
  \* Who comes and goes is nothing to the tallies.
  <1>3. ASSUME NEW slot \in Players \cup {Umpire!NoOne}, NEW left, NEW gone, NEW S,
               left \subseteq gone, S \subseteq DOMAIN slaps.pending, orders' = orders,
               slaps' = [here |-> slot, left |-> left, gone |-> gone,
                         pending |-> [o \in S |-> slaps.pending[o]],
                         given |-> slaps.given, asked |-> slaps.asked]
        PROVE  SlapInv'
    <2>1. SlapsRight'
      BY <1>3 DEF SlapInv, SlapsRight
    <2>2. /\ slaps'.given = slaps.given /\ slaps'.asked = slaps.asked
          /\ DOMAIN slaps'.pending \subseteq DOMAIN slaps.pending
          /\ \A o \in DOMAIN slaps'.pending : slaps'.pending[o] = slaps.pending[o]
      BY <1>3
    <2> QED
      BY <1>3, <2>1, <2>2, FewerOwed
  <1>4. ASSUME NEW slot \in Players \cup {Umpire!NoOne}, NEW left, NEW gone,
               left \subseteq gone, orders' = orders,
               slaps' = [slaps EXCEPT !.here = slot, !.left = left, !.gone = gone]
        PROVE  SlapInv'
    <2>1. SlapsRight'
      BY <1>4 DEF SlapInv, SlapsRight
    <2>2. slaps'.given = slaps.given /\ slaps'.asked = slaps.asked
          /\ slaps'.pending = slaps.pending
      BY <1>4 DEF SlapInv, SlapsRight
    <2> QED
      BY <1>4, <2>1, <2>2, FewerOwed
  <1>5. ASSUME Umpire!Leaves, orders' = orders PROVE SlapInv'
    <2> DEFINE S == {o \in DOMAIN slaps.pending : slaps.pending[o].who # slaps.here}
    <2>1. slaps' = [here |-> Umpire!NoOne, left |-> slaps.left,
                    gone |-> slaps.gone \cup {slaps.here},
                    pending |-> [o \in S |-> slaps.pending[o]],
                    given |-> slaps.given, asked |-> slaps.asked]
      BY <1>5 DEF Umpire!Leaves, Umpire!Dropped, Umpire!Kept, SlapInv, SlapsRight
    <2>2. slaps.left \subseteq slaps.gone \cup {slaps.here} /\ S \subseteq DOMAIN slaps.pending
      BY DEF SlapInv, SlapsRight
    <2> HIDE DEF S
    <2> QED
      BY <1>3, <1>5, <2>1, <2>2
  <1>6. ASSUME NEW p \in Players \cup {Umpire!NoOne}, Umpire!Replaced(p), orders' = orders
        PROVE  SlapInv'
    <2>1. slaps' = [slaps EXCEPT !.here = p, !.left = slaps.left \cup {slaps.here},
                                 !.gone = slaps.gone \cup {slaps.here}]
      BY <1>6 DEF Umpire!Replaced, SlapInv, SlapsRight
    <2>2. slaps.left \cup {slaps.here} \subseteq slaps.gone \cup {slaps.here}
      BY DEF SlapInv, SlapsRight
    <2> QED
      BY <1>4, <1>6, <2>1, <2>2
  <1>7. ASSUME NEW p \in Players, Umpire!Joins(p), orders' = orders PROVE SlapInv'
    <2>1. slaps' = [slaps EXCEPT !.here = p, !.left = slaps.left, !.gone = slaps.gone]
      BY <1>7 DEF Umpire!Joins, SlapInv, SlapsRight
    <2> QED
      BY <1>4, <1>7, <2>1 DEF SlapInv, SlapsRight
  <1>8. ASSUME NEW p \in Players, Umpire!OnDisconnect(p), orders' = orders PROVE SlapInv'
    <2> DEFINE S == {o \in DOMAIN slaps.pending : slaps.pending[o].who # p}
    <2>1. slaps' = [here |-> slaps.here, left |-> slaps.left \ {p}, gone |-> slaps.gone,
                    pending |-> [o \in S |-> slaps.pending[o]],
                    given |-> slaps.given, asked |-> slaps.asked]
      BY <1>8 DEF Umpire!OnDisconnect, Umpire!Dropped, Umpire!Kept, SlapInv, SlapsRight
    <2>2. slaps.left \ {p} \subseteq slaps.gone /\ S \subseteq DOMAIN slaps.pending
      BY DEF SlapInv, SlapsRight
    <2> HIDE DEF S
    <2> QED
      BY <1>3, <1>8, <2>1, <2>2 DEF SlapInv, SlapsRight
  <1> QED
    BY <1>1, <1>5, <1>6, <1>7, <1>8, RunRepeatsKeeps DEF Umpire!SlapStep

-----------------------------------------------------------------------------
(* Voting, names, the rotation, AI players.                                     *)

LEMMA VoteStepKeeps ==
  ASSUME RefereeIsTimed, VotingInv, now \in Nat, orders \in Nat, Umpire!VoteStep
  PROVE  /\ VotingInv'
         /\ votes.cvar = 0 /\ votes'.cvar # 0 /\ orders' = orders
            /\ votes.started # Umpire!None => now - votes.started >= VoteDelay
  <1> USE DEF Umpire!None
  <1>1. Settings \subseteq Nat /\ 0 \in Settings /\ VoteDefault \in Settings /\ VoteDelay \in Nat
    BY DEF Settings, RefereeIsTimed
  <1>2. ASSUME NEW switch \in BOOLEAN, Umpire!PaVote(switch)
        PROVE  VotingInv' /\ orders' # orders
    <2>1. orders' # orders
      BY <1>2 DEF Umpire!PaVote, Umpire!Order
    <2>2. PICK v : v = Umpire!SetVoting(votes, switch)
      OBVIOUS
    <2>3. /\ v \in [cvar : Settings, was : Settings \cup {-1}, backAt : Nat \cup {-1},
                    started : Nat \cup {-1}, before : Settings \cup {-1}]
          /\ v.backAt = votes.backAt /\ v.started = votes.started
      BY <1>1, <2>2 DEF VotingInv, Umpire!SetVoting, Umpire!Noted
    <2>4. votes' = [v EXCEPT !.before = -1]
      BY <1>2, <2>2 DEF Umpire!PaVote
    <2> QED
      BY <2>1, <2>3, <2>4 DEF VotingInv, Umpire!VotingIsKept
  <1>3. ASSUME Umpire!RoundStart PROVE VotingInv' /\ (votes.cvar = 0 => votes'.cvar = 0)
    <2>1. PICK v : v = Umpire!StartVoteDelay
      OBVIOUS
    <2>2. votes' = [v EXCEPT !.started = IF match THEN v.started ELSE now]
      BY <1>3, <2>1 DEF Umpire!RoundStart
    <2>3. CASE match \/ (votes.backAt = -1 /\ votes.cvar = 0)
      <3>1. v = votes
        BY <2>1, <2>3 DEF Umpire!StartVoteDelay
      <3> QED
        BY <2>2, <2>3, <3>1 DEF VotingInv, Umpire!VotingIsKept
    <2>4. CASE ~match /\ votes.backAt # -1
      <3>1. v = [votes EXCEPT !.backAt = now + VoteDelay]
        BY <2>1, <2>4 DEF Umpire!StartVoteDelay
      <3>2. votes' = [cvar |-> votes.cvar, was |-> votes.was, backAt |-> now + VoteDelay,
                      started |-> now, before |-> votes.before]
        BY <2>2, <2>4, <3>1 DEF VotingInv
      <3>3. now + VoteDelay \in Nat
        BY <1>1
      <3> QED
        BY <1>1, <2>4, <3>2, <3>3 DEF VotingInv, Umpire!VotingIsKept
    <2>5. CASE ~match /\ votes.backAt = -1 /\ votes.cvar # 0
      <3>1. v = [votes EXCEPT !.was = votes.cvar, !.cvar = 0, !.backAt = now + VoteDelay,
                              !.before = votes.cvar]
        BY <2>1, <2>5 DEF Umpire!StartVoteDelay, Umpire!SetVoting, Umpire!Noted, VotingInv
      <3>2. votes' = [cvar |-> 0, was |-> votes.cvar, backAt |-> now + VoteDelay, started |-> now,
                      before |-> votes.cvar]
        BY <2>2, <2>5, <3>1 DEF VotingInv
      <3>3. now + VoteDelay \in Nat /\ votes.cvar \in Settings
        BY <1>1 DEF VotingInv
      <3> QED
        BY <1>1, <3>2, <3>3 DEF VotingInv, Umpire!VotingIsKept
    <2> QED
      BY <2>3, <2>4, <2>5
  <1>4. ASSUME Umpire!CheckVoteDelay
        PROVE  VotingInv' /\ (votes.started # -1 => now - votes.started >= VoteDelay)
    <2>1. votes.backAt # -1 /\ now >= votes.backAt
      BY <1>4 DEF Umpire!CheckVoteDelay
    <2>2. PICK c \in Settings : votes' = [votes EXCEPT !.cvar = c, !.backAt = -1, !.before = -1]
      BY <1>1, <1>4 DEF Umpire!CheckVoteDelay, Umpire!SetVoting, VotingInv
    <2>3. VotingInv'
      BY <2>2 DEF VotingInv, Umpire!VotingIsKept
    <2>4. votes.backAt = votes.started + VoteDelay /\ votes.started \in Nat
      BY <2>1 DEF VotingInv
    <2> QED
      BY <1>1, <2>1, <2>3, <2>4
  <1> QED
    BY <1>2, <1>3, <1>4 DEF Umpire!VoteStep

LEMMA NameStepKeeps ==
  ASSUME RefereeIsTimed, NameInv, Umpire!NameStep
  PROVE  NameInv'
  <1> DEFINE Kind == [seen : Names \cup {Umpire!NoName}, changes : Nat, kicked : BOOLEAN, own : Nat]
  <1>1. ASSUME NEW n \in Names, NEW chosen \in BOOLEAN, Umpire!OnNameChange(n, chosen),
               chosen \/ names.seen \in {Umpire!NoName, n}
        PROVE  NameInv'
    <2>1. PICK changes : changes = names.changes + IF names.seen # n THEN 1 ELSE 0
      OBVIOUS
    <2>2. names' = [seen |-> n, changes |-> changes,
                    kicked |-> names.kicked \/ changes > MaxChanges,
                    own |-> names.own + IF chosen THEN 1 ELSE 0]
      BY <1>1, <2>1 DEF Umpire!OnNameChange, Umpire!NewName
    <2>3. n # Umpire!NoName /\ names.changes \in Nat /\ names.own \in Nat /\ MaxChanges \in Nat
          /\ names.kicked \in BOOLEAN
      BY DEF NameInv, RefereeIsTimed
    <2>4. changes \in Nat /\ changes <= (names.own + IF chosen THEN 1 ELSE 0) + 1
      BY <1>1, <2>1, <2>3 DEF NameInv
    <2>5. names' \in Kind
      BY <2>2, <2>3, <2>4
    <2>6. names'.seen = n /\ names'.changes = changes
          /\ names'.kicked = (names.kicked \/ changes > MaxChanges)
          /\ names'.own = names.own + IF chosen THEN 1 ELSE 0
      BY <2>2
    <2>7. names'.kicked => names'.own + 1 > MaxChanges
      BY <2>3, <2>4, <2>6 DEF NameInv, Umpire!KickedForOwnNames
    <2> QED
      BY <2>3, <2>4, <2>5, <2>6, <2>7 DEF NameInv, Umpire!KickedForOwnNames
  <1>2. ASSUME NEW n \in Names, Umpire!Rename(n) PROVE NameInv'
    BY <1>1, <1>2 DEF Umpire!Rename
  <1>3. ASSUME Umpire!EngineRenames PROVE NameInv'
    <2>1. PICK n \in Names : names.seen \in {Umpire!NoName, n} /\ Umpire!OnNameChange(n, FALSE)
      BY <1>3 DEF Umpire!EngineRenames
    <2> QED
      BY <1>1, <2>1
  <1>4. ASSUME Umpire!ResetNameChanges PROVE NameInv'
    <2>1. names' = [seen |-> names.seen, changes |-> 0, kicked |-> FALSE, own |-> 0]
      BY <1>4 DEF Umpire!ResetNameChanges, NameInv
    <2> QED
      BY <2>1 DEF NameInv, Umpire!KickedForOwnNames
  <1>5. ASSUME Umpire!Reconnects PROVE NameInv'
    BY <1>5 DEF Umpire!Reconnects, Umpire!InitNames, NameInv, Umpire!KickedForOwnNames
  <1> QED
    BY <1>2, <1>3, <1>4, <1>5 DEF Umpire!NameStep

LEMMA RotationStepKeeps ==
  ASSUME RefereeIsTimed, RotationInv, Umpire!RotationStep
  PROVE  /\ RotationInv'
         /\ rotation'.band # rotation.band /\ rotation'.band = rotation.from =>
               LET d == rotation'.players - rotation.chosenAt IN d > Margin \/ -d > Margin
  <1>1. PICK n \in Nat : \/ rotation' = [rotation EXCEPT !.players = n]
                         \/ rotation' = Umpire!RotationCheck([rotation EXCEPT !.players = n])
    BY DEF Umpire!RotationStep, Umpire!Counted, RefereeIsTimed
  <1>2. PICK r : r = [rotation EXCEPT !.players = n]
    OBVIOUS
  <1>3. /\ r \in [players : Nat, band : 0..3, from : 0..3, chosenAt : Int] /\ r.players = n
        /\ r.band = rotation.band /\ r.from = rotation.from /\ r.chosenAt = rotation.chosenAt
    BY <1>2 DEF RotationInv
  <1>4. CASE rotation' = r
    BY <1>3, <1>4 DEF RotationInv
  <1>5. CASE rotation' = Umpire!RotationCheck(r) /\ rotation' # r
    <2>1. PICK band : band = Umpire!BandFor(n, r.band)
      OBVIOUS
    <2>2. /\ band # r.band
          /\ rotation' = [r EXCEPT !.band = band, !.from = r.band, !.chosenAt = n]
      BY <1>3, <1>5, <2>1 DEF Umpire!RotationCheck
    <2>3. /\ band \in 1..3
          /\ r.band # 0 =>
                \/ band = 3 /\ n > MediumMax + Margin
                \/ band = 1 /\ n < SmallMax - Margin
                \/ band = 2 /\ r.band = 3 /\ n < MediumMax - Margin
                \/ band = 2 /\ r.band = 1 /\ n > SmallMax + Margin
      BY <1>3, <2>1, <2>2 DEF Umpire!BandFor, Umpire!PlainBand
    <2>7. rotation' = [players |-> n, band |-> band, from |-> r.band, chosenAt |-> n]
      BY <1>3, <2>2
    <2>4. /\ rotation'.players = n /\ rotation'.band = band /\ rotation'.from = r.band
          /\ rotation'.chosenAt = n
          /\ rotation' \in [players : Nat, band : 0..3, from : 0..3, chosenAt : Int]
      BY <1>3, <2>3, <2>7
    <2>5. RotationInv'
      BY <1>3, <2>2, <2>3, <2>4 DEF RotationInv, RefereeIsTimed
    <2>6. band = r.from => LET d == n - r.chosenAt IN d > Margin \/ -d > Margin
      <3>1. /\ SmallMax \in Nat /\ MediumMax \in Nat /\ Margin \in Nat /\ SmallMax <= MediumMax
            /\ n \in Nat /\ r.chosenAt \in Int /\ r.band \in 0..3 /\ r.from \in 0..3
            /\ r.from = 1 /\ r.band = 2 => r.chosenAt > SmallMax + Margin
            /\ r.from = 3 /\ r.band = 2 => r.chosenAt < MediumMax - Margin
            /\ r.from # 0 /\ r.band = 3 => r.chosenAt > MediumMax + Margin
            /\ r.from # 0 /\ r.band = 1 => r.chosenAt < SmallMax - Margin
        BY <1>3 DEF RotationInv, RefereeIsTimed
      <3>2. ASSUME band = r.from
            PROVE  n - r.chosenAt > Margin \/ r.chosenAt - n > Margin
        <4>1. CASE r.band = 0
          BY <1>3, <2>3, <3>2, <4>1 DEF RotationInv
        <4>2. CASE r.band = 1
          BY ONLY <2>2, <2>3, <3>1, <3>2, <4>2
        <4>3. CASE r.band = 2
          BY ONLY <2>2, <2>3, <3>1, <3>2, <4>3
        <4>4. CASE r.band = 3
          BY ONLY <2>2, <2>3, <3>1, <3>2, <4>4
        <4> QED
          BY <3>1, <4>1, <4>2, <4>3, <4>4
      <3> QED
        BY <3>1, <3>2
    <2> QED
      BY <1>3, <2>4, <2>5, <2>6
  <1> QED
    BY <1>1, <1>2, <1>4, <1>5

LEMMA SetBotCountIs ==
  ASSUME NEW b \in BotKind,
         b.running <=> b.count > 0, NEW n \in {0, 1}
  PROVE  LET c == Umpire!SetBotCount(b, n) IN
         /\ c \in BotKind
         /\ c.running <=> c.count > 0
         /\ c.map = b.map /\ c.told = b.told /\ c.count = n
  <1> USE DEF BotKind
  <1>1. CASE n = 0 /\ ~b.running
    BY <1>1 DEF Umpire!SetBotCount
  <1>2. CASE ~ (n = 0 /\ ~b.running)
    <2>1. PICK c : c = Umpire!SetBotCount(b, n)
      OBVIOUS
    <2>2. c = [b EXCEPT !.count = n, !.running = n > 0]
      BY <1>2, <2>1 DEF Umpire!SetBotCount
    <2>3. PICK some \in BOOLEAN : some = (n > 0)
      <3>1. n = 0 => (n > 0) = FALSE
        BY SMT
      <3>2. n = 1 => (n > 0) = TRUE
        BY SMT
      <3> QED
        BY <3>1, <3>2, Zenon
    <2>4. c = [map |-> b.map, told |-> b.told, count |-> n, running |-> some]
      BY <2>2, <2>3
    <2>5. c.running <=> c.count > 0
      BY <2>3, <2>4
    <2> QED
      BY <2>1, <2>4, <2>5
  <1> QED
    BY <1>1, <1>2

\* What BotSupport makes of whatever it finds.
BotsInOrder(c, b, inMatch) ==
    /\ c \in BotKind
    /\ c.running <=> c.count > 0
    /\ c.map = b.map /\ c.told = b.told
    /\ c.count > 0 => c.map \in BotMaps /\ ~inMatch

LEMMA BotSupportIs ==
  ASSUME NEW b \in BotKind,
         b.running <=> b.count > 0, NEW inMatch
  PROVE  BotsInOrder(Umpire!BotSupport(b, inMatch), b, inMatch)
  <1>1. CASE ~inMatch /\ b.map \in BotMaps
    <2>1. Umpire!BotSupport(b, inMatch) = Umpire!SetBotCount(b, 1)
      BY <1>1 DEF Umpire!BotSupport
    <2> QED
      BY <1>1, <2>1, SetBotCountIs DEF BotsInOrder
  <1>2. CASE ~ (~inMatch /\ b.map \in BotMaps)
    <2>1. Umpire!BotSupport(b, inMatch) = Umpire!SetBotCount(b, 0)
      BY <1>2 DEF Umpire!BotSupport
    <2> QED
      BY <2>1, SetBotCountIs DEF BotsInOrder
  <1> QED
    BY <1>1, <1>2

LEMMA BotStepKeeps ==
  ASSUME RefereeIsTimed, BotInv, Umpire!BotStep
  PROVE  BotInv'
  <1> USE DEF BotKind
  <1>1. match' = match /\ match \in BOOLEAN /\ bots \in BotKind
    BY DEF Umpire!BotStep, BotInv
  <1>2. CASE Umpire!GameExit
    <2>1. bots' \in BotKind /\ bots'.count = 0 /\ (bots'.running <=> bots'.count > 0)
          /\ bots'.map = bots.map /\ bots'.told = bots.told
      BY <1>2, SetBotCountIs DEF Umpire!GameExit, BotInv
    <2> QED
      BY <1>1, <2>1 DEF BotInv, Umpire!BotsWhereSafe
  <1>3. ASSUME NEW m \in Maps, Umpire!MapStarts(m) PROVE BotInv'
    <2>1. bots' = [bots EXCEPT !.map = m, !.told = (m = bots.map \/ bots.map = Umpire!NoName)]
          /\ bots.told
      BY <1>3 DEF Umpire!MapStarts
    <2>2. /\ bots' \in BotKind /\ bots'.map = m /\ m # Umpire!NoName
          /\ bots'.told <=> (m = bots.map \/ bots.map = Umpire!NoName)
          /\ bots'.count = bots.count /\ bots'.running = bots.running
      BY <1>1, <2>1 DEF RefereeIsTimed
    <2>3. bots.count > 0 => bots.map \in BotMaps /\ ~match /\ bots.map # Umpire!NoName
      BY <2>1 DEF BotInv, Umpire!BotsWhereSafe, RefereeIsTimed
    <2> QED
      BY <1>1, <2>2, <2>3 DEF BotInv, Umpire!BotsWhereSafe
  <1>4. CASE Umpire!OnMapChange
    <2>1. PICK b : b = [bots EXCEPT !.told = TRUE]
      OBVIOUS
    <2>2. b \in BotKind /\ (b.running <=> b.count > 0) /\ b.told
      BY <1>1, <2>1 DEF BotInv
    <2>3. bots' = Umpire!BotSupport(b, match)
      BY <1>4, <2>1 DEF Umpire!OnMapChange
    <2>4. BotsInOrder(bots', b, match)
      BY <2>2, <2>3, BotSupportIs
    <2> QED
      BY <1>1, <2>2, <2>4 DEF BotsInOrder, BotInv, Umpire!BotsWhereSafe
  <1> QED
    BY <1>2, <1>3, <1>4 DEF Umpire!BotStep

LEMMA SetMatchModeKeeps ==
  ASSUME RefereeIsTimed, BotInv, Umpire!SetMatchMode
  PROVE  BotInv'
  <1>1. match' \in BOOLEAN /\ bots' = Umpire!BotSupport(bots, match')
    BY DEF Umpire!SetMatchMode, BotInv
  <1>2. BotsInOrder(bots', bots, match')
    BY <1>1, BotSupportIs DEF BotInv
  <1> QED
    BY <1>1, <1>2 DEF BotsInOrder, BotInv, Umpire!BotsWhereSafe

-----------------------------------------------------------------------------
(* The whole of it.                                                            *)

LEMMA RefereeStarts == ASSUME RefereeIsTimed, Umpire!Init PROVE RefereeInv
  <1>1. SlapInv
    BY DEF Umpire!Init, Umpire!InitSlaps, Umpire!NoSlaps, Umpire!Orders, SlapInv, SlapsRight,
           Tallies, Umpire!SlappedAsAsked, RefereeIsTimed
  <1>2. VotingInv
    <2>1. PICK v \in VoteValues : votes = Umpire!InitVotes(v)
      BY DEF Umpire!Init
    <2> QED
      BY <2>1 DEF Umpire!InitVotes, VotingInv, Settings, Umpire!VotingIsKept
  <1>3. NameInv
    BY DEF Umpire!Init, Umpire!InitNames, NameInv, Umpire!KickedForOwnNames
  <1>4. RotationInv
    BY DEF Umpire!Init, Umpire!InitRotation, RotationInv, Umpire!None
  <1>5. BotInv
    <2>1. PICK m \in Maps \cup {Umpire!NoName} : bots = Umpire!ApplyBotSettings(m)
      BY DEF Umpire!Init
    <2>2. PICK b : b = [map |-> m, told |-> TRUE, count |-> 0, running |-> FALSE]
      OBVIOUS
    <2>3. /\ b \in BotKind
          /\ (b.running <=> b.count > 0) /\ b.told
      BY <2>2 DEF BotKind
    <2>4. BotsInOrder(bots, b, FALSE)
      BY <2>1, <2>2, <2>3, BotSupportIs DEF Umpire!ApplyBotSettings
    <2>5. match = FALSE
      BY DEF Umpire!Init
    <2> QED
      BY <2>3, <2>4, <2>5 DEF BotsInOrder, BotInv, Umpire!BotsWhereSafe
  <1> QED
    BY <1>1, <1>2, <1>3, <1>4, <1>5 DEF RefereeInv, Umpire!Init, RefereeIsTimed

LEMMA RefereeRests ==
  ASSUME RefereeInv
  PROVE  /\ UNCHANGED <<slaps, orders>> => SlapInv'
         /\ slaps' = slaps /\ orders' = orders + 1 /\ orders < MaxOrders /\ MaxOrders \in Nat
               => SlapInv'
         /\ UNCHANGED votes => VotingInv'
         /\ UNCHANGED names => NameInv'
         /\ UNCHANGED rotation => RotationInv'
         /\ UNCHANGED <<bots, match>> => BotInv'
  BY DEF RefereeInv, SlapInv, SlapsRight, Owed, Umpire!SlappedAsAsked, VotingInv,
         Umpire!VotingIsKept,
         NameInv, Umpire!KickedForOwnNames, RotationInv, BotInv, Umpire!BotsWhereSafe

NotTooSoon == Umpire!NothingTooSoon

LEMMA RefereeKeeps ==
  ASSUME RefereeIsTimed, RefereeInv, [Umpire!Next]_Umpire!refVars
  PROVE  RefereeInv' /\ NotTooSoon
  <1>1. now \in Nat /\ MaxTime \in Nat /\ MaxOrders \in Nat /\ orders \in Nat
    BY DEF RefereeInv, RefereeIsTimed, SlapInv
  <1>2. ASSUME UNCHANGED <<votes, rotation>> PROVE NotTooSoon
    BY <1>2 DEF NotTooSoon, Umpire!NothingTooSoon
  <1>3. CASE UNCHANGED Umpire!refVars
    BY <1>2, <1>3, RefereeRests DEF Umpire!refVars, RefereeInv
  <1>4. CASE Umpire!Tick /\ UNCHANGED <<match, orders, slaps, votes, names, rotation, bots>>
             /\ UNCHANGED duty
    <2>1. now' \in 0..MaxTime
      BY <1>1, <1>4 DEF Umpire!Tick, RefereeInv
    <2> QED
      BY <1>2, <1>4, <2>1, RefereeRests DEF RefereeInv
  <1> DEFINE rest == UNCHANGED <<now, duty>>
  <1>5. CASE Umpire!SlapStep /\ rest
    <2>1. SlapInv'
      BY <1>1, <1>5, SlapStepKeeps DEF RefereeInv
    <2> QED
      BY <1>2, <1>5, <2>1, RefereeRests DEF RefereeInv, Umpire!SlapStep
  <1>6. CASE Umpire!VoteStep /\ rest
    <2>1. /\ VotingInv'
          /\ votes.cvar = 0 /\ votes'.cvar # 0 /\ orders' = orders
             /\ votes.started # Umpire!None => now - votes.started >= VoteDelay
      BY <1>1, <1>6, VoteStepKeeps DEF RefereeInv
    <2>2. UNCHANGED <<match, slaps, names, rotation, bots>>
          /\ (orders' = orders \/ (orders < MaxOrders /\ orders' = orders + 1))
      BY <1>6 DEF Umpire!VoteStep, Umpire!PaVote, Umpire!Order
    <2>3. NotTooSoon
      BY <2>1, <2>2 DEF NotTooSoon, Umpire!NothingTooSoon
    <2> QED
      BY <1>1, <1>6, <2>1, <2>2, <2>3, RefereeRests DEF RefereeInv
  <1>7. CASE Umpire!NameStep /\ rest
    <2>1. NameInv'
      BY <1>7, NameStepKeeps DEF RefereeInv
    <2>2. UNCHANGED <<match, slaps, votes, rotation, bots>>
          /\ (orders' = orders \/ (orders < MaxOrders /\ orders' = orders + 1))
      BY <1>7 DEF Umpire!NameStep, Umpire!Rename, Umpire!Order
    <2> QED
      BY <1>1, <1>2, <1>7, <2>1, <2>2, RefereeRests DEF RefereeInv
  <1>8. CASE Umpire!RotationStep /\ rest
    <2>1. /\ RotationInv'
          /\ rotation'.band # rotation.band /\ rotation'.band = rotation.from =>
                LET d == rotation'.players - rotation.chosenAt IN d > Margin \/ -d > Margin
      BY <1>8, RotationStepKeeps DEF RefereeInv
    <2>2. UNCHANGED <<match, orders, slaps, votes, names, bots>>
      BY <1>8 DEF Umpire!RotationStep
    <2>3. NotTooSoon
      BY <2>1, <2>2 DEF NotTooSoon, Umpire!NothingTooSoon
    <2> QED
      BY <1>8, <2>1, <2>2, <2>3, RefereeRests DEF RefereeInv
  <1>9. CASE Umpire!BotStep /\ rest
    <2>1. BotInv'
      BY <1>9, BotStepKeeps DEF RefereeInv
    <2> QED
      BY <1>2, <1>9, <2>1, RefereeRests DEF RefereeInv, Umpire!BotStep
  <1>10. CASE Umpire!SetMatchMode /\ rest
    <2>1. BotInv'
      BY <1>10, SetMatchModeKeeps DEF RefereeInv
    <2>2. UNCHANGED <<slaps, votes, names, rotation>> /\ orders < MaxOrders /\ orders' = orders + 1
      BY <1>10 DEF Umpire!SetMatchMode, Umpire!Order
    <2> QED
      BY <1>1, <1>2, <1>10, <2>1, <2>2, RefereeRests DEF RefereeInv
  <1> QED
    BY <1>3, <1>4, <1>5, <1>6, <1>7, <1>8, <1>9, <1>10 DEF Umpire!Next

LEMMA RefereeTypes == RefereeInv => Umpire!TypeOK /\ Umpire!RefereeIsFair
  BY DEF RefereeInv, SlapInv, SlapsRight, VotingInv, Settings, NameInv, RotationInv, BotInv,
         BotKind, Umpire!TypeOK, Umpire!RefereeIsFair

\* Slaps, voting, names and AI players: nobody gets more slaps than an admin asked for them, voting
\* comes back as it was, kicks for names are for one's own, and AI players are where they are safe.
THEOREM TheRefereeIsFair ==
    ASSUME RefereeIsTimed
    PROVE  Umpire!Spec => [](Umpire!TypeOK /\ Umpire!RefereeIsFair)
  <1>1. Umpire!Init => RefereeInv
    BY RefereeStarts
  <1>2. RefereeInv /\ [Umpire!Next]_Umpire!refVars => RefereeInv'
    BY RefereeKeeps
  <1> QED
    BY <1>1, <1>2, RefereeTypes, PTL DEF Umpire!Spec

\* Voting is not given back before its delay is over, nor a rotation before the number of players
\* has moved by more than the margin.
THEOREM TheRefereeWaits ==
    ASSUME RefereeIsTimed
    PROVE  Umpire!Spec => [][Umpire!NothingTooSoon]_Umpire!refVars
  <1>1. Umpire!Init => RefereeInv
    BY RefereeStarts
  <1>2. RefereeInv /\ [Umpire!Next]_Umpire!refVars => RefereeInv' /\ Umpire!NothingTooSoon
    BY RefereeKeeps DEF NotTooSoon
  <1> QED
    BY <1>1, <1>2, PTL DEF Umpire!Spec
=============================================================================
