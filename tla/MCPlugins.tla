------------------------------ MODULE MCPlugins ------------------------------
(* The parts that work on their own, one at a time.  They have their variables *)
(* in common, each in its own order; what a part does not need is Off, and so  *)
(* are all while Commands is checked, whose own are at rest otherwise.         *)
EXTENDS MCCommands

VARIABLES
    part,
    x1, x2, x3, x4, x5, x6, x7, x8, x9, x10, x11, x12, x13, x14, x15, x16, x17, x18, x19

Three == {"a", "b", "c"}

\* One attacker and two victims; three hits reach the limit and a kill is two.
Tk == INSTANCE TeamDamage WITH
    Players <- Three, Attackers <- {"a"}, Damages <- {1}, Kill <- 2,
    KillTimes <- [p \in Three |-> 4], DamageTimes <- [p \in Three |-> 4],
    BanMinutes <- [p \in Three |-> IF p = "a" THEN 1 ELSE 0],
    MaxPoints <- 4, RoundGrace <- 1, ForgiveGrace <- 1, HalfLife <- 1, Debounce <- 1,
    WarnInterval <- 1, WarnAbove <- 1, MaxTime <- 2,
    now <- x1, connected <- x2, books <- x3, roundStart <- x4, halveDue <- x5, halvedAt <- x6,
    sentence <- x7

\* LastChance is longer than Idle: who shows up at once is idle again when judged.
Absent == INSTANCE Afk WITH
    Players <- {"a", "b"}, Bots <- {}, Immune <- {}, Deaths <- 1, Idle <- 1, LastChance <- 2,
    MinHumans <- 1, Throttle <- 1, MaxTime <- 5,
    now <- x1, connected <- x2, spectating <- x3, enabled <- x4, activity <- x5, lastSweep <- x6,
    kicked <- x7, quiet <- x8, asked <- x9, emptied <- x10

\* Two slots, one of which is kept; the admin outranks a member and a non-member.
Room == INSTANCE MakeRoom WITH
    Players <- {"a", "b", "m"}, Bots <- {}, Admins <- {"m"},
    Groups <- [p \in {"a", "b", "m"} |-> CASE p = "m" -> 3 [] p = "a" -> 0 [] OTHER -> 1],
    NonMember <- 2, Slots <- 2, MinFree <- 1, Delay <- 1, RetainFor <- 2,
    OnlyWhenFull <- TRUE, MaxPending <- 2, MaxTime <- 4,
    now <- x1, roster <- x2, authed <- x3, level <- x4, kicked <- x5, pending <- x6, retain <- x7,
    automation <- x8

\* A player, a moderator and an admin; a vote on the map needs a moderator.
Vote == INSTANCE CallVote WITH
    Players <- Three,
    Level <- [p \in Three |-> CASE p = "a" -> 0 [] p = "b" -> 20 [] OTHER -> 40],
    Needed <- [t \in {"kick", "ban", "map"} |-> IF t = "map" THEN 20 ELSE 0],
    Protected <- 20, MaxLines <- 3, MaxVotes <- 2,
    engine <- x1, running <- x2, banned <- x3, called <- x4, log <- x5, current <- x6,
    lastVote <- x7, warned <- x8, missed <- x9

\* Two warnings promise a kick, three carry it out; two plugins may warn for one line.
Warn == INSTANCE Warnings WITH
    Players <- {"a", "b"}, Lengths <- {0, 2}, Delay <- 1, AlertAt <- 2, KickAt <- 3,
    TempbanAt <- 3, Grace <- 1, TempbanFor <- 3, Divider <- 2, Longest <- 2, Batch <- 2,
    MaxWarnings <- 4, MaxTime <- 3,
    now <- x1, warnings <- x2, events <- x3, pendingKicks <- x4, lastWarn <- x5, given <- x6,
    fresh <- x7, bans <- x8

\* A mute that ends before the sweep and one that outlasts it.
Mute == INSTANCE Mutes WITH
    Slots <- {"s1", "s2"}, Lengths <- {1, 3}, Sweep <- 2, MaxTime <- 6,
    now <- x1, counts <- x2, seated <- x3, muted <- x4, silent <- x5, promised <- x6,
    inherited <- x7

\* Three plugins, which can need one another in every way.
Startup == INSTANCE Loading WITH
    Modules <- 1..3, Row <- [p \in 1..3 |-> p],
    listed <- x1, requires <- x2, follows <- x3, unfit <- x4, phase <- x5, pending <- x6,
    order <- x7, loaded <- x8, on <- x9, started <- x10

\* The second plugin has a tag that requires the first, and one that this bot refuses.
Disk == INSTANCE Install WITH
    Offered <- {"aim", "bed"}, Tags <- [aim |-> {1}, bed |-> {1, 2}], Servers <- {"s1", "s2"},
    Demands <- [x \in {"aim", "bed"} \X {1, 2} |-> IF x = <<"bed", 1>> THEN {"aim"} ELSE {}],
    Good <- {<<"aim", 1>>, <<"bed", 1>>}, MaxKills <- 1,
    disk <- x1, record <- x2, rows <- x3, task <- x4, cut <- x5, fetched <- x6, moved <- x7,
    dropped <- x8, killed <- x9

\* Every way two players can be in a group when the bot starts, and three commands.
Rank == INSTANCE Ranks WITH
    Players <- {"a", "b"}, Threshold <- 40, MaxCommands <- 3,
    login <- x1, row <- x2, here <- x3, session <- x4, restore <- x5, proven <- x6, due <- x7,
    commands <- x8

\* One slot, and a second player who may take it; one address is a proxy's, one a listed one.
Door == INSTANCE Gate WITH
    Clients <- {"a", "b"}, Slot <- [c \in {"a", "b"} |-> "1"], Trusted <- {"b"}, Immune <- {},
    Addresses <- {"p", "q"}, Proxies <- {"p"}, Bannable <- {"q"}, Barred <- {"p"},
    Blocked <- {}, Refused <- {"q"}, MaxChanges <- 1,
    here <- x1, gone <- x2, addr <- x3, authed <- x4, queue <- x5, asking <- x6, draining <- x7,
    checked <- x8, vetted <- x9, located <- x10, lookups <- x11, asked <- x12, entries <- x13,
    fetching <- x14, banned <- x15, barred <- x16, out <- x17, changes <- x18, returned <- x19

\* Two players for one slot; bands of 2 and 4 players, and a margin of 1.
Umpire == INSTANCE Referee WITH
    Duties <- {"slaps", "votes", "names", "rotation", "bots"}, Players <- {"a", "b"},
    Repeats <- {1, 3}, VoteDelay <- 2, VoteValues <- {0, 8}, VoteDefault <- 9,
    Names <- {"x", "y"}, MaxChanges <- 2, SmallMax <- 2, MediumMax <- 4, Margin <- 1,
    MaxPlayers <- 7, Maps <- {"m1", "m2"}, BotMaps <- {"m1"}, MaxOrders <- 3, MaxTime <- 4,
    duty <- x1, now <- x2, match <- x3, orders <- x4, slaps <- x5, votes <- x6, names <- x7,
    rotation <- x8, bots <- x9

\* One player, two times, two demos at once; no map is cycled; of one step the answer, the
\* stop or the deletion fails.
Jump == INSTANCE Jumper WITH
    Players <- {"a"}, Times <- {1, 2}, Files <- {"f1", "f2"}, Maps <- {"s"}, Stock <- {"s"},
    MaxCycles <- 0, MaxBehind <- 2, MaxOrders <- 1,
    Fates <- {{}, {<<"reply", "a">>, <<"best", "a">>}, {<<"stop", "a">>}, {<<"unlink", "a">>}},
    server <- x1, disk <- x2, lines <- x3, orders <- x4, demos <- x5, jumper <- x6, records <- x7,
    writing <- x8, lost <- x9, stray <- x10, cut <- x11

\* Ten points for a warning; a point is forgotten in two seconds, or in one; mutes of 1 and 2;
\* a sweep every 2, at most 1 late.
Manners == INSTANCE Conduct WITH
    Watches <- {"spam", "words", "ping", "nick", "spree"}, ChatFalloff <- 2, RadioFalloff <- 1,
    MaxSpamins <- 10, LongGap <- 3, MuteFor <- 6, Ladder <- <<1, 2>>, WarnAfter <- 1,
    Endurance <- 1, Settle <- 1, Players <- {"a", "b"}, Names <- {"x", "y"}, MaxNicks <- 1,
    Interval <- 2, Late <- 1, KillSpree <- 2, LossSpree <- 2, MaxEvents <- 3, MaxTime <- 6,
    watch <- x1, now <- x2, spam <- x3, words <- x4, ping <- x5, nick <- x6, spree <- x7,
    story <- x8

\* Whatever one thing is wrong, for a bot that commands by a file, one
\* that logs in and two that are pushed to.
Begin == INSTANCE Doctor WITH
    Families <- {"altitude", "source", "frostbite", "ravaged"}, Newest <- 2,
    Keepers <- {"supervise", "systemd"}, MaxWrong <- 1,
    family <- x1, wrong <- x2, code <- x3, applied <- x4, stamp <- x5, unsigned <- x6, bot <- x7,
    verdict <- x8, since <- x9, outcome <- x10

\* Two maps, a rotation and a file that has them the other way round, its five config lines in two
\* passes; one order at a time, and one command or answer that is lost.
Desk == INSTANCE Orders WITH
    Titles <- {"bf3", "bfbc2", "moh", "hf", "cod7"}, Desks <- {"rotation", "lists"},
    Maps <- {"a", "c"}, Players <- {"p", "q"}, Rotation <- <<"a", "c">>, File <- <<"c", "a">>,
    PerPass <- 3, Wait <- 1, StockIdle <- 5, MaxList <- 3, MaxDelayed <- 1, MaxLost <- 1,
    game <- x1, desk <- x2, on <- x3, server <- x4, delayed <- x5, loading <- x6, held <- x7,
    lastIdle <- x8, lost <- x9, asked <- x10, operator <- x11, wasIdle <- x12, told <- x13,
    gaps <- x14

Off == "off"
rest == <<x1, x2, x3, x4, x5, x6, x7, x8, x9, x10, x11, x12, x13, x14, x15, x16, x17, x18, x19>>

\* From a variable on, all are Off, or stay as they are.
Off19 == x19 = Off
Off18 == x18 = Off /\ Off19
Off17 == x17 = Off /\ Off18
Off16 == x16 = Off /\ Off17
Off15 == x15 = Off /\ Off16
Off14 == x14 = Off /\ Off15
Off13 == x13 = Off /\ Off14
Off12 == x12 = Off /\ Off13
Off11 == x11 = Off /\ Off12
Off10 == x10 = Off /\ Off11
Off9 == x9 = Off /\ Off10
Off8 == x8 = Off /\ Off9
Keep19 == UNCHANGED x19
Keep18 == UNCHANGED x18 /\ Keep19
Keep17 == UNCHANGED x17 /\ Keep18
Keep16 == UNCHANGED x16 /\ Keep17
Keep15 == UNCHANGED x15 /\ Keep16
Keep14 == UNCHANGED x14 /\ Keep15
Keep13 == UNCHANGED x13 /\ Keep14
Keep12 == UNCHANGED x12 /\ Keep13
Keep11 == UNCHANGED x11 /\ Keep12
Keep10 == UNCHANGED x10 /\ Keep11
Keep9 == UNCHANGED x9 /\ Keep10
Keep8 == UNCHANGED x8 /\ Keep9

NoCommand == Init /\ enabled = [p \in Plugins |-> FALSE]

PluginsInit ==
    \/ /\ part = "commands" /\ Init
       /\ x1 = Off /\ x2 = Off /\ x3 = Off /\ x4 = Off /\ x5 = Off /\ x6 = Off /\ x7 = Off /\ Off8
    \/ /\ NoCommand
       /\ \/ part = "tk" /\ Tk!Init /\ Off8
          \/ part = "afk" /\ Absent!Init /\ Off11
          \/ part = "room" /\ Room!Init /\ Off9
          \/ part = "vote" /\ Vote!Init /\ Off10
          \/ part = "warn" /\ Warn!Init /\ Off9
          \/ part = "mute" /\ Mute!Init /\ Off8
          \/ part = "load" /\ Startup!Init /\ Off11
          \/ part = "disk" /\ Disk!Init /\ Off10
          \/ part = "rank" /\ Rank!Init /\ Off9
          \/ part = "gate" /\ Door!Init
          \/ part = "duty" /\ Umpire!Init /\ Off10
          \/ part = "jump" /\ Jump!Init /\ Off12
          \/ part = "manners" /\ Manners!Init /\ Off9
          \/ part = "start" /\ Begin!Init /\ Off11
          \/ part = "orders" /\ Desk!Init /\ Off15

allVars == <<part, vars, rest>>

PluginsNext ==
    /\ \/ part = "commands" /\ Next /\ UNCHANGED rest
       \/ /\ UNCHANGED vars
          /\ \/ part = "tk" /\ Tk!Next /\ Keep8
             \/ part = "afk" /\ Absent!Next /\ Keep11
             \/ part = "room" /\ Room!Next /\ Keep9
             \/ part = "vote" /\ Vote!Next /\ Keep10
             \/ part = "warn" /\ Warn!Next /\ Keep9
             \/ part = "mute" /\ Mute!Next /\ Keep8
             \/ part = "load" /\ Startup!Next /\ Keep11
             \/ part = "disk" /\ Disk!Next /\ Keep10
             \/ part = "rank" /\ Rank!Next /\ Keep9
             \/ part = "gate" /\ Door!Next
             \/ part = "duty" /\ Umpire!Next /\ Keep10
             \/ part = "jump" /\ Jump!Next /\ Keep12
             \/ part = "manners" /\ Manners!Next /\ Keep9
             \/ part = "start" /\ Begin!Next /\ Keep11
             \/ part = "orders" /\ Desk!Next /\ Keep15
    /\ UNCHANGED part

PluginsSpec == PluginsInit /\ [][PluginsNext]_allVars

PluginsTypeOK ==
    CASE part = "commands" -> TypeOK
      [] part = "tk" -> Tk!TypeOK
      [] part = "afk" -> Absent!TypeOK
      [] part = "room" -> Room!TypeOK
      [] part = "vote" -> Vote!TypeOK
      [] part = "warn" -> Warn!TypeOK
      [] part = "mute" -> Mute!TypeOK
      [] part = "load" -> Startup!TypeOK
      [] part = "disk" -> Disk!TypeOK
      [] part = "rank" -> Rank!TypeOK
      [] part = "gate" -> Door!TypeOK
      [] part = "duty" -> Umpire!TypeOK
      [] part = "jump" -> Jump!TypeOK
      [] part = "manners" -> Manners!TypeOK
      [] part = "start" -> Begin!TypeOK
      [] part = "orders" -> Desk!TypeOK

\* What a part has promised a player, or an admin, holds until it is carried out: who is over
\* the limit is on notice, the slot that is held is free, a vote against the shielded does not
\* stand, the longest mute holds, the demo of a run worth keeping is kept, and what a server is
\* told to have it has.  The properties of TeamDamage, MakeRoom, CallVote, Mutes, Referee, Jumper
\* and Orders.
PromisesHold ==
    /\ part = "tk" => Tk!OverTheLimitIsOnNotice
    /\ part = "room" => Room!HeldSlotIsFree
    /\ part = "vote" => Vote!NoShieldedBanStands
    /\ part = "mute" => Mute!LongestMuteHolds
    /\ part = "duty" => Umpire!RefereeIsFair
    /\ part = "jump" => Jump!DemosAreKept
    /\ part = "orders" => Desk!OrdersHold

\* Plugins are loaded, started, installed and removed in order, and the bot starts where the
\* doctor found nothing and on a schema that fits: of Loading, Install and Doctor.
PluginsInOrder ==
    /\ part = "load" =>
          Startup!UpAfterItsNeeds /\ Startup!RefusedForACycle /\ Startup!OffForCause
    /\ part = "disk" => Disk!RecordIsTrue /\ Disk!RowsHaveFiles /\ Disk!NeedsAreRecorded
    /\ part = "start" => Begin!DoctorIsRight /\ Begin!SchemaFits

\* Who is to be looked at is, and the service that is asked is asked once, of Gate; whoever has
\* another's name is warned, and what is counted of everyone's kills is so, of Conduct.
NobodyIsOverlooked ==
    /\ part = "gate" => Door!AskedOnce /\ Door!NobodyListedStays /\ Door!BansAreSeen
    /\ part = "manners" => Manners!NobodyStealsForLong /\ Manners!SpreesAreTrue

\* Nothing is done without its cause: whoever is put out has given the one that is stated, and
\* whoever rises is raised by one above them, and a record is given up for a better one.  The
\* properties of Afk, Warnings, Ranks, Gate, Referee, Jumper, Conduct and Orders.
NothingWithoutCause ==
    [][/\ part = "afk" => Absent!KicksOnlyTheSilent
       /\ part = "warn" => Warn!BansForCause
       /\ part = "rank" => Rank!SuperadminStays /\ Rank!RaisedFromAbove
       /\ part = "gate" => Door!PutOutForCause
       /\ part = "duty" => Umpire!NothingTooSoon
       /\ part = "jump" => Jump!RecordsImprove
       /\ part = "manners" => Manners!NotForOnce
       /\ part = "orders" => Desk!NothingHeldOver]_allVars
=============================================================================
