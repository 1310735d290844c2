----------------------------- MODULE TeamDamage -----------------------------
(****************************************************************************)
(* Points for hurting teammates (plugins/tk).  A hit is written twice: in    *)
(* the victim's record as points held against the attacker, and in the       *)
(* attacker's as a name to look under.  Victims forgive, players leave,      *)
(* rounds halve what is left, and whoever is over the limit has a while to   *)
(* be forgiven before the ban.  Records are kept by slot and end with the    *)
(* client in it; the keys that name the slot in other records do not.        *)
(****************************************************************************)
EXTENDS Integers, FiniteSets, FiniteSetsExt

CONSTANTS
    Players,       \* slots
    Attackers,     \* the slots whose hits are followed: the bound
    Damages,       \* what a hit is reported to be worth
    Kill,          \* what a kill is worth: damage_points
    KillTimes,     \* Multipliers.kill of each attacker's level, in quarters
    DamageTimes,   \* Multipliers.damage, in quarters
    BanMinutes,    \* Multipliers.ban_minutes
    MaxPoints,     \* settings.max_points
    RoundGrace,    \* settings.round_grace
    ForgiveGrace,  \* settings.forgive_grace
    HalfLife,      \* settings.halflife, 0 for never
    Debounce,      \* HALVE_DEBOUNCE
    WarnInterval,  \* TK_WARN_INTERVAL; SPAWN_WARN_INTERVAL is taken to be no different
    WarnAbove,     \* settings.damage_threshold
    MaxTime        \* how long the clock runs: the bound

VARIABLES
    now,
    connected,  \* clients.connected()
    books,      \* the TeamDamage records
    roundStart, \* console.game: when the round began
    halveDue, halvedAt,
    sentence    \* console.tempban: the minutes each player was last banned for

vars == <<now, connected, books, roundStart, halveDue, halvedAt, sentence>>

None == "none"
Blank == [p \in Players |-> 0]

Init ==
    /\ now = 1
    /\ connected = Players
    /\ books = [attackers |-> [p \in Players |-> Blank], attacked |-> [p \in Players |-> {}],
                grudged |-> [p \in Players |-> {}], warnings |-> [p \in Players |-> {}],
                lastWarned |-> Blank, banDue |-> Blank,
                lastAttacker |-> [p \in Players |-> None]]
    /\ roundStart = 1
    /\ halveDue = 0 /\ halvedAt = 0
    /\ sentence = Blank

-----------------------------------------------------------------------------
(* The books.                                                               *)

\* int(round(n / d)): to the nearest, and a half to the even one.
Rounded(n, d) ==
    LET q == n \div d  r == n % d
    IN  IF 2 * r > d \/ (2 * r = d /\ q % 2 = 1) THEN q + 1 ELSE q

\* points(): what each of their victims holds against them, one by one; the slots nobody is in
\* any more are left out, and forgotten.
Debts(b, a) == UNION {{v} \X (1..b.attackers[v][a]) : v \in b.attacked[a] \cap connected}
Points(b, a) == Cardinality(Debts(b, a))
Counted(b, a) == [b EXCEPT !.attacked[a] = @ \cap connected]

\* Mutant: the second half of the entry is missing.
DamagedOneSided(b, a, v, points) ==
    [b EXCEPT !.attackers[v][a] = @ + points, !.lastAttacker[v] = a]

Damaged(b, a, v, points) ==
    [b EXCEPT !.attackers[v][a] = @ + points, !.lastAttacker[v] = a,
              !.attacked[a] = @ \cup {v}]

\* _forgive, for pairs of a victim and an attacker.  Only who is connected has a record.
Forgiven(b, pairs) ==
    LET by(a) == {v \in Players : a \in connected /\ <<v, a>> \in pairs}
    IN  [attackers |-> [v \in Players |-> [a \in Players |->
                           IF <<v, a>> \in pairs THEN 0 ELSE b.attackers[v][a]]],
         attacked |-> [a \in Players |-> b.attacked[a] \ by(a)],
         grudged |-> [v \in Players |-> {a \in b.grudged[v] : <<v, a>> \notin pairs}],
         warnings |-> [a \in Players |-> b.warnings[a] \ by(a)],
         lastWarned |-> b.lastWarned,
         banDue |-> [a \in Players |->
                        IF by(a) # {} /\ b.attacked[a] \subseteq by(a) THEN 0 ELSE b.banDue[a]],
         lastAttacker |-> [v \in Players |->
                              IF <<v, b.lastAttacker[v]>> \in pairs THEN None
                              ELSE b.lastAttacker[v]]]

\* _forgive_everything
AllForgiven(b, a) ==
    LET c == Forgiven(b, connected \X {a})
    IN  IF a \in connected
        THEN [c EXCEPT !.attacked[a] = {}, !.warnings[a] = {}, !.banDue[a] = 0] ELSE c

InSpawnGrace == RoundGrace > 0 /\ now - roundStart < RoundGrace

Scaled(a, points, killed) ==
    LET times == IF killed THEN KillTimes[a] ELSE DamageTimes[a]
        spawn == IF ~InSpawnGrace THEN 2 ELSE IF killed THEN 3 ELSE 6
    IN  Rounded(points * times * spawn, 8)

-----------------------------------------------------------------------------
(* What the bot does about it.                                              *)

\* _maybe_warn.  The warning for firing at spawn is not one a victim can lift.
Warned(b, a, v, points) ==
    IF b.lastWarned[a] # 0 /\ b.lastWarned[a] + WarnInterval > now THEN b
    ELSE IF InSpawnGrace THEN [b EXCEPT !.lastWarned[a] = now]
    ELSE IF points <= WarnAbove THEN b
    ELSE [b EXCEPT !.lastWarned[a] = now, !.warnings[a] = @ \cup {v}]

\* _tempban: a level that is not banned has its points cleared and no more.
Sentenced(a, minutes) == IF minutes > 0 THEN [sentence EXCEPT ![a] = minutes] ELSE sentence

\* Mutant: a notice already given is the end of the matter.
CheckLimitUnlessNoticed(b, a) ==
    IF Points(b, a) < MaxPoints \/ b.banDue[a] # 0 \/ 2 * Points(b, a) >= 3 * MaxPoints
    THEN books' = Counted(b, a) /\ UNCHANGED sentence
    ELSE books' = [Counted(b, a) EXCEPT !.banDue[a] = now + ForgiveGrace] /\ UNCHANGED sentence

CheckLimit(b, a) ==
    LET points == Points(b, a)
    IN  IF points < MaxPoints THEN books' = Counted(b, a) /\ UNCHANGED sentence
        ELSE IF 2 * points >= 3 * MaxPoints
        THEN /\ books' = AllForgiven(Counted(b, a), a)
             /\ sentence' = Sentenced(a, BanMinutes[a])
        ELSE /\ books' = [Counted(b, a) EXCEPT
                              !.banDue[a] = IF @ # 0 THEN @ ELSE now + ForgiveGrace]
             /\ UNCHANGED sentence

\* on_team_damage and on_team_kill
Hit(a, v, points, killed) ==
    /\ {a, v} \subseteq connected /\ a # v
    /\ Scaled(a, points, killed) > 0
    /\ LET scaled == Scaled(a, points, killed)
       IN  CheckLimit(Warned(Damaged(books, a, v, scaled), a, v, scaled), a)
    /\ UNCHANGED <<now, connected, roundStart, halveDue, halvedAt>>

\* _tick and _ban_if_still_over, for one player whose notice has run out.
Deadline(a) ==
    /\ a \in connected /\ books.banDue[a] # 0 /\ now >= books.banDue[a]
    /\ LET b == [Counted(books, a) EXCEPT !.banDue[a] = 0]
           points == Points(books, a)
           victims == Max({1, Cardinality(b.attacked[a])})
       IN  IF points < MaxPoints THEN books' = b /\ UNCHANGED sentence
           ELSE /\ books' = AllForgiven(b, a)
                /\ sentence' = Sentenced(a, BanMinutes[a] * victims)
    /\ UNCHANGED <<now, connected, roundStart, halveDue, halvedAt>>

Halved(b) ==
    LET after == [v \in Players |-> [a \in Players |-> Rounded(b.attackers[v][a], 2)]]
        spent == {e \in connected \X Players :
                     b.attackers[e[1]][e[2]] > 0 /\ after[e[1]][e[2]] = 0}
        held == [v \in Players |-> IF v \in connected THEN after[v] ELSE b.attackers[v]]
    IN  Forgiven([b EXCEPT !.attackers = held], spent)

\* halve_points, with the next one armed.
HalvePoints ==
    /\ books' = Halved(books)
    /\ halvedAt' = now
    /\ halveDue' = IF HalfLife > 0 THEN now + HalfLife ELSE 0

HalfLifePasses ==
    /\ halveDue # 0 /\ now >= halveDue
    /\ HalvePoints
    /\ UNCHANGED <<now, connected, roundStart, sentence>>

RoundOver ==
    /\ halvedAt = 0 \/ now - halvedAt >= Debounce
    /\ HalvePoints
    /\ UNCHANGED <<now, connected, roundStart, sentence>>

RoundStart ==
    /\ roundStart' = now
    /\ halveDue' = IF HalfLife > 0 THEN now + HalfLife ELSE 0
    /\ UNCHANGED <<now, connected, books, halvedAt, sentence>>

-----------------------------------------------------------------------------
(* What the players do about it.                                            *)

HeldBy(v) == {a \in Players : books.attackers[v][a] > 0}

\* !forgive, for the attackers its argument names.
ForgiveSome(v, chosen) ==
    /\ v \in connected /\ chosen # {} /\ chosen \subseteq HeldBy(v)
    /\ books' = Forgiven(books, {v} \X chosen)
    /\ UNCHANGED <<now, connected, roundStart, halveDue, halvedAt, sentence>>

\* !forgiveprev
ForgivePrev(v) ==
    /\ v \in connected
    /\ books.lastAttacker[v] \notin {None} \cup books.grudged[v]
    /\ books' = Forgiven(books, {<<v, books.lastAttacker[v]>>})
    /\ UNCHANGED <<now, connected, roundStart, halveDue, halvedAt, sentence>>

\* !forgiveall
ForgiveAll(v) ==
    /\ v \in connected
    /\ books' = Forgiven(books, {v} \X (HeldBy(v) \ books.grudged[v]))
    /\ UNCHANGED <<now, connected, roundStart, halveDue, halvedAt, sentence>>

\* !forgiveclear, an admin's
ForgiveClear(a) ==
    /\ a \in connected
    /\ books' = AllForgiven(books, a)
    /\ UNCHANGED <<now, connected, roundStart, halveDue, halvedAt, sentence>>

\* !grudge
Grudge(v, chosen) ==
    /\ v \in connected /\ chosen # {} /\ chosen \subseteq HeldBy(v)
    /\ books' = [books EXCEPT !.grudged[v] = @ \cup chosen]
    /\ UNCHANGED <<now, connected, roundStart, halveDue, halvedAt, sentence>>

\* Mutant: a leaver's points stay with those they hurt.
ForgottenBooks(p) == [books EXCEPT !.attackers[p] = Blank]

\* A client's record goes with it, and what others hold against it is forgiven.
LeftBooks(p) ==
    [AllForgiven(books, p) EXCEPT
        !.attackers[p] = Blank, !.attacked[p] = {}, !.grudged[p] = {}, !.warnings[p] = {},
        !.lastWarned[p] = 0, !.banDue[p] = 0, !.lastAttacker[p] = None]

\* The bot has taken the client off its roster before it tells the plugin.
Leave(p) ==
    /\ p \in connected
    /\ connected' = connected \ {p}
    /\ books' = LeftBooks(p)
    /\ sentence' = [sentence EXCEPT ![p] = 0]
    /\ UNCHANGED <<now, roundStart, halveDue, halvedAt>>

Enter(p) ==
    /\ p \notin connected
    /\ connected' = connected \cup {p}
    /\ UNCHANGED <<now, books, roundStart, halveDue, halvedAt, sentence>>

Tick ==
    /\ now < MaxTime
    /\ now' = now + 1
    /\ UNCHANGED <<connected, books, roundStart, halveDue, halvedAt, sentence>>

Moves(p) ==
    \/ Leave(p) \/ Enter(p) \/ Deadline(p) \/ ForgivePrev(p) \/ ForgiveAll(p) \/ ForgiveClear(p)
    \/ \E chosen \in SUBSET Attackers : ForgiveSome(p, chosen) \/ Grudge(p, chosen)

Fights ==
    \E a \in Attackers, v \in Players :
        Hit(a, v, Kill, TRUE) \/ \E points \in Damages : Hit(a, v, points, FALSE)

Next == Tick \/ RoundStart \/ RoundOver \/ HalfLifePasses \/ Fights \/ \E p \in Players : Moves(p)

Spec == Init /\ [][Next]_vars

-----------------------------------------------------------------------------
TypeOK ==
    /\ now \in 1..MaxTime
    /\ connected \subseteq Players
    /\ \A p \in Players :
        /\ \A q \in Players : books.attackers[p][q] \in 0..(2 * MaxPoints)
        /\ books.attacked[p] \subseteq Players /\ books.grudged[p] \subseteq Players
        /\ books.lastAttacker[p] \in Players \cup {None}

\* Whatever is forgiven, halved or left behind, both halves of the books agree, nothing is
\* held against a slot its player has left, and nobody stays over the limit without a ban on
\* its way.  (plugins/tk/__init__.py:166-176, 287-302, 526-567, 578-616)
OverTheLimitIsOnNotice ==
    \A a \in Players :
        /\ \A v \in connected : books.attackers[v][a] > 0 =>
              a \in connected /\ v \in books.attacked[a]
        /\ a \in connected /\ Points(books, a) >= MaxPoints =>
              books.banDue[a] \in 1..(now + ForgiveGrace)

=============================================================================
