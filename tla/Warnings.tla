------------------------------ MODULE Warnings ------------------------------
(****************************************************************************)
(* Warnings and what they add up to (plugins/admin over Bot.warn).  A        *)
(* warning is recorded at once and answered when its CLIENT_WARN event is    *)
(* delivered, by counting again what is on record; so the count may be that  *)
(* of later warnings too, or of fewer after a clear.  At AlertAt a kick is   *)
(* promised for a moment later; at KickAt the player goes right away.        *)
(*                                                                          *)
(* Warnings that ran out are dropped from the model when the clock moves:    *)
(* every reader of the table leaves them out.                                *)
(****************************************************************************)
EXTENDS Integers, Sequences, SequencesExt

CONSTANTS
    Players,
    Lengths,     \* the minutes a warning is given for, 0 for until it is cleared
    Delay,       \* warn.delay: between two warnings of a player by admins
    AlertAt, KickAt, TempbanAt,  \* warn.alert_at, warn.kick_at, warn.tempban_at
    Grace,       \* warn.grace
    TempbanFor, Divider, Longest,  \* warn.tempban_duration, duration_divider, max_duration
    Batch,       \* how many warnings of one log line await their event: the bound
    MaxWarnings, \* how many are ever given: the bound
    MaxTime      \* how long the clock runs: the bound

VARIABLES
    now,
    warnings,    \* storage: each player's active warnings, oldest first
    events,      \* the CLIENT_WARN events published and not yet delivered
    pendingKicks,\* _pending_kicks: each player's deadline, 0 for none
    lastWarn,    \* the `last_warn` of each player
    given,       \* history: how many warnings were given
    fresh,       \* history: how many each player was given since an amnesty
    bans         \* history: the automatic timed bans, as their minutes

vars == <<now, warnings, events, pendingKicks, lastWarn, given, fresh, bans>>

Never == -1
Warning == [minutes : Lengths, expire : {Never} \cup Nat]

Init ==
    /\ now = Delay
    /\ warnings = [p \in Players |-> <<>>]
    /\ events = <<>>
    /\ pendingKicks = [p \in Players |-> 0]
    /\ lastWarn = [p \in Players |-> 0]
    /\ given = 0 /\ fresh = [p \in Players |-> 0] /\ bans = [p \in Players |-> <<>>]

-----------------------------------------------------------------------------
Count(p) == Len(warnings[p])

\* Bot.warn
GiveWarning(p, minutes) ==
    /\ given < MaxWarnings /\ Len(events) < Batch
    /\ warnings' = [warnings EXCEPT ![p] = Append(@,
           [minutes |-> minutes,
            expire |-> IF minutes > 0 THEN now + minutes ELSE Never])]
    /\ events' = Append(events, p)
    /\ given' = given + 1
    /\ fresh' = [fresh EXCEPT ![p] = @ + 1]
    /\ UNCHANGED <<now, pendingKicks, bans>>

\* A plugin warns, whatever admins did.
PluginWarns(p, minutes) == GiveWarning(p, minutes) /\ UNCHANGED lastWarn

\* !warn; the line of an admin is taken when everything of the line before is done.
AdminWarns(p, minutes) ==
    /\ events = <<>>
    /\ ~(Delay > 0 /\ now - lastWarn[p] < Delay)
    /\ lastWarn' = [lastWarn EXCEPT ![p] = now]
    /\ GiveWarning(p, minutes)

\* _warn_kick_duration
KickDuration(p) ==
    LET total == FoldSeq(LAMBDA w, sum : w.minutes + sum, 0, warnings[p])
        share == total \div Divider
    IN  IF Count(p) > TempbanAt THEN TempbanFor
        ELSE IF share < 1 THEN 1 ELSE IF share > Longest THEN Longest ELSE share

WarnTempban(P) ==
    bans' = [p \in Players |-> IF p \in P /\ KickDuration(p) > 0
                               THEN Append(bans[p], KickDuration(p)) ELSE bans[p]]

\* _on_warned and _escalate.  A kick that was promised stays promised after the ban.
OnWarned ==
    /\ events # <<>>
    /\ LET p == Head(events) IN
       /\ WarnTempban(IF Count(p) >= KickAt THEN {p} ELSE {})
       /\ pendingKicks' = IF Count(p) \in AlertAt..(KickAt - 1) /\ pendingKicks[p] = 0
                          THEN [pendingKicks EXCEPT ![p] = now + Grace] ELSE pendingKicks
    /\ events' = Tail(events)
    /\ UNCHANGED <<now, warnings, lastWarn, given, fresh>>

\* Mutant: the promise is carried out without counting again.
CheckPendingKicksBlindly ==
    LET due == {p \in Players : pendingKicks[p] # 0 /\ now >= pendingKicks[p]}
    IN  /\ events = <<>> /\ due # {}
        /\ pendingKicks' = [p \in Players |-> IF p \in due THEN 0 ELSE pendingKicks[p]]
        /\ WarnTempban(due)
        /\ UNCHANGED <<now, warnings, events, lastWarn, given, fresh>>

\* _check_pending_kicks
CheckPendingKicks ==
    LET due == {p \in Players : pendingKicks[p] # 0 /\ now >= pendingKicks[p]}
    IN  /\ events = <<>> /\ due # {}
        /\ pendingKicks' = [p \in Players |-> IF p \in due THEN 0 ELSE pendingKicks[p]]
        /\ WarnTempban({p \in due : Count(p) >= AlertAt})
        /\ UNCHANGED <<now, warnings, events, lastWarn, given, fresh>>

-----------------------------------------------------------------------------
\* !warnclear and !clear: of one player or of everybody.
Clear(P) ==
    /\ events = <<>> /\ \E p \in P : Count(p) > 0
    /\ warnings' = [p \in Players |-> IF p \in P THEN <<>> ELSE warnings[p]]
    /\ fresh' = [p \in Players |-> IF p \in P THEN 0 ELSE fresh[p]]
    /\ UNCHANGED <<now, events, pendingKicks, lastWarn, given, bans>>

\* !warnremove
RemoveLatest(p) ==
    /\ events = <<>> /\ Count(p) > 0
    /\ warnings' = [warnings EXCEPT ![p] = Front(@)]
    /\ UNCHANGED <<now, events, pendingKicks, lastWarn, given, fresh, bans>>

\* Who comes back is a new Client, which no admin has warned yet.
Reconnect(p) ==
    /\ events = <<>> /\ lastWarn[p] # 0
    /\ lastWarn' = [lastWarn EXCEPT ![p] = 0]
    /\ UNCHANGED <<now, warnings, events, pendingKicks, given, fresh, bans>>

\* Those of s that are still in force a moment from now, in their order.
Active(s) ==
    LET inForce(w) == w.expire = Never \/ w.expire > now + 1
        active[i \in 0..Len(s)] ==
            IF i = 0 THEN <<>>
            ELSE IF inForce(s[i]) THEN Append(active[i - 1], s[i]) ELSE active[i - 1]
    IN  active[Len(s)]

Tick ==
    /\ events = <<>> /\ now < MaxTime
    /\ now' = now + 1
    /\ warnings' = [p \in Players |-> Active(warnings[p])]
    /\ UNCHANGED <<events, pendingKicks, lastWarn, given, fresh, bans>>

Next ==
    \/ \E p \in Players :
          \/ \E m \in Lengths : PluginWarns(p, m) \/ AdminWarns(p, m)
          \/ Clear({p}) \/ RemoveLatest(p) \/ Reconnect(p)
    \/ OnWarned \/ CheckPendingKicks \/ Clear(Players) \/ Tick

Spec == Init /\ [][Next]_vars

-----------------------------------------------------------------------------
TypeOK ==
    /\ now \in 0..MaxTime
    /\ warnings \in [Players -> Seq(Warning)]
    /\ events \in Seq(Players) /\ Len(events) <= Batch
    /\ pendingKicks \in [Players -> Nat] /\ lastWarn \in [Players -> Nat]
    /\ given \in 0..MaxWarnings /\ fresh \in [Players -> Nat]
    /\ bans \in [Players -> Seq(Nat \ {0})]

\* Nobody is thrown out over warnings unless AlertAt of them were given since the
\* player was last forgiven everything: a kick promised before an amnesty, or an event
\* that was waiting when it came, bans nobody for what was forgiven.
\* (plugins/admin/__init__.py:123-188, 494-501, 745-758)
BansForCause == \A p \in Players : Len(bans'[p]) > Len(bans[p]) => fresh[p] >= AlertAt
WarnedOutForCause == [][BansForCause]_vars

=============================================================================
