------------------------------ MODULE MakeRoom ------------------------------
(****************************************************************************)
(* Freeing a slot of a full server for a member (plugins/makeroom).  The     *)
(* newest arrival of the lowest group is kicked and the slot held for a      *)
(* while against everybody who is not a member; with automation on the       *)
(* plugin does as much of its own accord.  The server acts on a kick at once *)
(* and the bot reads of it later.  Its log is read in order, so the roster   *)
(* is always one the server had and never larger than the server; that a     *)
(* kick may be lost on the way is the subject of Penalties.                  *)
(****************************************************************************)
EXTENDS Integers, FiniteSets, SequencesExt

CONSTANTS
    Players,       \* clients: one who comes back is the same player and a new client
    Bots,          \* the AI among them
    Admins,        \* who may use the commands
    Groups,        \* the level each player has when the bot starts
    NonMember,     \* settings.non_member_level
    Slots,         \* total_slots()
    MinFree,       \* settings.min_free_slots
    Delay,         \* settings.delay
    RetainFor,     \* settings.retain_free_duration
    OnlyWhenFull,  \* settings.only_when_full
    MaxPending,    \* how many requests wait at a time: the bound
    MaxTime        \* how long the clock runs: the bound

VARIABLES
    now,
    roster,      \* clients.connected(), in the order they came
    authed,      \* the ones whose CLIENT_AUTH has been handled
    level,
    kicked,      \* on the roster, but already thrown out by the server
    pending,     \* self._pending
    retain,      \* self._retain, {} for None
    automation   \* settings.automation

vars == <<now, roster, authed, level, kicked, pending, retain, automation>>

Unasked == "nobody"
Gone == "gone"

Init ==
    /\ now = 1
    /\ roster = <<>> /\ authed = {} /\ kicked = {}
    /\ level = Groups
    /\ pending = <<>> /\ retain = {}
    /\ automation \in BOOLEAN

-----------------------------------------------------------------------------
Population == Len(roster)
IsMember(p) == level[p] > NonMember

\* What a request may kick: the lowest level first, then the newest arrival.
Candidates(admin) == {i \in DOMAIN roster :
    roster[i] # admin /\ roster[i] \notin Bots /\ ~IsMember(roster[i])}
Candidate(admin) ==
    CHOOSE i \in Candidates(admin) : \A j \in Candidates(admin) :
        \/ level[roster[i]] < level[roster[j]]
        \/ level[roster[i]] = level[roster[j]] /\ i >= j

\* _held_slot: a hold that has run out is dropped wherever it is looked at.
Held == {hold \in retain : now < hold.until}

\* Mutant: the count is taken as if the kick had already told.
HoldTooMany == [until |-> now + RetainFor, keep |-> Population]

Hold == [until |-> now + RetainFor, keep |-> Population - 1]

\* free_a_slot
FreeASlot(admin) ==
    IF Candidates(admin) = {} THEN retain' = Held /\ UNCHANGED kicked
    ELSE /\ kicked' = kicked \cup {roster[Candidate(admin)]}
         /\ retain' = IF RetainFor > 0 THEN {Hold} ELSE Held

\* !makeroom
Request(admin) ==
    /\ admin \in ToSet(roster) \cap authed \cap Admins
    /\ Held = {} /\ pending = <<>>
    /\ ~(OnlyWhenFull /\ Population < Slots)
    /\ Candidates(admin) # {}
    /\ IF Delay <= 0 THEN FreeASlot(admin) /\ UNCHANGED pending
       ELSE /\ pending' = <<[due |-> now + Delay, admin |-> admin, target |-> Unasked]>>
            /\ retain' = Held
            /\ UNCHANGED kicked
    /\ UNCHANGED <<now, roster, authed, level, automation>>

\* !makeroomauto
Automate ==
    /\ automation' = ~automation
    /\ ~automation => MinFree < Slots
    /\ UNCHANGED <<now, roster, authed, level, kicked, pending, retain>>

\* check_free_slots
CheckFreeSlots(p) ==
    IF MinFree >= Slots \/ Slots - Population >= MinFree
    THEN retain' = Held /\ UNCHANGED <<kicked, pending>>
    ELSE IF IsMember(p) THEN FreeASlot(Unasked) /\ UNCHANGED pending
    ELSE IF Delay <= 0 THEN kicked' = kicked \cup {p} /\ retain' = Held /\ UNCHANGED pending
    ELSE /\ pending' = Append(pending, [due |-> now + Delay, admin |-> Unasked, target |-> p])
         /\ retain' = Held
         /\ UNCHANGED kicked

\* on_auth: a bot is let be, a member takes the slot that is held, anybody else is turned
\* away from it.
Auth(p) ==
    /\ p \in ToSet(roster) \ authed
    /\ authed' = authed \cup {p}
    /\ IF p \in Bots THEN UNCHANGED <<kicked, pending, retain>>
       ELSE IF Held # {}
       THEN /\ retain' = IF IsMember(p) THEN {} ELSE retain
            /\ kicked' = IF ~IsMember(p) /\ \E hold \in Held : Population > hold.keep
                         THEN kicked \cup {p} ELSE kicked
            /\ UNCHANGED pending
       ELSE IF automation THEN CheckFreeSlots(p)
       ELSE retain' = Held /\ UNCHANGED <<kicked, pending>>
    /\ UNCHANGED <<now, roster, level, automation>>

\* _check_deadlines, of the hold
Expire ==
    /\ \E hold \in retain : now >= hold.until
    /\ retain' = {}
    /\ UNCHANGED <<now, roster, authed, level, kicked, pending, automation>>

\* _check_deadlines, of the requests that are due, one after the other; one aimed at a client
\* that has left, or is a member by now, is dropped.
RunPending ==
    /\ pending # <<>> /\ now >= Head(pending).due
    /\ pending' = Tail(pending)
    /\ LET request == Head(pending)
       IN  IF request.target = Unasked THEN FreeASlot(request.admin)
           ELSE /\ kicked' = IF request.target # Gone /\ ~IsMember(request.target)
                             THEN kicked \cup {request.target} ELSE kicked
                /\ retain' = Held
    /\ UNCHANGED <<now, roster, authed, level, automation>>

-----------------------------------------------------------------------------
Enter(p) ==
    /\ p \notin ToSet(roster) /\ Population < Slots /\ Len(pending) < MaxPending
    /\ roster' = Append(roster, p)
    /\ UNCHANGED <<now, authed, level, kicked, pending, retain, automation>>

Leave(p) ==
    /\ \E i \in DOMAIN roster : roster[i] = p /\ roster' = RemoveAt(roster, i)
    /\ authed' = authed \ {p} /\ kicked' = kicked \ {p}
    /\ pending' = [i \in DOMAIN pending |->
          IF pending[i].target = p THEN [pending[i] EXCEPT !.target = Gone] ELSE pending[i]]
    /\ UNCHANGED <<now, level, retain, automation>>

\* !putgroup
Promote(p) ==
    /\ p \notin Bots /\ ~IsMember(p)
    /\ level' = [level EXCEPT ![p] = NonMember + 1]
    /\ UNCHANGED <<now, roster, authed, kicked, pending, retain, automation>>

Tick ==
    /\ now < MaxTime
    /\ now' = now + 1
    /\ UNCHANGED <<roster, authed, level, kicked, pending, retain, automation>>

Does(p) == Enter(p) \/ Leave(p) \/ Auth(p) \/ Promote(p) \/ Request(p)

Next == Tick \/ Automate \/ Expire \/ RunPending \/ \E p \in Players : Does(p)

Spec == Init /\ [][Next]_vars

-----------------------------------------------------------------------------
TypeOK ==
    /\ now \in 1..MaxTime
    /\ ToSet(roster) \subseteq Players /\ IsInjective(roster)
    /\ authed \cup kicked \subseteq ToSet(roster)
    /\ Cardinality(retain) <= 1
    /\ \A i \in DOMAIN pending : pending[i].target \in Players \cup {Unasked, Gone}

\* While a slot is held, whoever comes and goes in the meantime, the server has it free for a
\* member, but for the bots it adds and for players who have yet to be identified.
\* (plugins/makeroom/__init__.py:295-320, 354-374)
HeldSlotIsFree ==
    Held # {} => Cardinality((ToSet(roster) \cap authed) \ (kicked \cup Bots)) < Slots

=============================================================================
