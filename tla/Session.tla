------------------------------- MODULE Session -------------------------------
(****************************************************************************)
(* Who is in which slot, and as whom (runtime/bot.py with the Call of Duty   *)
(* parser).  The game server seats players and writes a log; the bot reads   *)
(* the log line by line, polls the status table for the players who join     *)
(* (AuthTasks), reconciles its roster with that table every few minutes, and *)
(* backs each client with a database record before serving it.               *)
(*                                                                          *)
(* A guid the log spells and the guid the status table spells may differ     *)
(* (CoD4X); the row carries both.  A guid prefix is taken for the guid.      *)
(* The status table is `table`: the server's answer lags its own seats, and  *)
(* Rcon caches it, so a read may be arbitrarily old.  The run loop awaits    *)
(* each line, so lines and reconciliations do not overlap; polls run between *)
(* them.  The name-length check of _on_join has no effect on these titles    *)
(* (name_max_length is 0).                                                   *)
(****************************************************************************)
EXTENDS AuthTasks, Sequences, FiniteSets, Functions

CONSTANTS
    Players,       \* the people who play
    LogGuid,       \* the guid the log prints for each of them
    TableGuid,     \* the guid the status table prints for each of them
    KeyedOnLog,    \* profile.identity_field = "guid"
    None,          \* an empty slot, guid, id or address
    MaxEvents,     \* how many log lines the server ever causes
    MaxUnread,     \* how far the bot may lag behind the log
    MaxMissed,     \* how many lines it ignores (lost, or read while paused)
    MaxUnreadable  \* how many status tables it cannot parse

ASSUME BoundsAssumption == MaxEvents \in Nat /\ MaxMissed \in Nat /\ MaxUnreadable \in Nat
ASSUME SlotsAssumption == IsFiniteSet(Slots)
ASSUME GuidAssumption ==
    /\ None \notin Players
    /\ DOMAIN LogGuid = Players /\ DOMAIN TableGuid = Players
    /\ \A p \in Players : LogGuid[p] # None /\ TableGuid[p] # None
    /\ \A p, q \in Players : p # q =>
        {LogGuid[p], TableGuid[p]} \cap {LogGuid[q], TableGuid[q]} = {}
    /\ KeyedOnLog => LogGuid = TableGuid

VARIABLES
    seat,     \* the server: who plays in each slot
    table,    \* the status table a query would be answered with
    lines,    \* log lines the bot has not read yet
    client,   \* ClientManager: the client known in each slot, or None
    banned,   \* storage: the guids whose record has a ban in force
    events,   \* log lines the server may still cause
    missed,   \* log lines that may still be ignored
    unreadable  \* status tables that may still be unreadable

server == <<seat, table, events>>
bot == <<client, banned>>
vars == <<authVars, seat, table, lines, client, banned, events, missed, unreadable>>

Guids == {LogGuid[p] : p \in Players} \cup {TableGuid[p] : p \in Players}
Kinds == {"join", "quit", "say", "act", "kill"}
Lines == [kind : Kinds, slot : Slots, who : Players]
Clients == [guid : Guids \cup {None}, id : Guids \cup {None}, confirmed : BOOLEAN,
            authed : BOOLEAN, rejected : BOOLEAN, ip : Players \cup {None}]
ASSUME NoneAssumption == None \notin Clients

Init ==
    /\ AuthInit
    /\ seat \in [Slots -> Players \cup {None}]
    /\ \A s, r \in Slots : seat[s] = seat[r] /\ seat[s] # None => s = r
    /\ table = seat
    /\ lines = <<>>
    /\ client = [s \in Slots |-> None]
    /\ banned \in SUBSET {TableGuid[p] : p \in Players}
    /\ events = MaxEvents
    /\ missed = MaxMissed
    /\ unreadable = MaxUnreadable

-----------------------------------------------------------------------------
(* The game server.                                                         *)

Writes(kind, s, p) ==
    /\ events > 0
    /\ Len(lines) < MaxUnread
    /\ events' = events - 1
    /\ lines' = Append(lines, [kind |-> kind, slot |-> s, who |-> p])
    /\ UNCHANGED <<authVars, table, bot, missed, unreadable>>

Connect(s, p) ==
    /\ seat[s] = None
    /\ \A r \in Slots : seat[r] # p
    /\ seat' = [seat EXCEPT ![s] = p]
    /\ Writes("join", s, p)

Leave(s) ==
    /\ seat[s] # None
    /\ seat' = [seat EXCEPT ![s] = None]
    /\ Writes("quit", s, seat[s])

\* A line about a seated player: chat, a line that carries a guid, a kill line
\* (whose guid the parser does not read), or the join line a map change repeats.
Mention(kind, s) ==
    /\ kind \in {"join", "say", "act", "kill"}
    /\ seat[s] # None
    /\ Writes(kind, s, seat[s])
    /\ UNCHANGED seat

Refresh ==
    /\ table # seat
    /\ table' = seat
    /\ UNCHANGED <<authVars, seat, lines, bot, events, missed, unreadable>>

-----------------------------------------------------------------------------
(* A client and its record.                                                 *)

Fresh == [guid |-> None, id |-> None, confirmed |-> FALSE,
          authed |-> FALSE, rejected |-> FALSE, ip |-> None]

\* _get_or_create: the guid of a line counts only where none is known.
Seen(s, guid) ==
    LET c == IF client[s] = None THEN Fresh ELSE client[s]
    IN  IF c.guid = None THEN [c EXCEPT !.guid = guid] ELSE c

\* Mutant: the guid of the log is taken for the identity on every title.
IdentityAlwaysUsable(c) == TRUE

IdentityIsUsable(c) == KeyedOnLog \/ c.confirmed

\* Mutant: a record is loaded without looking for a ban.
AuthenticateBlindly(c) ==
    IF c.rejected \/ c.authed \/ (c.guid # None /\ ~IdentityIsUsable(c))
    THEN c
    ELSE [c EXCEPT !.id = c.guid, !.authed = TRUE]

\* _authenticate: load or create the record, then re-apply a ban in force.  A
\* client without a guid has no record and so no ban.
Authenticate(c) ==
    IF c.rejected \/ c.authed \/ (c.guid # None /\ ~IdentityIsUsable(c))
    THEN c
    ELSE [c EXCEPT !.id = c.guid,
                   !.rejected = c.guid \in banned,
                   !.authed = c.guid \notin banned]

NamesTheSamePlayer(guid, p) == guid \in {LogGuid[p], TableGuid[p]}

\* _adopt_identity: re-key the client and authenticate it again.
AdoptIdentity(c, p) ==
    Authenticate([c EXCEPT !.guid = TableGuid[p], !.id = None,
                           !.authed = FALSE, !.confirmed = TRUE])

QuitLine(s) == [kind |-> "quit", slot |-> s, who |-> seat[s]]

\* The ban verb sent for the slots struck: each command reaches the server, which
\* throws out whoever sits in that slot and logs it, or is lost.
Enforce(struck, rest) ==
    \E hit \in SUBSET {s \in struck : seat[s] # None} :
        /\ seat' = [s \in Slots |-> IF s \in hit THEN None ELSE seat[s]]
        /\ \E order \in [1..Cardinality(hit) -> hit] :
              /\ IsInjective(order)
              /\ lines' = rest \o [i \in 1..Cardinality(hit) |-> QuitLine(order[i])]
        /\ UNCHANGED <<table, events, unreadable>>

NewlyRejected(c, d) == d.rejected /\ (c = None \/ ~c.rejected)

\* The client of one slot becomes d.
Update(s, d, rest) ==
    /\ client' = [client EXCEPT ![s] = d]
    /\ Enforce(IF NewlyRejected(client[s], d) THEN {s} ELSE {}, rest)

-----------------------------------------------------------------------------
(* Reading the log.                                                         *)

Reading(kind) == lines # <<>> /\ Head(lines).kind = kind

\* A line that never reaches the parser: lost on the way, or read during !pause.
Miss ==
    /\ lines # <<>>
    /\ missed > 0
    /\ missed' = missed - 1
    /\ lines' = Tail(lines)
    /\ UNCHANGED <<authVars, server, bot, unreadable>>

FeedJoin ==
    /\ Reading("join")
    /\ LET s == Head(lines).slot
           c == [Seen(s, LogGuid[Head(lines).who]) EXCEPT !.authed = FALSE]
           d == Authenticate(c)
       IN  /\ Update(s, d, Tail(lines))
           /\ IF ~d.rejected /\ (~d.authed \/ d.ip = None)
              THEN Schedule(s)
              ELSE UNCHANGED authVars
    /\ UNCHANGED <<banned, missed>>

FeedQuit ==
    /\ Reading("quit")
    /\ LET s == Head(lines).slot
       IN  /\ client' = [client EXCEPT ![s] = None]
           /\ IF client[s] = None THEN UNCHANGED authVars ELSE Cancel({s})
    /\ lines' = Tail(lines)
    /\ UNCHANGED <<server, banned, missed, unreadable>>

\* A line that makes the player known and authenticates nobody.
FeedMention ==
    /\ Reading("act") \/ Reading("kill")
    /\ LET line == Head(lines)
           guid == IF line.kind = "act" THEN LogGuid[line.who] ELSE None
       IN  client' = [client EXCEPT ![line.slot] = Seen(line.slot, guid)]
    /\ lines' = Tail(lines)
    /\ UNCHANGED <<authVars, server, banned, missed, unreadable>>

\* Mutant: an answer is applied to whoever is in the slot by now.
ResolveAnyone(c, p) ==
    IF c.guid = None THEN [c EXCEPT !.ip = p]
    ELSE IF c.guid # TableGuid[p] THEN [AdoptIdentity(c, p) EXCEPT !.ip = p]
    ELSE IF ~c.authed
         THEN [Authenticate([c EXCEPT !.confirmed = TRUE]) EXCEPT !.ip = p]
    ELSE [c EXCEPT !.ip = p]

\* What a status answer for the slot makes of a client (_on_resolved).
Resolve(c, p) ==
    IF c.guid = None THEN [c EXCEPT !.ip = p]
    ELSE IF ~NamesTheSamePlayer(c.guid, p) THEN c
    ELSE IF c.guid # TableGuid[p] THEN [AdoptIdentity(c, p) EXCEPT !.ip = p]
    ELSE IF ~c.authed
         THEN [Authenticate([c EXCEPT !.confirmed = TRUE]) EXCEPT !.ip = p]
    ELSE [c EXCEPT !.ip = p]

\* _on_say and _identify_now: whoever is not authenticated and not banned is
\* looked up in the table before what they typed runs as a command; a table that
\* cannot be read or does not show the slot leaves the client as it is.
FeedSay ==
    /\ Reading("say")
    /\ \E answered \in BOOLEAN :
       LET line == Head(lines)
           c == Authenticate(Seen(line.slot, LogGuid[line.who]))
           ask == ~c.authed /\ ~c.rejected /\ ~IdentityIsUsable(c)
           d == IF ask /\ answered /\ table[line.slot] # None
                THEN Resolve(c, table[line.slot]) ELSE c
       IN  Update(line.slot, d, Tail(lines))
    /\ UNCHANGED <<authVars, banned, missed>>

-----------------------------------------------------------------------------
(* The status polls.                                                        *)

\* A poll starts, asks, finds nothing yet, gives up or is cancelled.
PollStep(t) ==
    /\ Start(t) \/ Ask(t) \/ Cancelled(t) \/ NotYet(t)
    /\ UNCHANGED <<server, lines, bot, missed, unreadable>>

\* _resolve_auth found the slot in the table; _on_resolved runs at once.
PollAnswered(t) ==
    LET s == slotOf[t] IN
    /\ Resolved(t)
    /\ table[s] # None
    /\ IF client[s] = None
       THEN UNCHANGED <<seat, table, events, lines, client, unreadable>>
       ELSE Update(s, Resolve(client[s], table[s]), lines)
    /\ UNCHANGED <<banned, missed>>

-----------------------------------------------------------------------------
(* The periodic sync.                                                       *)

\* Mutant: a slot whose occupant changed keeps its client.
ReconciledKeepingSlot(s) ==
    LET p == table[s]
        c == client[s]
        adopted == Authenticate([Fresh EXCEPT !.guid = TableGuid[p], !.confirmed = TRUE,
                                              !.ip = p])
    IN  IF p = None THEN None
        ELSE IF c = None THEN adopted
        ELSE [c EXCEPT !.ip = p]

\* What _reconcile makes of one slot, given the row of the table for it.
Reconciled(s) ==
    LET p == table[s]
        c == client[s]
        adopted == Authenticate([Fresh EXCEPT !.guid = TableGuid[p], !.confirmed = TRUE,
                                              !.ip = p])
    IN  IF p = None THEN None
        ELSE IF c = None THEN adopted
        ELSE IF c.guid = None THEN [c EXCEPT !.ip = p]
        ELSE IF ~NamesTheSamePlayer(c.guid, p) THEN adopted
        ELSE IF c.guid # TableGuid[p] THEN [AdoptIdentity(c, p) EXCEPT !.ip = p]
        ELSE [c EXCEPT !.ip = p]

\* _drop_client: the slots whose client goes, replaced or not.
Dropped(s) ==
    /\ client[s] # None
    /\ \/ table[s] = None
       \/ client[s].guid # None /\ ~NamesTheSamePlayer(client[s].guid, table[s])

Sync ==
    /\ client' = [s \in Slots |-> Reconciled(s)]
    /\ Enforce({s \in Slots : client'[s] # None /\
                    NewlyRejected(IF Dropped(s) THEN None ELSE client[s], client'[s])},
               lines)
    /\ Cancel({s \in Slots : Dropped(s)})
    /\ UNCHANGED <<banned, missed>>

\* _scheduled_sync hands _reconcile the empty list get_players answers with when
\* no row of the table could be read.
SyncUnreadable ==
    /\ unreadable > 0
    /\ \E s \in Slots : table[s] # None
    /\ unreadable' = unreadable - 1
    /\ client' = [s \in Slots |-> None]
    /\ Cancel({s \in Slots : client[s] # None})
    /\ UNCHANGED <<server, lines, banned, missed>>

\* The scheduled sync, of a table that can be read or not.
ScheduledSync(readable) == IF readable THEN Sync ELSE SyncUnreadable

-----------------------------------------------------------------------------
\* An admin bans a client.  The penalty is recorded first and sent second; a
\* client whose record is not loaded is saved under the guid it has, and one
\* without a guid cannot be recorded at all.
Ban(s) ==
    LET c == client[s]
        id == IF c.id = None THEN c.guid ELSE c.id
    IN  /\ c # None
        /\ client' = [client EXCEPT ![s].id = id]
        /\ banned' = banned \cup ({id} \ {None})
        /\ Enforce({s}, lines)
        /\ UNCHANGED <<authVars, missed>>

Unban(g) ==
    /\ g \in banned
    /\ banned' = banned \ {g}
    /\ UNCHANGED <<authVars, server, lines, client, missed, unreadable>>

Feed == FeedJoin \/ FeedQuit \/ FeedMention \/ FeedSay

Poll(t) == PollStep(t) \/ PollAnswered(t)

Environment ==
    \/ \E s \in Slots : Leave(s) \/ \E p \in Players : Connect(s, p)
    \/ \E s \in Slots, kind \in Kinds : Mention(kind, s)
    \/ Miss

Next ==
    \/ Environment \/ Refresh
    \/ Feed
    \/ \E t \in Tasks : Poll(t)
    \/ \E readable \in BOOLEAN : ScheduledSync(readable)
    \/ \E s \in Slots : Ban(s)
    \/ \E g \in Guids : Unban(g)

Spec == Init /\ [][Next]_vars

\* The run loop keeps reading the log and ticking the scheduler, the event loop
\* keeps running the polls, and the server's table catches up with its seats.
\* Nothing makes a player, an admin or a lost line happen.
FairSpec ==
    /\ Spec
    /\ WF_vars(Feed) /\ WF_vars(Sync) /\ WF_vars(Refresh)
    /\ \A t \in Tasks : WF_vars(Poll(t))

-----------------------------------------------------------------------------
TypeOK ==
    /\ AuthTypeOK
    /\ seat \in [Slots -> Players \cup {None}]
    /\ table \in [Slots -> Players \cup {None}]
    /\ lines \in Seq(Lines)
    /\ client \in [Slots -> Clients \cup {None}]
    /\ banned \subseteq Guids
    /\ events \in 0..MaxEvents /\ missed \in 0..MaxMissed
    /\ unreadable \in 0..MaxUnreadable

\* Nobody is authenticated on a record that is not theirs to keep: where the log
\* spells a player otherwise than the status table, only the table's spelling is
\* ever authenticated.  (bot.py:827-900, _identity_is_usable and _authenticate)
AuthedOnIdentity ==
    \A s \in Slots : client[s] # None /\ client[s].authed =>
        /\ client[s].id = client[s].guid
        /\ client[s].id \in {TableGuid[p] : p \in Players}

\* A client that keeps its slot stays the same person: a late status answer, a
\* line or a ban changes its spelling at most, and only the sync gives the slot
\* to somebody else.  (bot.py:797-826 and 1728-1793)
IdentityIsStable ==
    [][Sync \/ \A s \in Slots, p \in Players :
         /\ client[s] # None /\ client[s].guid # None /\ client'[s] # None
         /\ NamesTheSamePlayer(client[s].guid, p)
         => NamesTheSamePlayer(client'[s].guid, p)]_vars

\* Who is admitted: the record each authenticated client runs under.
Admitted == [s \in Slots |-> IF client[s] # None /\ client[s].authed
                             THEN client[s].id ELSE None]

\* Through joins, chat, late answers and reconciliations alike, nobody whose
\* record holds a ban in force becomes authenticated.
Admission == INSTANCE Admission WITH Ids <- Guids, admitted <- Admitted
ImplementsAdmission == Admission!Spec

\* Once nobody comes or goes, the roster is the server's: a client in every
\* taken slot and in no other, and none with another player's guid, whatever
\* lines were lost on the way.  (bot.py:1711-1793, sync)
RosterSettles ==
    <>[](\A s \in Slots :
           /\ (client[s] = None) <=> (seat[s] = None)
           /\ client[s] # None /\ client[s].guid # None
                => NamesTheSamePlayer(client[s].guid, seat[s]))

\* "an unreadable table is no evidence that anybody left" (bot.py:1720)
UnreadableDropsNobody == [][unreadable' < unreadable => client' = client]_vars

\* "our own record is the source of truth, and `enforce_ban` re-applies it on the
\* player's next connect" (bot.py:1923-1926): nobody is admitted while either of
\* their guids holds a ban.
BanFollowsThePlayer ==
    [][\A s \in Slots, p \in Players :
         Admitted'[s] = TableGuid[p] /\ Admitted[s] # TableGuid[p]
         => {LogGuid[p], TableGuid[p]} \cap banned = {}]_vars

=============================================================================
