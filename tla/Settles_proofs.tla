---------------------------- MODULE Settles_proofs ----------------------------
(* The session, for any set of slots, players and polls, and the other parts   *)
(* of MCSettles, for any players, teams, paces and bounds: the wait for a       *)
(* match, duels, and the teams of Urban Terror and of the four games of         *)
(* TeamBalance.                                                                *)
EXTENDS MCSettles, FiniteSetTheorems, SequenceTheorems

-----------------------------------------------------------------------------
(* The session.                                                               *)

TableGuids == {TableGuid[p] : p \in Players}

\* A client that may stand in the roster: what the status table confirmed, and
\* what is authenticated, is a guid of the table.
Sound(c) ==
    /\ c \in Clients
    /\ c.confirmed => c.guid \in TableGuids
    /\ c.authed => c.id = c.guid /\ c.id \in TableGuids

\* What the runs' invariants need to be inductive.
SessionTypes ==
    /\ seat \in [Slots -> Players \cup {None}]
    /\ table \in [Slots -> Players \cup {None}]
    /\ lines \in Seq(Lines)
    /\ client \in [Slots -> Clients \cup {None}]
    /\ banned \subseteq Guids

SoundRoster == \A s \in Slots : client[s] # None => Sound(client[s])

\* d may follow c in a slot: it is admitted under an unbanned record, or stays
\* admitted under the record it had.
Justly(c, d) ==
    d.authed => d.id \in Guids \ banned \/ (c # None /\ c.authed /\ d.id = c.id)

-----------------------------------------------------------------------------
(* The operators on clients.                                                  *)

LEMMA GuidsOfPlayers ==
  ASSUME NEW p \in Players
  PROVE  /\ LogGuid[p] \in Guids /\ LogGuid[p] # None
         /\ TableGuid[p] \in TableGuids /\ TableGuid[p] \in Guids /\ TableGuid[p] # None
         /\ KeyedOnLog => LogGuid[p] \in TableGuids
  BY GuidAssumption DEF Guids, TableGuids

LEMMA FreshSound == Sound(Fresh) /\ Fresh.authed = FALSE /\ Fresh.guid = None
  BY DEF Sound, Fresh, Clients

\* Learning a guid keeps a client sound.
LEMMA SeenSound ==
  ASSUME NEW s \in Slots, client[s] # None => Sound(client[s]), NEW g \in Guids \cup {None}
  PROVE  /\ Sound(Seen(s, g))
         /\ g # None => Seen(s, g).guid # None
         /\ Justly(client[s], Seen(s, g))
<1> DEFINE c == IF client[s] = None THEN Fresh ELSE client[s]
<1>1. Sound(c) /\ (c.guid = None => ~c.authed \/ c.id = None)
  BY FreshSound DEF Sound
<1>2. CASE c.guid = None
  <2>1. None \notin TableGuids
    BY GuidAssumption DEF TableGuids
  <2>2. ~c.confirmed /\ ~c.authed
    BY <1>1, <1>2, <2>1 DEF Sound
  <2>3. Seen(s, g) = [c EXCEPT !.guid = g]
    BY <1>2 DEF Seen
  <2> QED
    BY <1>1, <2>2, <2>3 DEF Sound, Clients, Justly
<1>3. CASE c.guid # None
  <2>1. Seen(s, g) = c
    BY <1>3 DEF Seen
  <2> QED
    BY <1>1, <1>3, <2>1, FreshSound DEF Justly, Sound, Clients
<1> QED
  BY <1>2, <1>3

\* _authenticate admits nobody under a record with a ban, and on a title keyed on
\* the status table nobody it has not confirmed.
LEMMA AuthenticateSound ==
  ASSUME NEW c, Sound(c), c.guid # None, banned \subseteq Guids
  PROVE  /\ Sound(Authenticate(c))
         /\ Justly(c, Authenticate(c))
         /\ Authenticate(c).guid = c.guid
<1>0. c \in Clients /\ c # None
  BY NoneAssumption DEF Sound
<1>1. CASE c.rejected \/ c.authed \/ ~IdentityIsUsable(c)
  <2>1. Authenticate(c) = c
    BY <1>1 DEF Authenticate
  <2> QED
    BY <1>0, <2>1 DEF Sound, Justly
<1>2. CASE ~(c.rejected \/ c.authed \/ ~IdentityIsUsable(c))
  <2>1. c.guid \in TableGuids /\ c.guid \in Guids
    BY <1>0, <1>2, GuidAssumption DEF Sound, Clients, IdentityIsUsable, Guids, TableGuids
  <2>2. Authenticate(c) = [c EXCEPT !.id = c.guid, !.rejected = c.guid \in banned,
                                    !.authed = c.guid \notin banned]
    BY <1>2 DEF Authenticate
  <2> DEFINE b == c.guid \in banned
  <2>3. b \in BOOLEAN /\ ~b = (c.guid \notin banned)
    OBVIOUS
  <2>4. Authenticate(c) = [c EXCEPT !.id = c.guid, !.rejected = b, !.authed = ~b]
    BY <2>2, <2>3
  <2> HIDE DEF b
  <2>5. Authenticate(c) \in Clients
    BY <1>0, <2>1, <2>3, <2>4 DEF Clients
  <2>6. /\ Authenticate(c).guid = c.guid /\ Authenticate(c).id = c.guid
        /\ Authenticate(c).confirmed = c.confirmed /\ Authenticate(c).authed = ~b
    BY <1>0, <2>4 DEF Clients
  <2> QED
    BY <2>1, <2>5, <2>6 DEF Sound, Justly, b
<1> QED
  BY <1>1, <1>2

\* An adopted identity is the table's.
LEMMA AdoptSound ==
  ASSUME NEW c, Sound(c), NEW p \in Players, banned \subseteq Guids
  PROVE  /\ Sound(AdoptIdentity(c, p))
         /\ AdoptIdentity(c, p).authed => AdoptIdentity(c, p).id \in Guids \ banned
<1> DEFINE d == [c EXCEPT !.guid = TableGuid[p], !.id = None,
                          !.authed = FALSE, !.confirmed = TRUE]
<1>1. Sound(d) /\ d.guid # None /\ ~d.authed
  BY GuidsOfPlayers DEF Sound, Clients
<1> HIDE DEF d
<1>2. Sound(Authenticate(d)) /\ Justly(d, Authenticate(d))
  BY <1>1, AuthenticateSound
<1> QED
  BY <1>1, <1>2 DEF AdoptIdentity, Justly, d

\* Filling in the address changes neither.
LEMMA AddressSound ==
  ASSUME NEW c, Sound(c), NEW p \in Players
  PROVE  /\ Sound([c EXCEPT !.ip = p])
         /\ [c EXCEPT !.ip = p].authed = c.authed
         /\ [c EXCEPT !.ip = p].id = c.id
  BY DEF Sound, Clients

\* What a status answer makes of a client.
LEMMA ResolveSound ==
  ASSUME NEW c, Sound(c), NEW p \in Players, banned \subseteq Guids
  PROVE  Sound(Resolve(c, p)) /\ Justly(c, Resolve(c, p))
<1>0. c \in Clients /\ c # None
  BY NoneAssumption DEF Sound
<1> DEFINE d == IF c.guid = None THEN c
                ELSE IF ~NamesTheSamePlayer(c.guid, p) THEN c
                ELSE IF c.guid # TableGuid[p] THEN AdoptIdentity(c, p)
                ELSE IF ~c.authed THEN Authenticate([c EXCEPT !.confirmed = TRUE])
                ELSE c
<1>1. Sound(d) /\ Justly(c, d)
  <2>1. CASE d = c
    BY <1>0, <2>1 DEF Justly
  <2>2. CASE d = AdoptIdentity(c, p)
    BY <2>2, AdoptSound DEF Justly
  <2>3. CASE /\ c.guid # None /\ c.guid = TableGuid[p] /\ ~c.authed
             /\ d = Authenticate([c EXCEPT !.confirmed = TRUE])
    <3> DEFINE e == [c EXCEPT !.confirmed = TRUE]
    <3>1. Sound(e) /\ e.guid # None /\ ~e.authed
      BY <2>3, GuidsOfPlayers DEF Sound, Clients
    <3> HIDE DEF e
    <3>2. Sound(Authenticate(e)) /\ Justly(e, Authenticate(e))
      BY <3>1, AuthenticateSound
    <3> QED
      BY <2>3, <3>1, <3>2 DEF Justly, e
  <2> QED
    BY <2>1, <2>2, <2>3
<1>2. Resolve(c, p) = d \/ Resolve(c, p) = [d EXCEPT !.ip = p]
  BY DEF Resolve
<1> HIDE DEF d
<1> QED
  BY <1>1, <1>2, AddressSound DEF Justly

\* What the sync makes of a slot.
LEMMA ReconciledSound ==
  ASSUME NEW s \in Slots, SessionTypes, SoundRoster
  PROVE  /\ Reconciled(s) # None => Sound(Reconciled(s))
         /\ Reconciled(s) # None => Justly(client[s], Reconciled(s))
<1> DEFINE p == table[s]
           c == client[s]
           new == [Fresh EXCEPT !.guid = TableGuid[p], !.confirmed = TRUE, !.ip = p]
<1>1. CASE p = None
  BY <1>1 DEF Reconciled
<1>2. CASE p # None
  <2>1. p \in Players
    BY <1>2 DEF SessionTypes
  <2>2. Sound(new) /\ new.guid # None /\ ~new.authed
    BY <2>1, GuidsOfPlayers DEF Sound, Clients, Fresh
  <2>3. Sound(Authenticate(new)) /\ Justly(c, Authenticate(new))
    <3> HIDE DEF new
    <3>1. Sound(Authenticate(new)) /\ Justly(new, Authenticate(new))
      BY <2>2, AuthenticateSound DEF SessionTypes
    <3> QED
      BY <2>2, <3>1 DEF Justly
  <2>4. CASE Reconciled(s) = Authenticate(new)
    BY <2>3, <2>4
  <2>5. CASE c # None /\ Reconciled(s) = [c EXCEPT !.ip = p]
    BY <2>1, <2>5, AddressSound DEF SoundRoster, Justly
  <2>6. CASE c # None /\ Reconciled(s) = [AdoptIdentity(c, p) EXCEPT !.ip = p]
    <3>1. Sound(AdoptIdentity(c, p))
          /\ (AdoptIdentity(c, p).authed => AdoptIdentity(c, p).id \in Guids \ banned)
      BY <2>1, <2>6, AdoptSound DEF SoundRoster, SessionTypes
    <3> QED
      BY <2>1, <2>6, <3>1, AddressSound DEF Justly
  <2> QED
    BY <1>2, <2>4, <2>5, <2>6 DEF Reconciled
<1> QED
  BY <1>1, <1>2

-----------------------------------------------------------------------------
(* The steps.                                                                 *)

\* What a step that leaves the bans alone may do to the roster.
JustStep ==
    /\ SessionTypes'
    /\ banned' = banned
    /\ \A s \in Slots : client'[s] # None =>
           Sound(client'[s]) /\ (client'[s] = client[s] \/ Justly(client[s], client'[s]))

LEMMA NextLine ==
  ASSUME lines \in Seq(Lines), lines # <<>>
  PROVE  /\ Head(lines) \in Lines /\ Head(lines).slot \in Slots
         /\ Head(lines).who \in Players /\ Tail(lines) \in Seq(Lines)
<1>1. Head(lines) \in Lines /\ Tail(lines) \in Seq(Lines)
  BY HeadTailProperties
<1> QED
  BY <1>1 DEF Lines

\* Bans that throw players out leave the server, and the log, in their types.
LEMMA EnforceTypes ==
  ASSUME SessionTypes, NEW struck \in SUBSET Slots, NEW rest \in Seq(Lines),
         Enforce(struck, rest)
  PROVE  /\ seat' \in [Slots -> Players \cup {None}]
         /\ table' = table /\ events' = events /\ unreadable' = unreadable
         /\ lines' \in Seq(Lines)
<1>1. PICK hit \in SUBSET {s \in struck : seat[s] # None} :
        /\ seat' = [s \in Slots |-> IF s \in hit THEN None ELSE seat[s]]
        /\ \E order \in [1..Cardinality(hit) -> hit] :
              lines' = rest \o [i \in 1..Cardinality(hit) |-> QuitLine(order[i])]
        /\ UNCHANGED <<table, events, unreadable>>
  BY DEF Enforce
<1>2. seat' \in [Slots -> Players \cup {None}]
  BY <1>1 DEF SessionTypes
<1>3. Cardinality(hit) \in Nat
  BY SlotsAssumption, FS_Subset, FS_CardinalityType
<1>4. PICK order \in [1..Cardinality(hit) -> hit] :
        lines' = rest \o [i \in 1..Cardinality(hit) |-> QuitLine(order[i])]
  BY <1>1
<1> DEFINE n == Cardinality(hit)
           quits == [i \in 1..n |-> QuitLine(order[i])]
<1>5. \A i \in 1..n : QuitLine(order[i]) \in Lines
  <2> SUFFICES ASSUME NEW i \in 1..n PROVE QuitLine(order[i]) \in Lines
    OBVIOUS
  <2>1. order[i] \in Slots /\ seat[order[i]] \in Players
    BY DEF SessionTypes
  <2> QED
    BY <2>1 DEF QuitLine, Lines, Kinds
<1>6. quits \in Seq(Lines)
  <2>1. quits \in [1..n -> Lines]
    BY <1>5
  <2> QED
    BY <1>3, <2>1, SeqDef
<1>7. rest \o quits \in Seq(Lines)
  BY <1>6, ConcatProperties
<1> QED
  BY <1>1, <1>2, <1>4, <1>7

LEMMA UpdateSound ==
  ASSUME SessionTypes, SoundRoster, NEW s \in Slots, NEW d, NEW rest \in Seq(Lines),
         Sound(d), Justly(client[s], d), Update(s, d, rest), banned' = banned
  PROVE  JustStep /\ events' = events /\ unreadable' = unreadable
<1> DEFINE struck == IF NewlyRejected(client[s], d) THEN {s} ELSE {}
<1>1. struck \in SUBSET Slots
  OBVIOUS
<1>2. Enforce(struck, rest) /\ client' = [client EXCEPT ![s] = d]
  BY DEF Update
<1> HIDE DEF struck
<1>3. /\ seat' \in [Slots -> Players \cup {None}]
      /\ table' = table /\ events' = events /\ unreadable' = unreadable
      /\ lines' \in Seq(Lines)
  BY <1>1, <1>2, EnforceTypes
<1>4. d \in Clients
  BY DEF Sound
<1>5. SessionTypes'
  BY <1>2, <1>3, <1>4 DEF SessionTypes
<1>6. \A r \in Slots : client'[r] # None =>
         Sound(client'[r]) /\ (client'[r] = client[r] \/ Justly(client[r], client'[r]))
  BY <1>2 DEF SessionTypes, SoundRoster
<1> QED
  BY <1>3, <1>5, <1>6 DEF JustStep

\* The log.
LEMMA FeedJust ==
  ASSUME SessionTypes, SoundRoster, Feed
  PROVE  JustStep /\ events' = events /\ unreadable' = unreadable
<1> DEFINE line == Head(lines)
           s == line.slot
           rest == Tail(lines)
<1>0. lines # <<>> /\ lines \in Seq(Lines) /\ banned \subseteq Guids
  BY DEF Feed, FeedJoin, FeedQuit, FeedMention, FeedSay, Reading, SessionTypes
<1>1. s \in Slots /\ line.who \in Players /\ rest \in Seq(Lines)
  BY <1>0, NextLine
<1>2. \A g \in Guids \cup {None} :
        /\ Sound(Seen(s, g)) /\ Justly(client[s], Seen(s, g))
        /\ g # None => Seen(s, g).guid # None
  BY <1>1, SeenSound DEF SoundRoster
<1>3. /\ LogGuid[line.who] \in Guids \cup {None} /\ LogGuid[line.who] # None
      /\ Sound(Seen(s, LogGuid[line.who])) /\ Seen(s, LogGuid[line.who]).guid # None
      /\ Justly(client[s], Seen(s, LogGuid[line.who]))
  BY <1>1, <1>2, GuidsOfPlayers
<1> HIDE DEF s, rest
<1>4. CASE FeedJoin
  <2> DEFINE c == [Seen(s, LogGuid[line.who]) EXCEPT !.authed = FALSE]
             d == Authenticate(c)
  <2>1. Sound(c) /\ c.guid # None /\ ~c.authed
    BY <1>3 DEF Sound, Clients
  <2>2. Update(s, d, rest) /\ banned' = banned
    BY <1>4 DEF FeedJoin, s, rest
  <2> HIDE DEF c
  <2>3. Sound(d) /\ Justly(c, d)
    BY <1>0, <2>1, AuthenticateSound
  <2>4. Justly(client[s], d)
    BY <2>1, <2>3 DEF Justly
  <2> HIDE DEF d
  <2> QED
    BY <1>1, <2>2, <2>3, <2>4, UpdateSound
<1>5. CASE FeedQuit
  <2>1. /\ client' = [client EXCEPT ![s] = None]
        /\ lines' = rest /\ UNCHANGED <<server, banned, unreadable>>
    BY <1>5 DEF FeedQuit, s, rest
  <2>2. SessionTypes'
    BY <1>1, <2>1 DEF SessionTypes, server
  <2>3. \A r \in Slots : client'[r] # None => client'[r] = client[r]
    BY <1>1, <2>1 DEF SessionTypes
  <2> QED
    BY <2>1, <2>2, <2>3 DEF JustStep, SoundRoster, server
<1>6. CASE FeedMention
  <2> DEFINE guid == IF line.kind = "act" THEN LogGuid[line.who] ELSE None
             d == Seen(s, guid)
  <2>1. /\ client' = [client EXCEPT ![s] = d]
        /\ lines' = rest /\ UNCHANGED <<server, banned, unreadable>>
    BY <1>6 DEF FeedMention, s, rest
  <2>2. guid \in Guids \cup {None}
    BY <1>3
  <2>3. Sound(d) /\ Justly(client[s], d)
    BY <1>2, <2>2
  <2> HIDE DEF d
  <2>4. SessionTypes'
    BY <1>1, <2>1, <2>3 DEF SessionTypes, server, Sound
  <2>5. \A r \in Slots : client'[r] # None =>
           Sound(client'[r]) /\ (client'[r] = client[r] \/ Justly(client[r], client'[r]))
    BY <1>1, <2>1, <2>3 DEF SessionTypes, SoundRoster
  <2> QED
    BY <2>1, <2>4, <2>5 DEF JustStep, server
<1>7. CASE FeedSay
  <2> DEFINE seen == Seen(s, LogGuid[line.who])
             c == Authenticate(seen)
  <2>1. PICK answered \in BOOLEAN :
          LET ask == ~c.authed /\ ~c.rejected /\ ~IdentityIsUsable(c)
              d == IF ask /\ answered /\ table[s] # None THEN Resolve(c, table[s]) ELSE c
          IN  Update(s, d, rest)
    BY <1>7 DEF FeedSay, s, rest
  <2>2. Sound(c) /\ Justly(seen, c)
    <3> HIDE DEF seen
    <3>1. Sound(seen) /\ seen.guid # None
      BY <1>3 DEF seen
    <3> QED
      BY <1>0, <3>1, AuthenticateSound
  <2>3. Justly(client[s], c)
    BY <1>3, <2>2 DEF Justly
  <2> HIDE DEF c
  <2>4. CASE Update(s, c, rest)
    BY <1>1, <1>7, <2>2, <2>3, <2>4, UpdateSound DEF FeedSay
  <2>5. CASE ~c.authed /\ table[s] # None /\ Update(s, Resolve(c, table[s]), rest)
    <3> DEFINE d == Resolve(c, table[s])
    <3>1. Sound(d) /\ Justly(c, d)
      BY <1>0, <1>1, <2>2, <2>5, ResolveSound DEF SessionTypes
    <3>2. Update(s, d, rest)
      BY <2>5
    <3> HIDE DEF d
    <3>3. Justly(client[s], d)
      BY <2>5, <3>1 DEF Justly
    <3> QED
      BY <1>1, <1>7, <3>1, <3>2, <3>3, UpdateSound DEF FeedSay
  <2> QED
    BY <2>1, <2>4, <2>5
<1> QED
  BY <1>4, <1>5, <1>6, <1>7 DEF Feed

\* The status polls and the sync.
LEMMA PollJust ==
  ASSUME SessionTypes, SoundRoster, AuthTypeOK, NEW t \in Tasks, Poll(t)
  PROVE  JustStep /\ events' = events /\ unreadable' = unreadable
<1>1. CASE PollStep(t)
  BY <1>1 DEF PollStep, JustStep, SessionTypes, SoundRoster, server, bot
<1>2. CASE PollAnswered(t)
  <2> DEFINE s == slotOf[t]
  <2>1. s \in Slots /\ table[s] \in Players /\ banned \subseteq Guids /\ banned' = banned
        /\ lines \in Seq(Lines)
    BY <1>2 DEF PollAnswered, AuthTypeOK, SessionTypes
  <2>2. CASE client[s] = None
    BY <1>2, <2>2 DEF PollAnswered, JustStep, SessionTypes, SoundRoster
  <2>3. CASE client[s] # None
    <3> DEFINE d == Resolve(client[s], table[s])
    <3>1. Sound(client[s]) /\ Update(s, d, lines)
      BY <1>2, <2>1, <2>3 DEF PollAnswered, SoundRoster
    <3>2. Sound(d) /\ Justly(client[s], d)
      BY <2>1, <3>1, ResolveSound
    <3> HIDE DEF d
    <3> QED
      BY <2>1, <3>1, <3>2, UpdateSound
  <2> QED
    BY <2>2, <2>3
<1> QED
  BY <1>1, <1>2 DEF Poll

LEMMA SyncJust ==
  ASSUME SessionTypes, SoundRoster, Sync
  PROVE  JustStep /\ events' = events /\ unreadable' = unreadable
<1> DEFINE struck == {s \in Slots : client'[s] # None /\
                    NewlyRejected(IF Dropped(s) THEN None ELSE client[s], client'[s])}
<1>1. client' = [s \in Slots |-> Reconciled(s)] /\ Enforce(struck, lines) /\ banned' = banned
  BY DEF Sync
<1>2. struck \in SUBSET Slots
  OBVIOUS
<1> HIDE DEF struck
<1>3. /\ seat' \in [Slots -> Players \cup {None}]
      /\ table' = table /\ events' = events /\ unreadable' = unreadable
      /\ lines' \in Seq(Lines)
  BY <1>1, <1>2, EnforceTypes DEF SessionTypes
<1>4. \A s \in Slots : client'[s] # None =>
         Sound(client'[s]) /\ Justly(client[s], client'[s])
  BY <1>1, ReconciledSound
<1>5. client' \in [Slots -> Clients \cup {None}]
  <2>1. \A s \in Slots : Reconciled(s) \in Clients \cup {None}
    BY ReconciledSound DEF Sound
  <2> QED
    BY <1>1, <2>1
<1> QED
  BY <1>1, <1>3, <1>4, <1>5 DEF JustStep, SessionTypes

\* The server and the lost lines.
LEMMA EnvironmentJust ==
  ASSUME SessionTypes, SoundRoster, Environment \/ Refresh \/ SyncUnreadable
  PROVE  JustStep
<1> DEFINE Clientless == client' = client \/ client' = [s \in Slots |-> None]
<1>1. Clientless /\ banned' = banned
  BY DEF Environment, Refresh, SyncUnreadable, Leave, Connect, Mention, Miss, Writes, bot
<1>2. SessionTypes'
  <2>1. ASSUME NEW kind \in Kinds, NEW s \in Slots, NEW p \in Players, Writes(kind, s, p)
        PROVE  lines' \in Seq(Lines) /\ table' = table
    <3>1. [kind |-> kind, slot |-> s, who |-> p] \in Lines
      BY DEF Lines
    <3> QED
      BY <2>1, <3>1, AppendProperties DEF Writes, SessionTypes
  <2>2. ASSUME NEW s \in Slots, Leave(s) PROVE SessionTypes'
    <3>1. seat[s] \in Players /\ "quit" \in Kinds
      BY <2>2 DEF Leave, SessionTypes, Kinds
    <3> QED
      BY <1>1, <2>1, <2>2, <3>1 DEF Leave, SessionTypes
  <2>3. ASSUME NEW s \in Slots, NEW p \in Players, Connect(s, p) PROVE SessionTypes'
    <3>1. "join" \in Kinds
      BY DEF Kinds
    <3> QED
      BY <1>1, <2>1, <2>3, <3>1 DEF Connect, SessionTypes
  <2>4. ASSUME NEW s \in Slots, NEW kind \in Kinds, Mention(kind, s) PROVE SessionTypes'
    <3>1. seat[s] \in Players
      BY <2>4 DEF Mention, SessionTypes
    <3> QED
      BY <1>1, <2>1, <2>4, <3>1 DEF Mention, SessionTypes
  <2>5. CASE Miss
    <3>1. Tail(lines) \in Seq(Lines)
      BY <2>5, NextLine DEF Miss, SessionTypes
    <3> QED
      BY <1>1, <2>5, <3>1 DEF Miss, SessionTypes, server
  <2>6. CASE Refresh
    BY <1>1, <2>6 DEF Refresh, SessionTypes
  <2>7. CASE SyncUnreadable
    BY <1>1, <2>7 DEF SyncUnreadable, SessionTypes, server
  <2> QED
    BY <2>2, <2>3, <2>4, <2>5, <2>6, <2>7 DEF Environment
<1> QED
  BY <1>1, <1>2 DEF JustStep, SoundRoster

\* A ban records the client and admits nobody.
LEMMA BanStep ==
  ASSUME SessionTypes, SoundRoster, NEW s \in Slots, Ban(s)
  PROVE  /\ SessionTypes' /\ SoundRoster'
         /\ \A r \in Slots : client[r] = None => client'[r] = None
         /\ \A r \in Slots : client[r] # None =>
               /\ client'[r] # None /\ client'[r].authed = client[r].authed
               /\ client[r].authed => client'[r].id = client[r].id
         /\ events' = events /\ unreadable' = unreadable
<1> DEFINE c == client[s]
           id == IF c.id = None THEN c.guid ELSE c.id
           d == [c EXCEPT !.id = id]
<1>1. c # None /\ Sound(c) /\ c \in Clients
  BY DEF Ban, SoundRoster, Sound
<1>2. id \in Guids \cup {None} /\ (c.authed => id = c.id)
  BY <1>1, GuidAssumption DEF Sound, Clients, TableGuids
<1>3. /\ client' = [client EXCEPT ![s] = d]
      /\ banned' = banned \cup ({id} \ {None})
      /\ Enforce({s}, lines)
  BY DEF Ban, SessionTypes
<1>4. Sound(d) /\ d \in Clients /\ d # None /\ d.authed = c.authed /\ d.id = id
  BY <1>1, <1>2, NoneAssumption DEF Sound, Clients
<1>5. /\ seat' \in [Slots -> Players \cup {None}]
      /\ table' = table /\ events' = events /\ unreadable' = unreadable
      /\ lines' \in Seq(Lines)
  BY <1>3, EnforceTypes DEF SessionTypes
<1> HIDE DEF d, id
<1>6. client' \in [Slots -> Clients \cup {None}]
  BY <1>3, <1>4 DEF SessionTypes
<1>7. banned' \subseteq Guids
  BY <1>2, <1>3 DEF SessionTypes
<1>8. SessionTypes'
  BY <1>5, <1>6, <1>7 DEF SessionTypes
<1>9. \A r \in Slots : client'[r] = IF r = s THEN d ELSE client[r]
  BY <1>3 DEF SessionTypes
<1>10. SoundRoster'
  BY <1>4, <1>9 DEF SoundRoster
<1> QED
  BY <1>1, <1>2, <1>4, <1>5, <1>8, <1>9, <1>10

-----------------------------------------------------------------------------
(* The polls of a session are the polls of AuthTasks.                         *)

LEMMA NextIsAuthNext ==
  ASSUME SessionTypes, [Next]_vars
  PROVE  [AuthNext]_authVars
<1>1. CASE FeedJoin
  <2>1. lines # <<>> /\ Head(lines).slot \in Slots
    BY <1>1, NextLine DEF FeedJoin, Reading, SessionTypes
  <2>2. Schedule(Head(lines).slot) \/ UNCHANGED authVars
    BY <1>1 DEF FeedJoin
  <2> QED
    BY <2>1, <2>2 DEF AuthNext
<1>2. CASE FeedQuit
  <2>1. lines # <<>> /\ Head(lines).slot \in Slots
    BY <1>2, NextLine DEF FeedQuit, Reading, SessionTypes
  <2>2. Cancel({Head(lines).slot}) \/ UNCHANGED authVars
    BY <1>2 DEF FeedQuit
  <2> QED
    BY <2>1, <2>2 DEF AuthNext
<1>3. ASSUME NEW t \in Tasks, Poll(t) PROVE AuthNext
  BY <1>3 DEF Poll, PollStep, PollAnswered, AuthNext, TaskStep
<1>4. CASE Sync \/ SyncUnreadable
  <2>1. \E C \in SUBSET Slots : Cancel(C)
    BY <1>4 DEF Sync, SyncUnreadable
  <2> QED
    BY <2>1 DEF AuthNext
<1>5. CASE FeedMention \/ FeedSay \/ Environment \/ Refresh
  BY <1>5 DEF FeedMention, FeedSay, Environment, Refresh, Leave, Connect, Mention, Miss, Writes
<1>6. ASSUME NEW s \in Slots, Ban(s) PROVE UNCHANGED authVars
  BY <1>6 DEF Ban
<1>7. ASSUME NEW g \in Guids, Unban(g) PROVE UNCHANGED authVars
  BY <1>7 DEF Unban
<1>8. CASE UNCHANGED vars
  BY <1>8 DEF vars
<1> QED
  BY <1>1, <1>2, <1>3, <1>4, <1>5, <1>6, <1>7, <1>8 DEF Next, ScheduledSync, Feed

-----------------------------------------------------------------------------
(* The invariant and what follows from it.                                    *)

Counters ==
    /\ events \in 0..MaxEvents /\ missed \in 0..MaxMissed
    /\ unreadable \in 0..MaxUnreadable

\* The polls are typed, the roster holds sound clients only.
SessionInv == AuthInv /\ SessionTypes /\ Counters /\ SoundRoster

LEMMA SessionInitInv == Init => SessionInv
<1> SUFFICES ASSUME Init PROVE SessionInv
  OBVIOUS
<1>1. AuthInv
  BY AuthInitInv DEF Init
<1>2. Counters
  BY BoundsAssumption DEF Counters, Init
<1>3. SessionTypes
  <2>1. lines \in Seq(Lines)
    BY EmptySeq DEF Init
  <2> QED
    BY <2>1 DEF SessionTypes, Init, Guids
<1>4. SoundRoster
  BY DEF SoundRoster, Init
<1> QED
  BY <1>1, <1>2, <1>3, <1>4 DEF SessionInv

LEMMA CountersStep == Counters /\ [Next]_vars => Counters'
<1> SUFFICES ASSUME Counters, [Next]_vars PROVE Counters'
  OBVIOUS
<1> USE BoundsAssumption DEF Counters, server, bot
<1>1. CASE Environment \/ Refresh \/ SyncUnreadable
  <2>1. \/ events' = events - 1 /\ events > 0 /\ UNCHANGED <<missed, unreadable>>
        \/ missed' = missed - 1 /\ missed > 0 /\ UNCHANGED <<events, unreadable>>
        \/ unreadable' = unreadable - 1 /\ unreadable > 0 /\ UNCHANGED <<events, missed>>
        \/ UNCHANGED <<events, missed, unreadable>>
    BY <1>1 DEF Environment, Refresh, SyncUnreadable, Leave, Connect, Mention, Miss, Writes
  <2> QED
    BY <2>1
<1>2. CASE Feed
  BY <1>2 DEF Feed, FeedJoin, FeedQuit, FeedMention, FeedSay, Update, Enforce
<1>3. ASSUME NEW t \in Tasks, Poll(t) PROVE Counters'
  BY <1>3 DEF Poll, PollStep, PollAnswered, Update, Enforce
<1>4. CASE Sync
  BY <1>4 DEF Sync, Enforce
<1>5. ASSUME NEW s \in Slots, Ban(s) PROVE Counters'
  BY <1>5 DEF Ban, Enforce
<1>6. ASSUME NEW g \in Guids, Unban(g) PROVE Counters'
  BY <1>6 DEF Unban
<1>7. CASE UNCHANGED vars
  BY <1>7 DEF vars
<1> QED
  BY <1>1, <1>2, <1>3, <1>4, <1>5, <1>6, <1>7 DEF Next, ScheduledSync

\* Every step that is not a ban or its lifting leaves the roster sound and admits
\* justly.
LEMMA NextJust ==
  ASSUME SessionTypes, SoundRoster, AuthTypeOK, [Next]_vars
  PROVE  \/ JustStep
         \/ \E s \in Slots : Ban(s)
         \/ \E g \in Guids : Unban(g)
<1>1. CASE Feed
  BY <1>1, FeedJust
<1>2. ASSUME NEW t \in Tasks, Poll(t) PROVE JustStep
  BY <1>2, PollJust
<1>3. CASE Sync
  BY <1>3, SyncJust
<1>4. CASE Environment \/ Refresh \/ SyncUnreadable
  BY <1>4, EnvironmentJust
<1>5. CASE UNCHANGED vars
  BY <1>5 DEF vars, JustStep, SessionTypes, SoundRoster
<1> QED
  BY <1>1, <1>2, <1>3, <1>4, <1>5 DEF Next, ScheduledSync

LEMMA SessionStep == SessionInv /\ [Next]_vars => SessionInv'
<1> SUFFICES ASSUME SessionInv, [Next]_vars PROVE SessionInv'
  OBVIOUS
<1>1. AuthInv'
  <2>1. [AuthNext]_authVars
    BY NextIsAuthNext DEF SessionInv
  <2> QED
    BY <2>1, AuthTypeStep, RegistryStep, ForgottenStep DEF SessionInv, AuthInv
<1>2. Counters'
  BY CountersStep DEF SessionInv
<1>3. SessionTypes' /\ SoundRoster'
  <2>1. CASE JustStep
    BY <2>1 DEF JustStep, SoundRoster
  <2>2. ASSUME NEW s \in Slots, Ban(s) PROVE SessionTypes' /\ SoundRoster'
    BY <2>2, BanStep DEF SessionInv
  <2>3. ASSUME NEW g \in Guids, Unban(g) PROVE SessionTypes' /\ SoundRoster'
    BY <2>3 DEF Unban, SessionInv, SessionTypes, SoundRoster, server
  <2> QED
    BY <2>1, <2>2, <2>3, NextJust DEF SessionInv, AuthInv
<1> QED
  BY <1>1, <1>2, <1>3 DEF SessionInv

\* The session stays in its types.
THEOREM SessionTyped == Spec => []TypeOK
<1>1. SessionInv => TypeOK
  BY DEF SessionInv, AuthInv, SessionTypes, Counters, TypeOK
<1> QED
  BY <1>1, SessionInitInv, SessionStep, PTL DEF Spec

\* Whoever is authenticated is so under the status table's guid.
THEOREM SessionCorrect == Spec => [](TypeOK /\ AuthedOnIdentity)
<1>1. SessionInv => TypeOK /\ AuthedOnIdentity
  <2> SUFFICES ASSUME SessionInv PROVE TypeOK /\ AuthedOnIdentity
    OBVIOUS
  <2>1. TypeOK
    BY DEF SessionInv, AuthInv, SessionTypes, Counters, TypeOK
  <2>2. AuthedOnIdentity
    BY DEF SessionInv, SoundRoster, Sound, AuthedOnIdentity, TableGuids
  <2> QED
    BY <2>1, <2>2
<1> QED
  BY <1>1, SessionInitInv, SessionStep, PTL DEF Spec

\* A session is a run of AuthManager: what holds of its polls alone holds here.
THEOREM SessionRunsPolls == Spec => AuthSpec
<1>1. Init => AuthInit
  BY DEF Init
<1>2. SessionInv /\ [Next]_vars => [AuthNext]_authVars
  BY NextIsAuthNext DEF SessionInv
<1> QED
  BY <1>1, <1>2, SessionInitInv, SessionStep, PTL DEF Spec, AuthSpec

\* A step admits nobody whose record holds a ban.
LEMMA AdmissionStep ==
  SessionInv /\ [Next]_vars
    => [Admission!Admit \/ Admission!Judge]_(Admission!admissionVars)
<1> SUFFICES ASSUME SessionInv, [Next]_vars
             PROVE  Admission!Admit \/ Admission!Judge \/ UNCHANGED <<banned, Admitted>>
  BY DEF Admission!admissionVars
<1>0. SessionInv'
  BY SessionStep
<1>1. CASE JustStep
  <2>1. \A s \in Slots : Admitted[s] = IF client[s] # None /\ client[s].authed
                                        THEN client[s].id ELSE None
    BY DEF Admitted
  <2>2. \A s \in Slots : Admitted'[s] = IF client'[s] # None /\ client'[s].authed
                                         THEN client'[s].id ELSE None
    BY DEF Admitted
  <2>3. \A s \in Slots : Admitted'[s] \in {Admitted[s], None} \cup (Guids \ banned)
    BY <1>1, <2>1, <2>2 DEF JustStep, Justly
  <2>4. \A s \in Slots : Admitted'[s] \in Guids \cup {None}
    BY <1>0, <2>2 DEF SessionInv, SoundRoster, Sound, Clients
  <2>5. Admitted' \in [Slots -> Guids \cup {None}]
    BY <2>4 DEF Admitted
  <2> QED
    BY <1>1, <2>3, <2>5 DEF JustStep, Admission!Admit
<1>2. ASSUME NEW s \in Slots, Ban(s) PROVE Admission!Judge
  <2>1. SessionTypes' /\ Admitted' = Admitted
    BY <1>2, BanStep DEF SessionInv, Admitted
  <2> QED
    BY <2>1 DEF Admission!Judge, SessionTypes
<1>3. ASSUME NEW g \in Guids, Unban(g) PROVE Admission!Judge
  BY <1>0, <1>3 DEF Unban, Admission!Judge, Admitted, SessionInv, SessionTypes
<1> QED
  BY <1>1, <1>2, <1>3, NextJust DEF SessionInv, AuthInv

\* Nobody is admitted under a record that holds a ban in force.
THEOREM SessionAdmits == Spec => ImplementsAdmission
<1>1. Init => Admission!Init
  <2> SUFFICES ASSUME Init PROVE Admission!Init
    OBVIOUS
  <2>1. banned \subseteq Guids
    BY DEF Init, Guids
  <2>2. Admitted = [s \in Slots |-> None]
    BY DEF Init, Admitted
  <2> QED
    BY <2>1, <2>2 DEF Admission!Init
<1> QED
  BY <1>1, SessionInitInv, SessionStep, AdmissionStep, PTL
     DEF Spec, ImplementsAdmission, Admission!Spec

-----------------------------------------------------------------------------
(* A client that keeps its slot stays the same person.                        *)

SamePlayer(c, d) ==
    c # None /\ c.guid # None /\ d # None =>
        \A p \in Players : NamesTheSamePlayer(c.guid, p) => NamesTheSamePlayer(d.guid, p)

StayThemselves == \A s \in Slots : SamePlayer(client[s], client'[s])

\* A guid is never two players'.
LEMMA OnePlayerEach ==
  ASSUME NEW g, NEW p \in Players, NEW q \in Players,
         NamesTheSamePlayer(g, p), NamesTheSamePlayer(g, q)
  PROVE  p = q
  BY GuidAssumption DEF NamesTheSamePlayer

LEMMA SeenSame ==
  ASSUME NEW s \in Slots, NEW g
  PROVE  SamePlayer(client[s], Seen(s, g))
  BY DEF SamePlayer, Seen

\* Authenticating changes no guid.
LEMMA AuthenticateGuid ==
  ASSUME NEW c \in Clients
  PROVE  Authenticate(c) # None /\ Authenticate(c).guid = c.guid
<1>1. c # None
  BY NoneAssumption
<1>2. CASE Authenticate(c) = c
  BY <1>1, <1>2
<1>3. CASE Authenticate(c) # c
  <2> DEFINE b == c.guid \in banned
  <2>1. b \in BOOLEAN /\ Authenticate(c) = [c EXCEPT !.id = c.guid, !.rejected = b, !.authed = ~b]
    BY <1>3 DEF Authenticate
  <2> HIDE DEF b
  <2>2. Authenticate(c).guid = c.guid /\ Authenticate(c).rejected = b /\ Authenticate(c).id = c.guid
    BY <2>1 DEF Clients
  <2>3. Authenticate(c) \in Clients
    BY <2>1 DEF Clients
  <2> QED
    BY <2>2, <2>3, NoneAssumption
<1> QED
  BY <1>2, <1>3

\* An answer is used only for the player the client already was.
LEMMA ResolveSame ==
  ASSUME NEW c \in Clients, NEW p \in Players
  PROVE  SamePlayer(c, Resolve(c, p))
<1> DEFINE adopting == [c EXCEPT !.guid = TableGuid[p], !.id = None,
                                 !.authed = FALSE, !.confirmed = TRUE]
           confirming == [c EXCEPT !.confirmed = TRUE]
<1>1. adopting \in Clients /\ adopting.guid = TableGuid[p]
  BY GuidsOfPlayers DEF Clients
<1>2. confirming \in Clients /\ confirming.guid = c.guid
  BY DEF Clients
<1> HIDE DEF adopting, confirming
<1>3. Authenticate(adopting).guid = TableGuid[p] /\ Authenticate(confirming).guid = c.guid
  BY <1>1, <1>2, AuthenticateGuid
<1>4. /\ [Authenticate(adopting) EXCEPT !.ip = p].guid = TableGuid[p]
      /\ [Authenticate(confirming) EXCEPT !.ip = p].guid = c.guid
      /\ [c EXCEPT !.ip = p].guid = c.guid
  BY <1>3 DEF Clients
<1>5. Resolve(c, p).guid = c.guid
      \/ (NamesTheSamePlayer(c.guid, p) /\ Resolve(c, p).guid = TableGuid[p])
  BY <1>4 DEF Resolve, AdoptIdentity, adopting, confirming
<1>6. ASSUME NEW q \in Players, NamesTheSamePlayer(c.guid, q)
      PROVE  NamesTheSamePlayer(Resolve(c, p).guid, q)
  <2>1. CASE Resolve(c, p).guid = c.guid
    BY <1>6, <2>1
  <2>2. CASE NamesTheSamePlayer(c.guid, p) /\ Resolve(c, p).guid = TableGuid[p]
    <3>1. p = q
      BY <1>6, <2>2, OnePlayerEach
    <3> QED
      BY <2>2, <3>1 DEF NamesTheSamePlayer
  <2> QED
    BY <1>5, <2>1, <2>2
<1> QED
  BY <1>6 DEF SamePlayer

LEMMA OneSlotSame ==
  ASSUME SessionTypes, NEW s \in Slots, NEW d, client' = [client EXCEPT ![s] = d],
         SamePlayer(client[s], d)
  PROVE  StayThemselves
  BY DEF StayThemselves, SamePlayer, SessionTypes

LEMMA FeedSame ==
  ASSUME SessionTypes, SoundRoster, Feed
  PROVE  StayThemselves
<1> DEFINE line == Head(lines)
           s == line.slot
           known == Seen(s, LogGuid[line.who])
<1>0. lines # <<>> /\ lines \in Seq(Lines) /\ banned \subseteq Guids
  BY DEF Feed, FeedJoin, FeedQuit, FeedMention, FeedSay, Reading, SessionTypes
<1>1. s \in Slots /\ line.who \in Players
  BY <1>0, NextLine
<1>2. known \in Clients /\ known # None /\ SamePlayer(client[s], known)
  <2>1. LogGuid[line.who] \in Guids \cup {None}
    BY <1>1, GuidsOfPlayers
  <2> QED
    BY <1>1, <2>1, SeenSound, SeenSame, NoneAssumption DEF SoundRoster, Sound
<1>3. CASE FeedJoin
  <2> DEFINE c == [known EXCEPT !.authed = FALSE]
             d == Authenticate(c)
  <2>1. c \in Clients /\ c.guid = known.guid
    BY <1>2 DEF Clients
  <2>2. client' = [client EXCEPT ![s] = d]
    BY <1>3 DEF FeedJoin, Update
  <2> HIDE DEF c, known, s
  <2>3. d.guid = known.guid
    BY <2>1, AuthenticateGuid
  <2> HIDE DEF d
  <2>4. SamePlayer(client[s], d)
    BY <1>2, <2>3 DEF SamePlayer
  <2> QED
    BY <1>1, <2>2, <2>4, OneSlotSame
<1>4. CASE FeedQuit
  BY <1>1, <1>4 DEF FeedQuit, StayThemselves, SamePlayer, SessionTypes
<1>5. CASE FeedMention
  <2> DEFINE d == Seen(s, IF line.kind = "act" THEN LogGuid[line.who] ELSE None)
  <2>1. client' = [client EXCEPT ![s] = d]
    BY <1>5 DEF FeedMention
  <2>2. SamePlayer(client[s], d)
    BY <1>1, SeenSame
  <2> HIDE DEF d, s
  <2> QED
    BY <1>1, <2>1, <2>2, OneSlotSame
<1>6. CASE FeedSay
  <2> DEFINE c == Authenticate(known)
  <2>1. client' = [client EXCEPT ![s] = c]
        \/ (table[s] # None /\ client' = [client EXCEPT ![s] = Resolve(c, table[s])])
    BY <1>6 DEF FeedSay, Update
  <2> HIDE DEF known, s
  <2>2. c.guid = known.guid /\ c \in Clients
    <3>1. Sound(known)
      <4>1. LogGuid[line.who] \in Guids \cup {None}
        BY <1>1, GuidsOfPlayers
      <4> QED
        BY <1>1, <4>1, SeenSound DEF SoundRoster, known, s
    <3>2. known.guid # None
      <4>1. LogGuid[line.who] \in Guids \cup {None} /\ LogGuid[line.who] # None
        BY <1>1, GuidsOfPlayers
      <4> QED
        BY <1>1, <4>1, SeenSound DEF SoundRoster, known, s
    <3> QED
      BY <1>0, <1>2, <3>1, <3>2, AuthenticateGuid, AuthenticateSound DEF Sound
  <2> HIDE DEF c
  <2>3. CASE client' = [client EXCEPT ![s] = c]
    <3>1. SamePlayer(client[s], c)
      BY <1>2, <2>2 DEF SamePlayer
    <3> QED
      BY <1>1, <2>3, <3>1, OneSlotSame
  <2>4. CASE table[s] # None /\ client' = [client EXCEPT ![s] = Resolve(c, table[s])]
    <3> DEFINE d == Resolve(c, table[s])
    <3>1. table[s] \in Players
      BY <1>1, <2>4 DEF SessionTypes
    <3>2. SamePlayer(c, d)
      BY <2>2, <3>1, ResolveSame
    <3>3. c # None
      BY <2>2, NoneAssumption
    <3>4. client' = [client EXCEPT ![s] = d]
      BY <2>4
    <3> HIDE DEF d
    <3>5. SamePlayer(client[s], d)
      BY <1>2, <2>2, <3>2, <3>3, GuidAssumption DEF SamePlayer, NamesTheSamePlayer
    <3> QED
      BY <1>1, <3>4, <3>5, OneSlotSame
  <2> QED
    BY <2>1, <2>3, <2>4
<1> QED
  BY <1>3, <1>4, <1>5, <1>6 DEF Feed

LEMMA PollSame ==
  ASSUME SessionTypes, AuthTypeOK, NEW t \in Tasks, Poll(t)
  PROVE  StayThemselves
<1>1. CASE client' = client
  BY <1>1 DEF StayThemselves, SamePlayer
<1>2. CASE PollAnswered(t) /\ client[slotOf[t]] # None
  <2> DEFINE s == slotOf[t]
             d == Resolve(client[s], table[s])
  <2>1. s \in Slots /\ table[s] \in Players
    BY <1>2 DEF PollAnswered, AuthTypeOK, SessionTypes
  <2>2. client[s] \in Clients /\ client' = [client EXCEPT ![s] = d]
    BY <1>2, <2>1 DEF PollAnswered, Update, SessionTypes
  <2>3. SamePlayer(client[s], d)
    BY <2>1, <2>2, ResolveSame
  <2> HIDE DEF s, d
  <2> QED
    BY <2>1, <2>2, <2>3, OneSlotSame
<1> QED
  BY <1>1, <1>2 DEF Poll, PollStep, PollAnswered, bot

\* Only a reconciliation gives a slot that has a client to somebody else: a late answer, a line
\* or a ban changes the spelling of who is there at most (bot.py:797-826, 1728-1793).
THEOREM ClientsStayThemselves == Spec => IdentityIsStable
<1>1. SessionInv /\ [Next]_vars => [Sync \/ StayThemselves]_vars
  <2> SUFFICES ASSUME SessionInv, Next PROVE Sync \/ StayThemselves
    OBVIOUS
  <2>0. SessionTypes /\ SoundRoster /\ AuthTypeOK
    BY DEF SessionInv, AuthInv
  <2>1. ASSUME NEW s \in Slots, Ban(s) PROVE StayThemselves
    <3> DEFINE d == [client[s] EXCEPT !.id = IF client[s].id = None THEN client[s].guid
                                            ELSE client[s].id]
    <3>1. client[s] \in Clients /\ client' = [client EXCEPT ![s] = d]
      BY <2>0, <2>1 DEF Ban, SessionTypes
    <3>2. d.guid = client[s].guid
      BY <3>1 DEF Clients
    <3> HIDE DEF d
    <3> QED
      BY <2>0, <3>1, <3>2, OneSlotSame DEF SamePlayer
  <2>2. CASE client' = client \/ client' = [s \in Slots |-> None]
    BY <2>2 DEF StayThemselves, SamePlayer
  <2>3. CASE Environment \/ Refresh \/ SyncUnreadable \/ \E g \in Guids : Unban(g)
    BY <2>2, <2>3 DEF Environment, Refresh, SyncUnreadable, Unban, Leave, Connect, Mention, Miss,
                      Writes, bot
  <2> QED
    BY <2>0, <2>1, <2>3, FeedSame, PollSame DEF Next, ScheduledSync
<1>2. [Sync \/ StayThemselves]_vars => [Sync \/ \A s \in Slots, p \in Players :
         /\ client[s] # None /\ client[s].guid # None /\ client'[s] # None
         /\ NamesTheSamePlayer(client[s].guid, p)
         => NamesTheSamePlayer(client'[s].guid, p)]_vars
  BY DEF StayThemselves, SamePlayer
<1> QED
  BY <1>1, <1>2, SessionInitInv, SessionStep, PTL DEF Spec, IdentityIsStable

-----------------------------------------------------------------------------
(* The wait for a match (ReadyUp).                                            *)

\* Ready-up runs in match mode only, and nobody who agreed is missing.
MusterInv ==
    /\ Muster!TypeOK
    /\ awaiting => inForce /\ inMatch
    /\ willing \subseteq here \cap ready
    /\ Muster!CountingDown => awaiting
    /\ willing # {} => Muster!CountingDown

\* What the bot knows of who is ready at the start: nobody, for nothing.
LEMMA MusterInit == Muster!Init => MusterInv
<1> SUFFICES ASSUME Muster!Init PROVE MusterInv
  OBVIOUS
<1>1. Muster!TypeOK
  <2>1. count \in Int /\ wait \in Nat
    BY DEF Muster!Init, Muster!NotBegun
  <2> QED
    BY <2>1 DEF Muster!Init, Muster!TypeOK
<1>2. awaiting = FALSE /\ ~Muster!CountingDown /\ willing = {}
  BY DEF Muster!Init, Muster!CountingDown
<1> QED
  BY <1>1, <1>2 DEF MusterInv

\* A player's own steps: nobody takes back a word while it counts, and whoever leaves is no
\* longer among those who agreed.
LEMMA MusterPlayer ==
  ASSUME MusterInv, NEW p \in Crowd, Muster!Toggle(p) \/ Muster!Join(p) \/ Muster!Leave(p)
  PROVE  MusterInv'
<1> USE DEF MusterInv, Muster!TypeOK, Muster!CountingDown, Muster!NotBegun
<1>1. CASE Muster!Toggle(p)
  BY <1>1 DEF Muster!Toggle
<1>2. CASE Muster!Join(p)
  BY <1>2 DEF Muster!Join
<1>3. CASE Muster!Leave(p)
  BY <1>3 DEF Muster!Leave
<1> QED
  BY <1>1, <1>2, <1>3

\* What an admin does begins afresh or ends it.
LEMMA MusterAdmin ==
  ASSUME MusterInv, \/ Muster!MatchOn \/ Muster!MatchOff
                    \/ Muster!Disable \/ Muster!Enable
  PROVE  MusterInv'
<1>1. CASE Muster!MatchOn
  BY <1>1, CrowdAssumption
  DEF Muster!Paces, Muster!MatchOn, Muster!Begin, MusterInv, Muster!TypeOK, Muster!CountingDown,
      Muster!NotBegun
<1>2. CASE Muster!MatchOff \/ Muster!Disable
  <2>1. count' \in Int /\ wait' \in Nat /\ ~Muster!CountingDown'
    BY <1>2 DEF Muster!MatchOff, Muster!Disable, Muster!Cancel, Muster!CountingDown, Muster!NotBegun
  <2> QED
    BY <1>2, <2>1 DEF Muster!MatchOff, Muster!Disable, Muster!Cancel, MusterInv, Muster!TypeOK
<1>3. CASE Muster!Enable
  BY <1>3 DEF Muster!Enable, MusterInv, Muster!TypeOK, Muster!CountingDown, Muster!NotBegun
<1> QED
  BY <1>1, <1>2, <1>3

\* What a second brings: the countdown begins with everybody who is here.
LEMMA MusterSecond ==
  ASSUME MusterInv, \/ Muster!Remind \/ Muster!StartCounting \/ Muster!CountDown
                    \/ Muster!Start \/ Muster!Tick
  PROVE  MusterInv'
<1>1. CASE Muster!Start
  <2>1. count' \in Int /\ wait' \in Nat /\ ~Muster!CountingDown'
    BY <1>1 DEF Muster!Start, Muster!Cancel, Muster!CountingDown, Muster!NotBegun
  <2> QED
    BY <1>1, <2>1 DEF Muster!Start, Muster!Cancel, MusterInv, Muster!TypeOK
<1> USE CrowdAssumption
    DEF Muster!Paces, Muster!Due, MusterInv, Muster!TypeOK, Muster!CountingDown, Muster!NotBegun
<1>2. CASE Muster!Remind
  BY <1>2 DEF Muster!Remind
<1>3. CASE Muster!StartCounting
  BY <1>3 DEF Muster!StartCounting
<1>4. CASE Muster!CountDown
  BY <1>4 DEF Muster!CountDown
<1>5. CASE Muster!Tick
  BY <1>5 DEF Muster!Tick
<1> QED
  BY <1>1, <1>2, <1>3, <1>4, <1>5

LEMMA MusterStep ==
  ASSUME MusterInv, Muster!Next \/ UNCHANGED matchVars
  PROVE  MusterInv'
<1>1. CASE Muster!Next
  BY <1>1, MusterPlayer, MusterAdmin, MusterSecond DEF Muster!Next
<1>2. CASE UNCHANGED matchVars
  BY <1>2 DEF matchVars, MusterInv, Muster!TypeOK, Muster!CountingDown
<1> QED
  BY <1>1, <1>2

\* A round is started in match mode, and for those who agreed.
LEMMA MusterStarts ==
  ASSUME MusterInv
  PROVE  Muster!StartsAgreed
BY DEF MusterInv, Muster!StartsAgreed, Muster!Start, Muster!Due, Muster!CountingDown

-----------------------------------------------------------------------------
(* Duels.                                                                     *)

\* A pair that has agreed is in a duel.
AgreedAreInDuels == \A pair \in agreed : \E d \in duels : Fight!Sides(d) = pair

DuelInv == Fight!TypeOK /\ Fight!DuelsAreMutual /\ AgreedAreInDuels

LEMMA DuelInit == Fight!Init => DuelInv
BY DuelAssumption DEF Fight!Init, DuelInv, Fight!TypeOK, Fight!DuelsAreMutual, AgreedAreInDuels

\* What is said of one duel.
Mutual(d) ==
    /\ d.challenger # d.opponent /\ Fight!Sides(d) \subseteq connected
    /\ d.accepted <=> Fight!Sides(d) \in agreed
    /\ ~d.accepted => d.scores = Fight!NoScore

\* No two duels are between the same players.
OneEach == \A d, e \in duels : Fight!Sides(d) = Fight!Sides(e) => d = e

LEMMA DuelParts ==
  /\ Fight!DuelsAreMutual <=> OneEach /\ \A d \in duels : Mutual(d)
  /\ Fight!DuelsAreMutual' <=> OneEach' /\ \A d \in duels' : Mutual(d)'
<1>1. \A d, e \in duels : e \in Fight!Between(d.challenger, d.opponent)
                            <=> Fight!Sides(d) = Fight!Sides(e)
  BY DEF Fight!Between, Fight!Sides
<1>2. \A d, e \in duels' : e \in Fight!Between(d.challenger, d.opponent)'
                             <=> Fight!Sides(d) = Fight!Sides(e)
  BY DEF Fight!Between, Fight!Sides
<1>3. /\ \A d \in duels : Fight!Between(d.challenger, d.opponent) \subseteq duels
      /\ \A d \in duels' : Fight!Between(d.challenger, d.opponent)' \subseteq duels'
  BY DEF Fight!Between
<1>4. OneEach <=> \A d \in duels : Fight!Between(d.challenger, d.opponent) = {d}
  BY <1>1, <1>3 DEF OneEach
<1>5. OneEach' <=> \A d \in duels' : Fight!Between(d.challenger, d.opponent)' = {d}
  BY <1>2, <1>3 DEF OneEach
<1> QED
  BY <1>4, <1>5 DEF Fight!DuelsAreMutual, Mutual

\* A duel is replaced by one between the same two.
LEMMA DuelChanged ==
  ASSUME DuelInv, UNCHANGED <<now, connected>>, NEW d \in duels, NEW e \in Fight!Duel,
         duels' = (duels \ {d}) \cup {e},
         e.challenger = d.challenger, e.opponent = d.opponent,
         ~e.accepted => e.scores = Fight!NoScore,
         \/ agreed' = agreed /\ e.accepted = d.accepted
         \/ agreed' = agreed \cup {Fight!Sides(d)} /\ e.accepted
  PROVE  DuelInv'
<1>1. Fight!Sides(e) = Fight!Sides(d)
  BY DEF Fight!Sides
<1>2. Fight!TypeOK'
  BY DEF DuelInv, Fight!TypeOK
<1>3. OneEach /\ \A c \in duels : Mutual(c)
  BY DuelParts DEF DuelInv
<1>4. OneEach'
  BY <1>1, <1>3 DEF OneEach
<1>5. ASSUME NEW c \in duels' PROVE Mutual(c)'
  <2>1. CASE c = e
    BY <1>1, <1>3, <2>1 DEF Mutual
  <2>2. CASE c # e
    <3>1. c \in duels /\ Fight!Sides(c) # Fight!Sides(d)
      BY <1>3, <2>2 DEF OneEach
    <3> QED
      BY <1>3, <3>1 DEF Mutual
  <2> QED
    BY <2>1, <2>2
<1>6. AgreedAreInDuels'
  BY <1>1 DEF DuelInv, AgreedAreInDuels
<1> QED
  BY <1>2, <1>4, <1>5, <1>6, DuelParts DEF DuelInv

\* Duels end, and what was agreed with those of them that counted.
LEMMA DuelsEnded ==
  ASSUME DuelInv, now' \in 0..MaxTime, connected' \subseteq Rivals, duels' \subseteq duels,
         agreed' = {pair \in agreed : \E d \in duels' : Fight!Sides(d) = pair},
         \A d \in duels' : Fight!Sides(d) \subseteq connected'
  PROVE  DuelInv'
<1>1. OneEach /\ \A c \in duels : Mutual(c)
  BY DuelParts DEF DuelInv
<1>2. OneEach' /\ \A c \in duels' : Mutual(c)'
  BY <1>1 DEF OneEach, Mutual
<1>3. Fight!TypeOK' /\ AgreedAreInDuels'
  BY DEF DuelInv, Fight!TypeOK, AgreedAreInDuels
<1> QED
  BY <1>2, <1>3, DuelParts DEF DuelInv

LEMMA DuelProposed ==
  ASSUME DuelInv, NEW p \in Rivals, NEW q \in Rivals, Fight!Propose(p, q)
  PROVE  DuelInv'
<1> DEFINE d == [challenger |-> p, opponent |-> q, accepted |-> FALSE, at |-> now,
                 scores |-> Fight!NoScore]
<1>1. d \in Fight!Duel
  BY DEF DuelInv, Fight!TypeOK, Fight!Duel, Fight!NoScore
<1>2. Fight!Sides(d) = {p, q} /\ \A e \in duels : Fight!Sides(e) # {p, q}
  BY DEF Fight!Propose, Fight!Between, Fight!Sides
<1>3. duels' = duels \cup {d} /\ UNCHANGED <<now, connected, agreed>>
      /\ p # q /\ {p, q} \subseteq connected
  BY DEF Fight!Propose
<1>4. d.challenger # d.opponent /\ ~d.accepted /\ d.scores = Fight!NoScore
  BY <1>3
<1> HIDE DEF d
<1>5. OneEach /\ \A c \in duels : Mutual(c)
  BY DuelParts DEF DuelInv
<1>6. OneEach'
  BY <1>2, <1>3, <1>5 DEF OneEach
<1>7. Fight!Sides(d) \notin agreed
  BY <1>2 DEF DuelInv, AgreedAreInDuels
<1>8. \A c \in duels' : Mutual(c)'
  BY <1>2, <1>3, <1>4, <1>5, <1>7 DEF Mutual
<1>9. Fight!TypeOK' /\ AgreedAreInDuels'
  BY <1>1, <1>3 DEF DuelInv, Fight!TypeOK, AgreedAreInDuels
<1> QED
  BY <1>6, <1>8, <1>9, DuelParts DEF DuelInv

LEMMA DuelKept ==
  ASSUME DuelInv, NEW p \in Rivals, NEW q \in Rivals,
         \/ Fight!AnswerExisting(p, q) \/ Fight!Kill(p, q)
         \/ \E d \in duels : Fight!Reset(p, d)
  PROVE  DuelInv'
<1>1. \A d \in duels : d \in Fight!Duel
  BY DEF DuelInv, Fight!TypeOK
<1>2. CASE Fight!AnswerExisting(p, q)
  <2>1. PICK d \in Fight!Between(p, q) :
          /\ duels' = (duels \ {d}) \cup {[d EXCEPT !.accepted = TRUE, !.scores = Fight!NoScore]}
          /\ agreed' = agreed \cup {{p, q}} /\ UNCHANGED <<now, connected>>
    BY <1>2 DEF Fight!AnswerExisting
  <2> DEFINE e == [d EXCEPT !.accepted = TRUE, !.scores = Fight!NoScore]
  <2>2. d \in duels /\ Fight!Sides(d) = {p, q}
    BY DEF Fight!Between
  <2>3. e \in Fight!Duel /\ e.accepted /\ e.challenger = d.challenger /\ e.opponent = d.opponent
    BY <1>1, <2>2 DEF Fight!Duel, Fight!NoScore
  <2> HIDE DEF e
  <2> QED
    BY <2>1, <2>2, <2>3, DuelChanged DEF e
<1>3. CASE Fight!Kill(p, q)
  <2>1. PICK d \in Fight!Between(p, q) :
          d.accepted /\ duels' = (duels \ {d}) \cup {[d EXCEPT !.scores[p] = @ + 1]}
    BY <1>3 DEF Fight!Kill
  <2> DEFINE e == [d EXCEPT !.scores[p] = @ + 1]
  <2>2. d \in duels /\ UNCHANGED <<now, connected, agreed>>
    BY <1>3 DEF Fight!Between, Fight!Kill
  <2>3. /\ e \in Fight!Duel /\ e.accepted = d.accepted
        /\ e.challenger = d.challenger /\ e.opponent = d.opponent
    BY <1>1, <2>2 DEF Fight!Duel
  <2> HIDE DEF e
  <2> QED
    BY <2>1, <2>2, <2>3, DuelChanged DEF e
<1>4. ASSUME NEW d \in duels, Fight!Reset(p, d) PROVE DuelInv'
  <2> DEFINE e == [d EXCEPT !.scores = Fight!NoScore]
  <2>1. duels' = (duels \ {d}) \cup {e} /\ UNCHANGED <<now, connected, agreed>>
    BY <1>4 DEF Fight!Reset
  <2>2. /\ e \in Fight!Duel /\ e.accepted = d.accepted /\ e.scores = Fight!NoScore
        /\ e.challenger = d.challenger /\ e.opponent = d.opponent
    BY <1>1 DEF Fight!Duel, Fight!NoScore
  <2> HIDE DEF e
  <2> QED
    BY <2>1, <2>2, DuelChanged
<1> QED
  BY <1>2, <1>3, <1>4

LEMMA DuelOver ==
  ASSUME DuelInv, \/ Fight!Expire \/ Fight!Disable
                  \/ \E p \in Rivals : \/ Fight!Leave(p)
                                       \/ \E d \in duels : Fight!CallOff(p, d)
  PROVE  DuelInv'
<1>1. OneEach /\ \A c \in duels : Mutual(c)
  BY DuelParts DEF DuelInv
<1>2. now \in 0..MaxTime /\ connected \subseteq Rivals /\ AgreedAreInDuels
  BY DEF DuelInv, Fight!TypeOK
<1>3. CASE Fight!Expire
  <2>1. \A d \in duels : d.accepted => d \in duels'
    BY <1>3 DEF Fight!Expire
  <2>2. agreed' = agreed /\ duels' \subseteq duels /\ UNCHANGED <<now, connected>>
    BY <1>3 DEF Fight!Expire
  <2>3. \A pair \in agreed : \E d \in duels' : Fight!Sides(d) = pair
    BY <1>1, <1>2, <2>1 DEF AgreedAreInDuels, Mutual
  <2>4. agreed' = {pair \in agreed : \E d \in duels' : Fight!Sides(d) = pair}
    BY <2>2, <2>3
  <2>5. \A d \in duels' : Fight!Sides(d) \subseteq connected'
    BY <1>1, <2>2 DEF Mutual
  <2> QED
    BY <1>2, <2>2, <2>4, <2>5, DuelsEnded
<1>4. CASE Fight!Disable
  BY <1>2, <1>4, DuelsEnded DEF Fight!Disable
<1>5. ASSUME NEW p \in Rivals, Fight!Leave(p) PROVE DuelInv'
  <2>1. duels' = {d \in duels : p \notin Fight!Sides(d)} /\ UNCHANGED now
        /\ connected' = connected \ {p} /\ agreed' = {pair \in agreed : p \notin pair}
    BY <1>5 DEF Fight!Leave, Fight!DuelsOf
  <2>2. agreed' = {pair \in agreed : \E d \in duels' : Fight!Sides(d) = pair}
    BY <1>2, <2>1 DEF AgreedAreInDuels
  <2>3. \A d \in duels' : Fight!Sides(d) \subseteq connected'
    BY <1>1, <2>1 DEF Mutual
  <2> QED
    BY <1>2, <2>1, <2>2, <2>3, DuelsEnded
<1>6. ASSUME NEW p \in Rivals, NEW d \in duels, Fight!CallOff(p, d) PROVE DuelInv'
  <2>1. duels' = duels \ {d} /\ agreed' = agreed \ {Fight!Sides(d)} /\ UNCHANGED <<now, connected>>
    BY <1>6 DEF Fight!CallOff
  <2>2. agreed' = {pair \in agreed : \E e \in duels' : Fight!Sides(e) = pair}
    BY <1>1, <1>2, <2>1 DEF AgreedAreInDuels, OneEach
  <2>3. \A e \in duels' : Fight!Sides(e) \subseteq connected'
    BY <1>1, <2>1 DEF Mutual
  <2> QED
    BY <1>2, <2>1, <2>2, <2>3, DuelsEnded
<1> QED
  BY <1>3, <1>4, <1>5, <1>6

LEMMA DuelStep ==
  ASSUME DuelInv, Fight!Next \/ UNCHANGED duelVars
  PROVE  DuelInv'
<1>1. CASE UNCHANGED <<duels, agreed>> /\ connected \subseteq connected' /\ connected' \subseteq Rivals
           /\ now' \in 0..MaxTime
  <2>1. OneEach /\ \A c \in duels : Mutual(c)
    BY DuelParts DEF DuelInv
  <2>2. OneEach' /\ \A c \in duels' : Mutual(c)'
    BY <1>1, <2>1 DEF OneEach, Mutual
  <2> QED
    BY <1>1, <2>2, DuelParts DEF DuelInv, Fight!TypeOK, AgreedAreInDuels
<1>2. ASSUME NEW p \in Rivals, Fight!Enter(p) PROVE DuelInv'
  BY <1>1, <1>2 DEF Fight!Enter, DuelInv, Fight!TypeOK
<1>3. CASE Fight!Tick \/ UNCHANGED duelVars
  BY <1>1, <1>3, DuelAssumption DEF Fight!Tick, duelVars, DuelInv, Fight!TypeOK
<1>4. CASE Fight!Next
  BY <1>2, <1>3, <1>4, DuelProposed, DuelKept, DuelOver DEF Fight!Next
<1> QED
  BY <1>3, <1>4

-----------------------------------------------------------------------------
(* Lines that say who is on which team: a line begins with the player and the *)
(* team.                                                                      *)

\* No line of u is about p.
Silent(u, p) == \A i \in 1..Len(u) : u[i][1] # p

\* The last line of u about p is the i-th, and says t.
LastAt(u, p, t, i) == u[i][1] = p /\ u[i][2] = t /\ \A j \in (i + 1)..Len(u) : u[j][1] # p

Says(u, p, t) == \E i \in 1..Len(u) : LastAt(u, p, t, i)

\* The last line of u about p says t, which is news to who took p to be on b before reading u.
Tidings(u, p, b, t) ==
    \E i \in 1..Len(u) :
        /\ LastAt(u, p, t, i)
        /\ \/ b # t /\ \A k \in 1..(i - 1) : u[k][1] # p
           \/ \E k \in 1..(i - 1) :
                 u[k][1] = p /\ u[k][2] # t /\ \A j \in (k + 1)..(i - 1) : u[j][1] # p

\* The first line has been read.
LEMMA ReadOne ==
  ASSUME NEW S, NEW u \in Seq(S), u # <<>>
  PROVE  /\ Tail(u) \in Seq(S) /\ Len(Tail(u)) = Len(u) - 1 /\ Len(u) \in Nat \ {0}
         /\ \A i \in 1..Len(Tail(u)) : Tail(u)[i] = u[i + 1]
         /\ u[1] \in S
<1>1. Len(u) \in Nat \ {0} /\ u[1] \in S
  OBVIOUS
<1> QED
  BY <1>1, HeadTailProperties

LEMMA SilentTail ==
  ASSUME NEW S, NEW u \in Seq(S), u # <<>>, NEW p, Silent(u, p)
  PROVE  Silent(Tail(u), p) /\ u[1][1] # p
BY ReadOne DEF Silent

LEMMA SaysTail ==
  ASSUME NEW S, NEW u \in Seq(S), u # <<>>, NEW p, NEW t, Says(u, p, t)
  PROVE  \/ Says(Tail(u), p, t)
         \/ Silent(Tail(u), p) /\ u[1][1] = p /\ u[1][2] = t
<1>1. PICK i \in 1..Len(u) : LastAt(u, p, t, i)
  BY DEF Says
<1>2. CASE i = 1
  BY <1>1, <1>2, ReadOne DEF LastAt, Silent
<1>3. CASE i # 1
  <2>1. i - 1 \in 1..Len(Tail(u)) /\ LastAt(Tail(u), p, t, i - 1)
    BY <1>1, <1>3, ReadOne DEF LastAt
  <2> QED
    BY <2>1 DEF Says
<1> QED
  BY <1>2, <1>3

LEMMA TidingsTail ==
  ASSUME NEW S, NEW u \in Seq(S), u # <<>>, NEW p, NEW b, NEW t, Tidings(u, p, b, t)
  PROVE  /\ u[1][1] # p => Tidings(Tail(u), p, b, t)
         /\ u[1][1] = p => \/ u[1][2] = t /\ b # t
                           \/ Tidings(Tail(u), p, u[1][2], t)
<1>1. PICK i \in 1..Len(u) :
        /\ LastAt(u, p, t, i)
        /\ \/ b # t /\ \A k \in 1..(i - 1) : u[k][1] # p
           \/ \E k \in 1..(i - 1) :
                 u[k][1] = p /\ u[k][2] # t /\ \A j \in (k + 1)..(i - 1) : u[j][1] # p
  BY DEF Tidings
<1>2. CASE i = 1
  BY <1>1, <1>2 DEF LastAt
<1>3. CASE i # 1
  <2>1. i - 1 \in 1..Len(Tail(u)) /\ LastAt(Tail(u), p, t, i - 1)
    BY <1>1, <1>3, ReadOne DEF LastAt
  <2>2. CASE b # t /\ \A k \in 1..(i - 1) : u[k][1] # p
    <3>1. u[1][1] # p /\ \A k \in 1..(i - 1 - 1) : Tail(u)[k][1] # p
      BY <1>3, <2>2, ReadOne
    <3> QED
      BY <2>1, <2>2, <3>1 DEF Tidings
  <2>3. ASSUME NEW k \in 1..(i - 1), u[k][1] = p, u[k][2] # t,
               \A j \in (k + 1)..(i - 1) : u[j][1] # p
        PROVE  /\ u[1][1] # p => Tidings(Tail(u), p, b, t)
               /\ u[1][1] = p => Tidings(Tail(u), p, u[1][2], t)
    <3>1. CASE k = 1
      <4>1. u[1][2] # t /\ \A m \in 1..(i - 1 - 1) : Tail(u)[m][1] # p
        BY <2>3, <3>1, ReadOne
      <4> QED
        BY <2>1, <2>3, <3>1, <4>1 DEF Tidings
    <3>2. CASE k # 1
      <4>1. k - 1 \in 1..(i - 1 - 1) /\ Tail(u)[k - 1] = u[k]
        BY <3>2, ReadOne
      <4>2. \A m \in (k - 1 + 1)..(i - 1 - 1) : Tail(u)[m][1] # p
        BY <2>3, <3>2, ReadOne
      <4>3. \A c : Tidings(Tail(u), p, c, t)
        BY <2>1, <2>3, <4>1, <4>2 DEF Tidings
      <4> QED
        BY <4>3
    <3> QED
      BY <3>1, <3>2
  <2> QED
    BY <1>1, <2>2, <2>3
<1> QED
  BY <1>2, <1>3

\* More lines are to be read.
LEMMA SilentMore ==
  ASSUME NEW S, NEW u \in Seq(S), NEW v \in Seq(S), NEW p
  PROVE  Silent(u \o v, p) <=> Silent(u, p) /\ Silent(v, p)
<1>1. \A i \in 1..Len(u) : (u \o v)[i] = u[i] /\ i \in 1..Len(u \o v)
  BY ConcatProperties
<1>2. \A i \in 1..Len(v) : (u \o v)[Len(u) + i] = v[i] /\ Len(u) + i \in 1..Len(u \o v)
  BY ConcatProperties
<1>3. \A i \in 1..Len(u \o v) : i \in 1..Len(u) \/ i - Len(u) \in 1..Len(v)
  BY ConcatProperties
<1>4. \A i \in 1..Len(u \o v) : i \notin 1..Len(u) => (u \o v)[i] = v[i - Len(u)]
  BY ConcatProperties
<1>5. ASSUME Silent(u \o v, p) PROVE Silent(u, p) /\ Silent(v, p)
  BY <1>1, <1>2, <1>5, Zenon DEF Silent
<1>6. ASSUME Silent(u, p), Silent(v, p), NEW i \in 1..Len(u \o v) PROVE (u \o v)[i][1] # p
  <2>1. CASE i \in 1..Len(u)
    BY <1>1, <1>6, <2>1, Zenon DEF Silent
  <2>2. CASE i \notin 1..Len(u)
    BY <1>3, <1>4, <1>6, <2>2, Zenon DEF Silent
  <2> QED
    BY <2>1, <2>2
<1> QED
  BY <1>5, <1>6 DEF Silent

LEMMA SaysMore ==
  ASSUME NEW S, NEW u \in Seq(S), NEW v \in Seq(S), NEW p, NEW t
  PROVE  /\ Says(v, p, t) => Says(u \o v, p, t)
         /\ Says(u, p, t) /\ Silent(v, p) => Says(u \o v, p, t)
<1>1. ASSUME NEW i \in 1..Len(v), LastAt(v, p, t, i) PROVE Says(u \o v, p, t)
  <2>1. Len(u) + i \in 1..Len(u \o v) /\ LastAt(u \o v, p, t, Len(u) + i)
    BY <1>1, ConcatProperties DEF LastAt
  <2> QED
    BY <2>1 DEF Says
<1>2. ASSUME NEW i \in 1..Len(u), LastAt(u, p, t, i), Silent(v, p) PROVE Says(u \o v, p, t)
  <2>1. i \in 1..Len(u \o v) /\ LastAt(u \o v, p, t, i)
    BY <1>2, ConcatProperties DEF LastAt, Silent
  <2> QED
    BY <2>1 DEF Says
<1> QED
  BY <1>1, <1>2 DEF Says

LEMMA TidingsKept ==
  ASSUME NEW S, NEW u \in Seq(S), NEW v \in Seq(S), NEW p, NEW b, NEW t,
         Tidings(u, p, b, t), Silent(v, p)
  PROVE  Tidings(u \o v, p, b, t)
<1>1. PICK i \in 1..Len(u) :
        /\ LastAt(u, p, t, i)
        /\ \/ b # t /\ \A k \in 1..(i - 1) : u[k][1] # p
           \/ \E k \in 1..(i - 1) :
                 u[k][1] = p /\ u[k][2] # t /\ \A j \in (k + 1)..(i - 1) : u[j][1] # p
  BY DEF Tidings
<1>2. i \in 1..Len(u \o v) /\ LastAt(u \o v, p, t, i)
  BY <1>1, ConcatProperties DEF LastAt, Silent
<1>3. \A k \in 1..(i - 1) : (u \o v)[k] = u[k]
  BY ConcatProperties
<1> QED
  BY <1>1, <1>2, <1>3 DEF Tidings

\* One line about p is added, and says other than what was said of p last.
LEMMA TidingsTold ==
  ASSUME NEW S, NEW u \in Seq(S), NEW v \in Seq(S), NEW p, NEW b, NEW t, NEW m \in 1..Len(v),
         v[m][1] = p, v[m][2] = t, \A j \in 1..Len(v) : v[j][1] = p => j = m,
         \/ Silent(u, p) /\ b # t
         \/ \E s : s # t /\ Says(u, p, s)
  PROVE  Tidings(u \o v, p, b, t)
<1>1. LastAt(u \o v, p, t, Len(u) + m) /\ Len(u) + m \in 1..Len(u \o v)
  BY ConcatProperties DEF LastAt
<1>2. CASE Silent(u, p) /\ b # t
  <2>1. \A k \in 1..(Len(u) + m - 1) : (u \o v)[k][1] # p
    BY <1>2, ConcatProperties DEF Silent
  <2> QED
    BY <1>1, <1>2, <2>1 DEF Tidings
<1>3. ASSUME NEW s, s # t, NEW i \in 1..Len(u), LastAt(u, p, s, i) PROVE Tidings(u \o v, p, b, t)
  <2>1. i \in 1..(Len(u) + m - 1) /\ (u \o v)[i] = u[i]
    BY ConcatProperties
  <2>2. \A j \in (i + 1)..(Len(u) + m - 1) : (u \o v)[j][1] # p
    BY <1>3, ConcatProperties DEF LastAt
  <2>3. (u \o v)[i][1] = p /\ (u \o v)[i][2] # t
    BY <1>3, <2>1 DEF LastAt
  <2>4. i \in 1..(Len(u) + m - 1)
    BY <2>1
  <2> DEFINE l == Len(u) + m
             w == u \o v
  <2>5. LastAt(w, p, t, l) /\ l \in 1..Len(w)
    BY <1>1
  <2>6. i \in 1..(l - 1) /\ w[i][1] = p /\ w[i][2] # t /\ \A j \in (i + 1)..(l - 1) : w[j][1] # p
    BY <2>2, <2>3, <2>4
  <2> HIDE DEF l, w
  <2>7. Tidings(w, p, b, t)
    BY ONLY <2>5, <2>6, Zenon DEF Tidings
  <2> QED
    BY <2>7 DEF w
<1> QED
  BY <1>2, <1>3 DEF Says

\* The orders in which the lines of L may be said, as SetToSeqs of SequencesExt has them.
Orders(L) ==
    {f \in [1..Cardinality(L) -> L] :
        \A i, j \in 1..Cardinality(L) : i # j => f[i] # f[j]}

LEMMA OrdersAre ==
  ASSUME NEW L
  PROVE  /\ Turf!Cardinality(L) = Cardinality(L) /\ Even!Cardinality(L) = Cardinality(L)
         /\ Turf!SetToSeqs(L) = Orders(L) /\ Even!SetToSeqs(L) = Orders(L)
<1>1. Turf!Cardinality(L) = Cardinality(L) /\ Even!Cardinality(L) = Cardinality(L)
  BY DEF Turf!Cardinality, Even!Cardinality, Cardinality
<1> QED
  BY <1>1, Zenon DEF Turf!SetToSeqs, Even!SetToSeqs, Orders

\* A finite set of lines is said, in any order.
LEMMA InAnyOrder ==
  ASSUME NEW L, IsFiniteSet(L), NEW said \in Orders(L)
  PROVE  /\ said \in Seq(L) /\ Len(said) = Cardinality(L)
         /\ \A i, j \in 1..Len(said) : said[i] = said[j] => i = j
         /\ \A l \in L : \E i \in 1..Len(said) : said[i] = l
<1> DEFINE n == Cardinality(L)
<1>1. n \in Nat
  BY FS_CardinalityType
<1>2. said \in [1..n -> L] /\ \A i, j \in 1..n : i # j => said[i] # said[j]
  BY DEF Orders
<1>3. IsFiniteSet(1..n) /\ Cardinality(1..n) = n
  BY <1>1, FS_Interval
<1>4. said \in Injection(1..n, L)
  BY <1>2 DEF Injection, IsInjective
<1> HIDE DEF n
<1>5. said \in Surjection(1..n, L)
  BY <1>3, <1>4, FS_Injection DEF n
<1>6. said \in Seq(L) /\ Len(said) = n
  BY <1>1, <1>2
<1> QED
  BY <1>2, <1>5, <1>6 DEF Surjection, n

\* One line at most about each player.
OneLineEach(L) == \A k, l \in L : k[1] = l[1] => k = l

LEMMA SaidOfEach ==
  ASSUME NEW L, IsFiniteSet(L), NEW said \in Orders(L), OneLineEach(L), NEW p
  PROVE  /\ (\A l \in L : l[1] # p) => Silent(said, p)
         /\ \A l \in L : l[1] = p =>
               /\ Says(said, p, l[2])
               /\ \E m \in 1..Len(said) : /\ said[m][1] = p /\ said[m][2] = l[2]
                                          /\ \A j \in 1..Len(said) : said[j][1] = p => j = m
<1>1. /\ said \in Seq(L) /\ Len(said) \in Nat
      /\ \A i, j \in 1..Len(said) : said[i] = said[j] => i = j
      /\ \A l \in L : \E i \in 1..Len(said) : said[i] = l
  BY InAnyOrder
<1>2. \A i \in 1..Len(said) : said[i] \in L
  BY <1>1
<1>3. (\A l \in L : l[1] # p) => Silent(said, p)
  BY <1>2 DEF Silent
<1>4. ASSUME NEW l \in L, l[1] = p
      PROVE  /\ Says(said, p, l[2])
             /\ \E m \in 1..Len(said) : /\ said[m][1] = p /\ said[m][2] = l[2]
                                        /\ \A j \in 1..Len(said) : said[j][1] = p => j = m
  <2>1. PICK m \in 1..Len(said) : said[m] = l
    BY <1>1
  <2>2. ASSUME NEW j \in 1..Len(said), said[j][1] = p PROVE j = m
    <3>1. said[j] = l
      BY <1>2, <1>4, <2>2, Zenon DEF OneLineEach
    <3> QED
      BY <1>1, <2>1, <3>1
  <2>3. LastAt(said, p, l[2], m)
    <3>1. said[m][1] = p /\ said[m][2] = l[2]
      BY <1>4, <2>1
    <3>2. \A j \in (m + 1)..Len(said) : j \in 1..Len(said) /\ j # m
      BY <1>1
    <3>3. \A j \in (m + 1)..Len(said) : said[j][1] # p
      BY <2>2, <3>2
    <3> QED
      BY ONLY <3>1, <3>3 DEF LastAt
  <2> QED
    BY <1>4, <2>1, <2>2, <2>3 DEF Says
<1> QED
  BY <1>3, <1>4

LEMMA ImageFinite ==
  ASSUME NEW T, IsFiniteSet(T), NEW f, NEW L, L = {f[x] : x \in T}
  PROVE  IsFiniteSet(L)
<1> DEFINE g == [x \in T |-> f[x]]
<1>1. g \in Surjection(T, L)
  BY DEF Surjection
<1> HIDE DEF g
<1> QED
  BY <1>1, FS_Surjection

-----------------------------------------------------------------------------
(* Even teams (TeamBalance).                                                  *)

\* What was said of a player last is where they are; of whom nothing is said, the bot knows it.
EvenHeard ==
    \A p \in Squad : \/ Says(news, p, side[p])
                     \/ Silent(news, p) /\ team[p] = side[p]

\* A line is unread that no player's own switch made: then all is quiet.
EvenCalm ==
    Even!Marks => (hush > 0 \/ \A i \in 1..Len(news) : news[i][3] = TRUE)

EvenInv == Even!TypeOK /\ EvenHeard /\ EvenCalm

Places == {"red", "blue", "spec"}
EvenLine == Squad \X Places \X BOOLEAN

LEMMA EvenTypes == Even!TypeOK =>
  /\ side \in [Squad -> Places] /\ team \in [Squad -> Places] /\ news \in Seq(EvenLine)
  /\ hush \in Nat /\ Len(news) \in Nat /\ Len(news) <= MaxLines
<1> SUFFICES ASSUME Even!TypeOK PROVE /\ side \in [Squad -> Places] /\ team \in [Squad -> Places]
                                      /\ news \in Seq(EvenLine) /\ Len(news) <= MaxLines
                                      /\ hush \in Nat
  OBVIOUS
<1>1. Even!Teams \cup {"spec"} = Places
  BY DEF Even!Teams, Places
<1>2. Even!Larger(Calm, CalmAfterMove) \in Nat
  BY SquadAssumption DEF Even!Larger
<1> QED
  BY <1>1, <1>2 DEF Even!TypeOK, EvenLine

\* The players S are where `to` has them, and those who were not have been said to be: the others
\* are where they were, and nothing is said of them.
Carried(unread, S, to) ==
    /\ side' = [p \in Squad |-> IF p \in S THEN to[p] ELSE side[p]]
    /\ news' \in Seq(EvenLine) /\ Len(news') <= MaxLines
    /\ \A p \in S : side[p] # to[p] => Says(news', p, to[p])
    /\ \A p \in Squad : ~(p \in S /\ side[p] # to[p]) =>
          /\ \A t : Says(unread, p, t) => Says(news', p, t)
          /\ Silent(unread, p) => Silent(news', p)

\* What the server says when it carries out a move.
LEMMA EvenCarries ==
  ASSUME NEW unread \in Seq(EvenLine), side \in [Squad -> Places],
         NEW S \in SUBSET Squad, NEW to, \A p \in S : to[p] \in Places, NEW own \in BOOLEAN,
         Even!CarriesOut(unread, S, to, own)
  PROVE  /\ Carried(unread, S, to)
         /\ own /\ (\A i \in 1..Len(unread) : unread[i][3] = TRUE)
               => \A i \in 1..Len(news') : news'[i][3] = TRUE
<1> DEFINE T == {q \in S : side[q] # to[q]}
           L == {<<p, to[p], own>> : p \in T}
           f == [p \in T |-> <<p, to[p], own>>]
<1>1. IsFiniteSet(T)
  BY SquadAssumption, FS_Subset
<1>2. L = {f[p] : p \in T}
  OBVIOUS
<1>3. IsFiniteSet(L)
  <2> HIDE DEF f, L, T
  <2> QED
    BY <1>1, <1>2, ImageFinite
<1>4. L \subseteq EvenLine /\ OneLineEach(L) /\ \A l \in L : l[3] = own
  BY DEF EvenLine, OneLineEach
<1>5. /\ Len(unread) + Even!Cardinality(L) <= MaxLines
      /\ side' = [p \in Squad |-> IF p \in S THEN to[p] ELSE side[p]]
      /\ \E said \in Even!SetToSeqs(L) : news' = unread \o said
  BY DEF Even!CarriesOut
<1>6. \A p \in S : side[p] # to[p] => <<p, to[p], own>> \in L
  OBVIOUS
<1>7. \A p : ~(p \in S /\ side[p] # to[p]) => \A l \in L : l[1] # p
  OBVIOUS
<1> HIDE DEF L
<1>8. PICK said \in Orders(L) : news' = unread \o said
  BY <1>5, OrdersAre
<1>9. /\ said \in Seq(L) /\ Len(said) = Cardinality(L) /\ said \in Seq(EvenLine)
      /\ Len(said) \in Nat /\ \A i \in 1..Len(said) : said[i] \in L
  <2>1. said \in Seq(L) /\ Len(said) = Cardinality(L)
    BY <1>3, InAnyOrder
  <2> QED
    BY <2>1, <1>4
<1>10. news' \in Seq(EvenLine) /\ Len(news') <= MaxLines
  BY <1>5, <1>8, <1>9, OrdersAre, ConcatProperties
<1>11. ASSUME NEW p \in S, side[p] # to[p] PROVE Says(news', p, to[p])
  <2> DEFINE l == <<p, to[p], own>>
  <2>1. l \in L /\ l[1] = p /\ l[2] = to[p]
    BY <1>6, <1>11
  <2> HIDE DEF l
  <2>2. Says(said, p, to[p])
    BY <2>1, <1>3, <1>4, SaidOfEach
  <2> QED
    BY <2>2, <1>8, <1>9, SaysMore
<1>12. ASSUME NEW p \in Squad, ~(p \in S /\ side[p] # to[p])
       PROVE  /\ \A t : Says(unread, p, t) => Says(news', p, t)
              /\ Silent(unread, p) => Silent(news', p)
  <2>1. Silent(said, p)
    BY <1>7, <1>12, <1>3, <1>4, SaidOfEach
  <2> QED
    BY <2>1, <1>8, <1>9, SaysMore, SilentMore
<1>13. ASSUME own, \A i \in 1..Len(unread) : unread[i][3] = TRUE, NEW i \in 1..Len(news')
       PROVE  news'[i][3] = TRUE
  <2>1. CASE i \in 1..Len(unread)
    BY <2>1, <1>8, <1>9, <1>13, ConcatProperties
  <2>2. CASE i \notin 1..Len(unread)
    <3>1. news'[i] = said[i - Len(unread)] /\ i - Len(unread) \in 1..Len(said)
      BY <2>2, <1>8, <1>9, <1>13, ConcatProperties
    <3> QED
      BY <3>1, <1>4, <1>9, <1>13
  <2> QED
    BY <2>1, <2>2
<1> QED
  BY <1>5, <1>10, <1>11, <1>12, <1>13 DEF Carried

LEMMA EvenInit == Even!Init => EvenInv
<1> SUFFICES ASSUME Even!Init PROVE EvenInv
  OBVIOUS
<1>1. Even!TypeOK
  <2>1. hush \in 0..Even!Larger(Calm, CalmAfterMove)
    BY SquadAssumption DEF Even!Init, Even!Larger
  <2>2. news \in Seq(Squad \X (Even!Teams \cup {"spec"}) \X BOOLEAN) /\ Len(news) <= MaxLines
    BY SquadAssumption DEF Even!Init
  <2>3. side \in [Squad -> Even!Teams \cup {"spec"}] /\ team = side
    BY DEF Even!Init
  <2> QED
    BY <2>1, <2>2, <2>3 DEF Even!Init, Even!TypeOK
<1>2. EvenHeard /\ EvenCalm
  BY DEF Even!Init, EvenHeard, EvenCalm, Silent
<1> QED
  BY <1>1, <1>2 DEF EvenInv

\* The server's word of a move of the bot, whatever was unread of whom it moves.
LEMMA EvenPut ==
  ASSUME Even!TypeOK, NEW unread \in Seq(EvenLine), NEW S \in SUBSET Squad, NEW to,
         \A p \in S : to[p] \in Places, UNCHANGED game,
         \A p \in Squad : \/ Says(unread, p, side[p])
                          \/ Silent(unread, p) /\ (p \in S \/ team[p] = side[p]),
         Even!Put(unread, S, to)
  PROVE  /\ side' \in [Squad -> Places] /\ team' \in [Squad -> Places]
         /\ news' \in Seq(EvenLine) /\ Len(news') <= MaxLines
         /\ marked' \subseteq Squad /\ EvenHeard'
<1> DEFINE told == Even!Told(to)
<1>1. side \in [Squad -> Places] /\ team \in [Squad -> Places] /\ marked \subseteq Squad
  BY EvenTypes DEF Even!TypeOK
<1>2. \A p \in S : told[p] \in Places /\ (told[p] # to[p] => told[p] # side[p])
  BY <1>1 DEF Even!Told, Even!Other, Places
<1>3. /\ Even!CarriesOut(unread, S, told, FALSE)
      /\ team' = [p \in Squad |-> IF p \in S THEN to[p] ELSE team[p]]
      /\ marked' = IF Even!Marks THEN marked \cup S ELSE marked
  BY DEF Even!Put
<1> HIDE DEF told
<1>4. Carried(unread, S, told)
  <2>1. \E own : own \in BOOLEAN /\ Even!CarriesOut(unread, S, told, own)
    BY <1>3, Zenon
  <2>2. PICK own : own \in BOOLEAN /\ Even!CarriesOut(unread, S, told, own)
    BY <2>1
  <2> QED
    BY <1>1, <1>2, <2>2, EvenCarries
<1>5. ASSUME NEW p \in Squad
      PROVE  Says(news', p, side'[p]) \/ (Silent(news', p) /\ team'[p] = side'[p])
  <2>1. CASE p \in S /\ side[p] # told[p]
    BY <1>4, <2>1 DEF Carried
  <2>2. CASE p \in S /\ side[p] = told[p]
    <3>1. side'[p] = side[p] /\ team'[p] = side[p]
      BY <1>2, <1>3, <1>4, <2>2 DEF Carried
    <3> QED
      BY <1>4, <2>2, <3>1 DEF Carried
  <2>3. CASE p \notin S
    <3>1. side'[p] = side[p] /\ team'[p] = team[p]
      BY <1>3, <1>4, <2>3 DEF Carried
    <3> QED
      BY <1>4, <2>3, <3>1 DEF Carried
  <2> QED
    BY <2>1, <2>2, <2>3
<1>6. side' \in [Squad -> Places] /\ team' \in [Squad -> Places] /\ marked' \subseteq Squad
  BY <1>1, <1>2, <1>3, <1>4 DEF Carried
<1> QED
  BY <1>4, <1>5, <1>6 DEF Carried, EvenHeard

\* A move of the bot is followed by quiet.
LEMMA EvenMove ==
  ASSUME EvenInv, NEW unread \in Seq(EvenLine), NEW S \in SUBSET Squad, NEW to,
         NEW held \in 0..Even!Larger(Calm, CalmAfterMove),
         \A p \in S : to[p] \in Places, UNCHANGED game,
         planned' \in BOOLEAN, settled' \in BOOLEAN, finished' \in BOOLEAN,
         \A p \in Squad : \/ Says(unread, p, side[p])
                          \/ Silent(unread, p) /\ (p \in S \/ team[p] = side[p]),
         Even!Move(unread, S, to, held)
  PROVE  EvenInv'
<1>1. /\ side' \in [Squad -> Places] /\ team' \in [Squad -> Places]
      /\ news' \in Seq(EvenLine) /\ Len(news') <= MaxLines
      /\ marked' \subseteq Squad /\ EvenHeard'
  BY EvenPut DEF Even!Move, EvenInv
<1>2. /\ hush' \in 0..Even!Larger(Calm, CalmAfterMove)
      /\ Even!Marks => hush' > 0
  BY SquadAssumption DEF Even!Move, Even!Larger
<1>3. Even!Marks' <=> Even!Marks
  BY DEF Even!Marks
<1>4. Even!TypeOK'
  <2>1. Even!Teams \cup {"spec"} = Places
    BY DEF Even!Teams, Places
  <2> QED
    BY <1>1, <1>2, <2>1 DEF Even!TypeOK, EvenInv, EvenLine
<1> QED
  BY <1>1, <1>2, <1>3, <1>4 DEF EvenInv, EvenCalm

\* What is unread once the first line is read: of the others as much, of its player perhaps
\* nothing more, and then the line says where they are.
LEMMA EvenTail ==
  ASSUME EvenInv, news # <<>>
  PROVE  /\ Tail(news) \in Seq(EvenLine) /\ Len(Tail(news)) = Len(news) - 1
         /\ news[1] \in EvenLine
         /\ \A p \in Squad : \/ Says(Tail(news), p, side[p])
                             \/ /\ Silent(Tail(news), p)
                                /\ \/ p = news[1][1] /\ side[p] = news[1][2]
                                   \/ p # news[1][1] /\ team[p] = side[p]
         /\ \A i \in 1..Len(Tail(news)) : Tail(news)[i] = news[i + 1]
<1>1. news \in Seq(EvenLine)
  BY EvenTypes DEF EvenInv
<1>2. ASSUME NEW p \in Squad
      PROVE  \/ Says(Tail(news), p, side[p])
             \/ /\ Silent(Tail(news), p)
                /\ \/ p = news[1][1] /\ side[p] = news[1][2]
                   \/ p # news[1][1] /\ team[p] = side[p]
  <2>1. CASE Says(news, p, side[p])
    BY <1>1, <2>1, SaysTail
  <2>2. CASE Silent(news, p) /\ team[p] = side[p]
    BY <1>1, <2>2, SilentTail
  <2> QED
    BY <2>1, <2>2 DEF EvenInv, EvenHeard
<1> QED
  BY <1>1, <1>2, ReadOne

LEMMA EvenRead ==
  ASSUME EvenInv, Even!Read
  PROVE  EvenInv'
<1>1. news # <<>> /\ UNCHANGED <<game, planned, settled, finished>>
  BY DEF Even!Read, Even!ReadAndLeave, Even!ReadAndMove
<1> DEFINE p == news[1][1]
           t == news[1][2]
<1>2. p \in Squad /\ t \in Places /\ \A i \in 1..Len(Tail(news)) : i + 1 \in 1..Len(news)
  BY <1>1, EvenTail, EvenTypes DEF EvenLine, EvenInv
<1>3. Even!TypeOK /\ side \in [Squad -> Places] /\ team \in [Squad -> Places] /\ Len(news) <= MaxLines
      /\ Len(news) \in Nat
  BY EvenTypes DEF EvenInv
<1>4. CASE Even!ReadAndLeave
  <2>1. /\ team' = [team EXCEPT ![p] = t] /\ marked' = marked \ {p}
        /\ news' = Tail(news) /\ UNCHANGED <<side, hush>>
    BY <1>4 DEF Even!ReadAndLeave
  <2>2. Even!TypeOK'
    <3>1. Even!Teams \cup {"spec"} = Places
      BY DEF Even!Teams, Places
    <3>2. team' \in [Squad -> Places]
      BY <1>2, <1>3, <2>1
    <3> QED
      BY <1>1, <1>3, <2>1, <3>1, <3>2, EvenTail, SquadAssumption DEF Even!TypeOK, EvenLine
  <2>3. EvenHeard'
    <3>1. \A q \in Squad : team'[q] = IF q = p THEN t ELSE team[q]
      BY <1>3, <2>1
    <3> HIDE DEF p, t
    <3> QED
      BY <1>1, <2>1, <3>1, EvenTail DEF EvenHeard, p, t
  <2>4. EvenCalm'
    <3>1. Even!Marks' <=> Even!Marks
      BY <1>1 DEF Even!Marks
    <3> QED
      BY <1>1, <1>2, <2>1, <3>1, EvenTail DEF EvenInv, EvenCalm
  <2> QED
    BY <2>2, <2>3, <2>4 DEF EvenInv
<1>5. CASE Even!ReadAndMove
  <2> DEFINE to == [q \in {p} |-> Even!Other(t)]
  <2>1. Even!Move(Tail(news), {p}, to, hush) /\ \A q \in {p} : to[q] \in Places
    BY <1>5 DEF Even!ReadAndMove, Even!Other, Places
  <2> HIDE DEF to
  <2>2. hush \in 0..Even!Larger(Calm, CalmAfterMove)
        /\ planned' \in BOOLEAN /\ settled' \in BOOLEAN /\ finished' \in BOOLEAN
    BY <1>1, <1>3 DEF Even!TypeOK
  <2>3. \A q \in Squad : \/ Says(Tail(news), q, side[q])
                         \/ Silent(Tail(news), q) /\ (q \in {p} \/ team[q] = side[q])
    BY <1>1, EvenTail
  <2>4. Tail(news) \in Seq(EvenLine) /\ {p} \in SUBSET Squad
    BY <1>1, <1>2, EvenTail
  <2> HIDE DEF p, t
  <2> QED
    BY <1>1, <2>1, <2>2, <2>3, <2>4, EvenMove
<1> QED
  BY <1>4, <1>5 DEF Even!Read

\* An admin or the balancer moves somebody, with all that is unread before it.
LEMMA EvenMoves ==
  ASSUME EvenInv, NEW S \in SUBSET Squad, NEW to, \A p \in S : to[p] \in Places,
         NEW held \in 0..Even!Larger(Calm, CalmAfterMove), UNCHANGED game,
         planned' \in BOOLEAN, settled' \in BOOLEAN, finished' \in BOOLEAN,
         Even!Move(news, S, to, held)
  PROVE  EvenInv'
<1>1. news \in Seq(EvenLine)
  BY EvenTypes DEF EvenInv
<1>2. \A p \in Squad : \/ Says(news, p, side[p])
                       \/ Silent(news, p) /\ (p \in S \/ team[p] = side[p])
  BY DEF EvenInv, EvenHeard
<1> QED
  BY <1>1, <1>2, EvenMove

\* Nothing is said and nobody moved.
LEMMA EvenStill ==
  ASSUME EvenInv, UNCHANGED <<game, side, news, team>>, marked' \subseteq Squad,
         hush' \in 0..Even!Larger(Calm, CalmAfterMove), \/ hush' >= hush
                                                        \/ hush' > 0
                                                        \/ news = <<>>,
         planned' \in BOOLEAN, settled' \in BOOLEAN, finished' \in BOOLEAN
  PROVE  EvenInv'
<1>1. Even!TypeOK'
  BY DEF EvenInv, Even!TypeOK
<1>2. EvenHeard'
  BY DEF EvenInv, EvenHeard
<1>3. EvenCalm'
  <2>1. Even!Marks' <=> Even!Marks
    BY DEF Even!Marks
  <2>2. hush \in Nat /\ hush' \in Nat
    BY EvenTypes, SquadAssumption DEF EvenInv, Even!Larger
  <2> QED
    BY <2>1, <2>2 DEF EvenInv, EvenCalm
<1> QED
  BY <1>1, <1>2, <1>3 DEF EvenInv

\* A player's own switch, and Homefront's !spect, whose line no mark waits for.
LEMMA EvenGoes ==
  ASSUME EvenInv, NEW p \in Squad, NEW t \in Places, NEW own \in BOOLEAN,
         Even!CarriesOut(news, {p}, [q \in {p} |-> t], own),
         UNCHANGED <<game, marked, planned, settled, finished>>,
         \/ own /\ t # side[p] /\ UNCHANGED <<team, hush>>
         \/ /\ team' = [team EXCEPT ![p] = t]
            /\ hush' = Even!Larger(hush, CalmAfterMove)
  PROVE  EvenInv'
<1> DEFINE to == [q \in {p} |-> t]
<1>1. to[p] = t /\ \A q \in {p} : to[q] \in Places
  OBVIOUS
<1>2. Even!CarriesOut(news, {p}, to, own)
  OBVIOUS
<1> HIDE DEF to
<1>3. /\ news \in Seq(EvenLine) /\ side \in [Squad -> Places] /\ team \in [Squad -> Places]
      /\ hush \in Nat /\ hush \in 0..Even!Larger(Calm, CalmAfterMove)
  BY EvenTypes DEF EvenInv, Even!TypeOK
<1>4. /\ Carried(news, {p}, to)
      /\ own /\ (\A i \in 1..Len(news) : news[i][3] = TRUE)
            => \A i \in 1..Len(news') : news'[i][3] = TRUE
  BY <1>1, <1>2, <1>3, EvenCarries
<1>5. side' \in [Squad -> Places] /\ \A q \in Squad : side'[q] = IF q = p THEN t ELSE side[q]
  BY <1>1, <1>3, <1>4 DEF Carried
<1>6. team' \in [Squad -> Places] /\ \A q \in Squad : q # p => team'[q] = team[q]
  BY <1>3
<1>7. hush' \in 0..Even!Larger(Calm, CalmAfterMove)
  BY <1>3, SquadAssumption DEF Even!Larger
<1>8. Even!TypeOK'
  <2>1. Even!Teams \cup {"spec"} = Places
    BY DEF Even!Teams, Places
  <2>2. news' \in Seq(EvenLine) /\ Len(news') <= MaxLines
    BY <1>4 DEF Carried
  <2> QED
    BY <1>5, <1>6, <1>7, <2>1, <2>2 DEF EvenInv, Even!TypeOK, EvenLine
<1>9. EvenHeard'
  <2>1. ASSUME NEW q \in Squad, q # p
        PROVE  Says(news', q, side'[q]) \/ (Silent(news', q) /\ team'[q] = side'[q])
    BY <1>4, <1>5, <1>6, <2>1 DEF Carried, EvenInv, EvenHeard
  <2>2. CASE side[p] # t
    <3>1. Says(news', p, side'[p])
      BY <1>1, <1>4, <1>5, <2>2 DEF Carried
    <3> QED
      BY <2>1, <3>1 DEF EvenHeard
  <2>3. CASE side[p] = t
    <3>1. side'[p] = side[p] /\ team'[p] = side[p]
      BY <1>3, <1>5, <2>3
    <3>2. Says(news', p, side'[p]) \/ (Silent(news', p) /\ team'[p] = side'[p])
      BY <1>1, <1>4, <2>3, <3>1 DEF Carried, EvenInv, EvenHeard
    <3> QED
      BY <2>1, <3>2 DEF EvenHeard
  <2> QED
    BY <2>2, <2>3
<1>10. EvenCalm'
  <2>1. Even!Marks' <=> Even!Marks
    BY DEF Even!Marks
  <2>2. CASE own /\ UNCHANGED hush
    BY <1>4, <2>1, <2>2 DEF EvenInv, EvenCalm
  <2>3. CASE hush' = Even!Larger(hush, CalmAfterMove)
    BY <1>3, <2>3, SquadAssumption DEF EvenCalm, Even!Larger
  <2> QED
    BY <2>2, <2>3
<1> QED
  BY <1>8, <1>9, <1>10 DEF EvenInv

LEMMA EvenDoes ==
  ASSUME EvenInv, NEW p \in Switchers, Even!Does(p)
  PROVE  EvenInv'
<1>1. /\ p \in Squad /\ Switchers \subseteq Squad
      /\ hush \in 0..Even!Larger(Calm, CalmAfterMove)
      /\ planned \in BOOLEAN /\ settled \in BOOLEAN /\ finished \in BOOLEAN
  BY SquadAssumption DEF EvenInv, Even!TypeOK
<1>2. \A t : Even!Other(t) \in Places
  BY DEF Even!Other, Places
<1>3. CASE Even!ChangeTeam(p)
  <2> DEFINE to == [q \in {p} |-> Even!Other(team[p])]
  <2>1. Even!Move(news, {p}, to, hush) /\ UNCHANGED <<game, planned, settled, finished>>
    BY <1>3 DEF Even!ChangeTeam
  <2>2. \A q \in {p} : to[q] \in Places
    BY <1>2
  <2> HIDE DEF to
  <2> QED
    BY <1>1, <2>1, <2>2, EvenMoves
<1>4. CASE Even!Spectate(p)
  <2>1. CASE Even!Move(news, {p}, [q \in {p} |-> "spec"], hush)
    <3> DEFINE to == [q \in {p} |-> "spec"]
    <3>1. \A q \in {p} : to[q] \in Places
      BY DEF Places
    <3>2. Even!Move(news, {p}, to, hush) /\ UNCHANGED <<game, planned, settled, finished>>
      BY <1>4, <2>1 DEF Even!Spectate
    <3> HIDE DEF to
    <3> QED
      BY <1>1, <3>1, <3>2, EvenMoves
  <2>2. CASE /\ Even!CarriesOut(news, {p}, [q \in {p} |-> "spec"], FALSE)
             /\ team' = [team EXCEPT ![p] = "spec"]
             /\ hush' = Even!Larger(hush, CalmAfterMove)
             /\ UNCHANGED marked
    <3>1. "spec" \in Places
      BY DEF Places
    <3>2. \E own \in BOOLEAN : Even!CarriesOut(news, {p}, [q \in {p} |-> "spec"], own)
      BY <2>2, Zenon
    <3>3. UNCHANGED <<game, planned, settled, finished>>
      BY <1>4 DEF Even!Spectate
    <3> QED
      BY <1>1, <2>2, <3>1, <3>2, <3>3, EvenGoes
  <2> QED
    BY <1>4, <2>1, <2>2 DEF Even!Spectate
<1>5. ASSUME NEW t \in Even!Teams \cup {"spec"}, Even!SwitchTeam(p, t) PROVE EvenInv'
  <2>1. t \in Places /\ t # side[p]
        /\ UNCHANGED <<game, team, marked, hush, planned, settled, finished>>
    BY <1>5 DEF Even!Teams, Places, Even!SwitchTeam
  <2>2. \E own \in BOOLEAN : own /\ Even!CarriesOut(news, {p}, [q \in {p} |-> t], own)
    BY <1>5, Zenon DEF Even!SwitchTeam
  <2> QED
    BY <1>1, <2>1, <2>2, EvenGoes
<1>6. ASSUME NEW q \in Switchers, Even!Swap(p, q) PROVE EvenInv'
  <2> DEFINE to == [r \in {p, q} |-> Even!Other(team[r])]
  <2>1. Even!Move(news, {p, q}, to, hush) /\ UNCHANGED <<game, planned, settled, finished>>
    BY <1>6 DEF Even!Swap
  <2>2. \A r \in {p, q} : to[r] \in Places
    BY <1>2
  <2>3. {p, q} \in SUBSET Squad
    BY <1>1
  <2> HIDE DEF to
  <2> QED
    BY <1>1, <2>1, <2>2, <2>3, EvenMoves
<1> QED
  BY <1>3, <1>4, <1>5, <1>6 DEF Even!Does

LEMMA EvenBalance ==
  ASSUME EvenInv, Even!AskBalance \/ Even!TimedBalance
  PROVE  EvenInv'
<1>1. /\ hush \in 0..Even!Larger(Calm, CalmAfterMove) /\ marked \subseteq Squad
      /\ planned \in BOOLEAN /\ settled \in BOOLEAN /\ finished \in BOOLEAN
  BY DEF EvenInv, Even!TypeOK
<1>2. Even!Balance /\ UNCHANGED <<game, planned, settled, finished>>
  BY DEF Even!AskBalance, Even!TimedBalance
<1>3. CASE Even!Stays
  BY <1>1, <1>2, <1>3, EvenStill DEF Even!Stays
<1>4. ASSUME NEW t, NEW P \in SUBSET (Even!On(t) \ Spared),
             Even!Move(news, P, [p \in P |-> Even!Other(t)], hush)
      PROVE  EvenInv'
  <2> DEFINE to == [p \in P |-> Even!Other(t)]
  <2>1. \A p \in P : to[p] \in Places
    BY DEF Even!Other, Places
  <2>2. P \in SUBSET Squad /\ Even!Move(news, P, to, hush)
    BY <1>4 DEF Even!On
  <2> HIDE DEF to
  <2> QED
    BY <1>1, <1>2, <2>1, <2>2, EvenMoves
<1> QED
  BY <1>2, <1>3, <1>4 DEF Even!Balance

LEMMA EvenRounds ==
  ASSUME EvenInv, \/ Even!RoundStart \/ Even!RoundEnd
                  \/ Even!PlanScramble \/ Even!Tick
  PROVE  EvenInv'
<1>1. /\ hush \in 0..Even!Larger(Calm, CalmAfterMove) /\ marked \subseteq Squad
      /\ planned \in BOOLEAN /\ settled \in BOOLEAN /\ finished \in BOOLEAN
      /\ hush \in Nat
  BY EvenTypes DEF EvenInv, Even!TypeOK
<1>2. CASE Even!RoundEnd \/ Even!PlanScramble
  <2>1. planned' \in BOOLEAN /\ settled' \in BOOLEAN /\ finished' \in BOOLEAN
    BY <1>1, <1>2, Zenon DEF Even!RoundEnd, Even!PlanScramble
  <2>2. UNCHANGED <<game, side, news, team, marked, hush>>
    BY <1>2 DEF Even!RoundEnd, Even!PlanScramble
  <2> QED
    BY <1>1, <2>1, <2>2, EvenStill
<1>3. CASE Even!Tick
  <2>1. hush' \in 0..Even!Larger(Calm, CalmAfterMove)
    BY <1>1, <1>3, SquadAssumption DEF Even!Tick, Even!Larger
  <2> QED
    BY <1>1, <1>3, <2>1, EvenStill DEF Even!Tick
<1>4. CASE Even!RoundStart
  <2> DEFINE held == IF Even!Marks THEN Calm ELSE hush
  <2>1. held \in 0..Even!Larger(Calm, CalmAfterMove) /\ (held > 0 \/ held >= hush)
    BY <1>1, SquadAssumption DEF Even!Larger
  <2>2. /\ \/ Even!Scramble(held)
           \/ hush' = held /\ UNCHANGED <<side, news, team, marked>>
        /\ planned' = FALSE /\ settled' = TRUE /\ UNCHANGED <<game, finished>>
    BY <1>4 DEF Even!RoundStart
  <2> HIDE DEF held
  <2>3. CASE hush' = held /\ UNCHANGED <<side, news, team, marked>>
    BY <1>1, <2>1, <2>2, <2>3, EvenStill
  <2>4. ASSUME NEW dealt0 \in SUBSET Squad, NEW blue,
               Even!Move(news, dealt0,
                         [p \in dealt0 |-> IF p \in blue THEN "blue" ELSE "red"], held)
        PROVE  EvenInv'
    <3> DEFINE to == [p \in dealt0 |-> IF p \in blue THEN "blue" ELSE "red"]
    <3>1. Even!Move(news, dealt0, to, held) /\ \A p \in dealt0 : to[p] \in Places
      BY <2>4 DEF Places
    <3> HIDE DEF to
    <3> QED
      BY <1>1, <2>1, <2>2, <3>1, EvenMoves
  <2>5. CASE Even!Scramble(held)
    BY <2>3, <2>4, <2>5 DEF Even!Scramble
  <2> QED
    BY <2>2, <2>3, <2>5
<1> QED
  BY <1>2, <1>3, <1>4

LEMMA EvenStep ==
  ASSUME EvenInv, \/ Even!Next
                  \/ UNCHANGED <<evenVars, teamVars>>
  PROVE  EvenInv'
<1>1. CASE Even!Next
  BY <1>1, EvenDoes, EvenRead, EvenBalance, EvenRounds DEF Even!Next
<1>2. CASE UNCHANGED <<evenVars, teamVars>>
  BY <1>2 DEF evenVars, teamVars, EvenInv, Even!TypeOK, EvenHeard, EvenCalm, Even!Marks
<1> QED
  BY <1>1, <1>2

\* Everybody is where the bot has them when all is read, and what it undoes is a player's own.
LEMMA EvenHolds ==
  ASSUME EvenInv
  PROVE  Even!TypeOK /\ Even!TeamsSettle /\ Even!UndoesOnlyOwnSwitches
<1>1. Even!TeamsSettle
  <2> SUFFICES ASSUME news = <<>> PROVE team = side
    BY DEF Even!TeamsSettle
  <2>1. \A p \in Squad : team[p] = side[p]
    BY DEF EvenInv, EvenHeard, Says
  <2> QED
    BY <2>1, EvenTypes DEF EvenInv
<1>2. Even!UndoesOnlyOwnSwitches
  <2> SUFFICES ASSUME Even!ReadAndMove, Even!Marks PROVE news[1][3]
    BY DEF Even!UndoesOnlyOwnSwitches
  <2>1. hush = 0 /\ news # <<>>
    BY DEF Even!ReadAndMove, Even!Intervenes, Even!PutsBack
  <2>2. 1 \in 1..Len(news)
    BY <2>1, EvenTypes DEF EvenInv
  <2>3. news[1][3] = TRUE
    BY <2>1, <2>2 DEF EvenInv, EvenCalm
  <2> QED
    BY <2>3
<1> QED
  BY <1>1, <1>2 DEF EvenInv

-----------------------------------------------------------------------------
(* Teams of Urban Terror (UrtTeams).                                          *)

TurfHeard ==
    \A p \in Crew : \/ Says(news, p, side[p])
                    \/ Silent(news, p) /\ team[p] = side[p]

\* Who is locked, and not where they are locked, is about to be seen to be elsewhere: the last
\* line about them is one that the bot takes for a change of team.
TurfHeld ==
    \A p \in Crew \ dealt : \/ locked[p] \in {Turf!NoSide, side[p]}
                            \/ Tidings(news, p, team[p], side[p])

TurfInv == Turf!TypeOK /\ TurfHeard /\ TurfHeld

TurfLine == Crew \X Places

LEMMA TurfTypes == Turf!TypeOK =>
  /\ side \in [Crew -> Places] /\ team \in [Crew -> Places] /\ news \in Seq(TurfLine)
  /\ Len(news) \in Nat /\ Len(news) <= MaxNews /\ hush \in Nat
  /\ locked \in [Crew -> Places \cup {Turf!NoSide}] /\ Turf!NoSide \notin Places
<1>1. Turf!Sides \cup {"spec"} = Places /\ Turf!NoSide \notin Places
  BY DEF Turf!Sides, Places, Turf!NoSide
<1>2. Turf!Sides \cup {"spec", Turf!NoSide} = Places \cup {Turf!NoSide}
  BY DEF Turf!Sides, Places, Turf!NoSide
<1> QED
  BY <1>1, <1>2, CrewAssumption DEF Turf!TypeOK, TurfLine

\* The same, to conclude the types of a later state from.
LEMMA TurfTyped ==
  ASSUME side' \in [Crew -> Places], team' \in [Crew -> Places],
         news' \in Seq(TurfLine), Len(news') <= MaxNews,
         locked' \in [Crew -> Places \cup {Turf!NoSide}], hush' \in 0..Quiet,
         roundEnded' \in BOOLEAN, balancePending' \in BOOLEAN, skillPending' \in BOOLEAN,
         dealt' \subseteq Crew
  PROVE  Turf!TypeOK'
<1>1. Turf!Sides \cup {"spec"} = Places
  BY DEF Turf!Sides, Places
<1>2. Turf!Sides \cup {"spec", Turf!NoSide} = Places \cup {Turf!NoSide}
  BY DEF Turf!Sides, Places, Turf!NoSide
<1> QED
  BY <1>1, <1>2 DEF Turf!TypeOK, TurfLine

LEMMA TurfInit == Turf!Init => TurfInv
<1> SUFFICES ASSUME Turf!Init PROVE TurfInv
  OBVIOUS
<1>1. Turf!TypeOK
  <2>1. side \in [Crew -> Turf!Sides \cup {"spec"}] /\ team = side
    BY DEF Turf!Init
  <2>2. news \in Seq(Crew \X (Turf!Sides \cup {"spec"})) /\ Len(news) <= MaxNews
    BY CrewAssumption DEF Turf!Init
  <2>3. locked \in [Crew -> Turf!Sides \cup {"spec", Turf!NoSide}] /\ hush \in 0..Quiet
    BY CrewAssumption DEF Turf!Init
  <2> QED
    BY <2>1, <2>2, <2>3 DEF Turf!Init, Turf!TypeOK
<1>2. TurfHeard /\ TurfHeld
  BY DEF Turf!Init, TurfHeard, TurfHeld, Silent
<1> QED
  BY <1>1, <1>2 DEF TurfInv

\* Players are put where `to` has them and the lines say so.
TurfSaid(from, S, to, said) ==
    /\ said \in Seq(TurfLine)
    /\ \A p \in S : from[p] # to[p] =>
          /\ Says(said, p, to[p])
          /\ \E m \in 1..Len(said) : /\ said[m][1] = p /\ said[m][2] = to[p]
                                     /\ \A j \in 1..Len(said) : said[j][1] = p => j = m
    /\ \A p : ~(p \in S /\ from[p] # to[p]) => Silent(said, p)

LEMMA TurfLines ==
  ASSUME NEW from, NEW S \in SUBSET Crew, NEW to, \A p \in S : to[p] \in Places,
         NEW said \in Turf!SetToSeqs(Turf!Lines(from, S, to))
  PROVE  /\ TurfSaid(from, S, to, said)
         /\ Len(said) = Turf!Cardinality(Turf!Lines(from, S, to))
<1> DEFINE T == {q \in S : from[q] # to[q]}
           L == {<<p, to[p]>> : p \in T}
           f == [p \in T |-> <<p, to[p]>>]
<1>1. IsFiniteSet(T)
  BY CrewAssumption, FS_Subset
<1>2. L = {f[p] : p \in T}
  OBVIOUS
<1>3. IsFiniteSet(L)
  <2> HIDE DEF f, L, T
  <2> QED
    BY <1>1, <1>2, ImageFinite
<1>4. L \subseteq TurfLine /\ OneLineEach(L)
  BY DEF TurfLine, OneLineEach
<1>5. Turf!Lines(from, S, to) = L
  BY DEF Turf!Lines
<1>6. \A p \in S : from[p] # to[p] => <<p, to[p]>> \in L
  OBVIOUS
<1>7. \A p : ~(p \in S /\ from[p] # to[p]) => \A l \in L : l[1] # p
  OBVIOUS
<1> HIDE DEF L
<1>8. said \in Orders(L)
  BY <1>5, OrdersAre
<1>9. said \in Seq(L) /\ Len(said) = Cardinality(L) /\ said \in Seq(TurfLine)
  <2>1. said \in Seq(L) /\ Len(said) = Cardinality(L)
    BY <1>3, <1>8, InAnyOrder
  <2> QED
    BY <2>1, <1>4
<1>10. ASSUME NEW p \in S, from[p] # to[p]
       PROVE  /\ Says(said, p, to[p])
              /\ \E m \in 1..Len(said) : /\ said[m][1] = p /\ said[m][2] = to[p]
                                         /\ \A j \in 1..Len(said) : said[j][1] = p => j = m
  <2> DEFINE l == <<p, to[p]>>
  <2>1. l \in L /\ l[1] = p /\ l[2] = to[p]
    BY <1>6, <1>10
  <2> HIDE DEF l
  <2> QED
    BY <2>1, <1>3, <1>4, <1>8, SaidOfEach
<1>11. \A p : ~(p \in S /\ from[p] # to[p]) => Silent(said, p)
  BY <1>3, <1>4, <1>7, <1>8, SaidOfEach
<1> QED
  BY <1>5, <1>9, <1>10, <1>11, OrdersAre DEF TurfSaid

\* What the server has done, and what it has said of it.
TurfCarried(S, to) ==
    /\ side' = Turf!After(side, S, to)
    /\ news' \in Seq(TurfLine) /\ Len(news') <= MaxNews
    /\ \A p \in S : side[p] # to[p] =>
          /\ Says(news', p, to[p])
          /\ \A b : Silent(news, p) /\ b # to[p] => Tidings(news', p, b, to[p])
          /\ \A b, s : s # to[p] /\ Says(news, p, s) => Tidings(news', p, b, to[p])
    /\ \A p : ~(p \in S /\ side[p] # to[p]) =>
          /\ \A t : Says(news, p, t) => Says(news', p, t)
          /\ Silent(news, p) => Silent(news', p)
          /\ \A b, t : Tidings(news, p, b, t) => Tidings(news', p, b, t)

LEMMA TurfCarries ==
  ASSUME TurfInv, NEW S \in SUBSET Crew, NEW to, \A p \in S : to[p] \in Places,
         Turf!CarriesOut(S, to)
  PROVE  TurfCarried(S, to)
<1>1. news \in Seq(TurfLine) /\ Len(news) \in Nat
  BY TurfTypes DEF TurfInv
<1>2. /\ side' = Turf!After(side, S, to)
      /\ Len(news) + Turf!Cardinality(Turf!Lines(side, S, to)) <= MaxNews
  BY DEF Turf!CarriesOut
<1>3. PICK said \in Turf!SetToSeqs(Turf!Lines(side, S, to)) : news' = news \o said
  BY DEF Turf!CarriesOut
<1>4. TurfSaid(side, S, to, said) /\ Len(said) = Turf!Cardinality(Turf!Lines(side, S, to))
  BY <1>3, TurfLines
<1>5. said \in Seq(TurfLine)
  BY <1>4 DEF TurfSaid
<1>6. news' \in Seq(TurfLine) /\ Len(news') <= MaxNews
  BY <1>1, <1>2, <1>3, <1>4, <1>5, ConcatProperties
<1>7. ASSUME NEW p \in S, side[p] # to[p]
      PROVE  /\ Says(news', p, to[p])
             /\ \A b : Silent(news, p) /\ b # to[p] => Tidings(news', p, b, to[p])
             /\ \A b, s : s # to[p] /\ Says(news, p, s) => Tidings(news', p, b, to[p])
  <2>1. /\ Says(said, p, to[p])
        /\ \E m \in 1..Len(said) : /\ said[m][1] = p /\ said[m][2] = to[p]
                                   /\ \A j \in 1..Len(said) : said[j][1] = p => j = m
    BY <1>4, <1>7 DEF TurfSaid
  <2>2. Says(news', p, to[p])
    BY <1>1, <1>3, <1>5, <2>1, SaysMore
  <2>3. ASSUME NEW b, \/ Silent(news, p) /\ b # to[p]
                      \/ \E s : s # to[p] /\ Says(news, p, s)
        PROVE  Tidings(news', p, b, to[p])
    BY <1>1, <1>3, <1>5, <2>1, <2>3, TidingsTold
  <2> QED
    BY <2>2, <2>3
<1>8. ASSUME NEW p, ~(p \in S /\ side[p] # to[p])
      PROVE  /\ \A t : Says(news, p, t) => Says(news', p, t)
             /\ Silent(news, p) => Silent(news', p)
             /\ \A b, t : Tidings(news, p, b, t) => Tidings(news', p, b, t)
  <2>1. Silent(said, p)
    BY <1>4, <1>8 DEF TurfSaid
  <2> QED
    BY <2>1, <1>1, <1>3, <1>5, SaysMore, SilentMore, TidingsKept
<1> QED
  BY <1>2, <1>6, <1>7, <1>8 DEF TurfCarried

\* The bot has not been told yet: what it believes of a locked player is what makes it act.
LEMMA TurfTells ==
  ASSUME TurfInv, NEW S \in SUBSET Crew, NEW to, \A p \in S : to[p] \in Places,
         Turf!CarriesOut(S, to), UNCHANGED team,
         \A p \in Crew \ dealt' : \/ p \notin dealt /\ locked'[p] = locked[p]
                                  \/ locked'[p] \in {Turf!NoSide, side'[p]}
  PROVE  /\ side' \in [Crew -> Places] /\ news' \in Seq(TurfLine) /\ Len(news') <= MaxNews
         /\ TurfHeard' /\ TurfHeld'
<1>1. side \in [Crew -> Places] /\ TurfCarried(S, to)
  BY TurfCarries, TurfTypes DEF TurfInv
<1>2. \A p \in Crew : side'[p] = IF p \in S THEN to[p] ELSE side[p]
  BY <1>1 DEF TurfCarried, Turf!After
<1>3. side' \in [Crew -> Places]
  BY <1>1 DEF TurfCarried, Turf!After
<1>4. ASSUME NEW p \in Crew
      PROVE  Says(news', p, side'[p]) \/ (Silent(news', p) /\ team'[p] = side'[p])
  <2>1. Says(news, p, side[p]) \/ (Silent(news, p) /\ team[p] = side[p])
    BY DEF TurfInv, TurfHeard
  <2>2. CASE p \in S /\ side[p] # to[p]
    BY <1>1, <1>2, <2>2 DEF TurfCarried
  <2>3. CASE ~(p \in S /\ side[p] # to[p])
    <3>1. side'[p] = side[p] /\ team'[p] = team[p]
      BY <1>2, <2>3
    <3> QED
      BY <1>1, <2>1, <2>3, <3>1 DEF TurfCarried
  <2> QED
    BY <2>2, <2>3
<1>5. ASSUME NEW p \in Crew \ dealt'
      PROVE  locked'[p] \in {Turf!NoSide, side'[p]} \/ Tidings(news', p, team'[p], side'[p])
  <2> SUFFICES ASSUME p \notin dealt, locked'[p] = locked[p]
               PROVE  \/ locked'[p] \in {Turf!NoSide, side'[p]}
                      \/ Tidings(news', p, team'[p], side'[p])
    OBVIOUS
  <2>1. Says(news, p, side[p]) \/ (Silent(news, p) /\ team[p] = side[p])
    BY DEF TurfInv, TurfHeard
  <2>2. CASE p \in S /\ side[p] # to[p]
    <3>1. \/ Silent(news, p) /\ team[p] # to[p]
          \/ \E s : s # to[p] /\ Says(news, p, s)
      BY <2>1, <2>2
    <3>2. Tidings(news', p, team[p], to[p])
      BY <1>1, <2>2, <3>1 DEF TurfCarried
    <3> QED
      BY <1>2, <2>2, <3>2
  <2>3. CASE ~(p \in S /\ side[p] # to[p])
    <3>1. side'[p] = side[p] /\ team'[p] = team[p]
      BY <1>2, <2>3
    <3>2. locked[p] \in {Turf!NoSide, side[p]} \/ Tidings(news, p, team[p], side[p])
      BY DEF TurfInv, TurfHeld
    <3> QED
      BY <1>1, <2>3, <3>1, <3>2 DEF TurfCarried
  <2> QED
    BY <2>2, <2>3
<1>6. TurfHeard' /\ TurfHeld'
  BY <1>4, <1>5 DEF TurfHeard, TurfHeld
<1> QED
  BY <1>1, <1>3, <1>6 DEF TurfCarried

\* The server has moved somebody for an admin.
LEMMA TurfPut ==
  ASSUME TurfInv, NEW S \in SUBSET Crew, NEW to, \A r \in S : to[r] \in Places,
         Turf!CarriesOut(S, to), hush' = Quiet,
         UNCHANGED <<team, locked, roundEnded, balancePending, skillPending, dealt>>
  PROVE  TurfInv'
<1>1. /\ team \in [Crew -> Places] /\ locked \in [Crew -> Places \cup {Turf!NoSide}]
      /\ Quiet \in 0..Quiet /\ dealt \subseteq Crew
      /\ roundEnded \in BOOLEAN /\ balancePending \in BOOLEAN /\ skillPending \in BOOLEAN
  BY TurfTypes, CrewAssumption DEF TurfInv, Turf!TypeOK
<1>2. /\ side' \in [Crew -> Places] /\ news' \in Seq(TurfLine) /\ Len(news') <= MaxNews
      /\ TurfHeard' /\ TurfHeld'
  BY TurfTells
<1> QED
  BY <1>1, <1>2, TurfTyped DEF TurfInv

\* Players and admins move somebody; the locks of those they move are off, or where they go.
LEMMA TurfPlayers ==
  ASSUME TurfInv, NEW p \in Crew, NEW q \in Crew,
         \/ \E t \in Turf!Sides \cup {"spec"} : Turf!ChangeTeam(p, t)
         \/ \E t \in ForceInto, lock \in BOOLEAN : Turf!Force(p, t, lock)
         \/ Turf!Swap(p, q)
  PROVE  TurfInv'
<1>1. /\ side \in [Crew -> Places] /\ team \in [Crew -> Places]
      /\ locked \in [Crew -> Places \cup {Turf!NoSide}] /\ hush \in 0..Quiet /\ Quiet \in 0..Quiet
      /\ roundEnded \in BOOLEAN /\ balancePending \in BOOLEAN /\ skillPending \in BOOLEAN
      /\ dealt \subseteq Crew
  BY TurfTypes, CrewAssumption DEF TurfInv, Turf!TypeOK
<1>2. ForceInto \subseteq Places /\ Turf!Sides \cup {"spec"} = Places
  BY CrewAssumption DEF Places, Turf!Sides
<1>3. ASSUME NEW t \in Places, Turf!ChangeTeam(p, t) PROVE TurfInv'
  <2> DEFINE to == [r \in {p} |-> t]
  <2>1. /\ Turf!CarriesOut({p}, to)
        /\ UNCHANGED <<team, locked, hush, roundEnded, balancePending, skillPending, dealt>>
    BY <1>3 DEF Turf!ChangeTeam, Turf!rounds
  <2>2. \A r \in {p} : to[r] \in Places
    OBVIOUS
  <2> HIDE DEF to
  <2>3. /\ side' \in [Crew -> Places] /\ news' \in Seq(TurfLine) /\ Len(news') <= MaxNews
        /\ TurfHeard' /\ TurfHeld'
    BY <2>1, <2>2, TurfTells
  <2> QED
    BY <1>1, <2>1, <2>3, TurfTyped DEF TurfInv
<1>4. ASSUME NEW t \in Places, NEW lock, Turf!Force(p, t, lock) PROVE TurfInv'
  <2> DEFINE to == [r \in {p} |-> t]
  <2>1. /\ Turf!CarriesOut({p}, to)
        /\ locked' = [locked EXCEPT ![p] = IF lock THEN t ELSE Turf!NoSide]
        /\ hush' = Quiet /\ dealt' = dealt \ {p}
        /\ UNCHANGED <<team, roundEnded, balancePending, skillPending>>
    BY <1>4 DEF Turf!Force, Turf!rounds
  <2>2. to[p] = t /\ \A r \in {p} : to[r] \in Places
    OBVIOUS
  <2> HIDE DEF to
  <2>3. side'[p] = t
    BY <2>1, <2>2 DEF Turf!CarriesOut, Turf!After
  <2>4. \A r \in Crew \ dealt' : \/ r \notin dealt /\ locked'[r] = locked[r]
                                 \/ locked'[r] \in {Turf!NoSide, side'[r]}
    BY <1>1, <2>1, <2>3
  <2>5. /\ side' \in [Crew -> Places] /\ news' \in Seq(TurfLine) /\ Len(news') <= MaxNews
        /\ TurfHeard' /\ TurfHeld'
    BY <2>1, <2>2, <2>4, TurfTells
  <2>6. locked' \in [Crew -> Places \cup {Turf!NoSide}] /\ dealt' \subseteq Crew
    BY <1>1, <2>1
  <2> QED
    BY <1>1, <2>1, <2>5, <2>6, TurfTyped DEF TurfInv
<1>5. CASE Turf!Swap(p, q)
  <2> DEFINE to == [r \in {p, q} |-> IF r = p THEN side[q] ELSE side[p]]
  <2>1. /\ Turf!CarriesOut({p, q}, to) /\ hush' = Quiet
        /\ UNCHANGED <<team, locked, roundEnded, balancePending, skillPending, dealt>>
    BY <1>5 DEF Turf!Swap, Turf!rounds
  <2>2. {p, q} \in SUBSET Crew /\ \A r \in {p, q} : to[r] \in Places
    BY <1>1
  <2> HIDE DEF to
  <2> QED
    BY <2>1, <2>2, TurfPut
<1> QED
  BY <1>2, <1>3, <1>4, <1>5

LEMMA TurfSwapped ==
  ASSUME TurfInv, Turf!SwapTeams
  PROVE  TurfInv'
<1>1. side \in [Crew -> Places]
  BY TurfTypes DEF TurfInv
<1> DEFINE to == [r \in Crew |-> IF side[r] \in Turf!Sides THEN Turf!Other(side[r]) ELSE side[r]]
<1>2. /\ Turf!CarriesOut(Crew, to) /\ hush' = Quiet
      /\ UNCHANGED <<team, locked, roundEnded, balancePending, skillPending, dealt>>
  BY DEF Turf!SwapTeams, Turf!rounds
<1>3. Crew \in SUBSET Crew /\ \A r \in Crew : to[r] \in Places
  BY <1>1 DEF Turf!Other, Places
<1> HIDE DEF to
<1> QED
  BY <1>2, <1>3, TurfPut

\* The balancer moves players who are not locked, and believes it at once.
LEMMA TurfMoves ==
  ASSUME TurfInv, NEW P \in SUBSET Crew, NEW t \in Places, Turf!Move(P, t),
         \A p \in P : locked[p] = Turf!NoSide, UNCHANGED <<locked, dealt>>, hush' \in 0..Quiet,
         roundEnded' \in BOOLEAN, balancePending' \in BOOLEAN, skillPending' \in BOOLEAN
  PROVE  TurfInv'
<1> DEFINE to == [p \in P |-> t]
<1>1. /\ Turf!CarriesOut(P, to)
      /\ team' = [p \in Crew |-> IF p \in P THEN t ELSE team[p]]
  BY DEF Turf!Move
<1>2. \A p \in P : to[p] = t
  OBVIOUS
<1> HIDE DEF to
<1>3. /\ side \in [Crew -> Places] /\ team \in [Crew -> Places] /\ dealt \subseteq Crew
      /\ locked \in [Crew -> Places \cup {Turf!NoSide}]
  BY TurfTypes DEF TurfInv, Turf!TypeOK
<1>4. TurfCarried(P, to)
  BY <1>1, <1>2, TurfCarries
<1>5. /\ side' \in [Crew -> Places] /\ team' \in [Crew -> Places]
      /\ news' \in Seq(TurfLine) /\ Len(news') <= MaxNews
      /\ \A p \in Crew : side'[p] = IF p \in P THEN t ELSE side[p]
      /\ \A p \in Crew : team'[p] = IF p \in P THEN t ELSE team[p]
  BY <1>1, <1>2, <1>3, <1>4 DEF TurfCarried, Turf!After
<1>6. ASSUME NEW p \in Crew
      PROVE  Says(news', p, side'[p]) \/ (Silent(news', p) /\ team'[p] = side'[p])
  <2>1. Says(news, p, side[p]) \/ (Silent(news, p) /\ team[p] = side[p])
    BY DEF TurfInv, TurfHeard
  <2>2. CASE p \in P /\ side[p] # to[p]
    BY <1>2, <1>4, <1>5, <2>2 DEF TurfCarried
  <2>3. CASE p \in P /\ side[p] = to[p]
    BY <1>2, <1>4, <1>5, <2>1, <2>3 DEF TurfCarried
  <2>4. CASE p \notin P
    BY <1>4, <1>5, <2>1, <2>4 DEF TurfCarried
  <2> QED
    BY <2>2, <2>3, <2>4
<1>7. ASSUME NEW p \in Crew \ dealt', p \notin P
      PROVE  locked'[p] \in {Turf!NoSide, side'[p]} \/ Tidings(news', p, team'[p], side'[p])
  <2>1. locked[p] \in {Turf!NoSide, side[p]} \/ Tidings(news, p, team[p], side[p])
    BY DEF TurfInv, TurfHeld
  <2> QED
    BY <1>4, <1>5, <1>7, <2>1 DEF TurfCarried
<1>8. TurfHeard' /\ TurfHeld'
  BY <1>6, <1>7 DEF TurfHeard, TurfHeld
<1> QED
  BY <1>3, <1>5, <1>8, TurfTyped DEF TurfInv

\* Nothing is said, nobody moved, and no lock is new.
LEMMA TurfStill ==
  ASSUME TurfInv, UNCHANGED <<side, news, team>>, hush' \in 0..Quiet,
         \/ UNCHANGED <<locked, dealt>>
         \/ \E p \in Crew : /\ locked' = [locked EXCEPT ![p] = Turf!NoSide]
                            /\ dealt' = dealt \ {p}
         \/ locked' = [p \in Crew |-> Turf!NoSide] /\ dealt' = {},
         roundEnded' \in BOOLEAN, balancePending' \in BOOLEAN, skillPending' \in BOOLEAN
  PROVE  TurfInv'
<1>1. /\ side \in [Crew -> Places] /\ team \in [Crew -> Places] /\ dealt \subseteq Crew
      /\ locked \in [Crew -> Places \cup {Turf!NoSide}]
      /\ news \in Seq(TurfLine) /\ Len(news) <= MaxNews
  BY TurfTypes DEF TurfInv, Turf!TypeOK
<1>2. /\ locked' \in [Crew -> Places \cup {Turf!NoSide}] /\ dealt' \subseteq Crew
      /\ \A p \in Crew \ dealt' : \/ locked'[p] = Turf!NoSide
                                  \/ p \notin dealt /\ locked'[p] = locked[p]
  BY <1>1
<1>3. TurfHeard' /\ TurfHeld'
  BY <1>2 DEF TurfInv, TurfHeard, TurfHeld
<1> QED
  BY <1>1, <1>2, <1>3, TurfTyped DEF TurfInv

LEMMA TurfBalance ==
  ASSUME TurfInv, Turf!Balance, UNCHANGED <<locked, dealt>>,
         roundEnded' \in BOOLEAN, balancePending' \in BOOLEAN, skillPending' \in BOOLEAN
  PROVE  TurfInv'
<1>1. hush \in 0..Quiet /\ Quiet \in 0..Quiet
  BY CrewAssumption DEF TurfInv, Turf!TypeOK
<1>2. CASE Turf!Stays /\ UNCHANGED <<team, hush>>
  BY <1>1, <1>2, TurfStill DEF Turf!Stays
<1>3. ASSUME NEW t \in Turf!Sides,
             NEW P \in SUBSET {p \in Turf!On(t) : Turf!MayMove(p)},
             Turf!Move(P, Turf!Other(t)), hush' = Quiet
      PROVE  TurfInv'
  <2>1. P \in SUBSET Crew /\ \A p \in P : locked[p] = Turf!NoSide
    BY DEF Turf!On, Turf!MayMove
  <2>2. Turf!Other(t) \in Places
    BY DEF Turf!Other, Places
  <2> QED
    BY <1>1, <1>3, <2>1, <2>2, TurfMoves
<1> QED
  BY <1>2, <1>3 DEF Turf!Balance

\* Three batches of lines after what was unread: what one of them says of a player is said when
\* the later ones say nothing of them.
LEMMA ThreeMore ==
  ASSUME NEW S, NEW u \in Seq(S), NEW a \in Seq(S), NEW b \in Seq(S), NEW c \in Seq(S), NEW p
  PROVE  /\ u \o a \o b \o c \in Seq(S)
         /\ \A t : Says(c, p, t) => Says(u \o a \o b \o c, p, t)
         /\ \A t : Says(b, p, t) /\ Silent(c, p) => Says(u \o a \o b \o c, p, t)
         /\ Silent(a, p) /\ Silent(b, p) /\ Silent(c, p) =>
               /\ \A t : Says(u, p, t) => Says(u \o a \o b \o c, p, t)
               /\ Silent(u, p) => Silent(u \o a \o b \o c, p)
               /\ \A x, t : Tidings(u, p, x, t) => Tidings(u \o a \o b \o c, p, x, t)
<1> DEFINE ua == u \o a
           ub == ua \o b
<1>1. ua \in Seq(S)
  BY ConcatProperties
<1> HIDE DEF ua
<1>2. ub \in Seq(S)
  BY <1>1, ConcatProperties
<1> HIDE DEF ub
<1>3. ub \o c \in Seq(S)
  BY <1>2, ConcatProperties
<1>4. \A t : Says(c, p, t) => Says(ub \o c, p, t)
  BY <1>2, SaysMore
<1>5. ASSUME NEW t, Says(b, p, t), Silent(c, p) PROVE Says(ub \o c, p, t)
  <2>1. Says(ub, p, t)
    BY <1>1, <1>5, SaysMore DEF ub
  <2> QED
    BY <2>1, <1>2, <1>5, SaysMore
<1>6. ASSUME Silent(a, p), Silent(b, p), Silent(c, p)
      PROVE  /\ \A t : Says(u, p, t) => Says(ub \o c, p, t)
             /\ Silent(u, p) => Silent(ub \o c, p)
             /\ \A x, t : Tidings(u, p, x, t) => Tidings(ub \o c, p, x, t)
  <2>1. /\ \A t : Says(u, p, t) => Says(ua, p, t)
        /\ Silent(u, p) => Silent(ua, p)
        /\ \A x, t : Tidings(u, p, x, t) => Tidings(ua, p, x, t)
    BY <1>6, SaysMore, SilentMore, TidingsKept DEF ua
  <2>2. /\ \A t : Says(ua, p, t) => Says(ub, p, t)
        /\ Silent(ua, p) => Silent(ub, p)
        /\ \A x, t : Tidings(ua, p, x, t) => Tidings(ub, p, x, t)
    BY <1>1, <1>6, SaysMore, SilentMore, TidingsKept DEF ub
  <2>3. /\ \A t : Says(ub, p, t) => Says(ub \o c, p, t)
        /\ Silent(ub, p) => Silent(ub \o c, p)
        /\ \A x, t : Tidings(ub, p, x, t) => Tidings(ub \o c, p, x, t)
    BY <1>2, <1>6, SaysMore, SilentMore, TidingsKept
  <2> QED
    BY <2>1, <2>2, <2>3
<1> QED
  BY <1>3, <1>4, <1>5, <1>6 DEF ua, ub

\* A deal: the locked whom it moves are among those dealt, and the one who was parked is the
\* last of whom anything is said.
LEMMA TurfShuffles ==
  ASSUME TurfInv, NEW blue, Turf!ShuffleInto(blue), UNCHANGED locked,
         roundEnded' \in BOOLEAN, balancePending' \in BOOLEAN, skillPending' \in BOOLEAN
  PROVE  TurfInv'
<1> DEFINE Playing == Turf!Playing
           to == [p \in Playing |-> IF p \in blue THEN "blue" ELSE "red"]
           aside == [p \in Playing |-> "spec"]
           going == {p \in Playing : team[p] # to[p]}
<1>1. Playing \subseteq Crew /\ going \subseteq Playing
  BY DEF Turf!Playing, Turf!On
<1>2. /\ \A p \in Playing : to[p] \in Places /\ (p \in blue => to[p] = "blue")
      /\ \A p \in Playing : aside[p] = "spec" /\ "spec" \in Places
  BY DEF Places
<1>3. /\ side' = Turf!After(side, going, to)
      /\ team' = [p \in Crew |-> IF p \in going THEN to[p] ELSE team[p]]
      /\ dealt' = dealt \cup {p \in going : locked[p] # Turf!NoSide}
      /\ hush' = IF going = {} THEN hush ELSE Quiet
  BY DEF Turf!ShuffleInto
<1>4. PICK P \in SUBSET (going \cap blue) :
        \E out \in Turf!SetToSeqs(Turf!Lines(side, P, aside)),
           said \in Turf!SetToSeqs(Turf!Lines(side, going \ P, to)),
           back \in Turf!SetToSeqs(Turf!Lines(Turf!After(side, P, aside), P, to)) :
              news' = news \o out \o said \o back /\ Len(news') <= MaxNews
  BY DEF Turf!ShuffleInto
<1>5. \A p \in P : aside[p] \in Places /\ to[p] \in Places /\ to[p] = "blue"
  BY <1>1, <1>2
<1>6. \A p \in going : to[p] \in Places
  BY <1>1, <1>2
<1>7. P \in SUBSET Crew /\ going \in SUBSET Crew
  BY <1>1
<1>8. \A p \in P : Turf!After(side, P, aside)[p] = "spec"
  BY <1>1, <1>2 DEF Turf!After
<1> HIDE DEF to, aside, going, Playing
<1>9. PICK out \in Turf!SetToSeqs(Turf!Lines(side, P, aside)),
           said \in Turf!SetToSeqs(Turf!Lines(side, going \ P, to)),
           back \in Turf!SetToSeqs(Turf!Lines(Turf!After(side, P, aside), P, to)) :
              news' = news \o out \o said \o back /\ Len(news') <= MaxNews
  BY <1>4
<1>10. TurfSaid(side, P, aside, out)
  BY <1>5, <1>7, TurfLines
<1>11. TurfSaid(side, going \ P, to, said)
  <2>1. (going \ P) \in SUBSET Crew /\ \A p \in going \ P : to[p] \in Places
    BY <1>6, <1>7
  <2> QED
    BY <2>1, TurfLines
<1>12. TurfSaid(Turf!After(side, P, aside), P, to, back)
  BY <1>5, <1>7, TurfLines
<1>13. /\ side \in [Crew -> Places] /\ team \in [Crew -> Places] /\ dealt \subseteq Crew
       /\ locked \in [Crew -> Places \cup {Turf!NoSide}] /\ news \in Seq(TurfLine)
       /\ hush \in 0..Quiet /\ Quiet \in 0..Quiet
  BY TurfTypes, CrewAssumption DEF TurfInv, Turf!TypeOK
<1>14. out \in Seq(TurfLine) /\ said \in Seq(TurfLine) /\ back \in Seq(TurfLine)
  BY <1>10, <1>11, <1>12 DEF TurfSaid
<1>15. /\ side' \in [Crew -> Places] /\ team' \in [Crew -> Places]
       /\ \A p \in Crew : side'[p] = IF p \in going THEN to[p] ELSE side[p]
       /\ \A p \in Crew : team'[p] = IF p \in going THEN to[p] ELSE team[p]
  BY <1>3, <1>6, <1>7, <1>13 DEF Turf!After
<1>16. ASSUME NEW p \in Crew
       PROVE  Says(news', p, side'[p]) \/ (Silent(news', p) /\ team'[p] = side'[p])
  <2>1. Says(news, p, side[p]) \/ (Silent(news, p) /\ team[p] = side[p])
    BY DEF TurfInv, TurfHeard
  <2>2. CASE p \in P
    <3>1. Says(back, p, to[p])
      BY <1>5, <1>8, <1>12, <2>2 DEF TurfSaid
    <3>2. Says(news', p, to[p])
      BY <3>1, <1>9, <1>13, <1>14, ThreeMore
    <3> QED
      BY <3>2, <1>4, <1>15, <2>2
  <2>3. CASE p \in going \ P /\ side[p] # to[p]
    <3>1. Says(said, p, to[p]) /\ Silent(back, p)
      BY <1>11, <1>12, <2>3 DEF TurfSaid
    <3>2. Says(news', p, to[p])
      BY <3>1, <1>9, <1>13, <1>14, ThreeMore
    <3> QED
      BY <3>2, <1>15, <2>3
  <2>4. CASE p \notin P /\ ~(p \in going \ P /\ side[p] # to[p])
    <3>1. Silent(out, p) /\ Silent(said, p) /\ Silent(back, p)
      BY <1>10, <1>11, <1>12, <2>4 DEF TurfSaid
    <3>2. /\ Says(news, p, side[p]) => Says(news', p, side[p])
          /\ Silent(news, p) => Silent(news', p)
      BY <3>1, <1>9, <1>13, <1>14, ThreeMore
    <3>3. side'[p] = side[p] /\ (team[p] = side[p] => team'[p] = side'[p])
      BY <1>15, <2>4
    <3> QED
      BY <2>1, <3>2, <3>3
  <2> QED
    BY <2>2, <2>3, <2>4
<1>17. ASSUME NEW p \in Crew \ dealt', locked[p] # Turf!NoSide
       PROVE  locked'[p] \in {Turf!NoSide, side'[p]} \/ Tidings(news', p, team'[p], side'[p])
  <2>1. p \notin going /\ p \notin P /\ p \notin dealt
    BY <1>3, <1>4, <1>17
  <2>2. Silent(out, p) /\ Silent(said, p) /\ Silent(back, p)
    BY <1>10, <1>11, <1>12, <2>1 DEF TurfSaid
  <2>3. Tidings(news, p, team[p], side[p]) => Tidings(news', p, team[p], side[p])
    BY <2>2, <1>9, <1>13, <1>14, ThreeMore
  <2>4. side'[p] = side[p] /\ team'[p] = team[p]
    BY <1>15, <2>1
  <2> QED
    BY <2>1, <2>3, <2>4 DEF TurfInv, TurfHeld
<1>18. TurfHeard' /\ TurfHeld'
  BY <1>16, <1>17 DEF TurfHeard, TurfHeld
<1>19. news' \in Seq(TurfLine) /\ Len(news') <= MaxNews
  BY <1>9, <1>13, <1>14, ThreeMore
<1>20. hush' \in 0..Quiet /\ dealt' \subseteq Crew
  BY <1>3, <1>7, <1>13
<1> QED
  BY <1>13, <1>15, <1>18, <1>19, <1>20, TurfTyped DEF TurfInv

LEMMA TurfTail ==
  ASSUME TurfInv, news # <<>>
  PROVE  /\ Tail(news) \in Seq(TurfLine) /\ Len(Tail(news)) = Len(news) - 1
         /\ news[1] \in TurfLine
         /\ \A p \in Crew : \/ Says(Tail(news), p, side[p])
                            \/ /\ Silent(Tail(news), p)
                               /\ \/ p = news[1][1] /\ side[p] = news[1][2]
                                  \/ p # news[1][1] /\ team[p] = side[p]
<1>1. news \in Seq(TurfLine)
  BY TurfTypes DEF TurfInv
<1>2. ASSUME NEW p \in Crew
      PROVE  \/ Says(Tail(news), p, side[p])
             \/ /\ Silent(Tail(news), p)
                /\ \/ p = news[1][1] /\ side[p] = news[1][2]
                   \/ p # news[1][1] /\ team[p] = side[p]
  <2>1. CASE Says(news, p, side[p])
    BY <1>1, <2>1, SaysTail
  <2>2. CASE Silent(news, p) /\ team[p] = side[p]
    BY <1>1, <2>2, SilentTail
  <2> QED
    BY <2>1, <2>2 DEF TurfInv, TurfHeard
<1> QED
  BY <1>1, <1>2, ReadOne

\* A line the bot does nothing about: if its player is locked, they are where they are locked,
\* or more is to be read of them, or the bot had them there already and it was no news.
LEMMA TurfLets ==
  ASSUME TurfInv, news # <<>>, NEW p, NEW t, p = news[1][1], t = news[1][2],
         team[p] = t \/ locked[p] \in {Turf!NoSide, t},
         team' = [team EXCEPT ![p] = t], news' = Tail(news), UNCHANGED <<side, locked, dealt>>
  PROVE  TurfHeard' /\ TurfHeld'
<1>1. team \in [Crew -> Places] /\ news \in Seq(TurfLine) /\ p \in Crew
  BY TurfTypes, TurfTail DEF TurfInv, TurfLine
<1>2. \A q \in Crew : team'[q] = IF q = p THEN t ELSE team[q]
  BY <1>1
<1>3. TurfHeard'
  BY <1>2, TurfTail DEF TurfHeard
<1>4. ASSUME NEW q \in Crew \ dealt, Tidings(news, q, team[q], side[q])
      PROVE  locked[q] \in {Turf!NoSide, side[q]} \/ Tidings(Tail(news), q, team'[q], side[q])
  <2>1. CASE q # p
    BY <1>1, <1>2, <1>4, <2>1, TidingsTail
  <2>2. CASE q = p
    <3>1. \/ t = side[p] /\ team[p] # side[p]
          \/ Tidings(Tail(news), p, t, side[p])
      BY <1>1, <1>4, <2>2, TidingsTail
    <3> QED
      BY <1>1, <1>2, <2>2, <3>1
  <2> QED
    BY <2>1, <2>2
<1>5. TurfHeld'
  BY <1>4 DEF TurfInv, TurfHeld
<1> QED
  BY <1>3, <1>5

\* The bot puts p back to where `to` says, and has them on `told`.
PutBack(p, to, told) ==
    /\ side' = [side EXCEPT ![p] = to]
    /\ news' = Tail(news) \o (IF side[p] = to THEN <<>> ELSE <<<<p, to>>>>)
    /\ team' = [team EXCEPT ![p] = told]

\* A line after which the bot puts its player back.
LEMMA TurfBack ==
  ASSUME TurfInv, news # <<>>, NEW p, NEW t, NEW to \in Places, NEW told \in Places,
         p = news[1][1], t = news[1][2], t # to, locked[p] \in {Turf!NoSide, to},
         PutBack(p, to, told), UNCHANGED <<locked, dealt>>
  PROVE  /\ side' \in [Crew -> Places] /\ team' \in [Crew -> Places]
         /\ news' \in Seq(TurfLine) /\ Len(news') <= MaxNews
         /\ TurfHeard' /\ TurfHeld'
<1>1. /\ side \in [Crew -> Places] /\ team \in [Crew -> Places] /\ news \in Seq(TurfLine)
      /\ p \in Crew /\ Len(news) <= MaxNews /\ Len(news) \in Nat
  BY TurfTypes, TurfTail DEF TurfInv, TurfLine
<1>2. /\ side' \in [Crew -> Places] /\ team' \in [Crew -> Places]
      /\ \A q \in Crew : side'[q] = IF q = p THEN to ELSE side[q]
      /\ \A q \in Crew : team'[q] = IF q = p THEN told ELSE team[q]
  BY <1>1 DEF PutBack
<1> DEFINE said == IF side[p] = to THEN <<>> ELSE <<<<p, to>>>>
<1>3. /\ said \in Seq(TurfLine) /\ Len(said) \in Int /\ Len(said) <= 1
      /\ \A q : q # p => Silent(said, q)
  <2>1. CASE side[p] = to
    <3>1. said = <<>> /\ Len(said) = 0
      BY <2>1
    <3> QED
      BY <3>1 DEF Silent
  <2>2. CASE side[p] # to
    <3>1. said = <<<<p, to>>>> /\ Len(said) = 1 /\ said[1] = <<p, to>> /\ <<p, to>> \in TurfLine
      BY <1>1, <2>2 DEF TurfLine
    <3>2. \A q : q # p => Silent(said, q)
      BY <3>1 DEF Silent
    <3> QED
      BY <3>1, <3>2
  <2> QED
    BY <2>1, <2>2
<1>4. side[p] = to => said = <<>>
  OBVIOUS
<1>5. side[p] # to => Says(said, p, to)
  <2> SUFFICES ASSUME side[p] # to PROVE Says(said, p, to)
    OBVIOUS
  <2>1. said = <<<<p, to>>>> /\ Len(said) = 1
    OBVIOUS
  <2>2. LastAt(said, p, to, 1) /\ 1 \in 1..Len(said)
    BY <2>1 DEF LastAt
  <2> QED
    BY <2>2 DEF Says
<1>6. news' = Tail(news) \o said
  BY DEF PutBack
<1> HIDE DEF said
<1>7. Tail(news) \in Seq(TurfLine) /\ Len(Tail(news)) = Len(news) - 1 /\ Len(news) > 0
  <2>1. Len(news) > 0
    BY <1>1
  <2> QED
    BY <2>1, TurfTail
<1>8. news' \in Seq(TurfLine) /\ Len(news') <= MaxNews
  <2>1. news' \in Seq(TurfLine) /\ Len(news') = Len(Tail(news)) + Len(said)
    BY <1>3, <1>6, <1>7, ConcatProperties
  <2>2. Len(Tail(news)) \in Int /\ Len(Tail(news)) + 1 <= MaxNews /\ MaxNews \in Int
    BY <1>1, <1>7, CrewAssumption
  <2> HIDE DEF said
  <2>3. Len(said) \in Int /\ Len(said) <= 1
    BY <1>3
  <2>4. \A a, b, c \in Int : a + 1 <= c /\ b <= 1 => a + b <= c
    OBVIOUS
  <2>5. Len(Tail(news)) + Len(said) <= MaxNews
    BY ONLY <2>2, <2>3, <2>4
  <2> QED
    BY ONLY <2>1, <2>5
<1>9. ASSUME NEW q \in Crew, q # p
      PROVE  /\ Says(news', q, side'[q]) \/ (Silent(news', q) /\ team'[q] = side'[q])
             /\ Tidings(news, q, team[q], side[q]) => Tidings(news', q, team'[q], side'[q])
  <2>1. Silent(said, q) /\ side'[q] = side[q] /\ team'[q] = team[q]
    BY <1>2, <1>3, <1>9
  <2>2. Says(Tail(news), q, side[q]) \/ (Silent(Tail(news), q) /\ team[q] = side[q])
    BY <1>9, TurfTail
  <2>3. Tidings(news, q, team[q], side[q]) => Tidings(Tail(news), q, team[q], side[q])
    BY <1>1, <1>9, TidingsTail
  <2> QED
    <3>1. Says(Tail(news), q, side[q]) => Says(news', q, side[q])
      BY <2>1, <1>3, <1>6, <1>7, SaysMore
    <3>2. Silent(Tail(news), q) => Silent(news', q)
      BY <2>1, <1>3, <1>6, <1>7, SilentMore
    <3>3. Tidings(Tail(news), q, team[q], side[q]) => Tidings(news', q, team[q], side[q])
      BY <2>1, <1>3, <1>6, <1>7, TidingsKept
    <3> QED
      BY <2>1, <2>2, <2>3, <3>1, <3>2, <3>3
<1>10. Says(news', p, to)
  <2>1. CASE side[p] # to
    BY <2>1, <1>3, <1>5, <1>6, <1>7, SaysMore
  <2>2. CASE side[p] = to
    <3>1. Says(Tail(news), p, to)
      BY <1>1, <2>2, TurfTail
    <3>2. Silent(said, p)
      BY <1>4, <2>2 DEF Silent
    <3> QED
      BY <3>1, <3>2, <1>3, <1>6, <1>7, SaysMore
  <2> QED
    BY <2>1, <2>2
<1>11. TurfHeard'
  BY <1>2, <1>9, <1>10 DEF TurfHeard
<1>12. TurfHeld'
  BY <1>2, <1>9 DEF TurfInv, TurfHeld
<1> QED
  BY <1>2, <1>8, <1>11, <1>12

LEMMA TurfRead ==
  ASSUME TurfInv, Turf!Read
  PROVE  TurfInv'
<1> DEFINE p == news[1][1]
           t == news[1][2]
           forced == locked[p] \notin {Turf!NoSide, t}
           back == locked[p] = Turf!NoSide /\ Turf!PutBack(p, t)
           to == IF forced THEN locked[p] ELSE Turf!Other(t)
           told == IF forced THEN t ELSE to
<1>1. /\ news # <<>>
      /\ UNCHANGED <<locked, hush, roundEnded, balancePending, skillPending, dealt>>
      /\ IF team[p] = t \/ ~(forced \/ back)
         THEN team' = [team EXCEPT ![p] = t] /\ news' = Tail(news) /\ UNCHANGED side
         ELSE /\ side' = [side EXCEPT ![p] = to]
              /\ news' = Tail(news) \o IF side[p] = to THEN <<>> ELSE <<<<p, to>>>>
              /\ team' = [team EXCEPT ![p] = told]
  BY DEF Turf!Read, Turf!rounds
<1>2. /\ side \in [Crew -> Places] /\ team \in [Crew -> Places] /\ dealt \subseteq Crew
      /\ locked \in [Crew -> Places \cup {Turf!NoSide}] /\ hush \in 0..Quiet
      /\ roundEnded \in BOOLEAN /\ balancePending \in BOOLEAN /\ skillPending \in BOOLEAN
      /\ Len(news) <= MaxNews /\ Len(news) \in Nat
  BY TurfTypes DEF TurfInv, Turf!TypeOK
<1>3. p \in Crew /\ t \in Places
  BY <1>1, TurfTail DEF TurfLine
<1>4. CASE team[p] = t \/ ~(forced \/ back)
  <2>1. team' = [team EXCEPT ![p] = t] /\ news' = Tail(news) /\ UNCHANGED side
    BY <1>1, <1>4
  <2>2. team[p] = t \/ locked[p] \in {Turf!NoSide, t}
    BY <1>4
  <2> HIDE DEF p, t
  <2>3. TurfHeard' /\ TurfHeld'
    BY <1>1, <2>1, <2>2, TurfLets DEF p, t
  <2>4. team' \in [Crew -> Places]
    BY <1>2, <1>3, <2>1
  <2>5. news' \in Seq(TurfLine) /\ Len(news') <= MaxNews
    <3>1. Tail(news) \in Seq(TurfLine) /\ Len(Tail(news)) = Len(news) - 1
      BY <1>1, TurfTail
    <3> QED
      BY <1>2, <2>1, <3>1, CrewAssumption
  <2> QED
    BY <1>1, <1>2, <2>1, <2>3, <2>4, <2>5, TurfTyped DEF TurfInv
<1>5. CASE ~(team[p] = t \/ ~(forced \/ back))
  <2>1. PutBack(p, to, told) /\ p = news[1][1] /\ t = news[1][2]
    BY <1>1, <1>5 DEF PutBack
  <2>3. news # <<>> /\ UNCHANGED <<locked, dealt>>
    BY <1>1
  <2>4. CASE forced
    <3>1. to = locked[p] /\ to \in Places /\ to # t
      BY <1>2, <1>3, <2>4
    <3>2. told = t /\ locked[p] \in {Turf!NoSide, to}
      BY <2>4, <3>1
    <3> HIDE DEF p, t, to, told
    <3>3. /\ side' \in [Crew -> Places] /\ team' \in [Crew -> Places]
          /\ news' \in Seq(TurfLine) /\ Len(news') <= MaxNews
          /\ TurfHeard' /\ TurfHeld'
      BY ONLY TurfInv, <1>3, <2>1, <2>3, <3>1, <3>2, TurfBack
    <3> QED
      BY <1>1, <1>2, <3>3, TurfTyped DEF TurfInv
  <2>5. CASE ~forced
    <3>1. to = Turf!Other(t) /\ to # t /\ to \in Places
      BY <1>5, <2>5 DEF Turf!Other, Places, Turf!PutBack, Turf!Sides
    <3>2. told = to /\ locked[p] \in {Turf!NoSide, to}
      BY <1>5, <2>5
    <3> HIDE DEF p, t, to, told
    <3>3. /\ side' \in [Crew -> Places] /\ team' \in [Crew -> Places]
          /\ news' \in Seq(TurfLine) /\ Len(news') <= MaxNews
          /\ TurfHeard' /\ TurfHeld'
      BY ONLY TurfInv, <1>3, <2>1, <2>3, <3>1, <3>2, TurfBack
    <3> QED
      BY <1>1, <1>2, <3>3, TurfTyped DEF TurfInv
  <2> QED
    BY <2>4, <2>5
<1> QED
  BY <1>4, <1>5

LEMMA TurfDeals ==
  ASSUME TurfInv, NEW asker, Turf!Skuffle(asker), UNCHANGED locked,
         roundEnded' \in BOOLEAN, balancePending' \in BOOLEAN, skillPending' \in BOOLEAN
  PROVE  TurfInv'
<1>1. hush \in 0..Quiet
  BY DEF TurfInv, Turf!TypeOK
<1>2. CASE Turf!Stays /\ UNCHANGED <<team, hush, dealt>>
  BY <1>1, <1>2, TurfStill DEF Turf!Stays
<1>3. CASE \E blue : Turf!ShuffleInto(blue)
  BY <1>3, TurfShuffles
<1> QED
  BY <1>2, <1>3 DEF Turf!Skuffle

LEMMA TurfDeal ==
  ASSUME TurfInv, NEW asker, Turf!Deal(asker)
  PROVE  TurfInv'
<1>1. /\ hush \in 0..Quiet
      /\ roundEnded \in BOOLEAN /\ balancePending \in BOOLEAN /\ skillPending \in BOOLEAN
  BY DEF TurfInv, Turf!TypeOK
<1>2. CASE RoundBased /\ ~roundEnded
  <2>1. /\ skillPending' = TRUE /\ UNCHANGED <<side, news, team, hush, dealt>>
        /\ UNCHANGED <<locked, roundEnded, balancePending>>
    BY <1>2 DEF Turf!Deal, Turf!Stays
  <2> QED
    BY <1>1, <2>1, TurfStill
<1>3. CASE ~(RoundBased /\ ~roundEnded)
  <2>1. Turf!Skuffle(asker) /\ UNCHANGED <<locked, roundEnded, balancePending, skillPending>>
    BY <1>3 DEF Turf!Deal
  <2> QED
    BY <1>1, <2>1, TurfDeals
<1> QED
  BY <1>2, <1>3

\* What comes by itself and from admins, beside moves of single players.
LEMMA TurfRest ==
  ASSUME TurfInv,
         \/ \E asked \in BOOLEAN : Turf!TeamCheck(asked)
         \/ Turf!SkillCheck \/ Turf!Unskuffle
         \/ Turf!RoundStart \/ Turf!RoundEnd \/ Turf!GameExit \/ Turf!Tick
  PROVE  TurfInv'
<1>1. /\ hush \in 0..Quiet /\ Quiet \in 0..Quiet /\ Quiet \in Nat
      /\ roundEnded \in BOOLEAN /\ balancePending \in BOOLEAN /\ skillPending \in BOOLEAN
  BY CrewAssumption DEF TurfInv, Turf!TypeOK
<1>2. ASSUME NEW asked, Turf!TeamCheck(asked) PROVE TurfInv'
  <2>1. CASE RoundBased /\ ~roundEnded
    <3>1. /\ balancePending' = TRUE /\ UNCHANGED <<side, news, team, hush>>
          /\ UNCHANGED <<locked, roundEnded, skillPending, dealt>>
      BY <1>2, <2>1 DEF Turf!TeamCheck, Turf!Stays
    <3> QED
      BY <1>1, <3>1, TurfStill
  <2>2. CASE ~(RoundBased /\ ~roundEnded)
    <3>1. /\ Turf!Balance
          /\ UNCHANGED <<locked, roundEnded, balancePending, skillPending, dealt>>
      BY <1>2, <2>2 DEF Turf!TeamCheck
    <3> QED
      BY <1>1, <3>1, TurfBalance
  <2> QED
    BY <2>1, <2>2
<1>3. CASE Turf!SkillCheck
  BY <1>3, TurfDeal DEF Turf!SkillCheck
<1>4. CASE Turf!Unskuffle
  <2>1. /\ \E blue : Turf!ShuffleInto(blue)
        /\ UNCHANGED <<locked, roundEnded, balancePending, skillPending>>
    BY <1>4 DEF Turf!Unskuffle, Turf!rounds
  <2> QED
    BY <1>1, <2>1, TurfShuffles
<1>5. CASE Turf!RoundStart \/ Turf!GameExit
  <2>1. /\ UNCHANGED <<side, news, team>> /\ hush' = Quiet
        /\ \/ UNCHANGED <<locked, dealt>>
           \/ locked' = [p \in Crew |-> Turf!NoSide] /\ dealt' = {}
    BY <1>5 DEF Turf!RoundStart, Turf!GameExit
  <2>2. roundEnded' \in BOOLEAN /\ balancePending' \in BOOLEAN /\ skillPending' \in BOOLEAN
    BY <1>1, <1>5 DEF Turf!RoundStart, Turf!GameExit
  <2> QED
    BY <1>1, <2>1, <2>2, TurfStill
<1>6. CASE Turf!RoundEnd
  <2>1. /\ roundEnded' = TRUE /\ balancePending' = FALSE /\ skillPending' = FALSE
        /\ UNCHANGED locked
        /\ \/ Turf!Skuffle(Turf!NoSide)
           \/ Turf!Balance /\ UNCHANGED dealt
           \/ UNCHANGED <<side, news, team, hush, dealt>>
    BY <1>6 DEF Turf!RoundEnd, Turf!Stays
  <2>2. roundEnded' \in BOOLEAN /\ balancePending' \in BOOLEAN /\ skillPending' \in BOOLEAN
    BY <2>1
  <2> QED
    BY <1>1, <2>1, <2>2, TurfDeals, TurfBalance, TurfStill
<1>7. CASE Turf!Tick
  <2>1. /\ UNCHANGED <<side, news, team, locked, dealt>>
        /\ UNCHANGED <<roundEnded, balancePending, skillPending>>
        /\ hush' \in 0..Quiet
    BY <1>1, <1>7 DEF Turf!Tick, Turf!rounds
  <2> QED
    BY <1>1, <2>1, TurfStill
<1> QED
  BY <1>2, <1>3, <1>4, <1>5, <1>6, <1>7

LEMMA TurfStep ==
  ASSUME TurfInv, \/ Turf!Next
                  \/ UNCHANGED <<turfVars, teamVars>>
  PROVE  TurfInv'
<1>1. ASSUME NEW p \in Crew, Turf!Free(p) PROVE TurfInv'
  <2>1. /\ UNCHANGED <<side, news, team, hush, roundEnded, balancePending, skillPending>>
        /\ locked' = [locked EXCEPT ![p] = Turf!NoSide] /\ dealt' = dealt \ {p}
    BY <1>1 DEF Turf!Free, Turf!rounds
  <2> QED
    BY <2>1, TurfStill DEF TurfInv, Turf!TypeOK
<1>2. ASSUME NEW p \in Crew, Turf!Does(p) PROVE TurfInv'
  BY <1>1, <1>2, TurfPlayers, TurfDeal DEF Turf!Does, Turf!SkillAsked
<1>3. CASE Turf!SwapTeams
  BY <1>3, TurfSwapped
<1>4. CASE Turf!Next
  BY <1>2, <1>3, <1>4, TurfRead, TurfRest DEF Turf!Next
<1>5. CASE UNCHANGED <<turfVars, teamVars>>
  BY <1>5 DEF turfVars, teamVars, TurfInv, Turf!TypeOK, TurfHeard, TurfHeld
<1> QED
  BY <1>4, <1>5

\* When all is read the bot has everybody where they are, and nobody is elsewhere than locked.
LEMMA TurfHolds ==
  ASSUME TurfInv
  PROVE  Turf!TypeOK /\ Turf!TeamsSettle
<1>1. Turf!TeamsSettle
  <2> SUFFICES ASSUME news = <<>>
               PROVE  team = side /\ \A p \in Crew \ dealt : locked[p] \in {Turf!NoSide, side[p]}
    BY DEF Turf!TeamsSettle
  <2>1. \A p \in Crew : team[p] = side[p]
    BY DEF TurfInv, TurfHeard, Says
  <2>2. \A p \in Crew \ dealt : locked[p] \in {Turf!NoSide, side[p]}
    BY DEF TurfInv, TurfHeld, Tidings
  <2> QED
    BY <2>1, <2>2, TurfTypes DEF TurfInv
<1> QED
  BY <1>1 DEF TurfInv

-----------------------------------------------------------------------------
(* All of it: the part that is being checked keeps its invariant.             *)

SettlesInv ==
    /\ part \in {"roster", "duel", "turf", "even", "match"}
    /\ part = "roster" => SessionInv
    /\ part = "duel" => DuelInv
    /\ part = "turf" => TurfInv
    /\ part = "even" => EvenInv
    /\ part = "match" => MusterInv

LEMMA SettlesStarts == SettlesInit => SettlesInv
<1> SUFFICES ASSUME SettlesInit PROVE SettlesInv
  OBVIOUS
<1> USE DEF SettlesInv
<1>1. CASE part = "roster" /\ Init
  BY <1>1, SessionInitInv
<1>2. CASE part = "duel" /\ Fight!Init
  BY <1>2, DuelInit
<1>3. CASE part = "turf" /\ Turf!Init
  BY <1>3, TurfInit
<1>4. CASE part = "even" /\ Even!Init
  BY <1>4, EvenInit
<1>5. CASE part = "match" /\ Muster!Init
  BY <1>5, MusterInit
<1> QED
  BY <1>1, <1>2, <1>3, <1>4, <1>5 DEF SettlesInit

LEMMA SettlesStep == SettlesInv /\ [SettlesNext]_allVars => SettlesInv'
<1> SUFFICES ASSUME SettlesInv, [SettlesNext]_allVars PROVE SettlesInv'
  OBVIOUS
<1>1. part' = part
  BY DEF SettlesNext, allVars
<1>2. CASE part = "roster"
  <2>1. [Next]_vars
    BY <1>2 DEF SettlesNext, allVars
  <2>2. SessionInv'
    BY <1>2, <2>1, SessionStep DEF SettlesInv
  <2> QED
    BY <1>1, <1>2, <2>2 DEF SettlesInv
<1>3. CASE part = "duel"
  <2>1. Fight!Next \/ UNCHANGED duelVars
    BY <1>3 DEF SettlesNext, allVars
  <2>2. DuelInv'
    BY <1>3, <2>1, DuelStep DEF SettlesInv
  <2> QED
    BY <1>1, <1>3, <2>2 DEF SettlesInv
<1>4. CASE part = "turf"
  <2>1. Turf!Next \/ UNCHANGED <<turfVars, teamVars>>
    BY <1>4 DEF SettlesNext, allVars
  <2>2. TurfInv'
    BY <1>4, <2>1, TurfStep DEF SettlesInv
  <2> QED
    BY <1>1, <1>4, <2>2 DEF SettlesInv
<1>5. CASE part = "even"
  <2>1. Even!Next \/ UNCHANGED <<evenVars, teamVars>>
    BY <1>5 DEF SettlesNext, allVars
  <2>2. EvenInv'
    BY <1>5, <2>1, EvenStep DEF SettlesInv
  <2> QED
    BY <1>1, <1>5, <2>2 DEF SettlesInv
<1>6. CASE part = "match"
  <2>1. Muster!Next \/ UNCHANGED matchVars
    BY <1>6 DEF SettlesNext, allVars
  <2>2. MusterInv'
    BY <1>6, <2>1, MusterStep DEF SettlesInv
  <2> QED
    BY <1>1, <1>6, <2>2 DEF SettlesInv
<1> QED
  BY <1>2, <1>3, <1>4, <1>5, <1>6 DEF SettlesInv

\* Every variable of every part has its type.
THEOREM SettlesTyped == SettlesSpec => []SettlesTypeOK
<1>1. SettlesInv => SettlesTypeOK
  <2> SUFFICES ASSUME SettlesInv PROVE SettlesTypeOK
    OBVIOUS
  <2>1. part = "roster" => TypeOK
    BY DEF SettlesInv, SessionInv, AuthInv, SessionTypes, Counters, TypeOK
  <2>2. part = "duel" => Fight!TypeOK
    BY DEF SettlesInv, DuelInv
  <2>3. part = "turf" => Turf!TypeOK
    BY TurfHolds DEF SettlesInv
  <2>4. part = "even" => Even!TypeOK
    BY EvenHolds DEF SettlesInv
  <2>5. part = "match" => Muster!TypeOK
    BY DEF SettlesInv, MusterInv
  <2>6. CASE part = "roster"
    BY <2>1, <2>6 DEF SettlesTypeOK
  <2>7. CASE part = "duel"
    BY <2>2, <2>7 DEF SettlesTypeOK
  <2>8. CASE part = "turf"
    BY <2>3, <2>8 DEF SettlesTypeOK
  <2>9. CASE part = "even"
    BY <2>4, <2>9 DEF SettlesTypeOK
  <2>10. CASE part = "match"
    BY <2>5, <2>10 DEF SettlesTypeOK
  <2> QED
    BY <2>6, <2>7, <2>8, <2>9, <2>10 DEF SettlesInv
<1> QED
  BY <1>1, SettlesStarts, SettlesStep, PTL DEF SettlesSpec

\* A duel is between two players who are there, who agreed to it when it counts and not
\* otherwise, and two players have one at most. (plugins/duel)
THEOREM DuelsStayMutual == SettlesSpec => []DuelsAreMutual
<1>1. SettlesInv => DuelsAreMutual
  BY DEF SettlesInv, DuelInv, DuelsAreMutual
<1> QED
  BY <1>1, SettlesStarts, SettlesStep, PTL DEF SettlesSpec

\* Once every line of the log is read, the bot has everybody on the team they are on, and the
\* locked are where they are locked, for any players, any backlog and any order of moves.
\* (plugins/poweradminurt, poweradminmoh, poweradminbfbc2, poweradminhf, poweradminbf3)
THEOREM TeamsComeToRest == SettlesSpec => []TeamsSettle
<1>1. SettlesInv => TeamsSettle
  <2> SUFFICES ASSUME SettlesInv PROVE TeamsSettle
    OBVIOUS
  <2>1. part = "turf" => Turf!TeamsSettle
    BY TurfHolds DEF SettlesInv
  <2>2. part = "even" => Even!TeamsSettle
    BY EvenHolds DEF SettlesInv
  <2> QED
    BY <2>1, <2>2 DEF TeamsSettle
<1> QED
  BY <1>1, SettlesStarts, SettlesStep, PTL DEF SettlesSpec

\* What the bot undoes is a player's own switch, never its own or an admin's, and a match starts
\* in match mode and for those who agreed. (plugins/poweradminmoh, core/matchmode.py)
THEOREM NothingUnasked == SettlesSpec => OnlyWhatWasAgreed
<1>1. SettlesInv => /\ part = "even" => Even!UndoesOnlyOwnSwitches
                    /\ part = "match" => Muster!StartsAgreed
  BY EvenHolds, MusterStarts DEF SettlesInv
<1> QED
  BY <1>1, SettlesStarts, SettlesStep, PTL DEF SettlesSpec, OnlyWhatWasAgreed
=============================================================================
