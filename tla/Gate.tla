-------------------------------- MODULE Gate --------------------------------
(****************************************************************************)
(* Who is let in: the plugins geolocation, ipban, vpnblocker, banlist,       *)
(* netblocker and countryfilter, which look at everyone who is authenticated *)
(* and at everyone whose address becomes known or changes.                   *)
(*                                                                          *)
(* An event's handlers run in that order, and only the question to the web   *)
(* service is waited for: the handlers after it run when it is answered.      *)
(* Meanwhile the loop takes at most one more line (it then waits for all that *)
(* is under way), and any number of status answers.                          *)
(*                                                                          *)
(* A player is one session; who comes back is another.  What a player is      *)
(* put out by is kept from the moment the server is told.                     *)
(****************************************************************************)
EXTENDS Naturals, Sequences, FiniteSets, SequencesExt

CONSTANTS
    Clients,
    Slot,       \* the slot each of them takes
    Trusted,    \* who is above max_level, once authenticated
    Immune,     \* who is above immunity_level, once authenticated
    Addresses,
    Proxies,    \* what the service flags
    Bannable,   \* what the ban list may hold
    Barred,     \* what an active ban may stand behind
    Blocked,    \* the networks that are blocked
    Refused,    \* the addresses in countries that are refused
    MaxChanges  \* bound: how often an address, the ban list or the bans change

VARIABLES
    here,      \* clients: who is on the roster
    gone,      \* who was and is not
    addr,      \* ip, or "none"
    authed,
    queue,     \* the events published and not yet handled
    asking,    \* whose events wait for the service, at which address
    draining,  \* a line was fed, and what is under way has to end before the next
    checked,   \* vpnblocker: the address that was checked
    vetted,    \* banlist: the identity that was checked
    located,   \* geolocation: the address a player was placed by
    lookups,   \* vpnblocker: what the service answered
    asked,     \* how often it was asked, and how often in vain
    entries,   \* banlist: what the list holds
    fetching,  \* a refresh is not over
    banned,    \* the addresses behind active bans, on record (none runs out)
    barred,    \* ipban: those as last read
    out,       \* what a player was put out by
    changes,   \* how often an address, the ban list or the bans changed
    returned   \* history: who came back to an address they had been checked at

gateVars == <<here, gone, addr, authed, queue, asking, draining, checked, vetted, located, lookups,
              asked, entries, fetching, banned, barred, out, changes, returned>>
rosterVars == <<here, gone, addr, authed, returned>>
seenVars == <<checked, vetted, located>>
serviceVars == <<lookups, asked>>
listVars == <<entries, fetching, banned>>

Init ==
    /\ here = {} /\ gone = {} /\ authed = {} /\ returned = {}
    /\ addr = [c \in Clients |-> "none"]
    /\ queue = <<>> /\ asking = {} /\ draining = FALSE
    /\ checked = [c \in Clients |-> "none"] /\ vetted = checked /\ located = checked
    /\ lookups = [a \in Addresses |-> "unknown"]
    /\ asked = [a \in Addresses |-> [times |-> 0, failed |-> 0]]
    /\ entries = {} /\ fetching = FALSE /\ banned \in SUBSET Barred /\ barred = {}
    /\ out = [c \in Clients |-> "in"]
    /\ changes = 0

-----------------------------------------------------------------------------
(* The checks.  Each says whom it has the console kick.                         *)

\* A kick names a slot: it hits whoever has it now.
Kick(c, cause, o) ==
    [p \in Clients |-> IF p \in here /\ Slot[p] = Slot[c] /\ o[p] = "in" THEN cause ELSE o[p]]

Exempt(c) == c \in Trusted \cap authed

\* What was read is good for a while; nothing read is read again.
BannedAddresses == IF barred = {} THEN {banned} ELSE {barred, banned}

IpBan(c, read, o) == IF ~Exempt(c) /\ addr[c] \in read THEN Kick(c, "barred", o) ELSE o

Check(c, o) ==
    IF addr[c] \in entries /\ c \notin Immune \cap authed THEN Kick(c, "list", o) ELSE o

OnAuth(c, o) == IF vetted[c] = addr[c] THEN o ELSE Check(c, o)

NetBlock(c, o) == IF addr[c] \in Blocked /\ ~Exempt(c) THEN Kick(c, "network", o) ELSE o

\* What is left of an event once the address was checked.
Rest(c, o) == NetBlock(c, OnAuth(c, o))

\* A bug: it acts on whoever has the slot.
StillThereAnyone(c, a) == TRUE

\* Still in the slot, and still at the address that was asked about.
StillThere(c, a) == c \in here /\ addr[c] = a

Act(c, a, o) == IF StillThere(c, a) THEN Kick(c, "proxy", o) ELSE o

\* What an event does once the service's answer is known.
Judge(c, a, flagged, o) == Rest(c, IF flagged THEN Act(c, a, o) ELSE o)

-----------------------------------------------------------------------------
(* Events.                                                                     *)

Seen(c) == [type |-> "seen", who |-> c, at |-> "none"]
Left(c) == [type |-> "left", who |-> c, at |-> "none"]
Placed(c, a) == [type |-> "placed", who |-> c, at |-> a]
BansChanged == [type |-> "bans", who |-> "none", at |-> "none"]

Changes == changes < MaxChanges /\ changes' = changes + 1

\* A bug: everyone asks on their own.
AskOnOnesOwn(a) == TRUE

\* A question that is under way is not asked again.
Ask(a) == \A t \in asking : t.at # a

\* CLIENT_AUTH and CLIENT_UPDATE, up to the question if there is one.
OnSeen ==
    /\ queue # <<>> /\ queue[1].type = "seen"
    /\ LET c == queue[1].who
           a == addr[c]
           places == a # "none" /\ located[c] = "none"
           looks == a # "none" /\ checked[c] # a
           waits == looks /\ ~Exempt(c) /\ lookups[a] = "unknown"
           flagged == looks /\ ~Exempt(c) /\ lookups[a] = "flagged" IN
       \E read \in IF a = "none" \/ Exempt(c) THEN {barred} ELSE BannedAddresses :
       LET o == IpBan(c, read, out) IN
       /\ located' = [located EXCEPT ![c] = IF places THEN a ELSE @]
       /\ checked' = [checked EXCEPT ![c] = IF looks THEN a ELSE @]
       /\ queue' = Tail(queue) \o IF places THEN <<Placed(c, a)>> ELSE <<>>
       /\ barred' = read
       /\ IF waits
          THEN /\ asking' = asking \cup {[who |-> c, at |-> a]}
               /\ asked' = IF Ask(a) THEN [asked EXCEPT ![a].times = @ + 1] ELSE asked
               /\ out' = o
               /\ UNCHANGED vetted
          ELSE /\ out' = Judge(c, a, flagged, o)
               /\ vetted' = [vetted EXCEPT ![c] = a]
               /\ UNCHANGED <<asking, asked>>
    /\ UNCHANGED <<rosterVars, draining, lookups, listVars, changes>>

\* The service answers, or does not, and whoever waited goes on: who it does not know is let in.
Answer(a, answer) ==
    /\ \E t \in asking : t.at = a
    /\ LET mine == {t.who : t \in {x \in asking : x.at = a}}
           flagged == answer = "flagged" IN
       /\ out' = FoldSet(LAMBDA c, o : Judge(c, a, flagged, o), out, mine)
       /\ vetted' = [c \in Clients |-> IF c \in mine THEN addr[c] ELSE vetted[c]]
    /\ asking' = {t \in asking : t.at # a}
    /\ IF answer = "failed"
       THEN asked' = [asked EXCEPT ![a].failed = @ + 1] /\ UNCHANGED lookups
       ELSE lookups' = [lookups EXCEPT ![a] = answer] /\ UNCHANGED asked
    /\ UNCHANGED <<rosterVars, queue, draining, checked, located, listVars, barred, changes>>

AnswerTo(a) == {"failed", IF a \in Proxies THEN "flagged" ELSE "clean"}

\* CLIENT_DISCONNECT: what was noted of the player is forgotten.
Forget(c) ==
    /\ checked' = [checked EXCEPT ![c] = "none"]
    /\ located' = [located EXCEPT ![c] = "none"]

OnDisconnect ==
    /\ queue # <<>> /\ queue[1].type = "left"
    /\ Forget(queue[1].who)
    /\ queue' = Tail(queue)
    /\ UNCHANGED <<rosterVars, asking, draining, vetted, serviceVars, listVars, barred, out, changes>>

MayConnect(c, place) == Exempt(c) \/ place \notin Refused

\* CLIENT_GEOLOCATION_SUCCESS
OnLocated ==
    /\ queue # <<>> /\ queue[1].type = "placed"
    /\ LET e == queue[1] IN
       out' = IF MayConnect(e.who, e.at) THEN out ELSE Kick(e.who, "country", out)
    /\ queue' = Tail(queue)
    /\ UNCHANGED <<rosterVars, asking, draining, seenVars, serviceVars, listVars, barred, changes>>

\* A bug: what was read stays until it is too old.
KeepsReading == barred

ForgetsReading == {}

\* CLIENT_BAN, CLIENT_BAN_TEMP and CLIENT_UNBAN
OnBansChanged ==
    /\ queue # <<>> /\ queue[1].type = "bans"
    /\ barred' = ForgetsReading
    /\ queue' = Tail(queue)
    /\ UNCHANGED <<rosterVars, asking, draining, seenVars, serviceVars, listVars, out, changes>>

-----------------------------------------------------------------------------
(* The roster.                                                                 *)

\* The loop goes on once what the last line began has ended.
LoopIsFree == draining => queue = <<>> /\ asking = {}

Free(s) == \A p \in here : Slot[p] # s

Moves(c, a) ==
    /\ addr' = [addr EXCEPT ![c] = a]
    /\ returned' = IF a \in {checked[c], vetted[c]} \ {"none", addr[c]} THEN returned \cup {c}
                   ELSE returned

Comes(c, a, known) ==
    /\ Moves(c, a)
    /\ authed' = IF known THEN authed \cup {c} ELSE authed

\* A line: who joined may be known at once, and at which address.
Join(c, a, known) ==
    /\ LoopIsFree /\ draining' = TRUE
    /\ c \notin here \cup gone /\ Free(Slot[c])
    /\ here' = here \cup {c} /\ Comes(c, a, known)
    /\ queue' = IF known THEN Append(queue, Seen(c)) ELSE queue
    /\ UNCHANGED <<gone, asking, seenVars, serviceVars, listVars, barred, out, changes>>

\* A line: its handlers are called at once.
Leave(c) ==
    /\ LoopIsFree /\ draining' = TRUE
    /\ c \in here /\ here' = here \ {c} /\ gone' = gone \cup {c}
    /\ Forget(c)
    /\ UNCHANGED <<addr, authed, returned, queue, asking, vetted, serviceVars, listVars, barred, out,
                   changes>>

\* A status poll names the player and the address.
OnResolved(c, a) ==
    /\ c \in here /\ (c \notin authed \/ addr[c] = "none")
    /\ Comes(c, a, TRUE)
    /\ queue' = queue \o IF c \in authed THEN <<Seen(c)>> ELSE <<Seen(c), Seen(c)>>
    /\ UNCHANGED <<here, gone, asking, draining, seenVars, serviceVars, listVars, barred, out, changes>>

\* A sync finds another address,
SyncMoves(c, a) ==
    /\ LoopIsFree /\ draining' = FALSE
    /\ c \in here /\ addr[c] # a /\ Changes
    /\ Moves(c, a)
    /\ queue' = Append(queue, Seen(c))
    /\ UNCHANGED <<here, gone, authed, asking, seenVars, serviceVars, listVars, barred, out>>

\* or another player, or none, in the slot.
SyncDrops(c, others, a) ==
    /\ LoopIsFree /\ draining' = FALSE
    /\ c \in here /\ here' = (here \ {c}) \cup others /\ gone' = gone \cup {c}
    /\ \A d \in others : d \notin here \cup gone /\ Slot[d] = Slot[c] /\ Comes(d, a, TRUE)
    /\ others = {} => UNCHANGED <<addr, authed, returned>>
    /\ queue' = queue \o <<Left(c)>> \o SetToSeq({Seen(d) : d \in others})
    /\ UNCHANGED <<asking, seenVars, serviceVars, listVars, barred, out, changes>>

-----------------------------------------------------------------------------
(* The lists.                                                                  *)

\* A fetch of the ban list replaces what it holds, on a thread, while the rest goes on.
Download(s) ==
    /\ Changes
    /\ ~fetching /\ fetching' = TRUE
    /\ entries' = s
    /\ UNCHANGED <<rosterVars, queue, asking, draining, seenVars, serviceVars, banned, barred, out>>

\* A bug: nobody who is here is looked at again.
CheckNobody == out

CheckEverybody == FoldSet(LAMBDA c, o : Check(c, o), out, here)

\* Then everyone who is here is checked again.
RefreshAll ==
    /\ fetching /\ fetching' = FALSE
    /\ out' = CheckEverybody
    /\ UNCHANGED <<rosterVars, queue, asking, draining, seenVars, serviceVars, entries, banned,
                   barred, changes>>

\* A ban or a pardon is recorded, and the plugins are told.
Bans(s) ==
    /\ LoopIsFree /\ draining' = TRUE
    /\ Changes
    /\ banned' = s
    /\ queue' = Append(queue, BansChanged)
    /\ UNCHANGED <<rosterVars, asking, seenVars, serviceVars, entries, fetching, barred, out>>

Next ==
    \/ OnSeen \/ OnDisconnect \/ OnLocated \/ OnBansChanged \/ RefreshAll
    \/ \E c \in Clients :
          \/ Leave(c)
          \/ \E a \in Addresses : OnResolved(c, a) \/ SyncMoves(c, a)
          \/ \E a \in Addresses \cup {"none"}, known \in BOOLEAN : Join(c, a, known)
          \/ \E a \in Addresses, others \in {{}} \cup {{d} : d \in Clients} : SyncDrops(c, others, a)
    \/ \E a \in Addresses : \E x \in AnswerTo(a) : Answer(a, x)
    \/ \E s \in SUBSET Bannable : Download(s)
    \/ \E s \in SUBSET Barred : Bans(s)

Spec == Init /\ [][Next]_gateVars

-----------------------------------------------------------------------------
Places == Addresses \cup {"none"}

TypeOK ==
    /\ here \subseteq Clients /\ gone \subseteq Clients \ here
    /\ authed \subseteq Clients /\ returned \subseteq Clients
    /\ \A f \in {addr, checked, vetted, located} : f \in [Clients -> Places]
    /\ \A i \in DOMAIN queue : queue[i].type \in {"seen", "left", "placed", "bans"}
    /\ asking \subseteq [who : Clients, at : Addresses]
    /\ lookups \in [Addresses -> {"unknown", "clean", "flagged"}]
    /\ entries \subseteq Bannable /\ banned \subseteq Barred /\ barred \subseteq Barred
    /\ out \in [Clients -> {"in", "proxy", "list", "network", "country", "barred"}]

\* Nothing is under way.
Quiet == queue = <<>> /\ asking = {} /\ ~fetching

\* A question that is under way is shared by all who have it, and one that was answered is not put
\* again: the service is asked about an address once, and once more for every failure.
\* (vpnblocker/__init__.py:427-451)
AskedOnce == \A a \in Addresses : asked[a].times <= 1 + asked[a].failed

\* Once nothing is under way, whoever is here and was not told to go was checked at the address
\* they have, and is on no list that applies to them: neither the ban list as it is now, nor a
\* blocked network, nor in a country that is refused, nor where the service answered "proxy".  Of
\* who came back to an address the lists and the answer are not looked at again: if the events of
\* both moves are handled after the second, it is the address that was checked last.
\* (banlist/__init__.py:365-384 and 351-361, countryfilter/__init__.py:187-205,
\* vpnblocker/__init__.py:349-366)
NobodyListedStays ==
    Quiet => \A c \in here \cap authed :
        out[c] = "in" /\ addr[c] # "none" =>
           /\ checked[c] = addr[c] /\ vetted[c] = addr[c]
           /\ addr[c] \in entries => c \in Immune \cup returned
           /\ addr[c] \in Blocked \/ located[c] \in Refused => Exempt(c)
           /\ lookups[addr[c]] = "flagged" =>
                 Exempt(c) \/ c \in returned \/ asked[addr[c]].failed > 0

\* What was last read is what is on record, once the plugins were told of a ban or a pardon.
\* (ipban/__init__.py:88-98 and 125-128)
BansAreSeen == barred \in {{}, banned} \/ BansChanged \in Range(queue)

\* For a proxy only who has that address is put out, however long the answer took and whoever has
\* the slot by then.  The other checks act on the slot: there the cause may be its last player's.
\* (vpnblocker/__init__.py:362-366)
Cause(c, why) ==
    CASE why = "proxy" -> c \in here /\ addr[c] \in Proxies
      [] why = "list" -> addr[c] \in entries /\ c \notin Immune \cap authed
      [] why = "network" -> addr[c] \in Blocked /\ ~Exempt(c)
      [] why = "barred" -> addr[c] \in barred \cup banned /\ ~Exempt(c)
      [] why = "country" -> ~Exempt(c)

PutOutForCause ==
    \A p \in Clients : out[p] = "in" /\ out'[p] # "in" =>
        \E c \in here \cup gone :
            Slot[c] = Slot[p] /\ Cause(c, out'[p]) /\ (out'[p] = "proxy" => c = p)
=============================================================================
