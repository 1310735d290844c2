---------------------------- MODULE Setup_proofs ----------------------------
(* What a server is set up with: the commands its plugins register, for any      *)
(* plugins, words and overrides; the plugins on its disk, for any repositories;  *)
(* what the bot starts in, for any families and revisions; and who is let in, for *)
(* any players, addresses and lists.  The last three are instances of their       *)
(* modules.                                                                      *)
EXTENDS Commands, FiniteSetTheorems, SequenceTheorems, WellFoundedInduction, TLAPS

CONSTANTS
    Offered, Tags, Servers, Demands, Good, MaxKills,                        \* of Install
    Families, Newest, Keepers, MaxWrong,                                    \* of Doctor
    Clients, Slot, Trusted, Immune, Addresses, Proxies, Bannable, Barred,   \* of Gate
    Blocked, Refused, MaxChanges

VARIABLES
    disk, record, rows, task, cut, fetched, moved, dropped, killed,
    family, wrong, code, applied, stamp, unsigned, bot, verdict, since, outcome,
    here, gone, addr, authed, queue, asking, draining, checked, vetted, located, lookups, asked,
    entries, fetching, banned, barred, out, changes, returned

Disk == INSTANCE Install
Doc == INSTANCE Doctor
Door == INSTANCE Gate

-----------------------------------------------------------------------------
(* Counting.                                                                  *)

LEMMA Smallest ==
  ASSUME NEW B \in SUBSET Nat, B # {}
  PROVE  \E n \in B : \A m \in B : n <= m
<1>1. PICK n \in B : \A m \in B : ~(<<m, n>> \in OpToRel(<, Nat))
  BY NatLessThanWellFounded, WFMin
<1>2. ASSUME NEW m \in B, m < n PROVE <<m, n>> \in OpToRel(<, Nat)
  <2>1. <<m, n>> \in Nat \X Nat /\ <<m, n>>[1] < <<m, n>>[2]
    BY <1>2
  <2> QED
    BY <2>1 DEF OpToRel
<1>3. \A m \in B : n <= m
  <2>1. \A m \in B : m \in Nat /\ n \in Nat /\ ~(m < n)
    BY <1>1, <1>2
  <2> QED
    BY <2>1
<1> QED
  BY <1>3

\* Induction over a set of numbers.
LEMMA Counting ==
  ASSUME NEW n \in Nat, NEW S, 0 \in S, \A k \in 1..n : k - 1 \in S => k \in S
  PROVE  \A k \in 0..n : k \in S
<1> DEFINE B == {k \in 0..n : k \notin S}
<1>1. SUFFICES ASSUME B # {} PROVE FALSE
  OBVIOUS
<1>2. PICK k \in B : \A m \in B : k <= m
  <2>1. B \in SUBSET Nat
    OBVIOUS
  <2> HIDE DEF B
  <2> QED
    BY <1>1, <2>1, Smallest
<1>3. k \in 1..n /\ k - 1 \in 0..n /\ ~(k <= k - 1)
  BY <1>2
<1>4. k - 1 \in S
  BY <1>2, <1>3
<1> QED
  BY <1>3, <1>4

-----------------------------------------------------------------------------
(* Installation.                                                              *)

\* A plugin that others require and that cannot be had is one without tags.
OfferedNumbers ==
    /\ Tags \in [Offered -> SUBSET (Nat \ {0})]
    /\ \A p \in Offered : \A t \in Tags[p] : Demands[<<p, t>>] \subseteq Offered

Stages == {"clone", "look", "clear", "place", "record", "activate", "checkout", "rerecord",
           "unrecord", "delete", "deactivate"}
Jobs == [for : {"install", "update", "remove"}, do : Stages, plugin : Offered, tag : Nat]

DiskTypes ==
    /\ disk \in [Offered -> Nat] /\ record \in [Offered -> Nat]
    /\ rows \in [Servers -> SUBSET Offered]
    /\ task \in Jobs \cup {Disk!Idle}

\* The command that runs has changed nothing yet, or is not about this plugin.
Untouched == {"nothing", "clone", "look", "checkout", "unrecord"}
AtRest(p) == task.do \in Untouched \/ task.plugin # p

\* How far a command has come says what is on disk and on record of its plugin.
StageRight ==
    /\ task.do \in {"clone", "look", "clear", "place", "record", "activate"} =>
          task.for = "install" /\ task.tag \in Tags[task.plugin]
    /\ task.do \in {"checkout", "rerecord"} =>
          task.for = "update" /\ task.tag \in Tags[task.plugin]
    /\ task.do \in {"unrecord", "delete", "deactivate"} => task.for = "remove" /\ task.tag = 0
    /\ task.do \in {"clear", "place", "record", "activate"} =>
          \A q \in Demands[<<task.plugin, task.tag>>] \ {task.plugin} : record[q] # 0
    /\ task.do \in {"record", "activate", "rerecord"} => disk[task.plugin] = task.tag
    /\ task.do = "activate" => record[task.plugin] = task.tag
    /\ task.do \in {"delete", "deactivate"} => record[task.plugin] = 0

RecordsTrue ==
    \A p \in Offered : record[p] # 0 /\ AtRest(p) /\ p \notin cut =>
        disk[p] # 0 /\ (p \notin fetched => record[p] = disk[p])

RowsTrue ==
    \A s \in Servers : \A p \in rows[s] : AtRest(p) /\ p \notin cut =>
        record[p] # 0 \/ \E r \in Servers \ {s} : <<p, r>> \in dropped

Listing(q) ==
    \/ record[q] # 0 \/ ~AtRest(q) \/ q \in cut
    \/ \E r \in Servers : <<q, r>> \in dropped

DemandsMet ==
    \A p \in Offered : record[p] # 0 /\ AtRest(p) /\ p \notin cut \cup moved =>
        record[p] \in Tags[p] /\ \A q \in Demands[<<p, record[p]>>] : Listing(q)

\* What is on record has a tag.
RecordsTagged == \A p \in Offered : record[p] \in Tags[p] \cup {0}

DiskInv ==
    DiskTypes /\ StageRight /\ RecordsTrue /\ RowsTrue /\ DemandsMet /\ RecordsTagged

LEMMA BeginInstallDisk ==
  ASSUME NEW p \in Offered, NEW t \in Tags[p], OfferedNumbers, DiskInv, Disk!BeginInstall(p, t) PROVE DiskInv'
<1> USE OfferedNumbers, DiskInv, Disk!BeginInstall(p, t)
  DEF OfferedNumbers, DiskInv, Disk!BeginInstall, Disk!Do, Disk!Done, Disk!Refuse, Disk!Idle, Disk!Gone,
      Disk!ghosts, Disk!Rewritten, Disk!Accepts, Disk!Recorded, Disk!OnDisk,
      DiskTypes, RecordsTagged, StageRight, Jobs, Stages
<1>1. DiskTypes'
  OBVIOUS
<1>2. RecordsTagged'
  OBVIOUS
<1>3. StageRight'
  OBVIOUS
<1>4. RecordsTrue'
  BY DEF RecordsTrue, AtRest, Untouched
<1>5. RowsTrue'
  BY DEF RowsTrue, AtRest, Untouched
<1>6. DemandsMet'
  BY DEF DemandsMet, Listing, AtRest, Untouched
<1>7. QED
  BY <1>1, <1>2, <1>3, <1>4, <1>5, <1>6

LEMMA CloneDisk ==
  ASSUME OfferedNumbers, DiskInv, Disk!Clone PROVE DiskInv'
<1> USE OfferedNumbers, DiskInv, Disk!Clone
  DEF OfferedNumbers, DiskInv, Disk!Clone, Disk!Do, Disk!Done, Disk!Refuse, Disk!Idle, Disk!Gone,
      Disk!ghosts, Disk!Rewritten, Disk!Accepts, Disk!Recorded, Disk!OnDisk,
      DiskTypes, RecordsTagged, StageRight, Jobs, Stages
<1>1. DiskTypes'
  OBVIOUS
<1>2. RecordsTagged'
  OBVIOUS
<1>3. StageRight'
  OBVIOUS
<1>4. RecordsTrue'
  BY DEF RecordsTrue, AtRest, Untouched
<1>5. RowsTrue'
  BY DEF RowsTrue, AtRest, Untouched
<1>6. DemandsMet'
  BY DEF DemandsMet, Listing, AtRest, Untouched
<1>7. QED
  BY <1>1, <1>2, <1>3, <1>4, <1>5, <1>6

LEMMA LookDisk ==
  ASSUME OfferedNumbers, DiskInv, Disk!Look PROVE DiskInv'
<1> USE OfferedNumbers, DiskInv, Disk!Look
  DEF OfferedNumbers, DiskInv, Disk!Look, Disk!Do, Disk!Done, Disk!Refuse, Disk!Idle, Disk!Gone,
      Disk!ghosts, Disk!Rewritten, Disk!Accepts, Disk!Recorded, Disk!OnDisk,
      DiskTypes, RecordsTagged, StageRight, Jobs, Stages
<1>1. DiskTypes'
  OBVIOUS
<1>2. RecordsTagged'
  OBVIOUS
<1>3. StageRight'
  OBVIOUS
<1>4. RecordsTrue'
  BY DEF RecordsTrue, AtRest, Untouched
<1>5. RowsTrue'
  BY DEF RowsTrue, AtRest, Untouched
<1>6. DemandsMet'
  BY DEF DemandsMet, Listing, AtRest, Untouched
<1>7. QED
  BY <1>1, <1>2, <1>3, <1>4, <1>5, <1>6

LEMMA ClearTargetDisk ==
  ASSUME OfferedNumbers, DiskInv, Disk!ClearTarget PROVE DiskInv'
<1> USE OfferedNumbers, DiskInv, Disk!ClearTarget
  DEF OfferedNumbers, DiskInv, Disk!ClearTarget, Disk!Do, Disk!Done, Disk!Refuse, Disk!Idle, Disk!Gone,
      Disk!ghosts, Disk!Rewritten, Disk!Accepts, Disk!Recorded, Disk!OnDisk,
      DiskTypes, RecordsTagged, StageRight, Jobs, Stages
<1>1. DiskTypes'
  OBVIOUS
<1>2. RecordsTagged'
  OBVIOUS
<1>3. StageRight'
  OBVIOUS
<1>4. RecordsTrue'
  BY DEF RecordsTrue, AtRest, Untouched
<1>5. RowsTrue'
  <2> SUFFICES ASSUME NEW x \in Servers, NEW y \in rows'[x], AtRest(y)', y \notin cut'
               PROVE (record[y] # 0 \/ \E r \in Servers \ {x} : <<y, r>> \in dropped)'
    BY DEF RowsTrue
  <2>1. y \in Offered
    BY <1>1
  <2>2. CASE y \in rows[x] /\ AtRest(y) /\ y \notin cut
    BY <2>1, <2>2 DEF RowsTrue, AtRest, Untouched
  <2>3. CASE ~(y \in rows[x] /\ AtRest(y) /\ y \notin cut)
    BY <2>1, <2>3 DEF AtRest, Untouched
  <2>4. QED
    BY <2>2, <2>3
<1>6. DemandsMet'
  BY DEF DemandsMet, Listing, AtRest, Untouched
<1>7. QED
  BY <1>1, <1>2, <1>3, <1>4, <1>5, <1>6

LEMMA PlaceDisk ==
  ASSUME OfferedNumbers, DiskInv, Disk!Place PROVE DiskInv'
<1> USE OfferedNumbers, DiskInv, Disk!Place
  DEF OfferedNumbers, DiskInv, Disk!Place, Disk!Do, Disk!Done, Disk!Refuse, Disk!Idle, Disk!Gone,
      Disk!ghosts, Disk!Rewritten, Disk!Accepts, Disk!Recorded, Disk!OnDisk,
      DiskTypes, RecordsTagged, StageRight, Jobs, Stages
<1>1. DiskTypes'
  OBVIOUS
<1>2. RecordsTagged'
  OBVIOUS
<1>3. StageRight'
  OBVIOUS
<1>4. RecordsTrue'
  BY DEF RecordsTrue, AtRest, Untouched
<1>5. RowsTrue'
  <2> SUFFICES ASSUME NEW x \in Servers, NEW y \in rows'[x], AtRest(y)', y \notin cut'
               PROVE (record[y] # 0 \/ \E r \in Servers \ {x} : <<y, r>> \in dropped)'
    BY DEF RowsTrue
  <2>1. y \in Offered
    BY <1>1
  <2>2. CASE y \in rows[x] /\ AtRest(y) /\ y \notin cut
    BY <2>1, <2>2 DEF RowsTrue, AtRest, Untouched
  <2>3. CASE ~(y \in rows[x] /\ AtRest(y) /\ y \notin cut)
    BY <2>1, <2>3 DEF AtRest, Untouched
  <2>4. QED
    BY <2>2, <2>3
<1>6. DemandsMet'
  <2> SUFFICES ASSUME NEW x \in Offered, record'[x] # 0, AtRest(x)', x \notin cut' \cup moved'
               PROVE record'[x] \in Tags[x] /\ \A y \in Demands[<<x, record'[x]>>] : Listing(y)'
    BY DEF DemandsMet
  <2>1. record'[x] \in Tags[x]
    BY <1>2
  <2>2. ASSUME NEW y \in Demands[<<x, record'[x]>>] PROVE Listing(y)'
    <3>1. y \in Offered
      BY <2>1
    <3>2. CASE record[x] = record'[x] /\ AtRest(x) /\ x \notin cut \cup moved
      <4>1. Listing(y)
        BY <3>2 DEF DemandsMet
      <4>2. QED
        <5>1. CASE record[y] # 0
          BY <3>1, <5>1 DEF Listing, AtRest, Untouched
        <5>2. CASE ~AtRest(y)
          BY <3>1, <5>2 DEF Listing, AtRest, Untouched
        <5>3. CASE y \in cut
          BY <3>1, <5>3 DEF Listing, AtRest, Untouched
        <5>4. CASE \E r \in Servers : <<y, r>> \in dropped
          BY <3>1, <5>4 DEF Listing, AtRest, Untouched
        <5>5. QED
          BY <4>1, <5>1, <5>2, <5>3, <5>4 DEF Listing
    <3>3. CASE ~(record[x] = record'[x] /\ AtRest(x) /\ x \notin cut \cup moved)
      BY <3>1, <3>3 DEF Listing, AtRest, Untouched
    <3>4. QED
      BY <3>2, <3>3
  <2>3. QED
    BY <2>1, <2>2
<1>7. QED
  BY <1>1, <1>2, <1>3, <1>4, <1>5, <1>6

LEMMA RecordDisk ==
  ASSUME OfferedNumbers, DiskInv, Disk!Record PROVE DiskInv'
<1> USE OfferedNumbers, DiskInv, Disk!Record
  DEF OfferedNumbers, DiskInv, Disk!Record, Disk!Do, Disk!Done, Disk!Refuse, Disk!Idle, Disk!Gone,
      Disk!ghosts, Disk!Rewritten, Disk!Accepts, Disk!Recorded, Disk!OnDisk,
      DiskTypes, RecordsTagged, StageRight, Jobs, Stages
<1>1. DiskTypes'
  OBVIOUS
<1>2. RecordsTagged'
  OBVIOUS
<1>3. StageRight'
  OBVIOUS
<1>4. RecordsTrue'
  BY DEF RecordsTrue, AtRest, Untouched
<1>5. RowsTrue'
  BY DEF RowsTrue, AtRest, Untouched
<1>6. DemandsMet'
  <2> SUFFICES ASSUME NEW x \in Offered, record'[x] # 0, AtRest(x)', x \notin cut' \cup moved'
               PROVE record'[x] \in Tags[x] /\ \A y \in Demands[<<x, record'[x]>>] : Listing(y)'
    BY DEF DemandsMet
  <2>1. record'[x] \in Tags[x]
    BY <1>2
  <2>2. ASSUME NEW y \in Demands[<<x, record'[x]>>] PROVE Listing(y)'
    <3>1. y \in Offered
      BY <2>1
    <3>2. CASE record[x] = record'[x] /\ AtRest(x) /\ x \notin cut \cup moved
      <4>1. Listing(y)
        BY <3>2 DEF DemandsMet
      <4>2. QED
        <5>1. CASE record[y] # 0
          BY <3>1, <5>1 DEF Listing, AtRest, Untouched
        <5>2. CASE ~AtRest(y)
          BY <3>1, <5>2 DEF Listing, AtRest, Untouched
        <5>3. CASE y \in cut
          BY <3>1, <5>3 DEF Listing, AtRest, Untouched
        <5>4. CASE \E r \in Servers : <<y, r>> \in dropped
          BY <3>1, <5>4 DEF Listing, AtRest, Untouched
        <5>5. QED
          BY <4>1, <5>1, <5>2, <5>3, <5>4 DEF Listing
    <3>3. CASE ~(record[x] = record'[x] /\ AtRest(x) /\ x \notin cut \cup moved)
      BY <3>1, <3>3 DEF Listing, AtRest, Untouched
    <3>4. QED
      BY <3>2, <3>3
  <2>3. QED
    BY <2>1, <2>2
<1>7. QED
  BY <1>1, <1>2, <1>3, <1>4, <1>5, <1>6

LEMMA ActivateDisk ==
  ASSUME OfferedNumbers, DiskInv, Disk!Activate PROVE DiskInv'
<1> USE OfferedNumbers, DiskInv, Disk!Activate
  DEF OfferedNumbers, DiskInv, Disk!Activate, Disk!Do, Disk!Done, Disk!Refuse, Disk!Idle, Disk!Gone,
      Disk!ghosts, Disk!Rewritten, Disk!Accepts, Disk!Recorded, Disk!OnDisk,
      DiskTypes, RecordsTagged, StageRight, Jobs, Stages
<1>1. DiskTypes'
  OBVIOUS
<1>2. RecordsTagged'
  OBVIOUS
<1>3. StageRight'
  OBVIOUS
<1>4. RecordsTrue'
  BY DEF RecordsTrue, AtRest, Untouched
<1>5. RowsTrue'
  <2> SUFFICES ASSUME NEW x \in Servers, NEW y \in rows'[x], AtRest(y)', y \notin cut'
               PROVE (record[y] # 0 \/ \E r \in Servers \ {x} : <<y, r>> \in dropped)'
    BY DEF RowsTrue
  <2>1. y \in Offered
    BY <1>1
  <2>2. CASE y \in rows[x] /\ AtRest(y) /\ y \notin cut
    BY <2>1, <2>2 DEF RowsTrue, AtRest, Untouched
  <2>3. CASE ~(y \in rows[x] /\ AtRest(y) /\ y \notin cut)
    <3>1. PICK z \in Servers : Disk!Done(z)
      OBVIOUS
    <3>2. CASE y = task.plugin
      BY <2>1, <2>3, <3>1, <3>2 DEF AtRest, Untouched
    <3>3. CASE y # task.plugin
      <4>1. y \in rows[x]
        BY <3>1, <3>3
      <4>2. y \notin cut
        BY <3>1, <3>3
      <4>3. QED
        BY <2>3, <3>3, <4>1, <4>2 DEF AtRest
    <3>4. QED
      BY <3>2, <3>3
  <2>4. QED
    BY <2>2, <2>3
<1>6. DemandsMet'
  <2> SUFFICES ASSUME NEW x \in Offered, record'[x] # 0, AtRest(x)', x \notin cut' \cup moved'
               PROVE record'[x] \in Tags[x] /\ \A y \in Demands[<<x, record'[x]>>] : Listing(y)'
    BY DEF DemandsMet
  <2>1. record'[x] \in Tags[x]
    BY <1>2
  <2>2. ASSUME NEW y \in Demands[<<x, record'[x]>>] PROVE Listing(y)'
    <3>1. y \in Offered
      BY <2>1
    <3>2. CASE record[x] = record'[x] /\ AtRest(x) /\ x \notin cut \cup moved
      <4>1. Listing(y)
        BY <3>2 DEF DemandsMet
      <4>2. QED
        BY <3>1, <4>1 DEF Listing, AtRest, Untouched
    <3>3. CASE ~(record[x] = record'[x] /\ AtRest(x) /\ x \notin cut \cup moved)
      BY <3>1, <3>3 DEF Listing, AtRest, Untouched
    <3>4. QED
      BY <3>2, <3>3
  <2>3. QED
    BY <2>1, <2>2
<1>7. QED
  BY <1>1, <1>2, <1>3, <1>4, <1>5, <1>6

LEMMA BeginUpdateDisk ==
  ASSUME NEW p \in Offered, NEW t \in Tags[p], OfferedNumbers, DiskInv, Disk!BeginUpdate(p, t) PROVE DiskInv'
<1> USE OfferedNumbers, DiskInv, Disk!BeginUpdate(p, t)
  DEF OfferedNumbers, DiskInv, Disk!BeginUpdate, Disk!Do, Disk!Done, Disk!Refuse, Disk!Idle, Disk!Gone,
      Disk!ghosts, Disk!Rewritten, Disk!Accepts, Disk!Recorded, Disk!OnDisk,
      DiskTypes, RecordsTagged, StageRight, Jobs, Stages
<1>1. DiskTypes'
  OBVIOUS
<1>2. RecordsTagged'
  OBVIOUS
<1>3. StageRight'
  OBVIOUS
<1>4. RecordsTrue'
  BY DEF RecordsTrue, AtRest, Untouched
<1>5. RowsTrue'
  BY DEF RowsTrue, AtRest, Untouched
<1>6. DemandsMet'
  BY DEF DemandsMet, Listing, AtRest, Untouched
<1>7. QED
  BY <1>1, <1>2, <1>3, <1>4, <1>5, <1>6

LEMMA CheckoutDisk ==
  ASSUME OfferedNumbers, DiskInv, Disk!Checkout PROVE DiskInv'
<1> USE OfferedNumbers, DiskInv, Disk!Checkout
  DEF OfferedNumbers, DiskInv, Disk!Checkout, Disk!Do, Disk!Done, Disk!Refuse, Disk!Idle, Disk!Gone,
      Disk!ghosts, Disk!Rewritten, Disk!Accepts, Disk!Recorded, Disk!OnDisk,
      DiskTypes, RecordsTagged, StageRight, Jobs, Stages
<1>1. DiskTypes'
  OBVIOUS
<1>2. RecordsTagged'
  OBVIOUS
<1>3. StageRight'
  OBVIOUS
<1>4. RecordsTrue'
  BY DEF RecordsTrue, AtRest, Untouched
<1>5. RowsTrue'
  BY DEF RowsTrue, AtRest, Untouched
<1>6. DemandsMet'
  BY DEF DemandsMet, Listing, AtRest, Untouched
<1>7. QED
  BY <1>1, <1>2, <1>3, <1>4, <1>5, <1>6

LEMMA RerecordDisk ==
  ASSUME OfferedNumbers, DiskInv, Disk!Rerecord PROVE DiskInv'
<1> USE OfferedNumbers, DiskInv, Disk!Rerecord
  DEF OfferedNumbers, DiskInv, Disk!Rerecord, Disk!Do, Disk!Done, Disk!Refuse, Disk!Idle, Disk!Gone,
      Disk!ghosts, Disk!Rewritten, Disk!Accepts, Disk!Recorded, Disk!OnDisk,
      DiskTypes, RecordsTagged, StageRight, Jobs, Stages
<1>1. DiskTypes'
  OBVIOUS
<1>2. RecordsTagged'
  OBVIOUS
<1>3. StageRight'
  OBVIOUS
<1>4. RecordsTrue'
  BY DEF RecordsTrue, AtRest, Untouched
<1>5. RowsTrue'
  <2> SUFFICES ASSUME NEW x \in Servers, NEW y \in rows'[x], AtRest(y)', y \notin cut'
               PROVE (record[y] # 0 \/ \E r \in Servers \ {x} : <<y, r>> \in dropped)'
    BY DEF RowsTrue
  <2>1. y \in Offered
    BY <1>1
  <2>2. CASE y \in rows[x] /\ AtRest(y) /\ y \notin cut
    <3>1. y # task.plugin /\ (record[y] # 0 \/ \E r \in Servers \ {x} : <<y, r>> \in dropped)
      BY <2>1, <2>2 DEF RowsTrue, AtRest, Untouched
    <3>2. QED
      BY <2>1, <2>2, <3>1 DEF AtRest, Untouched
  <2>3. CASE ~(y \in rows[x] /\ AtRest(y) /\ y \notin cut)
    BY <2>1, <2>3 DEF AtRest, Untouched
  <2>4. QED
    BY <2>2, <2>3
<1>6. DemandsMet'
  BY DEF DemandsMet, Listing, AtRest, Untouched
<1>7. QED
  BY <1>1, <1>2, <1>3, <1>4, <1>5, <1>6

LEMMA BeginRemoveDisk ==
  ASSUME NEW p \in Offered, OfferedNumbers, DiskInv, Disk!BeginRemove(p) PROVE DiskInv'
<1> USE OfferedNumbers, DiskInv, Disk!BeginRemove(p)
  DEF OfferedNumbers, DiskInv, Disk!BeginRemove, Disk!Do, Disk!Done, Disk!Refuse, Disk!Idle, Disk!Gone,
      Disk!ghosts, Disk!Rewritten, Disk!Accepts, Disk!Recorded, Disk!OnDisk,
      DiskTypes, RecordsTagged, StageRight, Jobs, Stages
<1>1. DiskTypes'
  OBVIOUS
<1>2. RecordsTagged'
  OBVIOUS
<1>3. StageRight'
  OBVIOUS
<1>4. RecordsTrue'
  BY DEF RecordsTrue, AtRest, Untouched
<1>5. RowsTrue'
  BY DEF RowsTrue, AtRest, Untouched
<1>6. DemandsMet'
  <2> SUFFICES ASSUME NEW x \in Offered, record'[x] # 0, AtRest(x)', x \notin cut' \cup moved'
               PROVE record'[x] \in Tags[x] /\ \A y \in Demands[<<x, record'[x]>>] : Listing(y)'
    BY DEF DemandsMet
  <2>1. record'[x] \in Tags[x]
    BY <1>2
  <2>2. ASSUME NEW y \in Demands[<<x, record'[x]>>] PROVE Listing(y)'
    <3>1. y \in Offered
      BY <2>1
    <3>2. CASE record[x] = record'[x] /\ AtRest(x) /\ x \notin cut \cup moved
      <4>1. Listing(y)
        BY <3>2 DEF DemandsMet
      <4>2. QED
        BY <3>1, <4>1 DEF Listing, AtRest, Untouched
    <3>3. CASE ~(record[x] = record'[x] /\ AtRest(x) /\ x \notin cut \cup moved)
      BY <3>1, <3>3 DEF Listing, AtRest, Untouched
    <3>4. QED
      BY <3>2, <3>3
  <2>3. QED
    BY <2>1, <2>2
<1>7. QED
  BY <1>1, <1>2, <1>3, <1>4, <1>5, <1>6

LEMMA UnrecordDisk ==
  ASSUME OfferedNumbers, DiskInv, Disk!Unrecord PROVE DiskInv'
<1> USE OfferedNumbers, DiskInv, Disk!Unrecord
  DEF OfferedNumbers, DiskInv, Disk!Unrecord, Disk!Do, Disk!Done, Disk!Refuse, Disk!Idle, Disk!Gone,
      Disk!ghosts, Disk!Rewritten, Disk!Accepts, Disk!Recorded, Disk!OnDisk,
      DiskTypes, RecordsTagged, StageRight, Jobs, Stages
<1>1. DiskTypes'
  OBVIOUS
<1>2. RecordsTagged'
  OBVIOUS
<1>3. StageRight'
  OBVIOUS
<1>4. RecordsTrue'
  BY DEF RecordsTrue, AtRest, Untouched
<1>5. RowsTrue'
  BY DEF RowsTrue, AtRest, Untouched
<1>6. DemandsMet'
  BY DEF DemandsMet, Listing, AtRest, Untouched
<1>7. QED
  BY <1>1, <1>2, <1>3, <1>4, <1>5, <1>6

LEMMA DeleteDisk ==
  ASSUME OfferedNumbers, DiskInv, Disk!Delete PROVE DiskInv'
<1> USE OfferedNumbers, DiskInv, Disk!Delete
  DEF OfferedNumbers, DiskInv, Disk!Delete, Disk!Do, Disk!Done, Disk!Refuse, Disk!Idle, Disk!Gone,
      Disk!ghosts, Disk!Rewritten, Disk!Accepts, Disk!Recorded, Disk!OnDisk,
      DiskTypes, RecordsTagged, StageRight, Jobs, Stages
<1>1. DiskTypes'
  OBVIOUS
<1>2. RecordsTagged'
  OBVIOUS
<1>3. StageRight'
  OBVIOUS
<1>4. RecordsTrue'
  BY DEF RecordsTrue, AtRest, Untouched
<1>5. RowsTrue'
  BY DEF RowsTrue, AtRest, Untouched
<1>6. DemandsMet'
  BY DEF DemandsMet, Listing, AtRest, Untouched
<1>7. QED
  BY <1>1, <1>2, <1>3, <1>4, <1>5, <1>6

LEMMA DeactivateDisk ==
  ASSUME OfferedNumbers, DiskInv, Disk!Deactivate PROVE DiskInv'
<1> USE OfferedNumbers, DiskInv, Disk!Deactivate
  DEF OfferedNumbers, DiskInv, Disk!Deactivate, Disk!Do, Disk!Done, Disk!Refuse, Disk!Idle, Disk!Gone,
      Disk!ghosts, Disk!Rewritten, Disk!Accepts, Disk!Recorded, Disk!OnDisk,
      DiskTypes, RecordsTagged, StageRight, Jobs, Stages
<1>1. DiskTypes'
  OBVIOUS
<1>2. RecordsTagged'
  OBVIOUS
<1>3. StageRight'
  OBVIOUS
<1>4. RecordsTrue'
  BY DEF RecordsTrue, AtRest, Untouched
<1>5. RowsTrue'
  <2> SUFFICES ASSUME NEW x \in Servers, NEW y \in rows'[x], AtRest(y)', y \notin cut'
               PROVE (record[y] # 0 \/ \E r \in Servers \ {x} : <<y, r>> \in dropped)'
    BY DEF RowsTrue
  <2>1. y \in Offered
    BY <1>1
  <2>2. CASE y \in rows[x] /\ AtRest(y) /\ y \notin cut
    BY <2>1, <2>2 DEF RowsTrue, AtRest, Untouched
  <2>3. CASE ~(y \in rows[x] /\ AtRest(y) /\ y \notin cut)
    BY <2>1, <2>3 DEF AtRest, Untouched
  <2>4. QED
    BY <2>2, <2>3
<1>6. DemandsMet'
  BY DEF DemandsMet, Listing, AtRest, Untouched
<1>7. QED
  BY <1>1, <1>2, <1>3, <1>4, <1>5, <1>6

LEMMA EnableDisk ==
  ASSUME NEW s \in Servers, NEW p \in Offered, OfferedNumbers, DiskInv, Disk!Enable(s, p) PROVE DiskInv'
<1> USE OfferedNumbers, DiskInv, Disk!Enable(s, p)
  DEF OfferedNumbers, DiskInv, Disk!Enable, Disk!Do, Disk!Done, Disk!Refuse, Disk!Idle, Disk!Gone,
      Disk!ghosts, Disk!Rewritten, Disk!Accepts, Disk!Recorded, Disk!OnDisk,
      DiskTypes, RecordsTagged, StageRight, Jobs, Stages
<1>1. DiskTypes'
  OBVIOUS
<1>2. RecordsTagged'
  OBVIOUS
<1>3. StageRight'
  OBVIOUS
<1>4. RecordsTrue'
  BY DEF RecordsTrue, AtRest, Untouched
<1>5. RowsTrue'
  <2> SUFFICES ASSUME NEW x \in Servers, NEW y \in rows'[x], AtRest(y)', y \notin cut'
               PROVE (record[y] # 0 \/ \E r \in Servers \ {x} : <<y, r>> \in dropped)'
    BY DEF RowsTrue
  <2>1. y \in Offered
    BY <1>1
  <2>2. CASE y \in rows[x] /\ AtRest(y) /\ y \notin cut
    BY <2>1, <2>2 DEF RowsTrue, AtRest, Untouched
  <2>3. CASE ~(y \in rows[x] /\ AtRest(y) /\ y \notin cut)
    BY <2>1, <2>3 DEF AtRest, Untouched
  <2>4. QED
    BY <2>2, <2>3
<1>6. DemandsMet'
  BY DEF DemandsMet, Listing, AtRest, Untouched
<1>7. QED
  BY <1>1, <1>2, <1>3, <1>4, <1>5, <1>6

LEMMA DisableDisk ==
  ASSUME NEW s \in Servers, NEW p \in Offered, OfferedNumbers, DiskInv, Disk!Disable(s, p) PROVE DiskInv'
<1> USE OfferedNumbers, DiskInv, Disk!Disable(s, p)
  DEF OfferedNumbers, DiskInv, Disk!Disable, Disk!Do, Disk!Done, Disk!Refuse, Disk!Idle, Disk!Gone,
      Disk!ghosts, Disk!Rewritten, Disk!Accepts, Disk!Recorded, Disk!OnDisk,
      DiskTypes, RecordsTagged, StageRight, Jobs, Stages
<1>1. DiskTypes'
  OBVIOUS
<1>2. RecordsTagged'
  OBVIOUS
<1>3. StageRight'
  OBVIOUS
<1>4. RecordsTrue'
  BY DEF RecordsTrue, AtRest, Untouched
<1>5. RowsTrue'
  BY DEF RowsTrue, AtRest, Untouched
<1>6. DemandsMet'
  BY DEF DemandsMet, Listing, AtRest, Untouched
<1>7. QED
  BY <1>1, <1>2, <1>3, <1>4, <1>5, <1>6

LEMMA KillDisk ==
  ASSUME OfferedNumbers, DiskInv, Disk!Kill PROVE DiskInv'
<1> USE OfferedNumbers, DiskInv, Disk!Kill
  DEF OfferedNumbers, DiskInv, Disk!Kill, Disk!Do, Disk!Done, Disk!Refuse, Disk!Idle, Disk!Gone,
      Disk!ghosts, Disk!Rewritten, Disk!Accepts, Disk!Recorded, Disk!OnDisk,
      DiskTypes, RecordsTagged, StageRight, Jobs, Stages
<1>1. DiskTypes'
  OBVIOUS
<1>2. RecordsTagged'
  OBVIOUS
<1>3. StageRight'
  OBVIOUS
<1>4. RecordsTrue'
  BY DEF RecordsTrue, AtRest, Untouched
<1>5. RowsTrue'
  <2> SUFFICES ASSUME NEW x \in Servers, NEW y \in rows'[x], AtRest(y)', y \notin cut'
               PROVE (record[y] # 0 \/ \E r \in Servers \ {x} : <<y, r>> \in dropped)'
    BY DEF RowsTrue
  <2>1. y \in Offered
    BY <1>1
  <2>2. CASE y \in rows[x] /\ AtRest(y) /\ y \notin cut
    BY <2>1, <2>2 DEF RowsTrue, AtRest, Untouched
  <2>3. CASE ~(y \in rows[x] /\ AtRest(y) /\ y \notin cut)
    <3>1. PICK lost \in SUBSET Offered :
             /\ cut' = cut \cup {task.plugin} \cup lost
             /\ rows' = rows \/ \E s \in Servers : rows' = [rows EXCEPT ![s] = @ \ lost]
      OBVIOUS
    <3>2. y \in rows[x] /\ y \notin cut /\ y # task.plugin
      BY <3>1
    <3>3. QED
      BY <2>3, <3>2 DEF AtRest
  <2>4. QED
    BY <2>2, <2>3
<1>6. DemandsMet'
  <2> SUFFICES ASSUME NEW x \in Offered, record'[x] # 0, AtRest(x)', x \notin cut' \cup moved'
               PROVE record'[x] \in Tags[x] /\ \A y \in Demands[<<x, record'[x]>>] : Listing(y)'
    BY DEF DemandsMet
  <2>1. record'[x] \in Tags[x]
    BY <1>2
  <2>2. ASSUME NEW y \in Demands[<<x, record'[x]>>] PROVE Listing(y)'
    <3>1. y \in Offered
      BY <2>1
    <3>2. CASE record[x] = record'[x] /\ AtRest(x) /\ x \notin cut \cup moved
      <4>1. Listing(y)
        BY <3>2 DEF DemandsMet
      <4>2. QED
        <5>1. CASE record[y] # 0
          BY <3>1, <5>1 DEF Listing, AtRest, Untouched
        <5>2. CASE ~AtRest(y)
          BY <3>1, <5>2 DEF Listing, AtRest, Untouched
        <5>3. CASE y \in cut
          BY <3>1, <5>3 DEF Listing, AtRest, Untouched
        <5>4. CASE \E r \in Servers : <<y, r>> \in dropped
          BY <3>1, <5>4 DEF Listing, AtRest, Untouched
        <5>5. QED
          BY <4>1, <5>1, <5>2, <5>3, <5>4 DEF Listing
    <3>3. CASE ~(record[x] = record'[x] /\ AtRest(x) /\ x \notin cut \cup moved)
      BY <3>1, <3>3 DEF Listing, AtRest, Untouched
    <3>4. QED
      BY <3>2, <3>3
  <2>3. QED
    BY <2>1, <2>2
<1>7. QED
  BY <1>1, <1>2, <1>3, <1>4, <1>5, <1>6

LEMMA DiskFirst == ASSUME OfferedNumbers, Disk!Init PROVE DiskInv
  BY DEF OfferedNumbers, DiskInv, Disk!Init, Disk!Idle, Disk!Gone, DiskTypes, StageRight, RecordsTrue,
         RowsTrue, DemandsMet, RecordsTagged

LEMMA DiskStutter == ASSUME OfferedNumbers, DiskInv, UNCHANGED Disk!inVars PROVE DiskInv'
  BY DEF OfferedNumbers, DiskInv, Disk!inVars, Disk!Idle, DiskTypes, StageRight, RecordsTrue,
         RowsTrue, DemandsMet, RecordsTagged, Listing, AtRest

LEMMA DiskNext == ASSUME OfferedNumbers, DiskInv, [Disk!Next]_(Disk!inVars) PROVE DiskInv'
  BY DiskStutter, BeginInstallDisk, CloneDisk, LookDisk, ClearTargetDisk, PlaceDisk, RecordDisk,
     ActivateDisk, BeginUpdateDisk, CheckoutDisk, RerecordDisk, BeginRemoveDisk, UnrecordDisk,
     DeleteDisk, DeactivateDisk, EnableDisk, DisableDisk, KillDisk DEF Disk!Next

\* Of a directory nobody is busy with, and which no command was killed on, all three are true.
LEMMA DiskSays ==
  ASSUME OfferedNumbers, DiskInv
  PROVE Disk!RecordIsTrue /\ Disk!RowsHaveFiles /\ Disk!NeedsAreRecorded
<1> USE OfferedNumbers, DiskInv
  DEF DiskInv, Disk!Busy, Disk!Idle, Disk!Gone, Disk!Recorded, Disk!OnDisk, DiskTypes, Jobs,
      AtRest, Untouched
<1>1. ASSUME NEW p \in Offered, p \notin Disk!Busy PROVE AtRest(p)
  BY <1>1
<1>2. ASSUME NEW p \in Offered, ~AtRest(p) PROVE p \in Disk!Busy
  BY <1>2
<1> HIDE DEF AtRest, Disk!Busy
<1>3. Disk!RecordIsTrue
  BY <1>1 DEF Disk!RecordIsTrue, RecordsTrue
<1>4. ASSUME NEW s \in Servers, NEW p \in rows[s], p \notin Disk!Busy \cup cut
      PROVE p \in Disk!Recorded \cap Disk!OnDisk \/ \E r \in Servers \ {s} : <<p, r>> \in dropped
  <2>1. p \in Offered /\ AtRest(p)
    BY <1>1, <1>4
  <2>2. QED
    BY <1>4, <2>1 DEF RowsTrue, RecordsTrue
<1>5. ASSUME NEW p \in Disk!Recorded, p \notin Disk!Busy \cup cut \cup moved,
             NEW q \in Demands[<<p, record[p]>>]
      PROVE q \in Disk!Recorded \cup Disk!Busy \cup cut \/ \E r \in Servers : <<q, r>> \in dropped
  <2>1. p \in Offered /\ AtRest(p)
    BY <1>1, <1>5
  <2>2. record[p] \in Tags[p] /\ Listing(q)
    BY <1>5, <2>1 DEF DemandsMet
  <2>3. q \in Offered
    BY <1>5, <2>1, <2>2 DEF OfferedNumbers
  <2>4. QED
    BY <1>2, <2>2, <2>3 DEF Listing
<1>6. Disk!RowsHaveFiles
  BY <1>4 DEF Disk!RowsHaveFiles
<1>7. Disk!NeedsAreRecorded
  BY <1>5 DEF Disk!NeedsAreRecorded
<1>8. QED
  BY <1>3, <1>6, <1>7

\* What is recorded is on disk at its tag, what a server's configuration names can be imported,
\* and what is required is recorded: whatever commands are run, refused and killed, in whatever
\* order, on any plugins for any servers. (plugininstall.py:440-518, 560-584)
THEOREM TheDirectoryIsTrue ==
  ASSUME OfferedNumbers
  PROVE Disk!Spec => [](Disk!RecordIsTrue /\ Disk!RowsHaveFiles /\ Disk!NeedsAreRecorded)
<1>1. Disk!Init => DiskInv
  BY DiskFirst
<1>2. DiskInv /\ [Disk!Next]_(Disk!inVars) => DiskInv'
  BY DiskNext
<1>3. DiskInv => Disk!RecordIsTrue /\ Disk!RowsHaveFiles /\ Disk!NeedsAreRecorded
  BY DiskSays
<1>4. QED
  BY <1>1, <1>2, <1>3, PTL DEF Disk!Spec

-----------------------------------------------------------------------------
(* The start.                                                                 *)

Revisions == Newest \in Nat \ {0}

Posts == {"down", "schema", "connect", "load", "store", "stamp", "ask", "open", "up"}
Processes == [at : Posts, code : Nat, keeper : Keepers \cup {"terminal"}, drift : BOOLEAN,
          asked : BOOLEAN]

DoctorTypes ==
    /\ wrong \subseteq Doc!Relevant(family)
    /\ code \in Nat /\ code >= 1 /\ code <= Newest
    /\ stamp \in Nat /\ stamp <= Newest
    /\ unsigned \in BOOLEAN /\ since \in BOOLEAN
    /\ bot \in Processes /\ bot.code <= code
    /\ bot.at # "down" => bot.code >= 1

\* Tables come before their stamp, and only on the way between the two are there some without
\* one that are not left behind; a bot that was let in past its schema is not behind it later.
SchemaInv ==
    /\ bot.at \in {"ask", "open", "up"} => stamp # 0
    /\ ~unsigned =>
          /\ stamp # 0 => applied = 1..stamp
          /\ stamp = 0 /\ bot.at # "stamp" => applied = {}
          /\ stamp = 0 /\ bot.at = "stamp" => applied = 1..bot.code
          /\ bot.at \notin {"down", "schema"} /\ ~bot.drift /\ bot.asked =>
                stamp = 0 \/ stamp >= bot.code

\* What a start has been past is not wrong any more: nothing goes wrong anew.
PastInv ==
    /\ bot.at \in {"load", "store", "stamp", "ask", "open", "up"} =>
          /\ "noGame" \notin wrong /\ "noFile" \notin wrong /\ "lockedFile" \notin wrong
          /\ family = "source" =>
                "noPassword" \notin wrong /\ "badPassword" \notin wrong /\ "down" \notin wrong
    /\ bot.at \in {"store", "stamp", "ask", "open", "up"} =>
          /\ "badPlugin" \notin wrong /\ "noConfig" \notin wrong
          /\ "unmetSetting" \notin wrong /\ wrong \cap Doc!Unasked = {}
    /\ bot.at \in {"stamp", "ask", "open", "up"} => "unwritable" \notin wrong
    /\ bot.at \in {"open", "up"} => "noMod" \notin wrong
    /\ bot.at = "up" =>
          IF family \in Doc!Push
          THEN "noPassword" \notin wrong /\ "badPassword" \notin wrong /\ "badUser" \notin wrong
               /\ "down" \notin wrong
          ELSE "noLog" \notin wrong
    /\ outcome = "up" => bot.at = "up"

BadRcon ==
    /\ "noPassword" \notin wrong
    /\ \/ family = "altitude"
          /\ ("noFile" \in wrong \/ "noDirectory" \in wrong \/ "lockedFile" \in wrong)
       \/ family # "altitude" /\ ("badPassword" \in wrong \/ "down" \in wrong)
       \/ family = "source" /\ "noMod" \in wrong
       \/ family = "frontline" /\ "badUser" \in wrong
       \/ family = "ravaged" /\ "otherUser" \in wrong

\* The doctor's verdict, which nothing but a new directory makes stale.
Says(failed) ==
    /\ failed \subseteq {"game", "database", "schema", "gamelog", "rcon", "plugins"}
    /\ "game" \in failed <=> "noGame" \in wrong
    /\ "database" \in failed <=> "unwritable" \in wrong
    /\ "schema" \in failed <=> "unwritable" \notin wrong /\ stamp < code
    /\ "gamelog" \in failed <=> family \notin Doc!Push /\ "noLog" \in wrong
    /\ "plugins" \in failed <=>
          "badPlugin" \in wrong \/ "noConfig" \in wrong \/ "noConfigOff" \in wrong
          \/ "unmetSetting" \in wrong
    /\ BadRcon => "rcon" \in failed
    /\ "rcon" \in failed /\ family \in Doc!LogIn => BadRcon

Excused ==
    \/ wrong \cap Doc!Unasked # {}
    \/ "noPassword" \in wrong /\ family \in Doc!LogIn
    \/ "badUser" \in wrong /\ family = "ravaged"

Judged(failed) ==
    /\ Says(failed)
    /\ "unwritable" \in wrong \/ stamp # 0
    /\ outcome = "failed" /\ failed = {} => Excused
    /\ since /\ bot.at \notin {"down", "schema"} /\ ~bot.drift => "schema" \notin failed
    /\ since /\ bot.at # "down" => bot.code = code

VerdictInv == \A failed \in verdict : Judged(failed)

DoctorInv == DoctorTypes /\ SchemaInv /\ PastInv /\ VerdictInv

\* What may be wrong where.
LEMMA WrongWhere ==
  ASSUME DoctorTypes
  PROVE  /\ "noMod" \in wrong => family = "source"
         /\ "otherGame" \in wrong => family = "frostbite"
         /\ "noFile" \in wrong \/ "noDirectory" \in wrong \/ "lockedFile" \in wrong =>
               family = "altitude"
         /\ "noPassword" \in wrong => family # "altitude"
         /\ "badPassword" \in wrong \/ "down" \in wrong => family # "altitude"
         /\ "noLog" \in wrong => family \notin Doc!Push
         /\ "badUser" \in wrong => family \in {"frontline", "ravaged"}
         /\ "otherUser" \in wrong => family = "ravaged"
  BY DEF DoctorTypes, Doc!Relevant, Doc!Everywhere, Doc!Unasked, Doc!Push

LEMMA WhatFails ==
  ASSUME DoctorTypes, NEW failed, failed = {c.name : c \in {x \in Doc!Checks : x.fail}}
  PROVE  /\ failed \subseteq {"game", "database", "schema", "gamelog", "rcon", "plugins"}
         /\ "game" \in failed <=> "noGame" \in wrong
         /\ "database" \in failed <=> "unwritable" \in wrong
         /\ "schema" \in failed <=> "unwritable" \notin wrong /\ Doc!Baseline(code) < code
         /\ "gamelog" \in failed <=> family \notin Doc!Push /\ "noLog" \in wrong
         /\ "plugins" \in failed <=>
               "badPlugin" \in wrong \/ "noConfig" \in wrong \/ "noConfigOff" \in wrong
               \/ "unmetSetting" \in wrong
         /\ "rcon" \in failed <=> BadRcon
<1> USE DEF Doc!Row, Doc!Has
<1>1. Doc!CheckServer.name = "game" /\ (Doc!CheckServer.fail <=> "noGame" \in wrong)
  BY DEF Doc!CheckServer
<1>2. ~Doc!CheckTimezone.fail
  BY DEF Doc!CheckTimezone
<1>3. Doc!CheckDatabase.name = "database" /\ (Doc!CheckDatabase.fail <=> "unwritable" \in wrong)
  BY DEF Doc!CheckDatabase
<1>4. /\ Doc!CheckSchema.name = "schema"
      /\ Doc!CheckSchema.fail <=> "unwritable" \notin wrong /\ Doc!Baseline(code) < code
  BY DEF Doc!CheckSchema
<1>5. /\ Doc!CheckGameLog.name = "gamelog"
      /\ Doc!CheckGameLog.fail <=> family \notin Doc!Push /\ "noLog" \in wrong
  BY DEF Doc!CheckGameLog
<1>6. Doc!CheckRcon.name = "rcon" /\ (Doc!CheckRcon.fail <=> BadRcon)
  BY WrongWhere DEF Doc!CheckRcon, BadRcon, Doc!CommandFile, Doc!FrontlineRcon, Doc!RavagedRcon,
     Doc!HomefrontRcon, Doc!BattleyeRcon, Doc!FrostbiteRcon, Doc!SourceRcon, Doc!LoginFails
<1>7. /\ Doc!CheckPlugins.name = "plugins"
      /\ Doc!CheckPlugins.fail <=>
            "badPlugin" \in wrong \/ "noConfig" \in wrong \/ "noConfigOff" \in wrong
            \/ "unmetSetting" \in wrong
  BY DEF Doc!CheckPlugins
<1>8. ~Doc!CheckUpdate.fail
  BY DEF Doc!CheckUpdate
<1>9. ASSUME NEW name
      PROVE  name \in failed <=> \E c \in Doc!Checks : c.fail /\ c.name = name
  OBVIOUS
<1>10. QED
  BY ONLY <1>1, <1>2, <1>3, <1>4, <1>5, <1>6, <1>7, <1>8, <1>9 DEF Doc!Checks

\* A process that ends is down, or starts again on the code that is installed.
LEMMA Ending ==
  ASSUME Revisions, DoctorTypes, NEW again \in BOOLEAN, Doc!Ends(again)
  PROVE  /\ bot' \in Processes /\ bot'.at \in {"down", "schema"} /\ bot'.code <= code
         /\ bot'.at # "down" => bot'.code = code
         /\ since' \in BOOLEAN
<1> USE DEF Revisions, DoctorTypes
<1>1. CASE bot' = Doc!Begins(bot.keeper, bot.drift) /\ since' = (verdict # {})
  <2>1. bot' \in Processes /\ bot'.at = "schema" /\ bot'.code = code
    BY <1>1 DEF Doc!Begins, Processes, Posts
  <2>2. since' \in BOOLEAN
    BY <1>1
  <2>3. QED
    BY <2>1, <2>2
<1>2. CASE bot' = Doc!Down /\ UNCHANGED since
  BY <1>2 DEF Doc!Down, Processes, Posts
<1>3. QED
  BY <1>1, <1>2 DEF Doc!Ends

\* A start that is refused, for what the doctor has seen or is excused for.
LEMMA RefusedDoctor ==
  ASSUME Revisions, DoctorInv, Doc!Fails, bot.at \notin {"down", "stamp"},
         UNCHANGED <<family, wrong, code, applied, stamp, unsigned, verdict>>,
         \A failed \in verdict : failed = {} => Excused
  PROVE  DoctorInv'
<1>1. /\ bot' \in Processes /\ bot'.at \in {"down", "schema"} /\ bot'.code <= code
      /\ bot'.at # "down" => bot'.code = code
      /\ since' \in BOOLEAN /\ outcome' = "failed"
  BY Ending DEF DoctorInv, Doc!Fails
<1>2. DoctorTypes'
  BY <1>1 DEF DoctorInv, DoctorTypes
<1>3. SchemaInv'
  BY <1>1 DEF DoctorInv, SchemaInv
<1>4. PastInv'
  BY <1>1 DEF PastInv
<1>5. ASSUME NEW failed \in verdict' PROVE Judged(failed)'
  <2>1. Judged(failed) /\ (failed = {} => Excused)
    BY DEF DoctorInv, VerdictInv
  <2>2. Says(failed)'
    BY <2>1 DEF Judged, Says, BadRcon
  <2>3. failed = {} => Excused'
    BY <2>1 DEF Excused
  <2>4. QED
    BY <1>1, <2>1, <2>2, <2>3 DEF Judged
<1>6. QED
  BY <1>2, <1>3, <1>4, <1>5 DEF DoctorInv, VerdictInv

LEMMA ExamineDoctor ==
  ASSUME Revisions, DoctorInv, Doc!Examine PROVE DoctorInv'
<1> USE Revisions, DoctorInv, Doc!Examine
  DEF Revisions, DoctorInv, Doc!Examine, Doc!Fails, Doc!Begins, Doc!Goes, Doc!Down,
      Doc!None, Doc!Has, Doc!Behind, Doc!Created, Doc!Baseline, Doc!LeftUnsigned, Doc!Unjudged,
      Doc!schema, Doc!Pending, Doc!Asked, DoctorTypes, Processes, Posts
<1>1. DoctorTypes'
  <2>1. family' = family /\ wrong' \subseteq wrong
    OBVIOUS
  <2>2. wrong' \subseteq Doc!Relevant(family)'
    BY <2>1
  <2>3. QED
    BY <2>2
<1>2. SchemaInv'
  <2>1. CASE Doc!Has({"unwritable"})
    BY <2>1 DEF SchemaInv
  <2>2. CASE ~Doc!Has({"unwritable"}) /\ stamp # 0
    <3>1. stamp' = stamp /\ bot' = bot
      BY <2>2
    <3>2. ~unsigned' => ~unsigned
      OBVIOUS
    <3>3. 1 \in 1..stamp
      BY <2>2
    <3>4. applied # {} => applied' = applied
      BY <2>2
    <3>5. ~unsigned' => applied' = applied
      BY ONLY <2>2, <3>2, <3>3, <3>4, SchemaInv DEF SchemaInv
    <3>6. QED
      BY ONLY <2>2, <3>1, <3>2, <3>5, SchemaInv DEF SchemaInv
  <2>3. CASE ~Doc!Has({"unwritable"}) /\ stamp = 0
    <3>1. stamp' = code /\ bot' = bot /\ code >= 1 /\ code >= bot.code
      BY <2>3
    <3>2. ~unsigned' => applied' = 1..code
      BY <2>3
    <3>3. QED
      BY ONLY <3>1, <3>2, DoctorTypes DEF SchemaInv, DoctorTypes, Processes
  <2>4. QED
    BY <2>1, <2>2, <2>3
<1>3. PastInv'
  BY WrongWhere DEF PastInv, Doc!Push
<1>4. VerdictInv'
  <2> SUFFICES ASSUME NEW failed \in verdict' PROVE Judged(failed)'
    BY DEF VerdictInv
  <2>1. failed = {c.name : c \in {x \in Doc!Checks : x.fail}}
    OBVIOUS
  <2>2. Doc!Baseline(code) >= 1 /\ ("unwritable" \notin wrong => stamp' = Doc!Baseline(code))
    OBVIOUS
  <2>3. wrong' = wrong /\ code' = code /\ family' = family /\ since' = FALSE /\ outcome' = "none"
    OBVIOUS
  <2>4. Says(failed)'
    BY ONLY <2>1, <2>2, <2>3, WhatFails, DoctorTypes DEF Says, BadRcon
  <2>5. QED
    BY <2>2, <2>3, <2>4 DEF Judged
<1>5. QED
  BY <1>1, <1>2, <1>3, <1>4

LEMMA SchemaDriftDoctor ==
  ASSUME Revisions, DoctorInv, Doc!SchemaDrift PROVE DoctorInv'
<1> DEFINE Bad == ~bot.drift /\ ~Doc!Has({"unwritable"}) /\ Doc!Behind(bot.code)
<1>1. CASE Bad
  <2>1. Doc!Fails /\ bot.at \notin {"down", "stamp"}
        /\ UNCHANGED <<family, wrong, code, applied, stamp, unsigned, verdict>>
    BY <1>1 DEF Doc!SchemaDrift, Doc!schema
  <2>2. ASSUME NEW failed \in verdict, failed = {} PROVE Excused
    <3>1. DoctorTypes /\ Judged(failed)
      BY DEF DoctorInv, VerdictInv
    <3>2. QED
      BY <1>1, <2>2, <3>1, WrongWhere
      DEF Judged, Says, BadRcon, Excused, Doc!Push, Doc!LogIn, Doc!Has, Doc!Behind, Doc!Asked,
          DoctorTypes, Processes
  <2>3. QED
    BY ONLY <2>1, <2>2, RefusedDoctor, Revisions, DoctorInv
<1>2. CASE ~Bad
  <2> USE <1>2, Revisions, DoctorInv, Doc!SchemaDrift
      DEF Revisions, DoctorInv, Doc!SchemaDrift, Doc!Goes, Doc!Has, Doc!Behind, Doc!Created, Doc!schema,
          Doc!Asked, DoctorTypes, Processes, Posts
  <2>0. /\ bot'.at = "connect" /\ bot'.code = bot.code /\ bot'.drift = bot.drift
        /\ bot'.asked = ~(wrong \cap {"unwritable"} # {})
        /\ UNCHANGED <<wrong, code, applied, stamp, unsigned, since, verdict>>
    BY <1>2
  <2>1. DoctorTypes'
    <3>1. family' = family /\ wrong' \subseteq wrong
      OBVIOUS
    <3>2. wrong' \subseteq Doc!Relevant(family)'
      BY <3>1
    <3>3. QED
      BY <3>2
  <2>2. SchemaInv'
    <3>1. bot'.asked /\ ~bot'.drift => stamp = 0 \/ stamp >= bot'.code
      BY ONLY <1>2, <2>0, DoctorTypes DEF DoctorTypes, Processes, Doc!Has, Doc!Behind
    <3>2. QED
      BY ONLY <2>0, <3>1, SchemaInv, DoctorInv, bot.at = "schema" DEF SchemaInv
  <2>3. PastInv'
    BY WrongWhere DEF PastInv, Doc!Push
  <2>4. ASSUME NEW failed \in verdict' PROVE Judged(failed)'
    <3>1. Judged(failed)
      BY DEF VerdictInv
    <3>2. Says(failed)'
      BY <3>1, WrongWhere DEF Judged, Says, BadRcon, Doc!LogIn, Doc!Push
    <3>3. ("unwritable" \in wrong \/ stamp # 0)'
      BY <3>1 DEF Judged
    <3>4. outcome' = "failed" /\ failed = {} => Excused'
      BY <3>1, WrongWhere DEF Judged, Says, BadRcon, Excused, Doc!LogIn, Doc!Push
    <3>5. since' /\ bot'.at \notin {"down", "schema"} /\ ~bot'.drift => "schema" \notin failed
      <4>1. "unwritable" \notin wrong /\ ~bot'.drift => ~(stamp # 0 /\ stamp < bot.code)
        BY ONLY <1>2, <2>0, DoctorTypes DEF DoctorTypes, Processes, Doc!Has, Doc!Behind
      <4>2. since => bot.code = code
        BY <3>1 DEF Judged
      <4>3. QED
        BY ONLY <2>0, <3>1, <4>1, <4>2 DEF Judged, Says
    <3>6. since' /\ bot'.at # "down" => bot'.code = code'
      BY <3>1 DEF Judged
    <3>7. QED
      BY <3>2, <3>3, <3>4, <3>5, <3>6 DEF Judged
  <2>5. QED
    BY <2>1, <2>2, <2>3, <2>4 DEF VerdictInv
<1>3. QED
  BY <1>1, <1>2

LEMMA ConnectDoctor ==
  ASSUME Revisions, DoctorInv, Doc!Connect PROVE DoctorInv'
<1> DEFINE Bad == Doc!Has({"noGame", "noFile", "lockedFile"})
                  \/ (family = "source" /\ Doc!Has({"noPassword", "badPassword", "down"}))
<1>1. CASE Bad
  <2>1. Doc!Fails /\ bot.at \notin {"down", "stamp"}
        /\ UNCHANGED <<family, wrong, code, applied, stamp, unsigned, verdict>>
    BY <1>1 DEF Doc!Connect, Doc!schema
  <2>2. ASSUME NEW failed \in verdict, failed = {} PROVE Excused
    <3>1. DoctorTypes /\ Judged(failed)
      BY DEF DoctorInv, VerdictInv
    <3>2. QED
      BY <1>1, <2>2, <3>1, WrongWhere
      DEF Judged, Says, BadRcon, Excused, Doc!Push, Doc!LogIn, Doc!Has, Doc!Behind, Doc!Asked,
          DoctorTypes, Processes
  <2>3. QED
    BY ONLY <2>1, <2>2, RefusedDoctor, Revisions, DoctorInv
<1>2. CASE ~Bad
  <2> USE <1>2, Revisions, DoctorInv, Doc!Connect
      DEF Revisions, DoctorInv, Doc!Connect, Doc!Goes, Doc!Has, Doc!Behind, Doc!Created, Doc!schema,
          Doc!Asked, DoctorTypes, Processes, Posts
  <2>1. DoctorTypes'
    <3>1. family' = family /\ wrong' \subseteq wrong
      OBVIOUS
    <3>2. wrong' \subseteq Doc!Relevant(family)'
      BY <3>1
    <3>3. QED
      BY <3>2
  <2>2. SchemaInv'
    BY DEF SchemaInv
  <2>3. PastInv'
    BY WrongWhere DEF PastInv, Doc!Push
  <2>4. ASSUME NEW failed \in verdict' PROVE Judged(failed)'
    <3>1. Judged(failed)
      BY DEF VerdictInv
    <3>2. Says(failed)'
      BY <3>1, WrongWhere DEF Judged, Says, BadRcon, Doc!LogIn, Doc!Push
    <3>3. ("unwritable" \in wrong \/ stamp # 0)'
      BY <3>1 DEF Judged
    <3>4. outcome' = "failed" /\ failed = {} => Excused'
      <4>1. /\ outcome' = outcome /\ family' = family
            /\ wrong' = wrong \ {"noDirectory", "leftCommands"}
        OBVIOUS
      <4>2. wrong' \cap Doc!Unasked = wrong \cap Doc!Unasked
        BY ONLY <4>1 DEF Doc!Unasked
      <4>3. Excused => Excused'
        BY ONLY <4>1, <4>2 DEF Excused
      <4>4. QED
        BY ONLY <3>1, <4>1, <4>3 DEF Judged
    <3>5. since' /\ bot'.at \notin {"down", "schema"} /\ ~bot'.drift => "schema" \notin failed
      BY <3>1 DEF Judged, Says
    <3>6. since' /\ bot'.at # "down" => bot'.code = code'
      BY <3>1 DEF Judged
    <3>7. QED
      BY <3>2, <3>3, <3>4, <3>5, <3>6 DEF Judged
  <2>5. QED
    BY <2>1, <2>2, <2>3, <2>4 DEF VerdictInv
<1>3. QED
  BY <1>1, <1>2

LEMMA LoadDoctor ==
  ASSUME Revisions, DoctorInv, Doc!Load PROVE DoctorInv'
<1> DEFINE Bad == Doc!Has({"badPlugin", "noConfig", "unmetSetting"} \cup Doc!Unasked)
<1>1. CASE Bad
  <2>1. Doc!Fails /\ bot.at \notin {"down", "stamp"}
        /\ UNCHANGED <<family, wrong, code, applied, stamp, unsigned, verdict>>
    BY <1>1 DEF Doc!Load, Doc!schema
  <2>2. ASSUME NEW failed \in verdict, failed = {} PROVE Excused
    <3>1. DoctorTypes /\ Judged(failed)
      BY DEF DoctorInv, VerdictInv
    <3>2. QED
      BY <1>1, <2>2, <3>1, WrongWhere
      DEF Judged, Says, BadRcon, Excused, Doc!Push, Doc!LogIn, Doc!Has, Doc!Behind, Doc!Asked,
          DoctorTypes, Processes
  <2>3. QED
    BY ONLY <2>1, <2>2, RefusedDoctor, Revisions, DoctorInv
<1>2. CASE ~Bad
  <2> USE <1>2, Revisions, DoctorInv, Doc!Load
      DEF Revisions, DoctorInv, Doc!Load, Doc!Goes, Doc!Has, Doc!Behind, Doc!Created, Doc!schema,
          Doc!Asked, DoctorTypes, Processes, Posts
  <2>1. DoctorTypes'
    <3>1. family' = family /\ wrong' \subseteq wrong
      OBVIOUS
    <3>2. wrong' \subseteq Doc!Relevant(family)'
      BY <3>1
    <3>3. QED
      BY <3>2
  <2>2. SchemaInv'
    BY DEF SchemaInv
  <2>3. PastInv'
    BY WrongWhere DEF PastInv, Doc!Push
  <2>4. ASSUME NEW failed \in verdict' PROVE Judged(failed)'
    <3>1. Judged(failed)
      BY DEF VerdictInv
    <3>2. Says(failed)'
      BY <3>1, WrongWhere DEF Judged, Says, BadRcon, Doc!LogIn, Doc!Push
    <3>3. ("unwritable" \in wrong \/ stamp # 0)'
      BY <3>1 DEF Judged
    <3>4. outcome' = "failed" /\ failed = {} => Excused'
      BY <3>1, WrongWhere DEF Judged, Says, BadRcon, Excused, Doc!LogIn, Doc!Push
    <3>5. since' /\ bot'.at \notin {"down", "schema"} /\ ~bot'.drift => "schema" \notin failed
      BY <3>1 DEF Judged, Says
    <3>6. since' /\ bot'.at # "down" => bot'.code = code'
      BY <3>1 DEF Judged
    <3>7. QED
      BY <3>2, <3>3, <3>4, <3>5, <3>6 DEF Judged
  <2>5. QED
    BY <2>1, <2>2, <2>3, <2>4 DEF VerdictInv
<1>3. QED
  BY <1>1, <1>2

LEMMA CreateSchemaDoctor ==
  ASSUME Revisions, DoctorInv, Doc!CreateSchema PROVE DoctorInv'
<1> DEFINE Bad == Doc!Has({"unwritable"})
<1>1. CASE Bad
  <2>1. Doc!Fails /\ bot.at \notin {"down", "stamp"}
        /\ UNCHANGED <<family, wrong, code, applied, stamp, unsigned, verdict>>
    BY <1>1 DEF Doc!CreateSchema, Doc!schema
  <2>2. ASSUME NEW failed \in verdict, failed = {} PROVE Excused
    <3>1. DoctorTypes /\ Judged(failed)
      BY DEF DoctorInv, VerdictInv
    <3>2. QED
      BY <1>1, <2>2, <3>1, WrongWhere
      DEF Judged, Says, BadRcon, Excused, Doc!Push, Doc!LogIn, Doc!Has, Doc!Behind, Doc!Asked,
          DoctorTypes, Processes
  <2>3. QED
    BY ONLY <2>1, <2>2, RefusedDoctor, Revisions, DoctorInv
<1>2. CASE ~Bad
  <2> USE <1>2, Revisions, DoctorInv, Doc!CreateSchema
      DEF Revisions, DoctorInv, Doc!CreateSchema, Doc!Goes, Doc!Has, Doc!Behind, Doc!Created, Doc!schema,
          Doc!Asked, DoctorTypes, Processes, Posts
  <2>1. DoctorTypes'
    <3>1. family' = family /\ wrong' \subseteq wrong
      OBVIOUS
    <3>2. wrong' \subseteq Doc!Relevant(family)'
      BY <3>1
    <3>3. QED
      BY <3>2
  <2>2. SchemaInv'
    <3>1. /\ bot'.at = "stamp" /\ bot'.code = bot.code /\ bot'.drift = bot.drift
          /\ bot'.asked = bot.asked /\ bot.at = "store"
          /\ UNCHANGED <<stamp, unsigned>>
      OBVIOUS
    <3>2. CASE stamp = 0
      <4>1. ~unsigned => applied' = 1..bot.code
        BY <3>2 DEF SchemaInv
      <4>2. QED
        BY ONLY <3>1, <3>2, <4>1, SchemaInv DEF SchemaInv
    <3>3. CASE stamp # 0
      <4>1. 1 \in 1..stamp
        BY <3>3
      <4>2. ~unsigned => applied' = applied
        BY <3>3, <4>1 DEF SchemaInv
      <4>3. QED
        BY ONLY <3>1, <3>3, <4>2, SchemaInv DEF SchemaInv
    <3>4. QED
      BY <3>2, <3>3
  <2>3. PastInv'
    BY WrongWhere DEF PastInv, Doc!Push
  <2>4. ASSUME NEW failed \in verdict' PROVE Judged(failed)'
    <3>1. Judged(failed)
      BY DEF VerdictInv
    <3>2. Says(failed)'
      BY <3>1, WrongWhere DEF Judged, Says, BadRcon, Doc!LogIn, Doc!Push
    <3>3. ("unwritable" \in wrong \/ stamp # 0)'
      BY <3>1 DEF Judged
    <3>4. outcome' = "failed" /\ failed = {} => Excused'
      BY <3>1, WrongWhere DEF Judged, Says, BadRcon, Excused, Doc!LogIn, Doc!Push
    <3>5. since' /\ bot'.at \notin {"down", "schema"} /\ ~bot'.drift => "schema" \notin failed
      BY <3>1 DEF Judged, Says
    <3>6. since' /\ bot'.at # "down" => bot'.code = code'
      BY <3>1 DEF Judged
    <3>7. QED
      BY <3>2, <3>3, <3>4, <3>5, <3>6 DEF Judged
  <2>5. QED
    BY <2>1, <2>2, <2>3, <2>4 DEF VerdictInv
<1>3. QED
  BY <1>1, <1>2

LEMMA EnsureBaselineDoctor ==
  ASSUME Revisions, DoctorInv, Doc!EnsureBaseline PROVE DoctorInv'
<1> USE Revisions, DoctorInv, Doc!EnsureBaseline
  DEF Revisions, DoctorInv, Doc!EnsureBaseline, Doc!Fails, Doc!Begins, Doc!Goes, Doc!Down,
      Doc!None, Doc!Has, Doc!Behind, Doc!Created, Doc!Baseline, Doc!LeftUnsigned, Doc!Unjudged,
      Doc!schema, Doc!Pending, Doc!Asked, DoctorTypes, Processes, Posts
<1>1. DoctorTypes'
  <2>1. family' = family /\ wrong' \subseteq wrong
    OBVIOUS
  <2>2. wrong' \subseteq Doc!Relevant(family)'
    BY <2>1
  <2>3. QED
    BY <2>2
<1>2. SchemaInv'
  BY DEF SchemaInv
<1>3. PastInv'
  BY WrongWhere DEF PastInv, Doc!Push
<1>4. VerdictInv'
  <2> SUFFICES ASSUME NEW failed \in verdict' PROVE Judged(failed)'
    BY DEF VerdictInv
  <2>1. Judged(failed)
    BY DEF VerdictInv
  <2>2. Says(failed)'
    BY <2>1, WrongWhere DEF Judged, Says, BadRcon, Doc!LogIn, Doc!Push
  <2>3. ("unwritable" \in wrong \/ stamp # 0)'
    BY <2>1 DEF Judged
  <2>4. outcome' = "failed" /\ failed = {} => Excused'
    BY <2>1, WrongWhere DEF Judged, Says, BadRcon, Excused, Doc!LogIn, Doc!Push
  <2>5. since' /\ bot'.at \notin {"down", "schema"} /\ ~bot'.drift => "schema" \notin failed
    BY <2>1 DEF Judged, Says
  <2>6. since' /\ bot'.at # "down" => bot'.code = code'
    BY <2>1 DEF Judged
  <2>7. QED
    BY <2>2, <2>3, <2>4, <2>5, <2>6 DEF Judged
<1>5. QED
  BY <1>1, <1>2, <1>3, <1>4

LEMMA AskServerDoctor ==
  ASSUME Revisions, DoctorInv, Doc!AskServer PROVE DoctorInv'
<1> DEFINE Bad == Doc!Asked("noMod") \/ Doc!Asked("otherGame")
<1>1. CASE Bad
  <2>1. Doc!Fails /\ bot.at \notin {"down", "stamp"}
        /\ UNCHANGED <<family, wrong, code, applied, stamp, unsigned, verdict>>
    BY <1>1 DEF Doc!AskServer, Doc!schema
  <2>2. ASSUME NEW failed \in verdict, failed = {} PROVE Excused
    <3>1. DoctorTypes /\ Judged(failed)
      BY DEF DoctorInv, VerdictInv
    <3>2. QED
      BY <1>1, <2>2, <3>1, WrongWhere
      DEF Judged, Says, BadRcon, Excused, Doc!Push, Doc!LogIn, Doc!Has, Doc!Behind, Doc!Asked,
          DoctorTypes, Processes
  <2>3. QED
    BY ONLY <2>1, <2>2, RefusedDoctor, Revisions, DoctorInv
<1>2. CASE ~Bad
  <2> USE <1>2, Revisions, DoctorInv, Doc!AskServer
      DEF Revisions, DoctorInv, Doc!AskServer, Doc!Goes, Doc!Has, Doc!Behind, Doc!Created, Doc!schema,
          Doc!Asked, DoctorTypes, Processes, Posts
  <2>1. DoctorTypes'
    <3>1. family' = family /\ wrong' \subseteq wrong
      OBVIOUS
    <3>2. wrong' \subseteq Doc!Relevant(family)'
      BY <3>1
    <3>3. QED
      BY <3>2
  <2>2. SchemaInv'
    BY DEF SchemaInv
  <2>3. PastInv'
    BY WrongWhere DEF PastInv, Doc!Push
  <2>4. ASSUME NEW failed \in verdict' PROVE Judged(failed)'
    <3>1. Judged(failed)
      BY DEF VerdictInv
    <3>2. Says(failed)'
      BY <3>1, WrongWhere DEF Judged, Says, BadRcon, Doc!LogIn, Doc!Push
    <3>3. ("unwritable" \in wrong \/ stamp # 0)'
      BY <3>1 DEF Judged
    <3>4. outcome' = "failed" /\ failed = {} => Excused'
      BY <3>1, WrongWhere DEF Judged, Says, BadRcon, Excused, Doc!LogIn, Doc!Push
    <3>5. since' /\ bot'.at \notin {"down", "schema"} /\ ~bot'.drift => "schema" \notin failed
      BY <3>1 DEF Judged, Says
    <3>6. since' /\ bot'.at # "down" => bot'.code = code'
      BY <3>1 DEF Judged
    <3>7. QED
      BY <3>2, <3>3, <3>4, <3>5, <3>6 DEF Judged
  <2>5. QED
    BY <2>1, <2>2, <2>3, <2>4 DEF VerdictInv
<1>3. QED
  BY <1>1, <1>2

LEMMA OpenDoctor ==
  ASSUME Revisions, DoctorInv, Doc!Open PROVE DoctorInv'
<1> DEFINE Bad == (family \notin Doc!Push /\ Doc!Has({"noLog"}))
                  \/ (family \in Doc!Push
                     /\ Doc!Has({"noPassword", "badPassword", "badUser", "down"}))
<1>1. CASE Bad
  <2>1. Doc!Fails /\ bot.at \notin {"down", "stamp"}
        /\ UNCHANGED <<family, wrong, code, applied, stamp, unsigned, verdict>>
    BY <1>1 DEF Doc!Open, Doc!schema
  <2>2. ASSUME NEW failed \in verdict, failed = {} PROVE Excused
    <3>1. DoctorTypes /\ Judged(failed)
      BY DEF DoctorInv, VerdictInv
    <3>2. QED
      BY <1>1, <2>2, <3>1, WrongWhere
      DEF Judged, Says, BadRcon, Excused, Doc!Push, Doc!LogIn, Doc!Has, Doc!Behind, Doc!Asked,
          DoctorTypes, Processes
  <2>3. QED
    BY ONLY <2>1, <2>2, RefusedDoctor, Revisions, DoctorInv
<1>2. CASE ~Bad
  <2> USE <1>2, Revisions, DoctorInv, Doc!Open
      DEF Revisions, DoctorInv, Doc!Open, Doc!Goes, Doc!Has, Doc!Behind, Doc!Created, Doc!schema,
          Doc!Asked, DoctorTypes, Processes, Posts
  <2>1. DoctorTypes'
    <3>1. family' = family /\ wrong' \subseteq wrong
      OBVIOUS
    <3>2. wrong' \subseteq Doc!Relevant(family)'
      BY <3>1
    <3>3. QED
      BY <3>2
  <2>2. SchemaInv'
    BY DEF SchemaInv
  <2>3. PastInv'
    BY WrongWhere DEF PastInv, Doc!Push
  <2>4. ASSUME NEW failed \in verdict' PROVE Judged(failed)'
    <3>1. Judged(failed)
      BY DEF VerdictInv
    <3>2. Says(failed)'
      BY <3>1, WrongWhere DEF Judged, Says, BadRcon, Doc!LogIn, Doc!Push
    <3>3. ("unwritable" \in wrong \/ stamp # 0)'
      BY <3>1 DEF Judged
    <3>4. outcome' = "failed" /\ failed = {} => Excused'
      BY <3>1, WrongWhere DEF Judged, Says, BadRcon, Excused, Doc!LogIn, Doc!Push
    <3>5. since' /\ bot'.at \notin {"down", "schema"} /\ ~bot'.drift => "schema" \notin failed
      BY <3>1 DEF Judged, Says
    <3>6. since' /\ bot'.at # "down" => bot'.code = code'
      BY <3>1 DEF Judged
    <3>7. QED
      BY <3>2, <3>3, <3>4, <3>5, <3>6 DEF Judged
  <2>5. QED
    BY <2>1, <2>2, <2>3, <2>4 DEF VerdictInv
<1>3. QED
  BY <1>1, <1>2

LEMMA KilledDoctor ==
  ASSUME Revisions, DoctorInv, Doc!Killed PROVE DoctorInv'
<1> USE Revisions, DoctorInv, Doc!Killed
  DEF Revisions, DoctorInv, Doc!Killed, Doc!Fails, Doc!Begins, Doc!Goes, Doc!Down,
      Doc!None, Doc!Has, Doc!Behind, Doc!Created, Doc!Baseline, Doc!LeftUnsigned, Doc!Unjudged,
      Doc!schema, Doc!Pending, Doc!Asked, DoctorTypes, Processes, Posts
<1>0. /\ bot' \in Processes /\ since' \in BOOLEAN /\ bot'.code <= code
      /\ bot'.at # "down" => bot'.code >= 1
      /\ Doc!Ends(FALSE) => bot'.at \in {"down", "schema"} /\ (bot'.at # "down" => bot'.code = code)
  <2>1. CASE Doc!Ends(FALSE)
    BY <2>1, Ending
  <2>2. CASE ~Doc!Ends(FALSE)
    BY <2>2
  <2>3. QED
    BY <2>1, <2>2
<1>1. DoctorTypes'
  <2>1. family' = family /\ wrong' \subseteq wrong
    OBVIOUS
  <2>2. wrong' \subseteq Doc!Relevant(family)'
    BY <2>1
  <2>3. QED
    BY <1>0, <2>2
<1>2. SchemaInv'
  BY <1>0 DEF SchemaInv
<1>3. PastInv'
  BY <1>0, WrongWhere DEF PastInv, Doc!Push
<1>4. VerdictInv'
  <2> SUFFICES ASSUME NEW failed \in verdict' PROVE Judged(failed)'
    BY DEF VerdictInv
  <2>1. Judged(failed)
    BY DEF VerdictInv
  <2>2. Says(failed)'
    BY <2>1, WrongWhere DEF Judged, Says, BadRcon, Doc!LogIn, Doc!Push
  <2>3. ("unwritable" \in wrong \/ stamp # 0)'
    BY <2>1 DEF Judged
  <2>4. outcome' = "failed" /\ failed = {} => Excused'
    BY <2>1, WrongWhere DEF Judged, Says, BadRcon, Excused, Doc!LogIn, Doc!Push
  <2>5. since' /\ bot'.at \notin {"down", "schema"} /\ ~bot'.drift => "schema" \notin failed
    BY <1>0, <2>1 DEF Judged, Says
  <2>6. since' /\ bot'.at # "down" => bot'.code = code'
    BY <1>0, <2>1 DEF Judged
  <2>7. QED
    BY <2>2, <2>3, <2>4, <2>5, <2>6 DEF Judged
<1>5. QED
  BY <1>1, <1>2, <1>3, <1>4

LEMMA RunDoctor ==
  ASSUME NEW keeper \in Keepers, NEW drift \in BOOLEAN, Revisions, DoctorInv, Doc!Run(keeper, drift) PROVE DoctorInv'
<1> USE Revisions, DoctorInv, Doc!Run(keeper, drift)
  DEF Revisions, DoctorInv, Doc!Run, Doc!Fails, Doc!Begins, Doc!Goes, Doc!Down,
      Doc!None, Doc!Has, Doc!Behind, Doc!Created, Doc!Baseline, Doc!LeftUnsigned, Doc!Unjudged,
      Doc!schema, Doc!Pending, Doc!Asked, DoctorTypes, Processes, Posts
<1>1. DoctorTypes'
  <2>1. family' = family /\ wrong' \subseteq wrong
    OBVIOUS
  <2>2. wrong' \subseteq Doc!Relevant(family)'
    BY <2>1
  <2>3. QED
    BY <2>2
<1>2. SchemaInv'
  BY DEF SchemaInv
<1>3. PastInv'
  BY WrongWhere DEF PastInv, Doc!Push
<1>4. VerdictInv'
  <2> SUFFICES ASSUME NEW failed \in verdict' PROVE Judged(failed)'
    BY DEF VerdictInv
  <2>1. Judged(failed)
    BY DEF VerdictInv
  <2>2. Says(failed)'
    BY <2>1, WrongWhere DEF Judged, Says, BadRcon, Doc!LogIn, Doc!Push
  <2>3. ("unwritable" \in wrong \/ stamp # 0)'
    BY <2>1 DEF Judged
  <2>4. outcome' = "failed" /\ failed = {} => Excused'
    BY <2>1, WrongWhere DEF Judged, Says, BadRcon, Excused, Doc!LogIn, Doc!Push
  <2>5. since' /\ bot'.at \notin {"down", "schema"} /\ ~bot'.drift => "schema" \notin failed
    BY <2>1 DEF Judged, Says
  <2>6. since' /\ bot'.at # "down" => bot'.code = code'
    BY <2>1 DEF Judged
  <2>7. QED
    BY <2>2, <2>3, <2>4, <2>5, <2>6 DEF Judged
<1>5. QED
  BY <1>1, <1>2, <1>3, <1>4

LEMMA StopDoctor ==
  ASSUME NEW again \in BOOLEAN, Revisions, DoctorInv, Doc!Stop(again) PROVE DoctorInv'
<1> USE Revisions, DoctorInv, Doc!Stop(again)
  DEF Revisions, DoctorInv, Doc!Stop, Doc!Fails, Doc!Begins, Doc!Goes, Doc!Down,
      Doc!None, Doc!Has, Doc!Behind, Doc!Created, Doc!Baseline, Doc!LeftUnsigned, Doc!Unjudged,
      Doc!schema, Doc!Pending, Doc!Asked, DoctorTypes, Processes, Posts
<1>0. /\ bot' \in Processes /\ since' \in BOOLEAN /\ bot'.code <= code
      /\ bot'.at # "down" => bot'.code >= 1
      /\ Doc!Ends(again) => bot'.at \in {"down", "schema"} /\ (bot'.at # "down" => bot'.code = code)
  <2>1. CASE Doc!Ends(again)
    BY <2>1, Ending
  <2>2. CASE ~Doc!Ends(again)
    BY <2>2
  <2>3. QED
    BY <2>1, <2>2
<1>1. DoctorTypes'
  <2>1. family' = family /\ wrong' \subseteq wrong
    OBVIOUS
  <2>2. wrong' \subseteq Doc!Relevant(family)'
    BY <2>1
  <2>3. QED
    BY <1>0, <2>2
<1>2. SchemaInv'
  BY <1>0 DEF SchemaInv
<1>3. PastInv'
  BY <1>0, WrongWhere DEF PastInv, Doc!Push
<1>4. VerdictInv'
  <2> SUFFICES ASSUME NEW failed \in verdict' PROVE Judged(failed)'
    BY DEF VerdictInv
  <2>1. Judged(failed)
    BY DEF VerdictInv
  <2>2. Says(failed)'
    BY <2>1, WrongWhere DEF Judged, Says, BadRcon, Doc!LogIn, Doc!Push
  <2>3. ("unwritable" \in wrong \/ stamp # 0)'
    BY <2>1 DEF Judged
  <2>4. outcome' = "failed" /\ failed = {} => Excused'
    BY <2>1, WrongWhere DEF Judged, Says, BadRcon, Excused, Doc!LogIn, Doc!Push
  <2>5. since' /\ bot'.at \notin {"down", "schema"} /\ ~bot'.drift => "schema" \notin failed
    BY <1>0, <2>1 DEF Judged, Says
  <2>6. since' /\ bot'.at # "down" => bot'.code = code'
    BY <1>0, <2>1 DEF Judged
  <2>7. QED
    BY <2>2, <2>3, <2>4, <2>5, <2>6 DEF Judged
<1>5. QED
  BY <1>1, <1>2, <1>3, <1>4

LEMMA MendDoctor ==
  ASSUME NEW problem \in wrong, Revisions, DoctorInv, Doc!Mend(problem) PROVE DoctorInv'
<1> USE Revisions, DoctorInv, Doc!Mend(problem)
  DEF Revisions, DoctorInv, Doc!Mend, Doc!Fails, Doc!Begins, Doc!Goes, Doc!Down,
      Doc!None, Doc!Has, Doc!Behind, Doc!Created, Doc!Baseline, Doc!LeftUnsigned, Doc!Unjudged,
      Doc!schema, Doc!Pending, Doc!Asked, DoctorTypes, Processes, Posts
<1>1. DoctorTypes'
  <2>1. family' = family /\ wrong' \subseteq wrong
    OBVIOUS
  <2>2. wrong' \subseteq Doc!Relevant(family)'
    BY <2>1
  <2>3. QED
    BY <2>2
<1>2. SchemaInv'
  BY DEF SchemaInv
<1>3. PastInv'
  BY WrongWhere DEF PastInv, Doc!Push
<1>4. VerdictInv'
  <2> SUFFICES ASSUME NEW failed \in verdict' PROVE Judged(failed)'
    BY DEF VerdictInv
  <2>1. Judged(failed)
    BY DEF VerdictInv
  <2>2. Says(failed)'
    BY <2>1, WrongWhere DEF Judged, Says, BadRcon, Doc!LogIn, Doc!Push
  <2>3. ("unwritable" \in wrong \/ stamp # 0)'
    BY <2>1 DEF Judged
  <2>4. outcome' = "failed" /\ failed = {} => Excused'
    BY <2>1, WrongWhere DEF Judged, Says, BadRcon, Excused, Doc!LogIn, Doc!Push
  <2>5. since' /\ bot'.at \notin {"down", "schema"} /\ ~bot'.drift => "schema" \notin failed
    BY <2>1 DEF Judged, Says
  <2>6. since' /\ bot'.at # "down" => bot'.code = code'
    BY <2>1 DEF Judged
  <2>7. QED
    BY <2>2, <2>3, <2>4, <2>5, <2>6 DEF Judged
<1>5. QED
  BY <1>1, <1>2, <1>3, <1>4

LEMMA UpdateDoctor ==
  ASSUME Revisions, DoctorInv, Doc!Update PROVE DoctorInv'
<1> USE Revisions, DoctorInv, Doc!Update
  DEF Revisions, DoctorInv, Doc!Update, Doc!Fails, Doc!Begins, Doc!Goes, Doc!Down,
      Doc!None, Doc!Has, Doc!Behind, Doc!Created, Doc!Baseline, Doc!LeftUnsigned, Doc!Unjudged,
      Doc!schema, Doc!Pending, Doc!Asked, DoctorTypes, Processes, Posts
<1>1. DoctorTypes'
  <2>1. family' = family /\ wrong' \subseteq wrong
    OBVIOUS
  <2>2. wrong' \subseteq Doc!Relevant(family)'
    BY <2>1
  <2>3. /\ code' \in Nat /\ code' >= 1 /\ code' <= Newest
        /\ stamp' \in Nat /\ stamp' <= Newest /\ bot'.code <= code'
    OBVIOUS
  <2>4. unsigned' \in BOOLEAN /\ since' \in BOOLEAN
    OBVIOUS
  <2>5. bot' = bot
    OBVIOUS
  <2>6. QED
    BY <2>2, <2>3, <2>4, <2>5
<1>2. SchemaInv'
  BY DEF SchemaInv
<1>3. PastInv'
  BY WrongWhere DEF PastInv, Doc!Push
<1>4. VerdictInv'
  <2> SUFFICES ASSUME NEW failed \in verdict' PROVE Judged(failed)'
    BY DEF VerdictInv
  <2>1. Judged(failed)
    BY DEF VerdictInv
  <2>2. Says(failed)'
    BY <2>1, WrongWhere DEF Judged, Says, BadRcon, Doc!LogIn, Doc!Push
  <2>3. ("unwritable" \in wrong \/ stamp # 0)'
    BY <2>1 DEF Judged
  <2>4. outcome' = "failed" /\ failed = {} => Excused'
    BY <2>1, WrongWhere DEF Judged, Says, BadRcon, Excused, Doc!LogIn, Doc!Push
  <2>5. since' /\ bot'.at \notin {"down", "schema"} /\ ~bot'.drift => "schema" \notin failed
    BY <2>1 DEF Judged, Says
  <2>6. since' /\ bot'.at # "down" => bot'.code = code'
    BY <2>1 DEF Judged
  <2>7. QED
    BY <2>2, <2>3, <2>4, <2>5, <2>6 DEF Judged
<1>5. QED
  BY <1>1, <1>2, <1>3, <1>4

LEMMA DbUpgradeDoctor ==
  ASSUME Revisions, DoctorInv, Doc!DbUpgrade PROVE DoctorInv'
<1> USE Revisions, DoctorInv, Doc!DbUpgrade
  DEF Revisions, DoctorInv, Doc!DbUpgrade, Doc!Fails, Doc!Begins, Doc!Goes, Doc!Down,
      Doc!None, Doc!Has, Doc!Behind, Doc!Created, Doc!Baseline, Doc!LeftUnsigned, Doc!Unjudged,
      Doc!schema, Doc!Pending, Doc!Asked, DoctorTypes, Processes, Posts
<1>1. DoctorTypes'
  <2>1. family' = family /\ wrong' \subseteq wrong
    OBVIOUS
  <2>2. wrong' \subseteq Doc!Relevant(family)'
    BY <2>1
  <2>3. QED
    BY <2>2
<1>2. SchemaInv'
  BY DEF SchemaInv
<1>3. PastInv'
  BY WrongWhere DEF PastInv, Doc!Push
<1>4. VerdictInv'
  <2> SUFFICES ASSUME NEW failed \in verdict' PROVE Judged(failed)'
    BY DEF VerdictInv
  <2>1. Judged(failed)
    BY DEF VerdictInv
  <2>2. Says(failed)'
    BY <2>1, WrongWhere DEF Judged, Says, BadRcon, Doc!LogIn, Doc!Push
  <2>3. ("unwritable" \in wrong \/ stamp # 0)'
    BY <2>1 DEF Judged
  <2>4. outcome' = "failed" /\ failed = {} => Excused'
    BY <2>1, WrongWhere DEF Judged, Says, BadRcon, Excused, Doc!LogIn, Doc!Push
  <2>5. since' /\ bot'.at \notin {"down", "schema"} /\ ~bot'.drift => "schema" \notin failed
    BY <2>1 DEF Judged, Says
  <2>6. since' /\ bot'.at # "down" => bot'.code = code'
    BY <2>1 DEF Judged
  <2>7. QED
    BY <2>2, <2>3, <2>4, <2>5, <2>6 DEF Judged
<1>5. QED
  BY <1>1, <1>2, <1>3, <1>4

LEMMA DbStampDoctor ==
  ASSUME Revisions, DoctorInv, Doc!DbStamp PROVE DoctorInv'
<1> USE Revisions, DoctorInv, Doc!DbStamp
  DEF Revisions, DoctorInv, Doc!DbStamp, Doc!Fails, Doc!Begins, Doc!Goes, Doc!Down,
      Doc!None, Doc!Has, Doc!Behind, Doc!Created, Doc!Baseline, Doc!LeftUnsigned, Doc!Unjudged,
      Doc!schema, Doc!Pending, Doc!Asked, DoctorTypes, Processes, Posts
<1>1. DoctorTypes'
  <2>1. family' = family /\ wrong' \subseteq wrong
    OBVIOUS
  <2>2. wrong' \subseteq Doc!Relevant(family)'
    BY <2>1
  <2>3. QED
    BY <2>2
<1>2. SchemaInv'
  BY DEF SchemaInv
<1>3. PastInv'
  BY WrongWhere DEF PastInv, Doc!Push
<1>4. VerdictInv'
  <2> SUFFICES ASSUME NEW failed \in verdict' PROVE Judged(failed)'
    BY DEF VerdictInv
  <2>1. Judged(failed)
    BY DEF VerdictInv
  <2>2. Says(failed)'
    BY <2>1, WrongWhere DEF Judged, Says, BadRcon, Doc!LogIn, Doc!Push
  <2>3. ("unwritable" \in wrong \/ stamp # 0)'
    BY <2>1 DEF Judged
  <2>4. outcome' = "failed" /\ failed = {} => Excused'
    BY <2>1, WrongWhere DEF Judged, Says, BadRcon, Excused, Doc!LogIn, Doc!Push
  <2>5. since' /\ bot'.at \notin {"down", "schema"} /\ ~bot'.drift => "schema" \notin failed
    BY <2>1 DEF Judged, Says
  <2>6. since' /\ bot'.at # "down" => bot'.code = code'
    BY <2>1 DEF Judged
  <2>7. QED
    BY <2>2, <2>3, <2>4, <2>5, <2>6 DEF Judged
<1>5. QED
  BY <1>1, <1>2, <1>3, <1>4

LEMMA OthersUpgradeDoctor ==
  ASSUME Revisions, DoctorInv, Doc!OthersUpgrade PROVE DoctorInv'
<1> USE Revisions, DoctorInv, Doc!OthersUpgrade
  DEF Revisions, DoctorInv, Doc!OthersUpgrade, Doc!Fails, Doc!Begins, Doc!Goes, Doc!Down,
      Doc!None, Doc!Has, Doc!Behind, Doc!Created, Doc!Baseline, Doc!LeftUnsigned, Doc!Unjudged,
      Doc!schema, Doc!Pending, Doc!Asked, DoctorTypes, Processes, Posts
<1>1. DoctorTypes'
  <2>1. family' = family /\ wrong' \subseteq wrong
    OBVIOUS
  <2>2. wrong' \subseteq Doc!Relevant(family)'
    BY <2>1
  <2>3. /\ code' \in Nat /\ code' >= 1 /\ code' <= Newest
        /\ stamp' \in Nat /\ stamp' <= Newest /\ bot'.code <= code'
    OBVIOUS
  <2>4. unsigned' \in BOOLEAN /\ since' \in BOOLEAN
    OBVIOUS
  <2>5. bot' = bot
    OBVIOUS
  <2>6. QED
    BY <2>2, <2>3, <2>4, <2>5
<1>2. SchemaInv'
  BY DEF SchemaInv
<1>3. PastInv'
  BY WrongWhere DEF PastInv, Doc!Push
<1>4. VerdictInv'
  <2> SUFFICES ASSUME NEW failed \in verdict' PROVE Judged(failed)'
    BY DEF VerdictInv
  <2>1. Judged(failed)
    BY DEF VerdictInv
  <2>2. Says(failed)'
    BY <2>1, WrongWhere DEF Judged, Says, BadRcon, Doc!LogIn, Doc!Push
  <2>3. ("unwritable" \in wrong \/ stamp # 0)'
    BY <2>1 DEF Judged
  <2>4. outcome' = "failed" /\ failed = {} => Excused'
    BY <2>1, WrongWhere DEF Judged, Says, BadRcon, Excused, Doc!LogIn, Doc!Push
  <2>5. since' /\ bot'.at \notin {"down", "schema"} /\ ~bot'.drift => "schema" \notin failed
    BY <2>1 DEF Judged, Says
  <2>6. since' /\ bot'.at # "down" => bot'.code = code'
    BY <2>1 DEF Judged
  <2>7. QED
    BY <2>2, <2>3, <2>4, <2>5, <2>6 DEF Judged
<1>5. QED
  BY <1>1, <1>2, <1>3, <1>4

LEMMA DoctorFirst == ASSUME Revisions, Doc!Init PROVE DoctorInv
<1> USE DEF Revisions, Doc!Init, Doc!Down, Doc!None
<1>1. DoctorTypes
  <2>1. wrong \subseteq Doc!Relevant(family)
    OBVIOUS
  <2>2. code \in Nat /\ code >= 1 /\ code <= Newest /\ stamp \in Nat /\ stamp <= Newest
    OBVIOUS
  <2>3. bot \in Processes /\ bot.code = 0 /\ bot.at = "down"
    BY DEF Processes, Posts
  <2>4. unsigned \in BOOLEAN /\ since \in BOOLEAN
    OBVIOUS
  <2>5. QED
    BY ONLY <2>1, <2>2, <2>3, <2>4 DEF DoctorTypes
<1>2. SchemaInv
  <2>1. 1..1 = {1}
    OBVIOUS
  <2>2. bot.at = "down" /\ (~unsigned => (applied = {} /\ stamp = 0) \/ (applied = {1} /\ stamp = 1))
    OBVIOUS
  <2>3. CASE stamp = 1
    BY ONLY <2>1, <2>2, <2>3 DEF SchemaInv
  <2>4. CASE stamp # 1
    BY ONLY <2>2, <2>4 DEF SchemaInv
  <2>5. QED
    BY <2>3, <2>4
<1>3. PastInv /\ VerdictInv
  BY DEF PastInv, VerdictInv
<1>4. QED
  BY <1>1, <1>2, <1>3 DEF DoctorInv

LEMMA DoctorStutter == ASSUME DoctorInv, UNCHANGED Doc!doVars PROVE DoctorInv'
<1> USE DoctorInv DEF DoctorInv, Doc!doVars
<1>1. DoctorTypes'
  BY DEF DoctorTypes
<1>2. SchemaInv' /\ PastInv'
  BY DEF SchemaInv, PastInv
<1>3. VerdictInv'
  BY DEF VerdictInv, Judged, Says, BadRcon, Excused
<1>4. QED
  BY <1>1, <1>2, <1>3

LEMMA DoctorNext == ASSUME Revisions, DoctorInv, [Doc!Next]_(Doc!doVars) PROVE DoctorInv'
  BY DoctorStutter, ExamineDoctor, SchemaDriftDoctor, ConnectDoctor, LoadDoctor, CreateSchemaDoctor,
     EnsureBaselineDoctor, AskServerDoctor, OpenDoctor, KilledDoctor, RunDoctor, StopDoctor,
     MendDoctor, UpdateDoctor, DbUpgradeDoctor, DbStampDoctor, OthersUpgradeDoctor
  DEF Doc!Next, Doc!Starts

LEMMA DoctorSays == ASSUME Revisions, DoctorInv PROVE Doc!DoctorIsRight /\ Doc!SchemaFits
<1> USE Revisions, DoctorInv DEF Revisions, DoctorInv
<1>1. ASSUME since, NEW failed \in verdict, outcome = "failed", failed = {}
      PROVE Excused
  BY <1>1 DEF VerdictInv, Judged
<1>2. ASSUME since, NEW failed \in verdict, outcome = "up", failed # {},
             "noConfigOff" \notin wrong, ~bot.drift
      PROVE failed = {"rcon"} /\ (family \notin Doc!LogIn \/ "otherUser" \in wrong)
  <2>1. Judged(failed) /\ Says(failed) /\ bot.at = "up"
    BY <1>2 DEF VerdictInv, Judged, PastInv
  <2>2. "schema" \notin failed
    BY <1>2, <2>1 DEF Judged
  <2>3. /\ "game" \notin failed /\ "database" \notin failed /\ "gamelog" \notin failed
        /\ "plugins" \notin failed
    BY <1>2, <2>1 DEF Says, PastInv
  <2>4. failed \subseteq {"rcon"}
    BY <2>1, <2>2, <2>3 DEF Says
  <2>5. BadRcon /\ family \in Doc!LogIn => "otherUser" \in wrong
    BY ONLY <2>1, PastInv DEF PastInv, BadRcon, Doc!LogIn, Doc!Push
  <2>6. QED
    BY <1>2, <2>1, <2>4, <2>5 DEF Says
<1>3. Doc!DoctorIsRight
  BY ONLY <1>1, <1>2 DEF Doc!DoctorIsRight, Doc!None, Excused
<1>4. ASSUME ~unsigned, stamp # 0 PROVE 1..stamp = applied
  BY <1>4 DEF SchemaInv
<1>5. ASSUME ~unsigned, bot.at \in {"ask", "open", "up"}, ~bot.drift, bot.asked
      PROVE 1..bot.code \subseteq applied
  <2>1. stamp \in Nat /\ bot.code \in Nat
    BY DEF DoctorTypes, Processes
  <2>2. applied = 1..stamp /\ stamp >= bot.code
    BY <1>5 DEF SchemaInv
  <2>3. QED
    BY ONLY <2>1, <2>2
<1>6. Doc!SchemaFits
  BY <1>4, <1>5 DEF Doc!SchemaFits
<1>7. QED
  BY <1>3, <1>6

\* A bot starts where the doctor found nothing, but for what it does not ask of the plugins, a
\* password it only warns of and the account on a Ravaged server, and not where it did, but for
\* what it can read without and a Ravaged server whose account it tries as "admin" although the
\* configuration names it; and it never runs on tables its code
\* is ahead of, unless it was told to or could not ask: for any number of revisions, whatever is
\* wrong at first, and however the doctor, the starts, kills, repairs, updates and migrations
\* follow one another. (doctor.py, cli.py:489-520, storage/migrate.py)
THEOREM TheDoctorIsRight ==
  ASSUME Revisions PROVE Doc!Spec => [](Doc!DoctorIsRight /\ Doc!SchemaFits)
<1>1. Doc!Init => DoctorInv
  BY DoctorFirst
<1>2. DoctorInv /\ [Doc!Next]_(Doc!doVars) => DoctorInv'
  BY DoctorNext
<1>3. DoctorInv => Doc!DoctorIsRight /\ Doc!SchemaFits
  BY DoctorSays
<1>4. QED
  BY <1>1, <1>2, <1>3, PTL DEF Doc!Spec

-----------------------------------------------------------------------------
(* Folds over finite sets.                                                     *)

\* What a fold over a set makes of each part of it, whichever member it takes first.
SetFolds(h, d, base, g, first) ==
    \A s \in SUBSET d :
        h[s] = IF s = {} THEN base ELSE g[<<first[s], h[s \ {first[s]}]>>]

LEMMA PartsOfFinite ==
  ASSUME NEW d, IsFiniteSet(d), NEW s \in SUBSET d
  PROVE  /\ IsFiniteSet(s) /\ Cardinality(s) \in 0..Cardinality(d)
         /\ (Cardinality(s) = 0) <=> (s = {})
         /\ \A x \in s : Cardinality(s \ {x}) = Cardinality(s) - 1
<1>1. IsFiniteSet(s) /\ Cardinality(s) <= Cardinality(d)
  BY FS_Subset
<1>2. Cardinality(s) \in Nat /\ Cardinality(d) \in Nat
  BY <1>1, FS_CardinalityType
<1>3. (Cardinality(s) = 0) <=> (s = {})
  BY <1>1, FS_EmptySet
<1>4. \A x \in s : Cardinality(s \ {x}) = Cardinality(s) - 1
  BY <1>1, FS_RemoveElement
<1>5. QED
  BY <1>1, <1>2, <1>3, <1>4

LEMMA SetFolding ==
  ASSUME NEW d, IsFiniteSet(d), NEW r, NEW base \in r, NEW g \in [d \X r -> r], NEW first,
         \A s \in SUBSET d : s # {} => first[s] \in s
  PROVE  \E h \in [SUBSET d -> r] : SetFolds(h, d, base, g, first)
<1> DEFINE n == Cardinality(d)
           Upto(k) == {s \in SUBSET d : Cardinality(s) <= k}
           Does(k, h) == /\ h \in [SUBSET d -> r]
                         /\ \A s \in Upto(k) :
                               h[s] = IF s = {} THEN base ELSE g[<<first[s], h[s \ {first[s]}]>>]
           done == {k \in 0..n : \E h : Does(k, h)}
<1>1. n \in Nat
  BY FS_CardinalityType
<1>2. 0 \in done
  <2> DEFINE h0 == [s \in SUBSET d |-> base]
  <2>1. \A s \in Upto(0) : s = {}
    BY PartsOfFinite
  <2>2. Does(0, h0)
    BY <2>1
  <2>3. 0 \in 0..n
    BY <1>1
  <2>4. QED
    <3> HIDE DEF Does, h0, n
    <3>1. QED
      BY <2>2, <2>3
<1>3. ASSUME NEW k \in 1..n, k - 1 \in done PROVE k \in done
  <2>1. PICK h : Does(k - 1, h)
    BY <1>3
  <2> DEFINE h2 == [s \in SUBSET d |->
                      IF Cardinality(s) = k THEN g[<<first[s], h[s \ {first[s]}]>>] ELSE h[s]]
  <2>2. ASSUME NEW s \in SUBSET d, s # {}
        PROVE  /\ first[s] \in d /\ s \ {first[s]} \in SUBSET d
               /\ h[s \ {first[s]}] \in r
               /\ Cardinality(s \ {first[s]}) = Cardinality(s) - 1 /\ Cardinality(s) \in 0..n
    BY <2>1, <2>2, PartsOfFinite
  <2>3. h2 \in [SUBSET d -> r]
    <3>1. ASSUME NEW s \in SUBSET d PROVE h2[s] \in r
      <4>1. CASE Cardinality(s) = k
        <5>1. s # {}
          BY <4>1, PartsOfFinite
        <5>2. <<first[s], h[s \ {first[s]}]>> \in d \X r
          BY <2>2, <5>1
        <5>3. QED
          BY <4>1, <5>2
      <4>2. CASE Cardinality(s) # k
        BY <2>1, <4>2
      <4>3. QED
        BY <4>1, <4>2
    <3>2. QED
      BY <3>1
  <2>4. ASSUME NEW s \in Upto(k)
        PROVE  h2[s] = IF s = {} THEN base ELSE g[<<first[s], h2[s \ {first[s]}]>>]
    <3>1. CASE s = {}
      <4>1. Cardinality(s) = 0 /\ {} \in Upto(k - 1)
        BY <3>1, PartsOfFinite
      <4>2. QED
        BY <2>1, <3>1, <4>1
    <3>2. CASE s # {}
      <4>1. /\ s \ {first[s]} \in SUBSET d /\ Cardinality(s \ {first[s]}) = Cardinality(s) - 1
            /\ Cardinality(s) \in 0..n /\ Cardinality(s) <= k
        BY <2>2, <3>2
      <4>2. h2[s \ {first[s]}] = h[s \ {first[s]}]
        BY <4>1
      <4>3. CASE Cardinality(s) = k
        BY <3>2, <4>2, <4>3
      <4>4. CASE Cardinality(s) # k
        <5>1. s \in Upto(k - 1)
          BY <4>1, <4>4
        <5>2. QED
          BY <2>1, <3>2, <4>2, <4>4, <5>1
      <4>5. QED
        BY <4>3, <4>4
    <3>3. QED
      BY <3>1, <3>2
  <2>5. Does(k, h2)
    BY <2>3, <2>4
  <2>6. k \in 0..n
    OBVIOUS
  <2>7. QED
    <3> HIDE DEF Does, h2
    <3>1. QED
      BY <2>5, <2>6
<1>4. n \in done
  <2> HIDE DEF done
  <2>1. \A k \in 1..n : k - 1 \in done => k \in done
    BY <1>3
  <2>2. \A k \in 0..n : k \in done
    BY <1>1, <1>2, <2>1, Counting
  <2>3. QED
    BY <1>1, <2>2
<1>5. PICK h : Does(n, h)
  BY <1>4
<1>6. \A s \in SUBSET d : s \in Upto(n)
  BY PartsOfFinite
<1>7. QED
  BY <1>5, <1>6 DEF SetFolds

\* What holds of nothing and of the base, and goes on holding when one more is taken, holds of all.
LEMMA SetFoldKeeps ==
  ASSUME NEW d, IsFiniteSet(d), NEW keeps, NEW h,
         <<{}, h[{}]>> \in keeps,
         \A s \in SUBSET d : s # {} =>
            \E x \in s : <<s \ {x}, h[s \ {x}]>> \in keeps => <<s, h[s]>> \in keeps
  PROVE  <<d, h[d]>> \in keeps
<1> DEFINE n == Cardinality(d)
           done == {k \in 0..n : \A s \in SUBSET d : Cardinality(s) = k => <<s, h[s]>> \in keeps}
<1>1. n \in Nat
  BY FS_CardinalityType
<1>2. 0 \in done
  <2>1. ASSUME NEW s \in SUBSET d, Cardinality(s) = 0 PROVE <<s, h[s]>> \in keeps
    <3>1. s = {}
      BY <2>1, PartsOfFinite
    <3>2. QED
      BY <3>1
  <2>2. 0 \in 0..n
    BY <1>1
  <2>3. QED
    BY <2>1, <2>2
<1>3. ASSUME NEW k \in 1..n, k - 1 \in done PROVE k \in done
  <2>1. ASSUME NEW s \in SUBSET d, Cardinality(s) = k PROVE <<s, h[s]>> \in keeps
    <3>1. s # {}
      BY <2>1, PartsOfFinite
    <3>2. PICK x \in s : <<s \ {x}, h[s \ {x}]>> \in keeps => <<s, h[s]>> \in keeps
      BY <3>1
    <3>3. s \ {x} \in SUBSET d /\ Cardinality(s \ {x}) = k - 1
      BY <2>1, PartsOfFinite
    <3>4. QED
      BY <1>3, <3>2, <3>3
  <2>2. QED
    BY <2>1
<1>4. n \in done
  <2> HIDE DEF done
  <2>1. \A k \in 1..n : k - 1 \in done => k \in done
    BY <1>3
  <2>2. \A k \in 0..n : k \in done
    BY <1>1, <1>2, <2>1, Counting
  <2>3. QED
    BY <1>1, <2>2
<1>5. QED
  BY <1>4

-----------------------------------------------------------------------------
(* Who is let in.                                                              *)

GateNumbers == IsFiniteSet(Clients) /\ Refused \subseteq Addresses /\ "none" \notin Addresses

Fates == {"in", "proxy", "list", "network", "country", "barred"}
Outs == [Clients -> Fates]
Happenings == [type : {"seen", "left", "placed"}, who : Clients, at : Door!Places]
              \cup {Door!BansChanged}

GateTypes ==
    /\ here \subseteq Clients /\ gone \subseteq Clients /\ here \cap gone = {}
    /\ returned \subseteq Clients
    /\ addr \in [Clients -> Door!Places] /\ checked \in [Clients -> Door!Places]
    /\ vetted \in [Clients -> Door!Places] /\ located \in [Clients -> Door!Places]
    /\ queue \in Seq(Happenings)
    /\ asking \subseteq [who : Clients, at : Addresses]
    /\ lookups \in [Addresses -> {"unknown", "clean", "flagged"}]
    /\ asked \in [Addresses -> [times : Nat, failed : Nat]]
    /\ out \in Outs

\* The events that are not handled yet.
Noted(q) == {q[i] : i \in 1..Len(q)}

\* Whom they and the questions are about was here, and nobody shares a slot.
WhoIsWho ==
    /\ \A e \in Noted(queue) :
          /\ e.type \in {"seen", "placed"} => e.who \in here \cup gone
          /\ e.type = "left" => e.who \in gone
    /\ \A t \in asking : t.who \in here \cup gone
    /\ \A p \in here, q \in here : Slot[p] = Slot[q] => p = q
    /\ authed \subseteq here \cup gone
    /\ \A c \in Clients :
          c \notin here \cup gone => checked[c] = "none" /\ vetted[c] = "none" /\ located[c] = "none"

\* A question for each address while it is unknown, and one for every failure.
AskedRight(a) ==
    /\ asked[a].times <= asked[a].failed + 1
    /\ lookups[a] = "unknown" /\ (\A t \in asking : t.at # a) => asked[a].times <= asked[a].failed
    /\ lookups[a] = "flagged" => a \in Proxies
    /\ lookups[a] # "unknown" => \A t \in asking : t.at # a

\* Whoever is here is checked, or what has them checked is still to come.
Followed(c) ==
    c \in authed /\ addr[c] # "none" =>
        /\ checked[c] = addr[c] \/ Door!Seen(c) \in Noted(queue)
        /\ \/ vetted[c] = addr[c] \/ Door!Seen(c) \in Noted(queue)
           \/ \E t \in asking : t.who = c

OffTheList(c) ==
    c \notin returned /\ out[c] = "in" /\ addr[c] # "none" /\ vetted[c] = addr[c]
    /\ addr[c] \in entries /\ c \notin Immune \cap authed => fetching

OffTheNetworks(c) == out[c] = "in" /\ vetted[c] # "none" /\ vetted[c] \in Blocked => Door!Exempt(c)

FromElsewhere(c) ==
    out[c] = "in" /\ located[c] \in Refused /\ ~Door!Exempt(c) =>
        Door!Placed(c, located[c]) \in Noted(queue)

NoProxy(c) ==
    c \notin returned /\ addr[c] # "none" /\ checked[c] = addr[c] /\ ~Door!Exempt(c)
    /\ asked[addr[c]].failed = 0 =>
        /\ lookups[addr[c]] = "unknown" => [who |-> c, at |-> addr[c]] \in asking
        /\ lookups[addr[c]] = "flagged" => out[c] # "in"

Personal(c) == Followed(c) /\ OffTheList(c) /\ OffTheNetworks(c) /\ FromElsewhere(c) /\ NoProxy(c)

GateInv ==
    /\ GateTypes /\ WhoIsWho
    /\ \A a \in Addresses : AskedRight(a)
    /\ Door!BansAreSeen
    /\ \A c \in here : Personal(c)

\* What the events of a queue are when one is taken or put.
LEMMA NotedTail ==
  ASSUME NEW h, NEW q \in Seq(h), q # <<>>
  PROVE  /\ Tail(q) \in Seq(h) /\ q[1] \in h /\ q[1] \in Noted(q)
         /\ Noted(Tail(q)) \subseteq Noted(q) /\ Noted(q) \subseteq Noted(Tail(q)) \cup {q[1]}
<1>1. /\ Len(q) \in Nat \ {0} /\ Tail(q) \in Seq(h) /\ Len(Tail(q)) = Len(q) - 1
      /\ \A i \in 1..Len(Tail(q)) : Tail(q)[i] = q[i + 1]
  BY EmptySeq, HeadTailProperties
<1>2. 1 \in 1..Len(q) /\ q[1] \in h
  BY <1>1
<1>3. ASSUME NEW i \in 1..Len(Tail(q)) PROVE Tail(q)[i] \in Noted(q)
  <2>1. i + 1 \in 1..Len(q)
    BY <1>1
  <2>2. QED
    BY <1>1, <2>1 DEF Noted
<1>4. ASSUME NEW i \in 1..Len(q), i # 1 PROVE q[i] \in Noted(Tail(q))
  <2>1. i - 1 \in 1..Len(Tail(q)) /\ (i - 1) + 1 = i
    BY <1>1, <1>4
  <2>2. QED
    BY <1>1, <2>1 DEF Noted
<1>5. QED
  BY <1>1, <1>2, <1>3, <1>4 DEF Noted

LEMMA NotedMore ==
  ASSUME NEW h, NEW q \in Seq(h), NEW e \in h
  PROVE  Append(q, e) \in Seq(h) /\ Noted(Append(q, e)) = Noted(q) \cup {e}
<1>1. /\ Len(q) \in Nat /\ Append(q, e) \in Seq(h) /\ Len(Append(q, e)) = Len(q) + 1
      /\ \A i \in 1..Len(q) : Append(q, e)[i] = q[i]
      /\ Append(q, e)[Len(q) + 1] = e
  BY AppendProperties
<1>2. ASSUME NEW i \in 1..(Len(q) + 1) PROVE i \in 1..Len(q) \/ i = Len(q) + 1
  BY <1>1
<1>3. Noted(Append(q, e)) \subseteq Noted(q) \cup {e}
  BY <1>1, <1>2 DEF Noted
<1>4. Len(q) + 1 \in 1..(Len(q) + 1) /\ 1..Len(q) \subseteq 1..(Len(q) + 1)
  BY <1>1
<1>5. Noted(q) \cup {e} \subseteq Noted(Append(q, e))
  BY <1>1, <1>4 DEF Noted
<1>6. QED
  BY <1>1, <1>3, <1>5

LEMMA NotedBoth ==
  ASSUME NEW h, NEW q \in Seq(h), NEW r \in Seq(h)
  PROVE  q \o r \in Seq(h) /\ Noted(q \o r) = Noted(q) \cup Noted(r)
<1>1. /\ Len(q) \in Nat /\ Len(r) \in Nat /\ q \o r \in Seq(h) /\ Len(q \o r) = Len(q) + Len(r)
      /\ \A i \in 1..(Len(q) + Len(r)) : (q \o r)[i] = IF i <= Len(q) THEN q[i] ELSE r[i - Len(q)]
  BY ConcatProperties
<1>2. ASSUME NEW i \in 1..(Len(q) + Len(r)) PROVE (q \o r)[i] \in Noted(q) \cup Noted(r)
  <2>1. CASE i <= Len(q)
    <3>1. i \in 1..Len(q)
      BY <1>1, <2>1
    <3>2. QED
      BY <1>1, <2>1, <3>1 DEF Noted
  <2>2. CASE ~(i <= Len(q))
    <3>1. i - Len(q) \in 1..Len(r)
      BY <1>1, <2>2
    <3>2. QED
      BY <1>1, <2>2, <3>1 DEF Noted
  <2>3. QED
    BY <2>1, <2>2
<1>3. ASSUME NEW i \in 1..Len(q) PROVE q[i] \in Noted(q \o r)
  <2>1. i \in 1..(Len(q) + Len(r)) /\ i <= Len(q)
    BY <1>1
  <2>2. QED
    BY <1>1, <2>1 DEF Noted
<1>4. ASSUME NEW i \in 1..Len(r) PROVE r[i] \in Noted(q \o r)
  <2>1. /\ Len(q) + i \in 1..(Len(q) + Len(r)) /\ ~(Len(q) + i <= Len(q))
        /\ (Len(q) + i) - Len(q) = i
    BY <1>1
  <2>2. QED
    BY <1>1, <2>1 DEF Noted
<1>5. QED
  BY <1>1, <1>2, <1>3, <1>4 DEF Noted

LEMMA NotedOne == ASSUME NEW h, NEW e \in h PROVE <<e>> \in Seq(h) /\ Noted(<<e>>) = {e}
<1>1. <<e>> \in Seq(h) /\ Len(<<e>>) = 1 /\ <<e>>[1] = e
  OBVIOUS
<1>2. QED
  BY <1>1 DEF Noted

LEMMA NotedNone == ASSUME NEW h PROVE <<>> \in Seq(h) /\ Noted(<<>>) = {}
  BY DEF Noted

\* Who is put out by a kick, and why.
Blamed(p, why) ==
    \E c \in here \cup gone : Slot[c] = Slot[p] /\ Door!Cause(c, why) /\ (why = "proxy" => c = p)
Moved(o, r) == \A p \in Clients : r[p] # o[p] => o[p] = "in" /\ p \in here /\ Blamed(p, r[p])

LEMMA KickMoves ==
  ASSUME WhoIsWho, here \subseteq Clients, NEW c \in here \cup gone, NEW o \in Outs,
         NEW why \in Fates \ {"in"}, Door!Cause(c, why), why = "proxy" => c \in here
  PROVE  /\ Door!Kick(c, why, o) \in Outs /\ Moved(o, Door!Kick(c, why, o))
         /\ c \in here => Door!Kick(c, why, o)[c] # "in"
<1>1. Door!Kick(c, why, o) \in Outs
  BY DEF Door!Kick, Outs, Fates
<1>2. ASSUME NEW p \in Clients, Door!Kick(c, why, o)[p] # o[p]
      PROVE  p \in here /\ Slot[p] = Slot[c] /\ o[p] = "in" /\ Door!Kick(c, why, o)[p] = why
  BY <1>2 DEF Door!Kick
<1>3. ASSUME NEW p \in Clients, Door!Kick(c, why, o)[p] # o[p]
      PROVE  o[p] = "in" /\ p \in here /\ Blamed(p, Door!Kick(c, why, o)[p])
  <2>1. why = "proxy" => c = p
    <3>1. p \in here /\ Slot[p] = Slot[c]
      BY <1>2, <1>3
    <3>2. \A x \in here, y \in here : Slot[x] = Slot[y] => x = y
      BY DEF WhoIsWho
    <3>3. QED
      BY <3>1, <3>2
  <2>2. Blamed(p, why)
    BY <1>2, <1>3, <2>1 DEF Blamed
  <2>3. QED
    BY <1>2, <1>3, <2>2
<1>4. c \in here => Door!Kick(c, why, o)[c] # "in"
  BY DEF Door!Kick, Fates
<1>5. QED
  BY <1>1, <1>3, <1>4 DEF Moved

LEMMA MovedOn ==
  ASSUME NEW o \in Outs, NEW r \in Outs, NEW s \in Outs, Moved(o, r), Moved(r, s)
  PROVE  Moved(o, s) /\ \A p \in Clients : s[p] = "in" => r[p] = "in"
<1>1. ASSUME NEW p \in Clients, s[p] # o[p] PROVE o[p] = "in" /\ p \in here /\ Blamed(p, s[p])
  <2>1. CASE r[p] = o[p]
    BY <1>1, <2>1 DEF Moved
  <2>2. CASE r[p] # o[p] /\ s[p] = r[p]
    BY <2>2 DEF Moved
  <2>3. CASE r[p] # o[p] /\ s[p] # r[p]
    <3>1. r[p] = "in" /\ o[p] = "in"
      BY <2>3 DEF Moved
    <3>2. QED
      BY <2>3, <3>1
  <2>4. QED
    BY <2>1, <2>2, <2>3
<1>2. ASSUME NEW p \in Clients, s[p] = "in" PROVE r[p] = "in"
  BY <1>2 DEF Moved
<1>3. QED
  BY <1>1, <1>2 DEF Moved

LEMMA MovedNot == ASSUME NEW o PROVE Moved(o, o)
  BY DEF Moved

\* What is true of someone once an event of theirs was handled to its end.
Handled(c, a, flagged) ==
    /\ ~(flagged /\ addr[c] = a)
    /\ vetted[c] = addr[c] \/ addr[c] \notin entries \/ c \in Immune \cap authed
    /\ addr[c] \notin Blocked \/ Door!Exempt(c)

LEMMA JudgeOne ==
  ASSUME GateTypes, WhoIsWho, NEW c \in here \cup gone, NEW o \in Outs, NEW a, NEW flagged \in BOOLEAN,
         flagged => a \in Proxies
  PROVE  /\ Door!Judge(c, a, flagged, o) \in Outs /\ Moved(o, Door!Judge(c, a, flagged, o))
         /\ c \in here /\ Door!Judge(c, a, flagged, o)[c] = "in" => Handled(c, a, flagged)
<1> DEFINE o1 == IF flagged THEN Door!Act(c, a, o) ELSE o
           o2 == Door!OnAuth(c, o1)
           o3 == Door!NetBlock(c, o2)
<1>1. here \subseteq Clients /\ c \in Clients
  BY DEF GateTypes
<1>2. o1 \in Outs /\ Moved(o, o1) /\ (c \in here /\ o1[c] = "in" => ~(flagged /\ addr[c] = a))
  <2>1. CASE flagged /\ Door!StillThere(c, a)
    <3>1. Door!Cause(c, "proxy") /\ o1 = Door!Kick(c, "proxy", o) /\ c \in here
      BY <2>1 DEF Door!Cause, Door!StillThere, Door!Act
    <3>2. QED
      BY <1>1, <3>1, KickMoves DEF Fates
  <2>2. CASE ~(flagged /\ Door!StillThere(c, a))
    <3>1. o1 = o
      BY <2>2 DEF Door!Act
    <3>2. QED
      BY <2>2, <3>1, MovedNot DEF Door!StillThere
  <2>3. QED
    BY <2>1, <2>2
<1>3. /\ o2 \in Outs /\ Moved(o1, o2)
      /\ c \in here /\ o2[c] = "in" =>
            vetted[c] = addr[c] \/ addr[c] \notin entries \/ c \in Immune \cap authed
  <2> HIDE DEF o1
  <2>1. CASE vetted[c] # addr[c] /\ addr[c] \in entries /\ c \notin Immune \cap authed
    <3>1. Door!Cause(c, "list") /\ o2 = Door!Kick(c, "list", o1)
      BY <2>1 DEF Door!Cause, Door!OnAuth, Door!Check
    <3>2. QED
      BY <1>1, <1>2, <3>1, KickMoves DEF Fates
  <2>2. CASE ~(vetted[c] # addr[c] /\ addr[c] \in entries /\ c \notin Immune \cap authed)
    <3>1. o2 = o1
      BY <2>2 DEF Door!OnAuth, Door!Check
    <3>2. QED
      BY <1>2, <2>2, <3>1, MovedNot
  <2>3. QED
    BY <2>1, <2>2
<1>4. /\ o3 \in Outs /\ Moved(o2, o3)
      /\ c \in here /\ o3[c] = "in" => addr[c] \notin Blocked \/ Door!Exempt(c)
  <2> HIDE DEF o2
  <2>1. CASE addr[c] \in Blocked /\ ~Door!Exempt(c)
    <3>1. Door!Cause(c, "network") /\ o3 = Door!Kick(c, "network", o2)
      BY <2>1 DEF Door!Cause, Door!NetBlock
    <3>2. QED
      BY <1>1, <1>3, <3>1, KickMoves DEF Fates
  <2>2. CASE ~(addr[c] \in Blocked /\ ~Door!Exempt(c))
    <3>1. o3 = o2
      BY <2>2 DEF Door!NetBlock
    <3>2. QED
      BY <1>3, <2>2, <3>1, MovedNot
  <2>3. QED
    BY <2>1, <2>2
<1>5. Door!Judge(c, a, flagged, o) = o3
  BY DEF Door!Judge, Door!Rest
<1> HIDE DEF o1, o2, o3
<1>6. Moved(o, o2) /\ \A p \in Clients : o2[p] = "in" => o1[p] = "in"
  BY <1>2, <1>3, MovedOn
<1>7. Moved(o, o3) /\ \A p \in Clients : o3[p] = "in" => o2[p] = "in"
  BY <1>2, <1>3, <1>4, <1>6, MovedOn
<1>8. QED
  BY <1>1, <1>2, <1>3, <1>4, <1>5, <1>6, <1>7 DEF Handled

JudgeAll(a, flagged, mine) ==
    Door!FoldSet(LAMBDA c, o : Door!Judge(c, a, flagged, o), out, mine)

\* The same of everyone whose event waited for one answer, in whatever order they go on.
LEMMA JudgeMany ==
  ASSUME GateNumbers, GateTypes, WhoIsWho, NEW a, NEW flagged \in BOOLEAN, flagged => a \in Proxies,
         NEW mine \in SUBSET (here \cup gone)
  PROVE  /\ JudgeAll(a, flagged, mine) \in Outs /\ Moved(out, JudgeAll(a, flagged, mine))
         /\ \A c \in mine \cap here :
               JudgeAll(a, flagged, mine)[c] = "in" => Handled(c, a, flagged)
<1> DEFINE first == [s \in SUBSET mine |-> CHOOSE x \in s : TRUE]
           g == [x \in mine \X Outs |-> Door!Judge(x[1], a, flagged, x[2])]
           IsFold(f) == f = [s \in SUBSET mine |->
                       IF s = {} THEN out
                       ELSE Door!Judge(CHOOSE x \in s : TRUE, a, flagged,
                                       f[s \ {CHOOSE x \in s : TRUE}])]
<1>1. mine \subseteq Clients /\ IsFiniteSet(mine) /\ out \in Outs
  <2>1. mine \subseteq Clients /\ out \in Outs
    BY DEF GateTypes
  <2>2. IsFiniteSet(Clients)
    BY DEF GateNumbers
  <2>3. QED
    BY ONLY <2>1, <2>2, FS_Subset
<1>2. g \in [mine \X Outs -> Outs]
  <2>1. \A x \in mine \X Outs : Door!Judge(x[1], a, flagged, x[2]) \in Outs
    BY JudgeOne
  <2>2. QED
    BY <2>1
<1>3. \A s \in SUBSET mine : s # {} => first[s] \in s
  OBVIOUS
<1>4. PICK h \in [SUBSET mine -> Outs] : SetFolds(h, mine, out, g, first)
  <2> HIDE DEF g, first
  <2>1. QED
    BY <1>1, <1>2, <1>3, SetFolding
<1>5. ASSUME NEW s \in SUBSET mine
      PROVE  h[s] = IF s = {} THEN out
                    ELSE Door!Judge(CHOOSE x \in s : TRUE, a, flagged,
                                    h[s \ {CHOOSE x \in s : TRUE}])
  <2>1. CASE s = {}
    BY <1>4, <2>1 DEF SetFolds
  <2>2. CASE s # {}
    <3>1. <<first[s], h[s \ {first[s]}]>> \in mine \X Outs
      BY <1>3, <1>4, <2>2
    <3>2. h[s] = g[<<first[s], h[s \ {first[s]}]>>]
      BY <1>4, <2>2 DEF SetFolds
    <3>3. QED
      BY <2>2, <3>1, <3>2
  <2>3. QED
    BY <2>1, <2>2
<1>6. IsFold(h)
  <2>1. h = [s \in SUBSET mine |-> h[s]]
    BY <1>4
  <2>2. [s \in SUBSET mine |-> h[s]] = [s \in SUBSET mine |->
                       IF s = {} THEN out
                       ELSE Door!Judge(CHOOSE x \in s : TRUE, a, flagged,
                                       h[s \ {CHOOSE x \in s : TRUE}])]
    BY <1>5
  <2>3. QED
    BY <2>1, <2>2
<1>7. JudgeAll(a, flagged, mine) = (CHOOSE f : IsFold(f))[mine]
  BY Zenon DEF JudgeAll, Door!FoldSet, Door!MapThenFoldSet
<1>8. PICK f : IsFold(f) /\ JudgeAll(a, flagged, mine) = f[mine]
  BY <1>6, <1>7
<1> DEFINE keeps == {y \in (SUBSET mine) \X Outs :
                       Moved(out, y[2]) /\ \A c \in y[1] \cap here :
                          y[2][c] = "in" => Handled(c, a, flagged)}
<1>9. f[{}] = out
  BY <1>8
<1>10. <<{}, f[{}]>> \in keeps
  BY <1>1, <1>9, MovedNot
<1>11. ASSUME NEW s \in SUBSET mine, s # {}
       PROVE  \E x \in s : <<s \ {x}, f[s \ {x}]>> \in keeps => <<s, f[s]>> \in keeps
  <2>1. PICK x \in s : f[s] = Door!Judge(x, a, flagged, f[s \ {x}])
    BY <1>8, <1>11
  <2>2. SUFFICES ASSUME <<s \ {x}, f[s \ {x}]>> \in keeps PROVE <<s, f[s]>> \in keeps
    BY <2>1
  <2>3. /\ f[s \ {x}] \in Outs /\ Moved(out, f[s \ {x}])
        /\ \A c \in (s \ {x}) \cap here : f[s \ {x}][c] = "in" => Handled(c, a, flagged)
    BY <2>2
  <2>4. /\ f[s] \in Outs /\ Moved(f[s \ {x}], f[s])
        /\ x \in here /\ f[s][x] = "in" => Handled(x, a, flagged)
    <3> HIDE DEF keeps, IsFold
    <3>1. QED
      BY <2>1, <2>3, JudgeOne
  <2>5. Moved(out, f[s]) /\ \A p \in Clients : f[s][p] = "in" => f[s \ {x}][p] = "in"
    <3> HIDE DEF keeps, IsFold
    <3>1. QED
      BY <1>1, <2>3, <2>4, MovedOn
  <2>6. ASSUME NEW c \in s \cap here, f[s][c] = "in" PROVE Handled(c, a, flagged)
    BY <1>1, <2>3, <2>4, <2>5, <2>6
  <2>7. QED
    BY <2>4, <2>5, <2>6
<1>12. <<mine, f[mine]>> \in keeps
  <2> HIDE DEF keeps, IsFold
  <2>1. QED
    BY <1>1, <1>10, <1>11, SetFoldKeeps
<1>13. QED
  BY <1>8, <1>12

\* A refresh has everyone looked at again.
LEMMA CheckAll ==
  ASSUME GateNumbers, GateTypes, WhoIsWho
  PROVE  /\ Door!CheckEverybody \in Outs /\ Moved(out, Door!CheckEverybody)
         /\ \A c \in here : Door!CheckEverybody[c] = "in" =>
               addr[c] \notin entries \/ c \in Immune \cap authed
<1> DEFINE first == [s \in SUBSET here |-> CHOOSE x \in s : TRUE]
           g == [x \in here \X Outs |-> Door!Check(x[1], x[2])]
           IsFold(f) == f = [s \in SUBSET here |->
                       IF s = {} THEN out
                       ELSE Door!Check(CHOOSE x \in s : TRUE, f[s \ {CHOOSE x \in s : TRUE}])]
<1>1. here \subseteq Clients /\ IsFiniteSet(here) /\ out \in Outs
  <2>1. here \subseteq Clients /\ out \in Outs
    BY DEF GateTypes
  <2>2. IsFiniteSet(Clients)
    BY DEF GateNumbers
  <2>3. QED
    BY ONLY <2>1, <2>2, FS_Subset
<1>2. ASSUME NEW c \in here, NEW o \in Outs
      PROVE  /\ Door!Check(c, o) \in Outs /\ Moved(o, Door!Check(c, o))
             /\ Door!Check(c, o)[c] = "in" => addr[c] \notin entries \/ c \in Immune \cap authed
  <2>1. CASE addr[c] \in entries /\ c \notin Immune \cap authed
    <3>1. Door!Cause(c, "list") /\ Door!Check(c, o) = Door!Kick(c, "list", o)
      BY <2>1 DEF Door!Cause, Door!Check
    <3>2. QED
      BY <1>1, <3>1, KickMoves DEF Fates
  <2>2. CASE ~(addr[c] \in entries /\ c \notin Immune \cap authed)
    BY <2>2, MovedNot DEF Door!Check
  <2>3. QED
    BY <2>1, <2>2
<1>3. g \in [here \X Outs -> Outs]
  <2>1. \A x \in here \X Outs : Door!Check(x[1], x[2]) \in Outs
    BY <1>2
  <2>2. QED
    BY <2>1
<1>4. \A s \in SUBSET here : s # {} => first[s] \in s
  OBVIOUS
<1>5. PICK h \in [SUBSET here -> Outs] : SetFolds(h, here, out, g, first)
  <2> HIDE DEF g, first
  <2>1. QED
    BY <1>1, <1>3, <1>4, SetFolding
<1>6. ASSUME NEW s \in SUBSET here
      PROVE  h[s] = IF s = {} THEN out
                    ELSE Door!Check(CHOOSE x \in s : TRUE, h[s \ {CHOOSE x \in s : TRUE}])
  <2>1. CASE s = {}
    BY <1>5, <2>1 DEF SetFolds
  <2>2. CASE s # {}
    <3>1. <<first[s], h[s \ {first[s]}]>> \in here \X Outs
      BY <1>4, <1>5, <2>2
    <3>2. h[s] = g[<<first[s], h[s \ {first[s]}]>>]
      BY <1>5, <2>2 DEF SetFolds
    <3>3. QED
      BY <2>2, <3>1, <3>2
  <2>3. QED
    BY <2>1, <2>2
<1>7. IsFold(h)
  <2>1. h = [s \in SUBSET here |-> h[s]]
    BY <1>5
  <2>2. [s \in SUBSET here |-> h[s]] = [s \in SUBSET here |->
                       IF s = {} THEN out
                       ELSE Door!Check(CHOOSE x \in s : TRUE, h[s \ {CHOOSE x \in s : TRUE}])]
    BY <1>6
  <2>3. QED
    BY <2>1, <2>2
<1>8. Door!CheckEverybody = (CHOOSE f : IsFold(f))[here]
  BY Zenon DEF Door!CheckEverybody, Door!FoldSet, Door!MapThenFoldSet
<1>9. PICK f : IsFold(f) /\ Door!CheckEverybody = f[here]
  BY <1>7, <1>8
<1> DEFINE keeps == {y \in (SUBSET here) \X Outs :
                       Moved(out, y[2]) /\ \A c \in y[1] : y[2][c] = "in" =>
                          addr[c] \notin entries \/ c \in Immune \cap authed}
<1>10. f[{}] = out
  BY <1>9
<1>11. <<{}, f[{}]>> \in keeps
  BY <1>1, <1>10, MovedNot
<1>12. ASSUME NEW s \in SUBSET here, s # {}
       PROVE  \E x \in s : <<s \ {x}, f[s \ {x}]>> \in keeps => <<s, f[s]>> \in keeps
  <2>1. PICK x \in s : f[s] = Door!Check(x, f[s \ {x}])
    BY <1>9, <1>12
  <2>2. SUFFICES ASSUME <<s \ {x}, f[s \ {x}]>> \in keeps PROVE <<s, f[s]>> \in keeps
    BY <2>1
  <2>3. /\ f[s \ {x}] \in Outs /\ Moved(out, f[s \ {x}])
        /\ \A c \in s \ {x} : f[s \ {x}][c] = "in" =>
              addr[c] \notin entries \/ c \in Immune \cap authed
    BY <2>2
  <2>4. /\ f[s] \in Outs /\ Moved(f[s \ {x}], f[s])
        /\ f[s][x] = "in" => addr[x] \notin entries \/ x \in Immune \cap authed
    <3> HIDE DEF keeps, IsFold
    <3>1. QED
      BY <1>2, <2>1, <2>3
  <2>5. Moved(out, f[s]) /\ \A p \in Clients : f[s][p] = "in" => f[s \ {x}][p] = "in"
    <3> HIDE DEF keeps, IsFold
    <3>1. QED
      BY <1>1, <2>3, <2>4, MovedOn
  <2>6. ASSUME NEW c \in s, f[s][c] = "in"
        PROVE  addr[c] \notin entries \/ c \in Immune \cap authed
    BY <1>1, <2>3, <2>4, <2>5, <2>6
  <2>7. QED
    BY <2>4, <2>5, <2>6
<1>13. <<here, f[here]>> \in keeps
  <2> HIDE DEF keeps, IsFold
  <2>1. QED
    BY <1>1, <1>11, <1>12, SetFoldKeeps
<1>14. QED
  BY <1>9, <1>13

\* A step that leaves someone as they were, but for being put out.
LeftAlone(c) ==
    /\ addr'[c] = addr[c] /\ vetted'[c] = vetted[c]
    /\ out'[c] = "in" => out[c] = "in"
    /\ c \in authed' <=> c \in authed
    /\ c \in returned => c \in returned'

LEMMA StaysFollowed ==
  ASSUME NEW c, LeftAlone(c), Followed(c), checked'[c] = checked[c],
         Door!Seen(c) \in Noted(queue) => Door!Seen(c) \in Noted(queue'),
         \A t \in asking : t.who = c => t \in asking'
  PROVE  Followed(c)'
  BY DEF LeftAlone, Followed, Door!Seen

LEMMA StaysOffTheList ==
  ASSUME NEW c, LeftAlone(c), OffTheList(c), entries' = entries, fetching => fetching'
  PROVE  OffTheList(c)'
  BY DEF LeftAlone, OffTheList

LEMMA StaysOffTheNetworks ==
  ASSUME NEW c, LeftAlone(c), OffTheNetworks(c)
  PROVE  OffTheNetworks(c)'
  BY DEF LeftAlone, OffTheNetworks, Door!Exempt

LEMMA StaysPlaced ==
  ASSUME NEW c, LeftAlone(c), FromElsewhere(c), located'[c] = located[c],
         \A a : Door!Placed(c, a) \in Noted(queue) => Door!Placed(c, a) \in Noted(queue')
  PROVE  FromElsewhere(c)'
  BY DEF LeftAlone, FromElsewhere, Door!Placed, Door!Exempt

LEMMA StaysNoProxy ==
  ASSUME NEW c, LeftAlone(c), NoProxy(c), checked'[c] = checked[c],
         lookups' = lookups, asked'[addr[c]].failed = asked[addr[c]].failed,
         \A t \in asking : t.who = c => t \in asking'
  PROVE  NoProxy(c)'
  BY DEF LeftAlone, NoProxy, Door!Exempt

\* And whoever is not spoken of by a step is as they were.
Unmoved(c) ==
    /\ LeftAlone(c) /\ checked'[c] = checked[c] /\ located'[c] = located[c]
    /\ \A e \in Noted(queue) : e.who = c /\ e.type \in {"seen", "placed"} => e \in Noted(queue')
    /\ \A t \in asking : t.who = c => t \in asking'
Unchanging ==
    /\ entries' = entries /\ (fetching => fetching') /\ lookups' = lookups
    /\ \A a : asked'[a].failed = asked[a].failed

LEMMA PersonStays == ASSUME NEW c, Personal(c), Unmoved(c), Unchanging PROVE Personal(c)'
<1>1. Followed(c)'
  BY StaysFollowed DEF Personal, Unmoved, Door!Seen
<1>2. OffTheList(c)'
  BY StaysOffTheList DEF Personal, Unmoved, Unchanging
<1>3. OffTheNetworks(c)'
  BY StaysOffTheNetworks DEF Personal, Unmoved
<1>4. FromElsewhere(c)'
  BY StaysPlaced DEF Personal, Unmoved, Door!Placed
<1>5. NoProxy(c)'
  BY StaysNoProxy DEF Personal, Unmoved, Unchanging
<1>6. QED
  BY <1>1, <1>2, <1>3, <1>4, <1>5 DEF Personal

\* Whoever comes anew, known and heard of or not known yet.
LEMMA PersonComes ==
  ASSUME GateTypes, WhoIsWho, NEW c \in Clients, c \notin here \cup gone,
         checked' = checked, vetted' = vetted, located' = located, GateNumbers,
         c \in authed' => Door!Seen(c) \in Noted(queue')
  PROVE  Personal(c)'
<1>1. checked'[c] = "none" /\ vetted'[c] = "none" /\ located'[c] = "none" /\ "none" \notin Refused
  BY DEF WhoIsWho, GateNumbers
<1>2. Followed(c)'
  BY <1>1 DEF Followed, Door!Seen
<1>3. OffTheList(c)'
  BY <1>1 DEF OffTheList
<1>4. OffTheNetworks(c)'
  BY <1>1 DEF OffTheNetworks
<1>5. FromElsewhere(c)'
  BY <1>1 DEF FromElsewhere
<1>6. NoProxy(c)'
  BY <1>1 DEF NoProxy
<1>7. QED
  BY <1>2, <1>3, <1>4, <1>5, <1>6 DEF Personal

\* Whoever is found at an address, the same or another, and is to be looked at.
LEMMA PersonMoves ==
  ASSUME GateTypes, NEW c \in Clients, NEW a \in Addresses, GateNumbers, Personal(c), Door!Moves(c, a),
         authed \subseteq authed', Door!Seen(c) \in Noted(queue'),
         Noted(queue) \subseteq Noted(queue'),
         UNCHANGED <<asking, checked, vetted, located, lookups, asked, entries, fetching, out>>
  PROVE  Personal(c)'
<1>1. addr'[c] = a /\ a # "none"
  BY DEF Door!Moves, GateTypes, GateNumbers
<1>2. c \in returned \/ c \notin returned' => a \notin {checked[c], vetted[c]} \/ a = addr[c]
                                               \/ c \in returned
  BY <1>1 DEF Door!Moves
<1>3. c \in returned => c \in returned'
  BY DEF Door!Moves
<1>4. Followed(c)'
  BY DEF Followed, Door!Seen
<1>5. OffTheList(c)'
  BY <1>1, <1>2, <1>3 DEF Personal, OffTheList
<1>6. OffTheNetworks(c)'
  BY DEF Personal, OffTheNetworks, Door!Exempt
<1>7. FromElsewhere(c)'
  BY DEF Personal, FromElsewhere, Door!Exempt, Door!Placed
<1>8. NoProxy(c)'
  BY <1>1, <1>2, <1>3 DEF Personal, NoProxy, Door!Exempt
<1>9. QED
  BY <1>4, <1>5, <1>6, <1>7, <1>8 DEF Personal

\* What a queue holds, as the properties say it, and what a set of at most one makes of it.
LEMMA NotedIsRange == ASSUME NEW h, NEW q \in Seq(h) PROVE Door!Range(q) = Noted(q)
<1>1. DOMAIN q = 1..Len(q)
  OBVIOUS
<1>2. QED
  BY <1>1 DEF Door!Range, Noted

LEMMA SeqOfNone == Door!SetToSeq({}) \in Seq(Happenings) /\ Noted(Door!SetToSeq({})) = {}
<1>1. Door!Cardinality({}) = 0
  BY FS_EmptySet DEF Door!Cardinality, Cardinality
<1>2. Door!SetToSeq({}) = CHOOSE f \in [1..0 -> {}] : Door!IsInjective(f)
  BY <1>1 DEF Door!SetToSeq
<1> DEFINE f0 == [i \in 1..0 |-> CHOOSE x \in {} : TRUE]
<1>3. f0 \in [1..0 -> {}] /\ Door!IsInjective(f0)
  BY DEF Door!IsInjective
<1>4. Door!SetToSeq({}) \in [1..0 -> {}]
  BY <1>2, <1>3
<1>5. Door!SetToSeq({}) = <<>>
  BY <1>4
<1>6. QED
  BY <1>5, NotedNone

LEMMA SeqOfOne ==
  ASSUME NEW e \in Happenings
  PROVE  Door!SetToSeq({e}) \in Seq(Happenings) /\ Noted(Door!SetToSeq({e})) = {e}
<1>1. Door!Cardinality({e}) = 1
  BY FS_Singleton DEF Door!Cardinality, Cardinality
<1>2. Door!SetToSeq({e}) = CHOOSE f \in [1..1 -> {e}] : Door!IsInjective(f)
  BY <1>1 DEF Door!SetToSeq
<1> DEFINE f0 == [i \in 1..1 |-> e]
<1>3. f0 \in [1..1 -> {e}] /\ Door!IsInjective(f0)
  BY DEF Door!IsInjective
<1>4. Door!SetToSeq({e}) \in [1..1 -> {e}]
  BY <1>2, <1>3
<1>5. Door!SetToSeq({e}) = <<e>>
  BY <1>4
<1>6. QED
  BY <1>5, NotedOne

\* What most steps leave as it is.
LEMMA WhoStays ==
  ASSUME WhoIsWho, here' = here, gone' = gone, authed' = authed,
         \A c \in Clients \ (here \cup gone) :
            checked'[c] = checked[c] /\ vetted'[c] = vetted[c] /\ located'[c] = located[c],
         \A e \in Noted(queue') : \/ e \in Noted(queue)
                                  \/ e.type \in {"seen", "placed"} /\ e.who \in here \cup gone
                                  \/ e.type = "bans",
         \A t \in asking' : t.who \in here \cup gone
  PROVE  WhoIsWho'
  BY DEF WhoIsWho

LEMMA AskStays ==
  ASSUME NEW a, AskedRight(a), UNCHANGED <<asked, lookups, asking>>
  PROVE  AskedRight(a)'
  BY DEF AskedRight

LEMMA BansStay ==
  ASSUME GateTypes, queue' \in Seq(Happenings), Door!BansAreSeen, banned' = banned,
         barred' \in {barred, banned, {}},
         Door!BansChanged \in Noted(queue) => Door!BansChanged \in Noted(queue')
  PROVE  Door!BansAreSeen'
<1>1. Door!Range(queue) = Noted(queue) /\ Door!Range(queue') = Noted(queue')
  BY NotedIsRange DEF GateTypes
<1>2. Door!Range(queue)' = Noted(queue')
  BY <1>1
<1>3. QED
  BY <1>1, <1>2 DEF Door!BansAreSeen, Door!BansChanged

\* An event that only its player, or nobody, is touched by.
LEMMA EventTaken ==
  ASSUME GateInv, queue # <<>>
  PROVE  /\ Tail(queue) \in Seq(Happenings) /\ queue[1] \in Happenings /\ queue[1] \in Noted(queue)
         /\ Noted(Tail(queue)) \subseteq Noted(queue)
         /\ Noted(queue) \subseteq Noted(Tail(queue)) \cup {queue[1]}
  BY NotedTail DEF GateInv, GateTypes

LEMMA GateOnDisconnect == ASSUME GateNumbers, GateInv, Door!OnDisconnect PROVE GateInv' /\ Moved(out, out')
<1> DEFINE c == queue[1].who
<1>1. /\ queue # <<>> /\ queue[1].type = "left" /\ Door!Forget(c) /\ queue' = Tail(queue)
      /\ UNCHANGED <<here, gone, addr, authed, returned, asking, vetted, lookups, asked, entries,
                     fetching, banned, barred, out>>
  BY DEF Door!OnDisconnect, Door!rosterVars, Door!serviceVars, Door!listVars
<1>2. /\ queue' \in Seq(Happenings) /\ queue[1] \in Noted(queue)
      /\ Noted(queue') \subseteq Noted(queue) /\ Noted(queue) \subseteq Noted(queue') \cup {queue[1]}
  BY <1>1, EventTaken
<1>3. c \in gone /\ c \notin here
  BY <1>1, <1>2 DEF GateInv, WhoIsWho, GateTypes
<1>4. GateTypes'
  BY <1>1, <1>2 DEF GateInv, GateTypes, Door!Forget, Door!Places
<1>5. WhoIsWho'
  <2>1. \A d \in Clients \ (here \cup gone) :
            checked'[d] = checked[d] /\ vetted'[d] = vetted[d] /\ located'[d] = located[d]
    BY <1>1, <1>3 DEF Door!Forget, GateInv, GateTypes
  <2>2. WhoIsWho /\ \A t \in asking' : t.who \in here \cup gone
    BY <1>1 DEF GateInv, WhoIsWho
  <2>3. QED
    BY <1>1, <1>2, <2>1, <2>2, WhoStays
<1>6. ASSUME NEW a \in Addresses PROVE AskedRight(a)'
  BY <1>1, AskStays DEF GateInv
<1>7. Door!BansAreSeen'
  BY <1>1, <1>2, BansStay DEF GateInv, Door!BansChanged
<1>8. ASSUME NEW d \in here' PROVE Personal(d)'
  <2>1. Unmoved(d)
    BY <1>1, <1>2, <1>3 DEF Unmoved, LeftAlone, Door!Forget, GateInv, GateTypes
  <2>2. Unchanging
    BY <1>1 DEF Unchanging
  <2>3. QED
    BY <1>1, <2>1, <2>2, PersonStays DEF GateInv
<1>9. QED
  BY <1>1, <1>4, <1>5, <1>6, <1>7, <1>8, MovedNot DEF GateInv

LEMMA GateOnBansChanged ==
  ASSUME GateNumbers, GateInv, Door!OnBansChanged PROVE GateInv' /\ Moved(out, out')
<1>1. /\ queue # <<>> /\ queue[1].type = "bans" /\ barred' = {} /\ queue' = Tail(queue)
      /\ UNCHANGED <<here, gone, addr, authed, returned, asking, checked, vetted, located, lookups,
                     asked, entries, fetching, banned, out>>
  BY DEF Door!OnBansChanged, Door!ForgetsReading, Door!rosterVars, Door!seenVars, Door!serviceVars,
         Door!listVars
<1>2. /\ queue' \in Seq(Happenings) /\ queue[1] \in Happenings
      /\ Noted(queue') \subseteq Noted(queue) /\ Noted(queue) \subseteq Noted(queue') \cup {queue[1]}
  BY <1>1, EventTaken
<1>3. queue[1] = Door!BansChanged
  BY <1>1, <1>2 DEF Happenings
<1>4. GateTypes'
  BY <1>1, <1>2 DEF GateInv, GateTypes
<1>5. WhoIsWho'
  <2>1. WhoIsWho /\ \A t \in asking' : t.who \in here \cup gone
    BY <1>1 DEF GateInv, WhoIsWho
  <2>2. QED
    BY <1>1, <1>2, <2>1, WhoStays
<1>6. ASSUME NEW a \in Addresses PROVE AskedRight(a)'
  BY <1>1, AskStays DEF GateInv
<1>7. Door!BansAreSeen'
  BY <1>1 DEF Door!BansAreSeen
<1>8. ASSUME NEW d \in here' PROVE Personal(d)'
  <2>1. \A e \in Noted(queue) : e.type \in {"seen", "placed"} => e \in Noted(queue')
    BY <1>2, <1>3 DEF Door!BansChanged
  <2>2. Unmoved(d)
    BY <1>1, <2>1 DEF Unmoved, LeftAlone
  <2>3. Unchanging
    BY <1>1 DEF Unchanging
  <2>4. QED
    BY <1>1, <2>2, <2>3, PersonStays DEF GateInv
<1>9. QED
  BY <1>1, <1>4, <1>5, <1>6, <1>7, <1>8, MovedNot DEF GateInv

LEMMA GateOnLocated == ASSUME GateNumbers, GateInv, Door!OnLocated PROVE GateInv' /\ Moved(out, out')
<1> DEFINE c == queue[1].who
           a == queue[1].at
<1>1. /\ queue # <<>> /\ queue[1].type = "placed" /\ queue' = Tail(queue)
      /\ out' = IF Door!MayConnect(c, a) THEN out ELSE Door!Kick(c, "country", out)
      /\ UNCHANGED <<here, gone, addr, authed, returned, asking, checked, vetted, located, lookups,
                     asked, entries, fetching, banned, barred>>
  BY DEF Door!OnLocated, Door!rosterVars, Door!seenVars, Door!serviceVars, Door!listVars
<1>2. /\ queue' \in Seq(Happenings) /\ queue[1] \in Noted(queue) /\ queue[1] \in Happenings
      /\ Noted(queue') \subseteq Noted(queue) /\ Noted(queue) \subseteq Noted(queue') \cup {queue[1]}
  BY <1>1, EventTaken
<1>3. c \in here \cup gone /\ here \subseteq Clients /\ out \in Outs /\ WhoIsWho /\ GateTypes
  BY <1>1, <1>2 DEF GateInv, WhoIsWho, GateTypes
<1>4. queue[1] = Door!Placed(c, a)
  BY <1>1, <1>2 DEF Happenings, Door!BansChanged, Door!Placed
<1>5. /\ out' \in Outs /\ Moved(out, out')
      /\ c \in here /\ out'[c] = "in" => Door!Exempt(c) \/ a \notin Refused
  <2>1. CASE Door!MayConnect(c, a)
    BY <1>1, <1>3, <2>1, MovedNot DEF Door!MayConnect
  <2>2. CASE ~Door!MayConnect(c, a)
    <3>1. Door!Cause(c, "country") /\ out' = Door!Kick(c, "country", out)
      BY <1>1, <2>2 DEF Door!MayConnect, Door!Cause
    <3>2. QED
      BY <1>3, <3>1, KickMoves DEF Fates
  <2>3. QED
    BY <2>1, <2>2
<1>6. \A d \in Clients : out'[d] = "in" => out[d] = "in"
  BY <1>5 DEF Moved
<1>7. GateTypes'
  BY <1>1, <1>2, <1>5 DEF GateInv, GateTypes, Outs
<1>8. WhoIsWho'
  <2>1. WhoIsWho /\ \A t \in asking' : t.who \in here \cup gone
    BY <1>1 DEF GateInv, WhoIsWho
  <2>2. QED
    BY <1>1, <1>2, <2>1, WhoStays
<1>9. ASSUME NEW b \in Addresses PROVE AskedRight(b)'
  BY <1>1, AskStays DEF GateInv
<1>10. Door!BansAreSeen'
  BY <1>1, <1>2, BansStay DEF GateInv, Door!BansChanged
<1>11. ASSUME NEW d \in here' PROVE Personal(d)'
  <2>1. d \in here /\ d \in Clients /\ Personal(d)
    BY <1>1, <1>3 DEF GateInv
  <2>2. LeftAlone(d) /\ Unchanging
    BY <1>1, <1>6, <2>1 DEF LeftAlone, Unchanging
  <2>3. \A t \in asking : t.who = d => t \in asking'
    BY <1>1
  <2>4. CASE d # c
    <3>1. Unmoved(d)
      BY <1>1, <1>2, <2>2, <2>4 DEF Unmoved
    <3>2. QED
      BY <2>1, <2>2, <3>1, PersonStays
  <2>5. CASE d = c
    <3>1. Followed(d)'
      <4>1. Door!Seen(d) \in Noted(queue) => Door!Seen(d) \in Noted(queue')
        BY <1>1, <1>2 DEF Door!Seen
      <4>2. QED
        BY <1>1, <2>1, <2>2, <2>3, <4>1, StaysFollowed DEF Personal
    <3>2. OffTheList(d)'
      BY <1>1, <2>1, <2>2, StaysOffTheList DEF Personal
    <3>3. OffTheNetworks(d)'
      BY <2>1, <2>2, StaysOffTheNetworks DEF Personal
    <3>4. NoProxy(d)'
      BY <1>1, <2>1, <2>2, <2>3, StaysNoProxy DEF Personal
    <3>5. FromElsewhere(d)'
      <4>1. SUFFICES ASSUME out'[d] = "in", located[d] \in Refused, ~Door!Exempt(d)
                     PROVE  Door!Placed(d, located[d]) \in Noted(queue')
        BY <1>1 DEF FromElsewhere, Door!Exempt, Door!Placed
      <4>2. Door!Placed(d, located[d]) \in Noted(queue)
        BY <2>1, <2>2, <4>1 DEF Personal, FromElsewhere, LeftAlone
      <4>3. a # located[d]
        BY <1>5, <2>1, <2>5, <4>1
      <4>4. Door!Placed(d, located[d]) # queue[1]
        BY <1>4, <4>3 DEF Door!Placed
      <4>5. QED
        BY <1>2, <4>2, <4>4
    <3>6. QED
      BY <3>1, <3>2, <3>3, <3>4, <3>5 DEF Personal
  <2>6. QED
    BY <2>4, <2>5
<1>12. QED
  BY <1>5, <1>7, <1>8, <1>9, <1>10, <1>11 DEF GateInv

\* Of whom a question is asked, and how often.
LEMMA AskMore ==
  ASSUME NEW a \in Addresses, NEW c, NEW b \in Addresses, GateTypes, AskedRight(b), lookups[a] = "unknown",
         lookups' = lookups, asking' = asking \cup {[who |-> c, at |-> a]},
         asked' = IF Door!Ask(a) THEN [asked EXCEPT ![a].times = @ + 1] ELSE asked
  PROVE  AskedRight(b)' /\ asked' \in [Addresses -> [times : Nat, failed : Nat]]
         /\ asked'[b].failed = asked[b].failed
<1>1. asked \in [Addresses -> [times : Nat, failed : Nat]]
  BY DEF GateTypes
<1>2. /\ asked' \in [Addresses -> [times : Nat, failed : Nat]]
      /\ asked'[b].failed = asked[b].failed
      /\ b # a \/ ~Door!Ask(a) => asked'[b] = asked[b]
      /\ b = a /\ Door!Ask(a) => asked'[b].times = asked[b].times + 1
  BY <1>1
<1>3. asked[b].times \in Nat /\ asked[b].failed \in Nat
  BY <1>1
<1>4. CASE b # a
  BY <1>2, <1>4 DEF AskedRight
<1>5. CASE b = a
  <2>1. [who |-> c, at |-> a] \in asking'
    OBVIOUS
  <2>2. asked'[b].times <= asked'[b].failed + 1
    BY <1>2, <1>3, <1>5 DEF AskedRight, Door!Ask
  <2>3. QED
    BY <1>2, <1>5, <2>1, <2>2 DEF AskedRight
<1>6. QED
  BY <1>2, <1>4, <1>5

LEMMA GateOnSeen == ASSUME GateNumbers, GateInv, Door!OnSeen PROVE GateInv' /\ Moved(out, out')
<1>0. PICK c : c = queue[1].who
  OBVIOUS
<1> DEFINE a == addr[c]
           places == a # "none" /\ located[c] = "none"
           looks == a # "none" /\ checked[c] # a
           waits == looks /\ ~Door!Exempt(c) /\ lookups[a] = "unknown"
           flagged == looks /\ ~Door!Exempt(c) /\ lookups[a] = "flagged"
           more == IF places THEN <<Door!Placed(c, a)>> ELSE <<>>
<1>1. PICK read \in IF a = "none" \/ Door!Exempt(c) THEN {barred} ELSE Door!BannedAddresses :
         /\ located' = [located EXCEPT ![c] = IF places THEN a ELSE @]
         /\ checked' = [checked EXCEPT ![c] = IF looks THEN a ELSE @]
         /\ queue' = Tail(queue) \o more
         /\ barred' = read
         /\ IF waits
            THEN /\ asking' = asking \cup {[who |-> c, at |-> a]}
                 /\ asked' = IF Door!Ask(a) THEN [asked EXCEPT ![a].times = @ + 1] ELSE asked
                 /\ out' = Door!IpBan(c, read, out)
                 /\ UNCHANGED vetted
            ELSE /\ out' = Door!Judge(c, a, flagged, Door!IpBan(c, read, out))
                 /\ vetted' = [vetted EXCEPT ![c] = a]
                 /\ UNCHANGED <<asking, asked>>
  BY <1>0 DEF Door!OnSeen
<1>2. /\ queue # <<>> /\ queue[1].type = "seen"
      /\ UNCHANGED <<here, gone, addr, authed, returned, lookups, entries, fetching, banned>>
  BY DEF Door!OnSeen, Door!rosterVars, Door!listVars
<1>3. /\ GateTypes /\ WhoIsWho /\ Door!BansAreSeen /\ (\A b \in Addresses : AskedRight(b))
      /\ (\A d \in here : Personal(d)) /\ "none" \notin Addresses
  BY DEF GateInv, GateNumbers
<1>4. /\ Tail(queue) \in Seq(Happenings) /\ queue[1] \in Noted(queue)
      /\ Noted(Tail(queue)) \subseteq Noted(queue)
      /\ Noted(queue) \subseteq Noted(Tail(queue)) \cup {queue[1]}
  BY <1>2, EventTaken
<1>5. c \in here \cup gone
  BY <1>0, <1>2, <1>3, <1>4 DEF WhoIsWho
<1>6. c \in Clients /\ a \in Door!Places /\ (a # "none" => a \in Addresses)
  BY <1>3, <1>5 DEF GateTypes, Door!Places
<1>7. /\ queue' \in Seq(Happenings) /\ Noted(Tail(queue)) \subseteq Noted(queue')
      /\ Noted(queue') \subseteq Noted(Tail(queue)) \cup {Door!Placed(c, a)}
      /\ places => Door!Placed(c, a) \in Noted(queue')
  <2>1. Door!Placed(c, a) \in Happenings
    BY <1>6 DEF Door!Placed, Happenings
  <2>2. CASE places
    <3>1. more = <<Door!Placed(c, a)>>
      BY <2>2
    <3>2. more \in Seq(Happenings) /\ Noted(more) = {Door!Placed(c, a)}
      BY <2>1, <3>1, NotedOne
    <3> HIDE DEF more, places
    <3>3. queue' \in Seq(Happenings) /\ Noted(queue') = Noted(Tail(queue)) \cup Noted(more)
      <4>1. queue' = Tail(queue) \o more
        BY <1>1
      <4>2. Tail(queue) \in Seq(Happenings) /\ more \in Seq(Happenings)
        BY <1>4, <3>2
      <4>3. /\ Tail(queue) \o more \in Seq(Happenings)
            /\ Noted(Tail(queue) \o more) = Noted(Tail(queue)) \cup Noted(more)
        BY ONLY <4>2, NotedBoth
      <4>4. QED
        BY ONLY <4>1, <4>3
    <3>4. QED
      BY <3>2, <3>3
  <2>3. CASE ~places
    <3>1. more = <<>>
      BY <2>3
    <3>2. more \in Seq(Happenings) /\ Noted(more) = {}
      BY <3>1, NotedNone
    <3> HIDE DEF more, places
    <3>3. queue' \in Seq(Happenings) /\ Noted(queue') = Noted(Tail(queue)) \cup Noted(more)
      <4>1. queue' = Tail(queue) \o more
        BY <1>1
      <4>2. Tail(queue) \in Seq(Happenings) /\ more \in Seq(Happenings)
        BY <1>4, <3>2
      <4>3. /\ Tail(queue) \o more \in Seq(Happenings)
            /\ Noted(Tail(queue) \o more) = Noted(Tail(queue)) \cup Noted(more)
        BY ONLY <4>2, NotedBoth
      <4>4. QED
        BY ONLY <4>1, <4>3
    <3>4. QED
      BY <2>3, <3>2, <3>3
  <2>4. QED
    BY <2>2, <2>3
<1>8. barred' \in {barred, banned, {}}
  BY <1>1 DEF Door!BannedAddresses
<1> DEFINE o == Door!IpBan(c, barred', out)
<1>9. o \in Outs /\ Moved(out, o)
  <2>1. out \in Outs /\ here \subseteq Clients
    BY <1>3 DEF GateTypes
  <2>2. CASE ~Door!Exempt(c) /\ addr[c] \in barred'
    <3>1. Door!Cause(c, "barred")
      BY <1>8, <2>2 DEF Door!Cause
    <3>2. o = Door!Kick(c, "barred", out)
      BY <2>2 DEF Door!IpBan
    <3>3. QED
      BY <1>3, <1>5, <2>1, <3>1, <3>2, KickMoves DEF Fates
  <2>3. CASE ~(~Door!Exempt(c) /\ addr[c] \in barred')
    BY <2>1, <2>3, MovedNot DEF Door!IpBan
  <2>4. QED
    BY <2>2, <2>3
<1>10. /\ out' \in Outs /\ Moved(out, out')
       /\ c \in here /\ out'[c] = "in" => waits \/ Handled(c, a, flagged)
  <2>1. CASE waits
    BY <1>1, <1>9, <2>1
  <2>2. CASE ~waits
    <3>1. out' = Door!Judge(c, a, flagged, o)
      BY <1>1, <2>2
    <3>2. flagged \in BOOLEAN /\ (flagged => a \in Proxies)
      BY <1>3, <1>6 DEF AskedRight
    <3> HIDE DEF o, flagged, waits, a
    <3>3. /\ out' \in Outs /\ Moved(o, out')
          /\ c \in here /\ out'[c] = "in" => Handled(c, a, flagged)
      BY <1>3, <1>5, <1>9, <3>1, <3>2, JudgeOne
    <3>4. QED
      <4>1. out \in Outs
        BY <1>3 DEF GateTypes
      <4>2. QED
        BY <1>9, <3>3, <4>1, MovedOn
  <2>3. QED
    BY <2>1, <2>2
<1> HIDE DEF o
<1>11. \A d \in Clients : out'[d] = "in" => out[d] = "in"
  BY <1>10 DEF Moved
<1>12. /\ (waits => [who |-> c, at |-> a] \in asking') /\ asking \subseteq asking'
       /\ asking' \subseteq asking \cup {[who |-> c, at |-> a]}
       /\ ~waits => asking' = asking
  BY <1>1
<1>13. ASSUME NEW b \in Addresses
       PROVE  /\ AskedRight(b)' /\ asked'[b].failed = asked[b].failed
              /\ asked' \in [Addresses -> [times : Nat, failed : Nat]]
  <2>1. CASE waits
    <3>1. /\ a \in Addresses /\ lookups[a] = "unknown" /\ lookups' = lookups
          /\ asking' = asking \cup {[who |-> c, at |-> a]}
          /\ asked' = IF Door!Ask(a) THEN [asked EXCEPT ![a].times = @ + 1] ELSE asked
      BY <1>1, <1>2, <1>6, <2>1
    <3>2. GateTypes /\ AskedRight(b)
      BY <1>3
    <3> HIDE DEF a
    <3>3. QED
      BY ONLY <3>1, <3>2, AskMore
  <2>2. CASE ~waits
    BY <1>1, <1>2, <1>3, <2>2, AskStays DEF GateTypes
  <2>3. QED
    BY <2>1, <2>2
<1>14. asked' \in [Addresses -> [times : Nat, failed : Nat]]
  BY <1>1, <1>3, <1>6, <1>13 DEF GateTypes
<1>15. GateTypes'
  <2>1. located' \in [Clients -> Door!Places] /\ checked' \in [Clients -> Door!Places]
        /\ vetted' \in [Clients -> Door!Places]
    BY <1>1, <1>3, <1>6 DEF GateTypes
  <2>2. asking' \subseteq [who : Clients, at : Addresses]
    BY <1>1, <1>3, <1>6 DEF GateTypes
  <2>3. QED
    BY ONLY <1>2, <1>3, <1>7, <1>10, <1>14, <2>1, <2>2 DEF GateTypes, Door!Places, Outs
<1>16. WhoIsWho'
  <2>1. \A d \in Clients \ (here \cup gone) :
            checked'[d] = checked[d] /\ vetted'[d] = vetted[d] /\ located'[d] = located[d]
    BY <1>1, <1>3, <1>5 DEF GateTypes
  <2>2. \A t \in asking' : t.who \in here \cup gone
    BY <1>3, <1>5, <1>12 DEF WhoIsWho
  <2>3. \A e \in Noted(queue') : \/ e \in Noted(queue)
                                 \/ e.type \in {"seen", "placed"} /\ e.who \in here \cup gone
    BY <1>4, <1>5, <1>7 DEF Door!Placed
  <2>4. QED
    BY <1>2, <1>3, <2>1, <2>2, <2>3, WhoStays
<1>17. Door!BansAreSeen'
  BY <1>2, <1>3, <1>4, <1>7, <1>8, BansStay DEF Door!BansChanged
<1>18. ASSUME NEW d \in here, d # c PROVE Personal(d)'
  <2>1. d \in Clients
    BY <1>3, <1>18 DEF GateTypes
  <2>2. /\ checked'[d] = checked[d] /\ vetted'[d] = vetted[d] /\ located'[d] = located[d]
    BY <1>1, <1>3, <1>18, <2>1 DEF GateTypes
  <2>3. \A e \in Noted(queue) : e.who = d => e \in Noted(queue')
    BY <1>0, <1>4, <1>7, <1>18
  <2>4. addr[d] \in Addresses => asked'[addr[d]].failed = asked[addr[d]].failed
    BY <1>13
  <2>5. Unmoved(d)
    BY <1>2, <1>11, <1>12, <2>1, <2>2, <2>3 DEF Unmoved, LeftAlone
  <2>6. addr[d] \in Addresses \/ addr[d] = "none"
    BY <1>3, <2>1 DEF GateTypes, Door!Places
  <2>7. Personal(d)
    BY <1>3
  <2>8. Followed(d)' /\ FromElsewhere(d)' /\ OffTheList(d)' /\ OffTheNetworks(d)'
    <3>1. Followed(d)'
      BY <2>5, <2>7, StaysFollowed DEF Personal, Unmoved, Door!Seen
    <3>2. FromElsewhere(d)'
      BY <2>5, <2>7, StaysPlaced DEF Personal, Unmoved, Door!Placed
    <3>3. OffTheList(d)'
      BY <1>2, <2>5, <2>7, StaysOffTheList DEF Personal, Unmoved
    <3>4. OffTheNetworks(d)'
      BY <2>5, <2>7, StaysOffTheNetworks DEF Personal, Unmoved
    <3>5. QED
      BY <3>1, <3>2, <3>3, <3>4
  <2>9. NoProxy(d)'
    <3>1. CASE addr[d] \in Addresses
      BY <1>2, <2>4, <2>5, <2>7, <3>1, StaysNoProxy DEF Personal, Unmoved
    <3>2. CASE addr[d] = "none"
      BY <1>2, <3>2 DEF NoProxy
    <3>3. QED
      BY <2>6, <3>1, <3>2
  <2>10. QED
    BY <2>8, <2>9 DEF Personal
<1>19. ASSUME c \in here PROVE Personal(c)'
  <2>1. Personal(c) /\ addr' = addr /\ authed' = authed /\ returned' = returned
    BY <1>2, <1>3, <1>19
  <2>2. /\ checked'[c] = IF looks THEN a ELSE checked[c]
        /\ located'[c] = IF places THEN a ELSE located[c]
        /\ vetted'[c] = IF waits THEN vetted[c] ELSE a
    BY <1>1, <1>3, <1>6 DEF GateTypes
  <2>3. out'[c] = "in" => out[c] = "in" /\ (waits \/ Handled(c, a, flagged))
    BY <1>6, <1>10, <1>11, <1>19
  <2>4. Followed(c)'
    BY <1>12, <2>1, <2>2 DEF Followed
  <2>5. OffTheList(c)'
    <3>1. CASE waits
      BY <1>2, <2>1, <2>2, <2>3, <3>1 DEF Personal, OffTheList
    <3>2. CASE ~waits
      BY <1>2, <2>1, <2>2, <2>3, <3>2 DEF Personal, OffTheList, Handled
    <3>3. QED
      BY <3>1, <3>2
  <2>6. OffTheNetworks(c)'
    <3>1. CASE waits
      BY <1>2, <2>1, <2>2, <2>3, <3>1 DEF Personal, OffTheNetworks, Door!Exempt
    <3>2. CASE ~waits
      BY <1>2, <2>1, <2>2, <2>3, <3>2 DEF OffTheNetworks, Handled, Door!Exempt
    <3>3. QED
      BY <3>1, <3>2
  <2>7. FromElsewhere(c)'
    <3>1. CASE places
      BY <1>7, <2>2, <3>1 DEF FromElsewhere, Door!Placed
    <3>2. CASE ~places
      <4>1. \A x : Door!Placed(c, x) \in Noted(queue) => Door!Placed(c, x) \in Noted(queue')
        BY <1>2, <1>4, <1>7 DEF Door!Placed
      <4>2. located'[c] = located[c] /\ out'[c] = "in" => out[c] = "in"
        BY <2>2, <2>3, <3>2
      <4>3. located'[c] = located[c]
        BY <2>2, <3>2
      <4>4. QED
        BY <2>1, <4>1, <4>2, <4>3 DEF Personal, FromElsewhere, Door!Placed, Door!Exempt
    <3>3. QED
      BY <3>1, <3>2
  <2>8. NoProxy(c)'
    <3>1. SUFFICES ASSUME c \notin returned, a # "none", ~Door!Exempt(c), asked'[a].failed = 0
                   PROVE  /\ lookups[a] = "unknown" => [who |-> c, at |-> a] \in asking'
                          /\ lookups[a] = "flagged" => out'[c] # "in"
      BY <1>2, <2>1 DEF NoProxy, Door!Exempt
    <3>2. asked[a].failed = 0
      BY <1>6, <1>13, <3>1
    <3>3. CASE ~looks
      <4>1. checked[c] = a
        BY <3>1, <3>3
      <4>2. /\ lookups[a] = "unknown" => [who |-> c, at |-> a] \in asking
            /\ lookups[a] = "flagged" => out[c] # "in"
        BY <2>1, <3>1, <3>2, <4>1 DEF Personal, NoProxy
      <4>3. QED
        BY <1>12, <2>3, <4>2
    <3>4. CASE looks
      <4>1. lookups[a] = "unknown" => waits
        BY <3>1, <3>4
      <4>2. lookups[a] = "flagged" => flagged /\ ~waits
        BY <3>1, <3>4
      <4>3. QED
        BY <1>12, <2>3, <4>1, <4>2 DEF Handled
    <3>5. QED
      BY <3>3, <3>4
  <2>9. QED
    BY <2>4, <2>5, <2>6, <2>7, <2>8 DEF Personal
<1>20. QED
  <2>1. \A d \in here' : Personal(d)'
    BY <1>2, <1>18, <1>19
  <2>2. \A b \in Addresses : AskedRight(b)'
    BY <1>13
  <2>3. QED
    BY ONLY <1>10, <1>15, <1>16, <1>17, <2>1, <2>2 DEF GateInv

LEMMA GateAnswer ==
  ASSUME GateNumbers, GateInv, NEW a \in Addresses, NEW answer \in Door!AnswerTo(a), Door!Answer(a, answer)
  PROVE  GateInv' /\ Moved(out, out')
<1> DEFINE mine == {t.who : t \in {x \in asking : x.at = a}}
           flagged == answer = "flagged"
<1>1. /\ \E t \in asking : t.at = a
      /\ out' = JudgeAll(a, flagged, mine)
      /\ vetted' = [c \in Clients |-> IF c \in mine THEN addr[c] ELSE vetted[c]]
      /\ asking' = {t \in asking : t.at # a}
      /\ IF answer = "failed"
         THEN asked' = [asked EXCEPT ![a].failed = @ + 1] /\ UNCHANGED lookups
         ELSE lookups' = [lookups EXCEPT ![a] = answer] /\ UNCHANGED asked
  BY Zenon DEF Door!Answer, JudgeAll
<1>2. UNCHANGED <<here, gone, addr, authed, returned, queue, checked, located, entries, fetching,
                  banned, barred>>
  <2>1. UNCHANGED <<Door!rosterVars, queue, draining, checked, located, Door!listVars, barred, changes>>
    BY Zenon DEF Door!Answer
  <2>2. QED
    BY <2>1 DEF Door!rosterVars, Door!listVars
<1>3. /\ GateTypes /\ WhoIsWho /\ Door!BansAreSeen /\ (\A b \in Addresses : AskedRight(b))
      /\ (\A d \in here : Personal(d))
  BY DEF GateInv
<1>4. mine \subseteq here \cup gone /\ mine \subseteq Clients
  BY <1>3 DEF WhoIsWho, GateTypes
<1>5. flagged \in BOOLEAN /\ (flagged => a \in Proxies) /\ answer \in {"failed", "flagged", "clean"}
  BY DEF Door!AnswerTo
<1>6. /\ out' \in Outs /\ Moved(out, out')
      /\ \A c \in mine \cap here : out'[c] = "in" => Handled(c, a, flagged)
  <2> HIDE DEF mine, flagged
  <2>1. QED
    BY <1>1, <1>3, <1>4, <1>5, JudgeMany
<1>7. \A d \in Clients : out'[d] = "in" => out[d] = "in"
  BY <1>6 DEF Moved
<1>8. lookups[a] = "unknown"
  BY <1>1, <1>3 DEF AskedRight
<1>9. /\ asked' \in [Addresses -> [times : Nat, failed : Nat]]
      /\ lookups' \in [Addresses -> {"unknown", "clean", "flagged"}]
  <2>1. /\ asked \in [Addresses -> [times : Nat, failed : Nat]]
        /\ lookups \in [Addresses -> {"unknown", "clean", "flagged"}]
    BY <1>3 DEF GateTypes
  <2>2. CASE answer = "failed"
    <3>1. asked' = [asked EXCEPT ![a].failed = @ + 1] /\ lookups' = lookups
      BY <1>1, <2>2
    <3>2. QED
      BY <2>1, <3>1
  <2>3. CASE answer # "failed"
    <3>1. lookups' = [lookups EXCEPT ![a] = answer] /\ asked' = asked
      BY <1>1, <2>3
    <3>2. QED
      BY <1>5, <2>1, <2>3, <3>1
  <2>4. QED
    BY <2>2, <2>3
<1>10. /\ \A b \in Addresses : b # a => asked'[b] = asked[b] /\ lookups'[b] = lookups[b]
       /\ asked'[a].times = asked[a].times
       /\ answer = "failed" => asked'[a].failed = asked[a].failed + 1 /\ lookups'[a] = "unknown"
       /\ answer # "failed" => asked'[a].failed = asked[a].failed /\ lookups'[a] = answer
  BY <1>1, <1>3, <1>8 DEF GateTypes
<1>11. \A t \in asking : t \in asking' \/ (t.at = a /\ t.who \in mine)
  BY <1>1
<1>12. \A t \in asking' : t \in asking /\ t.at # a
  BY <1>1
<1>13. \A d \in Clients : vetted'[d] = IF d \in mine THEN addr[d] ELSE vetted[d]
  BY <1>1
<1>14. GateTypes'
  <2>1. vetted' \in [Clients -> Door!Places]
    BY <1>1, <1>3 DEF GateTypes
  <2>2. asking' \subseteq [who : Clients, at : Addresses]
    BY <1>3, <1>12 DEF GateTypes
  <2>3. QED
    BY ONLY <1>2, <1>3, <1>6, <1>9, <2>1, <2>2 DEF GateTypes, Door!Places, Outs
<1> HIDE DEF mine
<1>15. WhoIsWho'
  <2>1. \A d \in Clients \ (here \cup gone) :
            checked'[d] = checked[d] /\ vetted'[d] = vetted[d] /\ located'[d] = located[d]
    BY <1>2, <1>4, <1>13
  <2>2. \A t \in asking' : t.who \in here \cup gone
    BY <1>3, <1>12 DEF WhoIsWho
  <2>3. QED
    BY <1>2, <1>3, <2>1, <2>2, WhoStays
<1>16. ASSUME NEW b \in Addresses PROVE AskedRight(b)'
  <2>1. AskedRight(b) /\ AskedRight(a)
    BY <1>3
  <2>2. /\ asked[b].times \in Nat /\ asked[b].failed \in Nat
        /\ asked[a].times \in Nat /\ asked[a].failed \in Nat
    BY <1>3 DEF GateTypes
  <2>3. CASE b # a
    <3>1. (\A t \in asking' : t.at # b) => \A t \in asking : t.at # b
      BY <1>11, <2>3
    <3>2. QED
      BY <1>10, <1>12, <2>1, <2>3, <3>1 DEF AskedRight
  <2>4. CASE b = a /\ answer = "failed"
    BY <1>8, <1>10, <1>12, <2>1, <2>2, <2>4 DEF AskedRight
  <2>5. CASE b = a /\ answer # "failed"
    BY <1>5, <1>8, <1>10, <1>12, <2>1, <2>2, <2>5 DEF AskedRight
  <2>6. QED
    BY <2>3, <2>4, <2>5
<1>17. Door!BansAreSeen'
  BY <1>2, <1>3 DEF Door!BansAreSeen
<1>18. ASSUME NEW d \in here PROVE Personal(d)'
  <2>1. /\ d \in Clients /\ Personal(d) /\ addr' = addr /\ authed' = authed /\ returned' = returned
        /\ checked' = checked /\ located' = located /\ queue' = queue
        /\ entries' = entries /\ fetching' = fetching
    BY <1>2, <1>3 DEF GateTypes
  <2>2. /\ d \in mine => vetted'[d] = addr[d]
        /\ d \notin mine => vetted'[d] = vetted[d]
        /\ out'[d] = "in" => out[d] = "in"
        /\ d \in mine /\ out'[d] = "in" => Handled(d, a, flagged)
    BY <1>6, <1>7, <1>13, <1>18, <2>1
  <2>3. Followed(d)'
    <3>1. CASE d \in mine
      BY <2>1, <2>2, <3>1 DEF Personal, Followed, Door!Seen
    <3>2. CASE d \notin mine
      <4>1. \A t \in asking : t.who = d => t \in asking'
        BY <1>11, <3>2
      <4>2. QED
        BY <2>1, <2>2, <3>2, <4>1 DEF Personal, Followed, Door!Seen
    <3>3. QED
      BY <3>1, <3>2
  <2>4. OffTheList(d)'
    BY <2>1, <2>2 DEF Personal, OffTheList, Handled
  <2>5. OffTheNetworks(d)'
    BY <2>1, <2>2 DEF Personal, OffTheNetworks, Handled, Door!Exempt
  <2>6. FromElsewhere(d)'
    BY <2>1, <2>2 DEF Personal, FromElsewhere, Door!Placed, Door!Exempt
  <2>7. NoProxy(d)'
    <3>1. SUFFICES ASSUME d \notin returned, addr[d] # "none", checked[d] = addr[d], ~Door!Exempt(d),
                          asked'[addr[d]].failed = 0
                   PROVE  /\ lookups'[addr[d]] = "unknown" => [who |-> d, at |-> addr[d]] \in asking'
                          /\ lookups'[addr[d]] = "flagged" => out'[d] # "in"
      BY <2>1 DEF NoProxy, Door!Exempt
    <3>2. addr[d] \in Addresses
      BY <1>3, <2>1, <3>1 DEF GateTypes, Door!Places
    <3>3. CASE addr[d] # a
      <4>1. /\ asked[addr[d]].failed = 0 /\ lookups'[addr[d]] = lookups[addr[d]]
        BY <1>10, <3>1, <3>2, <3>3
      <4>2. /\ lookups[addr[d]] = "unknown" => [who |-> d, at |-> addr[d]] \in asking
            /\ lookups[addr[d]] = "flagged" => out[d] # "in"
        BY <2>1, <3>1, <4>1 DEF Personal, NoProxy
      <4>3. [who |-> d, at |-> addr[d]] \in asking => [who |-> d, at |-> addr[d]] \in asking'
        BY <1>11, <3>3
      <4>4. QED
        BY <2>2, <4>1, <4>2, <4>3
    <3>4. CASE addr[d] = a
      <4>1. answer # "failed"
        <5>1. asked[a].failed \in Nat
          BY <1>3 DEF GateTypes
        <5>2. QED
          BY <1>10, <3>1, <3>4, <5>1
      <4>2. asked[a].failed = 0 /\ lookups'[a] = answer
        BY <1>10, <3>1, <3>4, <4>1
      <4>3. [who |-> d, at |-> a] \in asking
        BY <1>8, <2>1, <3>1, <3>4, <4>2 DEF Personal, NoProxy
      <4>4. d \in mine
        BY <4>3 DEF mine
      <4>5. flagged => out'[d] # "in"
        BY <2>2, <3>4, <4>4 DEF Handled
      <4>6. QED
        BY <1>5, <3>4, <4>1, <4>2, <4>5
    <3>5. QED
      BY <3>3, <3>4
  <2>8. QED
    BY <2>3, <2>4, <2>5, <2>6, <2>7 DEF Personal
<1>19. QED
  BY ONLY <1>2, <1>6, <1>14, <1>15, <1>16, <1>17, <1>18 DEF GateInv

\* What a move is for those who do not move, and for the types.
LEMMA MovesOne ==
  ASSUME GateTypes, NEW c \in Clients, NEW a \in Door!Places, Door!Moves(c, a)
  PROVE  /\ addr' \in [Clients -> Door!Places] /\ returned' \subseteq Clients
         /\ \A d \in Clients : d # c => addr'[d] = addr[d]
         /\ returned \subseteq returned'
  BY DEF GateTypes, Door!Moves

\* What is so as long as nothing but the roster changes.
RosterOnly ==
    UNCHANGED <<asking, checked, vetted, located, lookups, asked, entries, fetching, banned, barred, out>>

LEMMA RosterTypes ==
  ASSUME GateTypes, RosterOnly, addr' \in [Clients -> Door!Places], returned' \subseteq Clients,
         queue' \in Seq(Happenings), here' \subseteq Clients, gone' \subseteq Clients,
         here' \cap gone' = {}
  PROVE  GateTypes'
  BY DEF GateTypes, RosterOnly, Door!Places, Outs

LEMMA RosterRest ==
  ASSUME GateInv, RosterOnly, queue' \in Seq(Happenings), Noted(queue) \subseteq Noted(queue')
  PROVE  (\A a \in Addresses : AskedRight(a)') /\ Door!BansAreSeen' /\ Moved(out, out')
<1>1. ASSUME NEW a \in Addresses PROVE AskedRight(a)'
  BY AskStays DEF GateInv, RosterOnly
<1>2. Door!BansAreSeen'
  BY BansStay DEF GateInv, RosterOnly
<1>3. Moved(out, out')
  BY MovedNot DEF RosterOnly
<1>4. QED
  BY <1>1, <1>2, <1>3

LEMMA RosterStays ==
  ASSUME GateInv, RosterOnly, Noted(queue) \subseteq Noted(queue'), NEW d \in here,
         addr'[d] = addr[d], (d \in authed') <=> (d \in authed), returned \subseteq returned'
  PROVE  Personal(d)'
<1>1. Unmoved(d) /\ Unchanging /\ Personal(d)
  BY DEF RosterOnly, Unmoved, LeftAlone, Unchanging, GateInv
<1>2. QED
  BY <1>1, PersonStays

LEMMA GateJoin ==
  ASSUME GateNumbers, GateInv, NEW c \in Clients, NEW a \in Addresses \cup {"none"}, NEW known \in BOOLEAN,
         Door!Join(c, a, known)
  PROVE  GateInv' /\ Moved(out, out')
<1>1. /\ c \notin here \cup gone /\ Door!Free(Slot[c])
      /\ here' = here \cup {c} /\ Door!Moves(c, a) /\ gone' = gone
      /\ authed' = IF known THEN authed \cup {c} ELSE authed
      /\ queue' = IF known THEN Append(queue, Door!Seen(c)) ELSE queue
      /\ RosterOnly
  BY DEF Door!Join, Door!Comes, RosterOnly, Door!seenVars, Door!serviceVars, Door!listVars
<1>2. /\ GateTypes /\ WhoIsWho /\ a \in Door!Places /\ queue \in Seq(Happenings)
      /\ here \subseteq Clients /\ gone \subseteq Clients /\ here \cap gone = {}
  BY DEF GateInv, GateTypes, Door!Places
<1>3. /\ addr' \in [Clients -> Door!Places] /\ returned' \subseteq Clients
      /\ \A d \in Clients : d # c => addr'[d] = addr[d]
      /\ returned \subseteq returned'
  BY <1>1, <1>2, MovesOne
<1>4. /\ queue' \in Seq(Happenings) /\ Noted(queue) \subseteq Noted(queue')
      /\ Noted(queue') \subseteq Noted(queue) \cup {Door!Seen(c)}
      /\ known => Door!Seen(c) \in Noted(queue')
  <2>1. Door!Seen(c) \in Happenings
    BY DEF Door!Seen, Happenings, Door!Places
  <2>2. /\ Append(queue, Door!Seen(c)) \in Seq(Happenings)
        /\ Noted(Append(queue, Door!Seen(c))) = Noted(queue) \cup {Door!Seen(c)}
    BY <1>2, <2>1, NotedMore
  <2>3. QED
    BY <1>1, <1>2, <2>2
<1>5. GateTypes'
  <2>1. here' \subseteq Clients /\ gone' \subseteq Clients /\ here' \cap gone' = {}
    BY <1>1, <1>2
  <2>2. QED
    BY <1>1, <1>2, <1>3, <1>4, <2>1, RosterTypes
<1>6. WhoIsWho'
  <2>1. \A e \in Noted(queue') :
          /\ e.type \in {"seen", "placed"} => e.who \in here' \cup gone'
          /\ e.type = "left" => e.who \in gone'
    BY <1>1, <1>2, <1>4 DEF WhoIsWho, Door!Seen
  <2>2. \A t \in asking' : t.who \in here' \cup gone'
    BY <1>1, <1>2 DEF WhoIsWho, RosterOnly
  <2>3. \A p \in here', q \in here' : Slot[p] = Slot[q] => p = q
    BY <1>1, <1>2 DEF WhoIsWho, Door!Free
  <2>4. authed' \subseteq here' \cup gone'
    BY <1>1, <1>2 DEF WhoIsWho
  <2>5. \A d \in Clients : d \notin here' \cup gone' =>
           checked'[d] = "none" /\ vetted'[d] = "none" /\ located'[d] = "none"
    BY <1>1, <1>2 DEF WhoIsWho, RosterOnly
  <2>6. QED
    BY <2>1, <2>2, <2>3, <2>4, <2>5 DEF WhoIsWho
<1>7. (\A b \in Addresses : AskedRight(b)') /\ Door!BansAreSeen' /\ Moved(out, out')
  BY <1>1, <1>4, RosterRest
<1>8. ASSUME NEW d \in here' PROVE Personal(d)'
  <2>1. CASE d = c
    <3>1. c \in authed' => Door!Seen(c) \in Noted(queue')
      BY <1>1, <1>2, <1>4 DEF WhoIsWho
    <3>2. checked' = checked /\ vetted' = vetted /\ located' = located
      BY <1>1 DEF RosterOnly
    <3>3. QED
      BY <1>1, <1>2, <2>1, <3>1, <3>2, PersonComes
  <2>2. CASE d # c
    <3>1. d \in here /\ addr'[d] = addr[d] /\ ((d \in authed') <=> (d \in authed))
      BY <1>1, <1>2, <1>3, <2>2
    <3>2. QED
      BY <1>1, <1>3, <1>4, <3>1, RosterStays
  <2>3. QED
    BY <2>1, <2>2
<1>9. QED
  BY <1>5, <1>6, <1>7, <1>8 DEF GateInv

LEMMA GateLeave ==
  ASSUME GateNumbers, GateInv, NEW c \in Clients, Door!Leave(c)
  PROVE  GateInv' /\ Moved(out, out')
<1>1. /\ c \in here /\ here' = here \ {c} /\ gone' = gone \cup {c} /\ Door!Forget(c)
      /\ UNCHANGED <<addr, authed, returned, queue, asking, vetted, lookups, asked, entries, fetching,
                     banned, barred, out>>
  BY DEF Door!Leave, Door!serviceVars, Door!listVars
<1>2. /\ GateTypes /\ WhoIsWho /\ Door!BansAreSeen
  BY DEF GateInv
<1>3. GateTypes'
  BY <1>1, <1>2 DEF GateTypes, Door!Forget, Door!Places, Outs
<1>4. \A d \in Clients : d # c => checked'[d] = checked[d] /\ located'[d] = located[d]
  BY <1>1, <1>2 DEF Door!Forget, GateTypes
<1>5. WhoIsWho'
  BY <1>1, <1>2, <1>4 DEF WhoIsWho
<1>6. ASSUME NEW b \in Addresses PROVE AskedRight(b)'
  BY <1>1, AskStays DEF GateInv
<1>7. Door!BansAreSeen'
  BY <1>1, <1>2 DEF Door!BansAreSeen
<1>8. ASSUME NEW d \in here' PROVE Personal(d)'
  <2>1. d \in here /\ d \in Clients /\ d # c
    BY <1>1, <1>2 DEF GateTypes
  <2>2. Unmoved(d) /\ Unchanging
    BY <1>1, <1>4, <2>1 DEF Unmoved, LeftAlone, Unchanging
  <2>3. QED
    BY <2>1, <2>2, PersonStays DEF GateInv
<1>9. QED
  BY <1>1, <1>3, <1>5, <1>6, <1>7, <1>8, MovedNot DEF GateInv

LEMMA GateMoving ==
  ASSUME GateNumbers, GateInv, NEW c \in here, NEW a \in Addresses, Door!Moves(c, a), RosterOnly,
         here' = here, gone' = gone, authed' \in {authed, authed \cup {c}},
         queue' \in Seq(Happenings), Noted(queue') = Noted(queue) \cup {Door!Seen(c)}
  PROVE  GateInv' /\ Moved(out, out')
<1>1. /\ GateTypes /\ WhoIsWho /\ a \in Door!Places /\ c \in Clients
      /\ here \subseteq Clients /\ gone \subseteq Clients /\ here \cap gone = {}
  BY DEF GateInv, GateTypes, Door!Places
<1>2. /\ addr' \in [Clients -> Door!Places] /\ returned' \subseteq Clients
      /\ \A d \in Clients : d # c => addr'[d] = addr[d]
      /\ returned \subseteq returned'
  BY <1>1, MovesOne
<1>3. GateTypes'
  BY <1>1, <1>2, RosterTypes
<1>4. WhoIsWho'
  BY <1>1 DEF WhoIsWho, Door!Seen, RosterOnly
<1>5. (\A b \in Addresses : AskedRight(b)') /\ Door!BansAreSeen' /\ Moved(out, out')
  BY RosterRest
<1>6. ASSUME NEW d \in here' PROVE Personal(d)'
  <2>1. CASE d = c
    <3>1. UNCHANGED <<asking, checked, vetted, located, lookups, asked, entries, fetching, out>>
      BY DEF RosterOnly
    <3>2. Personal(c)
      BY DEF GateInv
    <3>3. QED
      BY <1>1, <2>1, <3>1, <3>2, PersonMoves
  <2>2. CASE d # c
    <3>1. d \in here /\ addr'[d] = addr[d] /\ ((d \in authed') <=> (d \in authed))
      BY <1>1, <1>2, <2>2
    <3>2. QED
      BY <1>2, <3>1, RosterStays
  <2>3. QED
    BY <2>1, <2>2
<1>7. QED
  BY <1>3, <1>4, <1>5, <1>6 DEF GateInv

LEMMA GateOnResolved ==
  ASSUME GateNumbers, GateInv, NEW c \in Clients, NEW a \in Addresses, Door!OnResolved(c, a)
  PROVE  GateInv' /\ Moved(out, out')
<1> DEFINE more == IF c \in authed THEN <<Door!Seen(c)>> ELSE <<Door!Seen(c), Door!Seen(c)>>
<1>1. /\ c \in here /\ Door!Moves(c, a) /\ authed' = authed \cup {c} /\ queue' = queue \o more
      /\ here' = here /\ gone' = gone /\ RosterOnly
  BY DEF Door!OnResolved, Door!Comes, RosterOnly, Door!seenVars, Door!serviceVars, Door!listVars
<1>2. Door!Seen(c) \in Happenings /\ queue \in Seq(Happenings)
  BY DEF Door!Seen, Happenings, Door!Places, GateInv, GateTypes
<1>3. more \in Seq(Happenings) /\ Noted(more) = {Door!Seen(c)}
  <2>1. CASE c \in authed
    BY <1>2, <2>1, NotedOne
  <2>2. CASE c \notin authed
    <3>1. more = <<Door!Seen(c), Door!Seen(c)>>
      BY <2>2
    <3>2. more \in Seq(Happenings) /\ Len(more) = 2 /\ more[1] = Door!Seen(c) /\ more[2] = Door!Seen(c)
      BY <1>2, <3>1
    <3>3. 1..2 = {1, 2}
      OBVIOUS
    <3> HIDE DEF more
    <3>4. QED
      BY <3>2, <3>3 DEF Noted
  <2>3. QED
    BY <2>1, <2>2
<1> HIDE DEF more
<1>4. queue' \in Seq(Happenings) /\ Noted(queue') = Noted(queue) \cup {Door!Seen(c)}
  <2>1. queue \o more \in Seq(Happenings) /\ Noted(queue \o more) = Noted(queue) \cup Noted(more)
    BY ONLY <1>2, <1>3, NotedBoth
  <2>2. QED
    BY <1>1, <1>3, <2>1
<1>5. QED
  BY <1>1, <1>4, GateMoving

LEMMA GateSyncMoves ==
  ASSUME GateNumbers, GateInv, NEW c \in Clients, NEW a \in Addresses, Door!SyncMoves(c, a)
  PROVE  GateInv' /\ Moved(out, out')
<1>1. /\ c \in here /\ Door!Moves(c, a) /\ authed' = authed /\ queue' = Append(queue, Door!Seen(c))
      /\ here' = here /\ gone' = gone /\ RosterOnly
  BY DEF Door!SyncMoves, RosterOnly, Door!seenVars, Door!serviceVars, Door!listVars
<1>2. Door!Seen(c) \in Happenings /\ queue \in Seq(Happenings)
  BY DEF Door!Seen, Happenings, Door!Places, GateInv, GateTypes
<1>3. queue' \in Seq(Happenings) /\ Noted(queue') = Noted(queue) \cup {Door!Seen(c)}
  BY <1>1, <1>2, NotedMore
<1>4. QED
  BY <1>1, <1>3, GateMoving

LEMMA GateSyncDrops ==
  ASSUME GateNumbers, GateInv, NEW c \in Clients, NEW a \in Addresses,
         NEW others \in {{}} \cup {{d} : d \in Clients}, Door!SyncDrops(c, others, a)
  PROVE  GateInv' /\ Moved(out, out')
<1> DEFINE heard == {Door!Seen(d) : d \in others}
<1>1. /\ c \in here /\ here' = (here \ {c}) \cup others /\ gone' = gone \cup {c}
      /\ \A d \in others : d \notin here \cup gone /\ Slot[d] = Slot[c]
      /\ queue' = queue \o <<Door!Left(c)>> \o Door!SetToSeq(heard)
      /\ RosterOnly
  BY DEF Door!SyncDrops, RosterOnly, Door!seenVars, Door!serviceVars, Door!listVars
<1>2. /\ GateTypes /\ WhoIsWho /\ a \in Door!Places /\ queue \in Seq(Happenings)
      /\ here \subseteq Clients /\ gone \subseteq Clients /\ here \cap gone = {}
      /\ \A d \in here : Personal(d)
  BY DEF GateInv, GateTypes, Door!Places
<1>3. others \subseteq Clients /\ (others = {} \/ \E d \in Clients : others = {d})
  OBVIOUS
<1>4. /\ addr' \in [Clients -> Door!Places] /\ returned' \subseteq Clients
      /\ \A d \in Clients \ others : addr'[d] = addr[d]
      /\ returned \subseteq returned' /\ authed' = authed \cup others
  <2>1. CASE others = {}
    <3>1. UNCHANGED <<addr, authed, returned>>
      BY <2>1 DEF Door!SyncDrops
    <3>2. QED
      BY <1>2, <2>1, <3>1 DEF GateTypes
  <2>2. ASSUME NEW d \in Clients, others = {d} PROVE <1>4!:
    <3>1. Door!Moves(d, a) /\ authed' = authed \cup {d}
      BY <2>2 DEF Door!SyncDrops, Door!Comes
    <3>2. QED
      BY <1>2, <2>2, <3>1, MovesOne
  <2>3. QED
    BY <1>3, <2>1, <2>2
<1>5. Door!SetToSeq(heard) \in Seq(Happenings) /\ Noted(Door!SetToSeq(heard)) = heard
  <2>1. CASE others = {}
    <3>1. heard = {}
      BY <2>1
    <3> HIDE DEF heard
    <3>2. QED
      BY <3>1, SeqOfNone
  <2>2. ASSUME NEW d \in Clients, others = {d} PROVE <1>5!:
    <3>1. heard = {Door!Seen(d)} /\ Door!Seen(d) \in Happenings
      BY <2>2 DEF Door!Seen, Happenings, Door!Places
    <3> HIDE DEF heard
    <3>2. QED
      BY <3>1, SeqOfOne
  <2>3. QED
    BY <1>3, <2>1, <2>2
<1>6. queue' \in Seq(Happenings) /\ Noted(queue') = Noted(queue) \cup {Door!Left(c)} \cup heard
  <2>1. Door!Left(c) \in Happenings
    BY DEF Door!Left, Happenings, Door!Places
  <2>2. <<Door!Left(c)>> \in Seq(Happenings) /\ Noted(<<Door!Left(c)>>) = {Door!Left(c)}
    BY <2>1, NotedOne
  <2> DEFINE more == <<Door!Left(c)>>
             q1 == queue \o more
             q2 == Door!SetToSeq(heard)
  <2>3. queue' = q1 \o q2
    BY <1>1
  <2>4. more \in Seq(Happenings) /\ q2 \in Seq(Happenings)
        /\ Noted(more) = {Door!Left(c)} /\ Noted(q2) = heard
    BY <1>5, <2>2
  <2> HIDE DEF more, q2
  <2>5. q1 \in Seq(Happenings) /\ Noted(q1) = Noted(queue) \cup Noted(more)
    BY ONLY <1>2, <2>4, NotedBoth DEF q1
  <2> HIDE DEF q1
  <2>6. q1 \o q2 \in Seq(Happenings) /\ Noted(q1 \o q2) = Noted(q1) \cup Noted(q2)
    BY ONLY <2>4, <2>5, NotedBoth
  <2>7. QED
    BY <2>3, <2>4, <2>5, <2>6
<1>7. GateTypes'
  <2>1. here' \subseteq Clients /\ gone' \subseteq Clients /\ here' \cap gone' = {}
    BY <1>1, <1>2, <1>3
  <2>2. QED
    BY <1>1, <1>2, <1>4, <1>6, <2>1, RosterTypes
<1>8. here' \cup gone' = here \cup gone \cup others /\ c \in gone' /\ gone \subseteq gone'
  BY <1>1
<1>9. WhoIsWho'
  <2>1. \A e \in Noted(queue') :
          /\ e.type \in {"seen", "placed"} => e.who \in here' \cup gone'
          /\ e.type = "left" => e.who \in gone'
    BY <1>2, <1>6, <1>8 DEF WhoIsWho, Door!Seen, Door!Left
  <2>2. \A t \in asking' : t.who \in here' \cup gone'
    BY <1>1, <1>2, <1>8 DEF WhoIsWho, RosterOnly
  <2>3. \A p \in here', q \in here' : Slot[p] = Slot[q] => p = q
    BY <1>1, <1>2, <1>3 DEF WhoIsWho
  <2>4. authed' \subseteq here' \cup gone'
    BY <1>2, <1>4, <1>8 DEF WhoIsWho
  <2>5. \A d \in Clients : d \notin here' \cup gone' =>
           checked'[d] = "none" /\ vetted'[d] = "none" /\ located'[d] = "none"
    BY <1>1, <1>2, <1>8 DEF WhoIsWho, RosterOnly
  <2>6. QED
    BY <2>1, <2>2, <2>3, <2>4, <2>5 DEF WhoIsWho
<1>10. (\A b \in Addresses : AskedRight(b)') /\ Door!BansAreSeen' /\ Moved(out, out')
  BY <1>1, <1>6, RosterRest
<1>11. ASSUME NEW d \in here' PROVE Personal(d)'
  <2>1. CASE d \in others
    <3>1. Door!Seen(d) \in Noted(queue') /\ d \notin here \cup gone /\ d \in Clients
      BY <1>1, <1>3, <1>6, <2>1
    <3>2. checked' = checked /\ vetted' = vetted /\ located' = located
      BY <1>1 DEF RosterOnly
    <3>3. QED
      BY <1>2, <3>1, <3>2, PersonComes
  <2>2. CASE d \notin others
    <3>1. d \in here /\ addr'[d] = addr[d] /\ ((d \in authed') <=> (d \in authed))
      BY <1>1, <1>2, <1>4, <2>2
    <3>2. QED
      BY <1>1, <1>4, <1>6, <3>1, RosterStays
  <2>3. QED
    BY <2>1, <2>2
<1>12. QED
  BY <1>7, <1>9, <1>10, <1>11 DEF GateInv

LEMMA GateDownload ==
  ASSUME GateNumbers, GateInv, NEW s, Door!Download(s)
  PROVE  GateInv' /\ Moved(out, out')
<1>1. /\ fetching' = TRUE
      /\ UNCHANGED <<here, gone, addr, authed, returned, queue, asking, checked, vetted, located,
                     lookups, asked, banned, barred, out>>
  BY DEF Door!Download, Door!rosterVars, Door!seenVars, Door!serviceVars
<1>2. GateTypes' /\ WhoIsWho' /\ Door!BansAreSeen'
  <2>1. GateTypes /\ WhoIsWho /\ Door!BansAreSeen
    BY DEF GateInv
  <2>2. GateTypes'
    BY <1>1, <2>1 DEF GateTypes, Outs, Door!Places
  <2>3. WhoIsWho'
    BY <1>1, <2>1 DEF WhoIsWho
  <2>4. Door!BansAreSeen'
    BY <1>1, <2>1 DEF Door!BansAreSeen
  <2>5. QED
    BY <2>2, <2>3, <2>4
<1>3. ASSUME NEW b \in Addresses PROVE AskedRight(b)'
  BY <1>1, AskStays DEF GateInv
<1>4. ASSUME NEW d \in here' PROVE Personal(d)'
  <2>1. Personal(d) /\ LeftAlone(d)
    BY <1>1 DEF GateInv, LeftAlone
  <2>2. Followed(d)'
    BY <1>1, <2>1, StaysFollowed DEF Personal
  <2>3. OffTheList(d)'
    BY <1>1 DEF OffTheList
  <2>4. OffTheNetworks(d)'
    BY <2>1, StaysOffTheNetworks DEF Personal
  <2>5. FromElsewhere(d)'
    BY <1>1, <2>1, StaysPlaced DEF Personal
  <2>6. NoProxy(d)'
    BY <1>1, <2>1, StaysNoProxy DEF Personal
  <2>7. QED
    BY <2>2, <2>3, <2>4, <2>5, <2>6 DEF Personal
<1>5. QED
  BY <1>1, <1>2, <1>3, <1>4, MovedNot DEF GateInv

LEMMA GateRefreshAll == ASSUME GateNumbers, GateInv, Door!RefreshAll PROVE GateInv' /\ Moved(out, out')
<1>1. /\ out' = Door!CheckEverybody
      /\ UNCHANGED <<here, gone, addr, authed, returned, queue, asking, checked, vetted, located,
                     lookups, asked, entries, banned, barred>>
  <2>1. UNCHANGED <<Door!rosterVars, queue, asking, Door!seenVars, Door!serviceVars, entries, banned,
                    barred>>
    BY DEF Door!RefreshAll
  <2>2. out' = Door!CheckEverybody
    BY DEF Door!RefreshAll
  <2>3. QED
    BY <2>1, <2>2 DEF Door!rosterVars, Door!seenVars, Door!serviceVars
<1>2. GateTypes /\ WhoIsWho /\ Door!BansAreSeen
  BY DEF GateInv
<1>3. /\ out' \in Outs /\ Moved(out, out')
      /\ \A c \in here : out'[c] = "in" => addr[c] \notin entries \/ c \in Immune \cap authed
  BY <1>1, <1>2, CheckAll
<1>4. GateTypes' /\ WhoIsWho' /\ Door!BansAreSeen'
  <2>1. GateTypes'
    BY <1>1, <1>2, <1>3 DEF GateTypes, Outs, Door!Places
  <2>2. WhoIsWho'
    BY <1>1, <1>2 DEF WhoIsWho
  <2>3. Door!BansAreSeen'
    BY <1>1, <1>2 DEF Door!BansAreSeen
  <2>4. QED
    BY <2>1, <2>2, <2>3
<1>5. ASSUME NEW b \in Addresses PROVE AskedRight(b)'
  BY <1>1, AskStays DEF GateInv
<1>6. ASSUME NEW d \in here' PROVE Personal(d)'
  <2>1. d \in here /\ d \in Clients /\ Personal(d)
    BY <1>1 DEF GateInv, GateTypes
  <2>2. LeftAlone(d)
    BY <1>1, <1>3, <2>1 DEF Moved, LeftAlone
  <2>3. Followed(d)'
    BY <1>1, <2>1, <2>2, StaysFollowed DEF Personal
  <2>4. OffTheList(d)'
    BY <1>1, <1>3, <2>1 DEF OffTheList
  <2>5. OffTheNetworks(d)'
    BY <2>1, <2>2, StaysOffTheNetworks DEF Personal
  <2>6. FromElsewhere(d)'
    BY <1>1, <2>1, <2>2, StaysPlaced DEF Personal
  <2>7. NoProxy(d)'
    BY <1>1, <2>1, <2>2, StaysNoProxy DEF Personal
  <2>8. QED
    BY <2>3, <2>4, <2>5, <2>6, <2>7 DEF Personal
<1>7. QED
  BY <1>3, <1>4, <1>5, <1>6 DEF GateInv

LEMMA GateBans ==
  ASSUME GateNumbers, GateInv, NEW s, Door!Bans(s)
  PROVE  GateInv' /\ Moved(out, out')
<1>1. /\ queue' = Append(queue, Door!BansChanged)
      /\ UNCHANGED <<here, gone, addr, authed, returned, asking, checked, vetted, located, lookups,
                     asked, entries, fetching, barred, out>>
  BY DEF Door!Bans, Door!rosterVars, Door!seenVars, Door!serviceVars
<1>2. GateTypes /\ WhoIsWho
  BY DEF GateInv
<1>3. queue' \in Seq(Happenings) /\ Noted(queue') = Noted(queue) \cup {Door!BansChanged}
  <2>1. queue \in Seq(Happenings) /\ Door!BansChanged \in Happenings
    BY <1>2 DEF GateTypes, Happenings
  <2>2. QED
    BY <1>1, <2>1, NotedMore
<1>4. GateTypes'
  BY <1>1, <1>2, <1>3 DEF GateTypes, Outs, Door!Places
<1>5. WhoIsWho'
  <2>1. \A e \in Noted(queue') : e \in Noted(queue) \/ e.type = "bans"
    BY <1>3 DEF Door!BansChanged
  <2>2. \A t \in asking' : t.who \in here \cup gone
    BY <1>1, <1>2 DEF WhoIsWho
  <2>3. QED
    BY <1>1, <1>2, <2>1, <2>2, WhoStays
<1>6. Door!BansAreSeen'
  <2>1. Door!Range(queue') = Noted(queue')
    BY <1>3, NotedIsRange
  <2>2. Door!BansChanged \in Door!Range(queue)'
    BY <1>3, <2>1
  <2>3. QED
    BY <2>2 DEF Door!BansAreSeen, Door!BansChanged
<1>7. ASSUME NEW b \in Addresses PROVE AskedRight(b)'
  BY <1>1, AskStays DEF GateInv
<1>8. ASSUME NEW d \in here' PROVE Personal(d)'
  <2>1. d \in here /\ Personal(d) /\ Unmoved(d) /\ Unchanging
    BY <1>1, <1>3 DEF GateInv, Unmoved, LeftAlone, Unchanging
  <2>2. QED
    BY <2>1, PersonStays
<1>9. QED
  BY <1>1, <1>4, <1>5, <1>6, <1>7, <1>8, MovedNot DEF GateInv

LEMMA GateFirst == ASSUME GateNumbers, Door!Init PROVE GateInv
<1>1. /\ here = {} /\ gone = {} /\ authed = {} /\ returned = {} /\ queue = <<>> /\ asking = {}
      /\ addr = [c \in Clients |-> "none"] /\ checked = [c \in Clients |-> "none"]
      /\ vetted = checked /\ located = checked
      /\ lookups = [a \in Addresses |-> "unknown"]
      /\ asked = [a \in Addresses |-> [times |-> 0, failed |-> 0]]
      /\ barred = {} /\ out = [c \in Clients |-> "in"]
  BY DEF Door!Init
<1>2. Noted(queue) = {} /\ queue \in Seq(Happenings)
  BY <1>1, NotedNone
<1>3. GateTypes
  BY <1>1, <1>2 DEF GateTypes, Outs, Fates, Door!Places
<1>4. WhoIsWho
  BY <1>1, <1>2 DEF WhoIsWho
<1>5. \A a \in Addresses : AskedRight(a)
  BY <1>1 DEF AskedRight
<1>6. Door!BansAreSeen
  BY <1>1 DEF Door!BansAreSeen
<1>7. QED
  BY <1>1, <1>3, <1>4, <1>5, <1>6 DEF GateInv

LEMMA GateNext == ASSUME GateNumbers, GateInv, [Door!Next]_(Door!gateVars) PROVE GateInv' /\ Moved(out, out')
<1>1. CASE Door!OnSeen
  BY <1>1, GateOnSeen
<1>2. CASE Door!OnDisconnect
  BY <1>2, GateOnDisconnect
<1>3. CASE Door!OnLocated
  BY <1>3, GateOnLocated
<1>4. CASE Door!OnBansChanged
  BY <1>4, GateOnBansChanged
<1>5. CASE Door!RefreshAll
  BY <1>5, GateRefreshAll
<1>6. ASSUME NEW c \in Clients, Door!Leave(c) PROVE GateInv' /\ Moved(out, out')
  BY <1>6, GateLeave
<1>7. ASSUME NEW c \in Clients, NEW a \in Addresses, Door!OnResolved(c, a)
      PROVE  GateInv' /\ Moved(out, out')
  BY <1>7, GateOnResolved
<1>8. ASSUME NEW c \in Clients, NEW a \in Addresses, Door!SyncMoves(c, a)
      PROVE  GateInv' /\ Moved(out, out')
  BY <1>8, GateSyncMoves
<1>9. ASSUME NEW c \in Clients, NEW a \in Addresses \cup {"none"}, NEW known \in BOOLEAN,
             Door!Join(c, a, known)
      PROVE  GateInv' /\ Moved(out, out')
  BY <1>9, GateJoin
<1>10. ASSUME NEW c \in Clients, NEW a \in Addresses, NEW others \in {{}} \cup {{d} : d \in Clients},
              Door!SyncDrops(c, others, a)
       PROVE  GateInv' /\ Moved(out, out')
  BY <1>10, GateSyncDrops
<1>11. ASSUME NEW a \in Addresses, NEW x \in Door!AnswerTo(a), Door!Answer(a, x)
       PROVE  GateInv' /\ Moved(out, out')
  BY <1>11, GateAnswer
<1>12. ASSUME NEW s, Door!Download(s) PROVE GateInv' /\ Moved(out, out')
  BY <1>12, GateDownload
<1>13. ASSUME NEW s, Door!Bans(s) PROVE GateInv' /\ Moved(out, out')
  BY <1>13, GateBans
<1>14. CASE UNCHANGED Door!gateVars
  <2>1. UNCHANGED <<here, gone, addr, authed, queue, asking, draining, checked, vetted, located,
                    lookups, asked, entries, fetching, banned, barred, out, changes, returned>>
    BY <1>14 DEF Door!gateVars
  <2>2. GateTypes' /\ WhoIsWho' /\ Door!BansAreSeen'
    <3>1. GateTypes /\ WhoIsWho /\ Door!BansAreSeen
      BY DEF GateInv
    <3>2. GateTypes'
      BY <2>1, <3>1 DEF GateTypes, Outs, Door!Places
    <3>3. WhoIsWho'
      BY <2>1, <3>1 DEF WhoIsWho
    <3>4. Door!BansAreSeen'
      BY <2>1, <3>1 DEF Door!BansAreSeen
    <3>5. QED
      BY <3>2, <3>3, <3>4
  <2>3. ASSUME NEW b \in Addresses PROVE AskedRight(b)'
    BY <2>1, AskStays DEF GateInv
  <2>4. ASSUME NEW d \in here' PROVE Personal(d)'
    <3>1. d \in here /\ Personal(d) /\ Unmoved(d) /\ Unchanging
      BY <2>1 DEF GateInv, Unmoved, LeftAlone, Unchanging
    <3>2. QED
      BY <3>1, PersonStays
  <2>5. QED
    BY <2>1, <2>2, <2>3, <2>4, MovedNot DEF GateInv
<1>15. QED
  BY ONLY <1>1, <1>2, <1>3, <1>4, <1>5, <1>6, <1>7, <1>8, <1>9, <1>10, <1>11, <1>12, <1>13, <1>14,
          [Door!Next]_(Door!gateVars) DEF Door!Next

LEMMA GateSays == ASSUME GateInv PROVE Door!AskedOnce /\ Door!NobodyListedStays /\ Door!BansAreSeen
<1>1. Door!AskedOnce
  BY DEF GateInv, AskedRight, GateTypes, Door!AskedOnce
<1>2. ASSUME Door!Quiet, NEW c \in here \cap authed, out[c] = "in", addr[c] # "none"
      PROVE  /\ checked[c] = addr[c] /\ vetted[c] = addr[c]
             /\ addr[c] \in entries => c \in Immune \cup returned
             /\ addr[c] \in Blocked \/ located[c] \in Refused => Door!Exempt(c)
             /\ lookups[addr[c]] = "flagged" =>
                   Door!Exempt(c) \/ c \in returned \/ asked[addr[c]].failed > 0
  <2>1. Noted(queue) = {} /\ asking = {} /\ ~fetching
    BY <1>2, NotedNone DEF Door!Quiet
  <2>2. Personal(c) /\ c \in Clients /\ addr[c] \in Addresses
    BY <1>2 DEF GateInv, GateTypes, Door!Places
  <2>3. asked[addr[c]].failed \in Nat
    BY <2>2 DEF GateInv, GateTypes
  <2>4. checked[c] = addr[c] /\ vetted[c] = addr[c]
    BY <1>2, <2>1, <2>2 DEF Personal, Followed
  <2>5. addr[c] \in entries => c \in Immune \cup returned
    BY <1>2, <2>1, <2>2, <2>4 DEF Personal, OffTheList
  <2>6. addr[c] \in Blocked => Door!Exempt(c)
    BY <1>2, <2>2, <2>4 DEF Personal, OffTheNetworks
  <2>7. located[c] \in Refused => Door!Exempt(c)
    BY <1>2, <2>1, <2>2 DEF Personal, FromElsewhere
  <2>8. lookups[addr[c]] = "flagged" =>
           Door!Exempt(c) \/ c \in returned \/ asked[addr[c]].failed > 0
    BY <1>2, <2>2, <2>3, <2>4 DEF Personal, NoProxy
  <2>9. QED
    BY <2>4, <2>5, <2>6, <2>7, <2>8
<1>3. Door!NobodyListedStays
  BY <1>2 DEF Door!NobodyListedStays
<1>4. QED
  BY <1>1, <1>3 DEF GateInv

\* The service is asked about an address once, and once more for every failure; once nothing is under
\* way, whoever is let in was looked at where they are and is on no list that applies; and what was
\* last read of the bans is what is on record: for any players, addresses and lists.
\* (vpnblocker/__init__.py:427-451, banlist/__init__.py:351-384, ipban/__init__.py:88-128)
THEOREM TheGateIsKept ==
  ASSUME GateNumbers
  PROVE  Door!Spec => [](Door!AskedOnce /\ Door!NobodyListedStays /\ Door!BansAreSeen)
<1>1. Door!Init => GateInv
  BY GateFirst
<1>2. GateInv /\ [Door!Next]_(Door!gateVars) => GateInv'
  BY GateNext
<1>3. GateInv => Door!AskedOnce /\ Door!NobodyListedStays /\ Door!BansAreSeen
  BY GateSays
<1>4. QED
  BY <1>1, <1>2, <1>3, PTL DEF Door!Spec

\* Whoever is put out shares the slot with someone it was for, and for a proxy it is they who have
\* that address: however long the answer took, and whoever has the slot by then.
\* (vpnblocker/__init__.py:362-366)
THEOREM NobodyIsPutOutForNothing ==
  ASSUME GateNumbers PROVE Door!Spec => [][Door!PutOutForCause]_(Door!gateVars)
<1>1. Door!Init => GateInv
  BY GateFirst
<1>2. GateInv /\ [Door!Next]_(Door!gateVars) => GateInv'
  BY GateNext
<1>3. GateInv /\ [Door!Next]_(Door!gateVars) => Door!PutOutForCause
  <2>1. SUFFICES ASSUME GateInv, [Door!Next]_(Door!gateVars) PROVE Door!PutOutForCause
    OBVIOUS
  <2>2. Moved(out, out')
    BY <2>1, GateNext
  <2>3. QED
    BY <2>2 DEF Moved, Blamed, Door!PutOutForCause
<1>4. QED
  BY <1>1, <1>2, <1>3, PTL DEF Door!Spec

-----------------------------------------------------------------------------
(* Commands.                                                                  *)

USE PluginsAssumption, WordsAssumption, OffersAssumption, LevelsAssumption

-----------------------------------------------------------------------------
(* The invariant.                                                             *)

Of(p) == {Offers[p][i] : i \in DOMAIN Offers[p]}

Registries == [names : [Words -> Known \cup {Nobody}], commands : SUBSET Known,
               alias : [Known -> Words \cup {NoWord}], level : [Known -> Levels]]

\* Every word leads to a command that has it, every alias back to its own.
Agrees(r) ==
    /\ \A w \in Words : r.names[w] # Nobody =>
          r.names[w] \in r.commands /\ w \in {r.names[w].name, r.alias[r.names[w]]}
    /\ \A c \in r.commands : r.alias[c] # NoWord => r.names[r.alias[c]] = c

Sound == {r \in Registries : Agrees(r)}

\* A command that is not found by its name has not been registered: registering it
\* again would leave its old alias behind.
Awaiting(p) == {r \in Sound : \A c \in Of(p) : r.names[c.name] = Nobody => c \notin r.commands}

\* The commands of plugins that never started are not there.
Unknown(r, p) == r.commands \cap Of(p) = {}

Switched ==
    /\ SwitchedOffStaysOff
    /\ heldBack \cap switchedOff = {}
    /\ ~matchMode => heldBack = {}

Inv ==
    /\ TypeOK /\ registry \in Sound
    /\ \A p \in Plugins : ~started[p] => Unknown(registry, p)
    /\ Switched

-----------------------------------------------------------------------------
(* Folds of sequences.                                                        *)

LEMMA MaxIs ==
  ASSUME NEW n \in Nat, NEW s \in SUBSET (1..n), s # {}
  PROVE  Max(s) \in s /\ \A y \in s : Max(s) >= y
<1> DEFINE B == {n - x : x \in s}
<1>1. B \in SUBSET Nat /\ B # {}
  <2>1. \A x \in s : n - x \in Nat
    OBVIOUS
  <2>2. B \subseteq Nat
    BY <2>1
  <2>3. B # {}
    <3>1. PICK x \in s : TRUE
      OBVIOUS
    <3>2. n - x \in B
      OBVIOUS
    <3> QED
      BY ONLY <3>2
  <2> QED
    BY <2>2, <2>3
<1>2. PICK b \in B : \A m \in B : b <= m
  <2> HIDE DEF B
  <2> QED
    BY <1>1, Smallest
<1>3. PICK x \in s : b = n - x
  BY <1>2
<1>4. \A y \in s : x >= y
  <2>1. ASSUME NEW y \in s PROVE x >= y
    <3>1. n - y \in B
      OBVIOUS
    <3>2. n - x <= n - y
      BY <1>2, <1>3, <3>1
    <3>3. x \in 1..n /\ y \in 1..n
      OBVIOUS
    <3> QED
      BY <3>2, <3>3
  <2> QED
    BY <2>1
<1> QED
  BY <1>4 DEF Max

LEMMA Prefix ==
  ASSUME NEW n \in Nat, NEW k \in 1..n
  PROVE  1..k \in SUBSET (1..n) /\ 1..k # {} /\ Max(1..k) = k /\ (1..k) \ {k} = 1..(k - 1)
<1>1. 1..k \subseteq 1..n /\ (1..k) \ {k} = 1..(k - 1) /\ k \in 1..k
  OBVIOUS
<1>2. Max(1..k) \in 1..k /\ \A y \in 1..k : Max(1..k) >= y
  BY <1>1, MaxIs
<1> QED
  BY <1>1, <1>2

\* The function a fold is the last value of.
Folds(h, n, base, G) == \A s \in SUBSET (1..n) :
    h[s] = IF s = {} THEN base ELSE G[<<Max(s), h[s \ {Max(s)}]>>]

LEMMA Folding ==
  ASSUME NEW R, NEW n \in Nat, NEW base \in R, NEW G \in [(1..n) \X R -> R]
  PROVE  \E h \in [SUBSET (1..n) -> R] : Folds(h, n, base, G)
<1> DEFINE S == {k \in 0..n : \E h \in [SUBSET (1..k) -> R] : Folds(h, k, base, G)}
<1>1. 0 \in S
  <2>1. 1..0 = {} /\ \A s \in SUBSET (1..0) : s = {}
    OBVIOUS
  <2>2. \E h \in [SUBSET (1..0) -> R] : \A s \in SUBSET (1..0) : h[s] = base
    <3>1. [s \in SUBSET (1..0) |-> base] \in [SUBSET (1..0) -> R]
      OBVIOUS
    <3> QED
      BY <3>1
  <2>3. \E h \in [SUBSET (1..0) -> R] : Folds(h, 0, base, G)
    BY <2>1, <2>2 DEF Folds
  <2>4. 0 \in 0..n
    OBVIOUS
  <2> QED
    BY <2>3, <2>4
<1>2. ASSUME NEW k \in 1..n, k - 1 \in S PROVE k \in S
  <2>1. PICK h \in [SUBSET (1..(k - 1)) -> R] : Folds(h, k - 1, base, G)
    BY <1>2
  <2> DEFINE h2 == [s \in SUBSET (1..k) |-> IF k \in s THEN G[<<k, h[s \ {k}]>>] ELSE h[s]]
  <2>2. \A s \in SUBSET (1..k) : s \ {k} \in SUBSET (1..(k - 1)) /\ (k \notin s => s \in SUBSET (1..(k - 1)))
    OBVIOUS
  <2>3. h2 \in [SUBSET (1..k) -> R]
    <3>1. \A s \in SUBSET (1..k) : G[<<k, h[s \ {k}]>>] \in R
      BY <2>2
    <3> QED
      BY <2>2, <3>1
  <2>4. ASSUME NEW s \in SUBSET (1..k)
        PROVE  h2[s] = IF s = {} THEN base ELSE G[<<Max(s), h2[s \ {Max(s)}]>>]
    <3>1. CASE k \in s
      <4>1. Max(s) = k
        <5>1. s # {} /\ k \in Nat
          BY <3>1
        <5>2. Max(s) \in s /\ \A y \in s : Max(s) >= y
          BY <5>1, MaxIs
        <5>3. Max(s) \in 1..k /\ Max(s) >= k
          BY <3>1, <5>2
        <5> QED
          BY <5>3
      <4>2. h2[s \ {k}] = h[s \ {k}] /\ h2[s] = G[<<k, h[s \ {k}]>>]
        BY <2>2, <3>1
      <4> QED
        BY <3>1, <4>1, <4>2
    <3>2. CASE k \notin s
      <4>1. s \in SUBSET (1..(k - 1)) /\ h2[s] = h[s]
        BY <2>2, <3>2
      <4>2. s \ {Max(s)} \in SUBSET (1..k) /\ k \notin s \ {Max(s)}
        BY <3>2
      <4>3. h2[s \ {Max(s)}] = h[s \ {Max(s)}]
        BY <4>2
      <4> QED
        BY <2>1, <4>1, <4>3 DEF Folds
    <3> QED
      BY <3>1, <3>2
  <2> HIDE DEF h2
  <2>5. Folds(h2, k, base, G)
    BY <2>4 DEF Folds
  <2>6. k \in 0..n
    OBVIOUS
  <2> QED
    BY <2>3, <2>5, <2>6
<1>3. n \in S
  <2> HIDE DEF S
  <2>1. \A k \in 0..n : k \in S
    BY <1>1, <1>2, Counting
  <2> QED
    BY <2>1
<1> QED
  BY <1>3

-----------------------------------------------------------------------------
(* The operations, on any registry.                                           *)

LEMMA RegisterTyped ==
  ASSUME NEW r \in Registries, NEW c \in Known
  PROVE  Register(r, c) \in Registries
  BY DEF Registries, Register, Named

LEMMA SetAliasTyped ==
  ASSUME NEW r \in Registries, NEW c \in Known, NEW w \in Words
  PROVE  SetAlias(r, c, w) \in Registries
  BY DEF Registries, SetAlias

LEMMA ApplyTyped ==
  ASSUME NEW r \in Registries, NEW w \in Words, stored[w] \in Rows
  PROVE  ApplyRow(r, w) \in Registries
<1> DEFINE c == r.names[w]
           s == [r EXCEPT !.level[c] = stored[w].level]
<1>1. stored[w].level \in Levels /\ stored[w].alias \in Words \cup {NoWord}
  BY DEF Rows
<1>2. CASE c = Nobody
  BY <1>2 DEF ApplyRow
<1>3. CASE c # Nobody
  <2>1. c \in Known
    BY <1>3 DEF Registries
  <2>2. s \in Registries
    BY <1>1, <2>1 DEF Registries
  <2>3. ApplyRow(r, w) = s \/ (stored[w].alias \in Words /\ ApplyRow(r, w) = SetAlias(s, c, stored[w].alias))
    BY <1>1, <1>3 DEF ApplyRow
  <2> HIDE DEF s, c
  <2> QED
    BY <2>1, <2>2, <2>3, SetAliasTyped
<1> QED
  BY <1>2, <1>3

-----------------------------------------------------------------------------
(* The operations, on a registry whose words and aliases agree.               *)

\* A command that is found by no name takes its own, and its alias if that is free.
LEMMA RegisterSound ==
  ASSUME NEW r \in Sound, NEW c \in Known, r.names[c.name] = Nobody => c \notin r.commands
  PROVE  Register(r, c) \in Sound
<1> DEFINE s == Register(r, c)
<1>1. r \in Registries /\ Agrees(r) /\ s \in Registries
  BY RegisterTyped DEF Sound
<1>2. CASE Taken(r, c)
  BY <1>2 DEF Register
<1>3. CASE ~Taken(r, c)
  <2>1. r.names[c.name] = Nobody /\ c \notin r.commands /\ c.name \in Words /\ c # Nobody
    BY <1>3 DEF Taken
  <2>2. /\ s.commands = r.commands \cup {c}
        /\ \A w \in Words : s.names[w] = IF w = c.name \/ (w = c.alias /\ AliasIsFree(r, c)) THEN c
                                         ELSE r.names[w]
        /\ s.alias[c] = IF AliasIsFree(r, c) THEN c.alias ELSE NoWord
        /\ \A d \in Known \ {c} : s.alias[d] = r.alias[d]
    BY <1>1, <1>3 DEF Registries, Register, Named
  <2>3. c.alias \in Words \cup {NoWord} /\ (AliasIsFree(r, c) => c.alias # NoWord /\ r.names[c.alias] = Nobody)
    BY DEF AliasIsFree
  <2>4. \A d \in r.commands : d \in Known \ {c} /\ r.alias[d] \in Words \cup {NoWord}
    BY <1>1, <2>1 DEF Registries
  <2> HIDE DEF s
  <2>5. ASSUME NEW w \in Words, s.names[w] # Nobody
        PROVE  s.names[w] \in s.commands /\ w \in {s.names[w].name, s.alias[s.names[w]]}
    <3>1. CASE w = c.name \/ (w = c.alias /\ AliasIsFree(r, c))
      BY <2>2, <3>1
    <3>2. CASE ~(w = c.name \/ (w = c.alias /\ AliasIsFree(r, c)))
      <4>1. s.names[w] = r.names[w]
        BY <2>2, <3>2
      <4>2. r.names[w] \in r.commands /\ w \in {r.names[w].name, r.alias[r.names[w]]}
        BY <1>1, <2>5, <4>1 DEF Agrees
      <4> QED
        BY <2>2, <2>4, <4>1, <4>2
    <3> QED
      BY <3>1, <3>2
  <2>6. ASSUME NEW d \in s.commands, s.alias[d] # NoWord PROVE s.names[s.alias[d]] = d
    <3>1. CASE d = c
      <4>1. AliasIsFree(r, c) /\ s.alias[d] = c.alias /\ c.alias \in Words
        BY <2>2, <2>3, <2>6, <3>1
      <4> QED
        BY <2>2, <3>1, <4>1
    <3>2. CASE d \in r.commands
      <4>1. s.alias[d] = r.alias[d] /\ r.alias[d] \in Words /\ r.names[r.alias[d]] = d /\ d # Nobody
        BY <1>1, <2>2, <2>4, <2>6, <3>2 DEF Agrees
      <4>2. r.alias[d] # c.name /\ ~(r.alias[d] = c.alias /\ AliasIsFree(r, c))
        BY <2>1, <2>3, <4>1
      <4> QED
        BY <2>2, <4>1, <4>2
    <3> QED
      BY <2>2, <2>6, <3>1, <3>2
  <2>7. Agrees(s)
    BY <2>5, <2>6 DEF Agrees
  <2> QED
    BY <1>1, <2>7 DEF Sound, s
<1> QED
  BY <1>2, <1>3

\* An alias taken is the command's, and the one it had before is nobody's.
LEMMA SetAliasSound ==
  ASSUME NEW r \in Sound, NEW c \in r.commands, NEW w \in Words
  PROVE  SetAlias(r, c, w) \in Sound /\ SetAlias(r, c, w).commands = r.commands
<1> DEFINE s == SetAlias(r, c, w)
<1>1. r \in Registries /\ Agrees(r) /\ c \in Known /\ s \in Registries /\ c # Nobody
  <2>1. r \in Registries /\ Agrees(r) /\ c \in Known /\ c # Nobody
    BY DEF Sound, Registries
  <2> QED
    BY <2>1, SetAliasTyped
<1>2. CASE ~MayHave(r, c, w)
  BY <1>1, <1>2 DEF SetAlias
<1>3. CASE MayHave(r, c, w)
  <2>1. r.names[w] \in {Nobody, c}
    BY <1>3 DEF MayHave
  <2>2. /\ s.commands = r.commands
        /\ \A v \in Words : s.names[v] = IF v = w THEN c ELSE IF v = r.alias[c] THEN Nobody ELSE r.names[v]
        /\ s.alias[c] = w
        /\ \A d \in Known \ {c} : s.alias[d] = r.alias[d]
    BY <1>1, <1>3 DEF Registries, SetAlias
  <2>3. \A d \in r.commands : d \in Known /\ d # Nobody /\ r.alias[d] \in Words \cup {NoWord}
    BY <1>1 DEF Registries
  <2> HIDE DEF s
  <2>4. ASSUME NEW v \in Words, s.names[v] # Nobody
        PROVE  s.names[v] \in s.commands /\ v \in {s.names[v].name, s.alias[s.names[v]]}
    <3>1. CASE v = w
      BY <2>2, <3>1
    <3>2. CASE v # w
      <4>1. v # r.alias[c] /\ s.names[v] = r.names[v]
        BY <2>2, <2>4, <3>2
      <4>2. r.names[v] \in r.commands /\ v \in {r.names[v].name, r.alias[r.names[v]]}
        BY <1>1, <2>4, <4>1 DEF Agrees
      <4>3. CASE r.names[v] = c
        BY <2>2, <4>1, <4>2, <4>3
      <4>4. CASE r.names[v] # c
        BY <2>2, <2>3, <4>1, <4>2, <4>4
      <4> QED
        BY <4>3, <4>4
    <3> QED
      BY <3>1, <3>2
  <2>5. ASSUME NEW d \in s.commands, s.alias[d] # NoWord PROVE s.names[s.alias[d]] = d
    <3>1. CASE d = c
      BY <2>2, <3>1
    <3>2. CASE d # c
      <4>1. s.alias[d] = r.alias[d] /\ r.alias[d] \in Words /\ r.names[r.alias[d]] = d
        BY <1>1, <2>2, <2>3, <2>5, <3>2 DEF Agrees
      <4>2. r.alias[d] # w
        BY <2>1, <2>2, <2>3, <2>5, <3>2, <4>1
      <4>3. r.alias[d] # r.alias[c]
        <5>1. r.alias[c] # NoWord => r.names[r.alias[c]] = c
          BY <1>1 DEF Agrees
        <5>2. r.alias[d] # NoWord
          BY <4>1
        <5> QED
          BY <3>2, <4>1, <5>1, <5>2
      <4> QED
        BY <2>2, <4>1, <4>2, <4>3
    <3> QED
      BY <3>1, <3>2
  <2>6. Agrees(s)
    BY <2>4, <2>5 DEF Agrees
  <2> QED
    BY <1>1, <2>2, <2>6 DEF Sound, s
<1> QED
  BY <1>2, <1>3

\* A level is nobody else's business.
LEMMA SetLevelSound ==
  ASSUME NEW r \in Sound, NEW c \in Known, NEW l \in Levels
  PROVE  [r EXCEPT !.level[c] = l] \in Sound
<1> DEFINE s == [r EXCEPT !.level[c] = l]
<1>1. r \in Registries /\ Agrees(r)
  BY DEF Sound
<1>2. s \in Registries /\ s.names = r.names /\ s.commands = r.commands /\ s.alias = r.alias
  BY <1>1 DEF Registries
<1> HIDE DEF s
<1>3. Agrees(s)
  BY <1>1, <1>2 DEF Agrees
<1>4. s \in Sound
  BY <1>2, <1>3 DEF Sound
<1> QED
  BY <1>4 DEF s

LEMMA ApplySound ==
  ASSUME NEW r \in Sound, NEW w \in Words, stored[w] \in Rows
  PROVE  ApplyRow(r, w) \in Sound /\ ApplyRow(r, w).commands = r.commands
<1> DEFINE c == r.names[w]
           s == [r EXCEPT !.level[c] = stored[w].level]
<1>1. stored[w].level \in Levels /\ stored[w].alias \in Words \cup {NoWord}
  BY DEF Rows
<1>2. CASE c = Nobody
  BY <1>2 DEF ApplyRow
<1>3. CASE c # Nobody
  <2>1. c \in r.commands /\ c \in Known /\ r \in Registries
    BY <1>3 DEF Sound, Registries, Agrees
  <2>2. s \in Sound /\ s.commands = r.commands
    <3>1. s \in Sound
      BY <1>1, <2>1, SetLevelSound
    <3>2. s.commands = r.commands
      BY <2>1 DEF Registries
    <3> QED
      BY <3>1, <3>2
  <2>3. ApplyRow(r, w) = s \/ (stored[w].alias \in Words /\ ApplyRow(r, w) = SetAlias(s, c, stored[w].alias))
    BY <1>1, <1>3 DEF ApplyRow
  <2> HIDE DEF s, c
  <2>4. c \in s.commands
    BY <2>1, <2>2
  <2> QED
    BY <2>2, <2>3, <2>4, SetAliasSound
<1> QED
  BY <1>2, <1>3

-----------------------------------------------------------------------------
(* The folds, one step after another.                                         *)

\* The values of a fold, one prefix after another.
Unfolds(f, R, n, base, G) ==
    /\ f[{}] = base
    /\ \A s \in SUBSET (1..n) : s # {} /\ f[s \ {Max(s)}] \in R =>
          f[s] = G[<<Max(s), f[s \ {Max(s)}]>>]

Steps(v, n, base, last, G) ==
    v[0] = base /\ v[n] = last /\ \A k \in 1..n : v[k] = G[<<k, v[k - 1]>>]

LEMMA InTurn ==
  ASSUME NEW R, NEW n \in Nat, NEW base \in R, NEW G \in [(1..n) \X R -> R], NEW f,
         Unfolds(f, R, n, base, G)
  PROVE  \E v \in [0..n -> R] : Steps(v, n, base, f[1..n], G)
<1> DEFINE v == [k \in 0..n |-> f[1..k]]
           S == {k \in 0..n : f[1..k] \in R}
<1>1. 1..0 = {} /\ 0 \in 0..n /\ n \in 0..n /\ \A k \in 1..n : k \in 0..n /\ k - 1 \in 0..n
  OBVIOUS
<1>2. ASSUME NEW k \in 1..n, f[1..(k - 1)] \in R PROVE f[1..k] = G[<<k, f[1..(k - 1)]>>]
  <2>1. 1..k \in SUBSET (1..n) /\ 1..k # {} /\ Max(1..k) = k /\ (1..k) \ {k} = 1..(k - 1)
    BY Prefix
  <2> QED
    BY <1>2, <2>1 DEF Unfolds
<1>3. 0 \in S
  BY <1>1 DEF Unfolds
<1>4. \A k \in 1..n : k - 1 \in S => k \in S
  <2>1. ASSUME NEW k \in 1..n, k - 1 \in S PROVE k \in S
    <3>1. f[1..(k - 1)] \in R /\ f[1..k] = G[<<k, f[1..(k - 1)]>>]
      BY <1>2, <2>1
    <3>2. <<k, f[1..(k - 1)]>> \in (1..n) \X R
      BY <3>1
    <3> QED
      BY <1>1, <3>1, <3>2
  <2> QED
    BY <2>1
<1>5. \A k \in 0..n : k \in S
  <2> HIDE DEF S
  <2> QED
    BY <1>3, <1>4, Counting
<1>6. v \in [0..n -> R] /\ v[0] = base /\ v[n] = f[1..n]
  <2>1. v \in [0..n -> R]
    BY <1>5
  <2> QED
    BY <1>1, <2>1 DEF Unfolds
<1>7. \A k \in 1..n : v[k] = G[<<k, v[k - 1]>>]
  BY <1>1, <1>2, <1>5
<1> HIDE DEF v
<1> QED
  BY <1>6, <1>7 DEF Steps

Registered(r, seq) == FoldLeft(Register, r, seq)

LEMMA RegisteredInTurn ==
  ASSUME NEW r \in Registries, NEW seq \in Seq(Known)
  PROVE  \E v \in [0..Len(seq) -> Registries] :
            /\ v[0] = r /\ v[Len(seq)] = Registered(r, seq)
            /\ \A k \in 1..Len(seq) : v[k] = Register(v[k - 1], seq[k])
<1> DEFINE n == Len(seq)
           G == [x \in (1..n) \X Registries |-> Register(x[2], seq[x[1]])]
           Fold(f) == f = [s \in SUBSET (1..n) |->
                             IF s = {} THEN r ELSE Register(f[s \ {Max(s)}], seq[Max(s)])]
<1>1. n \in Nat /\ DOMAIN seq = 1..n /\ \A k \in 1..n : seq[k] \in Known
  OBVIOUS
<1>2. G \in [(1..n) \X Registries -> Registries]
  <2>1. \A x \in (1..n) \X Registries : Register(x[2], seq[x[1]]) \in Registries
    BY <1>1, RegisterTyped
  <2> QED
    BY <2>1
<1>3. PICK h \in [SUBSET (1..n) -> Registries] : Folds(h, n, r, G)
  <2> HIDE DEF G
  <2> QED
    BY <1>1, <1>2, Folding
<1>4. \A s \in SUBSET (1..n) : s # {} => Max(s) \in 1..n
  BY <1>1, MaxIs
<1>5. \A s \in SUBSET (1..n) : s \ {Max(s)} \in SUBSET (1..n)
  OBVIOUS
<1>6. ASSUME NEW s \in SUBSET (1..n)
      PROVE  h[s] = IF s = {} THEN r ELSE Register(h[s \ {Max(s)}], seq[Max(s)])
  <2>1. CASE s = {}
    BY <1>3, <2>1 DEF Folds
  <2>2. CASE s # {}
    <3>1. <<Max(s), h[s \ {Max(s)}]>> \in (1..n) \X Registries
      BY <1>4, <1>5, <2>2
    <3> QED
      BY <1>3, <2>2, <3>1 DEF Folds
  <2> QED
    BY <2>1, <2>2
<1>7. Fold(h)
  <2>1. h = [s \in SUBSET (1..n) |-> h[s]]
    OBVIOUS
  <2>2. [s \in SUBSET (1..n) |-> h[s]] =
          [s \in SUBSET (1..n) |-> IF s = {} THEN r ELSE Register(h[s \ {Max(s)}], seq[Max(s)])]
    BY <1>6
  <2> QED
    BY <2>1, <2>2
<1>8. Registered(r, seq) = (CHOOSE f : Fold(f))[1..n]
  <2>1. Registered(r, seq) =
          (CHOOSE f : f = [s \in SUBSET (DOMAIN seq) |->
              IF s = {} THEN r ELSE Register(f[s \ {Max(s)}], seq[Max(s)])])[DOMAIN seq]
    BY Zenon DEF Registered, FoldLeft, MapThenFoldSet
  <2> QED
    BY <1>1, <2>1
<1>9. PICK f : Fold(f) /\ Registered(r, seq) = f[1..n]
  BY <1>7, <1>8
<1>10. f[{}] = r
  BY <1>9
<1>11. ASSUME NEW s \in SUBSET (1..n), s # {}, f[s \ {Max(s)}] \in Registries
       PROVE  f[s] = G[<<Max(s), f[s \ {Max(s)}]>>]
  <2>1. <<Max(s), f[s \ {Max(s)}]>> \in (1..n) \X Registries
    BY <1>4, <1>11
  <2> QED
    BY <1>9, <1>11, <2>1
<1>12. PICK v \in [0..n -> Registries] : Steps(v, n, r, f[1..n], G)
  <2> HIDE DEF G, Fold
  <2>1. Unfolds(f, Registries, n, r, G)
    BY <1>10, <1>11 DEF Unfolds
  <2> QED
    BY <1>1, <1>2, <2>1, InTurn
<1>13. \A k \in 1..n : v[k] = Register(v[k - 1], seq[k])
  <2>1. \A k \in 1..n : k - 1 \in 0..n
    BY <1>1
  <2>2. \A k \in 1..n : v[k - 1] \in Registries
    BY <2>1
  <2>3. \A k \in 1..n : <<k, v[k - 1]>> \in (1..n) \X Registries
    BY <2>2
  <2> QED
    BY <1>12, <2>3 DEF Steps
<1> QED
  BY <1>9, <1>12, <1>13 DEF Steps

\* The words there are overrides for.
Overridden == {w \in Words : stored[w] \in Rows}

LEMMA AppliedInTurn ==
  ASSUME NEW r \in Registries, NEW seq \in Seq(Overridden)
  PROVE  \E v \in [0..Len(seq) -> Registries] :
            /\ v[0] = r /\ v[Len(seq)] = ApplyOverrides(r, seq)
            /\ \A k \in 1..Len(seq) : v[k] = ApplyRow(v[k - 1], seq[k])
<1> DEFINE n == Len(seq)
           G == [x \in (1..n) \X Registries |-> ApplyRow(x[2], seq[x[1]])]
           Fold(f) == f = [s \in SUBSET (1..n) |->
                             IF s = {} THEN r ELSE ApplyRow(f[s \ {Max(s)}], seq[Max(s)])]
<1>1. n \in Nat /\ DOMAIN seq = 1..n /\ \A k \in 1..n : seq[k] \in Words /\ stored[seq[k]] \in Rows
  <2>1. n \in Nat /\ DOMAIN seq = 1..n /\ \A k \in 1..n : seq[k] \in Overridden
    OBVIOUS
  <2> QED
    BY <2>1 DEF Overridden
<1>2. G \in [(1..n) \X Registries -> Registries]
  <2>1. \A x \in (1..n) \X Registries : ApplyRow(x[2], seq[x[1]]) \in Registries
    BY <1>1, ApplyTyped
  <2> QED
    BY <2>1
<1>3. PICK h \in [SUBSET (1..n) -> Registries] : Folds(h, n, r, G)
  <2> HIDE DEF G
  <2> QED
    BY <1>1, <1>2, Folding
<1>4. \A s \in SUBSET (1..n) : s # {} => Max(s) \in 1..n
  BY <1>1, MaxIs
<1>5. \A s \in SUBSET (1..n) : s \ {Max(s)} \in SUBSET (1..n)
  OBVIOUS
<1>6. ASSUME NEW s \in SUBSET (1..n)
      PROVE  h[s] = IF s = {} THEN r ELSE ApplyRow(h[s \ {Max(s)}], seq[Max(s)])
  <2>1. CASE s = {}
    BY <1>3, <2>1 DEF Folds
  <2>2. CASE s # {}
    <3>1. <<Max(s), h[s \ {Max(s)}]>> \in (1..n) \X Registries
      BY <1>4, <1>5, <2>2
    <3> QED
      BY <1>3, <2>2, <3>1 DEF Folds
  <2> QED
    BY <2>1, <2>2
<1>7. Fold(h)
  <2>1. h = [s \in SUBSET (1..n) |-> h[s]]
    OBVIOUS
  <2>2. [s \in SUBSET (1..n) |-> h[s]] =
          [s \in SUBSET (1..n) |-> IF s = {} THEN r ELSE ApplyRow(h[s \ {Max(s)}], seq[Max(s)])]
    BY <1>6
  <2> QED
    BY <2>1, <2>2
<1>8. ApplyOverrides(r, seq) = (CHOOSE f : Fold(f))[1..n]
  <2>1. ApplyOverrides(r, seq) =
          (CHOOSE f : f = [s \in SUBSET (DOMAIN seq) |->
              IF s = {} THEN r ELSE ApplyRow(f[s \ {Max(s)}], seq[Max(s)])])[DOMAIN seq]
    BY Zenon DEF ApplyOverrides, FoldLeft, MapThenFoldSet
  <2> QED
    BY <1>1, <2>1
<1>9. PICK f : Fold(f) /\ ApplyOverrides(r, seq) = f[1..n]
  BY <1>7, <1>8
<1>10. f[{}] = r
  BY <1>9
<1>11. ASSUME NEW s \in SUBSET (1..n), s # {}, f[s \ {Max(s)}] \in Registries
       PROVE  f[s] = G[<<Max(s), f[s \ {Max(s)}]>>]
  <2>1. <<Max(s), f[s \ {Max(s)}]>> \in (1..n) \X Registries
    BY <1>4, <1>11
  <2> QED
    BY <1>9, <1>11, <2>1
<1>12. PICK v \in [0..n -> Registries] : Steps(v, n, r, f[1..n], G)
  <2> HIDE DEF G, Fold
  <2>1. Unfolds(f, Registries, n, r, G)
    BY <1>10, <1>11 DEF Unfolds
  <2> QED
    BY <1>1, <1>2, <2>1, InTurn
<1>13. \A k \in 1..n : v[k] = ApplyRow(v[k - 1], seq[k])
  <2>1. \A k \in 1..n : k - 1 \in 0..n
    BY <1>1
  <2>2. \A k \in 1..n : v[k - 1] \in Registries
    BY <2>1
  <2>3. \A k \in 1..n : <<k, v[k - 1]>> \in (1..n) \X Registries
    BY <2>2
  <2> QED
    BY <1>12, <2>3 DEF Steps
<1> QED
  BY <1>9, <1>12, <1>13 DEF Steps

\* A plugin's commands are registered, then cmdmanager's rows put.
LEMMA StartIs ==
  ASSUME NEW r, NEW p, NEW order
  PROVE  Start(r, p, order) = IF p = Manager THEN ApplyOverrides(Registered(r, Offers[p]), order)
                              ELSE Registered(r, Offers[p])
  BY Zenon DEF Start, Registered

LEMMA StartTyped ==
  ASSUME NEW r \in Registries, NEW p \in Plugins, NEW order \in Seq(Overridden)
  PROVE  Start(r, p, order) \in Registries
<1> DEFINE s == Registered(r, Offers[p])
           t == ApplyOverrides(s, order)
<1>1. s \in Registries
  <2>1. Offers[p] \in Seq(Known) /\ Len(Offers[p]) \in Nat
    OBVIOUS
  <2>2. PICK v \in [0..Len(Offers[p]) -> Registries] : v[Len(Offers[p])] = s
    BY <2>1, RegisteredInTurn
  <2>3. Len(Offers[p]) \in 0..Len(Offers[p])
    BY <2>1
  <2>4. v[Len(Offers[p])] \in Registries
    BY <2>3
  <2> QED
    BY <2>2, <2>4, Zenon
<1> HIDE DEF s
<1>2. t \in Registries
  <2>1. \E v \in [0..Len(order) -> Registries] : v[Len(order)] = t
    BY <1>1, AppliedInTurn
  <2> HIDE DEF t
  <2>2. PICK v \in [0..Len(order) -> Registries] : v[Len(order)] = t
    BY <2>1
  <2>3. Len(order) \in 0..Len(order)
    OBVIOUS
  <2> QED
    BY <2>2, <2>3
<1> QED
  BY <1>1, <1>2, StartIs DEF s

LEMMA EmptyTyped ==
  Empty \in Registries
  BY DEF Empty, Registries

\* What the start makes of one plugin.
Turn(r, p, on, order) == IF p \in on THEN Start(r, p, order) ELSE r

LEMMA BootedInTurn ==
  ASSUME NEW on, NEW order \in Seq(Overridden)
  PROVE  \E v \in [0..Len(LoadOrder) -> Registries] :
            /\ v[0] = Empty /\ v[Len(LoadOrder)] = Boot(on, order)
            /\ \A k \in 1..Len(LoadOrder) : v[k] = Turn(v[k - 1], LoadOrder[k], on, order)
<1> DEFINE n == Len(LoadOrder)
           G == [x \in (1..n) \X Registries |-> Turn(x[2], LoadOrder[x[1]], on, order)]
           Fold(f) == f = [s \in SUBSET (1..n) |->
                             IF s = {} THEN Empty ELSE Turn(f[s \ {Max(s)}], LoadOrder[Max(s)], on, order)]
<1>1. n \in Nat /\ DOMAIN LoadOrder = 1..n /\ \A k \in 1..n : LoadOrder[k] \in Plugins
  OBVIOUS
<1>2. G \in [(1..n) \X Registries -> Registries]
  <2>1. \A x \in (1..n) \X Registries : Turn(x[2], LoadOrder[x[1]], on, order) \in Registries
    BY <1>1, StartTyped DEF Turn
  <2> QED
    BY <2>1
<1>3. PICK h \in [SUBSET (1..n) -> Registries] : Folds(h, n, Empty, G)
  <2> HIDE DEF G
  <2> QED
    BY <1>1, <1>2, EmptyTyped, Folding
<1>4. \A s \in SUBSET (1..n) : s # {} => Max(s) \in 1..n
  BY <1>1, MaxIs
<1>5. \A s \in SUBSET (1..n) : s \ {Max(s)} \in SUBSET (1..n)
  OBVIOUS
<1>6. ASSUME NEW s \in SUBSET (1..n)
      PROVE  h[s] = IF s = {} THEN Empty ELSE Turn(h[s \ {Max(s)}], LoadOrder[Max(s)], on, order)
  <2>1. CASE s = {}
    BY <1>3, <2>1 DEF Folds
  <2>2. CASE s # {}
    <3>1. <<Max(s), h[s \ {Max(s)}]>> \in (1..n) \X Registries
      BY <1>4, <1>5, <2>2
    <3> QED
      BY <1>3, <2>2, <3>1 DEF Folds
  <2> QED
    BY <2>1, <2>2
<1>7. Fold(h)
  <2>1. h = [s \in SUBSET (1..n) |-> h[s]]
    OBVIOUS
  <2>2. [s \in SUBSET (1..n) |-> h[s]] =
          [s \in SUBSET (1..n) |-> IF s = {} THEN Empty ELSE Turn(h[s \ {Max(s)}], LoadOrder[Max(s)], on, order)]
    BY <1>6
  <2> QED
    BY <2>1, <2>2
<1>8. Boot(on, order) = (CHOOSE f : Fold(f))[1..n]
  <2>1. Boot(on, order) =
          (CHOOSE f : f = [s \in SUBSET (DOMAIN LoadOrder) |->
              IF s = {} THEN Empty ELSE Turn(f[s \ {Max(s)}], LoadOrder[Max(s)], on, order)])[DOMAIN LoadOrder]
    BY Zenon DEF Boot, Turn, FoldLeft, MapThenFoldSet
  <2> QED
    BY <1>1, <2>1
<1>9. PICK f : Fold(f) /\ Boot(on, order) = f[1..n]
  BY <1>7, <1>8
<1>10. f[{}] = Empty
  BY <1>9
<1>11. ASSUME NEW s \in SUBSET (1..n), s # {}, f[s \ {Max(s)}] \in Registries
       PROVE  f[s] = G[<<Max(s), f[s \ {Max(s)}]>>]
  <2>1. <<Max(s), f[s \ {Max(s)}]>> \in (1..n) \X Registries
    BY <1>4, <1>11
  <2> QED
    BY <1>9, <1>11, <2>1
<1>12. PICK v \in [0..n -> Registries] : Steps(v, n, Empty, f[1..n], G)
  <2> HIDE DEF G, Fold
  <2>1. Unfolds(f, Registries, n, Empty, G)
    BY <1>10, <1>11 DEF Unfolds
  <2> QED
    BY <1>1, <1>2, <2>1, EmptyTyped, InTurn
<1>13. \A k \in 1..n : v[k] = Turn(v[k - 1], LoadOrder[k], on, order)
  <2>1. \A k \in 1..n : k - 1 \in 0..n
    BY <1>1
  <2>2. \A k \in 1..n : v[k - 1] \in Registries
    BY <2>1
  <2>3. \A k \in 1..n : <<k, v[k - 1]>> \in (1..n) \X Registries
    BY <2>2
  <2> QED
    BY <1>12, <2>3 DEF Steps
<1> QED
  BY <1>9, <1>12, <1>13 DEF Steps

-----------------------------------------------------------------------------
(* Starting a plugin, and the bot.                                            *)

LEMMA RegisterAwaiting ==
  ASSUME NEW p \in Plugins, NEW r \in Awaiting(p), NEW c \in Of(p)
  PROVE  Register(r, c) \in Awaiting(p) /\ Register(r, c).commands \subseteq r.commands \cup Of(p)
<1>1. r \in Sound /\ r \in Registries /\ c \in Known /\ (r.names[c.name] = Nobody => c \notin r.commands)
  BY DEF Awaiting, Sound, Of, Known
<1>2. Register(r, c) \in Sound
  BY <1>1, RegisterSound
<1>3. CASE Taken(r, c)
  BY <1>3 DEF Register
<1>4. CASE ~Taken(r, c)
  <2> DEFINE s == Register(r, c)
  <2>1. /\ s.commands = r.commands \cup {c} /\ c # Nobody
        /\ \A w \in Words : s.names[w] = IF w = c.name \/ (w = c.alias /\ AliasIsFree(r, c)) THEN c
                                         ELSE r.names[w]
    BY <1>1, <1>4 DEF Registries, Register, Named
  <2> HIDE DEF s
  <2>2. ASSUME NEW d \in Of(p), s.names[d.name] = Nobody PROVE d \notin s.commands
    <3>1. d \in Known /\ d.name \in Words /\ c.name \in Words
      BY <1>1 DEF Of, Known
    <3>2. d.name # c.name /\ r.names[d.name] = Nobody
      BY <2>1, <2>2, <3>1
    <3>3. d \notin r.commands /\ d # c
      BY <3>2 DEF Awaiting
    <3> QED
      BY <2>1, <3>3
  <2>3. s \in Awaiting(p)
    BY <1>2, <2>2 DEF Awaiting, s
  <2>4. s.commands \subseteq r.commands \cup Of(p)
    BY <2>1
  <2> QED
    BY <2>3, <2>4 DEF s
<1> QED
  BY <1>3, <1>4

LEMMA RegisteredSound ==
  ASSUME NEW p \in Plugins, NEW r \in Sound, Unknown(r, p)
  PROVE  /\ Registered(r, Offers[p]) \in Sound
         /\ Registered(r, Offers[p]).commands \subseteq r.commands \cup Of(p)
<1> DEFINE seq == Offers[p]
           n == Len(seq)
<1>1. seq \in Seq(Known) /\ n \in Nat /\ n \in 0..n /\ \A k \in 1..n : seq[k] \in Of(p) /\ k - 1 \in 0..n
  <2>1. seq \in Seq(Known)
    OBVIOUS
  <2> QED
    BY <2>1 DEF Of
<1>2. r \in Registries /\ r \in Awaiting(p)
  BY DEF Sound, Awaiting, Unknown
<1> HIDE DEF seq
<1>3. PICK v \in [0..n -> Registries] :
        /\ v[0] = r /\ v[n] = Registered(r, seq)
        /\ \A k \in 1..n : v[k] = Register(v[k - 1], seq[k])
  <2>1. \E v \in [0..Len(seq) -> Registries] :
          /\ v[0] = r /\ v[Len(seq)] = Registered(r, seq)
          /\ \A k \in 1..Len(seq) : v[k] = Register(v[k - 1], seq[k])
    BY ONLY <1>1, <1>2, RegisteredInTurn
  <2> QED
    BY ONLY <2>1
<1> DEFINE S == {k \in 0..n : v[k] \in Awaiting(p) /\ v[k].commands \subseteq r.commands \cup Of(p)}
<1>4. 0 \in S
  BY <1>1, <1>2, <1>3
<1>5. \A k \in 1..n : k - 1 \in S => k \in S
  <2>1. ASSUME NEW k \in 1..n, k - 1 \in S PROVE k \in S
    <3>1. v[k] = Register(v[k - 1], seq[k]) /\ seq[k] \in Of(p) /\ k \in 0..n
      BY <1>1, <1>3
    <3>2. v[k - 1] \in Awaiting(p) /\ v[k - 1].commands \subseteq r.commands \cup Of(p)
      BY <2>1
    <3>3. v[k] \in Awaiting(p) /\ v[k].commands \subseteq v[k - 1].commands \cup Of(p)
      BY <3>1, <3>2, RegisterAwaiting
    <3> QED
      BY <3>1, <3>2, <3>3
  <2> QED
    BY <2>1
<1>6. n \in S
  <2>1. \A k \in 0..n : k \in S
    <3> HIDE DEF S, n
    <3> QED
      BY <1>1, <1>4, <1>5, Counting
  <2> QED
    BY <1>1, <2>1
<1>7. Registered(r, seq) \in Sound /\ Registered(r, seq).commands \subseteq r.commands \cup Of(p)
  BY <1>3, <1>6 DEF Awaiting
<1> QED
  BY <1>7 DEF seq

\* Putting the overrides leaves the words in agreement, in whatever order.
LEMMA AppliedSound ==
  ASSUME NEW r \in Sound, NEW order \in Seq(Overridden)
  PROVE  ApplyOverrides(r, order) \in Sound /\ ApplyOverrides(r, order).commands = r.commands
<1> DEFINE n == Len(order)
<1>1. n \in Nat /\ n \in 0..n /\ \A k \in 1..n : order[k] \in Overridden /\ k - 1 \in 0..n
  OBVIOUS
<1>2. r \in Registries
  BY DEF Sound
<1>3. PICK v \in [0..n -> Registries] :
        /\ v[0] = r /\ v[n] = ApplyOverrides(r, order)
        /\ \A k \in 1..n : v[k] = ApplyRow(v[k - 1], order[k])
  BY <1>1, <1>2, AppliedInTurn
<1> DEFINE S == {k \in 0..n : v[k] \in Sound /\ v[k].commands = r.commands}
<1>4. 0 \in S
  BY <1>1, <1>3
<1>5. \A k \in 1..n : k - 1 \in S => k \in S
  <2>1. ASSUME NEW k \in 1..n, k - 1 \in S PROVE k \in S
    <3>1. v[k] = ApplyRow(v[k - 1], order[k]) /\ order[k] \in Words /\ stored[order[k]] \in Rows /\ k \in 0..n
      BY <1>1, <1>3 DEF Overridden
    <3>2. v[k - 1] \in Sound /\ v[k - 1].commands = r.commands
      BY <2>1
    <3>3. v[k] \in Sound /\ v[k].commands = v[k - 1].commands
      BY <3>1, <3>2, ApplySound
    <3> QED
      BY <3>1, <3>2, <3>3
  <2> QED
    BY <2>1
<1>6. n \in S
  <2>1. \A k \in 0..n : k \in S
    <3> HIDE DEF S, n
    <3> QED
      BY <1>1, <1>4, <1>5, Counting
  <2> QED
    BY <1>1, <2>1
<1> QED
  BY <1>3, <1>6

LEMMA StartSound ==
  ASSUME NEW p \in Plugins, NEW r \in Sound, Unknown(r, p), NEW order \in Seq(Overridden)
  PROVE  Start(r, p, order) \in Sound /\ Start(r, p, order).commands \subseteq r.commands \cup Of(p)
<1>1. /\ Registered(r, Offers[p]) \in Sound
      /\ Registered(r, Offers[p]).commands \subseteq r.commands \cup Of(p)
  BY RegisteredSound
<1>2. /\ ApplyOverrides(Registered(r, Offers[p]), order) \in Sound
      /\ ApplyOverrides(Registered(r, Offers[p]), order).commands = Registered(r, Offers[p]).commands
  BY <1>1, AppliedSound
<1> QED
  BY <1>1, <1>2, StartIs

LEMMA EmptySound ==
  Empty \in Sound /\ Empty.commands = {}
<1>1. Agrees(Empty) /\ Empty.commands = {}
  BY DEF Empty, Agrees
<1> QED
  BY <1>1, EmptyTyped DEF Sound

\* No command is two plugins'.
LEMMA Apart ==
  ASSUME NEW p \in Plugins, NEW q \in Plugins, p # q
  PROVE  Of(p) \cap Of(q) = {}
<1>1. ASSUME NEW t \in Plugins, NEW c \in Of(t) PROVE c.plugin = t
  <2>1. PICK i \in DOMAIN Offers[t] : c = Offers[t][i]
    BY DEF Of
  <2>2. \A j \in DOMAIN Offers[t] : Offers[t][j].plugin = t
    BY ONLY OffersAssumption, t \in Plugins
  <2> QED
    BY ONLY <2>1, <2>2
<1>2. ASSUME NEW c \in Of(p), c \in Of(q) PROVE FALSE
  <2>1. c.plugin = p /\ c.plugin = q
    BY <1>1, <1>2
  <2> QED
    BY ONLY <2>1, p # q
<1> QED
  BY <1>2

\* The commands of the plugins that are switched on, up to the k-th.
Until(k, on) == {c \in Known : \E i \in 1..k : LoadOrder[i] \in on /\ c \in Of(LoadOrder[i])}

\* The bot starts each plugin once.
LEMMA BootSound ==
  ASSUME NEW on \in SUBSET Plugins, NEW order \in Seq(Overridden)
  PROVE  Boot(on, order) \in Sound /\ \A p \in Plugins \ on : Unknown(Boot(on, order), p)
<1> DEFINE n == Len(LoadOrder)
<1>1. /\ n \in Nat /\ n \in 0..n
      /\ \A k \in 1..n : LoadOrder[k] \in Plugins /\ k - 1 \in 0..n /\ k \in 0..n
      /\ \A i, j \in 1..n : LoadOrder[i] = LoadOrder[j] => i = j
  BY DEF IsInjective
<1>2. PICK v \in [0..n -> Registries] :
        /\ v[0] = Empty /\ v[n] = Boot(on, order)
        /\ \A k \in 1..n : v[k] = Turn(v[k - 1], LoadOrder[k], on, order)
  BY ONLY BootedInTurn, order \in Seq(Overridden)
<1> DEFINE S == {k \in 0..n : v[k] \in Sound /\ v[k].commands \subseteq Until(k, on)}
<1>3. 0 \in S
  BY <1>1, <1>2, EmptySound
<1>4. \A k \in 1..n : k - 1 \in S => k \in S
  <2>1. ASSUME NEW k \in 1..n, k - 1 \in S PROVE k \in S
    <3>1. v[k - 1] \in Sound /\ v[k - 1].commands \subseteq Until(k - 1, on)
      BY <2>1
    <3>2. Until(k - 1, on) \subseteq Until(k, on)
      <4>1. \A j \in 1..(k - 1) : j \in 1..k
        BY <1>1
      <4> QED
        BY ONLY <4>1 DEF Until
    <3>3. CASE LoadOrder[k] \notin on
      BY ONLY <1>1, <1>2, <3>1, <3>2, <3>3, k \in 1..n DEF Turn
    <3>4. CASE LoadOrder[k] \in on
      <4>1. Unknown(v[k - 1], LoadOrder[k])
        <5>1. \A i \in 1..(k - 1) : i \in 1..n /\ LoadOrder[i] # LoadOrder[k]
          BY <1>1
        <5>2. \A i \in 1..(k - 1) : Of(LoadOrder[i]) \cap Of(LoadOrder[k]) = {}
          BY <1>1, <5>1, Apart
        <5>3. \A c \in Until(k - 1, on) : \E i \in 1..(k - 1) : c \in Of(LoadOrder[i])
          BY ONLY TRUE DEF Until
        <5> QED
          BY ONLY <3>1, <5>2, <5>3 DEF Unknown
      <4>2. /\ Start(v[k - 1], LoadOrder[k], order) \in Sound
            /\ Start(v[k - 1], LoadOrder[k], order).commands \subseteq v[k - 1].commands \cup Of(LoadOrder[k])
        BY <1>1, <3>1, <4>1, StartSound
      <4>3. Of(LoadOrder[k]) \subseteq Until(k, on)
        <5>1. k \in 1..k
          BY <1>1
        <5>2. Of(LoadOrder[k]) \subseteq Known
          BY <1>1 DEF Of, Known
        <5> QED
          BY ONLY <3>4, <5>1, <5>2 DEF Until
      <4>4. v[k] = Start(v[k - 1], LoadOrder[k], order) /\ k \in 0..n
        BY ONLY <1>1, <1>2, <3>4, k \in 1..n DEF Turn
      <4> QED
        BY ONLY <3>1, <3>2, <4>2, <4>3, <4>4
    <3> QED
      BY <3>3, <3>4
  <2> QED
    BY <2>1
<1>5. n \in S
  <2>1. \A k \in 0..n : k \in S
    <3> HIDE DEF S, n
    <3> QED
      BY <1>1, <1>3, <1>4, Counting
  <2> QED
    BY <1>1, <2>1
<1>6. ASSUME NEW p \in Plugins \ on PROVE Unknown(Boot(on, order), p)
  <2>1. \A i \in 1..n : LoadOrder[i] \in on => Of(LoadOrder[i]) \cap Of(p) = {}
    BY <1>1, Apart
  <2>2. \A c \in Until(n, on) : \E i \in 1..n : LoadOrder[i] \in on /\ c \in Of(LoadOrder[i])
    BY ONLY TRUE DEF Until
  <2>3. Boot(on, order).commands \subseteq Until(n, on)
    BY ONLY <1>2, <1>5
  <2> QED
    BY ONLY <2>1, <2>2, <2>3 DEF Unknown
<1> QED
  BY ONLY <1>2, <1>5, <1>6

-----------------------------------------------------------------------------
(* The specification.                                                         *)

\* The rows are put in an order that names each override.
LEMMA OrdersAreOverrides ==
  ASSUME TypeOK, NEW order \in RowOrders
  PROVE  order \in Seq(Overridden)
<1> DEFINE S == {w \in Words : stored[w] # NoRow}
<1>1. S \subseteq Overridden
  BY DEF TypeOK, Overridden
<1>2. Cardinality(S) \in Nat
  <2>1. IsFiniteSet(S)
    BY FS_Subset
  <2> QED
    BY ONLY <2>1, FS_CardinalityType
<1>3. order \in [1..Cardinality(S) -> S]
  BY DEF RowOrders, SetToSeqs
<1> HIDE DEF S
<1>4. order \in [1..Cardinality(S) -> Overridden]
  BY ONLY <1>1, <1>3
<1> QED
  BY ONLY <1>2, <1>4

LEMMA InitInv ==
  Init => Inv
<1> SUFFICES ASSUME Init PROVE Inv
  OBVIOUS
<1> DEFINE on == {p \in Plugins : enabled[p]}
<1>1. <<>> \in Seq(Overridden) /\ on \in SUBSET Plugins
  OBVIOUS
<1>2. registry = Boot(on, <<>>)
  BY DEF Init
<1> HIDE DEF on
<1>3. registry \in Sound /\ \A p \in Plugins \ on : Unknown(registry, p)
  BY ONLY <1>1, <1>2, BootSound
<1>4. TypeOK
  <2>1. registry \in Registries
    BY <1>3 DEF Sound
  <2> QED
    BY <2>1 DEF Init, TypeOK, Registries
<1>5. \A p \in Plugins : ~started[p] => Unknown(registry, p)
  BY <1>3 DEF Init, on
<1>6. Switched
  BY DEF Init, Switched, SwitchedOffStaysOff
<1> QED
  BY <1>3, <1>4, <1>5, <1>6 DEF Inv

\* What a step leaves of the invariant to the registry and to the switches.
LEMMA Parts ==
  ASSUME Inv,
         registry' \in Sound, \A p \in Plugins : ~started'[p] => Unknown(registry', p),
         stored' \in [Words -> Rows \cup {NoRow}],
         enabled' \in [Plugins -> BOOLEAN], started' \in [Plugins -> BOOLEAN],
         matchMode' \in BOOLEAN, heldBack' \subseteq Listed, switchedOff' \subseteq Plugins,
         Switched'
  PROVE  Inv'
  BY DEF Inv, TypeOK, Sound, Registries, Agrees, Unknown

\* A command is stored under its name.
LEMMA StoredTyped ==
  ASSUME TypeOK, NEW c \in Known, NEW r \in Registries, r.alias[c] \in Words \cup {NoWord}, Store(c, r)
  PROVE  stored' \in [Words -> Rows \cup {NoRow}]
<1>1. [level |-> r.level[c], alias |-> r.alias[c]] \in Rows
  BY DEF Registries, Rows
<1> QED
  BY <1>1 DEF TypeOK, Store

LEMMA RenamedInv ==
  ASSUME Inv, NEW c \in registry.commands, registry' \in Sound, registry'.commands = registry.commands,
         Store(c, registry'), UNCHANGED <<plugins, match, switchedOff>>
  PROVE  Inv'
<1>1. c \in Known /\ registry' \in Registries
  BY DEF Inv, TypeOK, Sound
<1>2. stored' \in [Words -> Rows \cup {NoRow}]
  BY <1>1, StoredTyped DEF Inv, Registries
<1>3. \A p \in Plugins : ~started'[p] => Unknown(registry', p)
  BY DEF Inv, Unknown, plugins
<1>4. Switched'
  BY DEF Inv, Switched, SwitchedOffStaysOff, plugins, match
<1> QED
  BY <1>2, <1>3, <1>4, Parts DEF Inv, TypeOK, plugins, match

LEMMA CmdLevelInv ==
  ASSUME Inv, NEW w \in Words, NEW l \in Levels, CmdLevel(w, l)
  PROVE  Inv'
<1> DEFINE c == registry.names[w]
<1>1. c \in registry.commands /\ c \in Known
  BY DEF CmdLevel, Inv, Sound, Registries, Agrees
<1>2. /\ registry' = [registry EXCEPT !.level[c] = l]
      /\ Store(c, registry')
      /\ UNCHANGED <<plugins, match, switchedOff>>
  BY DEF CmdLevel
<1> HIDE DEF c
<1>3. registry' \in Sound
  BY <1>1, <1>2, SetLevelSound DEF Inv
<1>4. registry'.commands = registry.commands
  BY <1>1, <1>2 DEF Inv, Sound, Registries
<1> QED
  BY ONLY Inv, <1>1, <1>2, <1>3, <1>4, RenamedInv

LEMMA CmdAliasInv ==
  ASSUME Inv, NEW w \in Words, NEW a \in Words, CmdAlias(w, a)
  PROVE  Inv'
<1> DEFINE c == registry.names[w]
<1>1. c \in registry.commands
  BY DEF CmdAlias, Inv, Sound, Registries, Agrees
<1>2. registry' = SetAlias(registry, c, a) /\ Store(c, registry') /\ UNCHANGED <<plugins, match, switchedOff>>
  BY DEF CmdAlias
<1> HIDE DEF c
<1>3. registry' \in Sound /\ registry'.commands = registry.commands
  BY <1>1, <1>2, SetAliasSound DEF Inv
<1> QED
  BY ONLY Inv, <1>1, <1>2, <1>3, RenamedInv

\* A plugin that starts brings its commands; one that has started brings none.
LEMMA EnableInv ==
  ASSUME Inv, NEW p \in Plugins, Enable(p)
  PROVE  Inv'
<1> DEFINE Begun(order) == IF started[p] THEN registry ELSE Start(registry, p, order)
<1>1. PICK first \in RowOrders, second \in RowOrders :
        registry' = IF enabled'[Manager] THEN ApplyOverrides(Begun(first), second) ELSE Begun(first)
  BY DEF Enable
<1>2. first \in Seq(Overridden) /\ second \in Seq(Overridden)
  BY OrdersAreOverrides DEF Inv
<1>3. Begun(first) \in Sound /\ Begun(first).commands \subseteq registry.commands \cup Of(p)
      /\ (started[p] => Begun(first).commands = registry.commands)
  <2>1. CASE started[p]
    BY <2>1 DEF Inv
  <2>2. CASE ~started[p]
    <3>1. Unknown(registry, p) /\ registry \in Sound
      BY <2>2 DEF Inv
    <3>2. Start(registry, p, first) \in Sound /\ Start(registry, p, first).commands \subseteq registry.commands \cup Of(p)
      BY ONLY <1>2, <3>1, p \in Plugins, StartSound
    <3> QED
      BY ONLY <2>2, <3>2
  <2> QED
    BY ONLY <2>1, <2>2
<1> HIDE DEF Begun
<1>4. /\ registry' \in Sound /\ registry'.commands = Begun(first).commands
  <2>1. ApplyOverrides(Begun(first), second) \in Sound
        /\ ApplyOverrides(Begun(first), second).commands = Begun(first).commands
    BY ONLY <1>2, <1>3, AppliedSound
  <2> QED
    BY ONLY <1>1, <1>3, <2>1
<1>5. ASSUME NEW q \in Plugins, ~started'[q] PROVE Unknown(registry', q)
  <2>1. q # p /\ ~started[q]
    BY <1>5 DEF Enable, Inv, TypeOK
  <2>2. Unknown(registry, q) /\ Of(p) \cap Of(q) = {}
    BY <2>1, Apart DEF Inv
  <2> QED
    BY ONLY <1>3, <1>4, <2>2 DEF Unknown
<1>6. Switched'
  BY DEF Inv, TypeOK, Enable, Switched, SwitchedOffStaysOff, match
<1> QED
  BY <1>4, <1>5, <1>6, Parts DEF Inv, TypeOK, Enable, match

LEMMA RestartInv ==
  ASSUME Inv, NEW on \in SUBSET Plugins, Restart(on)
  PROVE  Inv'
<1>1. PICK order \in RowOrders : registry' = Boot(on, order)
  BY DEF Restart
<1>2. order \in Seq(Overridden)
  BY OrdersAreOverrides DEF Inv
<1>3. registry' \in Sound /\ \A p \in Plugins \ on : Unknown(registry', p)
  BY ONLY <1>1, <1>2, on \in SUBSET Plugins, BootSound
<1>4. \A p \in Plugins : ~started'[p] => Unknown(registry', p)
  BY <1>3 DEF Restart
<1>5. Switched'
  BY DEF Restart, Switched, SwitchedOffStaysOff
<1>6. /\ stored' \in [Words -> Rows \cup {NoRow}]
      /\ enabled' \in [Plugins -> BOOLEAN] /\ started' \in [Plugins -> BOOLEAN]
      /\ matchMode' \in BOOLEAN /\ heldBack' \subseteq Listed /\ switchedOff' \subseteq Plugins
  <2>1. stored' \in [Words -> Rows \cup {NoRow}]
    BY DEF Inv, TypeOK, Restart
  <2>2. enabled' = [p \in Plugins |-> p \in on] /\ started' = enabled'
    BY ONLY Restart(on) DEF Restart
  <2>3. matchMode' = FALSE /\ heldBack' = {} /\ switchedOff' = {}
    BY ONLY Restart(on) DEF Restart
  <2>4. enabled' \in [Plugins -> BOOLEAN] /\ started' \in [Plugins -> BOOLEAN]
    <3>1. ASSUME NEW p \in Plugins PROVE (p \in on) \in BOOLEAN
      OBVIOUS
    <3>2. [p \in Plugins |-> p \in on] \in [Plugins -> BOOLEAN]
      BY ONLY <3>1, Zenon
    <3> QED
      BY ONLY <2>2, <3>2
  <2> QED
    BY ONLY <2>1, <2>3, <2>4
<1> QED
  BY ONLY Inv, <1>3, <1>4, <1>5, <1>6, Parts

\* No command comes or goes with a switch.
LEMMA SwitchInv ==
  ASSUME Inv, UNCHANGED <<registry, started, stored>>,
         enabled' \in [Plugins -> BOOLEAN], matchMode' \in BOOLEAN, heldBack' \subseteq Listed,
         switchedOff' \subseteq Plugins, Switched'
  PROVE  Inv'
  BY Parts DEF Inv, TypeOK

LEMMA DisableInv ==
  ASSUME Inv, NEW p \in Plugins, Disable(p)
  PROVE  Inv'
<1>1. Switched'
  BY DEF Inv, TypeOK, Disable, Switched, SwitchedOffStaysOff, match
<1> QED
  BY <1>1, SwitchInv DEF Inv, TypeOK, Disable, match

LEMMA MatchInv ==
  ASSUME Inv, MatchOn \/ MatchOff
  PROVE  Inv'
<1>1. CASE MatchOn
  <2>1. Switched'
    BY <1>1 DEF Inv, TypeOK, MatchOn, Running, Switched, SwitchedOffStaysOff
  <2> QED
    BY <1>1, <2>1, SwitchInv DEF Inv, TypeOK, MatchOn, Running
<1>2. CASE MatchOff
  <2>1. Switched'
    BY <1>2 DEF Inv, TypeOK, MatchOff, Switched, SwitchedOffStaysOff
  <2> QED
    BY <1>2, <2>1, SwitchInv DEF Inv, TypeOK, MatchOff
<1> QED
  BY <1>1, <1>2

LEMMA NextInv ==
  Inv /\ [Next]_vars => Inv'
<1> SUFFICES ASSUME Inv, [Next]_vars PROVE Inv'
  OBVIOUS
<1>1. ASSUME NEW w \in Words, NEW l \in Levels, CmdLevel(w, l) PROVE Inv'
  BY <1>1, CmdLevelInv
<1>2. ASSUME NEW w \in Words, NEW a \in Words, CmdAlias(w, a) PROVE Inv'
  BY <1>2, CmdAliasInv
<1>3. ASSUME NEW p \in Plugins, Enable(p) PROVE Inv'
  BY <1>3, EnableInv
<1>4. ASSUME NEW p \in Plugins, Disable(p) PROVE Inv'
  BY <1>4, DisableInv
<1>5. ASSUME NEW on \in SUBSET Plugins, Restart(on) PROVE Inv'
  BY <1>5, RestartInv
<1>6. CASE UNCHANGED vars
  BY <1>6 DEF Inv, TypeOK, Sound, Registries, Agrees, Unknown, Switched, SwitchedOffStaysOff,
              vars, plugins, match
<1> QED
  BY <1>1, <1>2, <1>3, <1>4, <1>5, <1>6, MatchInv DEF Next

\* The invariant holds from the bot's first start on, through every command, switch and
\* restart.
THEOREM CommandsCorrect == Spec => []Inv
<1> QED
  BY InitInv, NextInv, PTL DEF Spec

\* The registry, the switches and the overrides hold what the code keeps in them
\* (core/commands.py, plugins/cmdmanager, plugins/poweradminurt).
THEOREM CommandsTyped == Spec => []TypeOK
<1>1. Inv => TypeOK
  BY DEF Inv
<1> QED
  BY <1>1, CommandsCorrect, PTL

\* A word finds a command only as its name or as the alias it has now, and a shown
\* alias works (commands.py:205), whatever plugins there are, whoever renames what, in
\* whatever order the overrides are put, over any number of restarts.
THEOREM WordsAndAliasesAgree == Spec => []AliasesAgree
<1>1. Inv => AliasesAgree
  BY DEF Inv, Sound, Agrees, AliasesAgree
<1> QED
  BY <1>1, CommandsCorrect, PTL

\* A plugin an admin switched off between matches stays off through the matches that
\* follow (poweradminurt/__init__.py:1575-1576).
THEOREM SwitchedOffIsOff == Spec => []SwitchedOffStaysOff
<1>1. Inv => SwitchedOffStaysOff
  BY DEF Inv, Switched
<1> QED
  BY <1>1, CommandsCorrect, PTL
=============================================================================
