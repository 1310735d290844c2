----------------------------- MODULE Core_proofs -----------------------------
(* What the core keeps: the promise of a recorded ban, for any players, lengths   *)
(* and titles; the order of lines, for any jobs and any events; and what MCCore   *)
(* says of its parts.  Last, what leads to the sentences, how players behave,     *)
(* what admins order, and the books of team kills.                                *)
EXTENDS MCCore, SequenceTheorems, FiniteSetTheorems

\* What the refinement needs of the types.
Rows ==
    /\ now \in Nat
    /\ penalties \in Seq(Penalty)
    /\ client \in [Players -> {"none", "authed", "rejected"}]

\* The rows a player's sentences come from.
Standing(p) == {j \in BanRows(p) : ~penalties[j].inactive}

-----------------------------------------------------------------------------
(* What the operations on the table do to the sentences.                      *)

\* A new row leaves every other row as it was.
LEMMA RecordRow ==
  ASSUME Rows, NEW p \in Players, NEW type \in Types, NEW minutes \in Nat, NEW end \in Ends,
         Record(p, type, minutes, end)
  PROVE  /\ penalties' \in Seq(Penalty) /\ Len(penalties') = Len(penalties) + 1
         /\ DOMAIN penalties = 1..Len(penalties) /\ DOMAIN penalties' = 1..(Len(penalties) + 1)
         /\ Len(penalties) \in Nat
         /\ \A i \in 1..Len(penalties) : penalties'[i] = penalties[i]
         /\ penalties'[Len(penalties) + 1].who = p
         /\ penalties'[Len(penalties) + 1].type = type
         /\ penalties'[Len(penalties) + 1].expire = end
         /\ penalties'[Len(penalties) + 1].inactive = FALSE
<1> DEFINE row == [who |-> p, type |-> type, duration |-> minutes, expire |-> end,
                   inactive |-> FALSE]
<1>1. row \in Penalty /\ penalties \in Seq(Penalty) /\ penalties' = Append(penalties, row)
  BY DEF Penalty, Rows, Record
<1>2. row.who = p /\ row.type = type /\ row.expire = end /\ row.inactive = FALSE
  OBVIOUS
<1> HIDE DEF row
<1>3. /\ penalties' \in Seq(Penalty) /\ Len(penalties') = Len(penalties) + 1
      /\ \A i \in 1..Len(penalties) : penalties'[i] = penalties[i]
      /\ penalties'[Len(penalties) + 1] = row
  BY <1>1, AppendProperties
<1>4. DOMAIN penalties = 1..Len(penalties) /\ DOMAIN penalties' = 1..(Len(penalties) + 1)
      /\ Len(penalties) \in Nat
  BY <1>1, <1>3
<1> QED
  BY <1>2, <1>3, <1>4

\* A ban adds its end to the sentences of its player.
LEMMA RecordBan ==
  ASSUME Rows, NEW p \in Players, NEW type \in Bans, NEW minutes \in Nat, NEW end \in Ends,
         Record(p, type, minutes, end)
  PROVE  penalties' \in Seq(Penalty) /\ Terms' = [Terms EXCEPT ![p] = @ \cup {end}]
<1> DEFINE n == Len(penalties) + 1
<1>1. /\ penalties' \in Seq(Penalty)
      /\ DOMAIN penalties = 1..Len(penalties) /\ DOMAIN penalties' = 1..n
      /\ Len(penalties) \in Nat
      /\ \A i \in 1..Len(penalties) : penalties'[i] = penalties[i]
      /\ penalties'[n].who = p /\ penalties'[n].type = type /\ penalties'[n].expire = end
      /\ penalties'[n].inactive = FALSE
  BY RecordRow DEF Types
<1>2. 1..n = 1..Len(penalties) \cup {n} /\ n \notin 1..Len(penalties)
  BY <1>1
<1> HIDE DEF n
<1>3. Standing(p)' = Standing(p) \cup {n}
  BY <1>1, <1>2 DEF Standing, BanRows
<1>4. \A q \in Players \ {p} : Standing(q)' = Standing(q)
  BY <1>1, <1>2 DEF Standing, BanRows
<1>5. \A q \in Players : \A i \in Standing(q) : penalties'[i] = penalties[i]
  BY <1>1 DEF Standing, BanRows
<1>6. Terms'[p] = Terms[p] \cup {end}
  BY <1>1, <1>3, <1>5 DEF Terms, Standing
<1>7. \A q \in Players \ {p} : Terms'[q] = Terms[q]
  BY <1>4, <1>5 DEF Terms, Standing
<1> QED
  BY <1>1, <1>6, <1>7 DEF Terms

\* A kick or a warning is no sentence.
LEMMA RecordOther ==
  ASSUME Rows, NEW p \in Players, NEW type \in Types \ Bans, NEW minutes \in Nat,
         NEW end \in Ends, Record(p, type, minutes, end)
  PROVE  penalties' \in Seq(Penalty) /\ Terms' = Terms
<1> DEFINE n == Len(penalties) + 1
<1>1. /\ penalties' \in Seq(Penalty)
      /\ DOMAIN penalties = 1..Len(penalties) /\ DOMAIN penalties' = 1..n
      /\ Len(penalties) \in Nat
      /\ \A i \in 1..Len(penalties) : penalties'[i] = penalties[i]
      /\ penalties'[n].type = type
  BY RecordRow
<1>2. 1..n = 1..Len(penalties) \cup {n}
  BY <1>1
<1> HIDE DEF n
<1>3. \A q \in Players : Standing(q)' = Standing(q)
  BY <1>1, <1>2 DEF Standing, BanRows
<1>4. \A q \in Players : \A i \in Standing(q) : penalties'[i] = penalties[i]
  BY <1>1 DEF Standing, BanRows
<1> QED
  BY <1>1, <1>3, <1>4 DEF Terms, Standing

\* Lifting rows of some types leaves every row what it was but for the mark.
LEMMA DisableRows ==
  ASSUME Rows, NEW p \in Players, NEW types, Disable(p, types)
  PROVE  /\ penalties' \in Seq(Penalty) /\ DOMAIN penalties' = DOMAIN penalties
         /\ \A i \in DOMAIN penalties :
              /\ penalties'[i].who = penalties[i].who
              /\ penalties'[i].type = penalties[i].type
              /\ penalties'[i].expire = penalties[i].expire
              /\ penalties'[i].inactive <=>
                   (penalties[i].inactive \/ (penalties[i].who = p /\ penalties[i].type \in types))
<1>1. penalties \in Seq(Penalty) /\ DOMAIN penalties = 1..Len(penalties) /\ Len(penalties) \in Nat
  BY DEF Rows
<1>2. \A i \in DOMAIN penalties : penalties[i] \in Penalty
  BY <1>1
<1>3. /\ DOMAIN penalties' = DOMAIN penalties
      /\ \A i \in DOMAIN penalties : penalties'[i] =
           [penalties[i] EXCEPT !.inactive =
               @ \/ (penalties[i].who = p /\ penalties[i].type \in types)]
  BY DEF Disable
<1>4. ASSUME NEW i \in DOMAIN penalties
      PROVE  /\ penalties'[i] \in Penalty
             /\ penalties'[i].who = penalties[i].who
             /\ penalties'[i].type = penalties[i].type
             /\ penalties'[i].expire = penalties[i].expire
             /\ penalties'[i].inactive <=>
                  (penalties[i].inactive \/ (penalties[i].who = p /\ penalties[i].type \in types))
  BY <1>2, <1>3 DEF Penalty
<1>5. penalties' \in Seq(Penalty)
  <2>1. penalties' = [i \in 1..Len(penalties) |-> penalties'[i]]
    BY <1>1 DEF Disable
  <2> QED
    BY <1>1, <1>4, <2>1
<1> QED
  BY <1>3, <1>4, <1>5

LEMMA DisableBans ==
  ASSUME Rows, NEW p \in Players, Disable(p, Bans)
  PROVE  penalties' \in Seq(Penalty) /\ Terms' = [Terms EXCEPT ![p] = {}]
<1>1. Standing(p)' = {}
  BY DisableRows DEF Standing, BanRows
<1>2. ASSUME NEW q \in Players \ {p} PROVE Standing(q)' = Standing(q)
  <2>1. \A i \in DOMAIN penalties : i \in Standing(q)' <=> i \in Standing(q)
    BY DisableRows DEF Standing, BanRows
  <2> QED
    BY <2>1, DisableRows DEF Standing, BanRows
<1>3. \A q \in Players : \A i \in Standing(q) : penalties'[i].expire = penalties[i].expire
  BY DisableRows DEF Standing, BanRows
<1>4. Terms'[p] = {}
  BY <1>1 DEF Terms, Standing
<1>5. \A q \in Players \ {p} : Terms'[q] = Terms[q]
  BY <1>2, <1>3 DEF Terms, Standing
<1>6. Terms' = [Terms EXCEPT ![p] = {}]
  BY <1>4, <1>5 DEF Terms
<1> QED
  BY <1>6, DisableRows

LEMMA DisableWarnings ==
  ASSUME Rows, NEW p \in Players, Disable(p, {"warning"})
  PROVE  penalties' \in Seq(Penalty) /\ Terms' = Terms
<1>1. ASSUME NEW q \in Players PROVE Standing(q)' = Standing(q)
  <2>1. \A i \in DOMAIN penalties : i \in Standing(q)' <=> i \in Standing(q)
    BY DisableRows DEF Standing, BanRows, Bans
  <2> QED
    BY <2>1, DisableRows DEF Standing, BanRows
<1>2. \A q \in Players : \A i \in Standing(q) : penalties'[i].expire = penalties[i].expire
  BY DisableRows DEF Standing, BanRows
<1>3. \A q \in Players : Terms'[q] = Terms[q]
  BY <1>1, <1>2 DEF Terms, Standing
<1>4. Terms' = Terms
  BY <1>3 DEF Terms
<1> QED
  BY <1>4, DisableRows

\* The rows the bot looks for are there just while a sentence runs.
LEMMA BannedWhileServing ==
  ASSUME NEW p \in Players
  PROVE  Banned(p) <=> Sentence!Serving(p)
<1>1. Banned(p) <=> \E i \in Standing(p) : StillRuns(penalties[i].expire)
  BY DEF Banned, ActiveOf, Active, Standing, BanRows, Bans
<1>2. Terms[p] = {penalties[i].expire : i \in Standing(p)}
  BY DEF Terms, Standing
<1> QED
  BY <1>1, <1>2 DEF Sentence!Serving, Sentence!Never, StillRuns, Never

-----------------------------------------------------------------------------
(* Every step keeps the promise.                                              *)

Served == {p \in Players : client[p] = "authed"}

LEMMA PromiseStep ==
  ASSUME Rows, [Next]_vars
  PROVE  Rows' /\ [Sentence!Next]_<<now, Terms, Served>>
<1> USE ClockAssumption, ProfileAssumption
<1> DEFINE Step == Rows' /\ [Sentence!Next]_<<now, Terms, Served>>
<1>1. ASSUME NEW p \in Players, UNCHANGED <<now, client>>, penalties' \in Seq(Penalty),
             Terms' = [Terms EXCEPT ![p] = Terms'[p]], Terms[p] \subseteq Terms'[p]
      PROVE  Step
  <2>1. Served' = Served
    BY <1>1 DEF Served
  <2>2. Sentence!Pronounce(p)
    BY <1>1, <2>1 DEF Sentence!Pronounce, Served
  <2> QED
    BY <1>1, <2>2 DEF Rows, Sentence!Next
<1>2. ASSUME UNCHANGED <<now, client>>, penalties' \in Seq(Penalty), Terms' = Terms
      PROVE  Step
  BY <1>2 DEF Rows, Served
<1>3. ASSUME NEW p \in Players, NEW type \in Bans, NEW minutes \in Nat, NEW end \in Ends,
             Record(p, type, minutes, end), UNCHANGED <<now, client>>
      PROVE  Step
  <2>1. penalties' \in Seq(Penalty) /\ Terms' = [Terms EXCEPT ![p] = @ \cup {end}]
    BY <1>3, RecordBan
  <2>2. Terms'[p] = Terms[p] \cup {end}
    BY <2>1 DEF Terms
  <2> QED
    BY <1>1, <1>3, <2>1, <2>2
<1>4. ASSUME NEW p \in Players, Ban(p) PROVE Step
  <2>1. "ban" \in Bans /\ Never \in Ends /\ 0 \in Nat
    BY DEF Bans, Ends
  <2> QED
    BY <1>3, <1>4, <2>1 DEF Ban
<1>5. ASSUME NEW p \in Players, NEW m \in Lengths, Tempban(p, m) PROVE Step
  <2>1. "tempban" \in Bans /\ m \in Nat /\ now + m * Minute \in Ends
    BY DEF Bans, Ends, Rows
  <2> QED
    BY <1>3, <1>5, <2>1 DEF Tempban
<1>6. ASSUME NEW p \in Players, Kick(p) PROVE Step
  <2>1. "kick" \in Types \ Bans /\ Never \in Ends /\ 0 \in Nat
    BY DEF Bans, Types, Ends
  <2>2. Record(p, "kick", 0, Never) /\ UNCHANGED <<now, client>>
    BY <1>6 DEF Kick
  <2> QED
    BY <1>2, <2>1, <2>2, RecordOther
<1>7. ASSUME NEW p \in Players, NEW m \in Lengths, Warn(p, m) PROVE Step
  <2> DEFINE end == IF m > 0 THEN now + m * Minute ELSE Never
  <2>1. "warning" \in Types \ Bans /\ m \in Nat /\ end \in Ends
    BY DEF Bans, Types, Ends, Rows
  <2>2. Record(p, "warning", m, end) /\ UNCHANGED <<now, client>>
    BY <1>7 DEF Warn
  <2> HIDE DEF end
  <2> QED
    BY <1>2, <2>1, <2>2, RecordOther
<1>8. ASSUME NEW p \in Players, Unban(p) PROVE Step
  <2>1. Disable(p, Bans) /\ UNCHANGED <<now, client>>
    BY <1>8 DEF Unban
  <2>2. penalties' \in Seq(Penalty) /\ Terms' = [Terms EXCEPT ![p] = {}]
    BY <2>1, DisableBans
  <2>3. Served' = Served
    BY <2>1 DEF Served
  <2>4. Sentence!Pardon(p)
    BY <2>1, <2>2, <2>3 DEF Sentence!Pardon, Served
  <2> QED
    BY <2>1, <2>2, <2>4 DEF Rows, Sentence!Next
<1>9. ASSUME NEW p \in Players, ClearWarnings(p) PROVE Step
  BY <1>2, <1>9, DisableWarnings DEF ClearWarnings
<1>10. ASSUME NEW p \in Players, Connect(p) \/ Leave(p) PROVE Step
  <2>1. Terms' = Terms
    BY <1>10 DEF Connect, Leave, Terms, BanRows
  <2> QED
    BY <1>2, <1>10, <2>1 DEF Connect, Leave, Rows
<1>11. ASSUME NEW p \in Players, UNCHANGED <<now, penalties>>,
              client' = [client EXCEPT ![p] = "none"] \/ client' = [client EXCEPT ![p] = "rejected"]
       PROVE  Step
  <2>1. Terms' = Terms
    BY <1>11 DEF Terms, BanRows
  <2>2. Served' = Served \ {p}
    BY <1>11 DEF Served, Rows
  <2>3. Sentence!Dismiss(p)
    BY <1>11, <2>1, <2>2 DEF Sentence!Dismiss, Served
  <2> QED
    BY <1>11, <2>3 DEF Rows, Sentence!Next
<1>12. ASSUME NEW p \in Players, Join(p) PROVE Step
  <2>1. CASE Banned(p)
    BY <1>11, <1>12, <2>1 DEF Join
  <2>2. CASE ~Banned(p)
    <3>1. client' = [client EXCEPT ![p] = "authed"] /\ UNCHANGED <<now, penalties>>
      BY <1>12, <2>2 DEF Join
    <3>2. Terms' = Terms
      BY <3>1 DEF Terms, BanRows
    <3>3. Served' = Served \cup {p}
      BY <3>1 DEF Served, Rows
    <3>4. ~Sentence!Serving(p)
      BY <2>2, BannedWhileServing
    <3>5. Sentence!Admit(p)
      BY <3>1, <3>2, <3>3, <3>4 DEF Sentence!Admit, Served
    <3> QED
      BY <3>1, <3>5 DEF Rows, Sentence!Next
  <2> QED
    BY <2>1, <2>2
<1>13. CASE Tick
  <2>1. Terms' = Terms /\ Served' = Served
    BY <1>13 DEF Tick, Terms, BanRows, Served
  <2>2. Sentence!Tick
    BY <1>13, <2>1 DEF Tick, Sentence!Tick, Served
  <2> QED
    BY <1>13, <2>2 DEF Tick, Rows, Sentence!Next
<1>14. ASSUME NEW p \in Players, Quit(p) PROVE Step
  BY <1>11, <1>14 DEF Quit
<1>15. CASE UNCHANGED vars
  <2>1. Terms' = Terms
    BY <1>15 DEF vars, Terms, BanRows
  <2> QED
    BY <1>2, <1>15, <2>1 DEF vars, Rows
<1> QED
  BY <1>4, <1>5, <1>6, <1>7, <1>8, <1>9, <1>10, <1>12, <1>13, <1>14, <1>15
     DEF Next, Comes, Moderates

\* Through lost commands, rejoins, map changes, overlapping bans and their lifting,
\* nobody is admitted while a sentence of theirs runs, and only an unban ends one
\* before its time (bot.py:850-949, 2016-2148).
THEOREM SentencesKept == Spec => ImplementsSentences
<1>1. Init => Rows /\ Sentence!Init
  <2> SUFFICES ASSUME Init PROVE Rows /\ Sentence!Init
    OBVIOUS
  <2>1. Rows /\ DOMAIN penalties = {}
    BY DEF Init, Rows
  <2>2. Terms = [p \in Players |-> {}]
    BY <2>1 DEF Terms, BanRows
  <2> QED
    BY <2>1, <2>2 DEF Init, Sentence!Init
<1>2. Rows /\ [Next]_vars => Rows' /\ [Sentence!Next]_<<now, Terms, Served>>
  BY PromiseStep
<1> QED
  BY <1>1, <1>2, PTL DEF Spec, ImplementsSentences, Sentence!Spec, Served

-----------------------------------------------------------------------------
(* The server's own list.                                                     *)

\* What a title must be able to say: a ban that ends, and not one of no length that is read as
\* one without an end.
SaysWhatIsMeant == Timed /\ (ZeroIsForever => 0 \notin Lengths)

\* An entry that ends then has a sentence on record behind it.
Backed(p, end) == \E e \in Terms[p] : e = Never \/ (end # Never /\ end < e + Minute)

BanEnds ==
    \A i \in DOMAIN penalties :
        /\ penalties[i].type = "ban" => penalties[i].expire = Never
        /\ penalties[i].type = "tempban" => penalties[i].expire \in Nat

ListBacked == \A p \in Players : ListedOn(p) /\ ~stuck[p] => Backed(p, serverBan[p])

Keeps ==
    /\ Rows /\ BanEnds
    /\ serverBan \in [Players -> Ends] /\ stuck \in [Players -> BOOLEAN]
    /\ ListBacked

\* Of finitely many numbers one is the largest: of the sets of those that are larger, one has
\* no other inside it.
LEMMA Largest ==
  ASSUME NEW I, IsFiniteSet(I), I # {}, NEW f \in [I -> Int]
  PROVE  \E i \in I : \A j \in I : f[j] <= f[i]
<1> DEFINE over(i) == {j \in I : f[j] > f[i]}
           overs == {over(i) : i \in I}
           inside == StrictSubsetOrdering(I)
<1>1. \A i \in I : over(i) \in FiniteSubsetsOf(I)
  BY FS_Subset DEF FiniteSubsetsOf
<1>2. overs \subseteq FiniteSubsetsOf(I) /\ overs # {}
  <2>1. overs \subseteq FiniteSubsetsOf(I)
    BY <1>1
  <2>2. PICK i \in I : TRUE
    OBVIOUS
  <2>3. over(i) \in overs
    BY <2>2
  <2> QED
    BY <2>1, <2>3
<1>3. IsWellFoundedOn(inside, FiniteSubsetsOf(I))
  BY FS_StrictSubsetOrderingWellFounded
<1> HIDE DEF inside
<1>4. PICK x \in overs : \A y \in overs : ~ (<<y, x>> \in inside)
  BY <1>2, <1>3, WFMin
<1>5. PICK i \in I : x = over(i)
  BY <1>4
<1>6. ASSUME NEW j \in I, f[j] > f[i] PROVE FALSE
  <2>1. over(j) \in overs /\ over(j) \subseteq over(i) /\ j \in over(i) /\ j \notin over(j)
    BY <1>6
  <2>2. <<over(j), x>> \in inside
    BY <2>1, <1>5 DEF inside, StrictSubsetOrdering
  <2> QED
    BY <2>1, <2>2, <1>4
<1>7. \A j \in I : f[j] <= f[i]
  BY <1>6
<1> QED
  BY <1>7

\* The largest member of a finite set is one of its members, and none is larger.
LEMMA MaxIsMember ==
  ASSUME NEW S, IsFiniteSet(S), S # {}, S \subseteq Int
  PROVE  Max(S) \in S /\ \A y \in S : Max(S) >= y
<1> DEFINE same == [x \in S |-> x]
<1>1. same \in [S -> Int]
  OBVIOUS
<1>2. \E x \in S : \A y \in S : same[y] <= same[x]
  BY <1>1, Largest
<1>3. \E x \in S : \A y \in S : x >= y
  BY <1>2
<1> QED
  BY <1>3 DEF Max

LEMMA Divided ==
  ASSUME NEW a \in Nat, NEW b \in Nat \ {0}
  PROVE  a \div b \in Nat /\ (a \div b) * b <= a
<1>1. a \div b \in Nat
  OBVIOUS
<1>2. (a \div b) * b <= a
  BY SMTT(30)
<1> QED
  BY <1>1, <1>2

LEMMA ManyTimes ==
  ASSUME NEW a \in Nat, NEW b \in Nat, NEW m \in Nat, a <= b
  PROVE  a * m <= b * m
  OBVIOUS

\* What is left of a timed ban is never told to the server as a minute too much.
LEMMA RemainingIsShort ==
  ASSUME Rows, BanEnds, NEW p \in Players, ActiveOf(p, "tempban") # {}, SaysWhatIsMeant
  PROVE  LET i == Max(ActiveOf(p, "tempban"))
         IN  /\ Remaining(i) \in Nat \ {0}
             /\ penalties[i].expire \in Terms[p] /\ penalties[i].expire \in Nat
             /\ now + Capped(Remaining(i)) * Minute < penalties[i].expire + Minute
<1> USE ClockAssumption, ProfileAssumption
<1> DEFINE rows == ActiveOf(p, "tempban")
           i == Max(rows)
           e == penalties[i].expire
           left == (e - now) \div Minute
<1>1. DOMAIN penalties = 1..Len(penalties) /\ Len(penalties) \in Nat /\ now \in Nat
  BY DEF Rows
<1>2. rows \subseteq 1..Len(penalties) /\ IsFiniteSet(rows)
  <2>1. rows \subseteq 1..Len(penalties)
    BY <1>1 DEF ActiveOf
  <2>2. IsFiniteSet(1..Len(penalties))
    BY <1>1, FS_Interval
  <2> QED
    BY <2>1, <2>2, FS_Subset
<1>3. i \in rows
  BY <1>1, <1>2, MaxIsMember
<1> HIDE DEF rows, i
<1>4. /\ i \in DOMAIN penalties /\ penalties[i].who = p /\ penalties[i].type = "tempban"
      /\ ~penalties[i].inactive /\ StillRuns(e)
  BY <1>3 DEF rows, ActiveOf, Active
<1>5. e \in Nat /\ e > now
  BY <1>4 DEF BanEnds, StillRuns, Never
<1>6. e \in Terms[p]
  BY <1>4 DEF Terms, BanRows, Bans
<1>7. left \in Nat /\ left * Minute <= e - now
  <2>1. e - now \in Nat
    BY <1>1, <1>5
  <2> QED
    BY <2>1, Divided
<1>8. Remaining(i) = IF left >= 1 THEN left ELSE 1
  <2>1. {1, left} \subseteq Int /\ {1, left} # {} /\ IsFiniteSet({1, left})
    <3>1. IsFiniteSet({1} \cup {left})
      <4>1. IsFiniteSet({1})
        BY FS_Singleton
      <4> QED
        BY <4>1, FS_AddElement
    <3>2. {1} \cup {left} = {1, left}
      OBVIOUS
    <3>3. 1 \in Int /\ left \in Int
      BY ONLY <1>7
    <3>4. {1, left} \subseteq Int /\ {1, left} # {}
      BY ONLY <3>3
    <3> QED
      BY ONLY <3>1, <3>2, <3>4
  <2>2. Max({1, left}) \in {1, left} /\ \A y \in {1, left} : Max({1, left}) >= y
    BY <2>1, MaxIsMember
  <2> QED
    BY <2>2, <1>7 DEF Remaining
<1> HIDE DEF left
<1>9. Remaining(i) * Minute < e + Minute - now
  BY <1>1, <1>5, <1>7, <1>8
<1>10. Capped(Remaining(i)) \in Nat /\ Capped(Remaining(i)) <= Remaining(i)
  BY <1>7, <1>8 DEF Capped
<1>11. Capped(Remaining(i)) * Minute <= Remaining(i) * Minute
  BY <1>7, <1>8, <1>10, ManyTimes
<1>12. now + Capped(Remaining(i)) * Minute < e + Minute
  <2>1. Capped(Remaining(i)) * Minute \in Nat /\ Remaining(i) * Minute \in Nat
    BY <1>7, <1>8, <1>10
  <2> QED
    BY <1>1, <1>5, <1>9, <1>11, <2>1
<1> QED
  BY <1>5, <1>6, <1>7, <1>8, <1>12 DEF i, rows

\* Whatever the verb makes of it, an entry that has a sentence behind it may be put on the list.
LEMMA EntryIsBacked ==
  ASSUME Keeps, NEW p \in Players, NEW end \in Ends, ServerBans(p, end),
         UNCHANGED <<now, stuck>>, \A q \in Players : Terms[q] \subseteq Terms'[q],
         \E e \in Terms'[p] : e = Never \/ (end # Never /\ end < e + Minute)
  PROVE  serverBan' \in [Players -> Ends] /\ ListBacked'
<1>1. serverBan' \in [Players -> Ends]
  BY DEF Keeps, ServerBans
<1>2. ASSUME NEW q \in Players, ListedOn(q)', ~stuck'[q] PROVE Backed(q, serverBan[q])'
  <2>1. CASE serverBan'[q] = serverBan[q]
    <3>1. ListedOn(q) /\ ~stuck[q]
      BY <1>2, <2>1 DEF ListedOn
    <3>2. Backed(q, serverBan[q])
      BY <3>1 DEF Keeps, ListBacked
    <3> QED
      BY <2>1, <3>2 DEF Backed
  <2>2. CASE serverBan'[q] # serverBan[q]
    <3>1. q = p /\ serverBan'[q] = end
      BY <2>2 DEF Keeps, ServerBans
    <3> QED
      BY <3>1 DEF Backed
  <2> QED
    BY <2>1, <2>2
<1> QED
  BY <1>1, <1>2 DEF ListBacked

\* A step that leaves the list alone may only add to the sentences.
LEMMA ListStays ==
  ASSUME Keeps, serverBan' = serverBan, stuck' = stuck, now' \in Nat, now' >= now,
         \A q \in Players : Terms[q] \subseteq Terms'[q]
  PROVE  ListBacked'
<1>1. ASSUME NEW q \in Players, ListedOn(q)', ~stuck'[q] PROVE Backed(q, serverBan[q])'
  <2>1. ListedOn(q) /\ ~stuck[q]
    BY <1>1 DEF ListedOn, Keeps, Rows, Ends
  <2>2. Backed(q, serverBan[q])
    BY <2>1 DEF Keeps, ListBacked
  <2> QED
    BY <2>2 DEF Backed
<1> QED
  BY <1>1 DEF ListBacked

\* A new row may be one of a ban or of a timed ban only with an end of that kind.
LEMMA RecordEnds ==
  ASSUME Rows, BanEnds, NEW p \in Players, NEW type \in Types, NEW minutes \in Nat,
         NEW end \in Ends, Record(p, type, minutes, end),
         type = "ban" => end = Never, type = "tempban" => end \in Nat
  PROVE  BanEnds'
<1> DEFINE n == Len(penalties) + 1
<1>1. /\ DOMAIN penalties = 1..Len(penalties) /\ DOMAIN penalties' = 1..n
      /\ Len(penalties) \in Nat
      /\ \A i \in 1..Len(penalties) : penalties'[i] = penalties[i]
      /\ penalties'[n].type = type /\ penalties'[n].expire = end
  BY RecordRow
<1>2. 1..n = 1..Len(penalties) \cup {n}
  BY <1>1
<1> HIDE DEF n
<1>3. ASSUME NEW i \in DOMAIN penalties'
      PROVE  /\ penalties'[i].type = "ban" => penalties'[i].expire = Never
             /\ penalties'[i].type = "tempban" => penalties'[i].expire \in Nat
  <2>1. CASE i \in 1..Len(penalties)
    BY <1>1, <2>1 DEF BanEnds
  <2>2. CASE i = n
    BY <1>1, <2>2
  <2> QED
    BY <1>1, <1>2, <2>1, <2>2
<1>4. \A i \in DOMAIN penalties' :
        /\ penalties'[i].type = "ban" => penalties'[i].expire = Never
        /\ penalties'[i].type = "tempban" => penalties'[i].expire \in Nat
  BY <1>3
<1> QED
  BY <1>4 DEF BanEnds, Never

LEMMA DisableEnds ==
  ASSUME Rows, BanEnds, NEW p \in Players, NEW types, Disable(p, types)
  PROVE  BanEnds'
  BY DisableRows DEF BanEnds

\* A timed ban of some minutes, with a sentence of as many behind it.
LEMMA TimedEntry ==
  ASSUME Keeps, SaysWhatIsMeant, NEW p \in Players, NEW minutes \in Nat,
         minutes \in Lengths \cup (Nat \ {0}), SendTempban(p, minutes)
  PROVE  now + Capped(minutes) * Minute \in Ends /\ ServerBans(p, now + Capped(minutes) * Minute)
<1> USE ClockAssumption, ProfileAssumption
<1>1. Capped(minutes) \in Nat /\ now \in Nat /\ Minute \in Nat
  BY DEF Capped, Keeps, Rows
<1>2. Capped(minutes) * Minute \in Nat
  BY <1>1
<1>3. ~(~Timed \/ (minutes = 0 /\ ZeroIsForever))
  BY DEF SaysWhatIsMeant
<1> QED
  BY <1>1, <1>2, <1>3 DEF SendTempban, Ends

LEMMA KeepsStep ==
  ASSUME Keeps, SaysWhatIsMeant, [Next]_vars
  PROVE  Keeps'
<1> USE ClockAssumption, ProfileAssumption
<1> DEFINE Kept == BanEnds' /\ serverBan' \in [Players -> Ends] /\ stuck' \in [Players -> BOOLEAN]
                   /\ ListBacked'
<1>1. Rows /\ Rows'
  BY PromiseStep DEF Keeps
<1>2. now \in Nat
  BY <1>1 DEF Rows
<1>3. ASSUME NEW p \in Players, Ban(p) PROVE Kept
  <2>1. "ban" \in Bans /\ "ban" \in Types /\ Never \in Ends /\ 0 \in Nat
    BY DEF Bans, Types, Ends
  <2>2. Record(p, "ban", 0, Never) /\ ServerBans(p, Never) /\ UNCHANGED <<now, stuck>>
    BY <1>3 DEF Ban
  <2>3. Terms' = [Terms EXCEPT ![p] = @ \cup {Never}]
    BY <1>1, <2>1, <2>2, RecordBan
  <2>4. Never \in Terms'[p] /\ \A q \in Players : Terms[q] \subseteq Terms'[q]
    BY <2>3 DEF Terms
  <2>5. \E e \in Terms'[p] : e = Never
    BY <2>4
  <2>6. BanEnds'
    BY <1>1, <2>1, <2>2, RecordEnds DEF Keeps
  <2> QED
    BY <2>1, <2>2, <2>4, <2>5, <2>6, EntryIsBacked DEF Keeps
<1>4. ASSUME NEW p \in Players, NEW m \in Lengths, Tempban(p, m) PROVE Kept
  <2> DEFINE end == now + m * Minute
             entry == now + Capped(m) * Minute
  <2>1. "tempban" \in Bans /\ "tempban" \in Types /\ m \in Nat /\ m * Minute \in Nat
    BY DEF Bans, Types
  <2>2. end \in Nat /\ end \in Ends
    BY <1>2, <2>1 DEF Ends
  <2>3. /\ Record(p, "tempban", m, end) /\ SendTempban(p, m)
        /\ UNCHANGED <<now, stuck>>
    BY <1>4 DEF Tempban
  <2>4. entry \in Ends /\ ServerBans(p, entry)
    BY <2>1, <2>3, TimedEntry
  <2>5. Capped(m) \in Nat /\ Capped(m) <= m
    BY <2>1 DEF Capped
  <2>6. entry <= end /\ entry \in Nat
    <3>1. Capped(m) * Minute <= m * Minute
      BY <2>1, <2>5, ManyTimes
    <3>2. Capped(m) * Minute \in Nat
      BY <2>5
    <3> QED
      BY <1>2, <2>1, <3>1, <3>2
  <2>7. entry < end + Minute /\ entry # Never
    BY <2>2, <2>6 DEF Never
  <2> HIDE DEF end, entry
  <2>8. Terms' = [Terms EXCEPT ![p] = @ \cup {end}]
    BY <1>1, <2>1, <2>2, <2>3, RecordBan
  <2>9. end \in Terms'[p] /\ \A q \in Players : Terms[q] \subseteq Terms'[q]
    BY <2>8 DEF Terms
  <2>10. \E e \in Terms'[p] : entry # Never /\ entry < e + Minute
    BY <2>7, <2>9
  <2>11. BanEnds'
    BY <1>1, <2>1, <2>2, <2>3, RecordEnds DEF Keeps
  <2>12. serverBan' \in [Players -> Ends] /\ ListBacked'
    BY <2>3, <2>4, <2>9, <2>10, EntryIsBacked
  <2>13. stuck' \in [Players -> BOOLEAN]
    BY <2>3 DEF Keeps
  <2> QED
    BY <2>11, <2>12, <2>13
\* Steps that touch neither the list nor what there is of sentences.
<1>5. ASSUME UNCHANGED <<serverBan, stuck>>, now' \in Nat, now' >= now, Terms' = Terms, BanEnds'
      PROVE  Kept
  <2>1. \A q \in Players : Terms[q] \subseteq Terms'[q]
    BY <1>5
  <2>2. ListBacked'
    BY <1>5, <2>1, ListStays
  <2> QED
    BY <1>5, <2>2 DEF Keeps
<1>6. ASSUME UNCHANGED <<now, penalties, serverBan, stuck>> PROVE Kept
  <2>1. Terms' = Terms /\ BanEnds'
    BY <1>6 DEF Terms, BanRows, BanEnds, Keeps
  <2> QED
    BY <1>2, <1>5, <1>6, <2>1
<1>7. ASSUME NEW p \in Players, Kick(p) PROVE Kept
  <2>1. "kick" \in Types \ Bans /\ "kick" \in Types /\ Never \in Ends /\ 0 \in Nat
    BY DEF Bans, Types, Ends
  <2>2. Record(p, "kick", 0, Never) /\ UNCHANGED <<now, serverBan, stuck>>
    BY <1>7 DEF Kick
  <2>3. Terms' = Terms
    BY <1>1, <2>1, <2>2, RecordOther
  <2>4. BanEnds'
    BY <1>1, <2>1, <2>2, RecordEnds DEF Keeps
  <2> QED
    BY <1>2, <1>5, <2>2, <2>3, <2>4
<1>8. ASSUME NEW p \in Players, NEW m \in Lengths, Warn(p, m) PROVE Kept
  <2> DEFINE end == IF m > 0 THEN now + m * Minute ELSE Never
  <2>1. "warning" \in Types \ Bans /\ "warning" \in Types /\ m \in Nat /\ end \in Ends
    BY <1>2 DEF Bans, Types, Ends
  <2>2. Record(p, "warning", m, end) /\ UNCHANGED <<now, serverBan, stuck>>
    BY <1>8 DEF Warn
  <2> HIDE DEF end
  <2>3. Terms' = Terms
    BY <1>1, <2>1, <2>2, RecordOther
  <2>4. BanEnds'
    BY <1>1, <2>1, <2>2, RecordEnds DEF Keeps
  <2> QED
    BY <1>2, <1>5, <2>2, <2>3, <2>4
<1>9. ASSUME NEW p \in Players, ClearWarnings(p) PROVE Kept
  <2>1. Disable(p, {"warning"}) /\ UNCHANGED <<now, serverBan, stuck>>
    BY <1>9 DEF ClearWarnings
  <2>2. Terms' = Terms
    BY <1>1, <2>1, DisableWarnings
  <2>3. BanEnds'
    BY <1>1, <2>1, DisableEnds DEF Keeps
  <2> QED
    BY <1>2, <1>5, <2>1, <2>2, <2>3
\* Lifting takes every sentence of one player away, and either the entry goes as well or it is stuck.
<1>10. ASSUME NEW p \in Players, Unban(p) PROVE Kept
  <2>1. Disable(p, Bans) /\ UNCHANGED now
    BY <1>10 DEF Unban
  <2>2. Terms' = [Terms EXCEPT ![p] = {}]
    BY <1>1, <2>1, DisableBans
  <2>3. BanEnds'
    BY <1>1, <2>1, DisableEnds DEF Keeps
  <2>4. /\ serverBan' \in [Players -> Ends] /\ stuck' \in [Players -> BOOLEAN]
        /\ \A q \in Players \ {p} : serverBan'[q] = serverBan[q] /\ stuck'[q] = stuck[q]
    <3>1. serverBan \in [Players -> Ends] /\ stuck \in [Players -> BOOLEAN] /\ 0 \in Ends
      BY DEF Keeps, Ends
    <3>2. CASE serverBan' = [serverBan EXCEPT ![p] = 0] /\ stuck' = [stuck EXCEPT ![p] = FALSE]
      BY <3>1, <3>2
    <3>3. CASE stuck' = [stuck EXCEPT ![p] = @ \/ ListedOn(p)] /\ UNCHANGED serverBan
      <4>1. (stuck[p] \/ ListedOn(p)) \in BOOLEAN
        OBVIOUS
      <4> QED
        BY <3>1, <3>3, <4>1
    <3> QED
      BY <1>10, <3>2, <3>3 DEF Unban
  <2>5. ListedOn(p)' => stuck'[p]
    <3>1. CASE serverBan' = [serverBan EXCEPT ![p] = 0]
      BY <1>2, <2>1, <3>1 DEF ListedOn, Keeps, Never
    <3>2. CASE stuck' = [stuck EXCEPT ![p] = @ \/ ListedOn(p)] /\ UNCHANGED serverBan
      BY <2>1, <3>2 DEF ListedOn, Keeps
    <3> QED
      BY <1>10, <3>1, <3>2 DEF Unban
  <2>6. ASSUME NEW q \in Players, ListedOn(q)', ~stuck'[q] PROVE Backed(q, serverBan[q])'
    <3>1. q # p
      BY <2>5, <2>6
    <3>2. ListedOn(q) /\ ~stuck[q]
      BY <2>1, <2>4, <2>6, <3>1 DEF ListedOn
    <3>3. Backed(q, serverBan[q])
      BY <3>2 DEF Keeps, ListBacked
    <3>4. Terms'[q] = Terms[q]
      BY <2>2, <3>1 DEF Terms
    <3> QED
      BY <2>4, <3>1, <3>3, <3>4 DEF Backed
  <2>7. ListBacked'
    BY <2>6 DEF ListBacked
  <2> QED
    BY <2>3, <2>4, <2>7
<1>11. ASSUME NEW p \in Players, Join(p), Banned(p) PROVE Kept
  <2>1. UNCHANGED <<now, penalties, stuck>> /\ EnforceBan(p)
    BY <1>11 DEF Join
  <2>2. Terms' = Terms /\ BanEnds'
    BY <2>1 DEF Terms, BanRows, BanEnds, Keeps
  <2>3. stuck' \in [Players -> BOOLEAN] /\ \A q \in Players : Terms[q] \subseteq Terms'[q]
    BY <2>1, <2>2 DEF Keeps
  <2>4. CASE ActiveOf(p, "ban") # {}
    <3>1. ServerBans(p, Never) /\ Never \in Ends
      BY <2>1, <2>4 DEF EnforceBan, Ends
    <3>2. PICK i \in ActiveOf(p, "ban") : TRUE
      BY <2>4
    <3>3. penalties[i].expire = Never /\ penalties[i].expire \in Terms[p]
      BY <3>2 DEF ActiveOf, Active, Keeps, BanEnds, Terms, BanRows, Bans
    <3>4. \E e \in Terms'[p] : e = Never
      BY <2>2, <3>3
    <3>5. serverBan' \in [Players -> Ends] /\ ListBacked'
      BY <2>1, <2>3, <3>1, <3>4, EntryIsBacked
    <3> QED
      BY <2>2, <2>3, <3>5
  <2>5. CASE ActiveOf(p, "ban") = {}
    <3> DEFINE i == Max(ActiveOf(p, "tempban"))
               left == Remaining(i)
               entry == now + Capped(left) * Minute
    <3>1. ActiveOf(p, "tempban") # {} /\ SendTempban(p, left)
      BY <1>11, <2>1, <2>5 DEF Banned, EnforceBan
    <3>2. /\ left \in Nat \ {0} /\ penalties[i].expire \in Terms[p]
          /\ penalties[i].expire \in Nat /\ entry < penalties[i].expire + Minute
      BY <1>1, <3>1, RemainingIsShort DEF Keeps
    <3> HIDE DEF left, i
    <3>3. entry \in Ends /\ ServerBans(p, entry)
      BY <3>1, <3>2, TimedEntry
    <3>4. entry # Never
      <4>1. Capped(left) \in Nat
        BY <3>2 DEF Capped
      <4>2. Capped(left) * Minute \in Nat
        BY <4>1
      <4> QED
        BY <1>2, <4>2 DEF Never
    <3> HIDE DEF entry
    <3>5. \E e \in Terms'[p] : e = Never \/ (entry # Never /\ entry < e + Minute)
      BY <2>2, <3>2, <3>4
    <3>6. serverBan' \in [Players -> Ends] /\ ListBacked'
      BY <2>1, <2>3, <3>3, <3>5, EntryIsBacked
    <3> QED
      BY <2>2, <2>3, <3>6
  <2> QED
    BY <2>4, <2>5
<1>12. ASSUME NEW p \in Players, Join(p), ~Banned(p) PROVE Kept
  BY <1>6, <1>12 DEF Join
<1>13. ASSUME NEW p \in Players, Connect(p) \/ Leave(p) \/ Quit(p) PROVE Kept
  BY <1>6, <1>13 DEF Connect, Leave, Quit
<1>14. ASSUME Tick PROVE Kept
  <2>1. Terms' = Terms /\ BanEnds'
    BY <1>14 DEF Tick, Terms, BanRows, BanEnds, Keeps
  <2>2. now' \in Nat /\ now' >= now /\ UNCHANGED <<serverBan, stuck>>
    BY <1>2, <1>14 DEF Tick
  <2> QED
    BY <1>5, <2>1, <2>2
<1>15. ASSUME UNCHANGED vars PROVE Kept
  <2>1. UNCHANGED <<now, penalties, serverBan, stuck>>
    BY <1>15 DEF vars
  <2> QED
    BY <1>6, <2>1
<1>16. Kept
  BY <1>3, <1>4, <1>7, <1>8, <1>9, <1>10, <1>11, <1>12, <1>13, <1>14, <1>15
     DEF Next, Comes, Moderates
<1> QED
  BY <1>1, <1>16 DEF Keeps

-----------------------------------------------------------------------------
(* From there being a sentence behind every entry to what the entry may say.  *)

\* The ends of the sentences are finitely many.
LEMMA TermsAreFinite ==
  ASSUME Rows, BanEnds, NEW p \in Players
  PROVE  IsFiniteSet(Terms[p]) /\ Terms[p] \subseteq Ends
<1>1. DOMAIN penalties = 1..Len(penalties) /\ Len(penalties) \in Nat
  BY DEF Rows
<1>2. Standing(p) \subseteq 1..Len(penalties)
  BY <1>1 DEF Standing, BanRows
<1>3. IsFiniteSet(Standing(p))
  <2>1. IsFiniteSet(1..Len(penalties))
    BY <1>1, FS_Interval
  <2> QED
    BY <1>2, <2>1, FS_Subset
<1> DEFINE ends == [i \in Standing(p) |-> penalties[i].expire]
<1>4. Terms[p] = {penalties[i].expire : i \in Standing(p)}
  BY DEF Terms, Standing
<1>5. ends \in Surjection(Standing(p), Terms[p])
  BY <1>4 DEF Surjection
<1>6. IsFiniteSet(Terms[p])
  BY <1>3, <1>5, FS_Surjection
<1>7. \A i \in Standing(p) : penalties[i].expire \in Ends
  <2>1. \A i \in DOMAIN penalties : penalties[i] \in Penalty
    BY <1>1 DEF Rows
  <2>2. \A i \in DOMAIN penalties : penalties[i].expire \in Ends
    BY <2>1 DEF Penalty
  <2> QED
    BY <2>2 DEF Standing, BanRows
<1> QED
  BY <1>4, <1>6, <1>7

LEMMA BackedIsKept ==
  ASSUME Keeps
  PROVE  ServerKeepsToTheSentence
<1> USE ClockAssumption
<1> SUFFICES ASSUME NEW p \in Players, ListedOn(p), ~stuck[p]
             PROVE  IF serverBan[p] = Never THEN Never \in Terms[p]
                    ELSE Never \in Terms[p] \/ serverBan[p] < OwedUntil(p) + Minute
  BY DEF ServerKeepsToTheSentence
<1>1. PICK e \in Terms[p] : e = Never \/ (serverBan[p] # Never /\ serverBan[p] < e + Minute)
  BY DEF Keeps, ListBacked, Backed
<1>2. IsFiniteSet(Terms[p]) /\ Terms[p] \subseteq Ends
  BY TermsAreFinite DEF Keeps
<1> DEFINE all == {0} \cup Terms[p]
<1>3. IsFiniteSet(all) /\ all # {} /\ all \subseteq Int
  <2>1. IsFiniteSet(Terms[p] \cup {0})
    BY <1>2, FS_AddElement
  <2>2. all = Terms[p] \cup {0}
    OBVIOUS
  <2>3. all \subseteq Int
    BY <1>2 DEF Ends, Never
  <2> QED
    BY <2>1, <2>2, <2>3
<1>4. OwedUntil(p) \in Int /\ OwedUntil(p) >= e
  BY <1>1, <1>3, MaxIsMember DEF OwedUntil
<1>5. e \in Int /\ serverBan[p] \in Int
  BY <1>1, <1>2 DEF Ends, Never, Keeps
<1> QED
  BY <1>1, <1>4, <1>5

\* With verbs that can say what is meant, and however many commands are lost: no permanent entry
\* without a permanent ban behind it, and no timed one longer than the record by more than the
\* minute the rest is rounded up to (bot.py:930-948, 2053-2080).
THEOREM ServerListFollows ==
  ASSUME SaysWhatIsMeant
  PROVE  Spec => []ServerKeepsToTheSentence
<1>1. Init => Keeps
  <2> SUFFICES ASSUME Init PROVE Keeps
    OBVIOUS
  <2>1. Rows /\ BanEnds /\ \A p \in Players : ~ListedOn(p)
    BY DEF Init, Rows, BanEnds, ListedOn, Never
  <2> QED
    BY <2>1 DEF Init, Keeps, ListBacked, Ends
<1>2. Keeps /\ [Next]_vars => Keeps'
  BY KeepsStep
<1>3. Keeps => ServerKeepsToTheSentence
  BY BackedIsKept
<1> QED
  BY <1>1, <1>2, <1>3, PTL DEF Spec

-----------------------------------------------------------------------------
(* The types, for any title.                                                  *)

LEMMA RemainingIsNumber ==
  ASSUME Rows, NEW p \in Players, ActiveOf(p, "tempban") # {}
  PROVE  Remaining(Max(ActiveOf(p, "tempban"))) \in Nat
<1> USE ClockAssumption
<1> DEFINE rows == ActiveOf(p, "tempban")
           i == Max(rows)
           left == (penalties[i].expire - now) \div Minute
<1>1. DOMAIN penalties = 1..Len(penalties) /\ Len(penalties) \in Nat /\ now \in Nat
  BY DEF Rows
<1>2. rows \subseteq 1..Len(penalties) /\ IsFiniteSet(rows)
  <2>1. rows \subseteq 1..Len(penalties)
    BY <1>1 DEF ActiveOf
  <2>2. IsFiniteSet(1..Len(penalties))
    BY <1>1, FS_Interval
  <2> QED
    BY <2>1, <2>2, FS_Subset
<1>3. i \in 1..Len(penalties)
  <2>1. i \in rows
    BY <1>1, <1>2, MaxIsMember
  <2> HIDE DEF i
  <2> QED
    BY <1>2, <2>1
<1> HIDE DEF rows, i
<1>4. left \in Int
  <2>1. penalties[i].expire \in Int
    <3>1. penalties[i] \in Penalty
      BY <1>1, <1>3 DEF Rows
    <3>2. penalties[i].expire \in Ends
      BY <3>1 DEF Penalty
    <3> QED
      BY <3>2 DEF Ends, Never
  <2>2. penalties[i].expire - now \in Int
    BY <1>1, <2>1
  <2> QED
    BY <2>2
<1> HIDE DEF left
<1>5. Max({1, left}) \in {1, left} /\ Max({1, left}) >= 1
  <2>1. IsFiniteSet({1} \cup {left}) /\ {1} \cup {left} = {1, left}
    <3>1. IsFiniteSet({1})
      BY FS_Singleton
    <3> QED
      BY <3>1, FS_AddElement
  <2>2. {1, left} \subseteq Int /\ {1, left} # {} /\ IsFiniteSet({1, left})
    BY <1>4, <2>1
  <2>3. Max({1, left}) \in {1, left} /\ \A y \in {1, left} : Max({1, left}) >= y
    BY <2>2, MaxIsMember
  <2> QED
    BY <2>3
<1>6. Remaining(i) = Max({1, left})
  BY DEF Remaining, left
<1> QED
  BY <1>4, <1>5, <1>6 DEF rows, i

\* What a timed ban puts on the server's list is an end.
LEMMA TempbanIsListed ==
  ASSUME TypeOK, NEW p \in Players, NEW minutes \in Nat, SendTempban(p, minutes)
  PROVE  \E end \in Ends : ServerBans(p, end)
<1> USE ClockAssumption, ProfileAssumption
<1>1. Capped(minutes) \in Nat /\ now \in Nat
  BY DEF Capped, TypeOK
<1>2. Capped(minutes) * Minute \in Nat
  BY <1>1
<1>3. now + Capped(minutes) * Minute \in Ends /\ Never \in Ends
  BY <1>1, <1>2 DEF Ends
<1> QED
  BY <1>3 DEF SendTempban

LEMMA TypesStep ==
  ASSUME TypeOK, [Next]_vars
  PROVE  TypeOK'
<1> USE ClockAssumption, ProfileAssumption
<1>1. Rows /\ Rows'
  BY PromiseStep DEF TypeOK, Rows
<1> DEFINE Listed == seated' \subseteq Players /\ serverBan' \in [Players -> Ends]
           Typed == /\ now' \in 0..MaxTime /\ Len(penalties') <= MaxRecords
                    /\ Listed /\ stuck' \in [Players -> BOOLEAN]
<1>2. /\ now \in 0..MaxTime /\ Len(penalties) <= MaxRecords /\ Len(penalties) \in Nat
      /\ seated \subseteq Players /\ serverBan \in [Players -> Ends]
      /\ stuck \in [Players -> BOOLEAN]
  BY DEF TypeOK
<1>3. ASSUME NEW p \in Players, NEW end \in Ends, ServerBans(p, end) PROVE Listed
  BY <1>2, <1>3 DEF ServerBans
<1>4. ASSUME NEW p \in Players, NEW type \in Types, NEW minutes \in Nat, NEW end \in Ends,
             Record(p, type, minutes, end)
      PROVE  Len(penalties') <= MaxRecords
  <2>1. Len(penalties') = Len(penalties) + 1
    BY <1>1, <1>4, RecordRow
  <2>2. Len(penalties) < MaxRecords
    BY <1>4 DEF Record
  <2> QED
    BY <1>2, <2>1, <2>2
<1>5. ASSUME NEW p \in Players, NEW types, Disable(p, types) PROVE Len(penalties') <= MaxRecords
  <2>1. DOMAIN penalties' = DOMAIN penalties /\ penalties' \in Seq(Penalty) /\ penalties \in Seq(Penalty)
    BY <1>1, <1>5, DisableRows DEF Rows
  <2>2. Len(penalties') = Len(penalties)
    BY <2>1
  <2> QED
    BY <1>2, <2>2
<1>6. ASSUME NEW p \in Players, Ban(p) PROVE Typed
  <2>1. Record(p, "ban", 0, Never) /\ ServerBans(p, Never) /\ UNCHANGED <<now, stuck>>
    BY <1>6 DEF Ban
  <2>2. "ban" \in Types /\ Never \in Ends /\ 0 \in Nat
    BY DEF Types, Bans, Ends
  <2> QED
    BY <1>2, <1>3, <1>4, <2>1, <2>2
<1>7. ASSUME NEW p \in Players, NEW m \in Lengths, Tempban(p, m) PROVE Typed
  <2>1. Record(p, "tempban", m, now + m * Minute) /\ SendTempban(p, m) /\ UNCHANGED <<now, stuck>>
    BY <1>7 DEF Tempban
  <2>2. m \in Nat /\ m * Minute \in Nat /\ now \in Nat
    BY <1>2
  <2>3. "tempban" \in Types /\ now + m * Minute \in Ends
    BY <2>2 DEF Types, Bans, Ends
  <2>4. \E end \in Ends : ServerBans(p, end)
    BY <2>1, <2>2, TempbanIsListed
  <2> QED
    BY <1>2, <1>3, <1>4, <2>1, <2>2, <2>3, <2>4
<1>8. ASSUME NEW p \in Players, Kick(p) PROVE Typed
  <2>1. /\ Record(p, "kick", 0, Never) /\ UNCHANGED <<now, serverBan, stuck>>
        /\ seated' \subseteq seated
    BY <1>8 DEF Kick
  <2>2. "kick" \in Types /\ Never \in Ends /\ 0 \in Nat
    BY DEF Types, Bans, Ends
  <2> QED
    BY <1>2, <1>4, <2>1, <2>2
<1>9. ASSUME NEW p \in Players, NEW m \in Lengths, Warn(p, m) PROVE Typed
  <2> DEFINE end == IF m > 0 THEN now + m * Minute ELSE Never
  <2>1. Record(p, "warning", m, end) /\ UNCHANGED <<now, seated, serverBan, stuck>>
    BY <1>9 DEF Warn
  <2>2. m \in Nat /\ m * Minute \in Nat /\ now \in Nat
    BY <1>2
  <2>3. "warning" \in Types /\ end \in Ends
    BY <2>2 DEF Types, Bans, Ends
  <2> HIDE DEF end
  <2> QED
    BY <1>2, <1>4, <2>1, <2>2, <2>3
<1>10. ASSUME NEW p \in Players, Unban(p) PROVE Typed
  <2>1. Disable(p, Bans) /\ UNCHANGED <<now, seated>>
    BY <1>10 DEF Unban
  <2>2. 0 \in Ends /\ (stuck[p] \/ ListedOn(p)) \in BOOLEAN
    BY DEF Ends
  <2>3. serverBan' \in [Players -> Ends] /\ stuck' \in [Players -> BOOLEAN]
    <3>1. CASE serverBan' = [serverBan EXCEPT ![p] = 0] /\ stuck' = [stuck EXCEPT ![p] = FALSE]
      BY <1>2, <2>2, <3>1
    <3>2. CASE stuck' = [stuck EXCEPT ![p] = @ \/ ListedOn(p)] /\ UNCHANGED serverBan
      BY <1>2, <2>2, <3>2
    <3> QED
      BY <1>10, <3>1, <3>2 DEF Unban
  <2> QED
    BY <1>2, <1>5, <2>1, <2>3
<1>11. ASSUME NEW p \in Players, ClearWarnings(p) PROVE Typed
  BY <1>2, <1>5, <1>11 DEF ClearWarnings
<1>12. ASSUME NEW p \in Players, Join(p) PROVE Typed
  <2>1. UNCHANGED <<now, penalties, stuck>>
    BY <1>12 DEF Join
  <2>2. CASE ~Banned(p)
    BY <1>2, <1>12, <2>1, <2>2 DEF Join
  <2>3. CASE Banned(p)
    <3>1. EnforceBan(p)
      BY <1>12, <2>3 DEF Join
    <3>2. \E end \in Ends : ServerBans(p, end)
      <4>1. CASE ActiveOf(p, "ban") # {}
        BY <3>1, <4>1 DEF EnforceBan, Ends
      <4>2. CASE ActiveOf(p, "ban") = {}
        <5>1. ActiveOf(p, "tempban") # {} /\ SendTempban(p, Remaining(Max(ActiveOf(p, "tempban"))))
          BY <2>3, <3>1, <4>2 DEF Banned, EnforceBan
        <5>2. Remaining(Max(ActiveOf(p, "tempban"))) \in Nat
          BY <1>1, <5>1, RemainingIsNumber
        <5> QED
          BY <5>1, <5>2, TempbanIsListed
      <4> QED
        BY <4>1, <4>2
    <3> QED
      BY <1>2, <1>3, <2>1, <3>2
  <2> QED
    BY <2>2, <2>3
<1>13. ASSUME NEW p \in Players, Connect(p) \/ Leave(p) \/ Quit(p) PROVE Typed
  BY <1>2, <1>13 DEF Connect, Leave, Quit
<1>14. ASSUME Tick PROVE Typed
  BY <1>2, <1>14 DEF Tick
<1>15. ASSUME UNCHANGED vars PROVE Typed
  BY <1>2, <1>15 DEF vars
<1>16. Typed
  BY <1>6, <1>7, <1>8, <1>9, <1>10, <1>11, <1>12, <1>13, <1>14, <1>15 DEF Next, Comes, Moderates
<1> QED
  BY <1>1, <1>16 DEF TypeOK, Rows

LEMMA TypesInit ==
  Init => TypeOK
  BY ClockAssumption DEF Init, TypeOK, Ends

-----------------------------------------------------------------------------
(* The run loop.                                                              *)

\* But while the loop waits for a line to be done, nothing is under way that a line led to.
LoopInv == LoopTypeOK /\ (pc # "drain" => \A e \in background : ~e.ofLine)

LEMMA Published ==
  ASSUME NEW ofLine \in BOOLEAN, NEW depth \in 0..Cascade
  PROVE  PublishSoon(ofLine, depth) \in Publishes /\ PublishSoon(ofLine, depth).ofLine = ofLine
  BY DEF PublishSoon, Publishes

LEMMA LoopStarts ==
  LoopInit => LoopInv
<1> SUFFICES ASSUME LoopInit PROVE LoopInv
  OBVIOUS
<1>1. 0 \in 0..(Seconds - 1) /\ 0 \in 0..MaxLines /\ 0 \in 0..MaxPolls
  BY LoopAssumption
<1>2. LoopTypeOK
  BY <1>1 DEF LoopInit, LoopTypeOK, Places
<1> QED
  BY <1>2 DEF LoopInit, LoopInv

\* The loop's own steps, but for the ones that publish.
LEMMA QuietStep ==
  ASSUME LoopInv, Poll \/ Read \/ FeedPaused \/ Drained \/ Fed \/ TickBegins \/ Sleep
  PROVE  LoopInv'
<1> USE LoopAssumption DEF LoopInv, LoopTypeOK, Places, jobVars
<1>1. CASE Poll
  BY <1>1 DEF Poll
<1>2. CASE Read
  BY <1>2 DEF Read
<1>3. CASE FeedPaused
  BY <1>3 DEF FeedPaused
<1>4. CASE Drained
  BY <1>4 DEF Drained
<1>5. CASE Fed
  BY <1>5 DEF Fed
<1>6. CASE TickBegins
  BY <1>6 DEF TickBegins, Due
<1>7. CASE Sleep
  BY <1>7 DEF Sleep
<1> QED
  BY <1>1, <1>2, <1>3, <1>4, <1>5, <1>6, <1>7

\* A line's first event is waited for.
LEMMA FeedStep ==
  ASSUME LoopInv, Feed
  PROVE  LoopInv'
<1> USE LoopAssumption DEF LoopInv, LoopTypeOK, Places
<1>1. PublishSoon(TRUE, Cascade) \in Publishes
  <2>1. Cascade \in 0..Cascade
    OBVIOUS
  <2> QED
    BY <2>1, Published
<1>2. background' \subseteq Publishes /\ tracked' \subseteq Publishes
  BY <1>1 DEF Feed
<1>3. disabled' \subseteq Jobs /\ ended' \in BOOLEAN /\ batch' \in 0..MaxLines /\ pc' = "drain"
  <2>1. disabled' \subseteq Jobs
    BY DEF Feed
  <2>2. ended' \in BOOLEAN
    BY DEF Feed
  <2>3. batch > 0 /\ batch' = batch - 1 /\ pc' = "drain"
    BY DEF Feed
  <2> QED
    BY <2>1, <2>2, <2>3
<1> QED
  BY <1>2, <1>3 DEF Feed

\* What publishes beside a line does not pass for the line's.
LEMMA OthersPublish ==
  ASSUME LoopInv, PollAnswered \/ \E j \in Jobs : RunJob(j)
  PROVE  LoopInv'
<1> USE LoopAssumption DEF LoopInv, LoopTypeOK, Places
<1>1. PublishSoon(FALSE, Cascade) \in Publishes /\ ~PublishSoon(FALSE, Cascade).ofLine
  <2>1. Cascade \in 0..Cascade
    OBVIOUS
  <2> QED
    BY <2>1, Published
<1>2. CASE PollAnswered
  <2>1. polls' \in 0..MaxPolls
    BY <1>2 DEF PollAnswered
  <2>2. background' \subseteq Publishes /\ (pc' # "drain" => \A e \in background' : ~e.ofLine)
    BY <1>1, <1>2 DEF PollAnswered
  <2> QED
    BY <1>2, <2>1, <2>2 DEF PollAnswered, jobVars
<1>3. ASSUME NEW j \in Jobs, RunJob(j) PROVE LoopInv'
  BY <1>1, <1>3 DEF RunJob
<1> QED
  BY <1>2, <1>3

\* An event that another leads to is of the same line, or of none.
LEMMA DeliverStep ==
  ASSUME LoopInv, NEW e \in Publishes, Deliver(e)
  PROVE  LoopInv'
<1> USE LoopAssumption DEF LoopInv, LoopTypeOK, Places
<1>1. PICK more \in {{}} \cup IF e.depth > 0 THEN {{PublishSoon(e.ofLine, e.depth - 1)}} ELSE {} :
        /\ background' = (background \ {e}) \cup more
        /\ tracked' = tracked \ ({e} \ more)
  BY DEF Deliver
<1>2. more \subseteq Publishes /\ \A n \in more : n.ofLine = e.ofLine
  <2>1. CASE more = {}
    BY <2>1
  <2>2. CASE e.depth > 0 /\ more = {PublishSoon(e.ofLine, e.depth - 1)}
    <3>1. e.ofLine \in BOOLEAN /\ e.depth - 1 \in 0..Cascade
      BY <2>2 DEF Publishes
    <3> QED
      BY <2>2, <3>1, Published
  <2> QED
    BY <1>1, <2>1, <2>2
<1>3. e \in background /\ UNCHANGED <<pc, second, batch, jobVars, polls, ended>>
  BY DEF Deliver
<1>4. background' \subseteq Publishes /\ tracked' \subseteq Publishes
  BY <1>1, <1>2
<1>5. pc' # "drain" => \A n \in background' : ~n.ofLine
  BY <1>1, <1>2, <1>3
<1> QED
  BY <1>3, <1>4, <1>5 DEF jobVars

LEMMA LoopInductive ==
  ASSUME LoopInv, [LoopNext]_loopVars
  PROVE  LoopInv'
<1>1. CASE Clock
  BY <1>1, LoopAssumption DEF Clock, LoopInv, LoopTypeOK, Places
<1>2. CASE UNCHANGED loopVars
  BY <1>2 DEF loopVars, jobVars, LoopInv, LoopTypeOK
<1> QED
  BY <1>1, <1>2, QuietStep, FeedStep, OthersPublish, DeliverStep DEF LoopNext, LoopStep

\* Whatever a line led to is done before the next line is taken and before the jobs of the
\* second run, for any jobs, any length of the chains of events, any number of polls.
\* (bus.py:97-144, bot.py:654-665)
THEOREM LinesSettle == LoopSpec => [](LoopTypeOK /\ LineSettles)
<1>1. LoopInv => LoopTypeOK /\ LineSettles
  BY DEF LoopInv, LineSettles
<1> QED
  BY <1>1, LoopStarts, LoopInductive, PTL DEF LoopSpec

-----------------------------------------------------------------------------
(* The parts of MCCore together.                                              *)

CoreInv == AuthInv /\ LoopInv /\ TypeOK

LEMMA CoreStarts ==
  ASSUME Slots # {}
  PROVE  CoreInit => CoreInv
<1>1. AuthRests => AuthInv
  <2> SUFFICES ASSUME AuthRests PROVE AuthInv
    OBVIOUS
  <2> USE NoTaskAssumption, MaxAttemptsAssumption DEF AuthRests
  <2>1. (CHOOSE c \in Slots : TRUE) \in Slots
    OBVIOUS
  <2>2. AuthTypeOK
    <3>1. registry \in [Slots -> Tasks \cup {NoTask}] /\ phase \in [Tasks -> Phases]
      BY DEF Phases
    <3>2. PICK c \in Slots : slotOf = [t \in Tasks |-> c]
      BY <2>1
    <3>3. slotOf \in [Tasks -> Slots]
      BY ONLY <3>2
    <3>4. attempt \in [Tasks -> 0..MaxAttempts]
      OBVIOUS
    <3>5. doomed \subseteq Tasks /\ stopped \in BOOLEAN
      OBVIOUS
    <3> QED
      BY ONLY <3>1, <3>3, <3>4, <3>5 DEF AuthTypeOK
  <2>3. AttemptLeft /\ DoomedExist /\ RegistryIsLive
    BY DEF AttemptLeft, DoomedExist, RegistryIsLive
  <2>4. ForgottenHasCause
    BY DEF ForgottenHasCause, Live, Unfinished, Suspended
  <2> QED
    BY <2>2, <2>3, <2>4 DEF AuthInv
<1>2. LoopRests => LoopInv
  <2> SUFFICES ASSUME LoopRests PROVE LoopInv
    OBVIOUS
  <2>1. 0 \in 0..(Seconds - 1) /\ 0 \in 0..MaxLines /\ 0 \in 0..MaxPolls
    BY LoopAssumption
  <2>2. LoopTypeOK
    BY <2>1 DEF LoopRests, LoopTypeOK, Places
  <2> QED
    BY <2>2 DEF LoopRests, LoopInv
<1> QED
  BY <1>1, <1>2, AuthInitInv, LoopStarts, TypesInit DEF CoreInit, CoreInv

LEMMA CoreInductive ==
  CoreInv /\ [CoreNext]_<<authVars, loopVars, vars, checked>> => CoreInv'
<1> SUFFICES ASSUME CoreInv, [CoreNext]_<<authVars, loopVars, vars, checked>> PROVE CoreInv'
  OBVIOUS
<1>1. [AuthNext]_authVars /\ [LoopNext]_loopVars /\ [Next]_vars
  BY DEF CoreNext
<1>2. AuthInv'
  BY <1>1, AuthTypeStep, RegistryStep, ForgottenStep DEF AuthInv, CoreInv
<1> QED
  BY <1>1, <1>2, LoopInductive, TypesStep DEF CoreInv

\* The variables of the three parts of the core keep their types, for any slots, polls, jobs,
\* players and titles.
THEOREM CoreTyped ==
  ASSUME Slots # {}
  PROVE  CoreSpec => []CoreTypeOK
<1>1. CoreInv => CoreTypeOK
  BY DEF CoreInv, AuthInv, LoopInv, CoreTypeOK
<1> QED
  BY <1>1, CoreStarts, CoreInductive, PTL DEF CoreSpec

\* A live poll is forgotten only after a cancelled one of its slot, and no line is taken before
\* everything the last one led to is done: for any slots, polls, jobs and chains of events.
\* (auth.py:66-115, bus.py:97-144)
THEOREM NothingIsForgotten ==
  ASSUME Slots # {}
  PROVE  CoreSpec => []NothingForgotten
<1>1. CoreInv => NothingForgotten
  BY DEF CoreInv, AuthInv, LoopInv, LineSettles, NothingForgotten
<1> QED
  BY <1>1, CoreStarts, CoreInductive, PTL DEF CoreSpec
-----------------------------------------------------------------------------
(* How players behave.  Each of the watches has an invariant of its own.  With no    *)
(* message since the last penalty, a player's points are none, or those left by a    *)
(* mute; a mute of censor is the step of the offence; a bad spell has a high reading *)
(* in it; nobody has had another's name since before the sweep before the last; and  *)
(* the scores are those of the story.                                              *)

CONSTANTS
    Names, Watches, ChatFalloff, RadioFalloff, MaxSpamins, LongGap, MuteFor,
    Ladder, WarnAfter, Endurance, Settle, MaxNicks, Interval, Late,
    KillSpree, LossSpree, MaxEvents

VARIABLES watch, spam, words, ping, nick, spree, story

Manners == INSTANCE Conduct

MannersMatter ==
    /\ MaxTime \in Nat
    /\ ChatFalloff \in Nat \ {0} /\ RadioFalloff \in Nat \ {0}
    /\ MaxSpamins \in Nat /\ MaxSpamins > 8 /\ LongGap \in Nat
    /\ MuteFor \in Nat /\ MuteFor >= 2 * ChatFalloff /\ MuteFor >= RadioFalloff
    /\ Ladder \in Seq(Nat) /\ Ladder # <<>> /\ WarnAfter \in Nat
    /\ \A i, j \in 1..Len(Ladder) : i <= j => Ladder[i] <= Ladder[j]
    /\ Endurance \in Nat /\ Settle \in Nat
    /\ Names # {} /\ Interval \in Nat \ {0} /\ Late \in Nat
    /\ KillSpree \in Nat \ {0} /\ LossSpree \in Nat \ {0} /\ MaxEvents \in Nat
    /\ Manners!NoOne \notin Players

Blank == Manners!None
Clocks == Nat \cup {Blank}

\* More than this a player cannot have when the radio mutes them.
Full == MaxSpamins * Manners!Point
Marks == Manners!Texts \cup Manners!Calls \cup {Manners!Nothing}

SpamInv ==
    /\ spam \in [points : Nat, time : Nat, last : Marks, radio : Clocks, mute : Nat, lines : Nat,
                 did : {Manners!Nothing, "warn", "mute"}, can : BOOLEAN]
    /\ spam.time <= now /\ spam.points < Full
    /\ spam.radio # Blank => spam.radio <= spam.time
    /\ spam.lines = 0 =>
          \/ spam.points = 0
          \/ spam.last \in Manners!Calls /\ spam.mute = spam.time + MuteFor

WordsInv ==
    /\ words \in [offences : 0..(Len(Ladder) + WarnAfter + 1), mute : Nat,
                  did : {Manners!Nothing, "penalty"}, for : Nat, can : BOOLEAN]
    /\ words.for > 0 => words.offences > 0 /\ words.for = Manners!Step(words.offences)

PingInv ==
    /\ ping \in [since : Clocks, ignore : Nat, highs : 0..MaxEvents, did : {Manners!Nothing, "kick"}]
    /\ ping.since # Blank => ping.highs > 0

Nicks == [name : [Players -> Names], owner : [Names -> Players \cup {Manners!NoOne}],
          checked : [Players -> Clocks], quiet : Nat, swept : Nat, since : [Players -> Clocks]]

\* Who has another's name has had it since after the last check of them, and for no longer than
\* an interval before the last sweep, and before the last change of the map.
InTime(k, p) ==
    /\ k.checked[p] <= now
    /\ k.since[p] # Blank =>
          /\ k.since[p] <= now /\ k.since[p] >= k.checked[p]
          /\ k.since[p] + Interval >= k.quiet /\ k.since[p] + Interval > k.swept

NickRight(k) ==
    /\ k \in Nicks
    /\ k.quiet <= now + Interval /\ k.swept <= now
    /\ \A p \in Players : InTime(k, p)

NickInv == nick \in Nicks /\ (watch = "nick" => NickRight(nick) /\ now <= nick.swept + Interval + Late)

Someone == Players \cup {Manners!NoOne}
Events == {"kill", "team", "self", "gone"} \X Someone \X Someone

Scores == [kills : Nat, deaths : Nat, endKill : BOOLEAN, endLoss : BOOLEAN]
Board(s) == s = [of |-> s.of, kill |-> s.kill, teamkill |-> s.teamkill, said |-> s.said]

SpreeInv ==
    /\ story \in Seq(Events) /\ Len(story) <= MaxEvents
    /\ Board(spree) /\ spree.kill \in BOOLEAN /\ spree.of \in [Players -> Scores]
    /\ Manners!SpreesAreTrue

MannersInv ==
    /\ SpamInv /\ WordsInv /\ PingInv /\ NickInv /\ SpreeInv
    /\ watch \in Watches /\ now \in 0..MaxTime

-----------------------------------------------------------------------------
(* Spam.                                                                       *)

LEMMA Multiples ==
  ASSUME NEW a \in Nat, NEW b \in Nat, NEW c \in Nat, a >= b
  PROVE  a * c >= b * c /\ a * c \in Nat /\ b * c \in Nat
  OBVIOUS

LEMMA PointsAre ==
  ASSUME MannersMatter
  PROVE  /\ Manners!Point \in Nat \ {0}
         /\ Manners!Point \div ChatFalloff = RadioFalloff
         /\ Manners!Point \div RadioFalloff = ChatFalloff
         /\ Manners!Point = ChatFalloff * RadioFalloff
         /\ Full \in Nat /\ Full >= 9 * Manners!Point
  <1>1. ASSUME NEW a \in Nat \ {0}, NEW b \in Nat \ {0}
        PROVE  a * b \in Nat \ {0} /\ (a * b) \div a = b /\ (a * b) \div b = a
    OBVIOUS
  <1>2. Manners!Point = ChatFalloff * RadioFalloff
    BY DEF Manners!Point
  <1>3. Manners!Point \in Nat \ {0}
    BY <1>1, <1>2 DEF MannersMatter
  <1>4. Full \in Nat /\ Full >= 9 * Manners!Point
    <2>1. MaxSpamins \in Nat /\ MaxSpamins >= 9
      BY DEF MannersMatter
    <2> QED
      BY <1>3, <2>1, Multiples DEF Full
  <1> QED
    BY <1>1, <1>2, <1>3, <1>4 DEF MannersMatter

LEMMA ScoreIs ==
  ASSUME MannersMatter, SpamInv, now \in Nat,
         NEW f \in {ChatFalloff, RadioFalloff}, NEW x \in Nat,
         (now - spam.time) * (Manners!Point \div f) >= x
  PROVE  /\ Manners!Score(f) \in Nat
         /\ Manners!Score(f) = 0 \/ Manners!Score(f) + x <= spam.points
  <1>1. /\ spam.points \in Nat /\ now - spam.time \in Nat /\ Manners!Point \div f \in Nat
    <2>1. Manners!Point \div f \in {ChatFalloff, RadioFalloff}
      BY PointsAre
    <2>2. spam.points \in Nat /\ now - spam.time \in Nat
      BY DEF SpamInv
    <2> QED
      BY <2>1, <2>2 DEF MannersMatter
  <1>2. PICK y \in Nat : y = (now - spam.time) * (Manners!Point \div f)
    BY <1>1, Multiples
  <1>3. Manners!Score(f) = IF spam.points > y THEN spam.points - y ELSE 0
    BY <1>2 DEF Manners!Score
  <1> QED
    BY <1>1, <1>2, <1>3

LEMMA MessagesCost ==
  ASSUME MannersMatter, SpamInv, now \in Nat
  PROVE  /\ \A text \in Manners!Texts :
               /\ Manners!PointsFor(text) \in 1..6
               /\ spam.last \in Manners!Calls => Manners!PointsFor(text) <= 2
         /\ \A text \in Manners!Calls :
               /\ Manners!RadioPoints(text) \in 0..8
               /\ now - spam.time >= 2 => Manners!RadioPoints(text) <= 1
  <1>1. ASSUME NEW text \in Manners!Texts
        PROVE  /\ Manners!PointsFor(text) \in 1..6
               /\ spam.last \in Manners!Calls => Manners!PointsFor(text) <= 2
    BY <1>1 DEF Manners!Texts, Manners!Calls, Manners!PointsFor
  <1>2. ASSUME NEW text \in Manners!Calls
        PROVE  /\ Manners!RadioPoints(text) \in 0..8
               /\ now - spam.time >= 2 => Manners!RadioPoints(text) <= 1
    <2>1. spam.radio = Blank => Manners!RadioPoints(text) = 0
      BY DEF Manners!RadioPoints, Blank
    <2>2. ASSUME spam.radio # Blank
          PROVE  /\ Manners!RadioPoints(text) \in 0..8
                 /\ now - spam.time >= 2 => Manners!RadioPoints(text) <= 1
      <3>1. now - spam.radio \in Nat /\ now - spam.radio >= now - spam.time
            /\ now - spam.time \in Nat
        BY <2>2 DEF SpamInv, Clocks
      <3>2. PICK gap \in Nat : gap = now - spam.radio
        BY <3>1
      <3>3. Manners!RadioPoints(text) =
               (IF gap < LongGap THEN 1 ELSE 0)
               + (IF gap < 2 THEN IF text = spam.last THEN 4 ELSE 1 ELSE 0)
               + (IF gap < 1 THEN 3 ELSE 0)
        BY <2>2, <3>2 DEF Manners!RadioPoints, Blank
      <3> QED
        BY <3>1, <3>2, <3>3 DEF MannersMatter
    <2> QED
      BY <2>1, <2>2
  <1> QED
    BY <1>1, <1>2

\* What a message adds up to: what is not forgotten, and what it costs; and if it is the first
\* since a penalty, that is not too much.
LEMMA AddedIs ==
  ASSUME MannersMatter, SpamInv, now \in Nat, NEW text \in Marks, NEW points \in 0..8,
         NEW f \in {ChatFalloff, RadioFalloff},
         \/ spam.lines > 0
         \/ spam.points = 0
         \/ (now - spam.time) * (Manners!Point \div f) >= points * Manners!Point
  PROVE  /\ Manners!Added(text, points, f) =
               [points |-> Manners!Added(text, points, f).points, time |-> now, last |-> text,
                radio |-> spam.radio, mute |-> spam.mute, lines |-> spam.lines + 1,
                did |-> Manners!Nothing, can |-> spam.can]
         /\ Manners!Added(text, points, f).points \in Nat
         /\ Manners!Added(text, points, f).points < 2 * Full
         /\ spam.lines = 0 => Manners!Added(text, points, f).points < Full
  <1>1. PICK cost \in Nat : cost = points * Manners!Point /\ cost <= 8 * Manners!Point
    BY PointsAre, Multiples
  <1>2. Manners!Point \in Nat \ {0} /\ Full \in Nat /\ Full >= 9 * Manners!Point
    BY PointsAre
  <1>3. spam.points \in Nat /\ spam.points < Full /\ spam.lines \in Nat
    BY DEF SpamInv
  <1>4. (now - spam.time) * (Manners!Point \div f) >= 0
    <2>1. Manners!Point \div f \in {ChatFalloff, RadioFalloff}
      BY PointsAre
    <2>2. now - spam.time \in Nat /\ Manners!Point \div f \in Nat
      BY <2>1 DEF SpamInv, MannersMatter
    <2> QED
      BY <2>2, Multiples
  <1>5. PICK score \in Nat : score = Manners!Score(f) /\ score <= spam.points
    BY <1>3, <1>4, ScoreIs
  <1>6. (now - spam.time) * (Manners!Point \div f) >= cost => score = 0 \/ score + cost <= spam.points
    BY <1>5, ScoreIs
  <1>7. PICK s : s = Manners!Added(text, points, f)
    OBVIOUS
  <1>8. s = [points |-> score + cost, time |-> now, last |-> text, radio |-> spam.radio,
             mute |-> spam.mute, lines |-> spam.lines + 1, did |-> Manners!Nothing,
             can |-> spam.can]
    BY <1>1, <1>5, <1>7 DEF Manners!Added, SpamInv
  <1>9. score + cost < 2 * Full /\ (spam.lines = 0 => score + cost < Full)
    BY <1>1, <1>2, <1>3, <1>5, <1>6
  <1> QED
    BY <1>7, <1>8, <1>9, <1>1, <1>5

SpamKept == SpamInv' /\ (spam'.did # Manners!Nothing /\ spam' # spam => spam.lines >= 1)

LEMMA ChatKeeps ==
  ASSUME MannersMatter, SpamInv, now \in Nat, now' = now, spam.mute <= now,
         NEW text \in Manners!Texts, Manners!Chat(text)
  PROVE  SpamKept
  <1> DEFINE points == Manners!PointsFor(text)
  <1>1. points \in 1..6 /\ (spam.last \in Manners!Calls => points <= 2)
    BY MessagesCost
  <1>2. text \in Marks
    BY DEF Marks
  <1>3. \/ spam.lines > 0 \/ spam.points = 0
        \/ (now - spam.time) * (Manners!Point \div ChatFalloff) >= points * Manners!Point
    <2>1. ASSUME spam.last \in Manners!Calls, spam.mute = spam.time + MuteFor
          PROVE  (now - spam.time) * (Manners!Point \div ChatFalloff) >= points * Manners!Point
      <3>1. now - spam.time \in Nat /\ now - spam.time >= 2 * ChatFalloff
            /\ 2 * ChatFalloff \in Nat /\ RadioFalloff \in Nat
        BY <2>1 DEF SpamInv, MannersMatter
      <3>2. (now - spam.time) * RadioFalloff >= (2 * ChatFalloff) * RadioFalloff
        BY <3>1, Multiples
      <3>3. (2 * ChatFalloff) * RadioFalloff = 2 * Manners!Point
        BY PointsAre DEF MannersMatter
      <3>4. 2 * Manners!Point >= points * Manners!Point
        BY <1>1, <2>1, PointsAre, Multiples
      <3>5. (now - spam.time) * RadioFalloff \in Nat /\ points * Manners!Point \in Nat
        BY <1>1, <3>1, PointsAre, Multiples
      <3> QED
        BY <3>2, <3>3, <3>4, <3>5, PointsAre
    <2> QED
      BY <2>1 DEF SpamInv
  <1> HIDE DEF points
  <1>4. PICK s : s = Manners!Added(text, points, ChatFalloff)
    OBVIOUS
  <1>5. /\ s = [points |-> s.points, time |-> now, last |-> text,
                radio |-> spam.radio, mute |-> spam.mute, lines |-> spam.lines + 1,
                did |-> Manners!Nothing, can |-> spam.can]
        /\ s.points \in Nat
        /\ spam.lines = 0 => s.points < Full
    BY <1>1, <1>2, <1>3, <1>4, AddedIs
  <1>6. spam' = IF Manners!TooMuch(s) THEN Manners!SpamWarned(s) ELSE s
    BY <1>4 DEF Manners!Chat, points
  <1>7. Full \in Nat \ {0}
    BY PointsAre
  <1>8. CASE s.points >= Full
    <2>1. spam' = [points |-> 0, time |-> now, last |-> text, radio |-> spam.radio,
                   mute |-> spam.mute, lines |-> 0, did |-> "warn", can |-> spam.can]
      <3>1. Manners!TooMuch(s)
        BY <1>8 DEF Manners!TooMuch, Full
      <3>2. spam' = [s EXCEPT !.points = 0, !.did = "warn", !.lines = 0]
        BY <1>6, <3>1 DEF Manners!SpamWarned
      <3>3. PICK n : n = s.points
        OBVIOUS
      <3>4. s = [points |-> n, time |-> now, last |-> text, radio |-> spam.radio,
                 mute |-> spam.mute, lines |-> spam.lines + 1, did |-> Manners!Nothing,
                 can |-> spam.can]
        BY <1>5, <3>3
      <3> QED
        BY <3>2, <3>4
    <2>2. spam.lines >= 1
      BY <1>5, <1>7, <1>8 DEF SpamInv
    <2> QED
      BY <1>2, <1>7, <2>1, <2>2 DEF SpamInv, SpamKept, Clocks, Blank
  <1>9. CASE ~ (s.points >= Full)
    <2>1. spam' = s
      BY <1>6, <1>9 DEF Manners!TooMuch, Full
    <2>2. s.points < Full
      BY <1>5, <1>7, <1>9
    <2> QED
      BY <1>2, <1>5, <2>1, <2>2 DEF SpamInv, SpamKept, Clocks, Blank
  <1> QED
    BY <1>8, <1>9

LEMMA RadioKeeps ==
  ASSUME MannersMatter, SpamInv, now \in Nat, now' = now,
         NEW text \in Manners!Calls, Manners!Radio(text)
  PROVE  SpamKept
  <1>a. CASE spam.mute > now
    <2>1. spam' = spam
      BY <1>a DEF Manners!Radio
    <2> QED
      BY <2>1 DEF SpamInv, SpamKept
  <1>b. CASE ~ (spam.mute > now)
    <2> DEFINE points == Manners!RadioPoints(text)
    <2>1. points \in 0..8 /\ (now - spam.time >= 2 => points <= 1)
      BY MessagesCost
    <2>2. text \in Marks
      BY DEF Marks
    <2>3. \/ spam.lines > 0 \/ spam.points = 0
          \/ (now - spam.time) * (Manners!Point \div RadioFalloff) >= points * Manners!Point
      <3>1. ASSUME spam.mute = spam.time + MuteFor
            PROVE  (now - spam.time) * (Manners!Point \div RadioFalloff) >= points * Manners!Point
        <4>1. now - spam.time \in Nat /\ now - spam.time >= RadioFalloff
              /\ now - spam.time >= 2 /\ ChatFalloff \in Nat /\ RadioFalloff \in Nat
          BY <1>b, <3>1 DEF SpamInv, MannersMatter
        <4>2. (now - spam.time) * ChatFalloff >= RadioFalloff * ChatFalloff
          BY <4>1, Multiples
        <4>3. RadioFalloff * ChatFalloff = 1 * Manners!Point
          BY PointsAre DEF MannersMatter
        <4>4. 1 * Manners!Point >= points * Manners!Point
          BY <2>1, <4>1, PointsAre, Multiples
        <4>5. (now - spam.time) * ChatFalloff \in Nat /\ points * Manners!Point \in Nat
          BY <2>1, <4>1, PointsAre, Multiples
        <4> QED
          BY <4>2, <4>3, <4>4, <4>5, PointsAre
      <3> QED
        BY <3>1 DEF SpamInv
    <2> HIDE DEF points
    <2>4. PICK a : a = Manners!Added(text, points, RadioFalloff)
      OBVIOUS
    <2>5. /\ a = [points |-> a.points, time |-> now, last |-> text,
                  radio |-> spam.radio, mute |-> spam.mute, lines |-> spam.lines + 1,
                  did |-> Manners!Nothing, can |-> spam.can]
          /\ a.points \in Nat /\ a.points < 2 * Full
          /\ spam.lines = 0 => a.points < Full
      BY <2>1, <2>2, <2>3, <2>4, AddedIs
    <2>6. PICK s : s = [a EXCEPT !.radio = now]
      OBVIOUS
    <2>7. s = [points |-> a.points, time |-> now, last |-> text,
               radio |-> now, mute |-> spam.mute, lines |-> spam.lines + 1,
               did |-> Manners!Nothing, can |-> spam.can]
      BY <2>5, <2>6
    <2>8. spam' = IF ~Manners!TooMuch(s) THEN s
                  ELSE IF s.can THEN [s EXCEPT !.points = @ \div 2, !.mute = now + MuteFor,
                                               !.did = "mute", !.lines = 0]
                  ELSE Manners!SpamWarned(s)
      BY <1>b, <2>4, <2>6 DEF Manners!Radio, points
    <2>9. Full \in Nat \ {0} /\ s.points = a.points /\ s.can = spam.can
      BY <2>7, PointsAre
    <2>10. CASE ~ (a.points >= Full)
      <3>1. spam' = s
        BY <2>8, <2>9, <2>10 DEF Manners!TooMuch, Full
      <3>2. a.points < Full
        BY <2>5, <2>9, <2>10
      <3> QED
        BY <2>2, <2>5, <2>7, <3>1, <3>2 DEF SpamInv, SpamKept, Clocks, Blank
    <2>11. ASSUME a.points >= Full PROVE spam.lines >= 1
      BY <2>5, <2>9, <2>11 DEF SpamInv
    <2>12. CASE a.points >= Full /\ spam.can
      <3>1. spam' = [points |-> a.points \div 2, time |-> now, last |-> text, radio |-> now,
                     mute |-> now + MuteFor, lines |-> 0, did |-> "mute", can |-> spam.can]
        BY <2>7, <2>8, <2>9, <2>12 DEF Manners!TooMuch, Full
      <3>2. a.points \div 2 \in Nat /\ a.points \div 2 < Full
        BY <2>5, <2>9
      <3>3. now + MuteFor \in Nat
        BY DEF MannersMatter
      <3> QED
        BY <2>2, <2>11, <2>12, <3>1, <3>2, <3>3 DEF SpamInv, SpamKept, Clocks, Blank
    <2>13. CASE a.points >= Full /\ ~spam.can
      <3>1. spam' = [points |-> 0, time |-> now, last |-> text, radio |-> now,
                     mute |-> spam.mute, lines |-> 0, did |-> "warn", can |-> spam.can]
        BY <2>7, <2>8, <2>9, <2>13 DEF Manners!TooMuch, Manners!SpamWarned, Full
      <3> QED
        BY <2>2, <2>9, <2>11, <2>13, <3>1 DEF SpamInv, SpamKept, Clocks, Blank
    <2> QED
      BY <2>10, <2>12, <2>13
  <1> QED
    BY <1>a, <1>b

LEMMA SpamStepKeeps ==
  ASSUME MannersMatter, SpamInv, now \in Nat, now' = now, Manners!SpamStep
  PROVE  SpamKept
  BY ChatKeeps, RadioKeeps DEF Manners!SpamStep

-----------------------------------------------------------------------------
(* Words, pings and names.                                                     *)

WordsKept ==
    /\ WordsInv'
    /\ words'.did = "penalty" /\ words' # words =>
          words.mute <= now /\ (words.can => words.offences >= WarnAfter)
    /\ words'.for > 0 /\ words' # words => words.mute <= now /\ words'.for >= words.for

LEMMA StepIs ==
  ASSUME MannersMatter, NEW n \in Nat \ {0}
  PROVE  /\ Manners!Step(n) \in Nat
         /\ \A k \in 1..n : Manners!Step(k) <= Manners!Step(n)
  <1> DEFINE at(k) == IF k < Len(Ladder) THEN k ELSE Len(Ladder)
  <1>1. Len(Ladder) \in Nat \ {0} /\ \A i \in 1..Len(Ladder) : Ladder[i] \in Nat
    BY DEF MannersMatter
  <1>2. \A k \in 1..n : at(k) \in 1..Len(Ladder) /\ at(k) <= at(n) /\ Manners!Step(k) = Ladder[at(k)]
    BY <1>1 DEF Manners!Step
  <1>3. n \in 1..n
    OBVIOUS
  <1> HIDE DEF at
  <1> QED
    BY <1>1, <1>2, <1>3 DEF MannersMatter

LEMMA WordStepKeeps ==
  ASSUME MannersMatter, WordsInv, now \in Nat, now' = now, Manners!WordStep
  PROVE  WordsKept
  <1>1. words.offences <= Len(Ladder) + WarnAfter /\ Len(Ladder) \in Nat /\ WarnAfter \in Nat
    BY DEF Manners!WordStep, MannersMatter
  <1>2. CASE Manners!Trip
    <2>1. CASE words.mute > now
      <3>1. words' = [words EXCEPT !.did = Manners!Nothing, !.for = 0]
        BY <1>2, <2>1 DEF Manners!Trip, Manners!MutedStanding
      <3>2. words' = [offences |-> words.offences, mute |-> words.mute, did |-> Manners!Nothing,
                      for |-> 0, can |-> words.can]
        BY <3>1 DEF WordsInv
      <3> QED
        BY <3>2 DEF WordsInv, WordsKept, Manners!Nothing
    <2>2. CASE ~ (words.mute > now)
      <3>1. PICK n : n = words.offences + 1
        OBVIOUS
      <3>2. words.offences \in Nat /\ n \in Nat \ {0} /\ n \in 0..(Len(Ladder) + WarnAfter + 1)
            /\ words.mute \in Nat /\ words.for \in Nat
        BY <1>1, <3>1 DEF WordsInv
      <3>3. PICK f \in Nat : f = Manners!Step(n)
        BY <3>2, StepIs
      <3>a. PICK mute \in Nat, did \in {Manners!Nothing, "penalty"}, long \in {0, f} :
               /\ mute = IF words.can THEN now + f ELSE words.mute
               /\ did = IF ~words.can \/ n > WarnAfter THEN "penalty" ELSE Manners!Nothing
               /\ long = IF words.can THEN f ELSE 0
        BY <3>2, <3>3
      <3>4. words' = [words EXCEPT !.offences = n, !.mute = mute, !.did = did, !.for = long]
        BY <1>2, <2>2, <3>1, <3>3, <3>a DEF Manners!Trip, Manners!MutedStanding
      <3>b. words' = [offences |-> n, mute |-> mute, did |-> did, for |-> long, can |-> words.can]
        BY <3>4 DEF WordsInv
      <3>5. /\ words'.offences = n /\ words'.can = words.can
            /\ words'.mute = IF words.can THEN now + f ELSE words.mute
            /\ words'.did = IF ~words.can \/ n > WarnAfter THEN "penalty" ELSE Manners!Nothing
            /\ words'.for = IF words.can THEN f ELSE 0
            /\ words' \in [offences : 0..(Len(Ladder) + WarnAfter + 1), mute : Nat,
                           did : {Manners!Nothing, "penalty"}, for : Nat, can : BOOLEAN]
        BY <3>2, <3>3, <3>a, <3>b DEF WordsInv
      <3>6. words.for <= f
        <4>1. CASE words.for > 0
          <5>1. words.offences \in 1..n /\ words.for = Manners!Step(words.offences)
            BY <3>1, <3>2, <4>1 DEF WordsInv
          <5> QED
            BY <3>2, <3>3, <5>1, StepIs
        <4>2. CASE ~ (words.for > 0)
          BY <3>2, <4>2
        <4> QED
          BY <4>1, <4>2
      <3>7. WordsInv'
        BY <3>2, <3>3, <3>5 DEF WordsInv
      <3> QED
        BY <1>1, <2>2, <3>1, <3>2, <3>5, <3>6, <3>7 DEF WordsKept, Manners!Nothing
    <2> QED
      BY <2>1, <2>2
  <1>3. CASE Manners!MutedElsewhere
    <2>1. words' = [words EXCEPT !.mute = IF words.mute > now + 1 THEN words.mute ELSE now + 1,
                                 !.did = Manners!Nothing, !.for = 0]
      BY <1>3 DEF Manners!MutedElsewhere
    <2>2. PICK mute \in Nat : mute = IF words.mute > now + 1 THEN words.mute ELSE now + 1
      BY DEF WordsInv
    <2>3. words' = [offences |-> words.offences, mute |-> mute, did |-> Manners!Nothing,
                    for |-> 0, can |-> words.can]
      BY <2>1, <2>2 DEF WordsInv
    <2> QED
      BY <2>2, <2>3 DEF WordsInv, WordsKept, Manners!Nothing
  <1>4. CASE Manners!WordsReconnect
    <2>1. PICK mute \in {0, words.mute} : words' = [Manners!InitWords(words.can) EXCEPT !.mute = mute]
      BY <1>4 DEF Manners!WordsReconnect
    <2>2. words' = [offences |-> 0, mute |-> mute, did |-> Manners!Nothing, for |-> 0,
                    can |-> words.can]
      BY <2>1 DEF Manners!InitWords
    <2> QED
      BY <1>1, <2>1, <2>2 DEF WordsInv, WordsKept, Manners!Nothing
  <1> QED
    BY <1>2, <1>3, <1>4 DEF Manners!WordStep

PingKept ==
    PingInv' /\ (ping'.did = "kick" /\ ping' # ping => ping.highs >= 1 /\ now - ping.since > Endurance)

LEMMA PingStepKeeps ==
  ASSUME MannersMatter, PingInv, now \in Nat, now' = now, Manners!PingStep
  PROVE  PingKept
  <1>1. ping.highs < MaxEvents /\ MaxEvents \in Nat
    BY DEF Manners!PingStep, MannersMatter
  <1>2. CASE Manners!PingSettle
    <2>1. now + Settle \in Nat
      BY DEF MannersMatter
    <2> QED
      BY <1>2, <2>1 DEF Manners!PingSettle, PingInv, PingKept, Manners!Nothing
  <1>3. ASSUME NEW high \in BOOLEAN, Manners!PingCheck(high) PROVE PingKept
    <2>1. CASE now < ping.ignore
      BY <1>3, <2>1 DEF Manners!PingCheck, PingInv, PingKept
    <2>2. PICK highs \in 0..MaxEvents : highs = IF high THEN ping.highs + 1 ELSE 0
      BY <1>1 DEF PingInv
    <2>a. PICK seen : seen = [ping EXCEPT !.did = Manners!Nothing, !.highs = highs]
      OBVIOUS
    <2>b. seen = [since |-> ping.since, ignore |-> ping.ignore, highs |-> highs,
                  did |-> Manners!Nothing]
      BY <2>a DEF PingInv
    <2>3. ~ (now < ping.ignore) =>
          ping' = IF ~high THEN [seen EXCEPT !.since = Blank]
                  ELSE IF ping.since = Blank THEN [seen EXCEPT !.since = now]
                  ELSE IF now - ping.since <= Endurance THEN seen
                  ELSE [seen EXCEPT !.since = Blank, !.did = "kick", !.highs = 0]
      BY <1>3, <2>2, <2>a DEF Manners!PingCheck, Manners!LowReading, Blank
    <2>c. ASSUME NEW since \in Clocks, since # Blank => highs > 0,
                 ping' = [since |-> since, ignore |-> ping.ignore, highs |-> highs,
                          did |-> Manners!Nothing]
          PROVE  PingKept
      BY <2>c DEF PingInv, PingKept, Manners!Nothing
    <2>4. CASE ~ (now < ping.ignore) /\ ~high
      <3>1. ping' = [since |-> Blank, ignore |-> ping.ignore, highs |-> highs,
                     did |-> Manners!Nothing]
        BY <2>3, <2>4, <2>b
      <3> QED
        BY <2>c, <3>1 DEF Clocks
    <2>5. CASE ~ (now < ping.ignore) /\ high /\ ping.since = Blank
      <3>1. ping' = [since |-> now, ignore |-> ping.ignore, highs |-> highs,
                     did |-> Manners!Nothing]
        BY <2>3, <2>5, <2>b
      <3>2. highs > 0
        BY <2>2, <2>5 DEF PingInv
      <3> QED
        BY <2>c, <3>1, <3>2 DEF Clocks
    <2>6. CASE ~ (now < ping.ignore) /\ high /\ ping.since # Blank /\ now - ping.since <= Endurance
      <3>1. ping' = [since |-> ping.since, ignore |-> ping.ignore, highs |-> highs,
                     did |-> Manners!Nothing]
        BY <2>3, <2>6, <2>b
      <3>2. highs > 0 /\ ping.since \in Clocks
        BY <2>2, <2>6 DEF PingInv
      <3> QED
        BY <2>c, <3>1, <3>2
    <2>7. CASE ~ (now < ping.ignore) /\ high /\ ping.since # Blank /\ ~ (now - ping.since <= Endurance)
      <3>1. ping.highs >= 1 /\ now - ping.since > Endurance
        BY <2>7 DEF PingInv, Clocks, MannersMatter
      <3>2. ping' = [since |-> Blank, ignore |-> ping.ignore, highs |-> 0, did |-> "kick"]
        BY <2>3, <2>7, <2>b
      <3> QED
        BY <1>1, <3>1, <3>2 DEF PingInv, PingKept, Clocks
    <2> QED
      BY <2>1, <2>4, <2>5, <2>6, <2>7
  <1> QED
    BY <1>2, <1>3 DEF Manners!PingStep

\* Nothing is looked for in the names: whose they are, and what becomes of that, only dates.
LEMMA DatedIsRight ==
  ASSUME MannersMatter, now \in Nat, NEW k, NickRight(k)
  PROVE  NickRight(Manners!Dated(k)) /\ Manners!Dated(k).swept = k.swept
  <1>1. PICK since \in [Players -> Clocks] :
           /\ Manners!Dated(k) = [k EXCEPT !.since = since]
           /\ \A p \in Players : since[p] \in {Blank, now, k.since[p]}
    <2>1. \A p \in Players : k.since[p] \in Clocks /\ now \in Clocks /\ Blank \in Clocks
      BY DEF NickRight, Nicks, Clocks
    <2> DEFINE f == [p \in Players |-> IF ~Manners!Steals(k, p) THEN Blank
                                       ELSE IF k.since[p] = Blank THEN now ELSE k.since[p]]
    <2>2. f \in [Players -> Clocks] /\ \A p \in Players : f[p] \in {Blank, now, k.since[p]}
      BY <2>1
    <2>3. Manners!Dated(k) = [k EXCEPT !.since = f]
      BY DEF Manners!Dated, Blank
    <2> HIDE DEF f
    <2> QED
      BY <2>2, <2>3
  <1>2. PICK d : d = Manners!Dated(k)
    OBVIOUS
  <1>3. d \in Nicks /\ d.quiet = k.quiet /\ d.swept = k.swept /\ d.checked = k.checked
        /\ d.since = since
    BY <1>1, <1>2 DEF NickRight, Nicks
  <1>4. ASSUME NEW p \in Players PROVE InTime(d, p)
    <2>1. /\ d.since[p] \in {Blank, now, k.since[p]} /\ d.checked[p] = k.checked[p]
          /\ InTime(k, p) /\ k.quiet <= now + Interval /\ k.swept <= now
          /\ k.checked[p] \in Clocks /\ k.quiet \in Nat /\ k.swept \in Nat
          /\ Interval \in Nat \ {0}
      BY <1>1, <1>3 DEF NickRight, Nicks, MannersMatter
    <2> QED
      BY <1>3, <2>1 DEF InTime, Clocks, Blank, Manners!None
  <1> QED
    BY <1>2, <1>3, <1>4 DEF NickRight

LEMMA CheckIsRight ==
  ASSUME MannersMatter, now \in Nat, NEW k, NickRight(k), NEW p \in Players
  PROVE  NickRight(Manners!Check(k, p)) /\ Manners!Check(k, p).swept = k.swept
  <1>1. CASE k.checked[p] # Blank /\ now - k.checked[p] < Interval
    BY <1>1 DEF Manners!Check, Blank
  <1>2. CASE ~ (k.checked[p] # Blank /\ now - k.checked[p] < Interval)
    <2>1. PICK since \in {Blank, now} :
             Manners!Check(k, p) = [k EXCEPT !.checked[p] = now, !.since[p] = since]
      BY <1>2 DEF Manners!Check, Blank
    <2>2. since \in Clocks /\ now \in Clocks
      BY DEF Clocks
    <2>3. PICK d : d = [k EXCEPT !.checked[p] = now, !.since[p] = since]
      OBVIOUS
    <2>4. d \in Nicks /\ d.quiet = k.quiet /\ d.swept = k.swept
          /\ d.checked = [k.checked EXCEPT ![p] = now] /\ d.since = [k.since EXCEPT ![p] = since]
      BY <2>2, <2>3 DEF NickRight, Nicks
    <2>5. ASSUME NEW q \in Players PROVE InTime(d, q)
      <3>1. CASE q = p
        <4>1. d.checked[q] = now /\ d.since[q] = since /\ Interval \in Nat \ {0}
              /\ k.quiet <= now + Interval /\ k.swept <= now
              /\ k.quiet \in Nat /\ k.swept \in Nat
          BY <2>4, <3>1 DEF NickRight, Nicks, MannersMatter
        <4> QED
          BY <2>4, <4>1 DEF InTime
      <3>2. CASE q # p
        <4>1. d.checked[q] = k.checked[q] /\ d.since[q] = k.since[q] /\ InTime(k, q)
          BY <2>4, <3>2 DEF NickRight, Nicks
        <4> QED
          BY <2>4, <4>1 DEF InTime
      <3> QED
        BY <3>1, <3>2
    <2> QED
      BY <2>1, <2>3, <2>4, <2>5 DEF NickRight
  <1> QED
    BY <1>1, <1>2

\* A sweep is dated by the interval it falls in.
LEMMA IntervalsAre ==
  ASSUME NEW t \in Nat, NEW i \in Nat \ {0}
  PROVE  /\ (t \div i) * i \in Nat /\ (t \div i) * i <= t
         /\ t < (t \div i) * i + i
  OBVIOUS

LEMMA SweepIsRight ==
  ASSUME MannersMatter, now \in Nat, now' = now, NickRight(nick), Manners!Sweep
  PROVE  NickRight(nick)' /\ now < nick'.swept + Interval
  <1>1. Interval \in Nat \ {0}
    BY DEF MannersMatter
  <1>2. PICK at \in Nat : at = (now \div Interval) * Interval /\ at <= now /\ now < at + Interval
    BY <1>1, IntervalsAre
  <1>3. PICK k : k = [nick EXCEPT !.swept = at]
    OBVIOUS
  <1>4. nick' = IF now < nick.quiet THEN k
                ELSE [k EXCEPT !.checked = [p \in Players |-> Manners!Check(k, p).checked[p]],
                               !.since = [p \in Players |-> Manners!Check(k, p).since[p]]]
    BY <1>2, <1>3 DEF Manners!Sweep
  <1>5. /\ k \in Nicks /\ k.quiet = nick.quiet /\ k.swept = at
        /\ k.checked = nick.checked /\ k.since = nick.since
        /\ nick.quiet \in Nat /\ nick.quiet <= now + Interval
    BY <1>2, <1>3 DEF NickRight, Nicks
  <1>6. ASSUME NEW p \in Players
        PROVE  nick.checked[p] \in Clocks /\ nick.since[p] \in Clocks /\ InTime(nick, p)
    BY DEF NickRight, Nicks
  <1>7. CASE now < nick.quiet
    <2>1. nick' = k
      BY <1>4, <1>7
    <2>2. ASSUME NEW p \in Players PROVE InTime(nick, p)'
      BY <1>1, <1>2, <1>5, <1>6, <1>7, <2>1 DEF InTime, Clocks
    <2> QED
      BY <1>2, <1>5, <2>1, <2>2 DEF NickRight
  <1>8. CASE ~ (now < nick.quiet)
    <2>1. PICK looked, since :
             /\ looked = [p \in Players |-> Manners!Check(k, p).checked[p]]
             /\ since = [p \in Players |-> Manners!Check(k, p).since[p]]
      OBVIOUS
    <2>2. nick' = [k EXCEPT !.checked = looked, !.since = since]
      BY <1>4, <1>8, <2>1
    <2>3. ASSUME NEW p \in Players
          PROVE  /\ looked[p] \in Clocks /\ since[p] \in Clocks
                 /\ looked[p] <= now /\ (since[p] # Blank => since[p] <= now)
                 /\ since[p] # Blank => since[p] >= looked[p] /\ since[p] + Interval > now
      <3>1. PICK c : c = Manners!Check(k, p)
        OBVIOUS
      <3>2. looked[p] = c.checked[p] /\ since[p] = c.since[p]
        BY <2>1, <3>1
      <3>3. CASE k.checked[p] # Blank /\ now - k.checked[p] < Interval
        <4>1. c = k
          BY <3>1, <3>3 DEF Manners!Check, Blank
        <4> QED
          BY <1>1, <1>5, <1>6, <3>2, <3>3, <4>1 DEF InTime, Clocks
      <3>4. CASE ~ (k.checked[p] # Blank /\ now - k.checked[p] < Interval)
        <4>1. PICK s \in {Blank, now} : c = [k EXCEPT !.checked[p] = now, !.since[p] = s]
          BY <3>1, <3>4 DEF Manners!Check, Blank
        <4>2. c.checked[p] = now /\ c.since[p] = s
          BY <1>5, <4>1 DEF Nicks
        <4> QED
          BY <1>1, <3>2, <4>1, <4>2 DEF Clocks, Blank, Manners!None
      <3> QED
        BY <3>3, <3>4
    <2>4. looked \in [Players -> Clocks] /\ since \in [Players -> Clocks]
      BY <2>1, <2>3
    <2>5. /\ nick' \in Nicks /\ nick'.quiet = nick.quiet /\ nick'.swept = at
          /\ nick'.checked = looked /\ nick'.since = since
      BY <1>5, <2>2, <2>4 DEF Nicks
    <2>6. ASSUME NEW p \in Players PROVE InTime(nick, p)'
      <3>1. looked[p] \in Clocks /\ since[p] \in Clocks
            /\ (since[p] # Blank => since[p] + Interval > now)
            /\ looked[p] <= now /\ (since[p] # Blank => since[p] <= now /\ since[p] >= looked[p])
        BY <2>3
      <3> QED
        BY <1>1, <1>2, <1>5, <1>8, <2>5, <3>1 DEF InTime, Clocks
    <2> QED
      BY <1>2, <1>5, <2>5, <2>6 DEF NickRight
  <1> QED
    BY <1>7, <1>8

LEMMA NickStepKeeps ==
  ASSUME MannersMatter, NickInv, now \in Nat, now' = now, watch = "nick", watch' = watch,
         Manners!NickStep
  PROVE  NickInv'
  <1>1. NickRight(nick) /\ now <= nick.swept + Interval + Late
        /\ Interval \in Nat \ {0} /\ Late \in Nat
    BY DEF NickInv, MannersMatter
  <1>2. ASSUME NEW k, NickRight(k), k.swept = nick.swept, nick' = k
        PROVE  NickInv'
    <2>1. NickRight(nick)'
      BY <1>2 DEF NickRight, InTime
    <2> QED
      BY <1>1, <1>2, <2>1 DEF NickInv, NickRight
  <1>3. CASE Manners!Sweep
    <2>1. NickRight(nick)' /\ now < nick'.swept + Interval
      BY <1>1, <1>3, SweepIsRight
    <2> QED
      BY <1>1, <2>1 DEF NickInv, NickRight, Nicks
  <1>4. CASE Manners!OnMapChange
    <2>a. PICK none \in [Players -> Clocks] : none = [p \in Players |-> Blank]
      BY DEF Clocks
    <2>b. PICK until \in Nat : until = now + Interval
      BY <1>1
    <2>1. PICK k : k = [nick EXCEPT !.quiet = until, !.since = none]
      OBVIOUS
    <2>2. nick' = Manners!Dated(k)
      BY <1>4, <2>1, <2>a, <2>b DEF Manners!OnMapChange, Blank
    <2>3. k \in Nicks /\ k.quiet = until /\ k.swept = nick.swept
          /\ k.checked = nick.checked /\ k.since = none
      BY <1>1, <2>1 DEF NickRight, Nicks
    <2>4. NickRight(k)
      BY <1>1, <2>3, <2>a, <2>b DEF NickRight, InTime
    <2> QED
      BY <1>2, <2>2, <2>3, <2>4, DatedIsRight
  <1>5. ASSUME NEW n \in Names, NEW p \in Someone, nick' = Manners!Dated([nick EXCEPT !.owner[n] = p])
        PROVE  NickInv'
    <2>1. PICK k : k = [nick EXCEPT !.owner[n] = p]
      OBVIOUS
    <2>2. k \in Nicks /\ k.quiet = nick.quiet /\ k.swept = nick.swept
          /\ k.checked = nick.checked /\ k.since = nick.since
      BY <1>1, <2>1 DEF NickRight, Nicks, Someone
    <2>3. NickRight(k)
      BY <1>1, <2>2 DEF NickRight, InTime
    <2> QED
      BY <1>2, <1>5, <2>1, <2>2, <2>3, DatedIsRight
  <1>6. ASSUME NEW p \in Players, Manners!RegisterNick(p) PROVE NickInv'
    <2>1. nick.name[p] \in Names
      BY <1>1 DEF NickRight, Nicks
    <2> QED
      BY <1>5, <1>6, <2>1 DEF Manners!RegisterNick, Someone
  <1>7. ASSUME NEW n \in Names, Manners!DeleteNick(n) PROVE NickInv'
    BY <1>5, <1>7 DEF Manners!DeleteNick, Someone
  <1>8. ASSUME NEW p \in Players, NEW n \in Names, Manners!Rename(p, n) PROVE NickInv'
    <2>1. PICK k : k = [nick EXCEPT !.name[p] = n]
      OBVIOUS
    <2>2. PICK d : d = Manners!Dated(k)
      OBVIOUS
    <2>3. nick' = Manners!Check(d, p)
      BY <1>8, <2>1, <2>2 DEF Manners!Rename
    <2>4. k \in Nicks /\ k.quiet = nick.quiet /\ k.swept = nick.swept
          /\ k.checked = nick.checked /\ k.since = nick.since
      BY <1>1, <2>1 DEF NickRight, Nicks
    <2>5. NickRight(k)
      BY <1>1, <2>4 DEF NickRight, InTime
    <2>6. NickRight(d) /\ d.swept = k.swept
      BY <2>2, <2>5, DatedIsRight
    <2> QED
      BY <1>2, <2>3, <2>4, <2>6, CheckIsRight
  <1> QED
    BY <1>3, <1>4, <1>6, <1>7, <1>8 DEF Manners!NickStep

-----------------------------------------------------------------------------
(* Sprees.                                                                      *)

\* Those of A that nothing of B comes after.
Lasting(n, A, B) == {i \in 1..n : i \in A /\ \A j \in (i + 1)..n : j \notin B}

LEMMA WhatLasts ==
  ASSUME NEW n \in Nat, NEW A, NEW B
  PROVE  Lasting(n + 1, A, B) = (IF n + 1 \in B THEN {} ELSE Lasting(n, A, B))
                                \cup (IF n + 1 \in A THEN {n + 1} ELSE {})
  <1>1. ASSUME NEW i \in 1..n
        PROVE  i \in Lasting(n + 1, A, B) <=> n + 1 \notin B /\ i \in Lasting(n, A, B)
    <2>1. (i + 1)..(n + 1) = (i + 1)..n \cup {n + 1}
      OBVIOUS
    <2>2. i \in 1..(n + 1)
      OBVIOUS
    <2> QED
      BY <2>1, <2>2 DEF Lasting
  <1>2. n + 1 \in Lasting(n + 1, A, B) <=> n + 1 \in A
    <2>1. (n + 1 + 1)..(n + 1) = {}
      OBVIOUS
    <2> QED
      BY <2>1 DEF Lasting
  <1>3. 1..(n + 1) = 1..n \cup {n + 1} /\ n + 1 \notin 1..n
    OBVIOUS
  <1>4. Lasting(n + 1, A, B) \subseteq 1..(n + 1) /\ Lasting(n, A, B) \subseteq 1..n
    BY DEF Lasting
  <1> QED
    BY <1>1, <1>2, <1>3, <1>4

\* One more event: a kill ends what deaths there were, a death the kills, a departure both.
StoryGoesOn(p, event) ==
    LET n == Len(story) + 1 IN
    /\ Manners!KillsSince(p)' =
          IF event[3] = p THEN {}
          ELSE IF event[1] = "kill" /\ event[2] = p THEN Manners!KillsSince(p) \cup {n}
          ELSE Manners!KillsSince(p)
    /\ Manners!DeathsSince(p)' =
          IF event[3] = p
          THEN IF event[1] = "gone" THEN {} ELSE Manners!DeathsSince(p) \cup {n}
          ELSE IF event[1] = "kill" /\ event[2] = p THEN {}
          ELSE Manners!DeathsSince(p)

LEMMA TheStoryGoesOn ==
  ASSUME story \in Seq(Events), NEW event \in Events, story' = Append(story, event),
         NEW p \in Players
  PROVE  StoryGoesOn(p, event)
  <1>1. PICK n \in Nat : n = Len(story)
    OBVIOUS
  <1>2. /\ Len(story') = n + 1 /\ DOMAIN story' = 1..(n + 1) /\ DOMAIN story = 1..n
        /\ story'[n + 1] = event
        /\ \A i \in 1..n : story'[i] = story[i]
    BY <1>1
  <1>3. \A i \in 1..n : /\ (Manners!Dies(i, p)' <=> Manners!Dies(i, p))
                        /\ (Manners!Kills(i, p)' <=> Manners!Kills(i, p))
                        /\ (Manners!Leaves(i, p)' <=> Manners!Leaves(i, p))
    BY <1>2 DEF Manners!Dies, Manners!Kills, Manners!Leaves
  <1>4. /\ Manners!Dies(n + 1, p)' <=> event[3] = p
        /\ Manners!Kills(n + 1, p)' <=> event[1] = "kill" /\ event[2] = p /\ event[3] # p
        /\ Manners!Leaves(n + 1, p)' <=> event[1] = "gone" /\ event[3] = p
    BY <1>2 DEF Manners!Dies, Manners!Kills, Manners!Leaves
  <1>5. /\ Manners!KillsSince(p)' =
              {i \in 1..(n + 1) : Manners!Kills(i, p)'
                                  /\ \A j \in (i + 1)..(n + 1) : ~Manners!Dies(j, p)'}
        /\ Manners!KillsSince(p) =
              {i \in 1..n : Manners!Kills(i, p) /\ \A j \in (i + 1)..n : ~Manners!Dies(j, p)}
        /\ Manners!DeathsSince(p)' =
              {i \in 1..(n + 1) :
                 /\ Manners!Dies(i, p)' /\ ~Manners!Leaves(i, p)'
                 /\ \A j \in (i + 1)..(n + 1) : ~Manners!Kills(j, p)' /\ ~Manners!Leaves(j, p)'}
        /\ Manners!DeathsSince(p) =
              {i \in 1..n :
                 /\ Manners!Dies(i, p) /\ ~Manners!Leaves(i, p)
                 /\ \A j \in (i + 1)..n : ~Manners!Kills(j, p) /\ ~Manners!Leaves(j, p)}
    BY <1>1, <1>2 DEF Manners!KillsSince, Manners!DeathsSince
  <1> DEFINE kills == {i \in 1..(n + 1) : Manners!Kills(i, p)'}
             dies == {i \in 1..(n + 1) : Manners!Dies(i, p)'}
             deaths == {i \in 1..(n + 1) : Manners!Dies(i, p)' /\ ~Manners!Leaves(i, p)'}
             turns == {i \in 1..(n + 1) : Manners!Kills(i, p)' \/ Manners!Leaves(i, p)'}
  <1>6. Manners!KillsSince(p)' = Lasting(n + 1, kills, dies)
    BY <1>5 DEF Lasting
  <1>7. Manners!KillsSince(p) = Lasting(n, kills, dies)
    BY <1>3, <1>5 DEF Lasting
  <1>8. Manners!DeathsSince(p)' = Lasting(n + 1, deaths, turns)
    BY <1>5 DEF Lasting
  <1>9. Manners!DeathsSince(p) = Lasting(n, deaths, turns)
    BY <1>3, <1>5 DEF Lasting
  <1>10. /\ n + 1 \in kills <=> event[1] = "kill" /\ event[2] = p /\ event[3] # p
         /\ n + 1 \in dies <=> event[3] = p
         /\ n + 1 \in deaths <=> event[3] = p /\ event[1] # "gone"
         /\ n + 1 \in turns <=> \/ event[1] = "kill" /\ event[2] = p /\ event[3] # p
                                \/ event[1] = "gone" /\ event[3] = p
    BY <1>4
  <1> HIDE DEF kills, dies, deaths, turns
  <1>11. /\ Lasting(n + 1, kills, dies) = (IF n + 1 \in dies THEN {} ELSE Lasting(n, kills, dies))
                                          \cup (IF n + 1 \in kills THEN {n + 1} ELSE {})
         /\ Lasting(n + 1, deaths, turns) = (IF n + 1 \in turns THEN {} ELSE Lasting(n, deaths, turns))
                                            \cup (IF n + 1 \in deaths THEN {n + 1} ELSE {})
    BY WhatLasts
  <1> QED
    BY <1>1, <1>6, <1>7, <1>8, <1>9, <1>10, <1>11 DEF StoryGoesOn

LEMMA SinceIs ==
  ASSUME story \in Seq(Events), NEW p \in Players
  PROVE  /\ Manners!KillsSince(p) \subseteq 1..Len(story) /\ IsFiniteSet(Manners!KillsSince(p))
         /\ Manners!DeathsSince(p) \subseteq 1..Len(story) /\ IsFiniteSet(Manners!DeathsSince(p))
         /\ Cardinality(Manners!KillsSince(p)) \in 0..Len(story)
         /\ Cardinality(Manners!DeathsSince(p)) \in 0..Len(story)
  <1>1. Len(story) \in Nat /\ DOMAIN story = 1..Len(story)
    OBVIOUS
  <1>2. /\ Manners!KillsSince(p) \subseteq 1..Len(story)
        /\ Manners!DeathsSince(p) \subseteq 1..Len(story)
    BY <1>1 DEF Manners!KillsSince, Manners!DeathsSince
  <1>3. IsFiniteSet(1..Len(story)) /\ Cardinality(1..Len(story)) = Len(story)
    BY <1>1, FS_Interval
  <1>4. ASSUME NEW S, S \subseteq 1..Len(story)
        PROVE  IsFiniteSet(S) /\ Cardinality(S) \in 0..Len(story)
    <2>1. IsFiniteSet(S) /\ Cardinality(S) <= Cardinality(1..Len(story))
      BY <1>3, <1>4, FS_Subset
    <2>2. Cardinality(S) \in Nat
      BY <2>1, FS_CardinalityType
    <2> QED
      BY <1>1, <1>3, <2>1, <2>2
  <1> QED
    BY <1>2, <1>4

\* What an event makes of a player's spree.
HasKilled(me) == [kills |-> me.kills + 1, deaths |-> 0, endLoss |-> FALSE,
                  endKill |-> me.endKill \/ me.kills + 1 = KillSpree]
HasDied(me) == [kills |-> 0, deaths |-> me.deaths + 1, endKill |-> FALSE,
                endLoss |-> me.endLoss \/ me.deaths + 1 = LossSpree]

TurnsInto(me, p, event) ==
    IF event[3] = p THEN IF event[1] = "gone" THEN Manners!NewSpree ELSE HasDied(me)
    ELSE IF event[1] = "kill" /\ event[2] = p THEN HasKilled(me)
    ELSE me

IsTold(me, p) ==
    /\ me \in Scores
    /\ me.kills = Cardinality(Manners!KillsSince(p))
    /\ me.deaths = Cardinality(Manners!DeathsSince(p))
    /\ me.endKill <=> me.kills >= KillSpree
    /\ me.endLoss <=> me.deaths >= LossSpree

LEMMA ASpreeIsTold ==
  ASSUME MannersMatter, story \in Seq(Events), NEW event \in Events,
         story' = Append(story, event), NEW p \in Players, NEW me, IsTold(me, p),
         NEW you, you = TurnsInto(me, p, event)
  PROVE  IsTold(you, p)'
  <1>1. PICK n \in Nat : n = Len(story)
    OBVIOUS
  <1>2. /\ KillSpree \in Nat \ {0} /\ LossSpree \in Nat \ {0}
        /\ me \in Scores
        /\ me.kills = Cardinality(Manners!KillsSince(p))
        /\ me.deaths = Cardinality(Manners!DeathsSince(p))
        /\ me.endKill <=> me.kills >= KillSpree
        /\ me.endLoss <=> me.deaths >= LossSpree
    BY DEF MannersMatter, IsTold
  <1>3. ASSUME NEW S, S \subseteq 1..n, IsFiniteSet(S)
        PROVE  Cardinality(S \cup {n + 1}) = Cardinality(S) + 1
    <2>1. n + 1 \notin S
      BY <1>3
    <2> QED
      BY <1>3, <2>1, FS_AddElement
  <1>4. Cardinality({}) = 0
    BY FS_EmptySet
  <1>5. StoryGoesOn(p, event)
    BY TheStoryGoesOn
  <1>6. PICK kills, deaths : kills = Manners!KillsSince(p) /\ deaths = Manners!DeathsSince(p)
    OBVIOUS
  <1>7. /\ kills \subseteq 1..n /\ IsFiniteSet(kills)
        /\ deaths \subseteq 1..n /\ IsFiniteSet(deaths)
    BY <1>1, <1>6, SinceIs
  <1>8. /\ Cardinality(kills \cup {n + 1}) = me.kills + 1
        /\ Cardinality(deaths \cup {n + 1}) = me.deaths + 1
    BY <1>2, <1>3, <1>6, <1>7
  <1>9. CASE event[3] = p /\ event[1] = "gone"
    <2>1. Manners!KillsSince(p)' = {} /\ Manners!DeathsSince(p)' = {}
      BY <1>5, <1>9 DEF StoryGoesOn
    <2>2. you = [kills |-> 0, deaths |-> 0, endKill |-> FALSE, endLoss |-> FALSE]
      BY <1>9 DEF TurnsInto, Manners!NewSpree
    <2> QED
      BY <1>2, <1>4, <2>1, <2>2 DEF IsTold, Scores
  <1>10. CASE event[3] = p /\ event[1] # "gone"
    <2>1. Manners!KillsSince(p)' = {} /\ Manners!DeathsSince(p)' = deaths \cup {n + 1}
      BY <1>1, <1>5, <1>6, <1>10 DEF StoryGoesOn
    <2>2. PICK b \in BOOLEAN : b = (me.endLoss \/ me.deaths + 1 = LossSpree)
      OBVIOUS
    <2>3. you = [kills |-> 0, deaths |-> me.deaths + 1, endKill |-> FALSE, endLoss |-> b]
      BY <1>10, <2>2 DEF TurnsInto, HasDied
    <2>4. me.deaths \in Nat /\ (b <=> me.deaths + 1 >= LossSpree)
      <3>1. me.deaths \in Nat /\ me.endLoss \in BOOLEAN
        BY <1>2 DEF Scores
      <3>2. me.deaths + 1 >= LossSpree <=> me.deaths >= LossSpree \/ me.deaths + 1 = LossSpree
        BY <1>2, <3>1
      <3>3. b <=> me.endLoss \/ me.deaths + 1 = LossSpree
        BY <2>2
      <3> QED
        BY <1>2, <3>1, <3>2, <3>3
    <2>5. you \in Scores /\ you.kills = 0 /\ you.deaths = me.deaths + 1 /\ you.endKill = FALSE
          /\ you.endLoss = b
      BY <2>3, <2>4 DEF Scores
    <2> QED
      BY <1>2, <1>4, <1>8, <2>1, <2>4, <2>5 DEF IsTold
  <1>11. CASE event[3] # p /\ event[1] = "kill" /\ event[2] = p
    <2>1. Manners!KillsSince(p)' = kills \cup {n + 1} /\ Manners!DeathsSince(p)' = {}
      BY <1>1, <1>5, <1>6, <1>11 DEF StoryGoesOn
    <2>2. PICK b \in BOOLEAN : b = (me.endKill \/ me.kills + 1 = KillSpree)
      OBVIOUS
    <2>3. you = [kills |-> me.kills + 1, deaths |-> 0, endLoss |-> FALSE, endKill |-> b]
      BY <1>11, <2>2 DEF TurnsInto, HasKilled
    <2>4. me.kills \in Nat /\ (b <=> me.kills + 1 >= KillSpree)
      <3>1. me.kills \in Nat /\ me.endKill \in BOOLEAN
        BY <1>2 DEF Scores
      <3>2. me.kills + 1 >= KillSpree <=> me.kills >= KillSpree \/ me.kills + 1 = KillSpree
        BY <1>2, <3>1
      <3>3. b <=> me.endKill \/ me.kills + 1 = KillSpree
        BY <2>2
      <3> QED
        BY <1>2, <3>1, <3>2, <3>3
    <2>5. you \in Scores /\ you.kills = me.kills + 1 /\ you.deaths = 0 /\ you.endKill = b
          /\ you.endLoss = FALSE
      BY <2>3, <2>4 DEF Scores
    <2> QED
      BY <1>2, <1>4, <1>8, <2>1, <2>4, <2>5 DEF IsTold
  <1>12. CASE event[3] # p /\ ~ (event[1] = "kill" /\ event[2] = p)
    <2>1. Manners!KillsSince(p)' = kills /\ Manners!DeathsSince(p)' = deaths
      BY <1>5, <1>6, <1>12 DEF StoryGoesOn
    <2>2. you = me
      BY <1>12 DEF TurnsInto
    <2> QED
      BY <1>2, <1>6, <2>1, <2>2 DEF IsTold
  <1> QED
    BY <1>9, <1>10, <1>11, <1>12

\* What is said changes nothing else.
SameBut(s, t) == Board(t) /\ t.kill = s.kill /\ t.of = s.of

LEMMA SayingIsAll ==
  ASSUME NEW s, Board(s), NEW word, NEW p
  PROVE  SameBut(s, Manners!Said(s, word, p))
  <1>1. PICK said : said = Append(s.said, <<word, p>>)
    OBVIOUS
  <1>2. Manners!Said(s, word, p) = [s EXCEPT !.said = said]
    BY <1>1 DEF Manners!Said
  <1> QED
    BY <1>2 DEF Board, SameBut

Scored(s, p, me, t) == Board(t) /\ t.kill = s.kill /\ t.of = [s.of EXCEPT ![p] = me]

LEMMA RecordsAre ==
  ASSUME NEW s, Board(s), s.of \in [Players -> Scores], NEW p \in Players, NEW killer
  PROVE  /\ Scored(s, p, HasKilled(s.of[p]), Manners!RecordKill(s, p))
         /\ Scored(s, p, HasDied(s.of[p]), Manners!RecordDeath(s, p, killer))
  <1>1. ASSUME NEW b, SameBut(s, b), NEW me
        PROVE  Scored(s, p, me, [b EXCEPT !.of[p] = me])
    <2>1. PICK t : t = [b EXCEPT !.of[p] = me]
      OBVIOUS
    <2>2. PICK of : of = [s.of EXCEPT ![p] = me]
      OBVIOUS
    <2>3. t = [b EXCEPT !.of = of]
      BY <1>1, <2>1, <2>2 DEF SameBut, Board
    <2>4. t = [of |-> of, kill |-> b.kill, teamkill |-> b.teamkill, said |-> b.said]
      BY <1>1, <2>3 DEF SameBut, Board
    <2> QED
      BY <1>1, <2>1, <2>2, <2>4 DEF Scored, SameBut, Board
  <1>2. SameBut(s, s)
    BY DEF SameBut
  <1>3. Scored(s, p, HasKilled(s.of[p]), Manners!RecordKill(s, p))
    <2>1. PICK a : a = IF s.of[p].endLoss THEN Manners!Said(s, "back", p) ELSE s
      OBVIOUS
    <2>2. SameBut(s, a)
      BY <1>2, <2>1, SayingIsAll
    <2>3. PICK kills : kills = s.of[p].kills + 1
      OBVIOUS
    <2>4. PICK b : b = IF kills = KillSpree THEN Manners!Said(a, "spree", p) ELSE a
      OBVIOUS
    <2>5. SameBut(s, b)
      BY <2>2, <2>4, SayingIsAll DEF SameBut
    <2>6. Manners!RecordKill(s, p) =
             [b EXCEPT !.of[p] = [kills |-> kills, deaths |-> 0, endLoss |-> FALSE,
                                  endKill |-> b.of[p].endKill \/ kills = KillSpree]]
      BY <2>1, <2>3, <2>4 DEF Manners!RecordKill
    <2>7. Manners!RecordKill(s, p) = [b EXCEPT !.of[p] = HasKilled(s.of[p])]
      BY <2>3, <2>5, <2>6 DEF HasKilled, SameBut
    <2> QED
      BY <1>1, <2>5, <2>7
  <1>4. Scored(s, p, HasDied(s.of[p]), Manners!RecordDeath(s, p, killer))
    <2>1. PICK a : a = IF s.of[p].endKill /\ killer # Manners!NoOne THEN Manners!Said(s, "stopped", p)
                       ELSE s
      OBVIOUS
    <2>2. SameBut(s, a)
      BY <1>2, <2>1, SayingIsAll
    <2>3. PICK deaths : deaths = s.of[p].deaths + 1
      OBVIOUS
    <2>4. PICK b : b = IF deaths = LossSpree THEN Manners!Said(a, "keep", p) ELSE a
      OBVIOUS
    <2>5. SameBut(s, b)
      BY <2>2, <2>4, SayingIsAll DEF SameBut
    <2>6. Manners!RecordDeath(s, p, killer) =
             [b EXCEPT !.of[p] = [kills |-> 0, deaths |-> deaths, endKill |-> FALSE,
                                  endLoss |-> b.of[p].endLoss \/ deaths = LossSpree]]
      BY <2>1, <2>3, <2>4 DEF Manners!RecordDeath
    <2>7. Manners!RecordDeath(s, p, killer) = [b EXCEPT !.of[p] = HasDied(s.of[p])]
      BY <2>3, <2>5, <2>6 DEF HasDied, SameBut
    <2> QED
      BY <1>1, <2>5, <2>7
  <1> QED
    BY <1>3, <1>4

LEMMA ScoresAre ==
  ASSUME NEW me \in Scores
  PROVE  HasKilled(me) \in Scores /\ HasDied(me) \in Scores
  <1>1. PICK b \in BOOLEAN : b = (me.endKill \/ me.kills + 1 = KillSpree)
    OBVIOUS
  <1>2. PICK c \in BOOLEAN : c = (me.endLoss \/ me.deaths + 1 = LossSpree)
    OBVIOUS
  <1>3. HasKilled(me) = [kills |-> me.kills + 1, deaths |-> 0, endLoss |-> FALSE, endKill |-> b]
    BY <1>1 DEF HasKilled
  <1>4. HasDied(me) = [kills |-> 0, deaths |-> me.deaths + 1, endKill |-> FALSE, endLoss |-> c]
    BY <1>2 DEF HasDied
  <1> QED
    BY <1>3, <1>4 DEF Scores

Follows(s, t, event) ==
    /\ Board(t) /\ t.kill = s.kill
    /\ t.of = [p \in Players |-> TurnsInto(s.of[p], p, event)]

LEMMA DeathsAre ==
  ASSUME MannersMatter, NEW s, Board(s), s.of \in [Players -> Scores],
         NEW event \in Events, event[1] # "gone", NEW killer
  PROVE  /\ event[3] \in Players /\ (event[1] = "kill" => event[2] \in {event[3], Manners!NoOne}) =>
               Follows(s, Manners!RecordDeath(s, event[3], killer), event)
         /\ event[3] = Manners!NoOne /\ (event[1] = "kill" => event[2] = Manners!NoOne) =>
               Follows(s, s, event)
         /\ event[1] = "kill" /\ event[2] \in Players /\ event[3] = Manners!NoOne =>
               Follows(s, Manners!RecordKill(s, event[2]), event)
         /\ event[1] = "kill" /\ event[2] \in Players /\ event[3] \in Players /\ event[2] # event[3] =>
               Follows(s, Manners!RecordDeath(Manners!RecordKill(s, event[2]), event[3], killer), event)
  <1>1. Manners!NoOne \notin Players
    BY DEF MannersMatter
  <1>2. ASSUME event[3] \in Players, event[1] = "kill" => event[2] \in {event[3], Manners!NoOne}
        PROVE  Follows(s, Manners!RecordDeath(s, event[3], killer), event)
    <2>1. PICK v, t : v = event[3] /\ t = Manners!RecordDeath(s, v, killer)
      OBVIOUS
    <2>2. Scored(s, v, HasDied(s.of[v]), t)
      BY <1>2, <2>1, RecordsAre
    <2>3. \A p \in Players : TurnsInto(s.of[p], p, event) = [s.of EXCEPT ![v] = HasDied(s.of[v])][p]
      BY <1>1, <1>2, <2>1 DEF TurnsInto
    <2> QED
      BY <2>1, <2>2, <2>3 DEF Scored, Follows
  <1>3. ASSUME event[3] = Manners!NoOne, event[1] = "kill" => event[2] = Manners!NoOne
        PROVE  Follows(s, s, event)
    <2>1. \A p \in Players : TurnsInto(s.of[p], p, event) = s.of[p]
      BY <1>1, <1>3 DEF TurnsInto
    <2> QED
      BY <2>1 DEF Follows
  <1>4. ASSUME event[1] = "kill", event[2] \in Players, event[3] = Manners!NoOne
        PROVE  Follows(s, Manners!RecordKill(s, event[2]), event)
    <2>1. PICK k, t : k = event[2] /\ t = Manners!RecordKill(s, k)
      OBVIOUS
    <2>2. Scored(s, k, HasKilled(s.of[k]), t)
      BY <1>4, <2>1, RecordsAre
    <2>3. \A p \in Players : TurnsInto(s.of[p], p, event) = [s.of EXCEPT ![k] = HasKilled(s.of[k])][p]
      BY <1>1, <1>4, <2>1 DEF TurnsInto
    <2> QED
      BY <2>1, <2>2, <2>3 DEF Scored, Follows
  <1>5. ASSUME event[1] = "kill", event[2] \in Players, event[3] \in Players, event[2] # event[3]
        PROVE  Follows(s, Manners!RecordDeath(Manners!RecordKill(s, event[2]), event[3], killer), event)
    <2>1. PICK k, v, u, t :
             /\ k = event[2] /\ v = event[3]
             /\ u = Manners!RecordKill(s, k) /\ t = Manners!RecordDeath(u, v, killer)
      OBVIOUS
    <2>2. Scored(s, k, HasKilled(s.of[k]), u)
      BY <1>5, <2>1, RecordsAre
    <2>3. HasKilled(s.of[k]) \in Scores
      BY <1>5, <2>1, ScoresAre
    <2>4. Board(u) /\ u.of \in [Players -> Scores] /\ u.of = [s.of EXCEPT ![k] = HasKilled(s.of[k])]
          /\ u.kill = s.kill
      BY <2>2, <2>3 DEF Scored
    <2>5. Scored(u, v, HasDied(u.of[v]), t)
      BY <1>5, <2>1, <2>4, RecordsAre
    <2>6. u.of[v] = s.of[v]
      BY <1>5, <2>1, <2>4
    <2>7. t.of = [u.of EXCEPT ![v] = HasDied(s.of[v])] /\ Board(t) /\ t.kill = s.kill
      BY <2>4, <2>5, <2>6 DEF Scored
    <2>8. ASSUME NEW p \in Players PROVE TurnsInto(s.of[p], p, event) = t.of[p]
      BY <1>1, <1>5, <2>1, <2>4, <2>7 DEF TurnsInto
    <2>9. t.of = [p \in Players |-> t.of[p]]
      BY <2>4, <2>7
    <2> QED
      BY <2>1, <2>7, <2>8, <2>9 DEF Follows
  <1> QED
    BY <1>2, <1>3, <1>4, <1>5

\* A kill of one player by another.
IsAKill(event) == event[1] = "kill" /\ event[2] # event[3] /\ Manners!NoOne \notin {event[2], event[3]}

Happens(event) ==
    /\ story' = Append(story, event) /\ Len(story) < MaxEvents
    /\ Board(spree') /\ spree'.kill = (spree.kill /\ ~IsAKill(event))
    /\ spree'.of = [p \in Players |-> TurnsInto(spree.of[p], p, event)]

LEMMA WhatHappens ==
  ASSUME MannersMatter, Board(spree), spree.of \in [Players -> Scores], spree.kill \in BOOLEAN,
         NEW k \in Someone, NEW v \in Someone, NEW word \in {"kill", "team", "self"},
         Manners!Deed(word, k, v),
         word = "team" => k # v,
         word = "self" => k = v /\ v \in Players
  PROVE  Happens(<<word, k, v>>)
  <1>1. PICK event \in Events : event = <<word, k, v>>
    BY DEF Events
  <1>2. event[1] = word /\ event[2] = k /\ event[3] = v
    BY <1>1
  <1>3. PICK s : s = Manners!Silent
    OBVIOUS
  <1>4. Board(s) /\ s.of = spree.of /\ s.kill = spree.kill
    <2>1. s = [spree EXCEPT !.said = <<>>]
      BY <1>3 DEF Manners!Silent
    <2> QED
      BY <2>1 DEF Board
  <1>5. story' = Append(story, event) /\ Len(story) < MaxEvents
    BY <1>1 DEF Manners!Deed
  <1>6. Manners!NoOne \notin Players /\ k \in Players \cup {Manners!NoOne}
        /\ v \in Players \cup {Manners!NoOne}
    BY DEF MannersMatter, Someone
  <1>7. ASSUME NEW t, Follows(s, t, event), spree' = t, ~IsAKill(event) \/ ~spree.kill
        PROVE  Happens(event)
    BY <1>4, <1>5, <1>7 DEF Happens, Follows
  <1>8. CASE word = "self"
    <2>1. spree' = Manners!RecordDeath(s, v, Manners!NoOne)
      BY <1>3, <1>8 DEF Manners!Deed
    <2>2. Follows(s, Manners!RecordDeath(s, v, Manners!NoOne), event)
      BY <1>2, <1>4, <1>8, DeathsAre
    <2> QED
      BY <1>1, <1>2, <1>7, <1>8, <2>1, <2>2 DEF IsAKill
  <1>9. CASE word = "team"
    <2>1. PICK t : t = Manners!OnTeamKill(s, k, v)
      OBVIOUS
    <2>2. Follows(s, t, event)
      BY <1>2, <1>4, <1>6, <1>9, <2>1, DeathsAre DEF Manners!OnTeamKill
    <2>3. spree' = Manners!FirstTeamKill(t, k, v)
      BY <1>3, <1>9, <2>1 DEF Manners!Deed
    <2>4. PICK u : u = [t EXCEPT !.teamkill = FALSE]
      OBVIOUS
    <2>5. Follows(s, u, event)
      BY <2>2, <2>4 DEF Follows, Board
    <2>6. SameBut(u, Manners!Said(u, "firsttk", k))
      BY <2>5, SayingIsAll DEF Follows
    <2>7. Follows(s, spree', event)
      BY <2>2, <2>3, <2>4, <2>5, <2>6 DEF Manners!FirstTeamKill, Follows, SameBut
    <2> QED
      BY <1>1, <1>2, <1>7, <1>9, <2>7 DEF IsAKill
  <1>10. CASE word = "kill"
    <2>1. PICK t : t = Manners!OnKill(s, k, v)
      OBVIOUS
    <2>2. Follows(s, t, event)
      <3>1. CASE k # Manners!NoOne /\ k = v
        BY <1>2, <1>4, <1>6, <1>10, <2>1, <3>1, DeathsAre DEF Manners!OnKill
      <3>2. CASE k = Manners!NoOne
        BY <1>2, <1>4, <1>6, <1>10, <2>1, <3>2, DeathsAre DEF Manners!OnKill
      <3>3. CASE k # Manners!NoOne /\ k # v
        BY <1>2, <1>4, <1>6, <1>10, <2>1, <3>3, DeathsAre DEF Manners!OnKill
      <3> QED
        BY <3>1, <3>2, <3>3
    <2>3. spree' = Manners!FirstKill(t, k, v)
      BY <1>3, <1>10, <2>1 DEF Manners!Deed
    <2>4. t.kill = spree.kill
      BY <1>4, <2>2 DEF Follows
    <2>5. CASE ~spree.kill \/ ~IsAKill(event)
      <3>1. spree' = t
        BY <1>2, <1>10, <2>3, <2>4, <2>5 DEF Manners!FirstKill, IsAKill
      <3> QED
        BY <1>1, <1>7, <2>2, <2>5, <3>1
    <2>6. CASE spree.kill /\ IsAKill(event)
      <3>1. PICK u : u = [t EXCEPT !.kill = FALSE]
        OBVIOUS
      <3>2. spree' = Manners!Said(u, "first", k)
        BY <1>2, <2>3, <2>4, <2>6, <3>1 DEF Manners!FirstKill, IsAKill
      <3>3. Board(u) /\ u.kill = FALSE /\ u.of = t.of
        BY <2>2, <3>1 DEF Follows, Board
      <3>4. SameBut(u, spree')
        BY <3>2, <3>3, SayingIsAll
      <3>5. Board(spree') /\ spree'.kill = FALSE
            /\ spree'.of = [p \in Players |-> TurnsInto(spree.of[p], p, event)]
        BY <1>4, <2>2, <3>3, <3>4 DEF SameBut, Follows
      <3> QED
        BY <1>1, <1>5, <2>6, <3>5 DEF Happens
    <2> QED
      BY <2>5, <2>6
  <1> QED
    BY <1>8, <1>9, <1>10

LEMMA OneLeaves ==
  ASSUME MannersMatter, Board(spree), spree.of \in [Players -> Scores], spree.kill \in BOOLEAN,
         NEW p \in Players, Manners!SpreeReconnect(p)
  PROVE  Happens(<<"gone", p, p>>)
  <1>1. PICK event \in Events : event = <<"gone", p, p>>
    BY DEF Events, Someone
  <1>2. event[1] = "gone" /\ event[2] = p /\ event[3] = p
    BY <1>1
  <1>3. PICK s : s = Manners!Silent
    OBVIOUS
  <1>4. Board(s) /\ s.of = spree.of /\ s.kill = spree.kill
    <2>1. s = [spree EXCEPT !.said = <<>>]
      BY <1>3 DEF Manners!Silent
    <2> QED
      BY <2>1 DEF Board
  <1>5. PICK of : of = [s.of EXCEPT ![p] = Manners!NewSpree]
    OBVIOUS
  <1>6. spree' = [s EXCEPT !.of = of]
    BY <1>3, <1>4, <1>5 DEF Manners!SpreeReconnect, Board
  <1>7. Board(spree') /\ spree'.kill = spree.kill /\ spree'.of = of
    BY <1>4, <1>6 DEF Board
  <1>8. of = [q \in Players |-> TurnsInto(spree.of[q], q, event)]
    BY <1>2, <1>4, <1>5 DEF TurnsInto
  <1> QED
    BY <1>1, <1>2, <1>7, <1>8 DEF Happens, IsAKill, Manners!SpreeReconnect

SpreesHold ==
    /\ \A p \in Players : IsTold(spree.of[p], p)
    /\ spree.kill <=> \A i \in 1..Len(story) : ~IsAKill(story[i])

LEMMA MannersCount == \A s : Manners!Cardinality(s) = Cardinality(s)
BY DEF Manners!Cardinality, Cardinality

TheyAreTold ==
    story \in Seq(Events) /\ spree.of \in [Players -> Scores] =>
        (Manners!SpreesAreTrue <=> SpreesHold)

LEMMA SpreesAreTold == TheyAreTold
  <1> SUFFICES ASSUME story \in Seq(Events), spree.of \in [Players -> Scores]
               PROVE  Manners!SpreesAreTrue <=> SpreesHold
    BY DEF TheyAreTold
  <1> DEFINE Each == \A p \in Players :
                LET me == spree.of[p] IN
                /\ me.kills = Cardinality(Manners!KillsSince(p))
                /\ me.deaths = Cardinality(Manners!DeathsSince(p))
                /\ me.endKill <=> me.kills >= KillSpree
                /\ me.endLoss <=> me.deaths >= LossSpree
             First == \A i \in DOMAIN story :
                story[i][1] = "kill" =>
                   story[i][2] = story[i][3] \/ Manners!NoOne \in {story[i][2], story[i][3]}
  <1>1. Manners!SpreesAreTrue <=> Each /\ (spree.kill <=> First)
    BY MannersCount DEF Manners!SpreesAreTrue
  <1>2. (\A p \in Players : IsTold(spree.of[p], p)) <=> Each
    BY DEF IsTold
  <1>3. (\A i \in 1..Len(story) : ~IsAKill(story[i])) <=> First
    BY DEF IsAKill
  <1> HIDE DEF Each, First
  <1>4. SpreesHold <=> (\A p \in Players : IsTold(spree.of[p], p))
                       /\ (spree.kill <=> \A i \in 1..Len(story) : ~IsAKill(story[i]))
    BY DEF SpreesHold
  <1> QED
    BY <1>1, <1>2, <1>3, <1>4

LEMMA HappensKeeps ==
  ASSUME MannersMatter, SpreeInv, NEW event \in Events, Happens(event)
  PROVE  SpreeInv'
  <1>1. /\ story \in Seq(Events) /\ Len(story) <= MaxEvents /\ MaxEvents \in Nat
        /\ Board(spree) /\ spree.kill \in BOOLEAN /\ spree.of \in [Players -> Scores]
        /\ SpreesHold
    BY SpreesAreTold DEF SpreeInv, MannersMatter, TheyAreTold
  <1>2. /\ story' = Append(story, event) /\ Len(story) < MaxEvents
        /\ Board(spree') /\ spree'.kill = (spree.kill /\ ~IsAKill(event))
        /\ spree'.of = [p \in Players |-> TurnsInto(spree.of[p], p, event)]
    BY DEF Happens
  <1>3. ASSUME NEW p \in Players PROVE IsTold(spree.of[p], p)' /\ spree'.of[p] \in Scores
    <2>1. PICK you : you = TurnsInto(spree.of[p], p, event)
      OBVIOUS
    <2>2. IsTold(you, p)'
      BY <1>1, <1>2, <2>1, ASpreeIsTold DEF SpreesHold
    <2>3. spree'.of[p] = you
      BY <1>2, <2>1
    <2> QED
      BY <2>2, <2>3 DEF IsTold
  <1>4. spree'.of \in [Players -> Scores]
    BY <1>2, <1>3
  <1>5. /\ story' \in Seq(Events) /\ Len(story') = Len(story) + 1
        /\ story'[Len(story) + 1] = event
        /\ \A i \in 1..Len(story) : story'[i] = story[i]
    BY <1>1, <1>2
  <1>6. spree'.kill \in BOOLEAN /\ (spree'.kill <=> \A i \in 1..Len(story') : ~IsAKill(story'[i]))
    <2>1. PICK n \in Nat : n = Len(story)
      BY <1>1
    <2>2. (\A i \in 1..(n + 1) : ~IsAKill(story'[i])) <=>
             ~IsAKill(event) /\ \A i \in 1..n : ~IsAKill(story[i])
      <3>1. \A i \in 1..n : i \in 1..(n + 1)
        OBVIOUS
      <3>2. \A i \in 1..(n + 1) : i \in 1..n \/ i = n + 1
        OBVIOUS
      <3>3. n + 1 \in 1..(n + 1)
        OBVIOUS
      <3> QED
        BY <1>5, <2>1, <3>1, <3>2, <3>3
    <2>3. spree.kill <=> \A i \in 1..n : ~IsAKill(story[i])
      BY <1>1, <2>1 DEF SpreesHold
    <2>4. Len(story') = n + 1
      BY <1>5, <2>1
    <2> QED
      BY <1>2, <2>2, <2>3, <2>4
  <1>7. SpreesHold'
    BY <1>3, <1>6 DEF SpreesHold
  <1>a. TheyAreTold'
    BY SpreesAreTold, PTL
  <1>8. Manners!SpreesAreTrue'
    BY <1>4, <1>5, <1>7, <1>a DEF TheyAreTold
  <1>9. Len(story') <= MaxEvents
    BY <1>1, <1>2, <1>5
  <1> QED
    BY <1>2, <1>4, <1>5, <1>6, <1>8, <1>9 DEF SpreeInv

AMapBegins == MannersMatter /\ story = <<>> /\ spree = Manners!InitSpree => SpreeInv

LEMMA NewMapsAreFair == AMapBegins
  <1> SUFFICES ASSUME MannersMatter, story = <<>>, spree = Manners!InitSpree
               PROVE  SpreeInv
    BY DEF AMapBegins
  <1>1. Len(story) = 0 /\ story \in Seq(Events) /\ DOMAIN story = {} /\ 1..Len(story) = {}
    OBVIOUS
  <1>2. Manners!NewSpree = [kills |-> 0, deaths |-> 0, endKill |-> FALSE, endLoss |-> FALSE]
    BY DEF Manners!NewSpree
  <1>3. /\ Board(spree) /\ spree.kill \in BOOLEAN /\ spree.kill
        /\ spree.of = [p \in Players |-> Manners!NewSpree]
    BY DEF Manners!InitSpree, Board
  <1>4. KillSpree \in Nat \ {0} /\ LossSpree \in Nat \ {0} /\ MaxEvents \in Nat
    BY DEF MannersMatter
  <1>5. ASSUME NEW p \in Players PROVE IsTold(spree.of[p], p)
    <2>1. Manners!KillsSince(p) = {} /\ Manners!DeathsSince(p) = {}
      BY <1>1 DEF Manners!KillsSince, Manners!DeathsSince
    <2>2. Cardinality({}) = 0
      BY FS_EmptySet
    <2> QED
      BY <1>2, <1>3, <1>4, <2>1, <2>2 DEF IsTold, Scores
  <1>6. spree.of \in [Players -> Scores]
    BY <1>2, <1>3 DEF Scores
  <1>7. SpreesHold
    BY <1>1, <1>3, <1>5 DEF SpreesHold
  <1>8. Manners!SpreesAreTrue
    BY <1>1, <1>6, <1>7, SpreesAreTold DEF TheyAreTold
  <1>9. Len(story) <= MaxEvents
    BY <1>1, <1>4
  <1> QED
    BY <1>1, <1>3, <1>6, <1>8, <1>9 DEF SpreeInv

LEMMA SpreeStepKeeps ==
  ASSUME MannersMatter, SpreeInv, Manners!SpreeStep
  PROVE  SpreeInv'
  <1>1. Board(spree) /\ spree.of \in [Players -> Scores] /\ spree.kill \in BOOLEAN
    BY DEF SpreeInv
  <1>2. ASSUME NEW word \in {"kill", "team", "self"}, NEW k \in Someone, NEW v \in Someone,
               Manners!Deed(word, k, v), word = "team" => k # v,
               word = "self" => k = v /\ v \in Players
        PROVE  SpreeInv'
    <2>1. <<word, k, v>> \in Events
      BY DEF Events
    <2> QED
      BY <1>1, <1>2, <2>1, WhatHappens, HappensKeeps
  <1>3. ASSUME NEW p \in Players, Manners!SpreeReconnect(p) PROVE SpreeInv'
    <2>1. <<"gone", p, p>> \in Events
      BY DEF Events, Someone
    <2> QED
      BY <1>1, <1>3, <2>1, OneLeaves, HappensKeeps
  <1>4. CASE Manners!MapOver
    <2>1. story' = <<>> /\ spree' = Manners!InitSpree
      BY <1>4 DEF Manners!MapOver
    <2>2. AMapBegins'
      BY NewMapsAreFair, PTL
    <2> QED
      BY <2>1, <2>2 DEF AMapBegins
  <1>5. ASSUME NEW k \in Someone, NEW v \in Someone,
               \/ Manners!Deed("kill", k, v)
               \/ k # v /\ Manners!Deed("team", k, v)
               \/ k = v /\ v # Manners!NoOne /\ Manners!Deed("self", k, v)
        PROVE  SpreeInv'
    <2>1. v # Manners!NoOne => v \in Players
      BY DEF Someone
    <2> QED
      BY <1>2, <1>5, <2>1
  <1> QED
    BY <1>3, <1>4, <1>5 DEF Manners!SpreeStep, Someone

-----------------------------------------------------------------------------
(* All of them.                                                                 *)

LEMMA MannersBegin ==
  ASSUME MannersMatter, Manners!Init
  PROVE  MannersInv
  <1>1. now = 0 /\ watch \in Watches
    BY DEF Manners!Init
  <1>2. PICK can \in BOOLEAN : spam = Manners!InitSpam(can) /\ words = Manners!InitWords(can)
    BY DEF Manners!Init
  <1>3. SpamInv
    <2>1. spam = [points |-> 0, time |-> 0, last |-> Manners!Nothing, radio |-> Blank, mute |-> 0,
                  lines |-> 0, did |-> Manners!Nothing, can |-> can]
      BY <1>2 DEF Manners!InitSpam, Blank
    <2>2. Full \in Nat /\ Full > 0
      BY PointsAre
    <2> QED
      BY <1>1, <2>1, <2>2 DEF SpamInv, Marks, Clocks
  <1>4. WordsInv
    <2>1. words = [offences |-> 0, mute |-> 0, did |-> Manners!Nothing, for |-> 0, can |-> can]
      BY <1>2 DEF Manners!InitWords
    <2>2. Len(Ladder) \in Nat /\ WarnAfter \in Nat
      BY DEF MannersMatter
    <2> QED
      BY <2>1, <2>2 DEF WordsInv
  <1>5. PingInv
    <2>1. ping = [since |-> Blank, ignore |-> Settle, highs |-> 0, did |-> Manners!Nothing]
      BY DEF Manners!Init, Manners!InitPing, Blank
    <2>2. Settle \in Nat /\ MaxEvents \in Nat
      BY DEF MannersMatter
    <2> QED
      BY <2>1, <2>2 DEF PingInv, Clocks
  <1>6. NickInv
    <2>1. PICK f \in [Players -> Names] : nick = Manners!InitNick(f)
      BY DEF Manners!Init, MannersMatter
    <2>2. PICK none \in [Players -> Clocks], no \in [Names -> Players \cup {Manners!NoOne}] :
             none = [p \in Players |-> Blank] /\ no = [n \in Names |-> Manners!NoOne]
      BY DEF Clocks
    <2>3. nick = [name |-> f, owner |-> no, checked |-> none, quiet |-> 0, swept |-> 0,
                  since |-> none]
      BY <2>1, <2>2 DEF Manners!InitNick, Blank
    <2>4. nick \in Nicks /\ nick.checked = none /\ nick.since = none /\ nick.quiet = 0
          /\ nick.swept = 0
      BY <2>2, <2>3 DEF Nicks
    <2>5. Interval \in Nat \ {0} /\ Late \in Nat
      BY DEF MannersMatter
    <2>6. \A p \in Players : InTime(nick, p)
      BY <1>1, <2>2, <2>4 DEF InTime, Blank, Manners!None
    <2> QED
      BY <1>1, <2>4, <2>5, <2>6 DEF NickInv, NickRight
  <1>7. SpreeInv
    BY NewMapsAreFair DEF Manners!Init, AMapBegins
  <1>8. now \in 0..MaxTime
    BY <1>1 DEF MannersMatter
  <1> QED
    BY <1>1, <1>3, <1>4, <1>5, <1>6, <1>7, <1>8 DEF MannersInv

LEMMA SpreesStand ==
  ASSUME SpreeInv, story' = story, spree' = spree
  PROVE  SpreeInv'
  <1>1. /\ story \in Seq(Events) /\ Len(story) <= MaxEvents
        /\ Board(spree) /\ spree.kill \in BOOLEAN /\ spree.of \in [Players -> Scores]
        /\ SpreesHold
    BY SpreesAreTold DEF SpreeInv, TheyAreTold
  <1>2. ASSUME NEW p \in Players PROVE IsTold(spree.of[p], p)'
    <2>1. IsTold(spree.of[p], p)
      BY <1>1 DEF SpreesHold
    <2>2. \A i : /\ Manners!Dies(i, p)' <=> Manners!Dies(i, p)
                 /\ Manners!Kills(i, p)' <=> Manners!Kills(i, p)
                 /\ Manners!Leaves(i, p)' <=> Manners!Leaves(i, p)
      BY DEF Manners!Dies, Manners!Kills, Manners!Leaves
    <2>3. /\ Manners!KillsSince(p)' = Manners!KillsSince(p)
          /\ Manners!DeathsSince(p)' = Manners!DeathsSince(p)
      BY <2>2 DEF Manners!KillsSince, Manners!DeathsSince
    <2> QED
      BY <2>1, <2>3 DEF IsTold
  <1>3. SpreesHold'
    BY <1>1, <1>2 DEF SpreesHold
  <1>4. TheyAreTold'
    BY SpreesAreTold, PTL
  <1>5. Manners!SpreesAreTrue'
    BY <1>1, <1>3, <1>4 DEF TheyAreTold
  <1> QED
    BY <1>1, <1>5 DEF SpreeInv

LEMMA ASecondPasses ==
  ASSUME MannersMatter, MannersInv, Manners!Tick
  PROVE  MannersInv'
  <1>1. /\ now \in Nat /\ now' = now + 1 /\ now' \in 0..MaxTime
        /\ watch = "nick" => now < nick.swept + Interval + Late
        /\ watch' = watch /\ spam' = spam /\ words' = words /\ ping' = ping /\ nick' = nick
        /\ spree' = spree /\ story' = story
    BY DEF Manners!Tick, MannersInv, MannersMatter
  <1>2. SpamInv'
    BY <1>1 DEF MannersInv, SpamInv, Clocks
  <1>3. WordsInv' /\ PingInv'
    BY <1>1 DEF MannersInv, WordsInv, PingInv
  <1>4. NickInv'
    <2>1. nick \in Nicks /\ Interval \in Nat /\ Late \in Nat
      BY DEF MannersInv, NickInv, MannersMatter
    <2>2. ASSUME watch = "nick" PROVE NickRight(nick)' /\ now' <= nick'.swept + Interval + Late
      <3>1. NickRight(nick)
        BY <2>2 DEF MannersInv, NickInv
      <3>2. ASSUME NEW p \in Players PROVE InTime(nick, p)'
        <4>1. InTime(nick, p) /\ nick.checked[p] \in Clocks /\ nick.since[p] \in Clocks
          BY <3>1 DEF NickRight, Nicks
        <4> QED
          BY <1>1, <4>1 DEF InTime, Clocks, Blank, Manners!None
      <3>3. nick.quiet \in Nat /\ nick.swept \in Nat
        BY <2>1 DEF Nicks
      <3> QED
        BY <1>1, <2>1, <2>2, <3>1, <3>2, <3>3 DEF NickRight
    <2> QED
      BY <1>1, <2>1, <2>2 DEF NickInv
  <1>5. SpreeInv'
    BY <1>1, SpreesStand DEF MannersInv
  <1> QED
    BY <1>1, <1>2, <1>3, <1>4, <1>5 DEF MannersInv

MannersStep == MannersInv' /\ (Manners!NotForOnce \/ UNCHANGED Manners!conductVars)

LEMMA MannersStand ==
  ASSUME MannersMatter, MannersInv, [Manners!Next]_(Manners!conductVars)
  PROVE  MannersStep
  <1>1. now \in Nat /\ now \in 0..MaxTime /\ watch \in Watches
        /\ SpamInv /\ WordsInv /\ PingInv /\ NickInv /\ SpreeInv
    BY DEF MannersInv, MannersMatter
  <1>2. CASE UNCHANGED Manners!conductVars
    <2>1. /\ now' = now /\ watch' = watch /\ spam' = spam /\ words' = words /\ ping' = ping
          /\ nick' = nick /\ spree' = spree /\ story' = story
      BY <1>2 DEF Manners!conductVars
    <2>2. SpamInv' /\ WordsInv' /\ PingInv'
      BY <1>1, <2>1 DEF SpamInv, WordsInv, PingInv
    <2>3. NickInv'
      BY <1>1, <2>1 DEF NickInv, NickRight, InTime
    <2>4. SpreeInv'
      BY <1>1, <2>1, SpreesStand
    <2> QED
      BY <1>1, <1>2, <2>1, <2>2, <2>3, <2>4 DEF MannersInv, MannersStep
  <1>3. CASE Manners!Tick
    <2>1. MannersInv'
      BY <1>3, ASecondPasses
    <2>2. spam' = spam /\ words' = words /\ ping' = ping
      BY <1>3 DEF Manners!Tick
    <2> QED
      BY <2>1, <2>2 DEF MannersStep, Manners!NotForOnce
  <1>4. CASE watch = "spam" /\ Manners!SpamStep /\ UNCHANGED <<watch, now>>
    <2>1. /\ words' = words /\ ping' = ping /\ nick' = nick /\ spree' = spree /\ story' = story
          /\ watch' = watch /\ now' = now
      BY <1>4 DEF Manners!SpamStep
    <2>2. SpamKept
      BY <1>1, <1>4, SpamStepKeeps
    <2>3. WordsInv' /\ PingInv'
      BY <1>1, <2>1 DEF WordsInv, PingInv
    <2>4. NickInv'
      BY <1>1, <2>1 DEF NickInv, NickRight, InTime
    <2>5. SpreeInv'
      BY <1>1, <2>1, SpreesStand
    <2>6. MannersInv'
      BY <1>1, <2>1, <2>2, <2>3, <2>4, <2>5 DEF MannersInv, SpamKept
    <2> QED
      BY <2>1, <2>2, <2>6 DEF MannersStep, SpamKept, Manners!NotForOnce
  <1>5. CASE watch = "words" /\ Manners!WordStep /\ UNCHANGED <<watch, now>>
    <2>1. /\ spam' = spam /\ ping' = ping /\ nick' = nick /\ spree' = spree /\ story' = story
          /\ watch' = watch /\ now' = now
      BY <1>5 DEF Manners!WordStep
    <2>2. WordsKept
      BY <1>1, <1>5, WordStepKeeps
    <2>3. SpamInv' /\ PingInv'
      BY <1>1, <2>1 DEF SpamInv, PingInv
    <2>4. NickInv'
      BY <1>1, <2>1 DEF NickInv, NickRight, InTime
    <2>5. SpreeInv'
      BY <1>1, <2>1, SpreesStand
    <2>6. MannersInv'
      BY <1>1, <2>1, <2>2, <2>3, <2>4, <2>5 DEF MannersInv, WordsKept
    <2> QED
      BY <2>1, <2>2, <2>6 DEF MannersStep, WordsKept, Manners!NotForOnce
  <1>6. CASE watch = "ping" /\ Manners!PingStep /\ UNCHANGED <<watch, now>>
    <2>1. /\ spam' = spam /\ words' = words /\ nick' = nick /\ spree' = spree /\ story' = story
          /\ watch' = watch /\ now' = now
      BY <1>6 DEF Manners!PingStep
    <2>2. PingKept
      BY <1>1, <1>6, PingStepKeeps
    <2>3. SpamInv' /\ WordsInv'
      BY <1>1, <2>1 DEF SpamInv, WordsInv
    <2>4. NickInv'
      BY <1>1, <2>1 DEF NickInv, NickRight, InTime
    <2>5. SpreeInv'
      BY <1>1, <2>1, SpreesStand
    <2>6. MannersInv'
      BY <1>1, <2>1, <2>2, <2>3, <2>4, <2>5 DEF MannersInv, PingKept
    <2> QED
      BY <2>1, <2>2, <2>6 DEF MannersStep, PingKept, Manners!NotForOnce
  <1>7. CASE watch = "nick" /\ Manners!NickStep /\ UNCHANGED <<watch, now>>
    <2>1. /\ spam' = spam /\ words' = words /\ ping' = ping /\ spree' = spree /\ story' = story
          /\ watch' = watch /\ now' = now
      BY <1>7 DEF Manners!NickStep
    <2>2. NickInv'
      BY <1>1, <1>7, <2>1, NickStepKeeps
    <2>3. SpamInv' /\ WordsInv' /\ PingInv'
      BY <1>1, <2>1 DEF SpamInv, WordsInv, PingInv
    <2>4. SpreeInv'
      BY <1>1, <2>1, SpreesStand
    <2> QED
      BY <1>1, <2>1, <2>2, <2>3, <2>4 DEF MannersInv, MannersStep, Manners!NotForOnce
  <1>8. CASE watch = "spree" /\ Manners!SpreeStep /\ UNCHANGED <<watch, now>>
    <2>1. /\ spam' = spam /\ words' = words /\ ping' = ping /\ nick' = nick
          /\ watch' = watch /\ now' = now
      BY <1>8 DEF Manners!SpreeStep
    <2>2. SpreeInv'
      BY <1>1, <1>8, SpreeStepKeeps
    <2>3. SpamInv' /\ WordsInv' /\ PingInv'
      BY <1>1, <2>1 DEF SpamInv, WordsInv, PingInv
    <2>4. NickInv'
      BY <1>1, <2>1 DEF NickInv, NickRight, InTime
    <2> QED
      BY <1>1, <2>1, <2>2, <2>3, <2>4 DEF MannersInv, MannersStep, Manners!NotForOnce
  <1> QED
    BY <1>2, <1>3, <1>4, <1>5, <1>6, <1>7, <1>8 DEF Manners!Next

LEMMA MannersAreTyped ==
  ASSUME MannersMatter, MannersInv
  PROVE  Manners!TypeOK /\ Manners!NobodyStealsForLong /\ Manners!SpreesAreTrue
  <1>1. Manners!SpreesAreTrue
    BY DEF MannersInv, SpreeInv
  <1>2. Manners!NobodyStealsForLong
    <2>1. SUFFICES ASSUME watch = "nick", NEW p \in Players, nick.since[p] # Blank
                   PROVE  now - nick.since[p] <= 2 * Interval + Late
      BY DEF Manners!NobodyStealsForLong, Blank
    <2>2. /\ now <= nick.swept + Interval + Late /\ InTime(nick, p)
          /\ nick.since[p] \in Clocks /\ nick.swept \in Nat
          /\ now \in Nat /\ Interval \in Nat /\ Late \in Nat
      BY <2>1 DEF MannersInv, NickInv, NickRight, Nicks, MannersMatter
    <2>3. nick.since[p] + Interval > nick.swept /\ nick.since[p] \in Nat
      BY <2>1, <2>2 DEF InTime, Clocks
    <2> QED
      BY <2>2, <2>3
  <1>3. ASSUME NEW p \in Players
        PROVE  spree.of[p] \in [kills : 0..MaxEvents, deaths : 0..MaxEvents, endKill : BOOLEAN,
                                endLoss : BOOLEAN]
    <2>1. IsTold(spree.of[p], p) /\ story \in Seq(Events) /\ Len(story) <= MaxEvents
      BY SpreesAreTold DEF MannersInv, SpreeInv, TheyAreTold, SpreesHold
    <2>2. /\ Cardinality(Manners!KillsSince(p)) \in 0..Len(story)
          /\ Cardinality(Manners!DeathsSince(p)) \in 0..Len(story)
      BY <2>1, SinceIs
    <2>3. PICK kills, deaths : kills = spree.of[p].kills /\ deaths = spree.of[p].deaths
      OBVIOUS
    <2>4. kills \in 0..MaxEvents /\ deaths \in 0..MaxEvents
      BY <2>1, <2>2, <2>3 DEF IsTold, MannersMatter
    <2> QED
      BY <2>1, <2>3, <2>4 DEF IsTold, Scores
  <1>4. spree.of \in [Players -> [kills : 0..MaxEvents, deaths : 0..MaxEvents, endKill : BOOLEAN,
                                  endLoss : BOOLEAN]]
    BY <1>3 DEF MannersInv, SpreeInv
  <1>5. /\ watch \in Watches /\ now \in 0..MaxTime
        /\ spam.points \in Nat /\ spam.did \in {Manners!Nothing, "warn", "mute"}
    BY DEF MannersInv, SpamInv
  <1>6. /\ words.offences \in 0..(Len(Ladder) + WarnAfter + 1)
        /\ words.did \in {Manners!Nothing, "penalty"}
    BY DEF MannersInv, WordsInv
  <1>7. ping.highs \in 0..MaxEvents /\ ping.did \in {Manners!Nothing, "kick"}
    BY DEF MannersInv, PingInv
  <1>8. /\ nick.name \in [Players -> Names]
        /\ nick.owner \in [Names -> Players \cup {Manners!NoOne}]
    BY DEF MannersInv, NickInv, Nicks
  <1> QED
    BY <1>1, <1>2, <1>4, <1>5, <1>6, <1>7, <1>8 DEF Manners!TypeOK

\* Whoever goes by another's name is warned within two intervals of the sweeps, and what is
\* announced of sprees, and of the first kill, is so.
THEOREM NobodyIsMistaken ==
  ASSUME MannersMatter
  PROVE  Manners!Spec => [](Manners!TypeOK /\ Manners!NobodyStealsForLong /\ Manners!SpreesAreTrue)
  <1>1. Manners!Init => MannersInv
    BY MannersBegin
  <1>2. MannersInv /\ [Manners!Next]_(Manners!conductVars) => MannersInv'
    BY MannersStand DEF MannersStep
  <1>3. MannersInv => Manners!TypeOK /\ Manners!NobodyStealsForLong /\ Manners!SpreesAreTrue
    BY MannersAreTyped
  <1> QED
    BY <1>1, <1>2, <1>3, PTL DEF Manners!Spec

\* Nobody is warned, muted or kicked for one deed, and the mutes for words never get shorter.
THEOREM NobodySuffersForOneDeed ==
  ASSUME MannersMatter
  PROVE  Manners!Spec => [][Manners!NotForOnce]_(Manners!conductVars)
  <1>1. Manners!Init => MannersInv
    BY MannersBegin
  <1>2. MannersInv /\ [Manners!Next]_(Manners!conductVars) => MannersInv'
    BY MannersStand DEF MannersStep
  <1>3. MannersInv /\ [Manners!Next]_(Manners!conductVars) => [Manners!NotForOnce]_(Manners!conductVars)
    BY MannersStand DEF MannersStep
  <1> QED
    BY <1>1, <1>2, <1>3, PTL DEF Manners!Spec
-----------------------------------------------------------------------------
(* What admins order, on the games of Frostbite and on Black Ops: a pass carries out   *)
(* what is due one after the other, and sends some lines of a file; what is put into   *)
(* the rotation leaves the rest of it in order.                                      *)

CONSTANTS
    Titles, Maps, Desks, Rotation, File, PerPass, Wait, StockIdle, MaxList, MaxDelayed, MaxLost

VARIABLES
    game, desk, on, server, delayed, loading, held, lastIdle, lost, asked, operator, wasIdle, told, gaps

Desk == INSTANCE Orders

DeskMatters ==
    /\ Titles \subseteq {"bf3", "bfbc2", "moh", "hf", "cod7"}
    /\ Rotation \in Seq(Maps) /\ Rotation # <<>>
    /\ File \in Seq(Maps) /\ File # <<>>
    /\ PerPass \in Nat \ {0} /\ Wait \in Nat /\ MaxLost \in Nat

LEMMA Smallest ==
  ASSUME NEW B \in SUBSET Nat, B # {}
  PROVE  \E n \in B : \A m \in B : n <= m
<1>1. PICK n \in B : \A m \in B : ~(<<m, n>> \in OpToRel(<, Nat))
  BY NatLessThanWellFounded, WFMin
<1>2. ASSUME NEW m \in B, m < n PROVE <<m, n>> \in OpToRel(<, Nat)
  <2>1. <<m, n>> \in Nat \X Nat /\ <<m, n>>[1] < <<m, n>>[2]
    BY <1>2
  <2> QED
    BY <2>1 DEF OpToRel
<1>3. \A m \in B : n <= m
  <2>1. \A m \in B : m \in Nat /\ n \in Nat /\ ~(m < n)
    BY <1>1, <1>2
  <2> QED
    BY <2>1
<1> QED
  BY <1>3

\* Induction over a set of numbers.
LEMMA Counting ==
  ASSUME NEW n \in Nat, NEW S, 0 \in S, \A k \in 1..n : k - 1 \in S => k \in S
  PROVE  \A k \in 0..n : k \in S
<1> DEFINE B == {k \in 0..n : k \notin S}
<1>1. SUFFICES ASSUME B # {} PROVE FALSE
  OBVIOUS
<1>2. PICK k \in B : \A m \in B : k <= m
  <2>1. B \in SUBSET Nat
    OBVIOUS
  <2> HIDE DEF B
  <2> QED
    BY <1>1, <2>1, Smallest
<1>3. k \in 1..n /\ k - 1 \in 0..n /\ ~(k <= k - 1)
  BY <1>2
<1>4. k - 1 \in S
  BY <1>2, <1>3
<1> QED
  BY <1>3, <1>4

LEMMA AfterIt ==
  ASSUME NEW i \in Nat, NEW n \in Nat \ {0}
  PROVE  (i % n) + 1 \in 1..n
  OBVIOUS

\* What s has at the places of I is in t, in order, at the places at.
Placed(s, I, t, at) ==
    /\ at \in [I -> 1..Len(t)]
    /\ \A i \in I : t[at[i]] = s[i]
    /\ \A i, j \in I : i < j => at[i] < at[j]

\* All of s is.
GrowsTo(s, t) == Desk!Within(s, 1..Len(s), t)

LEMMA WithinIs ==
  ASSUME NEW S, NEW s, NEW I, NEW t \in Seq(S), NEW at, Placed(s, I, t, at)
  PROVE  Desk!Within(s, I, t)
<1>1. DOMAIN t = 1..Len(t)
  OBVIOUS
<1> QED
  BY <1>1 DEF Desk!Within, Placed

LEMMA WithinHas ==
  ASSUME NEW S, NEW s, NEW I, NEW t \in Seq(S), Desk!Within(s, I, t)
  PROVE  \E at : Placed(s, I, t, at)
<1>1. DOMAIN t = 1..Len(t)
  OBVIOUS
<1> QED
  BY <1>1 DEF Desk!Within, Placed

LEMMA WithinNothing ==
  ASSUME NEW S, NEW s, NEW t \in Seq(S)
  PROVE  Desk!Within(s, {}, t)
<1> DEFINE at == [i \in {} |-> 1]
<1>1. Placed(s, {}, t, at)
  BY DEF Placed
<1> HIDE DEF at
<1> QED
  BY <1>1, WithinIs

LEMMA WithinFewer ==
  ASSUME NEW S, NEW s, NEW I, NEW J \in SUBSET I, NEW t \in Seq(S), Desk!Within(s, I, t)
  PROVE  Desk!Within(s, J, t)
<1>1. PICK a : Placed(s, I, t, a)
  BY WithinHas
<1> DEFINE at == [i \in J |-> a[i]]
<1>2. at \in [J -> 1..Len(t)] /\ (\A i \in J : at[i] = a[i] /\ i \in I)
  BY <1>1 DEF Placed
<1> HIDE DEF at
<1>3. Placed(s, J, t, at)
  BY <1>1, <1>2 DEF Placed
<1> QED
  BY <1>3, WithinIs

LEMMA WithinItself ==
  ASSUME NEW S, NEW s \in Seq(S) PROVE GrowsTo(s, s)
<1> DEFINE at == [i \in 1..Len(s) |-> i]
<1>1. at \in [1..Len(s) -> 1..Len(s)] /\ (\A i \in 1..Len(s) : at[i] = i)
  OBVIOUS
<1> HIDE DEF at
<1>2. Placed(s, 1..Len(s), s, at)
  BY <1>1 DEF Placed
<1> QED
  BY <1>2, WithinIs DEF GrowsTo

LEMMA WithinOn ==
  ASSUME NEW S, NEW s, NEW I \in SUBSET Nat, NEW t \in Seq(S), NEW u \in Seq(S),
         Desk!Within(s, I, t), GrowsTo(t, u)
  PROVE  Desk!Within(s, I, u)
<1>1. PICK a : Placed(s, I, t, a)
  BY WithinHas
<1>2. PICK b : Placed(t, 1..Len(t), u, b)
  BY WithinHas DEF GrowsTo
<1> DEFINE at == [i \in I |-> b[a[i]]]
<1>3. at \in [I -> 1..Len(u)] /\ (\A i \in I : at[i] = b[a[i]])
  BY <1>1, <1>2 DEF Placed
<1> HIDE DEF at
<1>4. \A i \in I : u[at[i]] = s[i]
  BY <1>1, <1>2, <1>3 DEF Placed
<1>5. ASSUME NEW i \in I, NEW j \in I, i < j PROVE at[i] < at[j]
  <2>1. a[i] \in 1..Len(t) /\ a[j] \in 1..Len(t) /\ a[i] < a[j]
    BY <1>1, <1>5 DEF Placed
  <2> QED
    BY <1>2, <1>3, <2>1 DEF Placed
<1>6. Placed(s, I, u, at)
  BY <1>3, <1>4, <1>5 DEF Placed
<1> QED
  BY <1>6, WithinIs

LEMMA GrowsOn ==
  ASSUME NEW S, NEW s \in Seq(S), NEW t \in Seq(S), NEW u \in Seq(S), GrowsTo(s, t), GrowsTo(t, u)
  PROVE  GrowsTo(s, u)
<1>1. 1..Len(s) \in SUBSET Nat
  OBVIOUS
<1> QED
  BY <1>1, WithinOn DEF GrowsTo

\* What is put on at the end comes after the rest.
LEMMA WithinAppended ==
  ASSUME NEW S, NEW t \in Seq(S), NEW m \in S, NEW s, NEW I \in SUBSET Nat, Desk!Within(s, I, t)
  PROVE  /\ Append(t, m) \in Seq(S) /\ Len(Append(t, m)) = Len(t) + 1
         /\ \A i \in 1..Len(t) : Append(t, m)[i] = t[i]
         /\ Desk!Within(s, I, Append(t, m))
         /\ \A p \in Nat : s[p] = m /\ (\A i \in I : i < p) => Desk!Within(s, I \cup {p}, Append(t, m))
<1> DEFINE u == Append(t, m)
<1>1. /\ u \in Seq(S) /\ Len(u) = Len(t) + 1 /\ Len(t) \in Nat
      /\ (\A i \in 1..Len(t) : u[i] = t[i]) /\ u[Len(t) + 1] = m
  BY AppendProperties
<1> HIDE DEF u
<1>2. PICK a : Placed(s, I, t, a)
  BY WithinHas
<1>3. /\ a \in [I -> 1..Len(t)] /\ (\A i \in I : t[a[i]] = s[i])
      /\ \A i, j \in I : i < j => a[i] < a[j]
  BY <1>2 DEF Placed
<1>4. Placed(s, I, u, a)
  BY <1>1, <1>3 DEF Placed
<1>5. Desk!Within(s, I, u)
  BY <1>1, <1>4, WithinIs
<1>6. ASSUME NEW p \in Nat, s[p] = m, \A i \in I : i < p PROVE Desk!Within(s, I \cup {p}, u)
  <2> DEFINE at == [i \in I \cup {p} |-> IF i = p THEN Len(t) + 1 ELSE a[i]]
  <2>1. p \notin I
    BY <1>6
  <2>2. at \in [I \cup {p} -> 1..Len(u)]
    BY <1>1, <1>3
  <2>3. at[p] = Len(t) + 1 /\ (\A i \in I : at[i] = a[i])
    BY <2>1
  <2> HIDE DEF at
  <2>4. \A i \in I \cup {p} : u[at[i]] = s[i]
    BY <1>1, <1>3, <1>6, <2>3
  <2>5. ASSUME NEW i \in I \cup {p}, NEW j \in I \cup {p}, i < j PROVE at[i] < at[j]
    <3>1. i \in I
      BY <1>6, <2>5
    <3>2. a[i] \in 1..Len(t) /\ at[i] = a[i]
      BY <1>3, <2>3, <3>1
    <3>3. CASE j = p
      BY <1>1, <2>3, <3>2, <3>3
    <3>4. CASE j # p
      BY <1>3, <2>3, <2>5, <3>1, <3>4
    <3> QED
      BY <3>3, <3>4
  <2>6. Placed(s, I \cup {p}, u, at)
    BY <2>2, <2>4, <2>5 DEF Placed
  <2> QED
    BY <1>1, <2>6, WithinIs
<1> QED
  BY <1>1, <1>5, <1>6 DEF u

\* What is put in leaves the rest in order.
LEMMA WithinInserted ==
  ASSUME NEW S, NEW t \in Seq(S), NEW m \in S, NEW i \in 1..(Len(t) + 1)
  PROVE  /\ Desk!InsertAt(t, i, m) \in Seq(S) /\ Len(Desk!InsertAt(t, i, m)) = Len(t) + 1
         /\ Desk!InsertAt(t, i, m)[i] = m
         /\ GrowsTo(t, Desk!InsertAt(t, i, m))
<1> DEFINE a == SubSeq(t, 1, i - 1)
           b == SubSeq(t, i, Len(t))
           e == <<m>>
           u == Desk!InsertAt(t, i, m)
           n == Len(t)
<1>1. n \in Nat /\ i - 1 \in Int /\ i \in Int /\ (\A k \in 1..n : t[k] \in S)
  OBVIOUS
<1>2. a \in Seq(S) /\ Len(a) = i - 1 /\ (\A k \in 1..(i - 1) : a[k] = t[k])
  <2>1. \A k \in 1..(i - 1) : t[k] \in S
    BY <1>1
  <2>2. /\ a \in Seq(S) /\ Len(a) = (IF 1 <= i - 1 THEN (i - 1) - 1 + 1 ELSE 0)
        /\ \A k \in 1..((i - 1) - 1 + 1) : a[k] = t[1 + k - 1]
    BY <1>1, <2>1, SubSeqProperties
  <2> HIDE DEF a
  <2> QED
    BY <1>1, <2>2
<1>3. b \in Seq(S) /\ Len(b) = n - i + 1 /\ (\A k \in 1..(n - i + 1) : b[k] = t[i + k - 1])
  <2>1. \A k \in i..n : t[k] \in S
    BY <1>1
  <2>2. /\ b \in Seq(S) /\ Len(b) = (IF i <= n THEN n - i + 1 ELSE 0)
        /\ \A k \in 1..(n - i + 1) : b[k] = t[i + k - 1]
    BY <1>1, <2>1, SubSeqProperties
  <2> HIDE DEF b
  <2> QED
    BY <1>1, <2>2
<1>4. e \in Seq(S) /\ Len(e) = 1 /\ e[1] = m
  OBVIOUS
<1>5. u = (a \o e) \o b
  BY DEF Desk!InsertAt
<1> HIDE DEF a, b, e, u
<1>6. a \o e \in Seq(S) /\ Len(a \o e) = i /\ (\A k \in 1..i : (a \o e)[k] = IF k <= i - 1 THEN t[k] ELSE m)
  <2>1. /\ a \o e \in Seq(S) /\ Len(a \o e) = Len(a) + Len(e)
        /\ \A k \in 1..(Len(a) + Len(e)) : (a \o e)[k] = IF k <= Len(a) THEN a[k] ELSE e[k - Len(a)]
    BY <1>2, <1>4, ConcatProperties
  <2> DEFINE c == a \o e
  <2> HIDE DEF c
  <2>2. \A k \in 1..i : k <= i - 1 \/ k - Len(a) = 1
    BY <1>1, <1>2
  <2>3. Len(a) + Len(e) = i
    BY <1>1, <1>2, <1>4
  <2> QED
    BY <1>1, <1>2, <1>4, <2>1, <2>2, <2>3
<1>7. /\ u \in Seq(S) /\ Len(u) = n + 1
      /\ \A k \in 1..(n + 1) : u[k] = IF k < i THEN t[k] ELSE IF k = i THEN m ELSE t[k - 1]
  <2> DEFINE c == a \o e
  <2> HIDE DEF c
  <2>1. /\ c \in Seq(S) /\ Len(c) = i
        /\ \A k \in 1..i : c[k] = IF k <= i - 1 THEN t[k] ELSE m
    BY <1>6 DEF c
  <2>2. /\ u \in Seq(S) /\ Len(u) = Len(c) + Len(b)
        /\ \A k \in 1..(Len(c) + Len(b)) : u[k] = IF k <= Len(c) THEN c[k] ELSE b[k - Len(c)]
    <3>1. u = c \o b
      BY <1>5 DEF c
    <3> QED
      BY ONLY <1>3, <2>1, <3>1, ConcatProperties
  <2>3. Len(c) + Len(b) = n + 1
    BY <1>1, <1>3, <2>1
  <2>4. ASSUME NEW k \in 1..(n + 1) PROVE u[k] = IF k < i THEN t[k] ELSE IF k = i THEN m ELSE t[k - 1]
    <3>1. CASE k <= i
      <4>1. u[k] = c[k] /\ k \in 1..i
        BY <1>1, <2>1, <2>2, <2>3, <3>1
      <4> QED
        BY <1>1, <2>1, <3>1, <4>1
    <3>2. CASE k > i
      <4>1. u[k] = b[k - i] /\ k - i \in 1..(n - i + 1) /\ i + (k - i) - 1 = k - 1
        BY <1>1, <2>1, <2>2, <2>3, <3>2
      <4> QED
        BY <1>1, <1>3, <3>2, <4>1
    <3> QED
      BY <1>1, <3>1, <3>2
  <2> QED
    BY <2>2, <2>3, <2>4
<1> DEFINE at == [k \in 1..n |-> IF k < i THEN k ELSE k + 1]
<1>8. at \in [1..n -> 1..Len(u)] /\ (\A k \in 1..n : at[k] = IF k < i THEN k ELSE k + 1)
  BY <1>1, <1>7
<1> HIDE DEF at
<1>9. \A k \in 1..n : u[at[k]] = t[k]
  <2>1. SUFFICES ASSUME NEW k \in 1..n PROVE u[at[k]] = t[k]
    OBVIOUS
  <2>2. CASE k < i
    <3>1. at[k] = k /\ k \in 1..(n + 1)
      BY <1>1, <1>8, <2>2
    <3> QED
      BY <1>7, <2>2, <3>1
  <2>3. CASE ~(k < i)
    <3>1. at[k] = k + 1 /\ k + 1 \in 1..(n + 1) /\ ~(k + 1 < i) /\ k + 1 # i /\ (k + 1) - 1 = k
      BY <1>1, <1>8, <2>3
    <3> QED
      BY <1>7, <3>1
  <2> QED
    BY <2>2, <2>3
<1>10. \A k, l \in 1..n : k < l => at[k] < at[l]
  BY <1>1, <1>8
<1>11. Placed(t, 1..n, u, at)
  BY <1>8, <1>9, <1>10 DEF Placed
<1>12. GrowsTo(t, u)
  BY <1>7, <1>11, WithinIs DEF GrowsTo
<1> QED
  BY <1>1, <1>7, <1>12 DEF u

-----------------------------------------------------------------------------
(* The server, and what is carried out.                                        *)

\* All of the rotation there was, or of the file but the gaps.
Whole(D, l) == GrowsTo(Rotation, l) \/ Desk!Within(File, (1..Len(File)) \ D, l)

\* It is at a place of its rotation.
Runs(s) ==
    /\ s = [list |-> s.list, now |-> s.now, next |-> s.next, saved |-> s.saved, slots |-> s.slots,
            disk |-> s.disk, idle |-> s.idle, excluded |-> s.excluded]
    /\ s.list \in Seq(Maps) /\ s.saved \in Seq(Maps)
    /\ IF s.list = <<>> THEN s.now = 1 /\ s.next = 1
       ELSE s.now \in 1..Len(s.list) /\ s.next \in 1..Len(s.list)
    /\ s.slots \subseteq Players /\ s.disk \subseteq Players /\ s.excluded \subseteq Maps

\* What neither the end of a map, nor a start, nor the lines of a file touch.
LeavesBe(s, t) ==
    t.disk = s.disk /\ t.excluded = s.excluded /\ t.slots \in {s.slots, s.disk}

OrderKinds == [what : {"cycle", "round", "reboot", "nuke"}, left : 0..Wait, old : BOOLEAN]

LEMMA FollowingIsPlaced ==
  ASSUME NEW s, s.list \in Seq(Maps), s.list # <<>>, NEW i \in Nat
  PROVE  Desk!Following(s, i) \in 1..Len(s.list)
<1>1. Len(s.list) \in Nat \ {0}
  OBVIOUS
<1> QED
  BY <1>1, AfterIt DEF Desk!Following

LEMMA MapEndRuns ==
  ASSUME NEW s, Runs(s)
  PROVE  /\ Runs(Desk!MapEnd(s)) /\ LeavesBe(s, Desk!MapEnd(s))
         /\ Desk!MapEnd(s).list = s.list /\ Desk!MapEnd(s).saved = s.saved
<1>1. CASE s.list = <<>>
  BY <1>1 DEF Desk!MapEnd, LeavesBe
<1>2. CASE s.list # <<>>
  <2> DEFINE n == Desk!Following(s, s.next)
  <2>1. s.next \in 1..Len(s.list) /\ s.list \in Seq(Maps)
    BY <1>2 DEF Runs
  <2>2. n \in 1..Len(s.list)
    BY <1>2, <2>1, FollowingIsPlaced
  <2>3. Desk!MapEnd(s) = [s EXCEPT !.now = s.next, !.next = n]
    BY <1>2 DEF Desk!MapEnd
  <2> HIDE DEF n
  <2>4. Desk!MapEnd(s) = [list |-> s.list, now |-> s.next, next |-> n, saved |-> s.saved,
                          slots |-> s.slots, disk |-> s.disk, idle |-> s.idle, excluded |-> s.excluded]
    BY <2>3 DEF Runs
  <2> QED
    BY <1>2, <2>1, <2>2, <2>4 DEF Runs, LeavesBe
<1> QED
  BY <1>1, <1>2

LEMMA BootedRuns ==
  ASSUME DeskMatters, NEW s, Runs(s)
  PROVE  /\ Runs(Desk!Booted(s)) /\ LeavesBe(s, Desk!Booted(s))
         /\ Desk!Booted(s).list = s.saved /\ Desk!Booted(s).saved = s.saved
         /\ Desk!Booted(s).slots = s.disk
<1> DEFINE t == [s EXCEPT !.list = s.saved]
           n == Desk!Following(t, 1)
<1>1. s.saved \in Seq(Maps)
  BY DEF Runs
<1>2. t.list = s.saved
  BY DEF Runs
<1>3. IF s.saved = <<>> THEN n = 1 ELSE n \in 1..Len(s.saved)
  <2> HIDE DEF t
  <2>1. CASE s.saved = <<>>
    BY <1>2, <2>1 DEF Desk!Following
  <2>2. CASE s.saved # <<>>
    BY <1>1, <1>2, <2>2, FollowingIsPlaced
  <2> QED
    BY <2>1, <2>2
<1>4. Desk!Booted(s) = [s EXCEPT !.list = s.saved, !.now = 1, !.next = n, !.slots = s.disk, !.idle = StockIdle]
  BY DEF Desk!Booted
<1> HIDE DEF n, t
<1>5. Desk!Booted(s) = [list |-> s.saved, now |-> 1, next |-> n, saved |-> s.saved,
                        slots |-> s.disk, disk |-> s.disk, idle |-> StockIdle, excluded |-> s.excluded]
  BY <1>4 DEF Runs
<1>6. s.saved # <<>> => 1 \in 1..Len(s.saved)
  BY <1>1
<1> QED
  BY <1>1, <1>3, <1>5, <1>6 DEF Runs, LeavesBe

\* How the orders that arrive leave the server that was so before a pass.
Left(t) ==
    /\ Runs(t) /\ LeavesBe(server, t) /\ t.saved = server.saved /\ t.list \in {server.list, server.saved}

LEMMA CarriedLeft ==
  ASSUME DeskMatters, NEW t, Left(t), NEW order \in OrderKinds
  PROVE  /\ Left(Desk!Carried(t, order))
         /\ order.what \notin {"cycle", "reboot"} => Desk!Carried(t, order) = t
         /\ order.what # "reboot" => Desk!Carried(t, order).list = t.list
<1>1. CASE order.what = "cycle"
  BY <1>1, MapEndRuns DEF Desk!Carried, Left, LeavesBe
<1>2. CASE order.what = "reboot"
  BY <1>2, BootedRuns DEF Desk!Carried, Left, LeavesBe
<1>3. CASE order.what \notin {"cycle", "reboot"}
  BY <1>3 DEF Desk!Carried, Left, LeavesBe
<1> QED
  BY <1>1, <1>2, <1>3

\* What a pass has come to after k orders.
Moves(done, k, kinds) == \E i \in 1..k : i \in done /\ delayed[i].what \in kinds
PassIs(done, k, r) ==
    /\ Left(r.then) /\ (~Moves(done, k, {"cycle", "reboot"}) => r.then = server)
    /\ ~Moves(done, k, {"reboot"}) => r.then.list = server.list
    /\ r.rest \in Seq(OrderKinds)
    /\ \A j \in 1..Len(r.rest) : \E i \in 1..k : r.rest[j] = delayed[i]

PassMore(done, k, r) ==
    IF delayed[k].left = 0
    THEN [then |-> IF k \in done THEN Desk!Carried(r.then, delayed[k]) ELSE r.then, rest |-> r.rest]
    ELSE [then |-> r.then, rest |-> Append(r.rest, delayed[k])]

LEMMA PassGoesOn ==
  ASSUME DeskMatters, delayed \in Seq(OrderKinds), NEW k \in 1..Len(delayed),
         NEW done, NEW r, PassIs(done, k - 1, r)
  PROVE  PassIs(done, k, PassMore(done, k, r))
<1>1. /\ delayed[k] \in OrderKinds /\ k \in 1..k /\ (\A i \in 1..(k - 1) : i \in 1..k)
      /\ \A i \in 1..k : i = k \/ i \in 1..(k - 1)
  OBVIOUS
<1>2. \A kinds : Moves(done, k - 1, kinds) => Moves(done, k, kinds)
  BY <1>1 DEF Moves
<1>3. CASE delayed[k].left = 0
  <2> DEFINE u == IF k \in done THEN Desk!Carried(r.then, delayed[k]) ELSE r.then
  <2>1. /\ Left(u) /\ (k \notin done \/ delayed[k].what \notin {"cycle", "reboot"} => u = r.then)
        /\ k \notin done \/ delayed[k].what # "reboot" => u.list = r.then.list
    <3>1. CASE k \in done
      BY <1>1, <3>1, CarriedLeft DEF PassIs
    <3>2. CASE k \notin done
      BY <3>2 DEF PassIs
    <3> QED
      BY <3>1, <3>2
  <2>2. /\ ~Moves(done, k, {"cycle", "reboot"}) => k \notin done \/ delayed[k].what \notin {"cycle", "reboot"}
        /\ ~Moves(done, k, {"reboot"}) => k \notin done \/ delayed[k].what # "reboot"
    BY <1>1 DEF Moves
  <2>3. PassMore(done, k, r) = [then |-> u, rest |-> r.rest]
    BY <1>3 DEF PassMore
  <2> HIDE DEF u
  <2>4. r.rest \in Seq(OrderKinds) /\ (\A j \in 1..Len(r.rest) : \E i \in 1..k : r.rest[j] = delayed[i])
    BY <1>1 DEF PassIs
  <2>5. ~Moves(done, k, {"cycle", "reboot"}) => u = server
    BY <1>2, <2>1, <2>2 DEF PassIs
  <2>6. ~Moves(done, k, {"reboot"}) => u.list = server.list
    BY <1>2, <2>1, <2>2 DEF PassIs
  <2> QED
    BY <2>1, <2>3, <2>4, <2>5, <2>6 DEF PassIs
<1>4. CASE delayed[k].left # 0
  <2> DEFINE q == Append(r.rest, delayed[k])
  <2>1. r.rest \in Seq(OrderKinds)
    BY DEF PassIs
  <2>2. /\ q \in Seq(OrderKinds) /\ Len(q) = Len(r.rest) + 1
        /\ (\A j \in 1..Len(r.rest) : q[j] = r.rest[j]) /\ q[Len(r.rest) + 1] = delayed[k]
    BY <1>1, <2>1, AppendProperties
  <2>3. PassMore(done, k, r) = [then |-> r.then, rest |-> q]
    BY <1>4 DEF PassMore
  <2> HIDE DEF q
  <2>4. Len(r.rest) \in Nat
    BY <2>1
  <2>5. ASSUME NEW j \in 1..Len(q) PROVE \E i \in 1..k : q[j] = delayed[i]
    <3>1. j = Len(r.rest) + 1 \/ j \in 1..Len(r.rest)
      BY <2>2, <2>4
    <3> QED
      BY <1>1, <2>2, <3>1 DEF PassIs
  <2>6. /\ ~Moves(done, k, {"cycle", "reboot"}) => r.then = server
        /\ ~Moves(done, k, {"reboot"}) => r.then.list = server.list
    BY <1>2 DEF PassIs
  <2>7. Left(r.then)
    BY DEF PassIs
  <2> QED
    BY <2>2, <2>3, <2>5, <2>6, <2>7 DEF PassIs
<1> QED
  BY <1>3, <1>4

PassUpto(done, n, f) ==
    f = [i \in 0..n |->
            IF i = 0 THEN [then |-> server, rest |-> <<>>]
            ELSE IF delayed[i].left = 0
                 THEN [then |-> IF i \in done THEN Desk!Carried(f[i - 1].then, delayed[i]) ELSE f[i - 1].then, rest |-> f[i - 1].rest]
                 ELSE [then |-> f[i - 1].then, rest |-> Append(f[i - 1].rest, delayed[i])]]

LEMMA PassUptoIs ==
  ASSUME NEW done, NEW n \in Nat, NEW f, PassUpto(done, n, f)
  PROVE  /\ f[0] = [then |-> server, rest |-> <<>>]
         /\ \A i \in 1..n : f[i] = PassMore(done, i, f[i - 1])
<1>1. 0 \in 0..n /\ (\A i \in 1..n : i \in 0..n /\ i # 0)
  OBVIOUS
<1> QED
  BY <1>1 DEF PassUpto, PassMore

LEMMA PassUptoMore ==
  ASSUME NEW done, NEW k \in Nat \ {0}, NEW f, PassUpto(done, k - 1, f)
  PROVE  PassUpto(done, k, [i \in 0..k |-> IF i = k THEN PassMore(done, k, f[k - 1]) ELSE f[i]])
<1> DEFINE g == [i \in 0..k |-> IF i = k THEN PassMore(done, k, f[k - 1]) ELSE f[i]]
           Fill(i) == IF i = 0 THEN [then |-> server, rest |-> <<>>]
                      ELSE IF delayed[i].left = 0
                           THEN [then |-> IF i \in done THEN Desk!Carried(g[i - 1].then, delayed[i]) ELSE g[i - 1].then, rest |-> g[i - 1].rest]
                           ELSE [then |-> g[i - 1].then, rest |-> Append(g[i - 1].rest, delayed[i])]
<1>1. \A i \in 0..(k - 1) : g[i] = f[i]
  OBVIOUS
<1>2. g[k] = PassMore(done, k, f[k - 1])
  OBVIOUS
<1>3. k - 1 \in Nat /\ f[0] = [then |-> server, rest |-> <<>>] /\ (\A i \in 1..(k - 1) : f[i] = PassMore(done, i, f[i - 1]))
  BY PassUptoIs
<1>4. ASSUME NEW i \in 0..k PROVE g[i] = Fill(i)
  <2> HIDE DEF g
  <2>1. CASE i = 0
    BY <1>1, <1>3, <2>1
  <2>2. CASE i # 0
    <3>1. Fill(i) = PassMore(done, i, g[i - 1])
      BY <2>2 DEF PassMore
    <3>2. CASE i = k
      <4>1. g[k - 1] = f[k - 1]
        BY <1>1, <1>3
      <4> QED
        BY <1>2, <3>1, <3>2, <4>1
    <3>3. CASE i # k
      <4>1. i \in 1..(k - 1) /\ i \in 0..(k - 1) /\ i - 1 \in 0..(k - 1)
        BY <2>2, <3>3
      <4>2. g[i - 1] = f[i - 1] /\ g[i] = f[i] /\ f[i] = PassMore(done, i, f[i - 1])
        BY <1>1, <1>3, <4>1
      <4> HIDE DEF Fill
      <4> QED
        BY <3>1, <4>2
    <3> QED
      BY <3>2, <3>3
  <2> QED
    BY <2>1, <2>2
<1>5. g = [i \in 0..k |-> g[i]]
  OBVIOUS
<1>6. [i \in 0..k |-> g[i]] = [i \in 0..k |-> Fill(i)]
  <2> HIDE DEF g, Fill
  <2> QED
    BY <1>4
<1>7. g = [i \in 0..k |-> Fill(i)]
  BY <1>5, <1>6
<1> QED
  BY <1>7 DEF PassUpto

LEMMA PassUptoExists == ASSUME NEW done, NEW n \in Nat PROVE \E f : PassUpto(done, n, f)
<1> DEFINE S == {k \in 0..n : \E f : PassUpto(done, k, f)}
<1>1. 0 \in S
  <2> DEFINE f == [i \in 0..0 |-> [then |-> server, rest |-> <<>>]]
  <2>1. f = [i \in 0..0 |->
            IF i = 0 THEN [then |-> server, rest |-> <<>>]
            ELSE IF delayed[i].left = 0
                 THEN [then |-> IF i \in done THEN Desk!Carried(f[i - 1].then, delayed[i]) ELSE f[i - 1].then, rest |-> f[i - 1].rest]
                 ELSE [then |-> f[i - 1].then, rest |-> Append(f[i - 1].rest, delayed[i])]]
    OBVIOUS
  <2>2. PassUpto(done, 0, f)
    BY <2>1 DEF PassUpto
  <2> QED
    BY <2>2
<1>2. ASSUME NEW k \in 1..n, k - 1 \in S PROVE k \in S
  <2>1. PICK f : PassUpto(done, k - 1, f)
    BY <1>2
  <2>2. k \in Nat \ {0} /\ k \in 0..n
    OBVIOUS
  <2> QED
    BY <2>1, <2>2, PassUptoMore
<1>3. \A k \in 0..n : k \in S
  <2> HIDE DEF S
  <2> QED
    BY <1>1, <1>2, Counting
<1> QED
  BY <1>3

LEMMA PassEnds ==
  ASSUME DeskMatters, delayed \in Seq(OrderKinds), Runs(server), NEW done
  PROVE  PassIs(done, Len(delayed), Desk!CarriedOut(done))
<1> DEFINE n == Len(delayed)
<1>1. n \in Nat
  OBVIOUS
<1>2. Desk!CarriedOut(done) = (CHOOSE f : PassUpto(done, n, f))[n]
  BY DEF Desk!CarriedOut, PassUpto
<1>3. PICK f : PassUpto(done, n, f) /\ Desk!CarriedOut(done) = f[n]
  BY <1>1, <1>2, PassUptoExists
<1>4. f[0] = [then |-> server, rest |-> <<>>] /\ (\A i \in 1..n : f[i] = PassMore(done, i, f[i - 1]))
  BY <1>1, <1>3, PassUptoIs
<1> DEFINE S == {k \in 0..n : PassIs(done, k, f[k])}
<1>5. 0 \in S
  <2>1. PassIs(done, 0, f[0])
    BY <1>4 DEF PassIs, Left, LeavesBe
  <2> QED
    BY <1>1, <2>1
<1>6. ASSUME NEW k \in 1..n, k - 1 \in S PROVE k \in S
  <2>1. k \in 0..n /\ PassIs(done, k - 1, f[k - 1]) /\ f[k] = PassMore(done, k, f[k - 1])
    BY <1>4, <1>6
  <2> QED
    BY <2>1, PassGoesOn
<1>7. \A k \in 0..n : k \in S
  <2> HIDE DEF S, n
  <2> QED
    BY <1>1, <1>5, <1>6, Counting
<1> QED
  BY <1>1, <1>3, <1>7

-----------------------------------------------------------------------------
(* The lines of a file.                                                        *)

LEMMA LinesAre ==
  ASSUME DeskMatters, loading \in 0..Desk!LinesOf
  PROVE  /\ Desk!SentBefore \in Nat /\ Desk!SentNow \in Nat
         /\ Desk!SentBefore <= Desk!SentNow /\ Desk!SentNow <= Desk!LinesOf
         /\ loading = 0 => Desk!SentNow = Desk!SentBefore
         /\ Desk!LinesOf \in Nat \ {0} /\ Desk!LinesOf - Desk!SentNow \in 0..Desk!LinesOf
         /\ Desk!LinesOf <= Desk!SaveAt /\ Desk!SaveAt = Len(File) + 3 /\ Desk!ClearAt = 2
<1>1. Len(File) \in Nat
  BY DEF DeskMatters
<1>2. /\ Desk!LinesOf \in Nat \ {0}
      /\ Desk!LinesOf <= Desk!SaveAt /\ Desk!SaveAt = Len(File) + 3 /\ Desk!ClearAt = 2
  BY <1>1 DEF Desk!LinesOf, Desk!SaveAt, Desk!ClearAt
<1>3. PerPass \in Nat \ {0}
  BY DEF DeskMatters
<1>4. Desk!SentBefore = Desk!LinesOf - loading
  BY DEF Desk!SentBefore
<1>5. Desk!SentNow = IF PerPass < loading THEN Desk!SentBefore + PerPass ELSE Desk!LinesOf
  BY DEF Desk!SentNow
<1> QED
  BY <1>2, <1>3, <1>4, <1>5

\* What of the file the rotation has after n lines but the gaps, or all of the one there was.
Half(G, l, n) == GrowsTo(Rotation, l) \/ Desk!Within(File, {i \in 1..Len(File) : i + 2 <= n} \ G, l)

LEMMA HalfAtFirst ==
  ASSUME DeskMatters, NEW G, NEW l \in Seq(Maps), NEW n \in Nat, n <= 2
  PROVE  Half(G, l, n)
<1>1. {i \in 1..Len(File) : i + 2 <= n} \ G = {}
  OBVIOUS
<1> QED
  BY <1>1, WithinNothing DEF Half

LEMMA HalfIsLess ==
  ASSUME DeskMatters, NEW G, NEW H, G \subseteq H, NEW l \in Seq(Maps), NEW n \in Nat,
         Half(G, l, n) \/ Whole(G, l)
  PROVE  Half(H, l, n)
<1> DEFINE J == {i \in 1..Len(File) : i + 2 <= n} \ H
<1>1. J \subseteq {i \in 1..Len(File) : i + 2 <= n} \ G /\ J \subseteq (1..Len(File)) \ G
  OBVIOUS
<1> HIDE DEF J
<1>2. Half(G, l, n) => GrowsTo(Rotation, l) \/ Desk!Within(File, J, l)
  BY <1>1, WithinFewer DEF Half
<1>3. Whole(G, l) => GrowsTo(Rotation, l) \/ Desk!Within(File, J, l)
  BY <1>1, WithinFewer DEF Whole
<1> QED
  BY <1>2, <1>3 DEF Half, J

LEMMA HalfGrows ==
  ASSUME DeskMatters, NEW G, NEW n \in Nat, NEW l \in Seq(Maps), NEW u \in Seq(Maps), Half(G, l, n),
         GrowsTo(l, u)
  PROVE  Half(G, u, n)
<1> DEFINE J == {i \in 1..Len(File) : i + 2 <= n} \ G
<1>1. J \in SUBSET Nat /\ Rotation \in Seq(Maps)
  BY DEF DeskMatters
<1>2. GrowsTo(Rotation, l) \/ Desk!Within(File, J, l)
  BY DEF Half
<1> HIDE DEF J
<1>3. GrowsTo(Rotation, u) \/ Desk!Within(File, J, u)
  BY <1>1, <1>2, GrowsOn, WithinOn
<1> QED
  BY <1>3 DEF Half, J

LEMMA AllOfFile ==
  ASSUME DeskMatters, NEW G, NEW l, Half(G, l, Len(File) + 2)
  PROVE  Whole(G, l)
<1>1. Len(File) \in Nat
  BY DEF DeskMatters
<1>2. {i \in 1..Len(File) : i + 2 <= Len(File) + 2} = 1..Len(File)
  BY <1>1
<1> QED
  BY <1>2 DEF Half, Whole

\* The map of the next line is put on at the end.
LEMMA HalfGoesOn ==
  ASSUME DeskMatters, NEW G, NEW l \in Seq(Maps), NEW n \in Nat \ {0}, Half(G, l, n - 1),
         n - 2 \in 1..Len(File)
  PROVE  /\ Half(G, Append(l, File[n - 2]), n)
         /\ Append(l, File[n - 2]) \in Seq(Maps) /\ Len(Append(l, File[n - 2])) = Len(l) + 1
         /\ \A i \in 1..Len(l) : Append(l, File[n - 2])[i] = l[i]
<1> DEFINE p == n - 2
           m == File[p]
           u == Append(l, m)
           I == {i \in 1..Len(File) : i + 2 <= n - 1} \ G
           J == {i \in 1..Len(File) : i + 2 <= n} \ G
<1>1. p \in Nat /\ m \in Maps /\ Rotation \in Seq(Maps) /\ 1..Len(Rotation) \in SUBSET Nat
  BY DEF DeskMatters
<1>2. I \in SUBSET Nat /\ (\A i \in I : i < p) /\ J \subseteq I \cup {p}
  BY DEF DeskMatters
<1>3. GrowsTo(Rotation, l) \/ Desk!Within(File, I, l)
  BY DEF Half
<1>4. Desk!Within(<<>>, {}, l)
  BY WithinNothing
<1>5. File[p] = m
  OBVIOUS
<1> HIDE DEF I, J, m, p
<1>6. u \in Seq(Maps) /\ Len(u) = Len(l) + 1 /\ (\A i \in 1..Len(l) : u[i] = l[i])
  BY <1>1, <1>4, WithinAppended
<1>7. CASE GrowsTo(Rotation, l)
  <2>1. GrowsTo(Rotation, u)
    BY <1>1, <1>7, WithinAppended DEF GrowsTo
  <2> QED
    BY <1>6, <2>1 DEF Half, p, m
<1>8. CASE Desk!Within(File, I, l)
  <2>1. Desk!Within(File, I \cup {p}, u)
    BY <1>1, <1>2, <1>5, <1>8, WithinAppended
  <2>2. Desk!Within(File, J, u)
    <3> HIDE DEF u
    <3> QED
      BY <1>2, <1>6, <2>1, WithinFewer
  <2> QED
    BY <1>6, <2>2 DEF Half, J, p, m
<1> QED
  BY <1>3, <1>7, <1>8

\* What of a pass's lines is lost is a gap.
LostIn(G, heard) == \A l \in Desk!PassLines \ heard : Desk!Adds(l) => Desk!PlaceOf(l) \in G

\* Where the server is after n lines of a pass, from s.
LineIs(s, G, heard, n, r) ==
    /\ Runs(r) /\ r.disk = s.disk /\ r.slots = s.slots /\ r.excluded = s.excluded
    /\ n <= Desk!SentBefore => r = s
    /\ Desk!SentBefore <= n /\ loading # 0 => Half(G, r.list, n)
    /\ IF Desk!SaveAt \in heard /\ Desk!SaveAt <= n THEN Whole(G, r.saved) ELSE r.saved = s.saved
    /\ 2 \notin heard => /\ r.next = s.next /\ Len(s.list) <= Len(r.list)
                         /\ \A i \in 1..Len(s.list) : r.list[i] = s.list[i]

LineMore(heard, k, r) == IF k \in heard THEN Desk!Obeyed(r, k) ELSE r

LEMMA LineGoesOn ==
  ASSUME DeskMatters, loading \in 0..Desk!LinesOf, NEW s, Runs(s), NEW G,
         NEW heard \in SUBSET Desk!PassLines, LostIn(G, heard),
         loading # 0 => Half(G, s.list, Desk!SentBefore),
         NEW k \in 1..Desk!SentNow, NEW r, LineIs(s, G, heard, k - 1, r)
  PROVE  LineIs(s, G, heard, k, LineMore(heard, k, r))
<1> DEFINE from == Desk!SentBefore
           to == Desk!SentNow
           places(n) == {i \in 1..Len(File) : i + 2 <= n}
<1>1. /\ from \in Nat /\ to \in Nat /\ from <= to /\ to <= Desk!LinesOf /\ (loading = 0 => to = from)
      /\ Desk!LinesOf <= Desk!SaveAt /\ Desk!SaveAt = Len(File) + 3 /\ Desk!ClearAt = 2 /\ Len(File) \in Nat
      /\ Desk!PassLines = (from + 1)..to
      /\ game # "bf3" => Desk!LinesOf = 1
  BY LinesAre DEF DeskMatters, Desk!PassLines, Desk!LinesOf
<1>2. heard \subseteq (from + 1)..to
  BY <1>1
<1>3. /\ Runs(r) /\ r.disk = s.disk /\ r.slots = s.slots /\ r.excluded = s.excluded
      /\ k - 1 <= from => r = s
      /\ from <= k - 1 /\ loading # 0 => Half(G, r.list, k - 1)
      /\ IF Desk!SaveAt \in heard /\ Desk!SaveAt <= k - 1 THEN Whole(G, r.saved) ELSE r.saved = s.saved
      /\ 2 \notin heard => /\ r.next = s.next /\ Len(s.list) <= Len(r.list)
                           /\ \A i \in 1..Len(s.list) : r.list[i] = s.list[i]
  BY DEF LineIs
<1>4. k \in Nat \ {0} /\ k - 1 \in Nat /\ k <= to
  BY <1>1
<1>5. r.list \in Seq(Maps) /\ r.saved \in Seq(Maps) /\ s.list \in Seq(Maps)
  BY <1>3 DEF Runs
<1> HIDE DEF from, to, places
\* A line that is not of this pass, or is lost.
<1>6. CASE k \notin heard
  <2>1. LineMore(heard, k, r) = r
    BY <1>6 DEF LineMore
  <2>2. k <= from => r = s
    BY <1>1, <1>3, <1>4
  <2>3. from <= k /\ loading # 0 => Half(G, r.list, k)
    <3>1. SUFFICES ASSUME from <= k, loading # 0 PROVE Half(G, r.list, k)
      OBVIOUS
    <3>2. CASE k <= 2
      BY <1>4, <1>5, <3>2, HalfAtFirst
    <3>3. CASE k > 2 /\ k = from
      <4>1. r = s /\ Half(G, s.list, from)
        BY <1>3, <1>4, <3>1, <3>3 DEF from
      <4> QED
        BY <3>3, <4>1
    <3>4. CASE k > 2 /\ k # from
      <4>1. from <= k - 1 /\ k \in Desk!PassLines \ heard
        BY <1>1, <1>4, <1>6, <3>1, <3>4
      <4>2. Half(G, r.list, k - 1)
        BY <1>3, <3>1, <4>1
      <4>3. game = "bf3"
        BY <1>1, <1>4, <3>4
      <4>4. \A i \in places(k) : i \in places(k - 1) \/ i \in G
        <5>1. SUFFICES ASSUME NEW i \in 1..Len(File), i + 2 <= k, ~(i + 2 <= k - 1) PROVE i \in G
          BY DEF places
        <5>2. i = k - 2 /\ k - 2 \in DOMAIN File
          BY <1>1, <1>4, <5>1 DEF DeskMatters
        <5>3. Desk!Adds(k) /\ Desk!PlaceOf(k) = k - 2
          BY <1>1, <4>3, <5>2 DEF Desk!Adds, Desk!PlaceOf
        <5> QED
          BY <4>1, <5>2, <5>3 DEF LostIn
      <4>5. places(k) \ G = places(k - 1) \ G
        BY <1>4, <4>4 DEF places
      <4> QED
        BY <4>2, <4>5 DEF Half, places
    <3> QED
      BY <1>4, <3>2, <3>3, <3>4
  <2>4. IF Desk!SaveAt \in heard /\ Desk!SaveAt <= k THEN Whole(G, r.saved) ELSE r.saved = s.saved
    BY <1>1, <1>3, <1>4, <1>6
  <2> QED
    BY <1>3, <2>1, <2>2, <2>3, <2>4 DEF LineIs, from
<1>7. CASE k \in heard
  <2> DEFINE l == IF k = 2 THEN <<>> ELSE IF Desk!Adds(k) THEN Append(r.list, File[k - 2]) ELSE r.list
             now2 == IF k = 2 THEN 1 ELSE r.now
             next2 == IF k = 2 THEN 1 ELSE r.next
             saved == IF k = Desk!SaveAt THEN r.list ELSE r.saved
             t == LineMore(heard, k, r)
  <2>1. from + 1 <= k /\ from <= k - 1 /\ ~(k <= from) /\ loading # 0 /\ Half(G, r.list, k - 1)
    <3>1. from + 1 <= k
      BY <1>1, <1>2, <1>4, <1>7
    <3>2. from <= k - 1 /\ ~(k <= from)
      BY <1>1, <1>4, <3>1
    <3>3. loading # 0
      BY <1>1, <1>4, <3>1
    <3> QED
      BY <1>3, <3>1, <3>2, <3>3
  <2>2. t = [list |-> l, now |-> now2, next |-> next2, saved |-> saved, slots |-> r.slots,
             disk |-> r.disk, idle |-> r.idle, excluded |-> r.excluded]
    <3>1. t = Desk!Obeyed(r, k)
      BY <1>7 DEF LineMore
    <3>2. Desk!PlaceOf(k) = k - 2
      BY <1>1 DEF Desk!PlaceOf
    <3>3. t = [r EXCEPT !.list = l, !.now = now2, !.next = next2, !.saved = saved]
      BY <1>1, <3>1, <3>2 DEF Desk!Obeyed
    <3> HIDE DEF t, l, now2, next2, saved
    <3> QED
      BY <1>3, <3>3 DEF Runs
  <2>3. CASE k = 2
    <3>1. k # Desk!SaveAt /\ 2 \in heard /\ ~(Desk!SaveAt <= k)
      BY <1>1, <1>7, <2>3
    <3>2. l = <<>> /\ now2 = 1 /\ next2 = 1 /\ saved = r.saved
      BY <2>3, <3>1
    <3> HIDE DEF l, now2, next2, saved, t
    <3>3. Runs(t)
      BY <1>3, <2>2, <3>2 DEF Runs
    <3>4. Half(G, t.list, k)
      <4>1. t.list = <<>> /\ <<>> \in Seq(Maps) /\ k <= 2 /\ k \in Nat
        BY <1>4, <2>2, <2>3, <3>2
      <4> QED
        BY <4>1, HalfAtFirst
    <3>5. t.saved = s.saved
      BY <1>1, <1>3, <1>4, <2>2, <3>1, <3>2
    <3> QED
      BY <1>3, <2>1, <2>2, <3>1, <3>3, <3>4, <3>5 DEF LineIs, from, t
  <2>4. CASE k # 2 /\ Desk!Adds(k)
    <3>1. k - 2 \in 1..Len(File)
      BY <1>1, <2>4 DEF Desk!Adds, Desk!PlaceOf, DeskMatters
    <3>2. k # Desk!SaveAt /\ ~(Desk!SaveAt <= k) /\ 1 <= Len(r.list) + 1
      BY <1>1, <1>4, <1>5, <3>1
    <3>3. l = Append(r.list, File[k - 2]) /\ now2 = r.now /\ next2 = r.next /\ saved = r.saved
      BY <2>4, <3>2
    <3>4. /\ Half(G, l, k) /\ l \in Seq(Maps) /\ Len(l) = Len(r.list) + 1
          /\ \A i \in 1..Len(r.list) : l[i] = r.list[i]
      <4> HIDE DEF l
      <4> QED
        BY <1>4, <1>5, <2>1, <3>1, <3>3, HalfGoesOn
    <3> HIDE DEF l, now2, next2, saved, t
    <3>5. Len(r.list) \in Nat /\ l # <<>>
      BY <1>5, <3>4
    <3>6. r.now \in 1..Len(l) /\ r.next \in 1..Len(l)
      <4>1. CASE r.list = <<>>
        <5>1. r.now = 1 /\ r.next = 1
          BY <1>3, <4>1 DEF Runs
        <5> QED
          BY <3>4, <3>5, <5>1
      <4>2. CASE r.list # <<>>
        <5>1. r.now \in 1..Len(r.list) /\ r.next \in 1..Len(r.list)
          BY <1>3, <4>2 DEF Runs
        <5> QED
          BY <3>4, <3>5, <5>1
      <4> QED
        BY <4>1, <4>2
    <3>7. Runs(t)
      BY <1>3, <1>5, <2>2, <3>3, <3>4, <3>5, <3>6 DEF Runs
    <3>8. t.saved = s.saved
      BY <1>1, <1>3, <1>4, <2>2, <3>2, <3>3
    <3>9. 2 \notin heard => /\ t.next = s.next /\ Len(s.list) <= Len(t.list)
                            /\ \A i \in 1..Len(s.list) : t.list[i] = s.list[i]
      <4>1. t.next = r.next /\ t.list = l
        BY <2>2, <3>3
      <4>2. Len(s.list) \in Nat
        BY <1>5
      <4>3. 2 \notin heard => Len(s.list) <= Len(r.list) /\ r.next = s.next
                              /\ \A i \in 1..Len(s.list) : r.list[i] = s.list[i]
        BY <1>3
      <4>4. 2 \notin heard => \A i \in 1..Len(s.list) : i \in 1..Len(r.list)
        BY <3>5, <4>2, <4>3
      <4> QED
        BY <3>4, <3>5, <4>1, <4>2, <4>3, <4>4
    <3>10. t.list = l /\ t.disk = s.disk /\ t.slots = s.slots /\ t.excluded = s.excluded
      BY <1>3, <2>2
    <3> QED
      BY <2>1, <3>2, <3>4, <3>7, <3>8, <3>9, <3>10 DEF LineIs, from, t
  <2>5. CASE k # 2 /\ ~Desk!Adds(k)
    <3>1. l = r.list /\ now2 = r.now /\ next2 = r.next
      BY <2>5
    <3> HIDE DEF l, now2, next2, t
    <3>2. saved \in Seq(Maps)
      BY <1>5
    <3>3. Half(G, r.list, k)
      <4>1. CASE k <= 2
        BY <1>4, <1>5, <4>1, HalfAtFirst
      <4>2. CASE k > 2
        <5>1. game = "bf3" /\ k - 2 \notin 1..Len(File)
          BY <1>1, <1>4, <2>5, <4>2 DEF Desk!Adds, Desk!PlaceOf, DeskMatters
        <5>2. places(k) = places(k - 1)
          BY <1>1, <1>4, <4>2, <5>1 DEF places
        <5> QED
          BY <2>1, <5>2 DEF Half, places
      <4> QED
        BY <1>4, <4>1, <4>2
    <3>4. IF Desk!SaveAt \in heard /\ Desk!SaveAt <= k THEN Whole(G, saved) ELSE saved = s.saved
      <4>1. CASE k = Desk!SaveAt
        <5>1. Half(G, r.list, Len(File) + 2)
          <6>1. k - 1 = Len(File) + 2
            BY <1>1, <4>1
          <6> QED
            BY <2>1, <6>1
        <5>2. saved = r.list /\ Desk!SaveAt \in heard /\ Desk!SaveAt <= k
          BY <1>1, <1>7, <4>1
        <5> QED
          BY <5>1, <5>2, AllOfFile
      <4>2. CASE k # Desk!SaveAt
        <5>1. saved = r.saved /\ (Desk!SaveAt <= k <=> Desk!SaveAt <= k - 1)
          BY <1>1, <1>4, <4>2
        <5> QED
          BY <1>3, <5>1
      <4> QED
        BY <4>1, <4>2
    <3> HIDE DEF saved
    <3>5. Runs(t)
      BY <1>3, <1>5, <2>2, <3>1, <3>2 DEF Runs
    <3>6. /\ t.list = r.list /\ t.disk = s.disk /\ t.slots = s.slots /\ t.excluded = s.excluded
          /\ t.next = r.next /\ t.saved = saved
      BY <1>3, <2>2, <3>1
    <3> QED
      BY <1>3, <2>1, <3>3, <3>4, <3>5, <3>6 DEF LineIs, from, t
  <2> QED
    BY <2>3, <2>4, <2>5
<1> QED
  BY <1>6, <1>7

LinesUpto(s, heard, n, f) ==
    f = [i \in 0..n |->
            IF i = 0 THEN s ELSE IF i \in heard THEN Desk!Obeyed(f[i - 1], i) ELSE f[i - 1]]

LEMMA LinesUptoIs ==
  ASSUME NEW s, NEW heard, NEW n \in Nat, NEW f, LinesUpto(s, heard, n, f)
  PROVE  f[0] = s /\ \A i \in 1..n : f[i] = LineMore(heard, i, f[i - 1])
<1>1. 0 \in 0..n /\ (\A i \in 1..n : i \in 0..n /\ i # 0)
  OBVIOUS
<1> QED
  BY <1>1 DEF LinesUpto, LineMore

LEMMA LinesUptoMore ==
  ASSUME NEW s, NEW heard, NEW k \in Nat \ {0}, NEW f, LinesUpto(s, heard, k - 1, f)
  PROVE  LinesUpto(s, heard, k, [i \in 0..k |-> IF i = k THEN LineMore(heard, k, f[k - 1]) ELSE f[i]])
<1> DEFINE g == [i \in 0..k |-> IF i = k THEN LineMore(heard, k, f[k - 1]) ELSE f[i]]
           Fill(i) == IF i = 0 THEN s ELSE IF i \in heard THEN Desk!Obeyed(g[i - 1], i) ELSE g[i - 1]
<1>1. \A i \in 0..(k - 1) : g[i] = f[i]
  OBVIOUS
<1>2. g[k] = LineMore(heard, k, f[k - 1])
  OBVIOUS
<1>3. k - 1 \in Nat /\ f[0] = s /\ (\A i \in 1..(k - 1) : f[i] = LineMore(heard, i, f[i - 1]))
  BY LinesUptoIs
<1>4. ASSUME NEW i \in 0..k PROVE g[i] = Fill(i)
  <2> HIDE DEF g
  <2>1. CASE i = 0
    BY <1>1, <1>3, <2>1
  <2>2. CASE i # 0
    <3>1. Fill(i) = LineMore(heard, i, g[i - 1])
      BY <2>2 DEF LineMore
    <3>2. CASE i = k
      <4>1. g[k - 1] = f[k - 1]
        BY <1>1, <1>3
      <4> QED
        BY <1>2, <3>1, <3>2, <4>1
    <3>3. CASE i # k
      <4>1. i \in 1..(k - 1) /\ i \in 0..(k - 1) /\ i - 1 \in 0..(k - 1)
        BY <2>2, <3>3
      <4>2. g[i - 1] = f[i - 1] /\ g[i] = f[i] /\ f[i] = LineMore(heard, i, f[i - 1])
        BY <1>1, <1>3, <4>1
      <4> HIDE DEF Fill
      <4> QED
        BY <3>1, <4>2
    <3> QED
      BY <3>2, <3>3
  <2> QED
    BY <2>1, <2>2
<1>5. g = [i \in 0..k |-> g[i]]
  OBVIOUS
<1>6. [i \in 0..k |-> g[i]] = [i \in 0..k |-> Fill(i)]
  <2> HIDE DEF g, Fill
  <2> QED
    BY <1>4
<1>7. g = [i \in 0..k |-> Fill(i)]
  BY <1>5, <1>6
<1> QED
  BY <1>7 DEF LinesUpto

LEMMA LinesUptoExists == ASSUME NEW s, NEW heard, NEW n \in Nat PROVE \E f : LinesUpto(s, heard, n, f)
<1> DEFINE S == {k \in 0..n : \E f : LinesUpto(s, heard, k, f)}
<1>1. 0 \in S
  <2> DEFINE f == [i \in 0..0 |-> s]
  <2>1. f = [i \in 0..0 |->
                IF i = 0 THEN s ELSE IF i \in heard THEN Desk!Obeyed(f[i - 1], i) ELSE f[i - 1]]
    OBVIOUS
  <2>2. LinesUpto(s, heard, 0, f)
    BY <2>1 DEF LinesUpto
  <2> QED
    BY <2>2
<1>2. ASSUME NEW k \in 1..n, k - 1 \in S PROVE k \in S
  <2>1. PICK f : LinesUpto(s, heard, k - 1, f)
    BY <1>2
  <2>2. k \in Nat \ {0} /\ k \in 0..n
    OBVIOUS
  <2> QED
    BY <2>1, <2>2, LinesUptoMore
<1>3. \A k \in 0..n : k \in S
  <2> HIDE DEF S
  <2> QED
    BY <1>1, <1>2, Counting
<1> QED
  BY <1>3

\* After the lines of a pass.
LEMMA LinesLeave ==
  ASSUME DeskMatters, loading \in 0..Desk!LinesOf, NEW s, Runs(s), NEW G,
         NEW heard \in SUBSET Desk!PassLines, LostIn(G, heard),
         loading # 0 => Half(G, s.list, Desk!SentBefore)
  PROVE  LineIs(s, G, heard, Desk!SentNow, Desk!SendConfigLines(s, heard))
<1> DEFINE n == Desk!SentNow
<1>1. n \in Nat /\ Desk!SentBefore \in Nat
  BY LinesAre
<1>2. Desk!SendConfigLines(s, heard) = (CHOOSE f : LinesUpto(s, heard, n, f))[n]
  BY DEF Desk!SendConfigLines, LinesUpto
<1>3. PICK f : LinesUpto(s, heard, n, f) /\ Desk!SendConfigLines(s, heard) = f[n]
  BY <1>1, <1>2, LinesUptoExists
<1>4. f[0] = s /\ (\A i \in 1..n : f[i] = LineMore(heard, i, f[i - 1]))
  BY <1>1, <1>3, LinesUptoIs
<1> DEFINE S == {k \in 0..n : LineIs(s, G, heard, k, f[k])}
<1>5. 0 \in S
  <2>1. Desk!SaveAt \in Nat /\ ~(Desk!SaveAt <= 0)
    <3>1. Len(File) \in Nat
      BY DEF DeskMatters
    <3> QED
      BY <3>1 DEF Desk!SaveAt, Desk!ClearAt
  <2>2. Desk!SentBefore <= 0 /\ loading # 0 => Half(G, s.list, 0)
    BY HalfAtFirst DEF Runs
  <2>3. LineIs(s, G, heard, 0, s)
    BY <2>1, <2>2 DEF LineIs, Runs
  <2> QED
    BY <1>1, <1>4, <2>3
<1>6. ASSUME NEW k \in 1..n, k - 1 \in S PROVE k \in S
  <2>1. k \in 0..n /\ LineIs(s, G, heard, k - 1, f[k - 1]) /\ f[k] = LineMore(heard, k, f[k - 1])
    BY <1>4, <1>6
  <2> QED
    BY <2>1, LineGoesOn
<1>7. \A k \in 0..n : k \in S
  <2> HIDE DEF S, n
  <2> QED
    BY <1>1, <1>5, <1>6, Counting
<1> QED
  BY <1>1, <1>3, <1>7

-----------------------------------------------------------------------------
(* What holds of the orders.  The file that is under way is within the rotation   *)
(* as far as it is sent, but the gaps, and so is the one on the disk; what is announced is not from before the plugin was off,  *)
(* where it is cleared; who was told of a slot has it in memory and on the disk.    *)

OrdersInv ==
    /\ delayed \in Seq(OrderKinds)
    /\ game \in {"moh", "bfbc2", "hf"} => \A i \in 1..Len(delayed) : ~delayed[i].old

LinesInv ==
    /\ loading \in 0..Desk!LinesOf
    /\ loading # 0 => Half(gaps.list, server.list, Desk!SentBefore)

GapsInv ==
    /\ gaps = [list |-> gaps.list, disk |-> gaps.disk]
    /\ gaps.list \subseteq 1..Len(File) /\ gaps.disk \subseteq 1..Len(File)
    /\ Whole(gaps.disk, server.saved)

ListsInv ==
    /\ held \subseteq SUBSET Maps /\ (held = {} \/ \E S \in held : held = {S})
    /\ Desk!ExclusionsComeBack /\ Desk!IdleComesBack
    /\ told \subseteq server.slots /\ told \subseteq server.disk
    /\ game # "moh" => told = {}

DeskTypes == game \in Titles /\ desk \in Desks /\ on \in BOOLEAN /\ lost \in 0..MaxLost

DeskInv ==
    DeskTypes /\ Runs(server) /\ OrdersInv /\ LinesInv /\ GapsInv /\ ListsInv /\ Desk!NextIsAsked

DeskHolds == DeskInv'

LEMMA DeskBegins == DeskMatters /\ Desk!Init => DeskInv
<1> SUFFICES ASSUME DeskMatters, Desk!Init PROVE DeskInv
  OBVIOUS
<1> DEFINE n == (1 % Len(Rotation)) + 1
<1>1. server = [list |-> Rotation, now |-> 1, next |-> n, saved |-> Rotation, slots |-> {},
                disk |-> {}, idle |-> StockIdle, excluded |-> {}]
  BY DEF Desk!Init
<1>2. Rotation \in Seq(Maps) /\ Rotation # <<>> /\ Len(Rotation) \in Nat \ {0}
  BY DEF DeskMatters
<1>3. n \in 1..Len(Rotation) /\ 1 \in 1..Len(Rotation)
  BY <1>2, AfterIt
<1> HIDE DEF n
<1>4. Runs(server) /\ GapsInv
  <2>1. GrowsTo(Rotation, Rotation)
    BY <1>2, WithinItself
  <2>2. gaps = [list |-> {}, disk |-> {}]
    BY DEF Desk!Init
  <2> QED
    BY <1>1, <1>2, <1>3, <2>1, <2>2 DEF Runs, GapsInv, Whole
<1>5. OrdersInv
  BY DEF Desk!Init, OrdersInv
<1>6. LinesInv
  <2>1. Desk!LinesOf \in Nat
    BY DEF Desk!LinesOf, Desk!ClearAt, DeskMatters
  <2>2. loading = 0
    BY DEF Desk!Init
  <2> QED
    BY <2>1, <2>2 DEF LinesInv
<1>7. ListsInv
  BY <1>1 DEF Desk!Init, ListsInv, Desk!ExclusionsComeBack, Desk!IdleComesBack
<1>8. DeskTypes /\ Desk!NextIsAsked
  BY DEF Desk!Init, DeskTypes, Desk!NextIsAsked, DeskMatters
<1> QED
  BY <1>4, <1>5, <1>6, <1>7, <1>8 DEF DeskInv

\* The rotation is as it was, with more in it, or that of the disk with its gaps.
FollowsOn ==
    /\ gaps' = [list |-> gaps'.list, disk |-> gaps.disk] /\ gaps'.list \subseteq 1..Len(File)
    /\ \/ GrowsTo(server.list, server'.list) /\ gaps.list \subseteq gaps'.list
       \/ server'.list = server.saved /\ (loading # 0 => gaps.disk \subseteq gaps'.list)
       \/ game # "bf3"

LEMMA LinesGoOn ==
  ASSUME DeskMatters, DeskInv, Runs(server'), server'.saved = server.saved,
         UNCHANGED <<game, loading>>, FollowsOn
  PROVE  LinesInv' /\ GapsInv'
<1>1. Desk!LinesOf' = Desk!LinesOf /\ Desk!SentBefore' = Desk!SentBefore
  BY DEF Desk!LinesOf, Desk!SentBefore, Desk!ClearAt
<1>2. /\ server.list \in Seq(Maps) /\ server'.list \in Seq(Maps) /\ server.saved \in Seq(Maps)
      /\ Whole(gaps.disk, server.saved) /\ loading \in 0..Desk!LinesOf
      /\ gaps.list \subseteq 1..Len(File) /\ gaps.disk \subseteq 1..Len(File)
      /\ loading # 0 => Half(gaps.list, server.list, Desk!SentBefore)
  BY DEF DeskInv, Runs, LinesInv, GapsInv
<1>3. Desk!SentBefore \in Nat
  BY <1>2, LinesAre
<1>4. loading # 0 => Half(gaps'.list, server'.list, Desk!SentBefore)
  <2>0. SUFFICES ASSUME loading # 0 PROVE Half(gaps'.list, server'.list, Desk!SentBefore)
    OBVIOUS
  <2>1. CASE GrowsTo(server.list, server'.list) /\ gaps.list \subseteq gaps'.list
    <3>1. Half(gaps.list, server'.list, Desk!SentBefore)
      BY <1>2, <1>3, <2>0, <2>1, HalfGrows
    <3> QED
      BY <1>2, <1>3, <2>1, <3>1, HalfIsLess
  <2>2. CASE server'.list = server.saved /\ gaps.disk \subseteq gaps'.list
    BY <1>2, <1>3, <2>2, HalfIsLess
  <2>3. CASE game # "bf3"
    <3>1. Desk!LinesOf = 1 /\ Desk!SentBefore <= 2
      BY <1>2, <2>3 DEF Desk!LinesOf, Desk!SentBefore
    <3> QED
      BY <1>2, <1>3, <3>1, HalfAtFirst
  <2> QED
    BY <2>0, <2>1, <2>2, <2>3 DEF FollowsOn
<1>5. Half(gaps.list, server.list, Desk!SentBefore)' <=> Half(gaps'.list, server'.list, Desk!SentBefore)
  BY <1>1 DEF Half, GrowsTo, Desk!Within
<1>6. Whole(gaps.disk, server.saved)' <=> Whole(gaps'.disk, server'.saved)
  BY DEF Whole, GrowsTo, Desk!Within
<1>7. gaps'.disk = gaps.disk /\ gaps' = [list |-> gaps'.list, disk |-> gaps'.disk]
  BY DEF FollowsOn
<1>8. Whole(gaps'.disk, server'.saved)
  BY <1>2, <1>7
<1>9. gaps'.list \subseteq 1..Len(File)
  BY DEF FollowsOn
<1> QED
  BY <1>1, <1>2, <1>4, <1>5, <1>6, <1>7, <1>8, <1>9 DEF LinesInv, GapsInv

LEMMA GapsStay ==
  ASSUME DeskInv, gaps' = gaps, GrowsTo(server.list, server'.list)
  PROVE  FollowsOn
  BY DEF DeskInv, GapsInv, FollowsOn

LEMMA ListsGoOn ==
  ASSUME DeskInv, LeavesBe(server, server'), UNCHANGED <<game, held, operator, told, lastIdle>>,
         wasIdle' \in {wasIdle, 0}
  PROVE  ListsInv'
  BY DEF DeskInv, ListsInv, LeavesBe, Desk!ExclusionsComeBack, Desk!IdleComesBack

\* How the server may go on, apart from its lists.
Turns(s, t) ==
    Runs(t) /\ LeavesBe(s, t) /\ t.saved = s.saved /\ GrowsTo(s.list, t.list)

LEMMA Turned ==
  ASSUME DeskMatters, DeskInv, Runs(server'), LeavesBe(server, server'), server'.saved = server.saved,
         FollowsOn, UNCHANGED <<game, loading, held, operator, told, lastIdle>>, wasIdle' \in {wasIdle, 0}
  PROVE  Runs(server)' /\ LinesInv' /\ GapsInv' /\ ListsInv'
<1>1. Runs(server)' <=> Runs(server')
  BY DEF Runs
<1> QED
  BY <1>1, LinesGoOn, ListsGoOn

LEMMA TurnsIfSame ==
  ASSUME NEW s, NEW t, Runs(t), LeavesBe(s, t), t.list = s.list, t.saved = s.saved
  PROVE  Turns(s, t)
<1>1. GrowsTo(t.list, t.list)
  BY WithinItself DEF Runs
<1> QED
  BY <1>1 DEF Turns

LEMMA InsertedTurns ==
  ASSUME NEW s, Runs(s), NEW m \in Maps, NEW i \in 1..(Len(s.list) + 1)
  PROVE  /\ Turns(s, Desk!Inserted(s, i, m)) /\ GrowsTo(s.list, Desk!Inserted(s, i, m).list)
         /\ i \in 1..Len(Desk!Inserted(s, i, m).list) /\ Desk!Inserted(s, i, m).list[i] = m
         /\ Desk!Inserted(s, i, m).saved = s.saved
<1> DEFINE l == Desk!InsertAt(s.list, i, m)
           t == Desk!Inserted(s, i, m)
<1>1. s.list \in Seq(Maps) /\ Len(s.list) \in Nat
  BY DEF Runs
<1>2. l \in Seq(Maps) /\ Len(l) = Len(s.list) + 1 /\ l[i] = m /\ GrowsTo(s.list, l)
  BY <1>1, WithinInserted
<1>3. t = [s EXCEPT !.list = l]
  BY <1>1 DEF Desk!Inserted
<1> HIDE DEF l, t
<1>4. t = [list |-> l, now |-> s.now, next |-> s.next, saved |-> s.saved, slots |-> s.slots,
           disk |-> s.disk, idle |-> s.idle, excluded |-> s.excluded]
  BY <1>3 DEF Runs
<1>5. l # <<>> /\ s.now \in 1..Len(l) /\ s.next \in 1..Len(l)
  <2>1. l # <<>>
    BY <1>1, <1>2
  <2>2. CASE s.list = <<>>
    BY <1>1, <1>2, <2>1, <2>2 DEF Runs
  <2>3. CASE s.list # <<>>
    BY <1>1, <1>2, <2>1, <2>3 DEF Runs
  <2> QED
    BY <2>2, <2>3, <2>1
<1>6. Runs(t)
  BY <1>2, <1>4, <1>5 DEF Runs
<1> QED
  BY <1>1, <1>2, <1>4, <1>6 DEF Turns, LeavesBe, t

LEMMA PointedTurns ==
  ASSUME NEW s, Runs(s), NEW i \in Nat
  PROVE  /\ Turns(s, Desk!PointedAt(s, i)) /\ Desk!PointedAt(s, i).list = s.list
         /\ Desk!PointedAt(s, i).saved = s.saved
         /\ i \in 1..Len(s.list) => Desk!PointedAt(s, i).next = i
<1> DEFINE t == Desk!PointedAt(s, i)
<1>1. s.list \in Seq(Maps) /\ DOMAIN s.list = 1..Len(s.list)
  BY DEF Runs
<1>2. CASE i \in 1..Len(s.list)
  <2>1. t = [s EXCEPT !.next = i]
    BY <1>1, <1>2 DEF Desk!PointedAt
  <2> HIDE DEF t
  <2>2. t = [list |-> s.list, now |-> s.now, next |-> i, saved |-> s.saved, slots |-> s.slots,
             disk |-> s.disk, idle |-> s.idle, excluded |-> s.excluded]
    BY <2>1 DEF Runs
  <2>3. s.list # <<>>
    BY <1>2
  <2>4. Runs(t)
    BY <1>2, <2>2, <2>3 DEF Runs
  <2>5. LeavesBe(s, t) /\ t.list = s.list /\ t.saved = s.saved /\ t.next = i
    BY <2>2 DEF LeavesBe
  <2> QED
    BY <2>4, <2>5, TurnsIfSame DEF t
<1>3. CASE i \notin 1..Len(s.list)
  <2>1. t = s
    BY <1>1, <1>3 DEF Desk!PointedAt
  <2>2. LeavesBe(s, s)
    BY DEF LeavesBe
  <2> QED
    BY <1>3, <2>1, <2>2, TurnsIfSame
<1> QED
  BY <1>2, <1>3

LEMMA TurnsOn ==
  ASSUME NEW s, NEW t, NEW u, Runs(s), Runs(t), t.saved = s.saved, LeavesBe(s, t), Turns(t, u),
         GrowsTo(s.list, t.list)
  PROVE  Turns(s, u)
<1>1. s.list \in Seq(Maps) /\ t.list \in Seq(Maps) /\ u.list \in Seq(Maps)
  BY DEF Turns, Runs
<1>2. GrowsTo(t.list, u.list) => GrowsTo(s.list, u.list)
  BY <1>1, GrowsOn
<1> QED
  BY <1>2 DEF Turns, LeavesBe

-----------------------------------------------------------------------------
(* What the orders do to it.                                                   *)

LEMMA AfterKeeps ==
  ASSUME DeskMatters, DeskInv, NEW what \in {"cycle", "round", "reboot", "nuke"}, Desk!After(what)
  PROVE  OrdersInv'
<1> DEFINE e == [what |-> what, left |-> Wait, old |-> FALSE]
<1>1. e \in OrderKinds
  BY DEF OrderKinds, DeskMatters
<1>2. delayed' = Append(delayed, e) /\ game' = game /\ delayed \in Seq(OrderKinds) /\ e.old = FALSE
  BY DEF Desk!After, DeskInv, OrdersInv
<1> HIDE DEF e
<1>3. /\ delayed' \in Seq(OrderKinds) /\ Len(delayed') = Len(delayed) + 1 /\ Len(delayed) \in Nat
      /\ (\A i \in 1..Len(delayed) : delayed'[i] = delayed[i]) /\ delayed'[Len(delayed) + 1] = e
  BY <1>1, <1>2, AppendProperties
<1>4. ASSUME NEW i \in 1..Len(delayed'), game \in {"moh", "bfbc2", "hf"} PROVE ~delayed'[i].old
  <2>1. i \in 1..Len(delayed) \/ i = Len(delayed) + 1
    BY <1>3
  <2>2. \A k \in 1..Len(delayed) : ~delayed[k].old
    BY <1>4 DEF DeskInv, OrdersInv
  <2> QED
    BY <1>2, <1>3, <2>1, <2>2
<1> QED
  BY <1>2, <1>3, <1>4 DEF OrdersInv

\* What stays as it is while the server and what is known of it do.
LEMMA SameServer ==
  ASSUME DeskMatters, DeskInv, UNCHANGED <<server, game, loading, held, operator, told, lastIdle, wasIdle, asked, gaps>>
  PROVE  Runs(server)' /\ LinesInv' /\ GapsInv' /\ ListsInv' /\ Desk!NextIsAsked'
<1>1. Runs(server)'
  BY DEF DeskInv, Runs
<1>2. LinesInv' /\ GapsInv'
  <2>1. Runs(server') /\ server'.list = server.list /\ server.list \in Seq(Maps) /\ server'.saved = server.saved
    BY DEF DeskInv, Runs
  <2>2. GrowsTo(server.list, server'.list)
    BY <2>1, WithinItself
  <2>3. FollowsOn
    BY <2>2, GapsStay
  <2> QED
    BY <2>1, <2>3, LinesGoOn
<1>3. ListsInv'
  BY DEF DeskInv, ListsInv, Desk!ExclusionsComeBack, Desk!IdleComesBack
<1>4. Desk!NextIsAsked'
  BY DEF DeskInv, Desk!NextIsAsked
<1> QED
  BY <1>1, <1>2, <1>3, <1>4

LEMMA AnnounceKeeps ==
  ASSUME DeskMatters, DeskInv, NEW what \in {"cycle", "round", "reboot", "nuke"}, Desk!Announce(what)
  PROVE  DeskHolds
<1>1. OrdersInv'
  BY AfterKeeps DEF Desk!Announce
<1>2. UNCHANGED <<server, game, loading, held, operator, told, lastIdle, wasIdle, asked, gaps>>
  BY DEF Desk!Announce, Desk!After, Desk!history
<1>3. DeskTypes'
  BY DEF Desk!Announce, Desk!After, DeskInv, DeskTypes
<1> QED
  BY <1>1, <1>2, <1>3, SameServer DEF DeskHolds, DeskInv

\* The first place of a map that is in the rotation.
LEMMA FirstIs ==
  ASSUME NEW l \in Seq(Maps), NEW m, \E i \in 1..Len(l) : l[i] = m
  PROVE  LET i == CHOOSE i \in DOMAIN l : l[i] = m /\ \A j \in 1..(i - 1) : l[j] # m
         IN  i \in 1..Len(l) /\ l[i] = m
<1> DEFINE B == {i \in 1..Len(l) : l[i] = m}
<1>1. PICK n \in B : \A k \in B : n <= k
  <2>1. B \in SUBSET Nat /\ B # {}
    OBVIOUS
  <2> HIDE DEF B
  <2> QED
    BY <2>1, Smallest
<1>2. n \in DOMAIN l /\ l[n] = m
  OBVIOUS
<1>3. ASSUME NEW j \in 1..(n - 1) PROVE l[j] # m
  <2>1. j \in 1..Len(l) /\ ~(n <= j)
    OBVIOUS
  <2> QED
    BY <1>1, <2>1
<1> QED
  BY <1>2, <1>3

LEMMA MapReloadKeeps ==
  ASSUME DeskMatters, DeskInv, NEW arrives \in BOOLEAN, Desk!MapReload(arrives)
  PROVE  DeskHolds
<1> DEFINE map == server.list[server.now]
           i == CHOOSE i \in DOMAIN server.list :
                    server.list[i] = map /\ \A j \in 1..(i - 1) : server.list[j] # map
<1>1. OrdersInv'
  BY AfterKeeps DEF Desk!MapReload
<1>2. /\ UNCHANGED <<game, desk, on, loading, held, lastIdle, operator, wasIdle, told, gaps>>
      /\ lost' = lost + (IF arrives THEN 0 ELSE 1) /\ lost' <= MaxLost
      /\ server.now \in DOMAIN server.list
  BY DEF Desk!MapReload, Desk!After, Desk!Misses, Desk!Missed
<1>3. DeskTypes'
  BY <1>2 DEF DeskInv, DeskTypes, DeskMatters
<1>4. CASE arrives
  <2>1. server' = Desk!PointedAt(server, i) /\ asked' = {map}
    BY <1>4 DEF Desk!MapReload
  <2>2. server.list \in Seq(Maps) /\ Runs(server)
    BY DEF DeskInv, Runs
  <2>3. i \in 1..Len(server.list) /\ server.list[i] = map
    <3>1. \E k \in 1..Len(server.list) : server.list[k] = map
      BY <1>2, <2>2
    <3> QED
      BY <2>2, <3>1, FirstIs
  <2> HIDE DEF i, map
  <2>4. Turns(server, server') /\ server'.list = server.list /\ server'.next = i
    BY <2>1, <2>2, <2>3, PointedTurns
  <2>5. Runs(server)' /\ LinesInv' /\ GapsInv' /\ ListsInv'
    BY <1>2, <2>4, Turned, GapsStay DEF Turns
  <2>6. Desk!NextIsAsked'
    BY <2>1, <2>2, <2>3, <2>4 DEF Desk!NextIsAsked
  <2> QED
    BY <1>1, <1>3, <2>5, <2>6 DEF DeskHolds, DeskInv
<1>5. CASE ~arrives
  <2>1. UNCHANGED <<server, asked>>
    BY <1>5 DEF Desk!MapReload
  <2> QED
    BY <1>1, <1>2, <1>3, <2>1, SameServer DEF DeskHolds, DeskInv
<1> QED
  BY <1>4, <1>5

LEMMA AnnouncesKeep == ASSUME DeskMatters, DeskInv, Desk!Announces PROVE DeskHolds
  BY AnnounceKeeps, MapReloadKeeps
     DEF Desk!Announces, Desk!AnnounceBf3, Desk!MapRestart, Desk!AnnounceMoh, Desk!NextMap,
         Desk!RestartCod7, Desk!Nuke

LEMMA DeskCounts == \A S : Desk!Cardinality(S) = Cardinality(S)
  BY DEF Desk!Cardinality, Cardinality

LEMMA SomeAreDue ==
  ASSUME delayed \in Seq(OrderKinds), NEW done
  PROVE  Desk!Cardinality(Desk!Due \ done) \in Nat
<1>1. IsFiniteSet(1..Len(delayed))
  <2>1. 1 \in Int /\ Len(delayed) \in Int
    OBVIOUS
  <2> QED
    BY <2>1, FS_Interval
<1>2. Desk!Due \ done \subseteq 1..Len(delayed)
  BY DEF Desk!Due
<1>3. Cardinality(Desk!Due \ done) \in Nat
  BY <1>1, <1>2, FS_Subset, FS_CardinalityType
<1> QED
  BY <1>3, DeskCounts

LEMMA SomeAreSent ==
  ASSUME DeskMatters, loading \in 0..Desk!LinesOf, NEW heard
  PROVE  Desk!Cardinality(Desk!PassLines \ heard) \in Nat
<1>1. IsFiniteSet(Desk!PassLines)
  <2>1. Desk!SentBefore + 1 \in Int /\ Desk!SentNow \in Int
    BY LinesAre
  <2> QED
    BY <2>1, FS_Interval DEF Desk!PassLines
<1>2. Cardinality(Desk!PassLines \ heard) \in Nat
  BY <1>1, FS_Subset, FS_CardinalityType
<1> QED
  BY <1>2, DeskCounts

\* The gaps after a pass, in the file that is sent.
GapsOf(done, heard) ==
    (IF Desk!ClearAt \in Desk!PassLines THEN {}
     ELSE IF Desk!Does(done, "reboot") THEN Desk!BootedGaps.list ELSE gaps.list)
    \cup {Desk!PlaceOf(line) : line \in {l \in Desk!PassLines \ heard : Desk!Adds(l)}}

LEMMA GapsOfAre ==
  ASSUME DeskMatters, DeskInv, NEW done, NEW heard
  PROVE  /\ LostIn(GapsOf(done, heard), heard) /\ GapsOf(done, heard) \subseteq 1..Len(File)
         /\ Desk!ClearAt \notin Desk!PassLines =>
               /\ Desk!Does(done, "reboot") /\ loading # 0 =>
                     gaps.list \subseteq GapsOf(done, heard) /\ gaps.disk \subseteq GapsOf(done, heard)
               /\ ~Desk!Does(done, "reboot") => gaps.list \subseteq GapsOf(done, heard)
<1>1. gaps.list \subseteq 1..Len(File) /\ gaps.disk \subseteq 1..Len(File) /\ gaps = [list |-> gaps.list, disk |-> gaps.disk]
  BY DEF DeskInv, GapsInv
<1>2. Desk!BootedGaps.list = IF loading = 0 THEN {} ELSE gaps.list \cup gaps.disk
  BY <1>1 DEF Desk!BootedGaps
<1>3. \A l : Desk!Adds(l) => Desk!PlaceOf(l) \in 1..Len(File)
  BY DEF Desk!Adds, DeskMatters
<1>4. GapsOf(done, heard) \subseteq 1..Len(File)
  BY <1>1, <1>2, <1>3 DEF GapsOf
<1> QED
  BY <1>2, <1>4 DEF GapsOf, LostIn

LEMMA RunPendingKeeps ==
  ASSUME DeskMatters, DeskInv, NEW done \in SUBSET Desk!Due, NEW heard \in SUBSET Desk!PassLines,
         Desk!RunPending(done, heard)
  PROVE  DeskHolds
<1> DEFINE s == Desk!CarriedOut(done).then
           rest == Desk!CarriedOut(done).rest
           to == Desk!SentNow
           from == Desk!SentBefore
           G == GapsOf(done, heard)
<1>1. /\ Runs(server) /\ delayed \in Seq(OrderKinds) /\ loading \in 0..Desk!LinesOf
      /\ loading # 0 => Half(gaps.list, server.list, from)
      /\ server.list \in Seq(Maps) /\ server.saved \in Seq(Maps) /\ Whole(gaps.disk, server.saved)
      /\ gaps.disk \subseteq 1..Len(File)
  BY DEF DeskInv, OrdersInv, LinesInv, GapsInv, Runs
<1>2. PassIs(done, Len(delayed), Desk!CarriedOut(done))
  BY <1>1, PassEnds
<1>3. /\ server' = Desk!SendConfigLines(s, heard) /\ delayed' = rest /\ loading' = Desk!LinesOf - to
      /\ gaps' = [list |-> IF to = Desk!LinesOf THEN {} ELSE G,
                  disk |-> IF Desk!SaveAt \in heard THEN G ELSE gaps.disk]
      /\ asked' = IF Desk!Does(done, "cycle") \/ Desk!Does(done, "reboot") \/ 2 \in heard THEN {} ELSE asked
      /\ wasIdle' \in {wasIdle, 0}
      /\ UNCHANGED <<game, desk, on, held, lastIdle, operator, told>>
  BY DEF Desk!RunPending, Desk!ClearAt, Desk!GapsAfter, GapsOf
<1>4. /\ Runs(s) /\ LeavesBe(server, s) /\ s.saved = server.saved /\ s.list \in {server.list, server.saved}
      /\ ~Desk!Does(done, "cycle") /\ ~Desk!Does(done, "reboot") => s = server
      /\ ~Desk!Does(done, "reboot") => s.list = server.list
  <2>1. /\ Moves(done, Len(delayed), {"reboot"}) => Desk!Does(done, "reboot")
        /\ Moves(done, Len(delayed), {"cycle", "reboot"}) => Desk!Does(done, "reboot") \/ Desk!Does(done, "cycle")
    BY DEF Moves, Desk!Does
  <2> QED
    BY <1>2, <2>1 DEF PassIs, Left
<1>5. /\ from \in Nat /\ to \in Nat /\ to <= Desk!LinesOf /\ (loading = 0 => to = from)
      /\ Desk!LinesOf \in Nat /\ Desk!LinesOf - to \in 0..Desk!LinesOf
      /\ from = Desk!LinesOf - loading /\ Desk!ClearAt = 2 /\ Desk!PassLines = (from + 1)..to /\ from <= to
  BY <1>1, LinesAre DEF Desk!SentBefore, Desk!PassLines
<1>6. LostIn(G, heard) /\ G \subseteq 1..Len(File)
  BY GapsOfAre
<1>7. loading # 0 => Half(G, s.list, from)
  <2> HIDE DEF s, G, from, to
  <2>1. SUFFICES ASSUME loading # 0 PROVE Half(G, s.list, from)
    OBVIOUS
  <2>2. s.list \in Seq(Maps)
    BY <1>4 DEF Runs
  <2>3. CASE Desk!ClearAt \in Desk!PassLines
    <3>1. from <= 2
      BY <1>5, <2>3
    <3> QED
      BY <1>5, <2>2, <3>1, HalfAtFirst
  <2>4. CASE Desk!ClearAt \notin Desk!PassLines /\ Desk!Does(done, "reboot")
    <3>1. gaps.list \subseteq G /\ gaps.disk \subseteq G
      BY <2>1, <2>4, GapsOfAre DEF G
    <3> QED
      BY <1>1, <1>4, <1>5, <2>1, <3>1, HalfIsLess DEF from
  <2>5. CASE Desk!ClearAt \notin Desk!PassLines /\ ~Desk!Does(done, "reboot")
    <3>1. gaps.list \subseteq G /\ s.list = server.list
      BY <1>4, <2>5, GapsOfAre DEF G
    <3> QED
      BY <1>1, <1>5, <2>1, <3>1, HalfIsLess DEF from
  <2> QED
    BY <2>3, <2>4, <2>5
<1>8. LineIs(s, G, heard, to, server')
  <2> HIDE DEF s, G
  <2> QED
    BY <1>1, <1>3, <1>4, <1>6, <1>7, LinesLeave DEF from, to
<1>9. /\ Runs(server') /\ server'.disk = s.disk /\ server'.slots = s.slots /\ server'.excluded = s.excluded
      /\ loading # 0 => Half(G, server'.list, to)
      /\ IF Desk!SaveAt \in heard THEN Whole(G, server'.saved) ELSE server'.saved = s.saved
      /\ 2 \notin heard =>
            /\ server'.next = s.next /\ Len(s.list) <= Len(server'.list)
            /\ \A i \in 1..Len(s.list) : server'.list[i] = s.list[i]
  <2> HIDE DEF s, G, from, to
  <2>1. Desk!SaveAt \in heard => Desk!SaveAt <= to
    <3>1. Desk!SaveAt \in heard => Desk!SaveAt \in (from + 1)..to
      BY <1>5
    <3> QED
      BY <1>5, <3>1
  <2> QED
    BY <1>5, <1>8, <2>1 DEF LineIs, from
<1>10. LinesInv' /\ GapsInv'
  <2>1. Desk!LinesOf' = Desk!LinesOf
    BY <1>3 DEF Desk!LinesOf, Desk!ClearAt
  <2>2. Desk!SentBefore' = Desk!LinesOf - loading'
    BY <2>1 DEF Desk!SentBefore
  <2> HIDE DEF from, to, s, rest, G
  <2>3. Desk!SentBefore' = to
    BY <1>3, <1>5, <2>2
  <2>4. loading' # 0 => loading # 0 /\ to # Desk!LinesOf /\ gaps'.list = G
    BY <1>1, <1>3, <1>5
  <2>5. loading' # 0 => Half(gaps'.list, server'.list, to)
    BY <1>9, <2>4
  <2>6. Half(gaps.list, server.list, Desk!SentBefore)' <=> Half(gaps'.list, server'.list, to)
    BY <2>3 DEF Half, GrowsTo, Desk!Within
  <2>7. Whole(gaps.disk, server.saved)' <=> Whole(gaps'.disk, server'.saved)
    BY DEF Whole, GrowsTo, Desk!Within
  <2>8. gaps'.disk = IF Desk!SaveAt \in heard THEN G ELSE gaps.disk
    BY <1>3
  <2>9. Whole(gaps'.disk, server'.saved)
    BY <1>1, <1>4, <1>9, <2>8
  <2>10. /\ gaps' = [list |-> gaps'.list, disk |-> gaps'.disk]
         /\ gaps'.list \subseteq 1..Len(File) /\ gaps'.disk \subseteq 1..Len(File)
    BY <1>1, <1>3, <1>6
  <2> QED
    BY <1>3, <1>5, <2>1, <2>5, <2>6, <2>7, <2>9, <2>10 DEF LinesInv, GapsInv
<1>11. ListsInv'
  <2>1. LeavesBe(server, server')
    BY <1>4, <1>9 DEF LeavesBe
  <2> QED
    BY <1>3, <2>1, ListsGoOn
<1>12. Desk!NextIsAsked'
  <2>1. SUFFICES ASSUME NEW m \in asked' PROVE server'.list # <<>> /\ server'.list[server'.next] = m
    BY DEF Desk!NextIsAsked
  <2>2. m \in asked /\ ~Desk!Does(done, "cycle") /\ ~Desk!Does(done, "reboot") /\ 2 \notin heard
    BY <1>3, <2>1
  <2>3. s = server /\ server.list # <<>> /\ server.list[server.next] = m /\ server.next \in 1..Len(server.list)
    BY <1>1, <1>4, <2>2 DEF DeskInv, Desk!NextIsAsked, Runs
  <2>4. /\ server'.next = server.next /\ Len(server.list) <= Len(server'.list)
        /\ \A i \in 1..Len(server.list) : server'.list[i] = server.list[i]
    BY <1>9, <2>2, <2>3
  <2>5. server'.list # <<>>
    <3>1. Len(server.list) \in Nat /\ Len(server'.list) > 0
      BY <1>1, <2>3, <2>4
    <3> QED
      BY <3>1
  <2> QED
    BY <2>3, <2>4, <2>5
<1>13. OrdersInv'
  <2> HIDE DEF rest
  <2>1. /\ rest \in Seq(OrderKinds)
        /\ \A j \in 1..Len(rest) : \E i \in 1..Len(delayed) : rest[j] = delayed[i]
    BY <1>2 DEF PassIs, rest
  <2>2. game \in {"moh", "bfbc2", "hf"} => \A i \in 1..Len(delayed) : ~delayed[i].old
    BY DEF DeskInv, OrdersInv
  <2>3. game \in {"moh", "bfbc2", "hf"} => \A j \in 1..Len(rest) : ~rest[j].old
    BY <2>1, <2>2
  <2> QED
    BY <1>3, <2>1, <2>3 DEF OrdersInv
<1>14. DeskTypes'
  <2>1. Desk!Cardinality(Desk!Due \ done) \in Nat /\ Desk!Cardinality(Desk!PassLines \ heard) \in Nat
    BY <1>1, SomeAreDue, SomeAreSent
  <2>2. /\ lost' = lost + (Desk!Cardinality(Desk!Due \ done) + Desk!Cardinality(Desk!PassLines \ heard))
        /\ lost' <= MaxLost
    BY DEF Desk!RunPending, Desk!Misses
  <2>3. lost' \in 0..MaxLost
    BY <2>1, <2>2 DEF DeskInv, DeskTypes, DeskMatters
  <2> QED
    BY <1>3, <2>3 DEF DeskInv, DeskTypes
<1>15. Runs(server)'
  <2>1. Runs(server)' <=> Runs(server')
    BY DEF Runs
  <2> QED
    BY <1>9, <2>1
<1> QED
  BY <1>10, <1>11, <1>12, <1>13, <1>14, <1>15 DEF DeskHolds, DeskInv

LEMMA PassKeeps == ASSUME DeskMatters, DeskInv, Desk!Pass PROVE DeskHolds
  BY RunPendingKeeps DEF Desk!Pass

LEMMA SecondKeeps == ASSUME DeskMatters, DeskInv, Desk!Second PROVE DeskHolds
<1>1. /\ delayed' = [i \in DOMAIN delayed |-> [delayed[i] EXCEPT !.left = IF @ = 0 THEN 0 ELSE @ - 1]]
      /\ UNCHANGED <<game, desk, on, server, loading, held, lastIdle, lost, asked, operator, wasIdle, told, gaps>>
  BY DEF Desk!Second, Desk!history
<1>2. delayed \in Seq(OrderKinds) /\ Wait \in Nat
  BY DEF DeskInv, OrdersInv, DeskMatters
<1>3. Len(delayed) \in Nat /\ DOMAIN delayed = 1..Len(delayed)
  BY <1>2
<1>4. ASSUME NEW i \in 1..Len(delayed)
      PROVE  delayed'[i] \in OrderKinds /\ delayed'[i].old = delayed[i].old
  <2>1. delayed'[i] = [delayed[i] EXCEPT !.left = IF @ = 0 THEN 0 ELSE @ - 1]
    BY <1>1, <1>3
  <2>2. PICK what \in {"cycle", "round", "reboot", "nuke"}, left \in 0..Wait, old \in BOOLEAN :
            delayed[i] = [what |-> what, left |-> left, old |-> old]
    <3>1. delayed[i] \in OrderKinds
      BY <1>2, <1>3
    <3> QED
      BY <3>1 DEF OrderKinds
  <2>3. delayed'[i] = [what |-> what, left |-> IF left = 0 THEN 0 ELSE left - 1, old |-> old]
    BY <2>1, <2>2
  <2>4. (IF left = 0 THEN 0 ELSE left - 1) \in 0..Wait
    BY <1>2
  <2> QED
    BY <2>2, <2>3, <2>4 DEF OrderKinds
<1>5. delayed' \in [1..Len(delayed) -> OrderKinds]
  BY <1>1, <1>3, <1>4
<1>6. delayed' \in Seq(OrderKinds) /\ Len(delayed') = Len(delayed)
  BY <1>3, <1>5
<1>7. OrdersInv'
  BY <1>1, <1>4, <1>6 DEF DeskInv, OrdersInv
<1>8. DeskTypes'
  BY <1>1 DEF DeskInv, DeskTypes
<1> QED
  BY <1>1, <1>7, <1>8, SameServer DEF DeskHolds, DeskInv

-----------------------------------------------------------------------------
(* What the rotation does to it.                                               *)

LEMMA SomeAreLost ==
  ASSUME NEW S \in SUBSET {"put", "point"} PROVE Desk!Cardinality({"put", "point"} \ S) \in Nat
<1>1. IsFiniteSet({"put"})
  BY FS_Singleton
<1>2. IsFiniteSet({"put"} \cup {"point"})
  BY <1>1, FS_AddElement
<1>3. {"put", "point"} \ S \subseteq {"put"} \cup {"point"}
  OBVIOUS
<1>4. Cardinality({"put", "point"} \ S) \in Nat
  BY <1>2, <1>3, FS_Subset, FS_CardinalityType
<1> QED
  BY <1>4, DeskCounts

LEMMA LoadConfigKeeps == ASSUME DeskMatters, DeskInv, Desk!LoadConfig PROVE DeskHolds
<1>1. /\ loading' = Desk!LinesOf
      /\ UNCHANGED <<game, desk, on, server, delayed, held, lastIdle, lost, asked, operator, wasIdle, told, gaps>>
  BY DEF Desk!LoadConfig, Desk!history
<1>2. Desk!LinesOf' = Desk!LinesOf /\ Desk!LinesOf \in Nat
  BY <1>1 DEF Desk!LinesOf, Desk!ClearAt, DeskMatters
<1>3. Desk!SentBefore' = 0
  BY <1>1, <1>2 DEF Desk!SentBefore
<1>4. LinesInv'
  <2>1. Half(gaps.list, server.list, 0)'
    <3>1. Half(gaps.list, server.list, 0)
      BY HalfAtFirst DEF DeskInv, Runs
    <3> QED
      BY <1>1, <3>1 DEF Half, GrowsTo, Desk!Within
  <2> QED
    BY <1>1, <1>2, <1>3, <2>1 DEF LinesInv
<1>50. GapsInv'
  BY <1>1 DEF DeskInv, GapsInv, Whole, GrowsTo, Desk!Within
<1>5. Runs(server)' /\ GapsInv' /\ Desk!NextIsAsked' /\ ListsInv'
  BY <1>1, <1>50 DEF DeskInv, Runs, Desk!NextIsAsked, ListsInv, Desk!ExclusionsComeBack,
              Desk!IdleComesBack
<1>6. OrdersInv' /\ DeskTypes'
  BY <1>1 DEF DeskInv, OrdersInv, DeskTypes
<1> QED
  BY <1>4, <1>5, <1>6 DEF DeskHolds, DeskInv

\* Where only the server's rotation, and what is known of it, changes.
LEMMA TurnedKeeps ==
  ASSUME DeskMatters, DeskInv, Turns(server, server'), Desk!NextIsAsked', lost' \in 0..MaxLost,
         UNCHANGED <<game, desk, on, delayed, loading, held, lastIdle, operator, told, gaps>>,
         wasIdle' \in {wasIdle, 0}
  PROVE  DeskHolds
<1>1. Runs(server)' /\ LinesInv' /\ GapsInv' /\ ListsInv'
  BY Turned, GapsStay DEF Turns
<1>2. OrdersInv' /\ DeskTypes'
  BY DEF DeskInv, OrdersInv, DeskTypes
<1> QED
  BY <1>1, <1>2 DEF DeskHolds, DeskInv

LEMMA PointKeeps ==
  ASSUME DeskMatters, DeskInv, NEW m \in Maps, NEW i \in 1..(Len(server.list) + 1), NEW inserts \in BOOLEAN,
         NEW arrive \in SUBSET {"put", "point"},
         ~inserts => i \in 1..Len(server.list) /\ server.list[i] = m,
         Desk!Point(i, m, inserts, arrive)
  PROVE  DeskHolds
<1> DEFINE put == IF inserts /\ "put" \in arrive THEN Desk!Inserted(server, i, m) ELSE server
           missing == {"put", "point"} \ arrive
<1>1. /\ server' = IF "point" \in arrive THEN Desk!PointedAt(put, i) ELSE put
      /\ lost' = lost + Desk!Cardinality(missing) /\ lost' <= MaxLost
      /\ asked' = IF missing = {} THEN {m} ELSE {}
      /\ UNCHANGED <<game, desk, on, delayed, loading, held, lastIdle, operator, told, wasIdle, gaps>>
  BY DEF Desk!Point, Desk!plugin, Desk!Misses
<1>2. lost' \in 0..MaxLost
  <2>1. Desk!Cardinality(missing) \in Nat
    BY SomeAreLost
  <2> HIDE DEF missing
  <2> QED
    BY <1>1, <2>1 DEF DeskInv, DeskTypes, DeskMatters
<1>3. Runs(server) /\ i \in Nat /\ server.list \in Seq(Maps)
  BY DEF DeskInv, Runs
<1>4. /\ Runs(put) /\ LeavesBe(server, put) /\ put.saved = server.saved /\ GrowsTo(server.list, put.list)
      /\ (inserts => "put" \in arrive) => i \in 1..Len(put.list) /\ put.list[i] = m
  <2>1. CASE inserts /\ "put" \in arrive
    <3>1. put = Desk!Inserted(server, i, m)
      BY <2>1
    <3> HIDE DEF put
    <3> QED
      BY <1>3, <3>1, InsertedTurns DEF Turns
  <2>2. CASE ~(inserts /\ "put" \in arrive)
    <3>1. put = server
      BY <2>2
    <3>2. GrowsTo(server.list, server.list)
      BY <1>3, WithinItself
    <3> HIDE DEF put
    <3> QED
      BY <1>3, <2>2, <3>1, <3>2 DEF LeavesBe
  <2> QED
    BY <2>1, <2>2
<1> HIDE DEF put
<1>5. /\ Turns(put, server') /\ server'.list = put.list
      /\ "point" \in arrive /\ i \in 1..Len(put.list) => server'.next = i
  <2>1. CASE "point" \in arrive
    <3>1. server' = Desk!PointedAt(put, i)
      BY <1>1, <2>1
    <3> QED
      BY <1>3, <1>4, <3>1, PointedTurns
  <2>2. CASE "point" \notin arrive
    <3>1. server' = put
      BY <1>1, <2>2
    <3>2. LeavesBe(put, put)
      BY DEF LeavesBe
    <3> QED
      BY <1>4, <2>2, <3>1, <3>2, TurnsIfSame
  <2> QED
    BY <2>1, <2>2
<1>6. Turns(server, server')
  BY <1>3, <1>4, <1>5, TurnsOn
<1>7. Desk!NextIsAsked'
  <2>1. SUFFICES ASSUME NEW n \in asked' PROVE server'.list # <<>> /\ server'.list[server'.next] = n
    BY DEF Desk!NextIsAsked
  <2>2. n = m /\ "put" \in arrive /\ "point" \in arrive
    BY <1>1, <2>1
  <2>3. i \in 1..Len(put.list) /\ put.list[i] = m
    BY <1>4, <2>2
  <2>4. server'.next = i /\ server'.list = put.list
    BY <1>5, <2>2, <2>3
  <2> QED
    BY <2>2, <2>3, <2>4
<1> QED
  BY <1>1, <1>2, <1>6, <1>7, TurnedKeeps

LEMMA SetNextBf3LeavesBe ==
  ASSUME DeskMatters, DeskInv, NEW m \in Maps, NEW knows \in BOOLEAN, NEW arrive \in SUBSET {"put", "point"},
         Desk!SetNextBf3(m, knows, arrive)
  PROVE  DeskHolds
<1> DEFINE i == Desk!IndexBf3(knows)
<1>1. server.list \in Seq(Maps) /\ server.list # <<>> /\ server.now \in 1..Len(server.list)
  <2>1. server.list # <<>> /\ server.list \in Seq(Maps)
    BY DEF Desk!SetNextBf3, Desk!Contains, DeskInv, Runs
  <2> QED
    BY <2>1 DEF DeskInv, Runs
<1>2. i \in 1..(Len(server.list) + 1)
  BY <1>1 DEF Desk!IndexBf3
<1>3. Desk!Point(i, m, TRUE, arrive)
  BY DEF Desk!SetNextBf3
<1> HIDE DEF i
<1> QED
  BY <1>2, <1>3, PointKeeps

LEMMA SetNextFlatKeeps ==
  ASSUME DeskMatters, DeskInv, NEW m \in Maps, NEW read \in BOOLEAN, NEW knows \in BOOLEAN,
         NEW arrive \in SUBSET {"put", "point"}, Desk!SetNextFlat(m, read, knows, arrive)
  PROVE  DeskHolds
<1>1. server.list \in Seq(Maps)
  BY DEF DeskInv, Runs
<1>2. CASE read
  <2> DEFINE i == Desk!FirstOf(m)
  <2>1. Desk!Contains(server.list, m) /\ Desk!Point(i, m, FALSE, arrive)
    BY <1>2 DEF Desk!SetNextFlat
  <2>2. \E k \in 1..Len(server.list) : server.list[k] = m
    BY <2>1 DEF Desk!Contains
  <2>3. i \in 1..Len(server.list) /\ server.list[i] = m
    BY <1>1, <2>2, FirstIs DEF Desk!FirstOf
  <2> HIDE DEF i
  <2>4. i \in 1..(Len(server.list) + 1)
    BY <1>1, <2>3
  <2> QED
    BY <2>1, <2>3, <2>4, PointKeeps
<1>3. CASE ~read
  <2> DEFINE i == Desk!NextIndex(knows, 0)
  <2>1. Desk!Point(i, m, TRUE, arrive)
    BY <1>3 DEF Desk!SetNextFlat
  <2>2. i \in 1..(Len(server.list) + 1)
    <3>1. Len(server.list) \in Nat /\ (i = server.next \/ i = 1)
      BY <1>1 DEF Desk!NextIndex
    <3>2. server.next = 1 \/ server.next \in 1..Len(server.list)
      BY DEF DeskInv, Runs
    <3> HIDE DEF i
    <3> QED
      BY <3>1, <3>2
  <2> HIDE DEF i
  <2> QED
    BY <2>1, <2>2, PointKeeps
<1> QED
  BY <1>2, <1>3

LEMMA SetsNextKeeps == ASSUME DeskMatters, DeskInv, Desk!SetsNext PROVE DeskHolds
  BY SetNextBf3LeavesBe, SetNextFlatKeeps DEF Desk!SetsNext

LEMMA NobodyAsked == ASSUME asked' = {} PROVE Desk!NextIsAsked'
  BY DEF Desk!NextIsAsked

LEMMA MapListKeeps == ASSUME DeskMatters, DeskInv, Desk!MapList PROVE DeskHolds
<1> DEFINE t == [server EXCEPT !.list = server.saved]
           n == Desk!Following(t, 1)
<1>1. /\ server' = [server EXCEPT !.list = server.saved, !.now = 1, !.next = n] /\ asked' = {}
      /\ UNCHANGED <<game, desk, on, delayed, loading, held, lastIdle, lost, operator, wasIdle, told, gaps>>
  BY DEF Desk!MapList, Desk!plugin
<1>2. server.saved \in Seq(Maps) /\ Runs(server) /\ game # "bf3"
  BY DEF DeskInv, Runs, Desk!MapList, Desk!Is
<1>3. t.list = server.saved
  BY <1>2 DEF Runs
<1>4. IF server.saved = <<>> THEN n = 1 ELSE n \in 1..Len(server.saved) /\ 1 \in 1..Len(server.saved)
  <2> HIDE DEF t
  <2>1. CASE server.saved = <<>>
    BY <1>3, <2>1 DEF Desk!Following
  <2>2. CASE server.saved # <<>>
    BY <1>2, <1>3, <2>2, FollowingIsPlaced
  <2> QED
    BY <2>1, <2>2
<1> HIDE DEF t, n
<1>5. server' = [list |-> server.saved, now |-> 1, next |-> n, saved |-> server.saved, slots |-> server.slots,
                 disk |-> server.disk, idle |-> server.idle, excluded |-> server.excluded]
  BY <1>1, <1>2 DEF Runs
<1>6. Runs(server') /\ LeavesBe(server, server') /\ server'.saved = server.saved
  BY <1>2, <1>4, <1>5 DEF Runs, LeavesBe
<1>7. FollowsOn
  BY <1>1, <1>2 DEF FollowsOn, DeskInv, GapsInv
<1>8. Runs(server)' /\ LinesInv' /\ GapsInv' /\ ListsInv'
  BY <1>1, <1>6, <1>7, Turned
<1>9. OrdersInv' /\ DeskTypes' /\ Desk!NextIsAsked'
  BY <1>1, NobodyAsked DEF DeskInv, OrdersInv, DeskTypes
<1> QED
  BY <1>8, <1>9 DEF DeskHolds, DeskInv

LEMMA MapEndTurns ==
  ASSUME NEW s, Runs(s)
  PROVE  Turns(s, Desk!MapEnd(s))
  BY MapEndRuns, TurnsIfSame

LEMMA MapEndsKeep == ASSUME DeskMatters, DeskInv, Desk!MapEnds PROVE DeskHolds
<1>1. /\ server' = Desk!MapEnd(server) /\ asked' = {}
      /\ UNCHANGED <<game, desk, on, delayed, loading, held, lastIdle, lost, operator, wasIdle, told, gaps>>
  BY DEF Desk!MapEnds, Desk!plugin
<1>2. Runs(server) /\ lost' \in 0..MaxLost
  BY <1>1 DEF DeskInv, DeskTypes
<1> QED
  BY <1>1, <1>2, MapEndTurns, NobodyAsked, TurnedKeeps

LEMMA ChangeMapKeeps ==
  ASSUME DeskMatters, DeskInv, NEW m \in Maps, NEW knows \in BOOLEAN, NEW n \in 1..3,
         Desk!ChangeMap(m, knows, n)
  PROVE  DeskHolds
<1> DEFINE i == Desk!IndexOfMap(knows)
           put == Desk!Inserted(server, i, m)
           at == Desk!PointedAt(put, i)
<1>1. /\ n = 1 => server' = put
      /\ n = 2 => server' = at
      /\ n = 3 => server' = Desk!MapEnd(at)
      /\ asked' = {}
      /\ lost' = lost + ((IF n < 3 THEN 1 ELSE 0) + (IF knows THEN 0 ELSE 1)) /\ lost' <= MaxLost
      /\ UNCHANGED <<game, desk, on, delayed, loading, held, lastIdle, operator, wasIdle, told, gaps>>
  BY DEF Desk!ChangeMap, Desk!plugin, Desk!Misses, Desk!Missed
<1>2. Runs(server) /\ lost' \in 0..MaxLost
  BY <1>1 DEF DeskInv, DeskTypes, DeskMatters
<1>3. i \in Nat /\ server.list \in Seq(Maps)
  BY <1>2 DEF Desk!IndexOfMap, Runs
<1> HIDE DEF i
<1>4. /\ Runs(put) /\ LeavesBe(server, put) /\ put.saved = server.saved /\ GrowsTo(server.list, put.list)
  <2>1. CASE i \in 1..(Len(server.list) + 1)
    BY <1>2, <1>3, <2>1, InsertedTurns DEF Turns
  <2>2. CASE i = 0
    <3>1. FALSE
      BY <1>2, <2>2 DEF i, Desk!IndexOfMap, Runs
    <3> QED
      BY <3>1
  <2>3. CASE i > Len(server.list) + 1
    <3>1. put = server
      BY <1>3, <2>3 DEF Desk!Inserted
    <3>2. GrowsTo(server.list, server.list)
      BY <1>3, WithinItself
    <3> QED
      BY <1>2, <3>1, <3>2 DEF LeavesBe
  <2> QED
    BY <1>3, <2>1, <2>2, <2>3
<1> HIDE DEF put
<1>5. Turns(put, at) /\ Runs(at) /\ at.list = put.list /\ at.saved = put.saved /\ LeavesBe(put, at)
  BY <1>3, <1>4, PointedTurns DEF Turns
<1> HIDE DEF at
<1>6. LeavesBe(server, at) /\ GrowsTo(server.list, at.list) /\ at.saved = server.saved
  BY <1>4, <1>5 DEF LeavesBe
<1>7. Turns(server, server')
  <2>1. CASE n = 1
    BY <1>1, <1>4, <2>1 DEF Turns
  <2>2. CASE n = 2
    BY <1>1, <1>5, <1>6, <2>2 DEF Turns
  <2>3. CASE n = 3
    <3>1. Turns(at, server')
      BY <1>1, <1>5, <2>3, MapEndTurns
    <3> QED
      BY <1>2, <1>5, <1>6, <3>1, TurnsOn
  <2> QED
    BY <2>1, <2>2, <2>3
<1> QED
  BY <1>1, <1>2, <1>7, NobodyAsked, TurnedKeeps

LEMMA TurnsMapsKeep == ASSUME DeskMatters, DeskInv, Desk!TurnsMaps PROVE DeskHolds
  BY LoadConfigKeeps, MapListKeeps, MapEndsKeep, ChangeMapKeeps DEF Desk!TurnsMaps

-----------------------------------------------------------------------------
(* What the lists do to it, and what is switched off and on.                    *)

\* The lists leave the rotation alone.
LEMMA ListedKeeps ==
  ASSUME DeskMatters, DeskInv, NEW slots \in SUBSET Players, NEW disk \in SUBSET Players, NEW idle,
         NEW excluded \in SUBSET Maps, UNCHANGED <<game, loading, asked, gaps>>,
         server' = [list |-> server.list, now |-> server.now, next |-> server.next,
                    saved |-> server.saved, slots |-> slots, disk |-> disk, idle |-> idle,
                    excluded |-> excluded]
  PROVE  Runs(server)' /\ LinesInv' /\ GapsInv' /\ Desk!NextIsAsked'
<1>1. Runs(server') /\ server'.list = server.list /\ server.list \in Seq(Maps) /\ server'.saved = server.saved
  BY DEF DeskInv, Runs
<1>2. GrowsTo(server.list, server'.list)
  BY <1>1, WithinItself
<1>3. LinesInv' /\ GapsInv'
  BY <1>1, <1>2, GapsStay, LinesGoOn
<1>4. Runs(server)' <=> Runs(server')
  BY DEF Runs
<1>5. Desk!NextIsAsked'
  BY DEF DeskInv, Desk!NextIsAsked
<1> QED
  BY <1>1, <1>3, <1>4, <1>5

LEMMA ServerIs ==
  ASSUME DeskInv
  PROVE  /\ server = [list |-> server.list, now |-> server.now, next |-> server.next,
                      saved |-> server.saved, slots |-> server.slots, disk |-> server.disk,
                      idle |-> server.idle, excluded |-> server.excluded]
         /\ server.slots \in SUBSET Players /\ server.disk \in SUBSET Players
         /\ server.excluded \in SUBSET Maps
  BY DEF DeskInv, Runs

LEMMA ExcludedIs ==
  ASSUME DeskInv, NEW S, server' = [server EXCEPT !.excluded = S]
  PROVE  server' = [list |-> server.list, now |-> server.now, next |-> server.next,
                    saved |-> server.saved, slots |-> server.slots, disk |-> server.disk,
                    idle |-> server.idle, excluded |-> S]
  BY ServerIs

LEMMA SetMapKeeps ==
  ASSUME DeskMatters, DeskInv, NEW m \in Maps, NEW answered \in BOOLEAN, NEW arrives \in BOOLEAN,
         Desk!SetMap(m, answered, arrives)
  PROVE  DeskHolds
<1> DEFINE excluded == IF arrives THEN Maps \ {m} ELSE server.excluded
<1>1. /\ held' = (IF held # {} THEN held ELSE {IF answered THEN server.excluded ELSE {}})
      /\ lost' = lost + ((IF answered THEN 0 ELSE 1) + (IF arrives THEN 0 ELSE 1)) /\ lost' <= MaxLost
      /\ server' = [server EXCEPT !.excluded = excluded]
      /\ operator' = IF answered \/ held # {} THEN operator ELSE {}
      /\ UNCHANGED <<game, desk, on, delayed, loading, lastIdle, asked, wasIdle, told, gaps>>
  <2>1. server' = IF arrives THEN [server EXCEPT !.excluded = Maps \ {m}] ELSE server
    BY DEF Desk!SetMap
  <2>2. server' = [server EXCEPT !.excluded = excluded]
    BY <2>1, ServerIs
  <2> HIDE DEF excluded
  <2> QED
    BY <2>2 DEF Desk!SetMap, Desk!Kept, Desk!Misses, Desk!Missed
<1>2. excluded \in SUBSET Maps /\ server.excluded \in SUBSET Maps
  BY ServerIs
<1> HIDE DEF excluded
<1>3. Runs(server)' /\ LinesInv' /\ GapsInv' /\ Desk!NextIsAsked'
  BY <1>1, <1>2, ExcludedIs, ServerIs, ListedKeeps
<1>4. server'.slots = server.slots /\ server'.disk = server.disk
  BY <1>1, ExcludedIs
<1>5. ListsInv'
  <2>1. held' # {} /\ held' \subseteq SUBSET Maps /\ (\E S \in held' : held' = {S})
    BY <1>1, <1>2 DEF DeskInv, ListsInv
  <2>2. \A S \in operator' : held' = {S}
    <3>1. CASE held # {}
      BY <1>1, <3>1 DEF DeskInv, ListsInv, Desk!ExclusionsComeBack
    <3>2. CASE held = {} /\ answered
      BY <1>1, <3>2 DEF DeskInv, ListsInv, Desk!ExclusionsComeBack
    <3>3. CASE held = {} /\ ~answered
      BY <1>1, <3>3
    <3> QED
      BY <3>1, <3>2, <3>3
  <2>3. Desk!ExclusionsComeBack'
    BY <2>1, <2>2 DEF Desk!ExclusionsComeBack
  <2> QED
    BY <1>1, <1>4, <2>1, <2>3 DEF DeskInv, ListsInv, Desk!IdleComesBack
<1>6. OrdersInv' /\ DeskTypes'
  BY <1>1 DEF DeskInv, OrdersInv, DeskTypes, DeskMatters
<1> QED
  BY <1>3, <1>5, <1>6 DEF DeskHolds, DeskInv

LEMMA ExcludeMapsKeeps ==
  ASSUME DeskMatters, DeskInv, NEW S \in SUBSET Maps, NEW arrives \in BOOLEAN, Desk!ExcludeMaps(S, arrives)
  PROVE  DeskHolds
<1> DEFINE excluded == IF arrives THEN S ELSE server.excluded
<1>1. /\ server' = [server EXCEPT !.excluded = excluded] /\ held' = {}
      /\ operator' = IF arrives THEN {S} ELSE {}
      /\ lost' = lost + (IF arrives THEN 0 ELSE 1) /\ lost' <= MaxLost
      /\ UNCHANGED <<game, desk, on, delayed, loading, lastIdle, asked, wasIdle, told, gaps>>
  <2>1. server' = IF arrives THEN [server EXCEPT !.excluded = S] ELSE server
    BY DEF Desk!ExcludeMaps
  <2>2. server' = [server EXCEPT !.excluded = excluded]
    BY <2>1, ServerIs
  <2> HIDE DEF excluded
  <2> QED
    BY <2>2 DEF Desk!ExcludeMaps, Desk!Misses, Desk!Missed
<1>2. excluded \in SUBSET Maps /\ (arrives => excluded = S)
  BY ServerIs
<1> HIDE DEF excluded
<1>3. Runs(server)' /\ LinesInv' /\ GapsInv' /\ Desk!NextIsAsked'
  BY <1>1, <1>2, ExcludedIs, ServerIs, ListedKeeps
<1>4. server'.slots = server.slots /\ server'.disk = server.disk /\ server'.excluded = excluded
  BY <1>1, ExcludedIs
<1>5. ListsInv'
  BY <1>1, <1>2, <1>4 DEF DeskInv, ListsInv, Desk!ExclusionsComeBack, Desk!IdleComesBack
<1>6. OrdersInv' /\ DeskTypes'
  BY <1>1 DEF DeskInv, OrdersInv, DeskTypes, DeskMatters
<1> QED
  BY <1>3, <1>5, <1>6 DEF DeskHolds, DeskInv

LEMMA RestoreKeeps ==
  ASSUME DeskMatters, DeskInv, NEW arrives \in BOOLEAN, Desk!RestoreExclusions(arrives),
         UNCHANGED <<game, loading, lastIdle>>
  PROVE  /\ Runs(server)' /\ LinesInv' /\ GapsInv' /\ ListsInv' /\ Desk!NextIsAsked'
         /\ lost' \in 0..MaxLost
<1>1. /\ held' = {} /\ (held = {} => arrives)
      /\ server' = IF held # {} /\ arrives THEN [server EXCEPT !.excluded = CHOOSE S \in held : TRUE]
                   ELSE server
      /\ operator' = IF arrives THEN operator ELSE {}
      /\ lost' = lost + (IF arrives THEN 0 ELSE 1) /\ lost' <= MaxLost
      /\ UNCHANGED <<asked, wasIdle, told, gaps>>
  BY DEF Desk!RestoreExclusions, Desk!Misses, Desk!Missed
<1>2. lost' \in 0..MaxLost
  BY <1>1 DEF DeskInv, DeskTypes, DeskMatters
<1>3. CASE held = {}
  <2>1. server' = server /\ held' = held /\ operator' = operator
    BY <1>1, <1>3
  <2> QED
    BY <1>1, <1>2, <2>1, SameServer
<1>4. CASE held # {} /\ ~arrives
  <2>1. server' = [server EXCEPT !.excluded = server.excluded] /\ operator' = {} /\ held' = {}
    BY <1>1, <1>4, ServerIs
  <2>2. Runs(server)' /\ LinesInv' /\ GapsInv' /\ Desk!NextIsAsked'
    BY <1>1, <2>1, ExcludedIs, ServerIs, ListedKeeps
  <2>3. server'.slots = server.slots /\ server'.disk = server.disk
    BY <2>1, ExcludedIs
  <2>4. ListsInv'
    BY <1>1, <2>1, <2>3 DEF DeskInv, ListsInv, Desk!ExclusionsComeBack, Desk!IdleComesBack
  <2> QED
    BY <1>2, <2>2, <2>4
<1>5. CASE held # {} /\ arrives
  <2>1. PICK S \in SUBSET Maps : held = {S}
    BY <1>5 DEF DeskInv, ListsInv
  <2>2. server' = [server EXCEPT !.excluded = S] /\ operator' = operator
    <3>1. (CHOOSE T \in held : TRUE) = S
      BY <2>1
    <3> QED
      BY <1>1, <1>5, <3>1
  <2>3. Runs(server)' /\ LinesInv' /\ GapsInv' /\ Desk!NextIsAsked'
    BY <1>1, <2>2, ExcludedIs, ServerIs, ListedKeeps
  <2>4. server'.slots = server.slots /\ server'.disk = server.disk /\ server'.excluded = S
    BY <2>2, ExcludedIs
  <2>5. \A T \in operator : T = S
    BY <1>5, <2>1 DEF DeskInv, ListsInv, Desk!ExclusionsComeBack
  <2>6. Desk!ExclusionsComeBack'
    BY <1>1, <2>2, <2>4, <2>5 DEF Desk!ExclusionsComeBack
  <2>7. ListsInv'
    BY <1>1, <2>4, <2>6 DEF DeskInv, ListsInv, Desk!IdleComesBack
  <2> QED
    BY <1>2, <2>3, <2>7
<1> QED
  BY <1>3, <1>4, <1>5

LEMMA RoundStartKeeps ==
  ASSUME DeskMatters, DeskInv, NEW arrives \in BOOLEAN, Desk!RoundStart(arrives)
  PROVE  DeskHolds
<1>1. /\ Desk!RestoreExclusions(arrives)
      /\ UNCHANGED <<game, desk, on, delayed, loading, lastIdle>>
  BY DEF Desk!RoundStart
<1>2. /\ Runs(server)' /\ LinesInv' /\ GapsInv' /\ ListsInv' /\ Desk!NextIsAsked'
      /\ lost' \in 0..MaxLost
  BY <1>1, RestoreKeeps
<1>3. OrdersInv' /\ DeskTypes'
  BY <1>1, <1>2 DEF DeskInv, OrdersInv, DeskTypes
<1> QED
  BY <1>2, <1>3 DEF DeskHolds, DeskInv

LEMMA VipsKeep == ASSUME DeskMatters, DeskInv, Desk!Vips PROVE DeskHolds
<1>1. /\ UNCHANGED <<game, desk, on, delayed, loading, held, lastIdle, lost, asked, operator, wasIdle, told, gaps>>
      /\ game # "moh"
  BY DEF Desk!Vips, Desk!plugin, Desk!history, Desk!Is
<1>2. PICK slots \in SUBSET Players, disk \in SUBSET Players :
          server' = [list |-> server.list, now |-> server.now, next |-> server.next,
                     saved |-> server.saved, slots |-> slots, disk |-> disk, idle |-> server.idle,
                     excluded |-> server.excluded]
  <2>1. CASE \E p \in Players : \E S \in {server.slots \cup {p}, server.slots \ {p}, {}} :
                 server' = [server EXCEPT !.slots = S]
    <3>1. PICK S \in SUBSET Players : server' = [server EXCEPT !.slots = S]
      BY <2>1, ServerIs
    <3> QED
      BY <3>1, ServerIs
  <2>2. CASE server' = [server EXCEPT !.slots = server.disk]
    BY <2>2, ServerIs
  <2>3. CASE server' = [server EXCEPT !.disk = server.slots]
    BY <2>3, ServerIs
  <2> QED
    BY <2>1, <2>2, <2>3 DEF Desk!Vips
<1>3. Runs(server)' /\ LinesInv' /\ GapsInv' /\ Desk!NextIsAsked'
  BY <1>1, <1>2, ServerIs, ListedKeeps
<1>4. ListsInv'
  <2>1. told = {} /\ server'.excluded = server.excluded
    BY <1>1, <1>2 DEF DeskInv, ListsInv
  <2> QED
    BY <1>1, <2>1 DEF DeskInv, ListsInv, Desk!ExclusionsComeBack, Desk!IdleComesBack
<1>5. OrdersInv' /\ DeskTypes'
  BY <1>1 DEF DeskInv, OrdersInv, DeskTypes
<1> QED
  BY <1>3, <1>4, <1>5 DEF DeskHolds, DeskInv

LEMMA IdleIs ==
  ASSUME DeskMatters, DeskInv, NEW idle, server' = [server EXCEPT !.idle = idle],
         UNCHANGED <<game, desk, on, delayed, loading, held, asked, operator, told, gaps>>,
         lost' \in 0..MaxLost, Desk!IdleComesBack'
  PROVE  DeskHolds
<1>1. server' = [list |-> server.list, now |-> server.now, next |-> server.next,
                 saved |-> server.saved, slots |-> server.slots, disk |-> server.disk,
                 idle |-> idle, excluded |-> server.excluded]
  BY ServerIs
<1>2. Runs(server)' /\ LinesInv' /\ GapsInv' /\ Desk!NextIsAsked'
  BY <1>1, ServerIs, ListedKeeps
<1>3. server'.slots = server.slots /\ server'.disk = server.disk /\ server'.excluded = server.excluded
  BY <1>1
<1>4. ListsInv'
  BY <1>3 DEF DeskInv, ListsInv, Desk!ExclusionsComeBack
<1>5. OrdersInv' /\ DeskTypes'
  BY DEF DeskInv, OrdersInv, DeskTypes
<1> QED
  BY <1>2, <1>4, <1>5 DEF DeskHolds, DeskInv

LEMMA IdleOffKeeps ==
  ASSUME DeskMatters, DeskInv, NEW answered \in BOOLEAN, NEW arrives \in BOOLEAN,
         Desk!IdleOff(answered, arrives)
  PROVE  DeskHolds
<1> DEFINE idle == IF arrives THEN 0 ELSE server.idle
<1>1. /\ lost' = lost + ((IF answered THEN 0 ELSE 1) + (IF arrives THEN 0 ELSE 1)) /\ lost' <= MaxLost
      /\ lastIdle' = (IF answered /\ server.idle # 0 THEN server.idle ELSE lastIdle)
      /\ server' = [server EXCEPT !.idle = idle]
      /\ wasIdle' = (IF server.idle = 0 THEN wasIdle
                     ELSE IF arrives /\ answered THEN server.idle ELSE 0)
      /\ UNCHANGED <<game, desk, on, delayed, loading, held, asked, operator, told, gaps>>
  <2>1. server' = IF arrives THEN [server EXCEPT !.idle = 0] ELSE server
    BY DEF Desk!IdleOff
  <2>2. server' = [server EXCEPT !.idle = idle]
    BY <2>1, ServerIs
  <2> HIDE DEF idle
  <2> QED
    BY <2>2 DEF Desk!IdleOff, Desk!IdleKept, Desk!Misses, Desk!Missed
<1> HIDE DEF idle
<1>2. lost' \in 0..MaxLost
  BY <1>1 DEF DeskInv, DeskTypes, DeskMatters
<1>3. Desk!IdleComesBack'
  BY <1>1 DEF DeskInv, ListsInv, Desk!IdleComesBack
<1> QED
  BY <1>1, <1>2, <1>3, IdleIs

LEMMA IdleOnKeeps ==
  ASSUME DeskMatters, DeskInv, NEW seconds, Desk!IdleOn(seconds)
  PROVE  DeskHolds
<1>1. /\ server' = [server EXCEPT !.idle = seconds] /\ wasIdle' = 0
      /\ UNCHANGED <<game, desk, on, delayed, loading, held, lastIdle, lost, asked, operator, told, gaps>>
  BY DEF Desk!IdleOn, Desk!plugin
<1>2. lost' \in 0..MaxLost /\ Desk!IdleComesBack'
  BY <1>1 DEF DeskInv, DeskTypes, Desk!IdleComesBack
<1> QED
  BY <1>1, <1>2, IdleIs

LEMMA StepsAreLost ==
  ASSUME NEW S \in SUBSET Desk!Steps PROVE Desk!Cardinality(Desk!Steps \ S) \in Nat
<1>1. IsFiniteSet({"load"})
  BY FS_Singleton
<1>2. IsFiniteSet({"load"} \cup {"change"})
  BY <1>1, FS_AddElement
<1>3. IsFiniteSet(({"load"} \cup {"change"}) \cup {"save"})
  BY <1>2, FS_AddElement
<1>4. Desk!Steps \ S \subseteq ({"load"} \cup {"change"}) \cup {"save"}
  BY DEF Desk!Steps
<1>5. Cardinality(Desk!Steps \ S) \in Nat
  BY <1>3, <1>4, FS_Subset, FS_CardinalityType
<1> QED
  BY <1>5, DeskCounts

LEMMA ReserveSlotKeeps ==
  ASSUME DeskMatters, DeskInv, NEW p \in Players, NEW arrive \in SUBSET Desk!Steps,
         Desk!ReserveSlot(p, arrive)
  PROVE  DeskHolds
<1> DEFINE before == IF "load" \in arrive THEN server.disk ELSE server.slots
           wanted == IF p \in before THEN before \ {p} ELSE before \cup {p}
           after == IF "change" \in arrive THEN wanted ELSE before
           written == IF "save" \in arrive THEN after ELSE server.disk
           read == IF "load" \in arrive THEN [server EXCEPT !.slots = server.disk] ELSE server
           changed == IF "change" \in arrive THEN [read EXCEPT !.slots = wanted] ELSE read
           Is(slots, disk) == [list |-> server.list, now |-> server.now, next |-> server.next,
                               saved |-> server.saved, slots |-> slots, disk |-> disk,
                               idle |-> server.idle, excluded |-> server.excluded]
<1>1. read = Is(before, server.disk)
  BY ServerIs
<1>2. read.slots = before
  BY <1>1
<1>3. /\ game = "moh"
      /\ lost' = lost + Desk!Cardinality(Desk!Steps \ arrive) /\ lost' <= MaxLost
      /\ server' = Desk!SlotsWrite(read, wanted, arrive)
      /\ told' = (IF p \in before THEN told \ {p} ELSE IF arrive = Desk!Steps THEN told \cup {p} ELSE told)
      /\ UNCHANGED <<game, desk, on, delayed, loading, held, lastIdle, asked, operator, wasIdle, gaps>>
  <2> HIDE DEF before
  <2>1. /\ Desk!Is({"moh"})
        /\ lost' = lost + Desk!Cardinality(Desk!Steps \ arrive) /\ lost' <= MaxLost
        /\ server' = Desk!SlotsWrite(read, IF p \in read.slots THEN read.slots \ {p} ELSE read.slots \cup {p}, arrive)
        /\ told' = (IF p \in read.slots THEN told \ {p} ELSE IF arrive = Desk!Steps THEN told \cup {p} ELSE told)
        /\ UNCHANGED <<game, desk, on, delayed, loading, held, lastIdle, asked, operator, wasIdle, gaps>>
    BY DEF Desk!ReserveSlot, Desk!plugin, Desk!Misses
  <2> QED
    BY <1>2, <2>1 DEF Desk!Is
<1>4. server' = IF "save" \in arrive THEN [changed EXCEPT !.disk = changed.slots] ELSE changed
  BY <1>3 DEF Desk!SlotsWrite
<1> HIDE DEF read
<1>5. changed = Is(after, server.disk)
  <2>1. CASE "change" \in arrive
    BY <1>1, <2>1
  <2>2. CASE "change" \notin arrive
    BY <1>1, <2>2
  <2> QED
    BY <2>1, <2>2
<1> HIDE DEF changed
<1>6. server' = Is(after, written)
  <2>1. CASE "save" \in arrive
    BY <1>4, <1>5, <2>1
  <2>2. CASE "save" \notin arrive
    BY <1>4, <1>5, <2>2
  <2> QED
    BY <2>1, <2>2
<1>7. before \in SUBSET Players /\ after \in SUBSET Players /\ written \in SUBSET Players
  BY ServerIs
<1>8. Runs(server)' /\ LinesInv' /\ GapsInv' /\ Desk!NextIsAsked'
  <2> HIDE DEF after, written
  <2> QED
    BY <1>3, <1>6, <1>7, ServerIs, ListedKeeps
<1>9. told' \subseteq after /\ told' \subseteq written
  <2>1. told \subseteq server.slots /\ told \subseteq server.disk
    BY DEF DeskInv, ListsInv
  <2>2. told \subseteq before
    BY <2>1
  <2>3. CASE p \in before
    BY <1>3, <2>1, <2>2, <2>3
  <2>4. CASE p \notin before /\ arrive = Desk!Steps
    BY <1>3, <2>1, <2>2, <2>4 DEF Desk!Steps
  <2>5. CASE p \notin before /\ arrive # Desk!Steps
    BY <1>3, <2>1, <2>2, <2>5
  <2> QED
    BY <2>3, <2>4, <2>5
<1>10. ListsInv'
  <2>1. server'.slots = after /\ server'.disk = written /\ server'.excluded = server.excluded
    BY <1>6
  <2> HIDE DEF after, written
  <2> QED
    BY <1>3, <1>9, <2>1 DEF DeskInv, ListsInv, Desk!ExclusionsComeBack, Desk!IdleComesBack
<1>11. OrdersInv' /\ DeskTypes'
  <2>1. Desk!Cardinality(Desk!Steps \ arrive) \in Nat
    BY StepsAreLost
  <2>2. lost' \in 0..MaxLost
    BY <1>3, <2>1 DEF DeskInv, DeskTypes, DeskMatters
  <2> QED
    BY <1>3, <2>2 DEF DeskInv, OrdersInv, DeskTypes
<1> QED
  BY <1>8, <1>10, <1>11 DEF DeskHolds, DeskInv

LEMMA ListsKeep == ASSUME DeskMatters, DeskInv, Desk!Lists PROVE DeskHolds
<1>1. CASE Desk!Excludes
  BY <1>1, SetMapKeeps, ExcludeMapsKeeps, RoundStartKeeps DEF Desk!Excludes
<1>2. CASE Desk!Vips
  BY <1>2, VipsKeep
<1>3. ASSUME NEW answered \in BOOLEAN, NEW arrives \in BOOLEAN, Desk!IdleOff(answered, arrives)
      PROVE  DeskHolds
  BY <1>3, IdleOffKeeps
<1>4. ASSUME NEW seconds \in {lastIdle, 1}, Desk!IdleOn(seconds) PROVE DeskHolds
  BY <1>4, IdleOnKeeps
<1>5. ASSUME NEW p \in Players, NEW arrive \in SUBSET Desk!Steps, Desk!ReserveSlot(p, arrive) PROVE DeskHolds
  BY <1>5, ReserveSlotKeeps
<1> QED
  BY <1>1, <1>2, <1>3, <1>4, <1>5 DEF Desk!Lists

LEMMA DisableKeeps ==
  ASSUME DeskMatters, DeskInv, NEW arrives \in BOOLEAN, Desk!Disable(arrives)
  PROVE  DeskHolds
<1>1. /\ on' = FALSE /\ delayed' = Desk!OnDisable /\ Desk!RestoreExclusions(arrives)
      /\ UNCHANGED <<game, desk, loading, lastIdle>>
  BY DEF Desk!Disable
<1>2. OrdersInv'
  <2>1. CASE game \in {"moh", "bfbc2", "hf"}
    BY <1>1, <2>1 DEF OrdersInv, Desk!OnDisable
  <2>2. CASE game \notin {"moh", "bfbc2", "hf"}
    <3>1. delayed' = [i \in DOMAIN delayed |-> [delayed[i] EXCEPT !.old = TRUE]]
      BY <1>1, <2>2 DEF Desk!OnDisable, Desk!Aged
    <3>2. delayed \in Seq(OrderKinds)
      BY DEF DeskInv, OrdersInv
    <3>3. Len(delayed) \in Nat /\ DOMAIN delayed = 1..Len(delayed)
      BY <3>2
    <3>4. ASSUME NEW i \in 1..Len(delayed) PROVE [delayed[i] EXCEPT !.old = TRUE] \in OrderKinds
      <4>1. delayed[i] \in OrderKinds
        BY <3>2, <3>3
      <4> QED
        BY <4>1 DEF OrderKinds
    <3>5. delayed' \in [1..Len(delayed) -> OrderKinds]
      BY <3>1, <3>3, <3>4
    <3>6. delayed' \in Seq(OrderKinds)
      BY <3>3, <3>5
    <3> QED
      BY <1>1, <2>2, <3>6 DEF OrdersInv
  <2> QED
    BY <2>1, <2>2
<1>3. /\ Runs(server)' /\ LinesInv' /\ GapsInv' /\ ListsInv' /\ Desk!NextIsAsked'
      /\ lost' \in 0..MaxLost
  BY <1>1, RestoreKeeps
<1>4. DeskTypes'
  BY <1>1, <1>3 DEF DeskInv, DeskTypes
<1> QED
  BY <1>2, <1>3, <1>4 DEF DeskHolds, DeskInv

LEMMA EnableKeeps == ASSUME DeskMatters, DeskInv, Desk!Enable PROVE DeskHolds
<1>1. /\ on' = TRUE
      /\ UNCHANGED <<game, desk, server, delayed, loading, held, lastIdle, lost, asked, operator, wasIdle, told, gaps>>
  BY DEF Desk!Enable, Desk!history
<1>2. OrdersInv' /\ DeskTypes'
  BY <1>1 DEF DeskInv, OrdersInv, DeskTypes
<1> QED
  BY <1>1, <1>2, SameServer DEF DeskHolds, DeskInv

LEMMA KilledKeeps == ASSUME DeskMatters, DeskInv, Desk!Killed PROVE DeskHolds
<1>1. /\ on' = TRUE /\ delayed' = <<>> /\ loading' = 0 /\ held' = {} /\ lastIdle' = StockIdle
      /\ operator' = (IF held = {} THEN operator ELSE {}) /\ wasIdle' = 0
      /\ gaps' = [gaps EXCEPT !.list = {}]
      /\ UNCHANGED <<game, desk, server, lost, asked, told>>
  BY DEF Desk!Killed
<1>2. Desk!LinesOf' \in Nat
  BY <1>1 DEF Desk!LinesOf, Desk!ClearAt, DeskMatters
<1>3. LinesInv'
  BY <1>1, <1>2 DEF LinesInv
<1>4. Runs(server)' /\ GapsInv'
  <2>1. gaps' = [list |-> {}, disk |-> gaps.disk]
    BY <1>1 DEF DeskInv, GapsInv
  <2>2. gaps'.disk = gaps.disk /\ gaps'.list = {}
    BY <2>1
  <2> QED
    BY <1>1, <2>1, <2>2 DEF DeskInv, Runs, GapsInv, Whole, GrowsTo, Desk!Within
<1>5. ListsInv'
  BY <1>1 DEF DeskInv, ListsInv, Desk!ExclusionsComeBack, Desk!IdleComesBack
<1>6. OrdersInv' /\ DeskTypes' /\ Desk!NextIsAsked'
  BY <1>1 DEF DeskInv, OrdersInv, DeskTypes, Desk!NextIsAsked
<1> QED
  BY <1>3, <1>4, <1>5, <1>6 DEF DeskHolds, DeskInv

LEMMA ServerRestartsKeeps == ASSUME DeskMatters, DeskInv, Desk!ServerRestarts PROVE DeskHolds
<1>1. /\ server' = Desk!Booted(server) /\ asked' = {} /\ wasIdle' = 0 /\ gaps' = Desk!BootedGaps
      /\ UNCHANGED <<game, desk, on, delayed, loading, held, lastIdle, lost, operator, told>>
  BY DEF Desk!ServerRestarts, Desk!plugin
<1>2. Runs(server) /\ GapsInv
  BY DEF DeskInv
<1>3. /\ Runs(server') /\ LeavesBe(server, server')
      /\ server'.saved = server.saved /\ server'.list = server.saved
  BY <1>1, <1>2, BootedRuns
<1>4. gaps' = [list |-> IF loading = 0 THEN {} ELSE gaps.list \cup gaps.disk, disk |-> gaps.disk]
  BY <1>1, <1>2 DEF Desk!BootedGaps, GapsInv
<1>5. FollowsOn
  BY <1>2, <1>3, <1>4 DEF FollowsOn, GapsInv
<1>6. Runs(server)' /\ LinesInv' /\ GapsInv' /\ ListsInv'
  BY <1>1, <1>3, <1>5, Turned
<1>7. OrdersInv' /\ DeskTypes' /\ Desk!NextIsAsked'
  BY <1>1, NobodyAsked DEF DeskInv, OrdersInv, DeskTypes
<1> QED
  BY <1>6, <1>7 DEF DeskHolds, DeskInv

LEMMA DeskStands == DeskMatters /\ DeskInv /\ [Desk!Next]_(Desk!odVars) => DeskHolds
<1> SUFFICES ASSUME DeskMatters, DeskInv, [Desk!Next]_(Desk!odVars) PROVE DeskHolds
  OBVIOUS
<1>1. CASE UNCHANGED Desk!odVars
  <2>1. UNCHANGED <<game, desk, on, server, delayed, loading, held, lastIdle, lost, asked, operator, wasIdle, told, gaps>>
    BY <1>1 DEF Desk!odVars
  <2>2. OrdersInv' /\ DeskTypes'
    BY <2>1 DEF DeskInv, OrdersInv, DeskTypes
  <2> QED
    BY <2>1, <2>2, SameServer DEF DeskHolds, DeskInv
<1>2. CASE Desk!Next
  BY <1>2, AnnouncesKeep, PassKeeps, SecondKeeps, SetsNextKeeps, TurnsMapsKeep, ListsKeep, DisableKeeps,
     EnableKeeps, KilledKeeps, ServerRestartsKeeps DEF Desk!Next
<1> QED
  BY <1>1, <1>2

LEMMA DeskShows == DeskMatters /\ DeskInv => Desk!TypeOK /\ Desk!OrdersHold
<1> SUFFICES ASSUME DeskMatters, DeskInv PROVE Desk!TypeOK /\ Desk!OrdersHold
  OBVIOUS
<1>1. /\ server.list \in Seq(Maps) /\ server.saved \in Seq(Maps) /\ server.next \in Nat
      /\ server.slots \cup server.disk \subseteq Players
  BY DEF DeskInv, Runs
<1>2. \A i \in DOMAIN delayed : delayed[i].left \in 0..Wait
  <2>1. delayed \in Seq(OrderKinds)
    BY DEF DeskInv, OrdersInv
  <2>2. \A i \in DOMAIN delayed : delayed[i] \in OrderKinds
    BY <2>1
  <2> QED
    BY <2>2 DEF OrderKinds
<1>3. Desk!TypeOK
  <2>1. gaps \in [list : SUBSET DOMAIN File, disk : SUBSET DOMAIN File]
    BY DEF DeskInv, GapsInv, DeskMatters
  <2> QED
    BY <1>1, <1>2, <2>1 DEF DeskInv, DeskTypes, LinesInv, ListsInv, Desk!TypeOK
<1>4. Desk!FilesAreWhole
  <2>1. DOMAIN Rotation = 1..Len(Rotation) /\ DOMAIN File = 1..Len(File)
    BY DEF DeskMatters
  <2> QED
    BY <2>1 DEF DeskInv, GapsInv, Whole, GrowsTo, Desk!FilesAreWhole
<1> QED
  BY <1>3, <1>4 DEF DeskInv, ListsInv, Desk!OrdersHold, Desk!SlotsAreWritten

\* Whatever is put into the rotation, sent, lost, restarted or switched off between: the map an
\* admin was told is next is next, the rotation on the disk is a whole one but the maps whose
\* lines were lost, and the operator's exclusions, unless the command that puts them back was
\* lost, the idle time and the reserved slots are kept.
THEOREM OrdersAreKept ==
  ASSUME DeskMatters
  PROVE  Desk!Spec => [](Desk!TypeOK /\ Desk!OrdersHold)
<1>1. Desk!Init => DeskInv
  BY DeskBegins
<1>2. DeskInv /\ [Desk!Next]_(Desk!odVars) => DeskInv'
  BY DeskStands DEF DeskHolds
<1>3. DeskInv => Desk!TypeOK /\ Desk!OrdersHold
  BY DeskShows
<1> QED
  BY <1>1, <1>2, <1>3, PTL DEF Desk!Spec

\* What was announced before a plugin was switched off is not done after it.
THEOREM NothingIsHeldOver ==
  ASSUME DeskMatters
  PROVE  Desk!Spec => [][Desk!NothingHeldOver]_(Desk!odVars)
<1>1. Desk!Init => DeskInv
  BY DeskBegins
<1>2. DeskInv /\ [Desk!Next]_(Desk!odVars) => DeskInv'
  BY DeskStands DEF DeskHolds
<1>3. DeskInv => Desk!NothingHeldOver
  <2>1. SUFFICES ASSUME DeskInv, NEW i \in Desk!Due, game \notin {"bf3", "cod7"} PROVE ~delayed[i].old
    BY DEF Desk!NothingHeldOver
  <2>2. game \in {"moh", "bfbc2", "hf"}
    BY <2>1 DEF DeskInv, DeskTypes, DeskMatters
  <2>3. i \in 1..Len(delayed)
    <3>1. delayed \in Seq(OrderKinds) /\ i \in DOMAIN delayed
      BY <2>1 DEF DeskInv, OrdersInv, Desk!Due
    <3> QED
      BY <3>1
  <2> QED
    BY <2>1, <2>2, <2>3 DEF DeskInv, OrdersInv
<1>4. DeskInv /\ [Desk!Next]_(Desk!odVars) => [Desk!NothingHeldOver]_(Desk!odVars)
  BY <1>3
<1> QED
  BY <1>1, <1>2, <1>4, PTL DEF Desk!Spec

-----------------------------------------------------------------------------
(* The books of team kills: what leads to a ban of its own.  A debt is written in     *)
(* two records; whatever writes some of it off, in both or where a client was, keeps  *)
(* the two in agreement and the notice with the points.                             *)

CONSTANTS
    Attackers, Damages, Kill, KillTimes, DamageTimes, BanMinutes, MaxPoints, RoundGrace,
    ForgiveGrace, HalfLife, Debounce, WarnInterval, WarnAbove

VARIABLES connected, books, roundStart, halveDue, halvedAt, sentence

Tk == INSTANCE TeamDamage

DamageMatters ==
    /\ IsFiniteSet(Players) /\ Attackers \subseteq Players
    /\ Damages \subseteq Nat /\ Kill \in Nat
    /\ KillTimes \in [Players -> Nat] /\ DamageTimes \in [Players -> Nat]
    /\ MaxPoints \in Nat \ {0} /\ ForgiveGrace \in Nat /\ MaxTime \in Nat \ {0}

Books ==
    [attackers : [Players -> [Players -> Nat]], attacked : [Players -> SUBSET Players],
     grudged : [Players -> SUBSET Players], warnings : [Players -> SUBSET Players],
     lastWarned : [Players -> Nat], banDue : [Players -> Nat],
     lastAttacker : [Players -> Players \cup {Tk!None}]]

\* What the victims among c hold against a player.
Dues(b, a, c) == UNION {{v} \X (1..b.attackers[v][a]) : v \in b.attacked[a] \cap c}

\* The two records of a debt agree, and a notice has its deadline.
BooksAgree(b, c) ==
    /\ \A v \in Players \ c : \A a \in Players : b.attackers[v][a] = 0
    /\ \A v \in c : \A a \in Players :
          b.attackers[v][a] > 0 => a \in c /\ v \in b.attacked[a]

Sound(b, c, t) ==
    /\ b \in Books /\ c \subseteq Players
    /\ \E most \in Nat : \A v, a \in Players : b.attackers[v][a] <= most
    /\ BooksAgree(b, c)
    /\ \A a \in Players : b.banDue[a] <= t + ForgiveGrace

\* Short of the points that ban at once, and on notice from the limit on.
Within(b, c, a) ==
    /\ 2 * Cardinality(Dues(b, a, c)) < 3 * MaxPoints
    /\ Cardinality(Dues(b, a, c)) >= MaxPoints => b.banDue[a] # 0

\* Of b, d has only written debts off, and keeps the notices of whoever has victims left.
WrittenOff(b, d, e) ==
    /\ d \in Books /\ e \subseteq Players
    /\ \A v, a \in Players : d.attackers[v][a] <= b.attackers[v][a]
    /\ \A a \in Players : d.attacked[a] \subseteq b.attacked[a]
    /\ \A a \in Players : d.banDue[a] = b.banDue[a] \/ (d.banDue[a] = 0 /\ d.attacked[a] = {})
    /\ BooksAgree(d, e)

BooksInv ==
    /\ now \in 1..MaxTime
    /\ Sound(books, connected, now)
    /\ \A a \in Players : Within(books, connected, a)

LEMMA DuesAre ==
  ASSUME NEW b \in Books, NEW c \in SUBSET Players, NEW a \in Players
  PROVE  /\ \A v, k : <<v, k>> \in Dues(b, a, c) <=>
                v \in b.attacked[a] /\ v \in c /\ k \in 1..b.attackers[v][a]
         /\ \A x \in Dues(b, a, c) : \E v \in Players, k \in Nat : x = <<v, k>>
<1>1. b.attacked[a] \subseteq Players /\ \A v \in Players : b.attackers[v][a] \in Nat
  BY DEF Books
<1> QED
  BY <1>1 DEF Dues

\* The debts are finitely many.
LEMMA DuesAreFinite ==
  ASSUME DamageMatters, NEW b \in Books, NEW c \in SUBSET Players, NEW a \in Players,
         NEW most \in Nat, \A v, w \in Players : b.attackers[v][w] <= most
  PROVE  IsFiniteSet(Dues(b, a, c)) /\ Cardinality(Dues(b, a, c)) \in Nat
<1>1. IsFiniteSet(Players) /\ IsFiniteSet(1..most)
  BY FS_Interval DEF DamageMatters
<1>2. IsFiniteSet(Players \X (1..most))
  BY ONLY <1>1, FS_Product
<1>3. \A v \in Players : b.attackers[v][a] \in Nat /\ b.attackers[v][a] <= most
  BY DEF Books
<1>4. b.attacked[a] \subseteq Players
  BY DEF Books
<1>5. Dues(b, a, c) \subseteq Players \X (1..most)
  BY <1>3, <1>4 DEF Dues
<1> QED
  BY ONLY <1>2, <1>5, FS_Subset, FS_CardinalityType

\* What one victim holds is part of them.
LEMMA OneDue ==
  ASSUME DamageMatters, NEW b \in Books, NEW c \in SUBSET Players, NEW a \in Players,
         NEW most \in Nat, \A x, w \in Players : b.attackers[x][w] <= most,
         NEW v \in c, v \in b.attacked[a]
  PROVE  b.attackers[v][a] <= Cardinality(Dues(b, a, c))
<1> DEFINE n == b.attackers[v][a]
<1>1. n \in Nat
  BY DEF Books
<1>2. {v} \X (1..n) \subseteq Dues(b, a, c)
  BY DEF Dues
<1>3. IsFiniteSet({v}) /\ Cardinality({v}) = 1
  BY FS_Singleton
<1> HIDE DEF n
<1>4. IsFiniteSet(1..n) /\ Cardinality(1..n) = n
  BY <1>1, FS_Interval
<1>5. IsFiniteSet({v} \X (1..n)) /\ Cardinality({v} \X (1..n)) = Cardinality({v}) * Cardinality(1..n)
  BY ONLY <1>3, <1>4, FS_Product
<1>6. Cardinality({v} \X (1..n)) = n
  BY <1>1, <1>3, <1>4, <1>5
<1>7. IsFiniteSet(Dues(b, a, c))
  BY DuesAreFinite
<1>8. Cardinality({v} \X (1..n)) <= Cardinality(Dues(b, a, c))
  BY ONLY <1>2, <1>7, FS_Subset
<1>9. n <= Cardinality(Dues(b, a, c))
  BY <1>6, <1>8
<1> QED
  BY <1>9 DEF n

\* Points() counts the debts.
LEMMA DuesAreCounted ==
  ASSUME NEW b, NEW a
  PROVE  Tk!Points(b, a) = Cardinality(Dues(b, a, connected))
BY DEF Tk!Points, Tk!Debts, Dues, Tk!Cardinality, Cardinality

\* Writing debts off keeps the books sound, whoever comes and goes,
LEMMA WritingOff ==
  ASSUME DamageMatters, NEW b, NEW d, NEW c, NEW e, NEW t \in Nat,
         Sound(b, c, t), WrittenOff(b, d, e)
  PROVE  /\ Sound(d, e, t)
         /\ \A a \in Players : Dues(d, a, e) \subseteq Dues(b, a, c)
         /\ \A a \in Players : Within(b, c, a) => Within(d, e, a)
<1>1. /\ b \in Books /\ d \in Books /\ c \in SUBSET Players /\ e \in SUBSET Players
      /\ BooksAgree(b, c) /\ BooksAgree(d, e)
  BY DEF Sound, WrittenOff
<1>2. PICK most \in Nat : \A v, a \in Players : b.attackers[v][a] <= most
  BY DEF Sound
<1>3. \A v, a \in Players : b.attackers[v][a] \in Nat /\ d.attackers[v][a] \in Nat
                            /\ d.attackers[v][a] <= b.attackers[v][a]
  BY <1>1 DEF Books, WrittenOff
<1>4. \A v, a \in Players : d.attackers[v][a] <= most
  BY <1>2, <1>3
<1>5. \A a \in Players : b.banDue[a] \in Nat /\ d.banDue[a] <= b.banDue[a]
  <2>1. b.banDue \in [Players -> Nat] /\ d.banDue \in [Players -> Nat]
    BY <1>1 DEF Books
  <2>2. \A a \in Players : d.banDue[a] = b.banDue[a] \/ d.banDue[a] = 0
    BY DEF WrittenOff
  <2> QED
    BY ONLY <2>1, <2>2
<1>6. Sound(d, e, t)
  <2>1. ASSUME NEW a \in Players PROVE d.banDue[a] <= t + ForgiveGrace
    <3>1. b.banDue[a] <= t + ForgiveGrace /\ d.banDue[a] \in Nat
      BY <1>1 DEF Sound, Books
    <3> QED
      BY <3>1, <1>5 DEF DamageMatters
  <2> QED
    BY <1>1, <1>4, <2>1 DEF Sound
<1>7. ASSUME NEW a \in Players PROVE Dues(d, a, e) \subseteq Dues(b, a, c)
  <2>1. ASSUME NEW x \in Dues(d, a, e) PROVE x \in Dues(b, a, c)
    <3>1. PICK v \in Players, k \in Nat : x = <<v, k>>
      BY <1>1, DuesAre
    <3>2. v \in d.attacked[a] /\ v \in e /\ k \in 1..d.attackers[v][a]
      BY <1>1, <3>1, DuesAre
    <3>3. v \in b.attacked[a] /\ k \in 1..b.attackers[v][a]
      BY <1>3, <3>2 DEF WrittenOff
    <3>4. v \in c
      BY <1>1, <1>3, <3>3 DEF BooksAgree
    <3> QED
      BY <1>1, <3>1, <3>3, <3>4, DuesAre
  <2> QED
    BY <2>1
<1>8. ASSUME NEW a \in Players, Within(b, c, a) PROVE Within(d, e, a)
  <2> DEFINE old == Dues(b, a, c)
             new == Dues(d, a, e)
  <2>1. /\ IsFiniteSet(old) /\ Cardinality(old) \in Nat
        /\ IsFiniteSet(new) /\ Cardinality(new) \in Nat
    BY <1>1, <1>2, <1>4, DuesAreFinite
  <2>2. new \subseteq old
    BY <1>7
  <2>3. /\ 2 * Cardinality(old) < 3 * MaxPoints
        /\ Cardinality(old) >= MaxPoints => b.banDue[a] # 0
    BY <1>8 DEF Within
  <2>4. d.attacked[a] = {} => new = {}
    BY DEF Dues
  <2> HIDE DEF old, new
  <2>5. Cardinality(new) <= Cardinality(old)
    BY ONLY <2>1, <2>2, FS_Subset
  <2>6. d.attacked[a] = {} => Cardinality(new) = 0
    BY <2>4, FS_EmptySet
  <2>7. d.banDue[a] = b.banDue[a] \/ (d.banDue[a] = 0 /\ d.attacked[a] = {})
    BY DEF WrittenOff
  <2>8. MaxPoints \in Nat \ {0}
    BY DEF DamageMatters
  <2>9. /\ 2 * Cardinality(new) < 3 * MaxPoints
        /\ Cardinality(new) >= MaxPoints => d.banDue[a] # 0
    BY ONLY <2>1, <2>3, <2>5, <2>6, <2>7, <2>8
  <2> QED
    BY <2>9 DEF Within, new
<1> QED
  BY <1>6, <1>7, <1>8

\* and whoever has no victim left is within the limit.
LEMMA NothingDue ==
  ASSUME DamageMatters, NEW b, NEW c, NEW a, b.attacked[a] = {}
  PROVE  Within(b, c, a)
<1>1. Dues(b, a, c) = {}
  BY DEF Dues
<1>2. Cardinality(Dues(b, a, c)) = 0
  BY <1>1, FS_EmptySet
<1> QED
  BY <1>2 DEF Within, DamageMatters

\* A debt forgiven is gone from both records.
LEMMA Forgiving ==
  ASSUME DamageMatters, NEW b, NEW t \in Nat, Sound(b, connected, t), NEW pairs,
         \A x \in pairs : x \in connected \X Players
  PROVE  /\ WrittenOff(b, Tk!Forgiven(b, pairs), connected)
         /\ \A v, a \in Players : <<v, a>> \in pairs => Tk!Forgiven(b, pairs).attackers[v][a] = 0
<1> DEFINE d == Tk!Forgiven(b, pairs)
           by(a) == {v \in Players : a \in connected /\ <<v, a>> \in pairs}
<1>1. b \in Books /\ connected \subseteq Players /\ BooksAgree(b, connected)
  BY DEF Sound
<1>2. /\ b.attackers \in [Players -> [Players -> Nat]] /\ b.attacked \in [Players -> SUBSET Players]
      /\ b.grudged \in [Players -> SUBSET Players] /\ b.warnings \in [Players -> SUBSET Players]
      /\ b.lastWarned \in [Players -> Nat] /\ b.banDue \in [Players -> Nat]
      /\ b.lastAttacker \in [Players -> Players \cup {Tk!None}]
  BY <1>1 DEF Books
<1>3. /\ d.attackers = [v \in Players |-> [a \in Players |->
                           IF <<v, a>> \in pairs THEN 0 ELSE b.attackers[v][a]]]
      /\ d.attacked = [a \in Players |-> b.attacked[a] \ by(a)]
      /\ d.grudged = [v \in Players |-> {a \in b.grudged[v] : <<v, a>> \notin pairs}]
      /\ d.warnings = [a \in Players |-> b.warnings[a] \ by(a)]
      /\ d.lastWarned = b.lastWarned
      /\ d.banDue = [a \in Players |->
                        IF by(a) # {} /\ b.attacked[a] \subseteq by(a) THEN 0 ELSE b.banDue[a]]
      /\ d.lastAttacker = [v \in Players |->
                              IF <<v, b.lastAttacker[v]>> \in pairs THEN Tk!None
                              ELSE b.lastAttacker[v]]
  BY DEF Tk!Forgiven
<1>4. d = [attackers |-> d.attackers, attacked |-> d.attacked, grudged |-> d.grudged,
           warnings |-> d.warnings, lastWarned |-> d.lastWarned, banDue |-> d.banDue,
           lastAttacker |-> d.lastAttacker]
  BY DEF Tk!Forgiven
<1> HIDE DEF d
<1>5. d.attackers \in [Players -> [Players -> Nat]]
  BY <1>2, <1>3
<1>6. d.attacked \in [Players -> SUBSET Players] /\ d.warnings \in [Players -> SUBSET Players]
  BY <1>2, <1>3
<1>7. d.grudged \in [Players -> SUBSET Players]
  BY <1>2, <1>3
<1>8. d.banDue \in [Players -> Nat] /\ d.lastWarned \in [Players -> Nat]
  <2> HIDE DEF by
  <2> QED
    BY <1>2, <1>3
<1>9. d.lastAttacker \in [Players -> Players \cup {Tk!None}]
  BY <1>2, <1>3
<1>10. d \in Books
  BY <1>4, <1>5, <1>6, <1>7, <1>8, <1>9 DEF Books
<1>11. ASSUME NEW v \in Players, NEW a \in Players
       PROVE  /\ d.attackers[v][a] = IF <<v, a>> \in pairs THEN 0 ELSE b.attackers[v][a]
              /\ d.attackers[v][a] <= b.attackers[v][a]
  BY <1>2, <1>3
<1>12. ASSUME NEW a \in Players
       PROVE  /\ d.attacked[a] = b.attacked[a] \ by(a)
              /\ d.banDue[a] = b.banDue[a] \/ (d.banDue[a] = 0 /\ d.attacked[a] = {})
  <2> HIDE DEF by
  <2>1. d.attacked[a] = b.attacked[a] \ by(a)
    BY <1>3
  <2>2. d.banDue[a] = IF by(a) # {} /\ b.attacked[a] \subseteq by(a) THEN 0 ELSE b.banDue[a]
    BY <1>3
  <2> QED
    BY <2>1, <2>2
<1>13. BooksAgree(d, connected)
  <2>1. ASSUME NEW v \in Players \ connected, NEW a \in Players PROVE d.attackers[v][a] = 0
    BY <1>1, <1>11 DEF BooksAgree
  <2>2. ASSUME NEW v \in connected, NEW a \in Players, d.attackers[v][a] > 0
        PROVE  a \in connected /\ v \in d.attacked[a]
    <3>1. v \in Players
      BY <1>1
    <3>2. <<v, a>> \notin pairs /\ b.attackers[v][a] > 0
      BY <1>11, <2>2, <3>1
    <3>3. a \in connected /\ v \in b.attacked[a]
      BY <1>1, <3>2 DEF BooksAgree
    <3> QED
      BY <1>12, <3>2, <3>3
  <2> QED
    BY <2>1, <2>2 DEF BooksAgree
<1>14. WrittenOff(b, d, connected)
  <2> HIDE DEF by
  <2>1. \A a \in Players : d.attacked[a] \subseteq b.attacked[a]
    BY <1>12
  <2> QED
    BY <1>1, <1>10, <1>11, <1>12, <1>13, <2>1 DEF WrittenOff
<1> QED
  BY <1>11, <1>14 DEF d

\* The fields of the books.
LEMMA SameBooks ==
  ASSUME NEW b \in Books
  PROVE  /\ b.attackers \in [Players -> [Players -> Nat]] /\ b.attacked \in [Players -> SUBSET Players]
         /\ b.grudged \in [Players -> SUBSET Players] /\ b.warnings \in [Players -> SUBSET Players]
         /\ b.lastWarned \in [Players -> Nat] /\ b.banDue \in [Players -> Nat]
         /\ b.lastAttacker \in [Players -> Players \cup {Tk!None}]
         /\ b = [attackers |-> b.attackers, attacked |-> b.attacked, grudged |-> b.grudged,
                 warnings |-> b.warnings, lastWarned |-> b.lastWarned, banDue |-> b.banDue,
                 lastAttacker |-> b.lastAttacker]
BY DEF Books

\* Slots without a client owe nothing that counting could lose.
LEMMA CountingOff ==
  ASSUME DamageMatters, NEW b, NEW t \in Nat, Sound(b, connected, t), NEW a \in Players
  PROVE  WrittenOff(b, Tk!Counted(b, a), connected)
<1> DEFINE d == Tk!Counted(b, a)
<1>1. b \in Books /\ connected \subseteq Players /\ BooksAgree(b, connected)
  BY DEF Sound
<1>2. b.attacked \in [Players -> SUBSET Players]
  BY <1>1, SameBooks
<1>3. /\ d = [b EXCEPT !.attacked = [b.attacked EXCEPT ![a] = b.attacked[a] \cap connected]]
  BY DEF Tk!Counted
<1> HIDE DEF d
<1>4. /\ d \in Books
      /\ d.attackers = b.attackers /\ d.banDue = b.banDue
      /\ d.attacked = [b.attacked EXCEPT ![a] = b.attacked[a] \cap connected]
  BY <1>1, <1>2, <1>3 DEF Books
<1>5. \A q \in Players : d.attacked[q] = IF q = a THEN b.attacked[a] \cap connected ELSE b.attacked[q]
  BY <1>2, <1>4
<1>6. BooksAgree(d, connected)
  BY <1>1, <1>4, <1>5 DEF BooksAgree
<1>7. \A v, q \in Players : b.attackers[v][q] \in Nat
  BY <1>1, SameBooks
<1>8. WrittenOff(b, d, connected)
  BY <1>1, <1>4, <1>5, <1>6, <1>7 DEF WrittenOff
<1> QED
  BY <1>8 DEF d

\* All that a player owes is forgiven.
LEMMA ForgivingAll ==
  ASSUME DamageMatters, NEW b, NEW t \in Nat, Sound(b, connected, t), NEW a \in connected
  PROVE  /\ WrittenOff(b, Tk!AllForgiven(b, a), connected)
         /\ Tk!AllForgiven(b, a).attacked[a] = {}
         /\ \A v \in connected : Tk!AllForgiven(b, a).attackers[v][a] = 0
<1> DEFINE pairs == connected \X {a}
           c == Tk!Forgiven(b, pairs)
           d == Tk!AllForgiven(b, a)
<1>1. b \in Books /\ connected \subseteq Players /\ a \in Players
  BY DEF Sound
<1>2. d = [c EXCEPT !.attacked = [c.attacked EXCEPT ![a] = {}],
                    !.warnings = [c.warnings EXCEPT ![a] = {}],
                    !.banDue = [c.banDue EXCEPT ![a] = 0]]
  BY DEF Tk!AllForgiven
<1>3. \A x \in pairs : x \in connected \X Players
  BY <1>1
<1>4. \A v \in connected : <<v, a>> \in pairs
  OBVIOUS
<1> HIDE DEF pairs
<1>5. WrittenOff(b, c, connected) /\ \A v \in connected : c.attackers[v][a] = 0
  <2>1. /\ WrittenOff(b, c, connected)
        /\ \A v, q \in Players : <<v, q>> \in pairs => c.attackers[v][q] = 0
    BY ONLY <1>3, DamageMatters, t \in Nat, Sound(b, connected, t), Forgiving DEF c
  <2> HIDE DEF c
  <2> QED
    BY <2>1, <1>1, <1>4
<1> HIDE DEF c, d
<1>6. c \in Books /\ BooksAgree(c, connected)
  BY <1>5 DEF WrittenOff
<1>7. /\ c.attacked \in [Players -> SUBSET Players] /\ c.warnings \in [Players -> SUBSET Players]
      /\ c.banDue \in [Players -> Nat]
  BY <1>6, SameBooks
<1>8. /\ d \in Books /\ d.attackers = c.attackers
      /\ d.attacked = [c.attacked EXCEPT ![a] = {}]
      /\ d.banDue = [c.banDue EXCEPT ![a] = 0]
  BY <1>1, <1>2, <1>6, <1>7 DEF Books
<1>9. \A q \in Players : /\ d.attacked[q] = IF q = a THEN {} ELSE c.attacked[q]
                         /\ d.banDue[q] = IF q = a THEN 0 ELSE c.banDue[q]
  BY <1>7, <1>8
<1>10. BooksAgree(d, connected)
  BY <1>5, <1>6, <1>8, <1>9 DEF BooksAgree
<1>11. WrittenOff(b, d, connected)
  BY <1>1, <1>5, <1>8, <1>9, <1>10 DEF WrittenOff
<1> QED
  BY <1>1, <1>5, <1>8, <1>9, <1>11 DEF d

\* A warning touches no debt.
LEMMA Warning ==
  ASSUME DamageMatters, NEW b, NEW t \in Nat, Sound(b, connected, t), NEW a \in Players,
         NEW v \in Players, NEW points \in Nat, now \in Nat
  PROVE  WrittenOff(b, Tk!Warned(b, a, v, points), connected)
<1> DEFINE d == Tk!Warned(b, a, v, points)
<1>1. b \in Books /\ connected \subseteq Players /\ BooksAgree(b, connected)
  BY DEF Sound
<1>2. b.lastWarned \in [Players -> Nat] /\ b.warnings \in [Players -> SUBSET Players]
  BY <1>1, SameBooks
<1>3. \/ d = b
      \/ d = [b EXCEPT !.lastWarned = [b.lastWarned EXCEPT ![a] = now]]
      \/ d = [b EXCEPT !.lastWarned = [b.lastWarned EXCEPT ![a] = now],
                       !.warnings = [b.warnings EXCEPT ![a] = b.warnings[a] \cup {v}]]
  BY DEF Tk!Warned
<1>4. /\ d \in Books
      /\ d.attackers = b.attackers /\ d.banDue = b.banDue /\ d.attacked = b.attacked
  <2> DEFINE f == [b.lastWarned EXCEPT ![a] = now]
             g == [b.warnings EXCEPT ![a] = b.warnings[a] \cup {v}]
  <2>1. f \in [Players -> Nat] /\ g \in [Players -> SUBSET Players]
    BY <1>2
  <2> HIDE DEF f, g, d
  <2>2. CASE d = b
    BY <1>1, <2>2
  <2>3. CASE d = [b EXCEPT !.lastWarned = f]
    BY <1>1, <2>1, <2>3 DEF Books
  <2>4. CASE d = [b EXCEPT !.lastWarned = f, !.warnings = g]
    BY <1>1, <2>1, <2>4 DEF Books
  <2> QED
    BY <1>3, <2>2, <2>3, <2>4 DEF f, g
<1> HIDE DEF d
<1>5. \A x, q \in Players : b.attackers[x][q] \in Nat
  BY <1>1, SameBooks
<1>6. BooksAgree(d, connected)
  BY <1>1, <1>4 DEF BooksAgree
<1>7. WrittenOff(b, d, connected)
  BY <1>1, <1>4, <1>5, <1>6 DEF WrittenOff
<1> QED
  BY <1>7 DEF d

\* A deadline concerns the player it is set for.
LEMMA Dated ==
  ASSUME DamageMatters, NEW b, NEW c, NEW t \in Nat, Sound(b, c, t), NEW a \in Players,
         NEW end \in Nat, end <= t + ForgiveGrace
  PROVE  LET d == [b EXCEPT !.banDue[a] = end]
         IN  /\ Sound(d, c, t) /\ d.banDue[a] = end
             /\ \A q \in Players : Dues(d, q, c) = Dues(b, q, c)
             /\ \A q \in Players \ {a} : Within(b, c, q) => Within(d, c, q)
<1> DEFINE d == [b EXCEPT !.banDue[a] = end]
<1>1. b \in Books /\ c \subseteq Players /\ BooksAgree(b, c)
  BY DEF Sound
<1>2. b.banDue \in [Players -> Nat]
  BY <1>1, SameBooks
<1>3. d = [b EXCEPT !.banDue = [b.banDue EXCEPT ![a] = end]]
  OBVIOUS
<1> HIDE DEF d
<1>4. /\ d \in Books
      /\ d.attackers = b.attackers /\ d.attacked = b.attacked
      /\ d.banDue = [b.banDue EXCEPT ![a] = end]
  BY <1>1, <1>2, <1>3 DEF Books
<1>5. \A q \in Players : d.banDue[q] = IF q = a THEN end ELSE b.banDue[q]
  BY <1>2, <1>4
<1>6. BooksAgree(d, c)
  BY <1>1, <1>4 DEF BooksAgree
<1>7. Sound(d, c, t)
  BY <1>1, <1>4, <1>5, <1>6 DEF Sound
<1>8. \A q \in Players : Dues(d, q, c) = Dues(b, q, c)
  BY <1>4 DEF Dues
<1>9. \A q \in Players \ {a} : Within(b, c, q) => Within(d, c, q)
  BY <1>5, <1>8 DEF Within
<1> QED
  BY <1>5, <1>7, <1>8, <1>9 DEF d

\* A hit is written into both records, and concerns the debts of one player.
LEMMA Damaging ==
  ASSUME DamageMatters, NEW b, NEW c, NEW t \in Nat, Sound(b, c, t),
         NEW a \in c, NEW v \in c, NEW points \in Nat
  PROVE  /\ Sound(Tk!Damaged(b, a, v, points), c, t)
         /\ \A q \in Players \ {a} :
               Within(b, c, q) => Within(Tk!Damaged(b, a, v, points), c, q)
<1> DEFINE d == Tk!Damaged(b, a, v, points)
           debts == [b.attackers EXCEPT ![v] =
                        [b.attackers[v] EXCEPT ![a] = b.attackers[v][a] + points]]
           names == [b.attacked EXCEPT ![a] = b.attacked[a] \cup {v}]
           lasts == [b.lastAttacker EXCEPT ![v] = a]
<1>1. b \in Books /\ c \subseteq Players /\ BooksAgree(b, c) /\ a \in Players /\ v \in Players
  BY DEF Sound
<1>2. /\ b.attackers \in [Players -> [Players -> Nat]] /\ b.attacked \in [Players -> SUBSET Players]
      /\ b.lastAttacker \in [Players -> Players \cup {Tk!None}]
      /\ \A x, q \in Players : b.attackers[x][q] \in Nat
  BY <1>1, SameBooks
<1>3. d = [b EXCEPT !.attackers = debts, !.lastAttacker = lasts, !.attacked = names]
  BY DEF Tk!Damaged
<1>4. debts \in [Players -> [Players -> Nat]]
  BY <1>1, <1>2
<1>5. names \in [Players -> SUBSET Players] /\ lasts \in [Players -> Players \cup {Tk!None}]
  BY <1>1, <1>2
<1>6. \A x, q \in Players :
        debts[x][q] = IF x = v /\ q = a THEN b.attackers[x][q] + points ELSE b.attackers[x][q]
  BY <1>1, <1>2
<1>7. \A q \in Players : names[q] = IF q = a THEN b.attacked[q] \cup {v} ELSE b.attacked[q]
  BY <1>1, <1>2
<1> HIDE DEF d, debts, names, lasts
<1>8. d \in Books /\ d.attackers = debts /\ d.attacked = names /\ d.banDue = b.banDue
  BY <1>1, <1>3, <1>4, <1>5 DEF Books
<1>9. BooksAgree(d, c)
  <2>1. ASSUME NEW x \in Players \ c, NEW q \in Players PROVE d.attackers[x][q] = 0
    BY <1>1, <1>6, <1>8 DEF BooksAgree
  <2>2. ASSUME NEW x \in c, NEW q \in Players, d.attackers[x][q] > 0
        PROVE  q \in c /\ x \in d.attacked[q]
    <3>1. CASE x = v /\ q = a
      BY <1>7, <1>8, <3>1
    <3>2. CASE ~(x = v /\ q = a)
      <4>1. b.attackers[x][q] > 0
        BY <1>1, <1>6, <1>8, <2>2, <3>2
      <4> QED
        BY <1>1, <1>7, <1>8, <4>1 DEF BooksAgree
    <3> QED
      BY <3>1, <3>2
  <2> QED
    BY <2>1, <2>2 DEF BooksAgree
<1>10. PICK most \in Nat : \A x, q \in Players : b.attackers[x][q] <= most
  BY DEF Sound
<1>11. most + points \in Nat /\ \A x, q \in Players : d.attackers[x][q] <= most + points
  BY <1>2, <1>6, <1>8, <1>10
<1>12. Sound(d, c, t)
  BY <1>1, <1>8, <1>9, <1>11 DEF Sound
<1>13. ASSUME NEW q \in Players \ {a} PROVE Dues(d, q, c) = Dues(b, q, c)
  <2>1. d.attacked[q] = b.attacked[q] /\ b.attacked[q] \subseteq Players
    BY <1>2, <1>7, <1>8
  <2>2. \A x \in Players : d.attackers[x][q] = b.attackers[x][q]
    BY <1>6, <1>8
  <2> QED
    BY <2>1, <2>2 DEF Dues
<1>14. \A q \in Players \ {a} : Within(b, c, q) => Within(d, c, q)
  BY <1>8, <1>13 DEF Within
<1> QED
  BY <1>12, <1>14 DEF d

\* Hits are worth whole points.
LEMMA Multiplied ==
  ASSUME NEW x \in Nat, NEW y \in Nat
  PROVE  x * y \in Nat
OBVIOUS

LEMMA RoundsUp ==
  ASSUME NEW n \in Nat, NEW d \in {2, 8}
  PROVE  Tk!Rounded(n, d) \in Nat /\ (d = 2 => Tk!Rounded(n, d) <= n)
<1>1. CASE d = 2
  <2>1. n \div 2 \in Nat /\ n % 2 \in 0..1 /\ n = 2 * (n \div 2) + (n % 2)
    OBVIOUS
  <2>2. n \div 2 + 1 <= n \/ n = 0 \/ (n % 2 = 1 /\ n \div 2 = 0) 
    BY <2>1
  <2>3. Tk!Rounded(n, 2) = IF n % 2 = 1 /\ (n \div 2) % 2 = 1 THEN n \div 2 + 1 ELSE n \div 2
    BY <2>1 DEF Tk!Rounded
  <2> QED
    BY <1>1, <2>1, <2>2, <2>3
<1>2. CASE d = 8
  <2>1. n \div 8 \in Nat
    OBVIOUS
  <2>2. Tk!Rounded(n, 8) \in {n \div 8, n \div 8 + 1}
    BY DEF Tk!Rounded
  <2> QED
    BY <1>2, <2>1, <2>2
<1> QED
  BY <1>1, <1>2

LEMMA ScaledIsWhole ==
  ASSUME DamageMatters, NEW a \in Players, NEW points \in Nat, NEW killed \in BOOLEAN
  PROVE  Tk!Scaled(a, points, killed) \in Nat
<1> DEFINE times == IF killed THEN KillTimes[a] ELSE DamageTimes[a]
           spawn == IF ~Tk!InSpawnGrace THEN 2 ELSE IF killed THEN 3 ELSE 6
<1>1. times \in Nat
  BY DEF DamageMatters
<1>2. spawn \in Nat
  OBVIOUS
<1>3. Tk!Scaled(a, points, killed) = Tk!Rounded(points * times * spawn, 8)
  BY DEF Tk!Scaled
<1> HIDE DEF times, spawn
<1>4. points * times * spawn \in Nat
  BY ONLY <1>1, <1>2, points \in Nat, Multiplied
<1> QED
  BY <1>3, <1>4, RoundsUp

\* Whoever is past the limit is sentenced and cleared, or is on notice.
LEMMA Checked ==
  ASSUME DamageMatters, NEW b, now \in Nat \ {0}, Sound(b, connected, now), NEW a \in connected,
         \A q \in Players \ {a} : Within(b, connected, q), Tk!CheckLimit(b, a)
  PROVE  /\ Sound(books', connected, now)
         /\ \A q \in Players : Within(books', connected, q)
<1> DEFINE e == Tk!Counted(b, a)
           points == Tk!Points(b, a)
<1>1. connected \subseteq Players /\ a \in Players /\ b \in Books
  BY DEF Sound
<1>2. WrittenOff(b, e, connected)
  BY <1>1, CountingOff
<1>3. /\ Sound(e, connected, now)
      /\ \A q \in Players \ {a} : Within(e, connected, q)
      /\ Within(b, connected, a) => Within(e, connected, a)
      /\ Dues(e, a, connected) \subseteq Dues(b, a, connected)
  <2> HIDE DEF e
  <2> QED
    BY <1>1, <1>2, WritingOff
<1>4. points = Cardinality(Dues(b, a, connected))
  BY DuesAreCounted
<1>5. PICK most \in Nat : \A x, q \in Players : b.attackers[x][q] <= most
  BY DEF Sound
<1>6. IsFiniteSet(Dues(b, a, connected)) /\ points \in Nat
  BY <1>1, <1>4, <1>5, DuesAreFinite
<1>7. CASE points < MaxPoints
  <2>1. books' = e
    BY <1>7 DEF Tk!CheckLimit
  <2>2. Within(b, connected, a)
    BY <1>4, <1>6, <1>7 DEF Within, DamageMatters
  <2> HIDE DEF e, points
  <2> QED
    BY <1>3, <2>1, <2>2
<1>8. CASE ~(points < MaxPoints) /\ 2 * points >= 3 * MaxPoints
  <2>1. books' = Tk!AllForgiven(e, a)
    BY <1>8 DEF Tk!CheckLimit
  <2> HIDE DEF e, points
  <2>2. WrittenOff(e, books', connected) /\ books'.attacked[a] = {}
    BY <1>3, <2>1, ForgivingAll
  <2>3. /\ Sound(books', connected, now)
        /\ \A q \in Players : Within(e, connected, q) => Within(books', connected, q)
    BY <1>3, <2>2, WritingOff
  <2>4. Within(books', connected, a)
    BY <2>2, NothingDue
  <2> QED
    BY <1>3, <2>3, <2>4
<1>9. CASE ~(points < MaxPoints) /\ ~(2 * points >= 3 * MaxPoints)
  <2> DEFINE end == IF e.banDue[a] # 0 THEN e.banDue[a] ELSE now + ForgiveGrace
  <2>1. books' = [e EXCEPT !.banDue[a] = end]
    BY <1>9 DEF Tk!CheckLimit
  <2> HIDE DEF e
  <2>2. e \in Books /\ e.banDue \in [Players -> Nat] /\ e.banDue[a] <= now + ForgiveGrace
    BY <1>1, <1>3, SameBooks DEF Sound
  <2>3. end \in Nat \ {0} /\ end <= now + ForgiveGrace
    BY <1>1, <2>2 DEF DamageMatters
  <2> HIDE DEF end, points
  <2>4. /\ Sound(books', connected, now) /\ books'.banDue[a] = end
        /\ \A q \in Players : Dues(books', q, connected) = Dues(e, q, connected)
        /\ \A q \in Players \ {a} : Within(e, connected, q) => Within(books', connected, q)
    <3> HIDE DEF BooksAgree
    <3>1. Sound(e, connected, now) /\ a \in Players /\ end \in Nat /\ now \in Nat
      BY <1>1, <1>3, <2>3
    <3> QED
      BY ONLY DamageMatters, <2>1, <2>3, <3>1, Dated
  <2>5. Cardinality(Dues(e, a, connected)) <= Cardinality(Dues(b, a, connected))
    BY ONLY <1>3, <1>6, FS_Subset
  <2>6. IsFiniteSet(Dues(e, a, connected)) /\ Cardinality(Dues(e, a, connected)) \in Nat
    BY ONLY <1>3, <1>6, FS_Subset, FS_CardinalityType
  <2>7. 2 * Cardinality(Dues(e, a, connected)) < 3 * MaxPoints
    BY <1>4, <1>6, <1>9, <2>5, <2>6 DEF DamageMatters
  <2>8. Within(books', connected, a)
    <3>1. Dues(books', a, connected) = Dues(e, a, connected) /\ books'.banDue[a] # 0
      BY <1>1, <2>3, <2>4
    <3> QED
      BY ONLY <2>7, <3>1 DEF Within
  <2> QED
    BY <1>3, <2>4, <2>8
<1> HIDE DEF e, points
<1> QED
  BY <1>7, <1>8, <1>9

\* Halving writes half of every debt off, and forgives what is left of none.
LEMMA Halving ==
  ASSUME DamageMatters, BooksInv
  PROVE  /\ Sound(Tk!Halved(books), connected, now)
         /\ \A a \in Players : Within(Tk!Halved(books), connected, a)
<1> DEFINE after == [v \in Players |-> [a \in Players |-> Tk!Rounded(books.attackers[v][a], 2)]]
           spent == {e \in connected \X Players :
                        books.attackers[e[1]][e[2]] > 0 /\ after[e[1]][e[2]] = 0}
           halves == [v \in Players |-> IF v \in connected THEN after[v] ELSE books.attackers[v]]
           d == [books EXCEPT !.attackers = halves]
<1>1. /\ books \in Books /\ connected \subseteq Players /\ BooksAgree(books, connected)
      /\ Sound(books, connected, now) /\ now \in Nat
  BY DEF BooksInv, Sound
<1>2. /\ \A x, q \in Players : books.attackers[x][q] \in Nat
      /\ books.attackers \in [Players -> [Players -> Nat]]
  BY <1>1, SameBooks
<1>3. \A x, q \in Players : Tk!Rounded(books.attackers[x][q], 2) \in Nat
                            /\ Tk!Rounded(books.attackers[x][q], 2) <= books.attackers[x][q]
  BY <1>2, RoundsUp
<1>4. after \in [Players -> [Players -> Nat]]
  BY <1>3
<1>5. \A x, q \in Players : after[x][q] <= books.attackers[x][q]
  BY <1>3
<1>6. \A x \in spent : x \in connected \X Players
  OBVIOUS
<1>7. Tk!Halved(books) = Tk!Forgiven(d, spent)
  BY DEF Tk!Halved
<1> HIDE DEF after, spent
<1>8. halves \in [Players -> [Players -> Nat]]
  BY <1>2, <1>4
<1>9. \A x, q \in Players : halves[x][q] <= books.attackers[x][q]
  BY <1>2, <1>5
<1> HIDE DEF halves
<1>10. /\ d \in Books /\ d.attackers = halves
       /\ d.attacked = books.attacked /\ d.banDue = books.banDue
  BY <1>1, <1>8 DEF Books
<1> HIDE DEF d
<1>11. BooksAgree(d, connected)
  <2>1. \A x, q \in Players : halves[x][q] \in Nat
    BY <1>8
  <2> QED
    BY <1>1, <1>2, <1>9, <1>10, <2>1 DEF BooksAgree
<1>12. WrittenOff(books, d, connected)
  BY <1>1, <1>9, <1>10, <1>11 DEF WrittenOff
<1>13. /\ Sound(d, connected, now)
       /\ \A a \in Players : Within(books, connected, a) => Within(d, connected, a)
  BY <1>1, <1>12, WritingOff
<1>14. WrittenOff(d, Tk!Forgiven(d, spent), connected)
  BY <1>1, <1>6, <1>13, Forgiving
<1>15. /\ Sound(Tk!Halved(books), connected, now)
       /\ \A a \in Players : Within(d, connected, a) => Within(Tk!Halved(books), connected, a)
  BY <1>1, <1>7, <1>13, <1>14, WritingOff
<1> QED
  BY <1>13, <1>15 DEF BooksInv

\* A leaver's record goes, and what others hold against them with it.
LEMMA Leaving ==
  ASSUME DamageMatters, BooksInv, NEW p \in connected
  PROVE  /\ Sound(Tk!LeftBooks(p), connected \ {p}, now)
         /\ \A a \in Players : Within(Tk!LeftBooks(p), connected \ {p}, a)
<1> DEFINE c == Tk!AllForgiven(books, p)
           d == Tk!LeftBooks(p)
<1>1. /\ connected \subseteq Players /\ p \in Players
      /\ Sound(books, connected, now) /\ now \in Nat
  BY DEF BooksInv, Sound
<1>2. /\ WrittenOff(books, c, connected)
      /\ \A v \in connected : c.attackers[v][p] = 0
  BY <1>1, ForgivingAll
<1>3. d = [c EXCEPT !.attackers = [c.attackers EXCEPT ![p] = Tk!Blank],
                    !.attacked = [c.attacked EXCEPT ![p] = {}],
                    !.grudged = [c.grudged EXCEPT ![p] = {}],
                    !.warnings = [c.warnings EXCEPT ![p] = {}],
                    !.lastWarned = [c.lastWarned EXCEPT ![p] = 0],
                    !.banDue = [c.banDue EXCEPT ![p] = 0],
                    !.lastAttacker = [c.lastAttacker EXCEPT ![p] = Tk!None]]
  BY DEF Tk!LeftBooks
<1> HIDE DEF c, d
<1>4. c \in Books /\ BooksAgree(c, connected)
  BY <1>2 DEF WrittenOff
<1>5. /\ c.attackers \in [Players -> [Players -> Nat]] /\ c.attacked \in [Players -> SUBSET Players]
      /\ c.grudged \in [Players -> SUBSET Players] /\ c.warnings \in [Players -> SUBSET Players]
      /\ c.lastWarned \in [Players -> Nat] /\ c.banDue \in [Players -> Nat]
      /\ c.lastAttacker \in [Players -> Players \cup {Tk!None}]
  BY <1>4, SameBooks
<1>6. /\ d.attackers = [c.attackers EXCEPT ![p] = Tk!Blank]
      /\ d.attacked = [c.attacked EXCEPT ![p] = {}]
      /\ d.banDue = [c.banDue EXCEPT ![p] = 0]
  BY <1>3, <1>4 DEF Books
<1>7. Tk!Blank \in [Players -> Nat] /\ \A q \in Players : Tk!Blank[q] = 0
  BY DEF Tk!Blank
<1>8. d \in Books
  <2>1. [c.attackers EXCEPT ![p] = Tk!Blank] \in [Players -> [Players -> Nat]]
    BY <1>5, <1>7
  <2>2. /\ [c.attacked EXCEPT ![p] = {}] \in [Players -> SUBSET Players]
        /\ [c.grudged EXCEPT ![p] = {}] \in [Players -> SUBSET Players]
        /\ [c.warnings EXCEPT ![p] = {}] \in [Players -> SUBSET Players]
        /\ [c.lastWarned EXCEPT ![p] = 0] \in [Players -> Nat]
        /\ [c.banDue EXCEPT ![p] = 0] \in [Players -> Nat]
        /\ [c.lastAttacker EXCEPT ![p] = Tk!None] \in [Players -> Players \cup {Tk!None}]
    BY <1>5
  <2> QED
    BY <1>3, <1>4, <2>1, <2>2 DEF Books
<1>9. \A v, q \in Players : d.attackers[v][q] = IF v = p THEN 0 ELSE c.attackers[v][q]
  BY <1>1, <1>5, <1>6, <1>7
<1>10. \A q \in Players : /\ d.attacked[q] = IF q = p THEN {} ELSE c.attacked[q]
                          /\ d.banDue[q] = IF q = p THEN 0 ELSE c.banDue[q]
  BY <1>1, <1>5, <1>6
<1>11. BooksAgree(d, connected \ {p})
  <2>1. ASSUME NEW v \in Players \ (connected \ {p}), NEW q \in Players
        PROVE  d.attackers[v][q] = 0
    BY <1>4, <1>9 DEF BooksAgree
  <2>2. ASSUME NEW v \in connected \ {p}, NEW q \in Players, d.attackers[v][q] > 0
        PROVE  q \in connected \ {p} /\ v \in d.attacked[q]
    <3>1. c.attackers[v][q] > 0
      BY <1>1, <1>9, <2>2
    <3>2. q # p
      BY <1>2, <3>1
    <3> QED
      BY <1>4, <1>10, <3>1, <3>2 DEF BooksAgree
  <2> QED
    BY <2>1, <2>2 DEF BooksAgree
<1>12. WrittenOff(c, d, connected \ {p})
  <2>1. \A v, q \in Players : c.attackers[v][q] \in Nat
    BY <1>5
  <2> QED
    BY <1>1, <1>8, <1>9, <1>10, <1>11, <2>1 DEF WrittenOff
<1>13. /\ Sound(c, connected, now)
       /\ \A a \in Players : Within(books, connected, a) => Within(c, connected, a)
  BY <1>1, <1>2, WritingOff
<1>14. /\ Sound(d, connected \ {p}, now)
       /\ \A a \in Players : Within(c, connected, a) => Within(d, connected \ {p}, a)
  BY <1>1, <1>12, <1>13, WritingOff
<1> QED
  BY <1>13, <1>14 DEF BooksInv, d

\* Whatever only writes debts off keeps the books.
LEMMA BooksSettle ==
  ASSUME DamageMatters, BooksInv, WrittenOff(books, books', connected'), UNCHANGED now
  PROVE  BooksInv'
<1>1. Sound(books, connected, now) /\ now \in Nat /\ now \in 1..MaxTime
  BY DEF BooksInv
<1>2. /\ Sound(books', connected', now)
      /\ \A a \in Players : Within(books, connected, a) => Within(books', connected', a)
  BY <1>1, WritingOff
<1> QED
  BY <1>1, <1>2 DEF BooksInv

LEMMA BooksHoldAtFirst ==
  DamageMatters /\ Tk!Init => BooksInv
<1> SUFFICES ASSUME DamageMatters, Tk!Init PROVE BooksInv
  OBVIOUS
<1>1. /\ now = 1 /\ connected = Players
      /\ books = [attackers |-> [p \in Players |-> Tk!Blank], attacked |-> [p \in Players |-> {}],
                  grudged |-> [p \in Players |-> {}], warnings |-> [p \in Players |-> {}],
                  lastWarned |-> Tk!Blank, banDue |-> Tk!Blank,
                  lastAttacker |-> [p \in Players |-> Tk!None]]
  BY DEF Tk!Init
<1>2. Tk!Blank \in [Players -> Nat] /\ \A q \in Players : Tk!Blank[q] = 0
  BY DEF Tk!Blank
<1>3. books \in Books
  BY <1>1, <1>2 DEF Books
<1>4. \A a \in Players : books.attacked[a] = {} /\ books.banDue[a] = 0
  BY <1>1, <1>2
<1>5. \A v, a \in Players : books.attackers[v][a] = 0
  BY <1>1, <1>2
<1>6. Sound(books, connected, now)
  BY <1>1, <1>3, <1>4, <1>5 DEF Sound, BooksAgree, DamageMatters
<1>7. \A a \in Players : Within(books, connected, a)
  BY <1>4, NothingDue
<1>8. now \in 1..MaxTime
  BY <1>1 DEF DamageMatters
<1> QED
  BY ONLY <1>6, <1>7, <1>8 DEF BooksInv

LEMMA BooksHoldHit ==
  ASSUME DamageMatters, BooksInv, NEW a \in Players, NEW v \in Players, NEW points \in Nat,
         NEW killed \in BOOLEAN, Tk!Hit(a, v, points, killed)
  PROVE  BooksInv'
<1> DEFINE scaled == Tk!Scaled(a, points, killed)
           hurt == Tk!Damaged(books, a, v, scaled)
           b == Tk!Warned(hurt, a, v, scaled)
<1>1. /\ a \in connected /\ v \in connected /\ Tk!CheckLimit(b, a)
      /\ now' = now /\ connected' = connected
  BY DEF Tk!Hit
<1>2. scaled \in Nat
  BY ScaledIsWhole
<1>3. /\ Sound(books, connected, now) /\ now \in Nat \ {0} /\ now \in 1..MaxTime
      /\ \A q \in Players : Within(books, connected, q)
  BY DEF BooksInv
<1> HIDE DEF scaled
<1>4. /\ Sound(hurt, connected, now)
      /\ \A q \in Players \ {a} :
            Within(books, connected, q) => Within(hurt, connected, q)
  BY <1>1, <1>2, <1>3, Damaging
<1> HIDE DEF hurt
<1>5. WrittenOff(hurt, b, connected)
  BY <1>2, <1>3, <1>4, Warning
<1> HIDE DEF b
<1>6. /\ Sound(b, connected, now)
      /\ \A q \in Players : Within(hurt, connected, q) => Within(b, connected, q)
  BY <1>3, <1>4, <1>5, WritingOff
<1>7. \A q \in Players \ {a} : Within(b, connected, q)
  BY <1>3, <1>4, <1>6
<1>8. Sound(books', connected, now) /\ \A q \in Players : Within(books', connected, q)
  BY <1>1, <1>3, <1>6, <1>7, Checked
<1> QED
  BY <1>1, <1>3, <1>8 DEF BooksInv

LEMMA BooksHoldDeadline ==
  ASSUME DamageMatters, BooksInv, NEW a \in Players, Tk!Deadline(a)
  PROVE  BooksInv'
<1> DEFINE e == Tk!Counted(books, a)
           b == [e EXCEPT !.banDue[a] = 0]
           points == Tk!Points(books, a)
<1>1. /\ a \in connected /\ now' = now /\ connected' = connected
      /\ points < MaxPoints => books' = b
      /\ ~(points < MaxPoints) => books' = Tk!AllForgiven(b, a)
  BY DEF Tk!Deadline
<1>2. /\ Sound(books, connected, now) /\ now \in Nat /\ now \in 1..MaxTime
      /\ connected \in SUBSET Players /\ books \in Books
      /\ \A q \in Players : Within(books, connected, q)
  BY DEF BooksInv, Sound
<1>3. WrittenOff(books, e, connected)
  BY <1>2, CountingOff
<1>4. points = Cardinality(Dues(books, a, connected))
  BY DuesAreCounted
<1> HIDE DEF e
<1>5. /\ Sound(e, connected, now)
      /\ \A q \in Players : Within(e, connected, q)
      /\ Dues(e, a, connected) \subseteq Dues(books, a, connected)
  BY <1>2, <1>3, WritingOff
<1>6. 0 \in Nat /\ 0 <= now + ForgiveGrace
  BY <1>2 DEF DamageMatters
<1>7. /\ Sound(b, connected, now) /\ b.banDue[a] = 0
      /\ Dues(b, a, connected) = Dues(e, a, connected)
      /\ \A q \in Players \ {a} : Within(b, connected, q)
  <2>1. /\ Sound(b, connected, now) /\ b.banDue[a] = 0
        /\ \A q \in Players : Dues(b, q, connected) = Dues(e, q, connected)
        /\ \A q \in Players \ {a} : Within(e, connected, q) => Within(b, connected, q)
    BY ONLY DamageMatters, <1>2, <1>5, <1>6, Dated, a \in Players
  <2> HIDE DEF b
  <2> QED
    BY <1>5, <2>1
<1> HIDE DEF b
<1>8. CASE points < MaxPoints
  <2>1. PICK most \in Nat : \A x, q \in Players : books.attackers[x][q] <= most
    BY <1>2 DEF Sound
  <2>2. IsFiniteSet(Dues(books, a, connected)) /\ points \in Nat
    BY <1>2, <1>4, <2>1, DuesAreFinite
  <2>3. Dues(b, a, connected) \subseteq Dues(books, a, connected)
    BY <1>5, <1>7
  <2>4. /\ Cardinality(Dues(b, a, connected)) \in Nat
        /\ Cardinality(Dues(b, a, connected)) <= points
    BY ONLY <1>4, <2>2, <2>3, FS_Subset, FS_CardinalityType
  <2> HIDE DEF points
  <2>5. /\ 2 * Cardinality(Dues(b, a, connected)) < 3 * MaxPoints
        /\ ~(Cardinality(Dues(b, a, connected)) >= MaxPoints)
    BY <1>8, <2>2, <2>4 DEF DamageMatters
  <2>6. Within(b, connected, a)
    BY ONLY <2>5 DEF Within
  <2>7. books' = b
    BY <1>1, <1>8
  <2> QED
    BY <1>1, <1>2, <1>7, <2>6, <2>7 DEF BooksInv
<1>9. CASE ~(points < MaxPoints)
  <2> HIDE DEF points
  <2>1. books' = Tk!AllForgiven(b, a)
    BY <1>1, <1>9
  <2>2. WrittenOff(b, books', connected) /\ books'.attacked[a] = {}
    BY <1>1, <1>2, <1>7, <2>1, ForgivingAll
  <2>3. /\ Sound(books', connected, now)
        /\ \A q \in Players : Within(b, connected, q) => Within(books', connected, q)
    BY <1>2, <1>7, <2>2, WritingOff
  <2>4. Within(books', connected, a)
    BY <2>2, NothingDue
  <2> QED
    BY <1>1, <1>2, <1>7, <2>3, <2>4 DEF BooksInv
<1> QED
  BY <1>8, <1>9

\* Halving, forgiving and grudges, comings and goings, and time.
LEMMA BooksHoldHalved ==
  ASSUME DamageMatters, BooksInv, Tk!HalvePoints, UNCHANGED <<now, connected>>
  PROVE  BooksInv'
<1>1. books' = Tk!Halved(books)
  BY DEF Tk!HalvePoints
<1>2. /\ Sound(books', connected, now)
      /\ \A a \in Players : Within(books', connected, a)
  BY <1>1, Halving
<1> QED
  BY <1>2 DEF BooksInv

LEMMA BooksHoldForgiven ==
  ASSUME DamageMatters, BooksInv, NEW pairs, \A x \in pairs : x \in connected \X Players,
         books' = Tk!Forgiven(books, pairs), UNCHANGED <<now, connected>>
  PROVE  BooksInv'
<1>1. Sound(books, connected, now) /\ now \in Nat
  BY DEF BooksInv
<1>2. WrittenOff(books, books', connected')
  BY <1>1, Forgiving
<1> QED
  BY <1>2, BooksSettle

LEMMA BooksHoldMoves ==
  ASSUME DamageMatters, BooksInv, NEW p \in Players, Tk!Moves(p)
  PROVE  BooksInv'
<1>1. /\ Sound(books, connected, now) /\ now \in Nat /\ now \in 1..MaxTime
      /\ connected \subseteq Players /\ books \in Books /\ BooksAgree(books, connected)
      /\ \A a \in Players : Within(books, connected, a)
  BY DEF BooksInv, Sound
<1>2. Tk!HeldBy(p) \subseteq Players
  BY DEF Tk!HeldBy
<1>3. CASE Tk!Leave(p)
  <2>1. p \in connected /\ connected' = connected \ {p} /\ books' = Tk!LeftBooks(p) /\ now' = now
    BY <1>3 DEF Tk!Leave
  <2>2. /\ Sound(books', connected', now')
        /\ \A a \in Players : Within(books', connected', a)
    BY <2>1, Leaving
  <2> QED
    BY <1>1, <2>1, <2>2 DEF BooksInv
<1>4. CASE Tk!Enter(p)
  <2>1. connected' = connected \cup {p} /\ books' = books /\ now' = now
    BY <1>4 DEF Tk!Enter
  <2>2. \A v, a \in Players : books.attackers[v][a] \in Nat
    BY <1>1, SameBooks
  <2>3. BooksAgree(books, connected')
    BY <1>1, <2>1, <2>2 DEF BooksAgree
  <2>4. WrittenOff(books, books', connected')
    BY <1>1, <2>1, <2>2, <2>3 DEF WrittenOff
  <2> QED
    BY <2>1, <2>4, BooksSettle
<1>5. CASE Tk!Deadline(p)
  BY <1>5, BooksHoldDeadline
<1>6. CASE Tk!ForgivePrev(p)
  <2>1. /\ p \in connected /\ books.lastAttacker[p] # Tk!None
        /\ books' = Tk!Forgiven(books, {<<p, books.lastAttacker[p]>>})
        /\ now' = now /\ connected' = connected
    BY <1>6 DEF Tk!ForgivePrev
  <2>2. books.lastAttacker[p] \in Players
    BY <1>1, <2>1, SameBooks
  <2>3. \A x \in {<<p, books.lastAttacker[p]>>} : x \in connected \X Players
    BY <2>1, <2>2
  <2> QED
    BY <2>1, <2>3, BooksHoldForgiven
<1>7. CASE Tk!ForgiveAll(p)
  <2> DEFINE pairs == {p} \X (Tk!HeldBy(p) \ books.grudged[p])
  <2>1. p \in connected /\ books' = Tk!Forgiven(books, pairs) /\ now' = now /\ connected' = connected
    BY <1>7 DEF Tk!ForgiveAll
  <2>2. \A x \in pairs : x \in connected \X Players
    BY <1>2, <2>1
  <2> HIDE DEF pairs
  <2> QED
    BY <2>1, <2>2, BooksHoldForgiven
<1>8. CASE Tk!ForgiveClear(p)
  <2>1. p \in connected /\ books' = Tk!AllForgiven(books, p) /\ now' = now /\ connected' = connected
    BY <1>8 DEF Tk!ForgiveClear
  <2>2. WrittenOff(books, books', connected')
    BY <1>1, <2>1, ForgivingAll
  <2> QED
    BY <2>1, <2>2, BooksSettle
<1>9. ASSUME NEW chosen \in SUBSET Attackers, Tk!ForgiveSome(p, chosen) PROVE BooksInv'
  <2> DEFINE pairs == {p} \X chosen
  <2>1. /\ p \in connected /\ chosen \subseteq Tk!HeldBy(p)
        /\ books' = Tk!Forgiven(books, pairs) /\ now' = now /\ connected' = connected
    BY <1>9 DEF Tk!ForgiveSome
  <2>2. \A x \in pairs : x \in connected \X Players
    BY <1>2, <2>1
  <2> HIDE DEF pairs
  <2> QED
    BY <2>1, <2>2, BooksHoldForgiven
<1>10. ASSUME NEW chosen \in SUBSET Attackers, Tk!Grudge(p, chosen) PROVE BooksInv'
  <2>1. /\ p \in connected /\ chosen \subseteq Tk!HeldBy(p) /\ now' = now /\ connected' = connected
        /\ books' = [books EXCEPT !.grudged = [books.grudged EXCEPT ![p] = books.grudged[p] \cup chosen]]
    BY <1>10 DEF Tk!Grudge
  <2>2. [books.grudged EXCEPT ![p] = books.grudged[p] \cup chosen] \in [Players -> SUBSET Players]
    BY <1>1, <1>2, <2>1, SameBooks
  <2>3. /\ books' \in Books /\ books'.attackers = books.attackers
        /\ books'.attacked = books.attacked /\ books'.banDue = books.banDue
    BY <1>1, <2>1, <2>2 DEF Books
  <2>4. \A v, a \in Players : books.attackers[v][a] \in Nat
    BY <1>1, SameBooks
  <2>5. BooksAgree(books', connected')
    BY <1>1, <2>1, <2>3 DEF BooksAgree
  <2>6. WrittenOff(books, books', connected')
    BY <1>1, <2>1, <2>3, <2>4, <2>5 DEF WrittenOff
  <2> QED
    BY <2>1, <2>6, BooksSettle
<1> QED
  BY <1>3, <1>4, <1>5, <1>6, <1>7, <1>8, <1>9, <1>10 DEF Tk!Moves

LEMMA BooksHoldNext ==
  DamageMatters /\ BooksInv /\ [Tk!Next]_(Tk!vars) => BooksInv'
<1> SUFFICES ASSUME DamageMatters, BooksInv, [Tk!Next]_(Tk!vars) PROVE BooksInv'
  OBVIOUS
<1>1. CASE Tk!Tick
  <2>1. now \in 1..MaxTime /\ now < MaxTime /\ now' = now + 1 /\ books' = books /\ connected' = connected
    BY <1>1 DEF Tk!Tick, BooksInv
  <2>2. now' \in 1..MaxTime
    BY <2>1 DEF DamageMatters
  <2>3. \A a \in Players : books.banDue[a] \in Nat
    BY SameBooks DEF BooksInv, Sound
  <2>4. \A a \in Players : books.banDue[a] <= now + ForgiveGrace
    BY DEF BooksInv, Sound
  <2>5. \A a \in Players : books.banDue[a] <= now' + ForgiveGrace
    BY <2>1, <2>3, <2>4 DEF DamageMatters
  <2>6. Sound(books', connected', now')
    BY <2>1, <2>5 DEF BooksInv, Sound
  <2> QED
    BY <2>1, <2>2, <2>6 DEF BooksInv
<1>2. CASE Tk!RoundStart
  <2>1. UNCHANGED <<now, books, connected>>
    BY <1>2 DEF Tk!RoundStart
  <2> QED
    BY <2>1 DEF BooksInv
<1>3. CASE Tk!RoundOver
  BY <1>3, BooksHoldHalved DEF Tk!RoundOver
<1>4. CASE Tk!HalfLifePasses
  BY <1>4, BooksHoldHalved DEF Tk!HalfLifePasses
<1>5. CASE Tk!Fights
  <2>1. PICK a \in Attackers, v \in Players :
          Tk!Hit(a, v, Kill, TRUE) \/ \E points \in Damages : Tk!Hit(a, v, points, FALSE)
    BY <1>5 DEF Tk!Fights
  <2>2. a \in Players /\ Kill \in Nat /\ Damages \subseteq Nat
    BY DEF DamageMatters
  <2>3. CASE Tk!Hit(a, v, Kill, TRUE)
    BY <2>2, <2>3, BooksHoldHit
  <2>4. CASE \E points \in Damages : Tk!Hit(a, v, points, FALSE)
    <3>1. PICK points \in Damages : Tk!Hit(a, v, points, FALSE)
      BY <2>4
    <3> QED
      BY <2>2, <3>1, BooksHoldHit
  <2> QED
    BY <2>1, <2>3, <2>4
<1>6. ASSUME NEW p \in Players, Tk!Moves(p) PROVE BooksInv'
  BY <1>6, BooksHoldMoves
<1>7. CASE UNCHANGED Tk!vars
  BY <1>7 DEF Tk!vars, BooksInv
<1> QED
  BY <1>1, <1>2, <1>3, <1>4, <1>5, <1>6, <1>7 DEF Tk!Next

LEMMA BooksHoldSay ==
  DamageMatters /\ BooksInv => Tk!TypeOK /\ Tk!OverTheLimitIsOnNotice
<1> SUFFICES ASSUME DamageMatters, BooksInv PROVE Tk!TypeOK /\ Tk!OverTheLimitIsOnNotice
  OBVIOUS
<1>1. /\ Sound(books, connected, now) /\ now \in Nat \ {0} /\ now \in 1..MaxTime
      /\ connected \in SUBSET Players /\ books \in Books /\ BooksAgree(books, connected)
      /\ \A a \in Players : Within(books, connected, a)
  BY DEF BooksInv, Sound
<1>2. PICK most \in Nat : \A x, q \in Players : books.attackers[x][q] <= most
  BY <1>1 DEF Sound
<1>3. ASSUME NEW a \in Players
      PROVE  /\ Cardinality(Dues(books, a, connected)) \in Nat
             /\ 2 * Cardinality(Dues(books, a, connected)) < 3 * MaxPoints
  BY <1>1, <1>2, DuesAreFinite DEF Within
<1>4. ASSUME NEW v \in Players, NEW a \in Players
      PROVE  books.attackers[v][a] \in 0..(2 * MaxPoints)
  <2>1. books.attackers[v][a] \in Nat
    BY <1>1, SameBooks
  <2>2. CASE books.attackers[v][a] = 0
    BY <2>2 DEF DamageMatters
  <2>3. CASE books.attackers[v][a] > 0
    <3>1. v \in connected
      BY <1>1, <2>3 DEF BooksAgree
    <3>2. v \in books.attacked[a]
      BY <1>1, <2>3, <3>1 DEF BooksAgree
    <3>3. books.attackers[v][a] <= Cardinality(Dues(books, a, connected))
      BY <1>1, <1>2, <3>1, <3>2, OneDue
    <3> QED
      BY <1>3, <2>1, <3>3 DEF DamageMatters
  <2> QED
    BY <2>1, <2>2, <2>3
<1>5. Tk!TypeOK
  <2>1. \A p \in Players : /\ books.attacked[p] \subseteq Players /\ books.grudged[p] \subseteq Players
                           /\ books.lastAttacker[p] \in Players \cup {Tk!None}
    BY <1>1, SameBooks
  <2> QED
    BY <1>1, <1>4, <2>1 DEF Tk!TypeOK
<1>6. ASSUME NEW a \in Players, Tk!Points(books, a) >= MaxPoints
      PROVE  books.banDue[a] \in 1..(now + ForgiveGrace)
  <2>1. Tk!Points(books, a) = Cardinality(Dues(books, a, connected))
    BY DuesAreCounted
  <2>2. books.banDue[a] # 0
    BY <1>1, <1>6, <2>1 DEF Within
  <2>3. books.banDue[a] \in Nat /\ books.banDue[a] <= now + ForgiveGrace
    BY <1>1, SameBooks DEF Sound
  <2> QED
    BY <1>1, <2>2, <2>3 DEF DamageMatters
<1>7. Tk!OverTheLimitIsOnNotice
  BY <1>1, <1>6 DEF Tk!OverTheLimitIsOnNotice, BooksAgree
<1> QED
  BY <1>5, <1>7

\* Whoever is over the limit has a deadline, both halves of the books agree and nothing is
\* held against a slot its player has left, for any players, points, multipliers and limits,
\* through hits, halving, forgiveness, and players who leave and come.
\* (plugins/tk/__init__.py:166-176, 287-302, 526-567, 578-616)
THEOREM NoticesAreGiven ==
  ASSUME DamageMatters
  PROVE  Tk!Spec => [](Tk!TypeOK /\ Tk!OverTheLimitIsOnNotice)
<1>1. Tk!Init => BooksInv
  BY BooksHoldAtFirst
<1>2. BooksInv /\ [Tk!Next]_(Tk!vars) => BooksInv'
  BY BooksHoldNext
<1>3. BooksInv => Tk!TypeOK /\ Tk!OverTheLimitIsOnNotice
  BY BooksHoldSay
<1> QED
  BY <1>1, <1>2, <1>3, PTL DEF Tk!Spec
================================================================================
