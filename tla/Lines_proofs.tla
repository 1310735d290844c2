----------------------------- MODULE Lines_proofs -----------------------------
(* Where the lines come from, for any log, gap, delays and numbers of events,    *)
(* commands and faults: what is handed over is what was said, once and in order. *)
EXTENDS MCLines, FiniteSetTheorems, SequenceTheorems, WellFoundedInduction, TLAPS

-----------------------------------------------------------------------------
(* The invariant of Streams.                                                  *)

Words == {"kick", "list", "refused", "none"}
Message == [type : {"event", "reply"}, id : Nat, word : Words]
Said == Nat \X Nat

StreamTypes ==
    /\ Flow!TypeOK
    /\ up \in BOOLEAN /\ right \in BOOLEAN /\ open \in BOOLEAN
    /\ connected \in BOOLEAN /\ ended \in BOOLEAN
    /\ conn \in Nat /\ wire \in Seq(Message) /\ owed \subseteq Nat \X Words
    /\ ended => game = "homefront"
    /\ pc # "idle" => game \in {"frostbite", "ravaged"}
    /\ pc = "pump" => game = "ravaged"

\* What keeps a refused password from being tried again: the time left and the time gone by
\* make up the longest wait.
RetriesInv ==
    /\ refused < RetryMax => ~connected /\ retryIn + refused >= RetryMax
    /\ game = "ravaged" => refused = RetryMax
    /\ game = "frostbite" /\ pc # "idle" => connected

\* The events of w are numbered upwards, none later than the last there was.
Ahead(w, last) ==
    \A i \in 1..Len(w) : Flow!IsEvent(w[i]) =>
        /\ w[i].id \in 1..last
        /\ \A j \in 1..Len(w) : Flow!IsEvent(w[j]) /\ i < j => w[i].id < w[j].id

\* What is said in t is from before what is in w on connection c.
Before(t, w, c, last) ==
    \A a \in 1..Len(t) :
        \/ t[a][1] < c
        \/ /\ t[a][1] = c /\ t[a][2] <= last
           /\ \A i \in 1..Len(w) : Flow!IsEvent(w[i]) => t[a][2] < w[i].id

InTurn(t) ==
    \A a, b \in 1..Len(t) :
        a < b => t[a][1] < t[b][1] \/ (t[a][1] = t[b][1] /\ t[a][2] < t[b][2])

\* The events of t are those of h; the rest of t are notices.
Retells(t, h) ==
    /\ \A b \in 1..Len(h) : h[b][2] # 0 /\ \E a \in 1..Len(t) : t[a] = h[b]
    /\ \A a \in 1..Len(t) : t[a][2] # 0 => \E b \in 1..Len(h) : h[b] = t[a]

Tells(t, h, w, c, last) ==
    t \in Seq(Said) /\ h \in Seq(Said) /\ Ahead(w, last) /\ Before(t, w, c, last) /\ InTurn(t)
        /\ Retells(t, h)

StreamInv ==
    game # "ravaged" =>
        /\ out = <<>> /\ kept \in Seq(Said) /\ handed \in Seq(Said)
        /\ game # "frostbite" => kept = <<>>
        /\ Tells(handed \o kept, heard, wire, conn, made)

FlowInv == StreamTypes /\ RetriesInv /\ StreamInv /\ Flow!OwnReply

-----------------------------------------------------------------------------
(* Counting.                                                                  *)

LEMMA Smallest ==
  ASSUME NEW B \in SUBSET Nat, B # {}
  PROVE  \E n \in B : \A m \in B : n <= m
<1>1. PICK n \in B : \A m \in B : ~(<<m, n>> \in OpToRel(<, Nat))
  BY NatLessThanWellFounded, WFMin
<1>2. ASSUME NEW m \in B, m < n PROVE <<m, n>> \in OpToRel(<, Nat)
  <2>1. <<m, n>> \in Nat \X Nat /\ <<m, n>>[1] < <<m, n>>[2]
    BY <1>2
  <2> QED
    BY <2>1 DEF OpToRel
<1>3. \A m \in B : n <= m
  <2>1. \A m \in B : m \in Nat /\ n \in Nat /\ ~(m < n)
    BY <1>1, <1>2
  <2> QED
    BY <2>1
<1> QED
  BY <1>3

\* Induction over a set of numbers.
LEMMA Counting ==
  ASSUME NEW n \in Nat, NEW S, 0 \in S, \A k \in 1..n : k - 1 \in S => k \in S
  PROVE  \A k \in 0..n : k \in S
<1> DEFINE B == {k \in 0..n : k \notin S}
<1>1. SUFFICES ASSUME B # {} PROVE FALSE
  OBVIOUS
<1>2. PICK k \in B : \A m \in B : k <= m
  <2>1. B \in SUBSET Nat
    OBVIOUS
  <2> HIDE DEF B
  <2> QED
    BY <1>1, <2>1, Smallest
<1>3. k \in 1..n /\ k - 1 \in 0..n /\ ~(k <= k - 1)
  BY <1>2
<1>4. k - 1 \in S
  BY <1>2, <1>3
<1> QED
  BY <1>3, <1>4

-----------------------------------------------------------------------------
(* The events of a sequence.                                                  *)

\* What EventsIn computes for the first k messages of s.
Told(s, c, k, t) ==
    /\ t \in Seq(Said)
    /\ \A a \in 1..Len(t) : \E i \in 1..k : Flow!IsEvent(s[i]) /\ t[a] = <<c, s[i].id>>
    /\ \A a, b \in 1..Len(t) : a < b => t[a][2] < t[b][2]

More(s, c, k, t) == IF Flow!IsEvent(s[k]) THEN Append(t, <<c, s[k].id>>) ELSE t

LEMMA ToldMore ==
  ASSUME NEW s \in Seq(Message), NEW last \in Nat, Ahead(s, last), NEW c \in Nat, NEW k \in 1..Len(s),
         NEW t, Told(s, c, k - 1, t)
  PROVE  Told(s, c, k, More(s, c, k, t))
<1>1. CASE ~Flow!IsEvent(s[k])
  BY <1>1 DEF Told, More
<1>2. CASE Flow!IsEvent(s[k])
  <2> DEFINE e == <<c, s[k].id>>
             u == Append(t, e)
  <2>1. e \in Said /\ e[2] = s[k].id /\ t \in Seq(Said)
    <3>1. s[k] \in Message
      OBVIOUS
    <3> QED
      BY <3>1 DEF Said, Message, Told
  <2>2. u \in Seq(Said) /\ Len(u) = Len(t) + 1 /\ (\A a \in 1..Len(t) : u[a] = t[a]) /\ u[Len(t) + 1] = e
    BY <2>1, AppendProperties
  <2>3. Len(t) \in Nat
    BY <2>1
  <2>4. ASSUME NEW a \in 1..Len(u) PROVE \E i \in 1..k : Flow!IsEvent(s[i]) /\ u[a] = <<c, s[i].id>>
    <3>1. CASE a = Len(t) + 1
      BY <1>2, <2>2, <3>1
    <3>2. CASE a \in 1..Len(t)
      <4>1. PICK i \in 1..(k - 1) : Flow!IsEvent(s[i]) /\ t[a] = <<c, s[i].id>>
        BY <3>2 DEF Told
      <4> QED
        BY <2>2, <3>2, <4>1
    <3> HIDE DEF u
    <3> QED
      BY ONLY <2>2, <2>3, <3>1, <3>2
  <2>5. ASSUME NEW a \in 1..Len(u), NEW b \in 1..Len(u), a < b PROVE u[a][2] < u[b][2]
    <3> HIDE DEF u
    <3>1. a \in 1..Len(t)
      BY <2>2, <2>3, <2>5
    <3>2. CASE b \in 1..Len(t)
      BY <2>2, <2>5, <3>1, <3>2 DEF Told
    <3>3. CASE b = Len(t) + 1
      <4>1. PICK i \in 1..(k - 1) : Flow!IsEvent(s[i]) /\ t[a] = <<c, s[i].id>>
        BY <3>1 DEF Told
      <4>2. s[i].id < s[k].id
        <5>1. i \in 1..Len(s) /\ i < k
          OBVIOUS
        <5> QED
          BY <1>2, <4>1, <5>1 DEF Ahead
      <4>3. u[a] = <<c, s[i].id>> /\ u[b] = e
        BY <2>2, <3>1, <3>3, <4>1
      <4> QED
        BY <2>1, <4>2, <4>3
    <3> QED
      BY <2>2, <2>3, <3>2, <3>3
  <2> HIDE DEF u
  <2>6. Told(s, c, k, u)
    BY <2>2, <2>4, <2>5 DEF Told
  <2> QED
    BY <1>2, <2>6 DEF More, u
<1> QED
  BY <1>1, <1>2

\* EventsIn is a function of its own, for as many messages as one likes.
Upto(s, c, n, f) ==
    f = [i \in 0..n |-> IF i = 0 THEN <<>>
                        ELSE IF Flow!IsEvent(s[i]) THEN Append(f[i - 1], <<c, s[i].id>>) ELSE f[i - 1]]

LEMMA UptoMore ==
  ASSUME NEW s, NEW c, NEW k \in Nat \ {0}, NEW f, Upto(s, c, k - 1, f)
  PROVE  Upto(s, c, k, [i \in 0..k |-> IF i = k THEN More(s, c, k, f[k - 1]) ELSE f[i]])
<1> DEFINE g == [i \in 0..k |-> IF i = k THEN More(s, c, k, f[k - 1]) ELSE f[i]]
           Fill(i) == IF i = 0 THEN <<>>
                      ELSE IF Flow!IsEvent(s[i]) THEN Append(g[i - 1], <<c, s[i].id>>) ELSE g[i - 1]
           FillOld(i) == IF i = 0 THEN <<>>
                         ELSE IF Flow!IsEvent(s[i]) THEN Append(f[i - 1], <<c, s[i].id>>) ELSE f[i - 1]
<1>1. \A i \in 0..(k - 1) : f[i] = FillOld(i)
  BY DEF Upto
<1>2. \A i \in 0..(k - 1) : g[i] = f[i]
  OBVIOUS
<1>3. g[k] = More(s, c, k, f[k - 1])
  OBVIOUS
<1>4. ASSUME NEW i \in 0..k PROVE g[i] = Fill(i)
  <2>1. CASE i = 0
    <3>1. 0 \in 0..(k - 1)
      OBVIOUS
    <3>2. f[0] = <<>>
      BY <1>1, <3>1
    <3> HIDE DEF g
    <3> QED
      BY <1>2, <2>1, <3>1, <3>2
  <2>2. CASE i = k
    <3>1. g[k - 1] = f[k - 1] /\ k # 0
      BY <1>2
    <3> QED
      BY <1>3, <2>2, <3>1 DEF More
  <2>3. CASE i # 0 /\ i # k
    <3>1. i \in 0..(k - 1) /\ i - 1 \in 0..(k - 1)
      BY <2>3
    <3>2. g[i - 1] = f[i - 1] /\ g[i] = FillOld(i)
      BY <1>1, <1>2, <3>1
    <3> HIDE DEF g
    <3> QED
      BY <3>2
  <2> QED
    BY <2>1, <2>2, <2>3
<1>5. g = [i \in 0..k |-> g[i]]
  OBVIOUS
<1>6. [i \in 0..k |-> g[i]] = [i \in 0..k |-> Fill(i)]
  <2> HIDE DEF g, Fill
  <2> QED
    BY <1>4
<1>7. g = [i \in 0..k |-> Fill(i)]
  BY <1>5, <1>6
<1> QED
  BY <1>7 DEF Upto

LEMMA UptoExists == ASSUME NEW s, NEW c, NEW n \in Nat PROVE \E f : Upto(s, c, n, f)
<1> DEFINE S == {k \in 0..n : \E f : Upto(s, c, k, f)}
<1>1. 0 \in S
  <2> DEFINE f == [i \in 0..0 |-> <<>>]
  <2>1. f = [i \in 0..0 |-> IF i = 0 THEN <<>>
              ELSE IF Flow!IsEvent(s[i]) THEN Append(f[i - 1], <<c, s[i].id>>) ELSE f[i - 1]]
    OBVIOUS
  <2>2. Upto(s, c, 0, f)
    BY <2>1 DEF Upto
  <2> QED
    BY <2>2
<1>2. ASSUME NEW k \in 1..n, k - 1 \in S PROVE k \in S
  <2>1. PICK f : Upto(s, c, k - 1, f)
    BY <1>2
  <2>2. k \in Nat \ {0} /\ k \in 0..n
    OBVIOUS
  <2> QED
    BY <2>1, <2>2, UptoMore
<1>3. \A k \in 0..n : k \in S
  <2> HIDE DEF S
  <2> QED
    BY <1>1, <1>2, Counting
<1> QED
  BY <1>3

LEMMA EventsTold ==
  ASSUME NEW s \in Seq(Message), NEW last \in Nat, Ahead(s, last), conn \in Nat
  PROVE  Told(s, conn, Len(s), Flow!EventsIn(s))
<1>1. Len(s) \in Nat
  OBVIOUS
<1>2. Flow!EventsIn(s) = (CHOOSE f : Upto(s, conn, Len(s), f))[Len(s)]
  BY DEF Flow!EventsIn, Upto
<1>3. PICK f : Upto(s, conn, Len(s), f) /\ Flow!EventsIn(s) = f[Len(s)]
  BY <1>1, <1>2, UptoExists
<1> DEFINE S == {k \in 0..Len(s) : Told(s, conn, k, f[k])}
<1>4. 0 \in S
  <2>1. f[0] = <<>>
    BY <1>1, <1>3 DEF Upto
  <2>2. <<>> \in Seq(Said) /\ Len(<<>>) = 0
    OBVIOUS
  <2> QED
    <3>1. Told(s, conn, 0, <<>>)
      BY <2>2 DEF Told
    <3> QED
      BY <1>1, <2>1, <3>1
<1>5. ASSUME NEW k \in 1..Len(s), k - 1 \in S PROVE k \in S
  <2>1. k \in 0..Len(s) /\ k # 0
    OBVIOUS
  <2>2. f[k] = More(s, conn, k, f[k - 1])
    BY <1>3, <2>1 DEF Upto, More
  <2> QED
    BY <1>5, <2>1, <2>2, ToldMore
<1>6. \A k \in 0..Len(s) : k \in S
  <2> HIDE DEF S
  <2> QED
    BY <1>1, <1>4, <1>5, Counting
<1> QED
  BY <1>1, <1>3, <1>6

-----------------------------------------------------------------------------
(* What is said, and in which order.                                          *)

LEMMA TailOf ==
  ASSUME NEW w \in Seq(Message), NEW m \in 0..Len(w)
  PROVE  /\ SubSeq(w, m + 1, Len(w)) \in Seq(Message)
         /\ Len(SubSeq(w, m + 1, Len(w))) = Len(w) - m
         /\ \A i \in 1..(Len(w) - m) : SubSeq(w, m + 1, Len(w))[i] = w[m + i]
<1>1. \A i \in (m + 1)..Len(w) : w[i] \in Message
  OBVIOUS
<1>2. m + 1 \in Int /\ Len(w) \in Int /\ m \in Int
  OBVIOUS
<1>3. /\ SubSeq(w, m + 1, Len(w)) \in Seq(Message)
      /\ Len(SubSeq(w, m + 1, Len(w))) = IF m + 1 <= Len(w) THEN Len(w) - (m + 1) + 1 ELSE 0
      /\ \A i \in 1..(Len(w) - (m + 1) + 1) : SubSeq(w, m + 1, Len(w))[i] = w[m + 1 + i - 1]
  BY <1>1, <1>2, SubSeqProperties
<1> QED
  BY <1>3, <1>2

LEMMA HeadOf ==
  ASSUME NEW w \in Seq(Message), NEW k \in 0..Len(w)
  PROVE  /\ SubSeq(w, 1, k) \in Seq(Message) /\ Len(SubSeq(w, 1, k)) = k
         /\ \A i \in 1..k : SubSeq(w, 1, k)[i] = w[i]
<1>1. \A i \in 1..k : w[i] \in Message
  OBVIOUS
<1>2. /\ SubSeq(w, 1, k) \in Seq(Message) /\ Len(SubSeq(w, 1, k)) = IF 1 <= k THEN k - 1 + 1 ELSE 0
      /\ \A i \in 1..(k - 1 + 1) : SubSeq(w, 1, k)[i] = w[1 + i - 1]
  BY <1>1, SubSeqProperties
<1> QED
  BY <1>2

\* What a read takes off the connection.
LEMMA Taken ==
  ASSUME NEW w \in Seq(Message), NEW last \in Nat, Ahead(w, last), conn \in Nat, NEW k \in 0..Len(w)
  PROVE  Told(w, conn, k, Flow!EventsIn(SubSeq(w, 1, k)))
<1> DEFINE s == SubSeq(w, 1, k)
<1>1. s \in Seq(Message) /\ Len(s) = k /\ \A i \in 1..k : s[i] = w[i]
  BY HeadOf
<1> HIDE DEF s
<1>2. Ahead(s, last)
  <2>1. \A i \in 1..k : i \in 1..Len(w)
    OBVIOUS
  <2> QED
    BY <1>1, <2>1 DEF Ahead
<1>3. Told(s, conn, k, Flow!EventsIn(s))
  BY <1>1, <1>2, EventsTold
<1>4. Told(w, conn, k, Flow!EventsIn(s))
  BY <1>1, <1>3 DEF Told
<1> QED
  BY <1>4 DEF s

LEMMA AheadTail ==
  ASSUME NEW w \in Seq(Message), NEW m \in 0..Len(w), NEW last \in Nat, Ahead(w, last)
  PROVE  Ahead(SubSeq(w, m + 1, Len(w)), last)
<1> DEFINE v == SubSeq(w, m + 1, Len(w))
<1>1. Len(v) = Len(w) - m /\ \A i \in 1..(Len(w) - m) : v[i] = w[m + i]
  BY TailOf
<1> HIDE DEF v
<1>2. \A i, j \in 1..Len(v) : m + i \in 1..Len(w) /\ (i < j => m + i < m + j)
  BY <1>1
<1>3. Ahead(v, last)
  BY <1>1, <1>2 DEF Ahead
<1> QED
  BY <1>3 DEF v

LEMMA BeforeTail ==
  ASSUME NEW w \in Seq(Message), NEW m \in 0..Len(w), NEW last \in Nat, NEW c, NEW t, Before(t, w, c, last)
  PROVE  Before(t, SubSeq(w, m + 1, Len(w)), c, last)
<1> DEFINE v == SubSeq(w, m + 1, Len(w))
<1>1. Len(v) = Len(w) - m /\ \A i \in 1..(Len(w) - m) : v[i] = w[m + i]
  BY TailOf
<1> HIDE DEF v
<1>2. \A i \in 1..Len(v) : m + i \in 1..Len(w)
  BY <1>1
<1>3. Before(t, v, c, last)
  BY <1>1, <1>2 DEF Before
<1> QED
  BY <1>3 DEF v

\* Nothing is said: what was on the way is read, or lost.
LEMMA SaysNoMore ==
  ASSUME NEW w \in Seq(Message), NEW m \in 0..Len(w), NEW last \in Nat, NEW c \in Nat, NEW t, NEW h,
         Tells(t, h, w, c, last)
  PROVE  Tells(t, h, SubSeq(w, m + 1, Len(w)), c, last)
<1>1. Ahead(SubSeq(w, m + 1, Len(w)), last) /\ Before(t, SubSeq(w, m + 1, Len(w)), c, last)
  BY AheadTail, BeforeTail DEF Tells
<1> QED
  BY <1>1 DEF Tells

LEMMA SaysMore ==
  ASSUME NEW w \in Seq(Message), NEW k \in 0..Len(w), NEW m \in k..Len(w), NEW last \in Nat, NEW c \in Nat,
         NEW t, NEW h, Tells(t, h, w, c, last), NEW e, Told(w, c, k, e)
  PROVE  Tells(t \o e, h \o e, SubSeq(w, m + 1, Len(w)), c, last)
<1> DEFINE v == SubSeq(w, m + 1, Len(w))
           te == t \o e
           he == h \o e
<1>1. t \in Seq(Said) /\ h \in Seq(Said) /\ e \in Seq(Said)
  BY DEF Tells, Told
<1>2. te \in Seq(Said) /\ Len(te) = Len(t) + Len(e)
        /\ \A a \in 1..(Len(t) + Len(e)) : te[a] = IF a <= Len(t) THEN t[a] ELSE e[a - Len(t)]
  BY <1>1, ConcatProperties
<1>3. he \in Seq(Said) /\ Len(he) = Len(h) + Len(e)
        /\ \A a \in 1..(Len(h) + Len(e)) : he[a] = IF a <= Len(h) THEN h[a] ELSE e[a - Len(h)]
  BY <1>1, ConcatProperties
<1>4. Len(v) = Len(w) - m /\ \A i \in 1..(Len(w) - m) : v[i] = w[m + i]
  <2>1. m \in 0..Len(w)
    OBVIOUS
  <2> QED
    BY <2>1, TailOf
<1>5. Ahead(w, last) /\ Before(t, w, c, last) /\ InTurn(t) /\ Retells(t, h)
  BY DEF Tells
<1>6. Ahead(v, last) /\ Before(t, v, c, last)
  <2>1. m \in 0..Len(w)
    OBVIOUS
  <2> QED
    BY <1>5, <2>1, AheadTail, BeforeTail
<1>7. Len(t) \in Nat /\ Len(e) \in Nat /\ Len(h) \in Nat /\ Len(w) \in Nat /\ k <= m
  BY <1>1
<1> HIDE DEF v, te, he
<1>8. ASSUME NEW a \in 1..Len(te)
      PROVE  (a \in 1..Len(t) /\ te[a] = t[a]) \/ \E b \in 1..Len(e) : a = Len(t) + b /\ te[a] = e[b]
  <2>1. CASE a <= Len(t)
    BY <1>2, <1>7, <2>1
  <2>2. CASE ~(a <= Len(t))
    <3>1. a - Len(t) \in 1..Len(e) /\ a = Len(t) + (a - Len(t)) /\ te[a] = e[a - Len(t)]
      BY <1>2, <1>7, <2>2
    <3> QED
      BY <3>1
  <2> QED
    BY <2>1, <2>2
<1>9. ASSUME NEW a \in 1..Len(he)
      PROVE  (a \in 1..Len(h) /\ he[a] = h[a]) \/ \E b \in 1..Len(e) : a = Len(h) + b /\ he[a] = e[b]
  <2>1. CASE a <= Len(h)
    BY <1>3, <1>7, <2>1
  <2>2. CASE ~(a <= Len(h))
    <3>1. a - Len(h) \in 1..Len(e) /\ a = Len(h) + (a - Len(h)) /\ he[a] = e[a - Len(h)]
      BY <1>3, <1>7, <2>2
    <3> QED
      BY <3>1
  <2> QED
    BY <2>1, <2>2
<1>10. /\ \A b \in 1..Len(e) : Len(t) + b \in 1..Len(te) /\ te[Len(t) + b] = e[b]
       /\ \A a \in 1..Len(t) : a \in 1..Len(te) /\ te[a] = t[a]
  <2>1. ASSUME NEW b \in 1..Len(e) PROVE Len(t) + b \in 1..Len(te) /\ te[Len(t) + b] = e[b]
    <3>1. Len(t) + b \in 1..(Len(t) + Len(e)) /\ ~(Len(t) + b <= Len(t)) /\ Len(t) + b - Len(t) = b
      BY <1>7
    <3> QED
      BY ONLY <1>2, <3>1
  <2>2. ASSUME NEW a \in 1..Len(t) PROVE a \in 1..Len(te) /\ te[a] = t[a]
    <3>1. a \in 1..(Len(t) + Len(e)) /\ a <= Len(t)
      BY <1>7
    <3> QED
      BY ONLY <1>2, <3>1
  <2> QED
    BY <2>1, <2>2
<1>11. /\ \A b \in 1..Len(e) : Len(h) + b \in 1..Len(he) /\ he[Len(h) + b] = e[b]
       /\ \A a \in 1..Len(h) : a \in 1..Len(he) /\ he[a] = h[a]
  <2>1. ASSUME NEW b \in 1..Len(e) PROVE Len(h) + b \in 1..Len(he) /\ he[Len(h) + b] = e[b]
    <3>1. Len(h) + b \in 1..(Len(h) + Len(e)) /\ ~(Len(h) + b <= Len(h)) /\ Len(h) + b - Len(h) = b
      BY <1>7
    <3> QED
      BY ONLY <1>3, <3>1
  <2>2. ASSUME NEW a \in 1..Len(h) PROVE a \in 1..Len(he) /\ he[a] = h[a]
    <3>1. a \in 1..(Len(h) + Len(e)) /\ a <= Len(h)
      BY <1>7
    <3> QED
      BY ONLY <1>3, <3>1
  <2> QED
    BY <2>1, <2>2
\* an event of e: of this connection, later than what was told, before what is left
<1>12. ASSUME NEW b \in 1..Len(e)
       PROVE  \E i \in 1..k : i \in 1..Len(w) /\ Flow!IsEvent(w[i]) /\ e[b] = <<c, w[i].id>> /\ e[b][1] = c
                                /\ e[b][2] = w[i].id /\ e[b][2] \in 1..last
  <2>1. PICK i \in 1..k : Flow!IsEvent(w[i]) /\ e[b] = <<c, w[i].id>>
    BY DEF Told
  <2>2. i \in 1..Len(w)
    OBVIOUS
  <2>3. w[i].id \in 1..last
    BY <1>5, <2>1, <2>2 DEF Ahead
  <2> QED
    BY <2>1, <2>2, <2>3
<1>13. Before(te, v, c, last)
  <2>1. ASSUME NEW a \in 1..Len(te)
        PROVE  te[a][1] < c \/ (te[a][1] = c /\ te[a][2] <= last
                 /\ \A j \in 1..Len(v) : Flow!IsEvent(v[j]) => te[a][2] < v[j].id)
    <3>1. CASE a \in 1..Len(t) /\ te[a] = t[a]
      BY <1>6, <3>1 DEF Before
    <3>2. CASE \E b \in 1..Len(e) : a = Len(t) + b /\ te[a] = e[b]
      <4>1. PICK b \in 1..Len(e) : te[a] = e[b]
        BY <3>2
      <4>2. PICK i \in 1..k : i \in 1..Len(w) /\ Flow!IsEvent(w[i]) /\ e[b][1] = c
                                /\ e[b][2] = w[i].id /\ e[b][2] \in 1..last
        BY <1>12
      <4>3. ASSUME NEW j \in 1..Len(v), Flow!IsEvent(v[j]) PROVE e[b][2] < v[j].id
        <5>1. m + j \in 1..Len(w) /\ i < m + j /\ v[j] = w[m + j]
          <6>1. j \in 1..(Len(w) - m) /\ m + j \in 1..Len(w) /\ i < m + j
            BY ONLY <1>4, <1>7, m \in k..Len(w), j \in 1..Len(v), i \in 1..k, k \in 0..Len(w)
          <6> QED
            BY <1>4, <6>1
        <5> QED
          BY <1>5, <4>2, <4>3, <5>1 DEF Ahead
      <4>4. e[b][2] <= last
        BY ONLY <4>2, last \in Nat
      <4> QED
        BY <4>1, <4>2, <4>3, <4>4
    <3> QED
      BY <1>8, <3>1, <3>2
  <2> QED
    BY <2>1 DEF Before
<1>14. InTurn(te)
  <2>1. ASSUME NEW a \in 1..Len(te), NEW b \in 1..Len(te), a < b
        PROVE  te[a][1] < te[b][1] \/ (te[a][1] = te[b][1] /\ te[a][2] < te[b][2])
    <3>1. CASE b \in 1..Len(t) /\ te[b] = t[b]
      <4>1. a \in 1..Len(t) /\ te[a] = t[a]
        <5>1. a \in 1..Len(t)
          BY ONLY <1>7, <2>1, <3>1, a \in 1..Len(te)
        <5> QED
          BY <1>10, <5>1
      <4> QED
        BY <1>5, <2>1, <3>1, <4>1 DEF InTurn
    <3>2. CASE \E y \in 1..Len(e) : b = Len(t) + y /\ te[b] = e[y]
      <4>1. PICK y \in 1..Len(e) : b = Len(t) + y /\ te[b] = e[y]
        BY <3>2
      <4>2. PICK i \in 1..k : i \in 1..Len(w) /\ Flow!IsEvent(w[i]) /\ e[y][1] = c /\ e[y][2] = w[i].id
        BY <1>12
      <4>3. CASE a \in 1..Len(t) /\ te[a] = t[a]
        BY <1>5, <4>1, <4>2, <4>3 DEF Before
      <4>4. CASE \E x \in 1..Len(e) : a = Len(t) + x /\ te[a] = e[x]
        <5>1. PICK x \in 1..Len(e) : a = Len(t) + x /\ te[a] = e[x]
          BY <4>4
        <5>2. x < y
          BY <1>7, <2>1, <4>1, <5>1
        <5>3. e[x][1] = c /\ e[x][2] < e[y][2]
          BY <1>12, <5>2 DEF Told
        <5> QED
          BY <4>1, <4>2, <5>1, <5>3
      <4> QED
        BY <1>8, <4>3, <4>4
    <3> QED
      BY <1>8, <3>1, <3>2
  <2> QED
    BY <2>1 DEF InTurn
<1>15. Retells(te, he)
  <2>1. ASSUME NEW b \in 1..Len(he) PROVE he[b][2] # 0 /\ \E a \in 1..Len(te) : te[a] = he[b]
    <3>1. CASE b \in 1..Len(h) /\ he[b] = h[b]
      <4>1. h[b][2] # 0 /\ \E a \in 1..Len(t) : t[a] = h[b]
        BY <1>5, <3>1 DEF Retells
      <4> QED
        BY <1>10, <3>1, <4>1
    <3>2. CASE \E y \in 1..Len(e) : he[b] = e[y]
      <4>1. PICK y \in 1..Len(e) : he[b] = e[y]
        BY <3>2
      <4>2. e[y][2] # 0
        <5>1. e[y][2] \in 1..last
          BY <1>12
        <5> QED
          BY ONLY <5>1, last \in Nat
      <4> QED
        BY <1>10, <4>1, <4>2
    <3> QED
      BY <1>9, <3>1, <3>2
  <2>2. ASSUME NEW a \in 1..Len(te), te[a][2] # 0 PROVE \E b \in 1..Len(he) : he[b] = te[a]
    <3>1. CASE a \in 1..Len(t) /\ te[a] = t[a]
      <4>1. \E b \in 1..Len(h) : h[b] = t[a]
        BY <1>5, <2>2, <3>1 DEF Retells
      <4> QED
        BY <1>11, <3>1, <4>1
    <3>2. CASE \E b \in 1..Len(e) : te[a] = e[b]
      BY <1>11, <3>2
    <3> QED
      BY <1>8, <3>1, <3>2
  <2> QED
    BY <2>1, <2>2 DEF Retells
<1>16. Tells(te, he, v, c, last)
  BY <1>2, <1>3, <1>6, <1>13, <1>14, <1>15 DEF Tells
<1> QED
  BY <1>16 DEF v, te, he

LEMMA Appended ==
  ASSUME NEW w \in Seq(Message), NEW x \in Message
  PROVE  /\ Append(w, x) \in Seq(Message) /\ Len(Append(w, x)) = Len(w) + 1
         /\ \A i \in 1..Len(Append(w, x)) : i # Len(w) + 1 => i \in 1..Len(w) /\ Append(w, x)[i] = w[i]
         /\ Append(w, x)[Len(w) + 1] = x
BY AppendProperties

\* The server sends an event, numbered on.
LEMMA SaysNext ==
  ASSUME NEW w \in Seq(Message), NEW last \in Nat, NEW c \in Nat, NEW t, NEW h, Tells(t, h, w, c, last)
  PROVE  Tells(t, h, Append(w, Flow!Event(last + 1)), c, last + 1)
<1> DEFINE x == Flow!Event(last + 1)
           v == Append(w, x)
<1>1. x \in Message /\ x.id = last + 1
  <2>1. last + 1 \in Nat
    OBVIOUS
  <2>2. x = [type |-> "event", id |-> last + 1, word |-> "none"]
    BY DEF Flow!Event
  <2> HIDE DEF x
  <2> QED
    BY ONLY <2>1, <2>2 DEF Message, Words
<1> HIDE DEF x
<1>2. Len(v) = Len(w) + 1 /\ v[Len(w) + 1] = x
        /\ \A i \in 1..Len(v) : i # Len(w) + 1 => i \in 1..Len(w) /\ v[i] = w[i]
  BY <1>1, Appended
<1>3. Len(w) \in Nat
  OBVIOUS
<1> HIDE DEF v
<1>4. Ahead(w, last) /\ Before(t, w, c, last)
  BY DEF Tells
<1>5. Ahead(v, last + 1)
  <2>1. ASSUME NEW i \in 1..Len(v), Flow!IsEvent(v[i])
        PROVE  v[i].id \in 1..(last + 1)
                 /\ \A j \in 1..Len(v) : Flow!IsEvent(v[j]) /\ i < j => v[i].id < v[j].id
    <3>1. CASE i = Len(w) + 1
      <4>1. \A j \in 1..Len(v) : ~(i < j)
        BY ONLY <1>2, <1>3, <3>1
      <4>2. v[i].id = last + 1
        BY <1>1, <1>2, <3>1
      <4> QED
        BY ONLY <4>1, <4>2, last \in Nat
    <3>2. CASE i # Len(w) + 1
      <4>1. i \in 1..Len(w) /\ v[i] = w[i]
        BY <1>2, <3>2
      <4>2. w[i].id \in 1..last
        BY <1>4, <2>1, <4>1 DEF Ahead
      <4>3. ASSUME NEW j \in 1..Len(v), Flow!IsEvent(v[j]), i < j PROVE v[i].id < v[j].id
        <5>1. CASE j = Len(w) + 1
          <6>1. v[j].id = last + 1
            BY <1>1, <1>2, <5>1
          <6> QED
            BY ONLY <4>1, <4>2, <6>1, last \in Nat
        <5>2. CASE j # Len(w) + 1
          <6>1. j \in 1..Len(w) /\ v[j] = w[j]
            BY <1>2, <5>2
          <6> QED
            BY <1>4, <2>1, <4>1, <4>3, <6>1 DEF Ahead
        <5> QED
          BY <5>1, <5>2
      <4>4. v[i].id \in 1..(last + 1)
        BY ONLY <4>1, <4>2, last \in Nat
      <4> QED
        BY <4>3, <4>4
    <3> QED
      BY <3>1, <3>2
  <2> QED
    BY <2>1 DEF Ahead
<1>6. Before(t, v, c, last + 1)
  <2>1. ASSUME NEW a \in 1..Len(t)
        PROVE  t[a][1] < c \/ (t[a][1] = c /\ t[a][2] <= last + 1
                 /\ \A i \in 1..Len(v) : Flow!IsEvent(v[i]) => t[a][2] < v[i].id)
    <3>1. CASE t[a][1] < c
      BY <3>1
    <3>2. CASE /\ t[a][1] = c /\ t[a][2] <= last
               /\ \A i \in 1..Len(w) : Flow!IsEvent(w[i]) => t[a][2] < w[i].id
      <4>1. t[a] \in Said
        BY DEF Tells
      <4>2. t[a][2] \in Nat
        BY <4>1 DEF Said
      <4>3. t[a][2] < last + 1
        BY ONLY <3>2, <4>2, last \in Nat
      <4>4. \A i \in 1..Len(v) : Flow!IsEvent(v[i]) => t[a][2] < v[i].id
        BY <1>1, <1>2, <3>2, <4>3
      <4>5. t[a][2] <= last + 1
        BY ONLY <4>2, <4>3, last \in Nat
      <4> QED
        BY <3>2, <4>4, <4>5
    <3> QED
      BY <1>4, <3>1, <3>2 DEF Before
  <2> QED
    BY <2>1 DEF Before
<1>7. Tells(t, h, v, c, last + 1)
  BY <1>5, <1>6 DEF Tells
<1> QED
  BY <1>7 DEF v, x

\* The server answers.
LEMMA SaysReply ==
  ASSUME NEW w \in Seq(Message), NEW last \in Nat, NEW c \in Nat, NEW t, NEW h, Tells(t, h, w, c, last),
         NEW x \in Message, ~Flow!IsEvent(x)
  PROVE  Tells(t, h, Append(w, x), c, last)
<1> DEFINE v == Append(w, x)
<1>1. v[Len(w) + 1] = x /\ \A i \in 1..Len(v) : i # Len(w) + 1 => i \in 1..Len(w) /\ v[i] = w[i]
  BY Appended
<1> HIDE DEF v
<1>2. \A i \in 1..Len(v) : Flow!IsEvent(v[i]) => i \in 1..Len(w) /\ v[i] = w[i]
  BY <1>1
<1>3. Ahead(v, last)
  BY <1>2 DEF Tells, Ahead
<1>4. Before(t, v, c, last)
  BY <1>2 DEF Tells, Before
<1>5. Tells(t, h, v, c, last)
  BY <1>3, <1>4 DEF Tells
<1> QED
  BY <1>5 DEF v

\* A new connection, and the notice of it.
LEMMA SaysAnew ==
  ASSUME NEW w, NEW last \in Nat, NEW c \in Nat, NEW t, NEW h, Tells(t, h, w, c, last)
  PROVE  /\ Tells(t, h, <<>>, c + 1, last)
         /\ Tells(Append(t, <<c + 1, 0>>), h, <<>>, c + 1, last)
<1> DEFINE n == <<c + 1, 0>>
           u == Append(t, n)
<1>1. n \in Said /\ n[1] = c + 1 /\ n[2] = 0
  BY DEF Said
<1>2. t \in Seq(Said) /\ h \in Seq(Said) /\ InTurn(t) /\ Retells(t, h)
  BY DEF Tells
<1> HIDE DEF n
<1>3. u \in Seq(Said) /\ Len(u) = Len(t) + 1 /\ u[Len(t) + 1] = n /\ \A a \in 1..Len(t) : u[a] = t[a]
  BY <1>1, <1>2, AppendProperties
<1> HIDE DEF u
<1>4. Len(t) \in Nat
  BY <1>2
<1>5. \A a \in 1..Len(u) : a # Len(t) + 1 => a \in 1..Len(t) /\ u[a] = t[a]
  BY <1>3, <1>4
<1>6. \A a \in 1..Len(t) : a \in 1..Len(u)
  BY ONLY <1>3, <1>4
<1>7. Ahead(<<>>, last)
  BY DEF Ahead
<1>8. ASSUME NEW a \in 1..Len(t) PROVE t[a][1] < c + 1
  <2>1. t[a][1] \in Nat
    <3>1. t[a] \in Said
      BY <1>2
    <3> QED
      BY <3>1 DEF Said
  <2>2. t[a][1] < c \/ t[a][1] = c
    BY DEF Tells, Before
  <2> QED
    BY ONLY <2>1, <2>2, c \in Nat
<1>9. Before(t, <<>>, c + 1, last)
  BY <1>8 DEF Before
<1>10. Before(u, <<>>, c + 1, last)
  <2>1. ASSUME NEW a \in 1..Len(u)
        PROVE  u[a][1] < c + 1 \/ (u[a][1] = c + 1 /\ u[a][2] <= last)
    <3>1. CASE a = Len(t) + 1
      <4>1. u[a][1] = c + 1 /\ u[a][2] = 0
        BY <1>1, <1>3, <3>1
      <4> QED
        BY ONLY <4>1, last \in Nat
    <3>2. CASE a # Len(t) + 1
      BY <1>5, <1>8, <3>2
    <3> QED
      BY <3>1, <3>2
  <2>2. \A i \in 1..Len(<<>>) : FALSE
    OBVIOUS
  <2> QED
    BY ONLY <2>1, <2>2 DEF Before
<1>11. InTurn(u)
  <2>1. ASSUME NEW a \in 1..Len(u), NEW b \in 1..Len(u), a < b
        PROVE  u[a][1] < u[b][1] \/ (u[a][1] = u[b][1] /\ u[a][2] < u[b][2])
    <3>1. a \in 1..Len(t) /\ u[a] = t[a]
      <4>1. a # Len(t) + 1
        BY ONLY <1>3, <1>4, <2>1
      <4> QED
        BY <1>5, <4>1
    <3>2. CASE b = Len(t) + 1
      BY <1>1, <1>3, <1>8, <3>1, <3>2
    <3>3. CASE b # Len(t) + 1
      <4>1. b \in 1..Len(t) /\ u[b] = t[b]
        BY <1>5, <3>3
      <4> QED
        BY ONLY <1>2, <2>1, <3>1, <4>1 DEF InTurn
    <3> QED
      BY <3>2, <3>3
  <2> QED
    BY <2>1 DEF InTurn
<1>12. Retells(u, h)
  <2>1. ASSUME NEW b \in 1..Len(h) PROVE h[b][2] # 0 /\ \E a \in 1..Len(u) : u[a] = h[b]
    <3>1. h[b][2] # 0 /\ \E a \in 1..Len(t) : t[a] = h[b]
      BY <1>2 DEF Retells
    <3> QED
      BY <1>3, <1>6, <3>1
  <2>2. ASSUME NEW a \in 1..Len(u), u[a][2] # 0 PROVE \E b \in 1..Len(h) : h[b] = u[a]
    <3>1. a # Len(t) + 1
      BY <1>1, <1>3, <2>2
    <3> QED
      <4>1. a \in 1..Len(t) /\ u[a] = t[a]
        BY <1>5, <3>1
      <4> QED
        BY ONLY <1>2, <2>2, <4>1 DEF Retells
  <2> QED
    BY <2>1, <2>2 DEF Retells
<1>13. Tells(t, h, <<>>, c + 1, last) /\ Tells(u, h, <<>>, c + 1, last)
  BY <1>2, <1>3, <1>7, <1>9, <1>10, <1>11, <1>12 DEF Tells
<1> QED
  BY <1>13 DEF u, n

-----------------------------------------------------------------------------
(* The steps of Streams: types and retries.                                   *)

USE FlowAssumption, RetryAssumption

LEMMA MessagesTyped ==
  ASSUME NEW n \in Nat, NEW w \in Words
  PROVE  Flow!Event(n) \in Message /\ Flow!Reply(n, w) \in Message /\ ~Flow!IsEvent(Flow!Reply(n, w))
<1>1. Flow!Event(n) \in Message
  BY DEF Flow!Event, Message, Words
<1>2. Flow!Reply(n, w) \in Message
  BY DEF Flow!Reply, Message, Words
<1>3. ~Flow!IsEvent(Flow!Reply(n, w))
  BY DEF Flow!Reply, Flow!IsEvent
<1> QED
  BY <1>1, <1>2, <1>3

\* What a read leaves on the wire.
Leaves ==
    \E m \in 0..Len(wire) : wire' = SubSeq(wire, m + 1, Len(wire))

LEMMA LeavesTyped == ASSUME wire \in Seq(Message), Leaves PROVE wire' \in Seq(Message)
BY TailOf DEF Leaves

LEMMA LeavesNothing == ASSUME wire \in Seq(Message), wire' = <<>> PROVE Leaves
<1>1. Len(wire) \in 0..Len(wire) /\ Len(wire) + 1 > Len(wire)
  OBVIOUS
<1>2. SubSeq(wire, Len(wire) + 1, Len(wire)) = <<>>
  BY SubSeqEmpty
<1> QED
  BY <1>1, <1>2 DEF Leaves

LEMMA LeavesAll == ASSUME wire \in Seq(Message), wire' = wire PROVE Leaves
<1>1. 0 \in 0..Len(wire)
  OBVIOUS
<1>2. SubSeq(wire, 0 + 1, Len(wire)) = wire
  BY SubSeqFull
<1> QED
  BY <1>1, <1>2 DEF Leaves

LEMMA LeavesTail == ASSUME wire \in Seq(Message), wire # <<>>, wire' = Tail(wire) PROVE Leaves
<1>1. 1 \in 0..Len(wire)
  BY EmptySeq
<1>2. SubSeq(wire, 1 + 1, Len(wire)) = Tail(wire)
  BY TailIsSubSeq
<1> QED
  BY <1>1, <1>2 DEF Leaves

LEMMA LeavesFrom ==
  ASSUME wire \in Seq(Message), NEW n \in 0..Len(wire), wire' = Flow!From(n + 1, wire)
  PROVE  Leaves
BY DEF Leaves, Flow!From

\* The actions that read or close the connection, and what they do to the wire.
LEMMA ReadsLeave ==
  ASSUME StreamTypes, Flow!Reads \/ Flow!HangsUp \/ Flow!StopsOrStarts \/ Flow!ChangesPassword
           \/ Flow!Tick \/ Flow!Command \/ Flow!SendFails
  PROVE  Leaves
<1> wire \in Seq(Message)
  BY DEF StreamTypes
<1>1. CASE Flow!HangsUp \/ Flow!StopsOrStarts \/ Flow!ChangesPassword \/ Flow!Tick \/ Flow!Command \/ Flow!SendFails
  <2>1. wire' = wire \/ wire' = <<>>
    BY <1>1 DEF Flow!HangsUp, Flow!StopsOrStarts, Flow!ChangesPassword, Flow!Tick, Flow!Command,
                Flow!SendFails, Flow!server
  <2> QED
    BY <2>1, LeavesAll, LeavesNothing
<1>2. CASE Flow!Reconnect
  <2>1. wire' = <<>>
    BY <1>2 DEF Flow!Reconnect, Flow!Tries, Flow!Refused, Flow!Unreachable, Flow!LoggedIn, Flow!LoggedInAndLost,
                Flow!Closed
  <2> QED
    BY <2>1, LeavesNothing
<1>3. CASE Flow!FbRead \/ Flow!FbReadLost \/ Flow!FbGiveUp \/ Flow!RvReadLost \/ Flow!RvRead \/ Flow!RvGiveUp
  <2>1. wire' = wire \/ wire' = <<>>
    BY <1>3 DEF Flow!FbRead, Flow!FbReadLost, Flow!FbGiveUp, Flow!Lost, Flow!Closed, Flow!RvReadLost, Flow!RvRead,
                Flow!RvGiveUp, Flow!server
  <2> QED
    BY <2>1, LeavesAll, LeavesNothing
<1>4. CASE Flow!FbReceive
  BY <1>4, LeavesTail DEF Flow!FbReceive
<1>5. CASE Flow!Read
  <2>1. \E n \in 0..Len(wire) : wire' = Flow!From(n + 1, wire)
    BY <1>5 DEF Flow!Read
  <2> QED
    BY <2>1, LeavesFrom
<1>6. CASE Flow!PingFails
  <2>1. wire' = wire \/ \E n \in 0..Len(wire) : wire' = Flow!From(n + 1, wire)
    BY <1>6 DEF Flow!PingFails
  <2> QED
    BY <2>1, LeavesFrom, LeavesAll
<1>7. CASE Flow!RvReceive \/ Flow!RvPump
  <2>1. \E n \in 0..Len(wire) : wire' = Flow!From(n + 1, wire)
    <3>1. CASE Flow!RvReceive
      <4>1. \E n \in 1..Len(wire) : wire' = Flow!From(n + 1, wire)
        BY <3>1 DEF Flow!RvReceive
      <4> QED
        BY <4>1
    <3>2. CASE Flow!RvPump
      <4>1. \E n \in IF wire = <<>> THEN {0} ELSE 1..Len(wire) : wire' = Flow!From(n + 1, wire)
        BY <3>2 DEF Flow!RvPump
      <4> QED
        BY <4>1
    <3> QED
      BY <1>7, <3>1, <3>2
  <2> QED
    BY <2>1, LeavesFrom
<1> QED
  BY <1>1, <1>2, <1>3, <1>4, <1>5, <1>6, <1>7 DEF Flow!Reads

\* What the retries of a connection leave, between two attempts.
RetriesTyped ==
    /\ delay \in RetryInterval..RetryMax /\ retryIn \in 0..RetryMax /\ refused \in 0..RetryMax

\* Whether there is a connection.
LinkTyped ==
    /\ up \in BOOLEAN /\ right \in BOOLEAN /\ open \in BOOLEAN
    /\ connected \in BOOLEAN /\ ended \in BOOLEAN
    /\ conn \in Nat /\ owed \subseteq Nat \X Words
    /\ open => up
    /\ ~open => owed = {}

\* What is under way.
TurnTyped ==
    /\ game \in {"frostbite", "homefront", "frontline", "ravaged"}
    /\ pc \in Flow!Waiting \cup {"idle", "pump"}
    /\ made \in 0..MaxEvents /\ asked \in 0..MaxAsks /\ faults \in 0..MaxFaults
    /\ pc # "idle" => ~ended
    /\ ended => game = "homefront"
    /\ pc # "idle" => game \in {"frostbite", "ravaged"}
    /\ pc = "pump" => game = "ravaged"

LEMMA TypesSplit == StreamTypes <=> RetriesTyped /\ LinkTyped /\ TurnTyped /\ wire \in Seq(Message)
BY DEF StreamTypes, RetriesTyped, LinkTyped, TurnTyped, Flow!TypeOK

LEMMA Delays ==
  ASSUME RetriesTyped
  PROVE  /\ RetryMax \in RetryInterval..RetryMax /\ RetryMax \in 0..RetryMax /\ RetryInterval \in RetryInterval..RetryMax
         /\ 0 \in 0..RetryMax /\ delay \in 0..RetryMax
         /\ Flow!Longer \in RetryInterval..RetryMax
         /\ (IF 2 * RetryInterval < RetryMax THEN 2 * RetryInterval ELSE RetryMax) \in RetryInterval..RetryMax
BY DEF RetriesTyped, Flow!Longer

LEMMA RetriesTypedStep == ASSUME RetriesTyped, Flow!Next PROVE RetriesTyped'
<1>1. CASE Flow!Serves \/ Flow!Command \/ Flow!SendFails
  BY <1>1 DEF Flow!Serves, Flow!Happens, Flow!Answers, Flow!HangsUp, Flow!StopsOrStarts, Flow!ChangesPassword,
              Flow!Command, Flow!SendFails, Flow!retries, RetriesTyped
<1>2. CASE Flow!Tick
  <2>1. retryIn' \in 0..RetryMax /\ refused' \in 0..RetryMax /\ delay' = delay
    BY <1>2 DEF Flow!Tick, RetriesTyped
  <2> QED
    BY <2>1 DEF RetriesTyped
<1>3. CASE Flow!Reconnect
  <2>1. delay' \in RetryInterval..RetryMax /\ retryIn' \in 0..RetryMax /\ refused' \in {refused, 0}
    BY <1>3, Delays DEF Flow!Reconnect, Flow!Tries, Flow!Refused, Flow!Unreachable, Flow!LoggedIn,
                        Flow!LoggedInAndLost
  <2>2. refused' \in 0..RetryMax
    BY <2>1 DEF RetriesTyped
  <2> QED
    BY <2>1, <2>2 DEF RetriesTyped
<1>4. CASE Flow!FbReadLost \/ Flow!FbGiveUp
  <2>1. refused' = refused
    BY <1>4 DEF Flow!FbReadLost, Flow!FbGiveUp, Flow!Lost, Flow!retries
  <2>2. delay' \in {delay, Flow!Longer} /\ retryIn' \in {retryIn, delay}
    BY <1>4 DEF Flow!FbReadLost, Flow!FbGiveUp, Flow!Lost, Flow!retries
  <2> QED
    BY <2>1, <2>2, Delays DEF RetriesTyped
<1>5. CASE Flow!FbRead \/ Flow!FbReceive \/ Flow!Read \/ Flow!PingFails \/ Flow!RvReadLost \/ Flow!RvRead
             \/ Flow!RvReceive \/ Flow!RvGiveUp \/ Flow!RvPump
  BY <1>5 DEF Flow!FbRead, Flow!FbReceive, Flow!Read, Flow!PingFails, Flow!RvReadLost, Flow!RvRead,
              Flow!RvReceive, Flow!RvGiveUp, Flow!RvPump, Flow!retries, RetriesTyped
<1> QED
  BY <1>1, <1>2, <1>3, <1>4, <1>5 DEF Flow!Next, Flow!Reads

LEMMA AsksTyped ==
  ASSUME TurnTyped, LinkTyped, NEW p \in Flow!Waiting, Flow!Sent(p)
  PROVE  /\ pc' = p /\ asked' \in 0..MaxAsks
         /\ owed' \subseteq Nat \X Words /\ (~open => owed' = {})
<1>1. Flow!Word(p) \in Words /\ asked + 1 \in Nat
  BY DEF Flow!Word, Words, TurnTyped
<1>2. asked' \in 0..MaxAsks
  BY DEF Flow!Sent, TurnTyped
<1> QED
  BY <1>1, <1>2 DEF Flow!Sent, LinkTyped

LEMMA LinkTypedStep == ASSUME LinkTyped, TurnTyped, Flow!Next PROVE LinkTyped'
<1>1. CASE Flow!Serves
  <2>1. connected' = connected /\ ended' = ended /\ conn' = conn /\ owed' \subseteq owed
    BY <1>1 DEF Flow!Serves, Flow!Happens, Flow!Answers, Flow!HangsUp, Flow!StopsOrStarts, Flow!ChangesPassword,
                Flow!client
  <2>2. (open' \in BOOLEAN) /\ (up' \in BOOLEAN) /\ (right' \in BOOLEAN) /\ (open' => up') /\ (~open' => owed' = {})
    <3>1. CASE Flow!Happens
      BY <3>1 DEF Flow!Happens, LinkTyped
    <3>2. CASE Flow!Answers
      BY <3>2 DEF Flow!Answers, LinkTyped
    <3>3. CASE Flow!HangsUp
      BY <3>3 DEF Flow!HangsUp, LinkTyped
    <3>4. CASE Flow!StopsOrStarts
      <4>1. right' = right /\ up' \in BOOLEAN /\ open' \in BOOLEAN
        BY <3>4 DEF Flow!StopsOrStarts, LinkTyped
      <4>2. (open' => up') /\ owed' = IF open' THEN owed ELSE {}
        BY <3>4 DEF Flow!StopsOrStarts
      <4> QED
        BY <4>1, <4>2 DEF LinkTyped
    <3>5. CASE Flow!ChangesPassword
      <4>1. right' \in BOOLEAN /\ up' = up /\ open' = open /\ owed' = owed
        BY <3>5 DEF Flow!ChangesPassword
      <4> QED
        BY <4>1 DEF LinkTyped
    <3> QED
      BY <1>1, <3>1, <3>2, <3>3, <3>4, <3>5 DEF Flow!Serves
  <2> QED
    BY <2>1, <2>2 DEF LinkTyped
<1>2. CASE Flow!Tick
  BY <1>2 DEF Flow!Tick, Flow!server, Flow!client, LinkTyped
<1>3. CASE Flow!Command
  <2>1. Flow!Sent("command") /\ "command" \in Flow!Waiting
    BY <1>3 DEF Flow!Command, Flow!Waiting
  <2>2. owed' \subseteq Nat \X Words /\ (~open => owed' = {})
    BY <2>1, AsksTyped
  <2> QED
    BY <1>3, <2>2 DEF Flow!Command, LinkTyped
<1>4. CASE Flow!SendFails
  BY <1>4 DEF Flow!SendFails, Flow!server, LinkTyped
<1>5. CASE Flow!Reconnect
  <2>1. up' = up /\ right' = right /\ owed' = {} /\ (conn' = conn \/ conn' = conn + 1)
    BY <1>5 DEF Flow!Reconnect, Flow!Tries, Flow!Refused, Flow!Unreachable, Flow!LoggedIn, Flow!LoggedInAndLost,
                Flow!Closed
  <2>2. (open' = FALSE) \/ (open' = TRUE /\ up)
    BY <1>5 DEF Flow!Reconnect, Flow!Tries, Flow!Refused, Flow!Unreachable, Flow!LoggedIn, Flow!LoggedInAndLost,
                Flow!Closed
  <2>3. (connected' = connected \/ connected' = TRUE) /\ (ended' = ended \/ ended' = TRUE)
    BY <1>5 DEF Flow!Reconnect, Flow!Tries, Flow!Refused, Flow!Unreachable, Flow!LoggedIn, Flow!LoggedInAndLost
  <2>4. conn' \in Nat
    BY <2>1 DEF LinkTyped
  <2> QED
    BY <2>1, <2>2, <2>3, <2>4 DEF LinkTyped
<1>6. CASE Flow!FbRead
  <2>1. owed' = owed \/ \E p \in Flow!Waiting : Flow!Sent(p)
    BY <1>6 DEF Flow!FbRead, Flow!Waiting
  <2>2. owed' \subseteq Nat \X Words /\ (~open => owed' = {})
    BY <2>1, AsksTyped DEF LinkTyped
  <2> QED
    BY <1>6, <2>2 DEF Flow!FbRead, LinkTyped
<1>7. CASE Flow!FbReadLost \/ Flow!FbGiveUp
  <2>1. up' = up /\ right' = right /\ conn' = conn /\ ended' = ended
    BY <1>7 DEF Flow!FbReadLost, Flow!FbGiveUp
  <2>2. \/ (open' = open /\ owed' = owed /\ connected' = connected)
        \/ (open' = FALSE /\ owed' = {} /\ connected' = FALSE)
    BY <1>7 DEF Flow!FbReadLost, Flow!FbGiveUp, Flow!Lost, Flow!Closed
  <2>3. CASE open' = open /\ owed' = owed /\ connected' = connected
    BY <2>1, <2>3 DEF LinkTyped
  <2>4. CASE open' = FALSE /\ owed' = {} /\ connected' = FALSE
    BY <2>1, <2>4 DEF LinkTyped
  <2> QED
    BY <2>2, <2>3, <2>4
<1>8. CASE Flow!FbReceive \/ Flow!RvReceive
  <2>1. /\ up' = up /\ right' = right /\ open' = open /\ connected' = connected /\ ended' = ended
        /\ conn' = conn /\ owed' = owed
    BY <1>8 DEF Flow!FbReceive, Flow!RvReceive
  <2> QED
    BY <2>1 DEF LinkTyped
<1>9. CASE Flow!Read \/ Flow!RvPump
  <2>1. up' = up /\ right' = right /\ conn' = conn /\ ended' = ended /\ open' = open /\ owed' = owed
    BY <1>9 DEF Flow!Read, Flow!RvPump
  <2>2. connected' \in BOOLEAN
    BY <1>9 DEF Flow!Read, Flow!RvPump
  <2> QED
    BY <2>1, <2>2 DEF LinkTyped
<1>10. CASE Flow!PingFails
  <2>1. up' = up /\ right' = right /\ conn' = conn /\ open' = open /\ owed' = owed /\ connected' = FALSE
    BY <1>10 DEF Flow!PingFails
  <2>2. ended' \in BOOLEAN
    BY <1>10 DEF Flow!PingFails
  <2> QED
    BY <2>1, <2>2 DEF LinkTyped
<1>11. CASE Flow!RvReadLost
  BY <1>11 DEF Flow!RvReadLost, Flow!server, LinkTyped
<1>12. CASE Flow!RvRead
  <2>1. owed' = owed \/ \E p \in Flow!Waiting : Flow!Sent(p)
    BY <1>12 DEF Flow!RvRead, Flow!Waiting
  <2>2. owed' \subseteq Nat \X Words /\ (~open => owed' = {})
    BY <2>1, AsksTyped DEF LinkTyped
  <2> QED
    BY <1>12, <2>2 DEF Flow!RvRead, LinkTyped
<1>13. CASE Flow!RvGiveUp
  BY <1>13 DEF Flow!RvGiveUp, Flow!server, LinkTyped
<1> QED
  BY <1>1, <1>2, <1>3, <1>4, <1>5, <1>6, <1>7, <1>8, <1>9, <1>10, <1>11, <1>12, <1>13 DEF Flow!Next, Flow!Reads

LEMMA TurnTypedStep == ASSUME LinkTyped, TurnTyped, Flow!Next PROVE TurnTyped'
<1> USE DEF Flow!Waiting
<1>1. CASE Flow!Serves \/ Flow!Tick \/ Flow!SendFails
  <2>1. game' = game /\ pc' = pc /\ asked' = asked /\ ended' = ended
    BY <1>1 DEF Flow!Serves, Flow!Happens, Flow!Answers, Flow!HangsUp, Flow!StopsOrStarts, Flow!ChangesPassword,
                Flow!Tick, Flow!SendFails, Flow!client, Flow!server
  <2>2. made' \in 0..MaxEvents
    BY <1>1 DEF Flow!Serves, Flow!Happens, Flow!Answers, Flow!HangsUp, Flow!StopsOrStarts, Flow!ChangesPassword,
                Flow!Tick, Flow!SendFails, Flow!server, TurnTyped
  <2>3. faults' \in 0..MaxFaults
    BY <1>1 DEF Flow!Serves, Flow!Happens, Flow!Answers, Flow!HangsUp, Flow!StopsOrStarts, Flow!ChangesPassword,
                Flow!Tick, Flow!SendFails, Flow!server, TurnTyped, Flow!Fault
  <2> QED
    BY <2>1, <2>2, <2>3 DEF TurnTyped
<1>2. CASE Flow!Command
  <2>1. pc' = "command" /\ asked' \in 0..MaxAsks
    BY <1>2, AsksTyped DEF Flow!Command
  <2> QED
    BY <1>2, <2>1 DEF Flow!Command, TurnTyped
<1>3. CASE Flow!Reconnect
  <2>1. game' = game /\ made' = made /\ pc' = pc /\ asked' = asked /\ pc = "idle"
    BY <1>3 DEF Flow!Reconnect, Flow!Tries
  <2>2. faults' \in 0..MaxFaults
    BY <1>3 DEF Flow!Reconnect, Flow!Tries, Flow!Fault, TurnTyped
  <2>3. ended' = ended \/ game = "homefront"
    BY <1>3 DEF Flow!Reconnect, Flow!Tries, Flow!Refused, Flow!Unreachable, Flow!LoggedIn, Flow!LoggedInAndLost
  <2> QED
    BY <2>1, <2>2, <2>3 DEF TurnTyped
<1>4. CASE Flow!FbRead \/ Flow!RvRead
  <2>1. game' = game /\ made' = made /\ faults' = faults /\ ended' = ended /\ pc = "idle"
          /\ game \in {"frostbite", "ravaged"}
    BY <1>4 DEF Flow!FbRead, Flow!RvRead
  <2>2. \/ pc' \in {"idle", "pump"} /\ asked' = asked /\ (pc' = "pump" => game = "ravaged")
        \/ \E p \in {"upkeep", "probe", "refresh"} : Flow!Sent(p)
    BY <1>4 DEF Flow!FbRead, Flow!RvRead, Flow!FbHandOver
  <2>3. CASE \E p \in {"upkeep", "probe", "refresh"} : Flow!Sent(p)
    <3>1. pc' \in {"upkeep", "probe", "refresh"} /\ asked' \in 0..MaxAsks
      BY <2>3, AsksTyped
    <3> QED
      BY <2>1, <3>1 DEF TurnTyped
  <2> QED
    BY <2>1, <2>2, <2>3 DEF TurnTyped
<1>5. CASE Flow!FbReadLost
  BY <1>5 DEF Flow!FbReadLost, TurnTyped
<1>6. CASE Flow!FbReceive \/ Flow!FbGiveUp
  <2>1. game' = game /\ made' = made /\ faults' = faults /\ ended' = ended /\ asked' = asked
    BY <1>6 DEF Flow!FbReceive, Flow!FbGiveUp
  <2>2. pc' \in {pc, "idle"}
    BY <1>6 DEF Flow!FbReceive, Flow!FbGiveUp, Flow!FbHandOver
  <2> QED
    BY <2>1, <2>2 DEF TurnTyped
<1>7. CASE Flow!Read
  BY <1>7 DEF Flow!Read, TurnTyped
<1>8. CASE Flow!PingFails
  <2>1. game' = game /\ made' = made /\ faults' = faults /\ asked' = asked /\ pc' = pc /\ pc = "idle"
    BY <1>8 DEF Flow!PingFails
  <2>2. ended' => game = "homefront"
    BY <1>8 DEF Flow!PingFails
  <2> QED
    BY <2>1, <2>2 DEF TurnTyped
<1>9. CASE Flow!RvReadLost
  BY <1>9 DEF Flow!RvReadLost, Flow!server, TurnTyped
<1>10. CASE Flow!RvReceive \/ Flow!RvGiveUp \/ Flow!RvPump
  <2>1. game' = game /\ made' = made /\ faults' = faults /\ ended' = ended /\ asked' = asked
    BY <1>10 DEF Flow!RvReceive, Flow!RvGiveUp, Flow!RvPump, Flow!server
  <2>2. pc' \in {pc, "idle", "pump"}
    BY <1>10 DEF Flow!RvReceive, Flow!RvGiveUp, Flow!RvPump, Flow!RvOver
  <2>3. game = "ravaged"
    BY <1>10 DEF Flow!RvReceive, Flow!RvGiveUp, Flow!RvPump, TurnTyped
  <2> QED
    BY <2>1, <2>2, <2>3 DEF TurnTyped
<1> QED
  BY <1>1, <1>2, <1>3, <1>4, <1>5, <1>6, <1>7, <1>8, <1>9, <1>10 DEF Flow!Next, Flow!Reads

LEMMA StreamTypesStep == ASSUME StreamTypes, Flow!Next PROVE StreamTypes'
<1>1. RetriesTyped /\ LinkTyped /\ TurnTyped /\ wire \in Seq(Message)
  BY TypesSplit
<1>2. RetriesTyped' /\ LinkTyped' /\ TurnTyped'
  BY <1>1, RetriesTypedStep, LinkTypedStep, TurnTypedStep
<1>3. wire' \in Seq(Message)
  <2>1. CASE Flow!Happens
    <3>1. made + 1 \in Nat /\ "none" \in Words
      BY <1>1 DEF TurnTyped, Words
    <3> QED
      BY <1>1, <2>1, <3>1, MessagesTyped, Appended DEF Flow!Happens
  <2>2. CASE Flow!Answers
    <3>1. PICK c \in owed : \E w \in {c[2], "refused"} : wire' = Append(wire, Flow!Reply(c[1], w))
      BY <2>2 DEF Flow!Answers
    <3>2. PICK w \in {c[2], "refused"} : wire' = Append(wire, Flow!Reply(c[1], w))
      BY <3>1
    <3>3. c[1] \in Nat /\ w \in Words
      BY <1>1 DEF LinkTyped, Words
    <3> QED
      BY <1>1, <3>2, <3>3, MessagesTyped, Appended
  <2>3. CASE ~Flow!Happens /\ ~Flow!Answers
    BY <1>1, <2>3, ReadsLeave, LeavesTyped DEF Flow!Next, Flow!Serves
  <2> QED
    BY <2>1, <2>2, <2>3
<1>4. (RetriesTyped /\ LinkTyped /\ TurnTyped /\ wire \in Seq(Message))'
  BY <1>2, <1>3
<1> QED
  BY <1>4, TypesSplit, PTL

LEMMA RetriesStep == ASSUME StreamTypes, RetriesInv, Flow!Next PROVE RetriesInv'
<1>1. RetriesTyped /\ TurnTyped
  BY TypesSplit
<1>2. CASE Flow!Serves \/ Flow!SendFails
  BY <1>2 DEF Flow!Serves, Flow!Happens, Flow!Answers, Flow!HangsUp, Flow!StopsOrStarts, Flow!ChangesPassword,
              Flow!SendFails, Flow!retries, Flow!client, Flow!server, RetriesInv
<1>3. CASE Flow!Tick
  <2>1. game' = game /\ pc' = pc /\ connected' = connected
    BY <1>3 DEF Flow!Tick, Flow!server, Flow!client
  <2>2. refused < RetryMax => retryIn' + refused' = retryIn + refused /\ retryIn' + refused' \in Nat
    BY <1>1, <1>3 DEF Flow!Tick, RetriesTyped
  <2>3. ~(refused < RetryMax) => refused' = refused
    BY <1>3 DEF Flow!Tick
  <2>4. RetryMax \in Nat /\ refused \in Nat /\ refused <= RetryMax
    BY <1>1 DEF RetriesTyped
  <2>5. game = "ravaged" => refused' = RetryMax
    BY <2>3, <2>4 DEF RetriesInv
  <2>6. refused' < RetryMax => refused < RetryMax
    BY <2>3, <2>4
  <2> QED
    BY <2>1, <2>2, <2>5, <2>6 DEF RetriesInv
<1>4. CASE Flow!Command \/ Flow!FbRead \/ Flow!Read \/ Flow!FbReceive \/ Flow!PingFails
  <2>1. retryIn' = retryIn /\ refused' = refused /\ game' = game
    BY <1>4 DEF Flow!Command, Flow!FbRead, Flow!Read, Flow!FbReceive, Flow!PingFails, Flow!retries
  <2>2. connected' => connected
    BY <1>4 DEF Flow!Command, Flow!FbRead, Flow!Read, Flow!FbReceive, Flow!PingFails
  <2>3. game = "frostbite" /\ pc' # "idle" => connected'
    <3>1. CASE Flow!Command \/ Flow!FbRead
      <4>1. connected' = connected /\ connected
        BY <3>1 DEF Flow!Command, Flow!FbRead
      <4> QED
        BY <4>1
    <3>2. CASE Flow!Read \/ Flow!PingFails
      <4>1. game # "frostbite"
        BY <3>2 DEF Flow!Read, Flow!PingFails
      <4> QED
        BY <4>1
    <3>3. CASE Flow!FbReceive
      <4>1. connected' = connected /\ pc # "idle"
        BY <3>3 DEF Flow!FbReceive, Flow!Waiting
      <4> QED
        BY <4>1 DEF RetriesInv
    <3> QED
      BY <1>4, <3>1, <3>2, <3>3
  <2> QED
    BY <2>1, <2>2, <2>3 DEF RetriesInv
<1>5. CASE Flow!Reconnect
  <2>1. pc' = "idle" /\ retryIn = 0 /\ game' = game /\ game # "ravaged" /\ ~connected
    BY <1>5 DEF Flow!Reconnect, Flow!Tries
  <2>2. refused = RetryMax
    BY <1>1, <2>1 DEF RetriesInv, RetriesTyped
  <2>3. refused' = refused \/ (refused' = 0 /\ retryIn' = RetryMax /\ connected' = connected)
    BY <1>5 DEF Flow!Reconnect, Flow!Tries, Flow!Refused, Flow!Unreachable, Flow!LoggedIn, Flow!LoggedInAndLost
  <2> QED
    BY <2>1, <2>2, <2>3 DEF RetriesInv
<1>6. CASE Flow!FbReadLost \/ Flow!FbGiveUp
  <2>1. connected /\ game = "frostbite" /\ game' = game /\ refused' = refused
    BY <1>6 DEF Flow!FbReadLost, Flow!FbGiveUp, Flow!Lost, Flow!retries, Flow!Waiting, RetriesInv
  <2>2. ~(refused < RetryMax)
    BY <2>1 DEF RetriesInv
  <2>3. pc' = "idle"
    BY <1>6 DEF Flow!FbReadLost, Flow!FbGiveUp, Flow!FbHandOver
  <2> QED
    BY <2>1, <2>2, <2>3 DEF RetriesInv
<1>7. CASE Flow!RvReadLost \/ Flow!RvRead \/ Flow!RvReceive \/ Flow!RvGiveUp \/ Flow!RvPump
  <2>1. game = "ravaged" /\ game' = game
    BY <1>1, <1>7 DEF Flow!RvReadLost, Flow!RvRead, Flow!RvReceive, Flow!RvGiveUp, Flow!RvPump, Flow!server, TurnTyped
  <2>2. refused' = refused
    BY <1>7 DEF Flow!RvReadLost, Flow!RvRead, Flow!RvReceive, Flow!RvGiveUp, Flow!RvPump, Flow!retries
  <2>3. ~(refused' < RetryMax) /\ refused' = RetryMax
    BY <1>1, <2>1, <2>2 DEF RetriesInv, RetriesTyped
  <2> QED
    BY <2>1, <2>3 DEF RetriesInv
<1> QED
  BY <1>2, <1>3, <1>4, <1>5, <1>6, <1>7 DEF Flow!Next, Flow!Reads

-----------------------------------------------------------------------------
(* The steps of Streams: what is handed over.                                 *)

\* What the bot was told or will be, of the three clients that hand events over in order.
TellsAll == Tells(handed \o kept, heard, wire, conn, made)

\* Their own part of the state.
Quiet == out = <<>> /\ kept \in Seq(Said) /\ handed \in Seq(Said) /\ (game # "frostbite" => kept = <<>>)

LEMMA InvSplit == StreamInv <=> (game # "ravaged" => Quiet /\ TellsAll)
BY DEF StreamInv, Quiet, TellsAll

Read1(n) == Flow!EventsIn(SubSeq(wire, 1, n))

\* A read takes the first n messages, and leaves what comes after the first m.
Reading(n, m) ==
    /\ wire' = SubSeq(wire, m + 1, Len(wire))
    /\ heard' = heard \o Read1(n)
    /\ conn' = conn /\ made' = made /\ game' = game

LEMMA ReadTyped ==
  ASSUME StreamTypes, TellsAll, NEW n \in 0..Len(wire)
  PROVE  Read1(n) \in Seq(Said) /\ Told(wire, conn, n, Read1(n))
<1>1. wire \in Seq(Message) /\ made \in Nat /\ conn \in Nat
  BY TypesSplit DEF TurnTyped, LinkTyped
<1>2. Told(wire, conn, n, Read1(n))
  BY <1>1, Taken DEF TellsAll, Tells, Read1
<1> QED
  BY <1>2 DEF Told

LEMMA ReadTells ==
  ASSUME StreamTypes, TellsAll, NEW n \in 0..Len(wire), NEW m \in n..Len(wire), Reading(n, m),
         (handed \o kept)' = (handed \o kept) \o Read1(n)
  PROVE  TellsAll'
<1>1. wire \in Seq(Message) /\ made \in Nat /\ conn \in Nat
  BY TypesSplit DEF TurnTyped, LinkTyped
<1>2. Told(wire, conn, n, Read1(n))
  BY ReadTyped
<1>3. Tells((handed \o kept) \o Read1(n), heard \o Read1(n), SubSeq(wire, m + 1, Len(wire)), conn, made)
  <2> HIDE DEF Read1
  <2> QED
    BY <1>1, <1>2, SaysMore DEF TellsAll
<1> QED
  BY <1>3 DEF TellsAll, Reading

LEMMA NothingTold ==
  ASSUME StreamTypes, TellsAll, Leaves, heard' = heard, conn' = conn, made' = made,
         (handed \o kept)' = handed \o kept
  PROVE  TellsAll'
<1>1. wire \in Seq(Message) /\ made \in Nat /\ conn \in Nat
  BY TypesSplit DEF TurnTyped, LinkTyped
<1>2. PICK m \in 0..Len(wire) : wire' = SubSeq(wire, m + 1, Len(wire))
  BY DEF Leaves
<1>3. Tells(handed \o kept, heard, SubSeq(wire, m + 1, Len(wire)), conn, made)
  BY <1>1, SaysNoMore DEF TellsAll
<1> QED
  BY <1>2, <1>3 DEF TellsAll

\* What was kept is handed over.
LEMMA HandsOver ==
  ASSUME Quiet, NEW e \in Seq(Said)
  PROVE  /\ (handed \o (kept \o e)) \o <<>> = (handed \o kept) \o e
         /\ handed \o (kept \o e) = (handed \o kept) \o e
         /\ (handed \o kept) \o <<>> = handed \o kept
         /\ handed \o (kept \o e) \in Seq(Said) /\ handed \o kept \in Seq(Said) /\ kept \o e \in Seq(Said)
         /\ kept = <<>> => handed \o e \in Seq(Said) /\ (handed \o e) \o kept = (handed \o kept) \o e
<1>1. handed \in Seq(Said) /\ kept \in Seq(Said)
  BY DEF Quiet
<1>2. handed \o kept \in Seq(Said) /\ kept \o e \in Seq(Said) /\ handed \o (kept \o e) \in Seq(Said)
        /\ handed \o e \in Seq(Said)
  BY <1>1, ConcatProperties
<1>3. (handed \o kept) \o e = handed \o (kept \o e)
  <2>1. ASSUME NEW T, NEW s \in Seq(T), NEW t \in Seq(T), NEW u \in Seq(T)
        PROVE  (s \o t) \o u = s \o (t \o u)
    BY ONLY ConcatAssociative
  <2> QED
    BY ONLY <1>1, <2>1, e \in Seq(Said)
<1>4. /\ (handed \o (kept \o e)) \o <<>> = handed \o (kept \o e)
      /\ (handed \o kept) \o <<>> = handed \o kept
      /\ handed \o <<>> = handed /\ (handed \o e) \o <<>> = handed \o e
  BY <1>1, <1>2, ConcatEmptySeq
<1> QED
  BY <1>2, <1>3, <1>4

LEMMA ServerTells ==
  ASSUME StreamTypes, StreamInv, Flow!Serves \/ Flow!Tick \/ Flow!Command \/ Flow!SendFails PROVE StreamInv'
<1>1. game' = game /\ out' = out /\ kept' = kept /\ handed' = handed /\ heard' = heard /\ conn' = conn
  BY DEF Flow!Serves, Flow!Happens, Flow!Answers, Flow!HangsUp, Flow!StopsOrStarts, Flow!ChangesPassword, Flow!Tick,
         Flow!Command, Flow!SendFails, Flow!client, Flow!told, Flow!server
<1>2. SUFFICES ASSUME game # "ravaged" PROVE Quiet' /\ TellsAll'
  BY <1>1 DEF StreamInv, Quiet, TellsAll
<1>3. Quiet /\ TellsAll
  BY <1>2 DEF StreamInv, Quiet, TellsAll
<1>4. Quiet'
  BY <1>1, <1>3 DEF Quiet
<1>5. wire \in Seq(Message) /\ made \in Nat /\ conn \in Nat /\ owed \subseteq Nat \X Words
  BY TypesSplit DEF TurnTyped, LinkTyped
<1>6. CASE Flow!Happens
  <2>1. wire' = Append(wire, Flow!Event(made + 1)) /\ made' = made + 1
    BY <1>6 DEF Flow!Happens
  <2>2. Tells(handed \o kept, heard, Append(wire, Flow!Event(made + 1)), conn, made + 1)
    BY <1>3, <1>5, SaysNext DEF TellsAll
  <2> QED
    BY <1>1, <1>4, <2>1, <2>2 DEF TellsAll
<1>7. CASE Flow!Answers
  <2>1. PICK c \in owed : \E w \in {c[2], "refused"} : wire' = Append(wire, Flow!Reply(c[1], w))
    BY <1>7 DEF Flow!Answers
  <2>2. PICK w \in {c[2], "refused"} : wire' = Append(wire, Flow!Reply(c[1], w))
    BY <2>1
  <2>3. c[1] \in Nat /\ w \in Words
    BY <1>5 DEF Words
  <2>4. Flow!Reply(c[1], w) \in Message /\ ~Flow!IsEvent(Flow!Reply(c[1], w))
    BY <2>3, MessagesTyped
  <2>5. Tells(handed \o kept, heard, Append(wire, Flow!Reply(c[1], w)), conn, made)
    BY <1>3, <1>5, <2>4, SaysReply DEF TellsAll
  <2>6. made' = made
    BY <1>7 DEF Flow!Answers
  <2> QED
    BY <1>1, <1>4, <2>2, <2>5, <2>6 DEF TellsAll
<1>8. CASE ~Flow!Happens /\ ~Flow!Answers
  <2>1. Leaves
    BY <1>8, ReadsLeave DEF Flow!Serves
  <2>2. made' = made
    BY <1>8 DEF Flow!Serves, Flow!HangsUp, Flow!StopsOrStarts, Flow!ChangesPassword, Flow!Tick,
                Flow!Command, Flow!SendFails, Flow!server
  <2> QED
    BY <1>1, <1>3, <1>4, <2>1, <2>2, NothingTold
<1> QED
  BY <1>6, <1>7, <1>8

LEMMA ReconnectTells == ASSUME StreamTypes, StreamInv, Flow!Reconnect PROVE StreamInv'
<1>1. Quiet /\ TellsAll
  BY DEF Flow!Reconnect, StreamInv, Quiet, TellsAll
<1>2. game' = game /\ made' = made /\ kept' = kept /\ out' = out /\ heard' = heard /\ wire' = <<>>
  BY DEF Flow!Reconnect, Flow!Tries, Flow!Refused, Flow!Unreachable, Flow!LoggedIn, Flow!LoggedInAndLost,
         Flow!Closed
<1>3. wire \in Seq(Message) /\ made \in Nat /\ conn \in Nat
  BY TypesSplit DEF TurnTyped, LinkTyped
<1>4. CASE handed' = handed /\ conn' = conn
  <2>1. Leaves
    BY <1>2, <1>3, LeavesNothing
  <2>2. TellsAll'
    BY <1>1, <1>2, <1>4, <2>1, NothingTold
  <2> QED
    BY <1>1, <1>2, <1>4, <2>2 DEF StreamInv, Quiet, TellsAll
<1>5. CASE handed' = handed /\ conn' = conn + 1
  <2>1. Tells(handed \o kept, heard, <<>>, conn + 1, made)
    BY <1>1, <1>3, SaysAnew DEF TellsAll
  <2> QED
    BY <1>1, <1>2, <1>5, <2>1 DEF StreamInv, Quiet, TellsAll
<1>6. CASE game # "frostbite" /\ handed' = Append(handed, <<conn + 1, 0>>) /\ conn' = conn + 1
  <2>1. kept = <<>> /\ handed \o kept = handed /\ handed \in Seq(Said)
    BY <1>1, <1>6, ConcatEmptySeq DEF Quiet
  <2>2. Tells(Append(handed, <<conn + 1, 0>>), heard, <<>>, conn + 1, made)
    BY <1>1, <1>3, <2>1, SaysAnew DEF TellsAll
  <2>3. handed' \in Seq(Said)
    BY <1>6, <2>2 DEF Tells
  <2>4. handed' \o <<>> = handed'
    BY <2>3, ConcatEmptySeq
  <2> QED
    BY <1>1, <1>2, <1>6, <2>1, <2>2, <2>3, <2>4 DEF StreamInv, Quiet, TellsAll
<1>7. \/ handed' = handed /\ conn' = conn
      \/ handed' = handed /\ conn' = conn + 1
      \/ game # "frostbite" /\ handed' = Append(handed, <<conn + 1, 0>>) /\ conn' = conn + 1
  BY DEF Flow!Reconnect, Flow!Tries, Flow!Refused, Flow!Unreachable, Flow!LoggedIn, Flow!LoggedInAndLost
<1> QED
  BY <1>4, <1>5, <1>6, <1>7

LEMMA FrostbiteTells ==
  ASSUME StreamTypes, StreamInv,
         Flow!FbRead \/ Flow!FbReadLost \/ Flow!FbReceive \/ Flow!FbGiveUp
  PROVE  StreamInv'
<1>1. game = "frostbite" /\ game' = game /\ out' = out /\ made' = made /\ conn' = conn
  BY DEF Flow!FbRead, Flow!FbReadLost, Flow!FbReceive, Flow!FbGiveUp
<1>2. Quiet /\ TellsAll /\ kept \in Seq(Said) /\ handed \in Seq(Said)
  BY <1>1 DEF StreamInv, Quiet, TellsAll
<1>3. wire \in Seq(Message) /\ Len(wire) \in Nat
  BY TypesSplit
<1>4. SUFFICES kept' \in Seq(Said) /\ handed' \in Seq(Said) /\ TellsAll'
  BY <1>1, <1>2 DEF StreamInv, Quiet, TellsAll
<1>5. CASE Flow!FbRead
  <2> DEFINE n == Len(wire)
  <2>1. SubSeq(wire, 1, n) = wire /\ n \in 0..Len(wire) /\ n \in n..Len(wire)
    BY <1>3, SubSeqFull
  <2>2. Read1(n) = Flow!EventsIn(wire)
    BY <2>1 DEF Read1
  <2>3. Read1(n) \in Seq(Said)
    BY <1>2, <2>1, ReadTyped
  <2>4. wire' = SubSeq(wire, n + 1, Len(wire))
    <3>1. SubSeq(wire, n + 1, Len(wire)) = <<>>
      BY <1>3, SubSeqEmpty
    <3> QED
      BY <1>5, <3>1 DEF Flow!FbRead
  <2>5. heard' = heard \o Read1(n)
    BY <1>5, <2>2 DEF Flow!FbRead
  <2>6. \/ handed' = handed \o (kept \o Read1(n)) /\ kept' = <<>>
        \/ handed' = handed /\ kept' = kept \o Read1(n)
    BY <1>5, <2>2 DEF Flow!FbRead, Flow!FbHandOver
  <2>7. Reading(n, n)
    BY <1>1, <2>4, <2>5 DEF Reading
  <2>8. (handed \o kept)' = (handed \o kept) \o Read1(n) /\ kept' \in Seq(Said) /\ handed' \in Seq(Said)
    <3>1. <<>> \in Seq(Said)
      OBVIOUS
    <3> HIDE DEF n
    <3> QED
      BY <1>2, <2>3, <2>6, <3>1, HandsOver
  <2> HIDE DEF n
  <2> QED
    BY <1>2, <2>1, <2>7, <2>8, ReadTells
<1>6. CASE Flow!FbReadLost
  <2>1. PICK n \in 0..Len(wire) : heard' = heard \o Read1(n) /\ kept' = kept \o Read1(n)
    BY <1>6 DEF Flow!FbReadLost, Read1
  <2>2. handed' = handed /\ wire' = <<>>
    BY <1>6 DEF Flow!FbReadLost, Flow!Lost, Flow!Closed
  <2>3. Read1(n) \in Seq(Said)
    BY <1>2, ReadTyped
  <2>4. SubSeq(wire, Len(wire) + 1, Len(wire)) = <<>> /\ Len(wire) \in n..Len(wire)
    BY <1>3, SubSeqEmpty
  <2>5. Reading(n, Len(wire))
    BY <1>1, <2>1, <2>2, <2>4 DEF Reading
  <2>6. (handed \o kept)' = (handed \o kept) \o Read1(n) /\ kept' \in Seq(Said) /\ handed' \in Seq(Said)
    BY <1>2, <2>1, <2>2, <2>3, HandsOver
  <2> QED
    BY <1>2, <2>4, <2>5, <2>6, ReadTells
<1>7. CASE Flow!FbReceive
  <2>1. wire # <<>> /\ wire' = Tail(wire) /\ 1 \in 0..Len(wire) /\ 1 \in 1..Len(wire)
    BY <1>3, <1>7, EmptySeq DEF Flow!FbReceive
  <2>2. SubSeq(wire, 1, 1) = <<Head(wire)>> /\ wire' = SubSeq(wire, 1 + 1, Len(wire))
    <3>1. SubSeq(wire, 1, 1) \in Seq(Message) /\ Len(SubSeq(wire, 1, 1)) = 1 /\ SubSeq(wire, 1, 1)[1] = wire[1]
      BY <1>3, <2>1, HeadOf
    <3>2. Head(wire) = wire[1]
      BY <1>3, <2>1
    <3>3. SubSeq(wire, 1, 1) = <<wire[1]>>
      <4>1. wire[1] \in Message
        BY <1>3, <2>1, ElementOfSeq
      <4>2. <<wire[1]>> \in Seq(Message) /\ Len(<<wire[1]>>) = 1 /\ <<wire[1]>>[1] = wire[1]
        BY <4>1
      <4>3. \A i \in 1..1 : SubSeq(wire, 1, 1)[i] = <<wire[1]>>[i]
        <5>1. \A i \in 1..1 : i = 1
          OBVIOUS
        <5> QED
          BY ONLY <3>1, <4>2, <5>1
      <4> QED
        BY ONLY <3>1, <4>2, <4>3, SeqEqual
    <3> QED
      BY <1>3, <2>1, <3>2, <3>3, TailIsSubSeq
  <2>3. CASE Flow!IsEvent(Head(wire))
    <3>1. ~Flow!FbMine(Head(wire))
      BY <2>3 DEF Flow!FbMine, Flow!IsEvent
    <3>2. heard' = heard \o Read1(1) /\ kept' = kept \o Read1(1) /\ handed' = handed
      BY <1>7, <2>2, <2>3, <3>1 DEF Flow!FbReceive, Read1
    <3>3. Read1(1) \in Seq(Said)
      BY <1>2, <2>1, ReadTyped
    <3>4. Reading(1, 1)
      BY <1>1, <2>2, <3>2 DEF Reading
    <3>5. (handed \o kept)' = (handed \o kept) \o Read1(1) /\ kept' \in Seq(Said) /\ handed' \in Seq(Said)
      BY <1>2, <3>2, <3>3, HandsOver
    <3> QED
      BY <1>2, <2>1, <3>4, <3>5, ReadTells
  <2>4. CASE ~Flow!IsEvent(Head(wire))
    <3>1. heard' = heard
      BY <1>7, <2>4 DEF Flow!FbReceive
    <3>2. \/ handed' = handed /\ kept' = kept
          \/ handed' = handed \o kept /\ kept' = <<>>
      BY <1>7, <2>4 DEF Flow!FbReceive, Flow!FbHandOver
    <3>3. <<>> \in Seq(Said)
      OBVIOUS
    <3>4. (handed \o kept)' = handed \o kept /\ kept' \in Seq(Said) /\ handed' \in Seq(Said)
      BY <1>2, <3>2, <3>3, HandsOver
    <3>5. Leaves
      BY <1>3, <2>1, LeavesTail
    <3> QED
      BY <1>1, <1>2, <3>1, <3>4, <3>5, NothingTold
  <2> QED
    BY <2>3, <2>4
<1>8. CASE Flow!FbGiveUp
  <2>1. heard' = heard
    BY <1>8 DEF Flow!FbGiveUp
  <2>2. \/ handed' = handed /\ kept' = kept
        \/ handed' = handed \o kept /\ kept' = <<>>
    BY <1>8 DEF Flow!FbGiveUp, Flow!FbHandOver
  <2>3. <<>> \in Seq(Said)
    OBVIOUS
  <2>4. (handed \o kept)' = handed \o kept /\ kept' \in Seq(Said) /\ handed' \in Seq(Said)
    BY <1>2, <2>2, <2>3, HandsOver
  <2>5. Leaves
    BY <1>8, ReadsLeave DEF Flow!Reads
  <2> QED
    BY <1>1, <1>2, <2>1, <2>4, <2>5, NothingTold
<1> QED
  BY <1>5, <1>6, <1>7, <1>8

LEMMA ReadsTell == ASSUME StreamTypes, StreamInv, Flow!Read \/ Flow!PingFails PROVE StreamInv'
<1>1. game \in {"homefront", "frontline"} /\ game' = game /\ out' = out /\ kept' = kept /\ made' = made /\ conn' = conn
  BY DEF Flow!Read, Flow!PingFails
<1>2. Quiet /\ TellsAll /\ kept = <<>> /\ handed \in Seq(Said) /\ kept \in Seq(Said)
  BY <1>1 DEF StreamInv, Quiet, TellsAll
<1>3. wire \in Seq(Message)
  BY TypesSplit
<1>4. SUFFICES handed' \in Seq(Said) /\ TellsAll'
  BY <1>1, <1>2 DEF StreamInv, Quiet, TellsAll
<1>5. CASE \E n \in 0..Len(wire) : /\ heard' = heard \o Read1(n) /\ handed' = handed \o Read1(n)
                                  /\ wire' = SubSeq(wire, n + 1, Len(wire))
  <2>1. PICK n \in 0..Len(wire) : /\ heard' = heard \o Read1(n) /\ handed' = handed \o Read1(n)
                                 /\ wire' = SubSeq(wire, n + 1, Len(wire))
    BY <1>5
  <2>2. n \in n..Len(wire)
    OBVIOUS
  <2>3. Read1(n) \in Seq(Said)
    BY <1>2, ReadTyped
  <2>4. Reading(n, n)
    BY <1>1, <2>1 DEF Reading
  <2>5. handed' \in Seq(Said) /\ (handed \o kept)' = (handed \o kept) \o Read1(n)
    BY <1>1, <1>2, <2>1, <2>3, HandsOver
  <2> QED
    BY <1>2, <2>2, <2>4, <2>5, ReadTells
<1>6. CASE UNCHANGED <<handed, heard, wire>>
  <2>1. Leaves
    BY <1>3, <1>6, LeavesAll
  <2>2. (handed \o kept)' = handed \o kept
    BY <1>1, <1>6
  <2> QED
    BY <1>1, <1>2, <1>6, <2>1, <2>2, NothingTold
<1>7. CASE Flow!Read
  <2>1. \E n \in 0..Len(wire) : /\ heard' = heard \o Read1(n) /\ handed' = handed \o Read1(n)
                               /\ wire' = SubSeq(wire, n + 1, Len(wire))
    <3>1. \E n \in IF game = "homefront" \/ wire = <<>> THEN {Len(wire)} ELSE 1..Len(wire) :
             /\ heard' = heard \o Flow!EventsIn(SubSeq(wire, 1, n))
             /\ handed' = handed \o Flow!EventsIn(SubSeq(wire, 1, n))
             /\ wire' = Flow!From(n + 1, wire)
      BY <1>7 DEF Flow!Read
    <3>2. Len(wire) \in 0..Len(wire) /\ \A n \in 1..Len(wire) : n \in 0..Len(wire)
      BY <1>3
    <3> QED
      BY <3>1, <3>2 DEF Flow!From, Read1
  <2> QED
    BY <1>5, <2>1
<1>8. CASE Flow!PingFails
  <2>1. \/ UNCHANGED <<handed, heard, wire>>
        \/ \E n \in 0..Len(wire) : /\ heard' = heard \o Read1(n) /\ handed' = handed \o Read1(n)
                                   /\ wire' = SubSeq(wire, n + 1, Len(wire))
    BY <1>8 DEF Flow!PingFails, Flow!From, Read1
  <2> QED
    BY <1>5, <1>6, <2>1
<1> QED
  BY <1>7, <1>8

LEMMA StreamStep == ASSUME StreamTypes, StreamInv, Flow!Next PROVE StreamInv'
<1>1. CASE Flow!RvReadLost \/ Flow!RvRead \/ Flow!RvReceive \/ Flow!RvGiveUp \/ Flow!RvPump
  <2>1. game = "ravaged" /\ game' = game
    BY <1>1, TypesSplit DEF Flow!RvReadLost, Flow!RvRead, Flow!RvReceive, Flow!RvGiveUp, Flow!RvPump, Flow!server,
                            TurnTyped
  <2> QED
    BY <2>1 DEF StreamInv
<1> QED
  BY <1>1, ServerTells, ReconnectTells, FrostbiteTells, ReadsTell DEF Flow!Next, Flow!Reads

LEMMA RepliesOwnStep == ASSUME StreamTypes, Flow!OwnReply, Flow!Next PROVE Flow!OwnReply'
<1>1. CASE Flow!FbReceive
  <2>1. \/ answer' = answer
        \/ /\ answer' = <<asked, Head(wire).id, Flow!Word(pc), Head(wire).word>>
           /\ Flow!FbMine(Head(wire))
    <3> DEFINE m == Head(wire)
    <3>1. IF Flow!FbMine(m) THEN answer' = <<asked, m.id, Flow!Word(pc), m.word>> ELSE answer' = answer
      BY <1>1 DEF Flow!FbReceive
    <3> HIDE DEF m
    <3>2. CASE Flow!FbMine(m)
      BY <3>1, <3>2 DEF m
    <3>3. CASE ~Flow!FbMine(m)
      BY <3>1, <3>3
    <3> QED
      BY <3>2, <3>3
  <2>2. game = "frostbite" /\ game' = game
    BY <1>1 DEF Flow!FbReceive
  <2> QED
    BY <2>1, <2>2 DEF Flow!OwnReply, Flow!FbMine
<1>2. CASE Flow!RvReceive
  <2>1. game = "ravaged" /\ game' = game
    BY <1>2 DEF Flow!RvReceive
  <2>2. PICK n \in 1..Len(wire) :
          LET chunk == SubSeq(wire, 1, n)
              ends == {i \in 1..n : Flow!RvEnds(chunk[i])}
              end == CHOOSE i \in ends : \A j \in ends : i <= j
          IN  \/ answer' = answer
              \/ /\ ends # {} /\ chunk[end].word # "refused"
                 /\ answer' = <<asked, chunk[end].id, Flow!Word(pc), chunk[end].word>>
    BY <1>2 DEF Flow!RvReceive
  <2> DEFINE chunk == SubSeq(wire, 1, n)
             ends == {i \in 1..n : Flow!RvEnds(chunk[i])}
             end == CHOOSE i \in ends : \A j \in ends : i <= j
  <2>3. CASE answer' = answer
    BY <2>1, <2>3 DEF Flow!OwnReply
  <2>4. CASE /\ ends # {} /\ chunk[end].word # "refused"
             /\ answer' = <<asked, chunk[end].id, Flow!Word(pc), chunk[end].word>>
    <3>1. \E i \in ends : \A j \in ends : i <= j
      <4>1. ends \in SUBSET Nat
        OBVIOUS
      <4> HIDE DEF ends
      <4> QED
        BY <2>4, <4>1, Smallest
    <3>2. end \in ends
      <4> HIDE DEF ends
      <4> QED
        BY <3>1
    <3>3. Flow!RvEnds(chunk[end])
      <4> HIDE DEF end, chunk
      <4> QED
        BY <3>2
    <3>4. chunk[end].word = Flow!Word(pc)
      BY <2>4, <3>3 DEF Flow!RvEnds
    <3> HIDE DEF end, chunk, ends
    <3>5. answer'[3] = answer'[4]
      BY <2>4, <3>4
    <3> QED
      BY <2>1, <3>5 DEF Flow!OwnReply
  <2> HIDE DEF end, ends, chunk
  <2> QED
    BY <2>2, <2>3, <2>4 DEF end, ends, chunk
<1>3. CASE ~Flow!FbReceive /\ ~Flow!RvReceive
  <2>1. answer' = answer /\ game' = game
    <3>1. CASE Flow!Serves \/ Flow!Tick \/ Flow!Command \/ Flow!SendFails
      BY <3>1 DEF Flow!Serves, Flow!Happens, Flow!Answers, Flow!HangsUp, Flow!StopsOrStarts, Flow!ChangesPassword,
                  Flow!Tick, Flow!Command, Flow!SendFails, Flow!told, Flow!server
    <3>2. CASE Flow!Reconnect \/ Flow!FbRead \/ Flow!FbReadLost \/ Flow!FbGiveUp \/ Flow!Read \/ Flow!PingFails
      BY <3>2 DEF Flow!Reconnect, Flow!Tries, Flow!FbRead, Flow!FbReadLost, Flow!FbGiveUp, Flow!Read, Flow!PingFails
    <3>3. CASE Flow!RvReadLost \/ Flow!RvRead \/ Flow!RvGiveUp \/ Flow!RvPump
      BY <3>3 DEF Flow!RvReadLost, Flow!RvRead, Flow!RvGiveUp, Flow!RvPump, Flow!told, Flow!server
    <3> QED
      BY <1>3, <3>1, <3>2, <3>3 DEF Flow!Next, Flow!Reads
  <2> QED
    BY <2>1 DEF Flow!OwnReply
<1> QED
  BY <1>1, <1>2, <1>3

LEMMA FlowStarts == Flow!Init => FlowInv
<1> SUFFICES ASSUME Flow!Init PROVE FlowInv
  OBVIOUS
<1> USE DEF Flow!Init
<1>1. RetriesTyped
  BY DEF RetriesTyped
<1>2. LinkTyped
  BY DEF LinkTyped
<1>3. TurnTyped
  BY DEF TurnTyped
<1>4. wire = <<>> /\ wire \in Seq(Message)
  OBVIOUS
<1>5. StreamTypes
  BY <1>1, <1>2, <1>3, <1>4, TypesSplit
<1>6. RetriesInv
  BY DEF RetriesInv
<1>7. <<>> \in Seq(Said) /\ <<>> \o <<>> = <<>> /\ Len(<<>>) = 0
  BY ConcatEmptySeq
<1>8. Quiet
  BY <1>7 DEF Quiet
<1>9. \A i \in 1..Len(<<>>) : FALSE
  OBVIOUS
<1>10. Tells(<<>>, <<>>, <<>>, 1, 0)
  BY <1>7, <1>9 DEF Tells, Ahead, Before, InTurn, Retells
<1>11. TellsAll
  BY <1>7, <1>10 DEF TellsAll
<1>12. Flow!OwnReply
  BY DEF Flow!OwnReply
<1> QED
  BY <1>5, <1>6, <1>8, <1>11, <1>12, InvSplit DEF FlowInv

LEMMA FlowStep == ASSUME FlowInv, Flow!Next PROVE FlowInv'
BY StreamTypesStep, RetriesStep, StreamStep, RepliesOwnStep DEF FlowInv

LEMMA FlowInOrder == FlowInv => Flow!EventsInOrder
<1> SUFFICES ASSUME FlowInv, game # "ravaged" PROVE Flow!NothingLost /\ Flow!Sequenced(handed \o out \o kept)
  BY DEF Flow!EventsInOrder
<1>1. Quiet /\ TellsAll
  BY InvSplit DEF FlowInv
<1>2. PICK t : t = handed \o kept
  OBVIOUS
<1>3. PICK h : h = heard
  OBVIOUS
<1>4. handed \o out \o kept = t
  <2>1. out = <<>> /\ handed \o <<>> = handed
    BY <1>1, ConcatEmptySeq DEF Quiet
  <2> QED
    BY <1>2, <2>1
<1>5. t \in Seq(Said) /\ h \in Seq(Said) /\ InTurn(t) /\ Retells(t, h)
  BY <1>1, <1>2, <1>3 DEF TellsAll, Tells
<1>6. DOMAIN t = 1..Len(t) /\ DOMAIN h = 1..Len(h)
  BY <1>5
<1>7. Flow!Sequenced(t)
  BY <1>5, <1>6 DEF Flow!Sequenced, InTurn
<1>8. {e \in Flow!Range(t) : Flow!IsReal(e)} = Flow!Range(h)
  <2>1. Flow!Range(t) = {t[x] : x \in 1..Len(t)} /\ Flow!Range(h) = {h[x] : x \in 1..Len(h)}
    BY <1>6 DEF Flow!Range
  <2>2. \A a \in 1..Len(t) : Flow!IsReal(t[a]) => t[a] \in {h[x] : x \in 1..Len(h)}
    BY <1>5 DEF Retells, Flow!IsReal
  <2>3. \A b \in 1..Len(h) : Flow!IsReal(h[b]) /\ h[b] \in {t[x] : x \in 1..Len(t)}
    <3>1. ASSUME NEW b \in 1..Len(h) PROVE h[b][2] # 0 /\ \E a \in 1..Len(t) : t[a] = h[b]
      BY <1>5 DEF Retells
    <3> QED
      BY <3>1 DEF Flow!IsReal
  <2> QED
    BY <2>1, <2>2, <2>3
<1> QED
  BY <1>3, <1>4, <1>7, <1>8 DEF Flow!NothingLost

\* A refused password is not tried while the longest wait runs.
LEMMA FlowPatient == FlowInv => Flow!NotHammered
<1> SUFFICES ASSUME FlowInv, Flow!Reconnect PROVE refused = RetryMax
  BY DEF Flow!NotHammered
<1>1. retryIn = 0 /\ refused \in 0..RetryMax
  BY TypesSplit DEF FlowInv, Flow!Reconnect, RetriesTyped
<1> QED
  BY <1>1 DEF FlowInv, RetriesInv

-----------------------------------------------------------------------------
(* The invariant of LogTail.                                                  *)

\* No newline lies between.
Bare(from, to) == \A e \in from..to : e \notin Newlines

\* An incomplete line is held from byte s on: from where a line starts, or where the tailer
\* began to read without knowing one.
Holds(held, s, place, began) ==
    held = s..place /\ Bare(s, place) /\ (s - 1 \in Newlines \cup {0} \/ s \in began)

TailPlace ==
    /\ base \in Newlines \cup {0}
    /\ unnoticed => Log!Size < offset
    /\ ~unnoticed => offset <= Log!Size
    /\ pc = "read" => offset # -1

\* The buffer ends where the tailer is, unless the file it comes from is gone.
TailBuffer ==
    ~unnoticed =>
        /\ offset = -1 => buf = {}
        /\ pc = "read" /\ skipped => buf = {}
        /\ \/ offset = -1
           \/ pc = "read" /\ skipped
           \/ \E s \in (base + 1)..(base + offset + 1) : Holds(buf, s, base + offset, torn)

\* What was handed over lies behind.
TailBehind ==
    \A line \in given \cup delivered : \A d \in line :
        d <= Log!Place /\ (~unnoticed => \A c \in buf : d < c)

TailInv ==
    /\ Log!TypeOK /\ TailPlace /\ TailBuffer /\ TailBehind
    /\ Log!DeliveredWhole /\ Log!DeliveredInOrder /\ Log!NothingDropped

-----------------------------------------------------------------------------
(* The steps of LogTail: types and places.                                    *)

\* The constants, and the newlines, as numbers.
LEMMA LogNumbers ==
    /\ MaxGap \in Nat /\ MaxBytes \in Nat /\ MaxRotations \in Nat /\ MaxFailures \in Nat
    /\ FromStart \in BOOLEAN
    /\ \A e \in Newlines : e \in Nat /\ e > 0
BY LogAssumption

LEMMA Powers == ASSUME NEW n \in Nat PROVE 2^n \in Nat
<1>1. IsFiniteSet(1..n) /\ Cardinality(1..n) = n
  <2>1. 1 \in Int /\ n \in Int
    OBVIOUS
  <2>2. IsFiniteSet(1..n) /\ Cardinality(1..n) = IF 1 > n THEN 0 ELSE n - 1 + 1
    BY ONLY <2>1, FS_Interval
  <2> QED
    BY <2>2
<1>2. IsFiniteSet(SUBSET (1..n)) /\ Cardinality(SUBSET (1..n)) = 2^n
  BY <1>1, FS_SUBSET
<1> QED
  BY <1>2, FS_CardinalityType

LEMMA Delays2 == ASSUME NEW n \in Nat PROVE Log!Delay(n + 1) \in 0..RetryMax
<1>1. PICK p \in Nat : p = 2^n
  BY Powers
<1>2. (n + 1) - 1 = n
  OBVIOUS
<1>3. RetryInterval \in Nat /\ RetryMax \in Nat
  OBVIOUS
<1>4. PICK d : d = RetryInterval * p
  OBVIOUS
<1>5. d \in Nat
  BY <1>3, <1>4
<1>6. Log!Delay(n + 1) = IF d < RetryMax THEN d ELSE RetryMax
  BY <1>1, <1>2, <1>4 DEF Log!Delay
<1> QED
  BY <1>3, <1>5, <1>6

\* The connection and its retries.
PollTyped ==
    /\ connected \in BOOLEAN /\ failures \in Nat /\ failed \in 0..MaxFailures /\ retryIn \in 0..RetryMax
    /\ pc \in {"idle", "size", "read"}

\* The file, and where in it the tailer is.
FileTyped ==
    /\ written \in 0..MaxBytes /\ base \in 0..written /\ rotations \in 0..MaxRotations
    /\ unnoticed \in BOOLEAN /\ skipped \in BOOLEAN
    /\ offset \in -1..MaxBytes /\ gap \in Nat
    /\ TailPlace

\* The bytes it holds and has handed over.
BytesTyped == buf \subseteq Log!Bytes /\ given \subseteq SUBSET Log!Bytes /\ delivered \subseteq SUBSET Log!Bytes

LEMMA TailTyped == Log!TypeOK /\ TailPlace <=> PollTyped /\ FileTyped /\ BytesTyped
BY DEF Log!TypeOK, PollTyped, FileTyped, BytesTyped

LEMMA FailTyped ==
  ASSUME PollTyped, Log!Fail
  PROVE  /\ connected' = FALSE /\ failures' \in Nat /\ failed' \in 0..MaxFailures /\ retryIn' \in 0..RetryMax
         /\ pc' = "idle"
<1>1. failures \in Nat /\ failed \in Nat
  BY LogNumbers DEF PollTyped
<1>2. retryIn' \in 0..RetryMax
  BY <1>1, Delays2 DEF Log!Fail
<1>3. failed' \in 0..MaxFailures
  BY <1>1, LogNumbers DEF Log!Fail
<1> QED
  BY <1>1, <1>2, <1>3 DEF Log!Fail

LEMMA PollStep == ASSUME PollTyped, Log!Next PROVE PollTyped'
<1>1. CASE Log!Write \/ Log!Rotate \/ Log!Poll
  BY <1>1 DEF Log!Write, Log!Rotate, Log!Poll, Log!link, PollTyped
<1>2. CASE Log!Tick
  <2>1. retryIn' \in 0..RetryMax
    BY <1>2 DEF Log!Tick, PollTyped
  <2> QED
    BY <1>2, <2>1 DEF Log!Tick, PollTyped
<1>3. CASE Log!Connect
  <2>1. CASE Log!Fail
    BY <2>1, FailTyped DEF PollTyped
  <2>2. CASE /\ connected' = TRUE /\ failures' = 0 /\ pc' = "size" /\ UNCHANGED <<retryIn, failed>>
    BY <2>2 DEF PollTyped
  <2> QED
    BY <1>3, <2>1, <2>2 DEF Log!Connect
<1>4. CASE Log!MeasureFails \/ Log!ReadFails
  BY <1>4, FailTyped DEF Log!MeasureFails, Log!ReadFails, PollTyped
<1>5. CASE Log!Measure
  <2>1. Log!Succeed \/ (pc' = "read" /\ UNCHANGED Log!link)
    BY <1>5 DEF Log!Measure
  <2> QED
    BY <2>1 DEF Log!Succeed, Log!link, PollTyped
<1>6. CASE Log!Read
  BY <1>6 DEF Log!Read, Log!Succeed, PollTyped
<1> QED
  BY <1>1, <1>2, <1>3, <1>4, <1>5, <1>6 DEF Log!Next, Log!ReadLines

\* What a poll finds to be new.
LEMMA Measured ==
  ASSUME FileTyped, PollTyped, Log!Measure
  PROVE  \E from \in 0..Log!Size, skip \in BOOLEAN :
           /\ offset = -1 => from \in {0, Log!Size} /\ ~unnoticed
           /\ unnoticed => from = 0 /\ offset > 0 /\ Log!Size < offset
           /\ offset # -1 /\ ~unnoticed => from = offset /\ offset <= Log!Size
           /\ offset' = IF skip THEN Log!Size - MaxGap ELSE from
           /\ offset' \in from..Log!Size
           /\ skipped' = skip /\ unnoticed' = FALSE /\ gap' \in Nat
           /\ buf' = IF skip \/ unnoticed THEN {} ELSE buf
           /\ skip => pc' = "read"
           /\ pc' \in {"idle", "read"}
           /\ lost' = lost \cup (base + (IF offset = -1 THEN 0 ELSE from) + 1)..(base + offset')
           /\ torn' = IF offset = -1 /\ ~skip /\ ~Log!StartsAfter(base + from)
                      THEN torn \cup {base + from + 1} ELSE torn
           /\ UNCHANGED <<written, base, rotations, given, delivered>>
<1> DEFINE from == Log!StartingAt
           news == Log!Size - from
           skip == MaxGap > 0 /\ news > MaxGap
<1>1. Log!Size \in Nat /\ offset \in Int /\ offset >= -1 /\ MaxGap \in Nat
  BY LogNumbers DEF FileTyped, Log!Size
<1>2. /\ offset = -1 => from \in {0, Log!Size} /\ ~unnoticed
      /\ unnoticed => from = 0 /\ offset > 0 /\ Log!Size < offset
      /\ offset # -1 /\ ~unnoticed => from = offset /\ offset <= Log!Size
  BY <1>1 DEF Log!StartingAt, FileTyped, TailPlace
<1>3. from \in 0..Log!Size
  BY <1>1, <1>2 DEF FileTyped
<1>4. skip \in BOOLEAN
  OBVIOUS
<1>5. /\ offset' = IF skip THEN Log!Size - MaxGap ELSE from
      /\ skipped' = skip
      /\ buf' = IF skip \/ (offset # -1 /\ Log!Size < offset) THEN {} ELSE buf
      /\ gap' = IF skip THEN MaxGap ELSE news
      /\ lost' = lost \cup (base + (IF offset = -1 THEN 0 ELSE from) + 1)..(base + offset')
      /\ torn' = IF offset = -1 /\ ~skip /\ ~Log!StartsAfter(base + from)
                 THEN torn \cup {base + from + 1} ELSE torn
      /\ IF news <= 0 THEN Log!Succeed ELSE pc' = "read" /\ UNCHANGED Log!link
      /\ unnoticed' = (unnoticed /\ Log!Size >= offset)
      /\ UNCHANGED <<written, base, rotations, given, delivered>>
  BY DEF Log!Measure
<1> HIDE DEF from
<1>6. offset' \in from..Log!Size /\ gap' \in Nat
  BY <1>1, <1>3, <1>5
<1>7. (offset # -1 /\ Log!Size < offset) <=> unnoticed
  BY <1>1, <1>2 DEF FileTyped
<1>8. unnoticed' = FALSE
  <2>1. ~(unnoticed /\ Log!Size >= offset)
    BY <1>1, <1>2 DEF FileTyped
  <2>2. unnoticed' = (unnoticed /\ Log!Size >= offset)
    BY <1>5
  <2> QED
    BY ONLY <2>1, <2>2
<1>9. skip => ~(news <= 0)
  BY <1>1, <1>3
<1>10. skip => pc' = "read"
  BY <1>5, <1>9
<1>11. pc' \in {"idle", "read"}
  BY <1>5 DEF Log!Succeed
<1>12. buf' = IF skip \/ unnoticed THEN {} ELSE buf
  BY <1>5, <1>7
<1> HIDE DEF skip, news
<1> QED
  BY <1>2, <1>3, <1>4, <1>5, <1>6, <1>8, <1>10, <1>11, <1>12

\* What a read fetches of it.
LEMMA Gets ==
  ASSUME FileTyped, pc = "read", NEW n \in Log!Fetched
  PROVE  /\ n \in Nat /\ offset \in Nat
         /\ unnoticed => n = 0
         /\ ~unnoticed => offset + n <= Log!Size /\ offset <= Log!Size
<1>1. Log!Size \in Nat /\ offset \in Nat /\ gap \in Nat
  BY DEF FileTyped, TailPlace, Log!Size
<1>2. CASE Log!Size <= offset
  BY <1>1, <1>2 DEF Log!Fetched, FileTyped, TailPlace
<1>3. CASE ~(Log!Size <= offset)
  <2>1. ~unnoticed
    BY <1>1, <1>3 DEF FileTyped, TailPlace
  <2>2. n \in {Log!Size - offset, IF gap < Log!Size - offset THEN gap ELSE Log!Size - offset}
    BY <1>3 DEF Log!Fetched
  <2> QED
    BY <1>1, <1>3, <2>1, <2>2
<1> QED
  BY <1>2, <1>3

LEMMA FileStep == ASSUME FileTyped, PollTyped, Log!Next PROVE FileTyped'
<1>1. /\ written \in Nat /\ base \in Nat /\ base <= written /\ written <= MaxBytes /\ offset \in Int
      /\ Log!Size \in Nat /\ Log!Size = written - base /\ MaxBytes \in Nat /\ rotations \in Nat /\ MaxRotations \in Nat
  BY LogNumbers DEF FileTyped, Log!Size
<1>2. CASE Log!Write
  <2>1. written' = written + 1 /\ written < MaxBytes /\ (unnoticed => Log!Size + 1 < offset)
          /\ UNCHANGED <<base, unnoticed, rotations, offset, pc, gap, skipped>>
    BY <1>2 DEF Log!Write
  <2>2. Log!Size' = Log!Size + 1 /\ written' \in 0..MaxBytes /\ base' \in 0..written'
    BY <1>1, <2>1 DEF Log!Size
  <2>3. TailPlace'
    BY <1>1, <2>1, <2>2 DEF FileTyped, TailPlace
  <2> QED
    BY <2>1, <2>2, <2>3 DEF FileTyped
<1>3. CASE Log!Rotate
  <2>1. PICK end \in written..MaxBytes :
          /\ end \in Newlines \cup {0} /\ written' = end /\ base' = end
    BY <1>3 DEF Log!Rotate
  <2>2. rotations' \in 0..MaxRotations
    BY <1>1, <1>3 DEF Log!Rotate
  <2>3. unnoticed' = (offset > 0) /\ UNCHANGED <<offset, pc, gap, skipped>>
    BY <1>3 DEF Log!Rotate
  <2>4. Log!Size' = 0 /\ written' \in 0..MaxBytes /\ base' \in 0..written'
    BY <1>1, <2>1 DEF Log!Size
  <2>5. TailPlace'
    <3>0. unnoticed' <=> offset > 0
      BY ONLY <2>3
    <3>1. unnoticed' => 0 < offset
      BY <1>1, <3>0
    <3>2. ~unnoticed' => offset <= 0
      BY <1>1, <3>0
    <3> QED
      BY <2>1, <2>3, <2>4, <3>1, <3>2 DEF FileTyped, TailPlace
  <2>6. unnoticed' \in BOOLEAN
    BY <2>3
  <2> QED
    BY <2>2, <2>3, <2>4, <2>5, <2>6 DEF FileTyped
<1>4. CASE Log!Tick \/ Log!Connect \/ Log!Poll \/ Log!MeasureFails \/ Log!ReadFails
  <2>1. UNCHANGED <<written, base, unnoticed, rotations, offset, gap, skipped>>
    BY <1>4 DEF Log!Tick, Log!Connect, Log!Poll, Log!MeasureFails, Log!ReadFails, Log!server
  <2>2. pc' = "read" => pc = "read"
    BY <1>4 DEF Log!Tick, Log!Connect, Log!Poll, Log!MeasureFails, Log!ReadFails, Log!Fail
  <2>3. Log!Size' = Log!Size
    BY <2>1 DEF Log!Size
  <2>4. TailPlace'
    BY <2>1, <2>2, <2>3 DEF FileTyped, TailPlace
  <2> QED
    BY <2>1, <2>4 DEF FileTyped
<1>5. CASE Log!Measure
  <2>1. /\ \E from \in 0..Log!Size : offset' \in from..Log!Size
        /\ skipped' \in BOOLEAN /\ unnoticed' = FALSE /\ gap' \in Nat
        /\ UNCHANGED <<written, base, rotations>>
    BY <1>5, Measured
  <2>2. offset' \in 0..Log!Size /\ Log!Size' = Log!Size
    BY <1>1, <2>1 DEF Log!Size
  <2>3. offset' \in -1..MaxBytes /\ offset' # -1 /\ offset' <= Log!Size'
    BY <1>1, <2>2
  <2>4. TailPlace'
    BY <2>1, <2>3 DEF FileTyped, TailPlace
  <2> QED
    BY <2>1, <2>3, <2>4 DEF FileTyped
<1>6. CASE Log!Read
  <2>1. PICK n \in Log!Fetched : offset' = Log!NewOffset(n)
    BY <1>6 DEF Log!Read
  <2>2. pc = "read" /\ pc' = "idle" /\ UNCHANGED <<written, base, unnoticed, rotations, gap, skipped>>
    BY <1>6 DEF Log!Read, Log!Succeed, Log!server
  <2>3. offset' = offset + n /\ Log!Size' = Log!Size
    BY <2>1, <2>2 DEF Log!NewOffset, Log!Size
  <2>4. /\ n \in Nat /\ offset \in Nat
        /\ unnoticed => n = 0
        /\ ~unnoticed => offset + n <= Log!Size
    BY <2>1, <2>2, Gets
  <2>5. offset' \in -1..MaxBytes
    BY <1>1, <2>3, <2>4 DEF FileTyped
  <2>6. TailPlace'
    BY <1>1, <2>2, <2>3, <2>4 DEF FileTyped, TailPlace
  <2> QED
    BY <2>2, <2>5, <2>6 DEF FileTyped
<1> QED
  BY <1>2, <1>3, <1>4, <1>5, <1>6 DEF Log!Next, Log!ReadLines

-----------------------------------------------------------------------------
(* Cutting what was fetched into lines.                                       *)

LEMMA Largest ==
  ASSUME NEW n \in Nat, NEW B, B \subseteq 0..n, B # {}
  PROVE  \E x \in B : \A y \in B : y <= x
<1> DEFINE C == {n - x : x \in B}
<1>1. C \in SUBSET Nat /\ C # {}
  <2>1. \A x \in B : n - x \in Nat
    OBVIOUS
  <2>2. PICK x \in B : TRUE
    OBVIOUS
  <2>3. n - x \in C
    OBVIOUS
  <2> QED
    BY <2>1, <2>3
<1>2. PICK c \in C : \A d \in C : c <= d
  <2> HIDE DEF C
  <2> QED
    BY <1>1, Smallest
<1>3. PICK x \in B : c = n - x
  BY <1>2
<1>4. ASSUME NEW y \in B PROVE y <= x
  <2>1. n - y \in C
    OBVIOUS
  <2>2. n - x <= n - y
    BY <1>2, <1>3, <2>1
  <2>3. x \in 0..n /\ y \in 0..n
    OBVIOUS
  <2> QED
    BY <2>2, <2>3
<1> QED
  BY <1>4

\* A line as it is handed over: whole, or from where the tailer began to read.
Whole(line, b, began) ==
    /\ b \in line
    /\ \/ line = Log!WholeLine(b)
       \/ \E c \in began : line = {d \in Log!WholeLine(b) : c <= d}

\* What was held and what is new, up to a newline, are one line.
LEMMA HeldLine ==
  ASSUME NEW s \in Nat \ {0}, NEW b \in Newlines, s <= b, b <= MaxBytes, NEW began,
         Bare(s, b - 1), s - 1 \in Newlines \cup {0} \/ s \in began
  PROVE  Whole(s..b, b, began)
<1>1. b \in Nat /\ b \in s..b /\ MaxBytes \in Nat /\ \A e \in Newlines : e \in Nat
  BY LogNumbers
<1>2. ASSUME NEW e \in Newlines, e < b PROVE e < s
  <2>1. ~(e \in s..(b - 1))
    BY DEF Bare
  <2> QED
    BY <1>1, <1>2, <2>1
<1>3. \A d \in s..b : d \in Log!WholeLine(b)
  <2>1. ASSUME NEW d \in s..b PROVE d \in Log!Bytes /\ d <= b /\ \A e \in Newlines : e < b => e < d
    BY <1>1, <1>2 DEF Log!Bytes
  <2> QED
    BY <2>1 DEF Log!WholeLine
<1>4. CASE s \in began
  <2>1. \A d \in Log!WholeLine(b) : s <= d => d \in s..b
    BY <1>1 DEF Log!WholeLine, Log!Bytes
  <2>2. \A d \in s..b : s <= d
    BY <1>1
  <2>3. s..b = {d \in Log!WholeLine(b) : s <= d}
    BY <1>3, <2>1, <2>2
  <2> QED
    BY <1>1, <1>4, <2>3 DEF Whole
<1>5. CASE s - 1 \in Newlines \cup {0}
  <2>1. ASSUME NEW d \in Log!WholeLine(b) PROVE d \in s..b
    <3>1. d \in Nat /\ d > 0 /\ d <= b /\ \A e \in Newlines : e < b => e < d
      BY <1>1 DEF Log!WholeLine, Log!Bytes
    <3>2. s - 1 \in Newlines => s - 1 < d
      BY <1>1, <3>1
    <3>3. s <= d
      BY <1>5, <3>1, <3>2
    <3> QED
      BY <1>1, <3>1, <3>3
  <2>2. s..b = Log!WholeLine(b)
    BY <1>3, <2>1
  <2> QED
    BY <1>1, <2>2 DEF Whole
<1> QED
  BY <1>4, <1>5

\* A line after another one is whole.
LEMMA NextLine ==
  ASSUME NEW p \in Nat, NEW b \in Newlines, b <= MaxBytes, NEW f \in Newlines, p < f, f < b, NEW began
  PROVE  Whole({c \in (p + 1)..b : \A e \in Newlines : p < e /\ e < b => e < c}, b, began)
<1> DEFINE line == {c \in (p + 1)..b : \A e \in Newlines : p < e /\ e < b => e < c}
<1>1. b \in Nat /\ f \in Nat /\ MaxBytes \in Nat /\ \A e \in Newlines : e \in Nat
  BY LogNumbers
<1>2. ASSUME NEW c \in line PROVE c \in Log!WholeLine(b)
  <2>1. c \in (p + 1)..b /\ \A e \in Newlines : p < e /\ e < b => e < c
    OBVIOUS
  <2>2. \A e \in Newlines : e < b => e < c
    BY <1>1, <2>1
  <2>3. c \in Log!Bytes /\ c <= b
    BY <1>1, <2>1 DEF Log!Bytes
  <2> QED
    BY <2>2, <2>3 DEF Log!WholeLine
<1>3. ASSUME NEW c \in Log!WholeLine(b) PROVE c \in line
  <2>1. c \in Nat /\ c <= b /\ \A e \in Newlines : e < b => e < c
    BY <1>1 DEF Log!WholeLine, Log!Bytes
  <2>2. f < c
    BY <2>1
  <2>3. c \in (p + 1)..b
    BY <1>1, <2>1, <2>2
  <2> QED
    BY <2>1, <2>3
<1>4. line = Log!WholeLine(b)
  <2> HIDE DEF line
  <2> QED
    BY <1>2, <1>3
<1>5. b \in line
  <2>1. b \in (p + 1)..b
    BY <1>1
  <2> QED
    BY <2>1
<1> QED
  BY <1>4, <1>5 DEF Whole

\* What a read does with its bytes: each line is whole, comes after what is held, and what is
\* held next comes after the lines.
Splits(came, q, began) ==
    /\ \A b \in came \cap Newlines : Whole(Log!Line(came, b), b, began)
    /\ \A b \in came \cap Newlines : \A c \in Log!Rest(came) : \A d \in Log!Line(came, b) : d < c
    /\ \A b \in came \cap Newlines : \A d \in Log!Line(came, b) : d \in came \cup buf
    /\ \A c \in Log!Rest(came) : c \in came \cup buf

\* Without a skip, what was held goes on.
LEMMA SplitsPlain ==
  ASSUME NEW p \in Nat, NEW q \in p..MaxBytes, NEW began, NEW s \in 1..(p + 1), Holds(buf, s, p, began)
  PROVE  /\ Splits((p + 1)..q, q, began)
         /\ \E r \in s..(q + 1) : Holds(Log!Rest((p + 1)..q), r, q, began)
<1> DEFINE data == (p + 1)..q
<1>1. q \in Nat /\ p <= q /\ q <= MaxBytes /\ s \in Nat /\ 1 <= s /\ s <= p + 1 /\ MaxBytes \in Nat
  BY LogNumbers
<1>2. buf = s..p /\ Bare(s, p) /\ (s - 1 \in Newlines \cup {0} \/ s \in began)
  BY DEF Holds
<1>3. \A e \in Newlines : e \in Nat
  BY LogNumbers
<1>4. \A x : x \in data <=> x \in Nat /\ p < x /\ x <= q
  BY <1>1
<1>5. \A c \in buf : c \in Nat /\ c <= p /\ s <= c
  BY <1>1, <1>2
<1>6. \A e \in Newlines : s <= e => p < e
  <2>1. ASSUME NEW e \in Newlines, s <= e PROVE p < e
    <3>1. ~(e \in s..p)
      BY <1>2 DEF Bare
    <3> QED
      BY <1>1, <1>3, <2>1, <3>1
  <2> QED
    BY <2>1
<1> HIDE DEF data
<1>7. ASSUME NEW b \in data \cap Newlines
      PROVE  /\ Whole(Log!Line(data, b), b, began)
             /\ \A d \in Log!Line(data, b) : d \in data \cup buf /\ d \in Nat /\ d <= b
  <2>1. b \in Nat /\ p < b /\ b <= q
    BY <1>4
  <2>2. CASE \A e \in data \cap Newlines : e >= b
    <3>1. Log!Line(data, b) = {c \in data : c <= b /\ \A e \in data \cap Newlines : e < b => e < c} \cup buf
      BY <2>2 DEF Log!Line
    <3>2. \A e \in data \cap Newlines : ~(e < b)
      <4>1. ASSUME NEW e \in data \cap Newlines PROVE ~(e < b)
        <5>1. e \in Nat /\ e >= b
          BY <1>3, <2>2
        <5> QED
          BY ONLY <2>1, <5>1
      <4> QED
        BY <4>1
    <3>3. \A x : x \in Log!Line(data, b) <=> x \in Nat /\ s <= x /\ x <= b
      <4>1. ASSUME NEW x \in Log!Line(data, b) PROVE x \in Nat /\ s <= x /\ x <= b
        <5>1. CASE x \in buf
          BY <1>1, <1>5, <2>1, <5>1
        <5>2. CASE x \in data /\ x <= b
          BY <1>1, <1>4, <5>2
        <5> QED
          BY <3>1, <5>1, <5>2
      <4>2. ASSUME NEW x \in Nat, s <= x, x <= b PROVE x \in Log!Line(data, b)
        <5>1. CASE x <= p
          BY <1>1, <1>2, <3>1, <4>2, <5>1
        <5>2. CASE p < x
          <6>1. x \in data /\ x <= b
            BY <1>1, <1>4, <2>1, <4>2, <5>2
          <6> QED
            BY <3>1, <3>2, <6>1
        <5> QED
          BY <1>1, <4>2, <5>1, <5>2
      <4> QED
        BY <4>1, <4>2
    <3>4. \A x : x \in s..b <=> x \in Nat /\ s <= x /\ x <= b
      BY <1>1, <2>1
    <3>5. Log!Line(data, b) = s..b
      BY ONLY <3>3, <3>4
    <3>6. Bare(s, b - 1)
      <4>1. ASSUME NEW e \in s..(b - 1) PROVE e \notin Newlines
        <5>1. e \in Nat /\ s <= e /\ e < b
          BY <1>1, <2>1
        <5>2. ASSUME e \in Newlines PROVE FALSE
          <6>1. p < e
            BY <1>6, <5>1, <5>2
          <6>2. e \in data
            BY <1>1, <1>4, <2>1, <5>1, <6>1
          <6> QED
            BY <3>2, <5>1, <5>2, <6>2
        <5> QED
          BY <5>2
      <4> QED
        BY <4>1 DEF Bare
    <3>7. Whole(s..b, b, began)
      <4>1. s \in Nat \ {0} /\ s <= b /\ b <= MaxBytes /\ b \in Newlines
        BY <1>1, <2>1
      <4> QED
        BY <1>2, <3>6, <4>1, HeldLine
    <3>8. \A d \in Log!Line(data, b) : d \in data \cup buf
      BY <3>1
    <3> QED
      BY <3>3, <3>5, <3>7, <3>8
  <2>3. CASE ~\A e \in data \cap Newlines : e >= b
    <3>1. Log!Line(data, b) = {c \in data : c <= b /\ \A e \in data \cap Newlines : e < b => e < c}
      BY <2>3 DEF Log!Line
    <3>2. PICK f \in data \cap Newlines : f < b
      BY <1>3, <2>1, <2>3
    <3> DEFINE line == {c \in (p + 1)..b : \A e \in Newlines : p < e /\ e < b => e < c}
    <3>3. Whole(line, b, began)
      <4>1. f \in Newlines /\ p < f /\ f < b /\ b <= MaxBytes /\ b \in Newlines
        BY <1>1, <1>4, <2>1, <3>2
      <4> HIDE DEF line
      <4> QED
        BY <4>1, NextLine DEF line
    <3>4. \A c : c \in line <=> c \in Log!Line(data, b)
      <4>1. \A c : c \in (p + 1)..b <=> c \in data /\ c <= b
        BY <1>1, <1>4, <2>1
      <4>2. \A e \in Newlines : (p < e /\ e < b) <=> (e \in data /\ e < b)
        <5>1. ASSUME NEW e \in Newlines PROVE (p < e /\ e < b) <=> (e \in data /\ e < b)
          <6>1. e \in Nat /\ (e \in data <=> p < e /\ e <= q)
            BY <1>3, <1>4
          <6> QED
            BY ONLY <1>1, <2>1, <6>1
        <5> QED
          BY <5>1
      <4> QED
        BY ONLY <3>1, <4>1, <4>2
    <3>5. Log!Line(data, b) = line
      <4> HIDE DEF line
      <4> QED
        BY ONLY <3>4
    <3>6. \A d \in Log!Line(data, b) : d \in data /\ d <= b
      BY <3>1
    <3> QED
      BY <1>4, <3>3, <3>5, <3>6
  <2> QED
    BY <2>2, <2>3
<1>8. CASE data \cap Newlines = {}
  <2>1. Log!Rest(data) = data \cup buf
    BY <1>8 DEF Log!Rest
  <2>2. \A x : x \in s..q <=> x \in data \cup buf
    <3>1. \A x : x \in s..q <=> x \in Nat /\ s <= x /\ x <= q
      BY <1>1
    <3>2. \A x : x \in buf <=> x \in Nat /\ s <= x /\ x <= p
      BY <1>1, <1>2
    <3>3. ASSUME NEW x \in Nat PROVE (s <= x /\ x <= q) <=> ((p < x /\ x <= q) \/ (s <= x /\ x <= p))
      BY <1>1
    <3> QED
      BY ONLY <1>4, <3>1, <3>2, <3>3
  <2>3. Log!Rest(data) = s..q
    BY ONLY <2>1, <2>2
  <2>4. Bare(s, q)
    <3>1. ASSUME NEW e \in s..q, e \in Newlines PROVE FALSE
      <4>1. e \in Nat /\ s <= e /\ e <= q
        BY <1>1
      <4>2. p < e
        BY <1>6, <3>1, <4>1
      <4> QED
        BY <1>4, <1>8, <3>1, <4>1, <4>2
    <3> QED
      BY <3>1 DEF Bare
  <2>5. Holds(Log!Rest(data), s, q, began) /\ s \in s..(q + 1)
    BY <1>1, <1>2, <2>3, <2>4 DEF Holds
  <2>6. Splits(data, q, began)
    BY <1>8, <2>1 DEF Splits
  <2> QED
    BY <2>5, <2>6 DEF data
<1>9. CASE data \cap Newlines # {}
  <2>1. PICK m \in data \cap Newlines : \A e \in data \cap Newlines : e <= m
    <3>1. data \cap Newlines \subseteq 0..q
      BY <1>1, <1>4
    <3> QED
      BY <1>1, <1>9, <3>1, Largest
  <2>2. m \in Nat /\ p < m /\ m <= q
    BY <1>4
  <2>3. Log!Rest(data) = {c \in data : \A e \in data \cap Newlines : e < c}
    BY <1>9 DEF Log!Rest
  <2>4. \A c : c \in (m + 1)..q <=> c \in Log!Rest(data)
    <3>1. ASSUME NEW c \in (m + 1)..q PROVE c \in Log!Rest(data)
      <4>1. c \in data /\ m < c /\ c \in Nat
        BY <1>1, <1>4, <2>2
      <4>2. \A e \in data \cap Newlines : e < c
        <5>1. ASSUME NEW e \in data \cap Newlines PROVE e < c
          <6>1. e \in Nat /\ e <= m
            BY <1>3, <2>1
          <6> QED
            BY ONLY <2>2, <4>1, <6>1
        <5> QED
          BY <5>1
      <4> QED
        BY <2>3, <4>1, <4>2
    <3>2. ASSUME NEW c \in Log!Rest(data) PROVE c \in (m + 1)..q
      <4>1. c \in data /\ m < c
        BY <2>1, <2>3
      <4> QED
        BY <1>1, <1>4, <2>2, <4>1
    <3> QED
      BY <3>1, <3>2
  <2>5. Log!Rest(data) = (m + 1)..q
    BY ONLY <2>4
  <2>6. Bare(m + 1, q)
    <3>1. ASSUME NEW e \in (m + 1)..q, e \in Newlines PROVE FALSE
      <4>1. e \in data /\ m < e /\ e \in Nat
        BY <1>1, <1>4, <2>2
      <4>2. e <= m
        BY <2>1, <3>1, <4>1
      <4> QED
        BY <2>2, <4>1, <4>2
    <3> QED
      BY <3>1 DEF Bare
  <2>7. m + 1 \in s..(q + 1) /\ (m + 1) - 1 = m
    BY <1>1, <2>2
  <2>8. Holds(Log!Rest(data), m + 1, q, began)
    BY <2>5, <2>6, <2>7 DEF Holds
  <2>9. ASSUME NEW b \in data \cap Newlines, NEW c \in Log!Rest(data), NEW d \in Log!Line(data, b) PROVE d < c
    <3>1. d \in Nat /\ d <= b
      BY <1>7
    <3>2. b < c /\ c \in data
      BY <2>3
    <3>3. b \in Nat /\ c \in Nat
      BY <1>4, <3>2
    <3> QED
      BY <3>1, <3>2, <3>3
  <2>10. \A c \in Log!Rest(data) : c \in data \cup buf
    BY <2>3
  <2>11. Splits(data, q, began)
    BY <1>7, <2>9, <2>10 DEF Splits
  <2> QED
    BY <2>7, <2>8, <2>11 DEF data
<1> QED
  BY <1>8, <1>9

\* After a skip, what follows the first newline is came.
LEMMA SplitsAfter ==
  ASSUME NEW p \in Nat, NEW q \in p..MaxBytes, NEW began, buf = {}
  PROVE  LET data == (p + 1)..q
             came == Log!AfterFragment(data)
         IN  /\ Splits(came, q, began)
             /\ data \cap Newlines # {} => \E r \in (p + 1)..(q + 1) : Holds(Log!Rest(came), r, q, began)
             /\ data \cap Newlines = {} => came = {}
             /\ Log!Rest(came) \subseteq came
<1> DEFINE data == (p + 1)..q
           came == Log!AfterFragment(data)
<1>1. q \in Nat /\ p <= q /\ q <= MaxBytes /\ MaxBytes \in Nat
  BY LogNumbers
<1>2. \A e \in Newlines : e \in Nat
  BY LogNumbers
<1>3. \A x : x \in data <=> x \in Nat /\ p < x /\ x <= q
  BY <1>1
<1>4. \A x : x \in came <=> x \in data /\ \E e \in data \cap Newlines : e < x
  BY DEF Log!AfterFragment
<1> HIDE DEF data, came
<1>5. Log!Rest(came) = {c \in came : \A e \in came \cap Newlines : e < c}
  BY DEF Log!Rest
<1>6. \A b : Log!Line(came, b) = {c \in came : c <= b /\ \A e \in came \cap Newlines : e < b => e < c}
  BY DEF Log!Line
<1>7. ASSUME NEW b \in came \cap Newlines PROVE Whole(Log!Line(came, b), b, began)
  <2>1. b \in Nat /\ p < b /\ b <= q /\ b \in data
    BY <1>3, <1>4
  <2>2. PICK f \in data \cap Newlines : f < b
    BY <1>4
  <2>3. f \in Nat /\ p < f
    BY <1>3
  <2> DEFINE line == {c \in (p + 1)..b : \A e \in Newlines : p < e /\ e < b => e < c}
  <2>4. Whole(line, b, began)
    <3>1. f \in Newlines /\ b <= MaxBytes /\ b \in Newlines
      BY <1>1, <2>1
    <3> HIDE DEF line
    <3> QED
      BY <2>1, <2>2, <2>3, <3>1, NextLine DEF line
  <2>5. ASSUME NEW c \in line PROVE c \in Log!Line(came, b)
    <3>1. c \in data /\ c <= b /\ \A e \in Newlines : p < e /\ e < b => e < c
      BY <1>1, <1>3, <2>1
    <3>2. f < c
      BY <2>2, <2>3, <3>1
    <3>3. c \in came
      BY <1>4, <3>1, <3>2
    <3>4. \A e \in came \cap Newlines : e < b => e < c
      BY <1>3, <1>4, <3>1
    <3> QED
      BY <1>6, <3>1, <3>3, <3>4
  <2>6. ASSUME NEW c \in Log!Line(came, b) PROVE c \in line
    <3>1. c \in came /\ c <= b /\ \A e \in came \cap Newlines : e < b => e < c
      BY <1>6
    <3>2. c \in data /\ c \in Nat /\ p < c
      BY <1>3, <1>4, <3>1
    <3>3. PICK g \in data \cap Newlines : g < c
      BY <1>4, <3>1
    <3>4. ASSUME NEW e \in Newlines, p < e, e < b PROVE e < c
      <4>1. e \in Nat /\ e \in data /\ g \in Nat
        BY <1>1, <1>2, <1>3, <2>1, <3>4
      <4>2. CASE e \in came
        BY <3>1, <3>4, <4>2
      <4>3. CASE e \notin came
        <5>1. ~(g < e)
          BY <1>4, <4>1, <4>3
        <5> QED
          BY <3>2, <3>3, <4>1, <5>1
      <4> QED
        BY <4>2, <4>3
    <3>5. c \in (p + 1)..b
      BY <2>1, <3>1, <3>2
    <3> QED
      BY <3>4, <3>5
  <2>7. Log!Line(came, b) = line
    <3> HIDE DEF line
    <3> QED
      BY <2>5, <2>6
  <2> QED
    BY <2>4, <2>7
<1>8. ASSUME NEW b \in came \cap Newlines, NEW c \in Log!Rest(came), NEW d \in Log!Line(came, b) PROVE d < c
  <2>1. d \in came /\ d <= b
    BY <1>6
  <2>2. c \in came /\ b < c
    BY <1>5
  <2>3. b \in Nat /\ c \in Nat /\ d \in Nat
    BY <1>3, <1>4, <2>1, <2>2
  <2> QED
    BY ONLY <2>1, <2>2, <2>3
<1>9. Splits(came, q, began)
  <2>1. \A b : \A d \in Log!Line(came, b) : d \in came \cup buf
    BY <1>6
  <2>2. \A c \in Log!Rest(came) : c \in came \cup buf
    BY <1>5
  <2> QED
    BY <1>7, <1>8, <2>1, <2>2 DEF Splits
<1>10. ASSUME data \cap Newlines # {} PROVE \E r \in (p + 1)..(q + 1) : Holds(Log!Rest(came), r, q, began)
  <2>1. PICK m \in data \cap Newlines : \A e \in data \cap Newlines : e <= m
    <3>1. data \cap Newlines \subseteq 0..q
      BY <1>1, <1>3
    <3> QED
      BY <1>1, <1>10, <3>1, Largest
  <2>2. m \in Nat /\ p < m /\ m <= q
    BY <1>3
  <2>3. ASSUME NEW c \in (m + 1)..q PROVE c \in Log!Rest(came)
    <3>1. c \in data /\ m < c /\ c \in Nat
      BY <1>1, <1>3, <2>2
    <3>2. c \in came
      BY <1>4, <3>1
    <3>3. ASSUME NEW e \in came \cap Newlines PROVE e < c
      <4>1. e \in Nat /\ e <= m
        BY <1>2, <1>4, <2>1
      <4> QED
        BY ONLY <2>2, <3>1, <4>1
    <3> QED
      BY <1>5, <3>2, <3>3
  <2>4. ASSUME NEW c \in Log!Rest(came) PROVE c \in (m + 1)..q
    <3>1. c \in came /\ \A e \in came \cap Newlines : e < c
      BY <1>5
    <3>2. c \in data /\ c \in Nat /\ c <= q
      BY <1>3, <1>4, <3>1
    <3>3. PICK g \in data \cap Newlines : g < c
      BY <1>4, <3>1
    <3>4. m < c
      <4>1. CASE m \in came
        BY <3>1, <4>1
      <4>2. CASE m \notin came
        <5>1. ~(g < m) /\ g \in Nat
          BY <1>2, <1>4, <4>2
        <5> QED
          BY ONLY <2>2, <3>2, <3>3, <5>1
      <4> QED
        BY <4>1, <4>2
    <3> QED
      BY ONLY <1>1, <2>2, <3>2, <3>4
  <2>5. Log!Rest(came) = (m + 1)..q
    BY <2>3, <2>4
  <2>6. Bare(m + 1, q)
    <3>1. ASSUME NEW e \in (m + 1)..q, e \in Newlines PROVE FALSE
      <4>1. e \in data /\ m < e /\ e \in Nat
        BY <1>1, <1>3, <2>2
      <4>2. e <= m
        BY <2>1, <3>1, <4>1
      <4> QED
        BY <2>2, <4>1, <4>2
    <3> QED
      BY <3>1 DEF Bare
  <2>7. m + 1 \in (p + 1)..(q + 1) /\ (m + 1) - 1 = m
    BY <1>1, <2>2
  <2>8. Holds(Log!Rest(came), m + 1, q, began)
    BY <2>5, <2>6, <2>7 DEF Holds
  <2> QED
    BY <2>7, <2>8
<1>11. data \cap Newlines = {} => came = {}
  BY <1>4
<1>12. Log!Rest(came) \subseteq came
  BY <1>5
<1> QED
  BY <1>9, <1>10, <1>11, <1>12 DEF data, came

-----------------------------------------------------------------------------
(* The steps of LogTail: what is held and handed over.                        *)

\* What the invariant says beyond the types of the file and the connection.
Follows ==
    /\ BytesTyped /\ TailBuffer /\ TailBehind
    /\ Log!DeliveredWhole /\ Log!DeliveredInOrder /\ Log!NothingDropped

LEMMA TailSplit == TailInv <=> PollTyped /\ FileTyped /\ Follows
BY TailTyped DEF TailInv, Follows

\* Where a read ends, what it keeps of what it got, and what becomes of it.
Cut(came, p, q) ==
    /\ p \in Nat /\ q \in p..MaxBytes /\ base <= p
    /\ p = base + offset /\ q = base + offset'
    /\ came \subseteq (p + 1)..q /\ came = Log!Kept((p + 1)..q)
    /\ buf \subseteq 0..p
    /\ buf' = Log!Rest(came)
    /\ Splits(came, q, torn')
    /\ \E r \in (base + 1)..(q + 1) : Holds(buf', r, q, torn')

LEMMA ReadCuts ==
  ASSUME FileTyped, TailBuffer, Log!Read, ~unnoticed
  PROVE  \E p, q : /\ Cut(Log!Kept((p + 1)..q), p, q)
                   /\ given' = Log!SplitLines(Log!Kept((p + 1)..q))
                   /\ lost' = IF skipped THEN lost \cup ((p + 1)..q \ Log!AfterFragment((p + 1)..q)) ELSE lost
<1>1. PICK n \in Log!Fetched :
        /\ offset' = Log!NewOffset(n)
        /\ buf' = Log!Rest(Log!Kept((base + offset + 1)..(base + offset + n)))
        /\ given' = Log!SplitLines(Log!Kept((base + offset + 1)..(base + offset + n)))
        /\ lost' = IF skipped
                   THEN lost \cup ((base + offset + 1)..(base + offset + n)
                                     \ Log!AfterFragment((base + offset + 1)..(base + offset + n)))
                   ELSE lost
        /\ torn' = IF skipped /\ (base + offset + 1)..(base + offset + n) \cap Newlines = {}
                   THEN torn \cup {base + offset' + 1} ELSE torn
  BY DEF Log!Read
<1>2. pc = "read"
  BY DEF Log!Read
<1>3. n \in Nat /\ offset \in Nat /\ offset + n <= Log!Size /\ offset <= Log!Size
  BY <1>1, <1>2, Gets
<1>4. base \in Nat /\ written \in Nat /\ Log!Size = written - base /\ written <= MaxBytes /\ MaxBytes \in Nat
        /\ skipped \in BOOLEAN
  BY LogNumbers DEF FileTyped, Log!Size
<1> DEFINE p == base + offset
           q == base + offset + n
           data == (p + 1)..q
           came == Log!Kept(data)
<1>5. p \in Nat /\ q \in p..MaxBytes /\ base <= p /\ q \in Nat /\ p <= q
  BY <1>3, <1>4
<1>6. base + offset' = q
  BY <1>1, <1>3, <1>4 DEF Log!NewOffset
<1>7. buf' = Log!Rest(came) /\ given' = Log!SplitLines(came)
        /\ lost' = IF skipped THEN lost \cup (data \ Log!AfterFragment(data)) ELSE lost
  BY <1>1
<1>8. torn' = IF skipped /\ data \cap Newlines = {} THEN torn \cup {q + 1} ELSE torn
  BY <1>1, <1>6
<1>9. CASE ~skipped
  <2>1. came = data /\ torn' = torn
    BY <1>8, <1>9 DEF Log!Kept
  <2>2. PICK s \in (base + 1)..(base + offset + 1) : Holds(buf, s, base + offset, torn)
    BY <1>3, <1>9 DEF TailBuffer
  <2>3. s \in 1..(p + 1) /\ s \in Nat /\ base + 1 <= s /\ Holds(buf, s, p, torn')
    BY <1>3, <1>4, <2>1, <2>2
  <2>4. Splits(data, q, torn') /\ \E r \in s..(q + 1) : Holds(Log!Rest(data), r, q, torn')
    <3> HIDE DEF p, q
    <3> QED
      BY <1>5, <2>3, SplitsPlain DEF data
  <2>5. \E r \in (base + 1)..(q + 1) : Holds(buf', r, q, torn')
    <3>1. PICK r \in s..(q + 1) : Holds(Log!Rest(data), r, q, torn')
      BY <2>4
    <3>2. r \in (base + 1)..(q + 1)
      <4> HIDE DEF q, p
      <4> QED
        BY <1>4, <1>5, <2>3
    <3>3. buf' = Log!Rest(data)
      BY <1>7, <2>1
    <3> QED
      BY <3>1, <3>2, <3>3
  <2>6. buf \subseteq 0..p
    <3>1. buf = s..p
      BY <2>3 DEF Holds
    <3> HIDE DEF p
    <3> QED
      BY <1>5, <2>3, <3>1
  <2>7. came \subseteq data /\ Splits(came, q, torn')
    BY <2>1, <2>4
  <2>8. Cut(came, p, q)
    <3> HIDE DEF came
    <3> QED
      BY <1>5, <1>6, <1>7, <2>5, <2>6, <2>7 DEF Cut, came
  <2> QED
    BY <1>7, <2>8
<1>10. CASE skipped
  <2>1. came = Log!AfterFragment(data)
    BY <1>10 DEF Log!Kept
  <2>2. buf = {}
    BY <1>2, <1>10 DEF TailBuffer
  <2>3. /\ Splits(came, q, torn')
        /\ data \cap Newlines # {} => \E r \in (p + 1)..(q + 1) : Holds(Log!Rest(came), r, q, torn')
        /\ data \cap Newlines = {} => came = {}
        /\ Log!Rest(came) \subseteq came
    <3> HIDE DEF p, q
    <3> QED
      BY <1>5, <2>1, <2>2, SplitsAfter DEF data
  <2>4. came \subseteq data
    BY <2>1 DEF Log!AfterFragment
  <2>5. \E r \in (base + 1)..(q + 1) : Holds(buf', r, q, torn')
    <3>1. CASE data \cap Newlines # {}
      <4>1. PICK r \in (p + 1)..(q + 1) : Holds(Log!Rest(came), r, q, torn')
        BY <2>3, <3>1
      <4>2. r \in (base + 1)..(q + 1)
        <5> HIDE DEF p, q
        <5> QED
          BY <1>4, <1>5
      <4> QED
        BY <1>7, <4>1, <4>2
    <3>2. CASE data \cap Newlines = {}
      <4>1. buf' = {} /\ q + 1 \in torn'
        BY <1>7, <1>8, <1>10, <2>3, <3>2
      <4>2. (q + 1)..q = {} /\ q + 1 \in (base + 1)..(q + 1)
        <5> HIDE DEF p, q
        <5> QED
          BY <1>4, <1>5
      <4>3. Bare(q + 1, q)
        BY <4>2 DEF Bare
      <4>4. Holds(buf', q + 1, q, torn')
        BY <4>1, <4>2, <4>3 DEF Holds
      <4> QED
        BY <4>2, <4>4
    <3> QED
      BY <3>1, <3>2
  <2>6. buf \subseteq 0..p
    BY <2>2
  <2>7. Cut(came, p, q)
    <3> HIDE DEF came
    <3> QED
      BY <1>5, <1>6, <1>7, <2>3, <2>4, <2>5, <2>6 DEF Cut, came
  <2> QED
    BY <1>7, <2>7
<1> QED
  BY <1>4, <1>9, <1>10

LEMMA ReadFollows == ASSUME FileTyped, Follows, Log!Read, ~unnoticed PROVE Follows'
<1>1. PICK p, q : /\ Cut(Log!Kept((p + 1)..q), p, q)
                  /\ given' = Log!SplitLines(Log!Kept((p + 1)..q))
                  /\ lost' = IF skipped THEN lost \cup ((p + 1)..q \ Log!AfterFragment((p + 1)..q)) ELSE lost
  BY ReadCuts DEF Follows
<1> DEFINE data == (p + 1)..q
           came == Log!Kept(data)
<1>2. Cut(came, p, q) /\ given' = Log!SplitLines(came)
  BY <1>1
<1> HIDE DEF came
<1>3. p \in Nat /\ q \in Nat /\ p <= q /\ q <= MaxBytes /\ MaxBytes \in Nat /\ p = base + offset /\ q = base + offset'
        /\ base \in Nat /\ offset \in Nat
  <2>1. pc = "read" /\ base \in Nat /\ offset \in -1..MaxBytes /\ (pc = "read" => offset # -1) /\ MaxBytes \in Nat
    BY LogNumbers DEF Log!Read, FileTyped, TailPlace
  <2>2. p \in Nat /\ q \in p..MaxBytes /\ p = base + offset /\ q = base + offset'
    BY <1>2 DEF Cut
  <2> QED
    BY ONLY <2>1, <2>2
<1>4. came \subseteq data /\ buf \subseteq 0..p /\ buf' = Log!Rest(came)
  BY <1>2 DEF Cut
<1>5. given' = {Log!Line(came, b) : b \in came \cap Newlines} /\ delivered' = delivered \cup given
  BY <1>2 DEF Log!SplitLines, Log!Read
<1>6. UNCHANGED <<written, base, unnoticed>> /\ pc = "read" /\ pc' = "idle"
  BY DEF Log!Read, Log!server, Log!Succeed
<1>7. Log!Place = p /\ Log!Place' = q
  <2>1. offset # -1 /\ offset' # -1
    BY ONLY <1>3
  <2> QED
    BY <1>3, <1>6, <2>1 DEF Log!Place
<1>8. Splits(came, q, torn')
  BY <1>2 DEF Cut
<1>9. \A x \in came : x \in Nat /\ p < x /\ x <= q
  BY <1>3, <1>4
<1>10. \A line \in given \cup delivered : \A d \in line :
         d \in Nat /\ d <= p /\ \A c \in buf : d < c
  <2>1. \A line \in given \cup delivered : \A d \in line : d \in Nat
    BY DEF Follows, BytesTyped, Log!Bytes
  <2> QED
    BY <1>7, <2>1 DEF Follows, TailBehind
<1>11. \A x \in buf : x \in Nat /\ x <= p
  BY <1>3, <1>4
<1>12. \A c \in Log!Rest(came) : c \in came \cup buf
  BY <1>8 DEF Splits
\* what was handed over before lies before what is held and what is new
<1>13. ASSUME NEW line \in given \cup delivered, NEW d \in line, NEW c \in came \cup buf PROVE d < c
  <2>1. CASE c \in buf
    BY <1>10, <2>1
  <2>2. CASE c \in came
    <3>1. d \in Nat /\ d <= p /\ c \in Nat /\ p < c
      BY <1>9, <1>10, <2>2
    <3> QED
      BY ONLY <1>3, <3>1
  <2> QED
    BY <2>1, <2>2
<1>14. ASSUME NEW line \in given', NEW d \in line
       PROVE  d \in came \cup buf /\ d <= q /\ d \in Nat /\ (\A c \in Log!Rest(came) : d < c)
  <2>1. PICK b \in came \cap Newlines : line = Log!Line(came, b)
    BY <1>5
  <2>2. d \in came \cup buf /\ \A c \in Log!Rest(came) : d < c
    BY <1>8, <2>1 DEF Splits
  <2>3. d \in Nat /\ d <= q
    <3>1. CASE d \in came
      BY <1>9, <3>1
    <3>2. CASE d \in buf
      <4>1. d \in Nat /\ d <= p
        BY <1>11, <3>2
      <4> QED
        BY ONLY <1>3, <4>1
    <3> QED
      BY <2>2, <3>1, <3>2
  <2> QED
    BY <2>2, <2>3
<1>15. BytesTyped'
  <2>1. \A x \in came : x \in Log!Bytes
    <3>1. ASSUME NEW x \in came PROVE x \in 1..MaxBytes
      <4>1. x \in Nat /\ p < x /\ x <= q
        BY <1>9
      <4> QED
        BY ONLY <1>3, <4>1
    <3> QED
      BY <3>1 DEF Log!Bytes
  <2>2. buf \subseteq Log!Bytes /\ given \subseteq SUBSET Log!Bytes /\ delivered \subseteq SUBSET Log!Bytes
    BY DEF Follows, BytesTyped
  <2>3. buf' \subseteq Log!Bytes
    BY <1>4, <1>12, <2>1, <2>2
  <2>4. given' \subseteq SUBSET Log!Bytes
    BY <1>14, <2>1, <2>2
  <2>5. delivered' \subseteq SUBSET Log!Bytes
    BY <1>5, <2>2
  <2> QED
    BY <2>3, <2>4, <2>5 DEF BytesTyped, Log!Bytes
<1>16. TailBuffer'
  <2>1. PICK r \in (base + 1)..(q + 1) : Holds(buf', r, q, torn')
    BY <1>2 DEF Cut
  <2>2. offset' # -1 /\ pc' # "read" /\ base' = base /\ base' + offset' = q
    BY <1>3, <1>6
  <2>3. r \in (base' + 1)..(base' + offset' + 1) /\ Holds(buf', r, base' + offset', torn')
    BY <2>1, <2>2
  <2> QED
    BY <2>2, <2>3 DEF TailBuffer, Holds, Bare
<1>17. TailBehind'
  <2>1. ASSUME NEW line \in given' \cup delivered', NEW d \in line PROVE d <= q /\ \A c \in buf' : d < c
    <3>1. CASE line \in given'
      BY <1>4, <1>14, <3>1
    <3>2. CASE line \in given \cup delivered
      <4>1. d \in Nat /\ d <= p
        BY <1>10, <3>2
      <4>2. d <= q
        BY ONLY <1>3, <4>1
      <4>3. \A c \in buf' : d < c
        BY <1>4, <1>12, <1>13, <3>2
      <4> QED
        BY <4>2, <4>3
    <3> QED
      BY <1>5, <3>1, <3>2
  <2> QED
    BY <1>7, <2>1 DEF TailBehind
<1>18. Log!DeliveredWhole'
  <2>1. ASSUME NEW line \in given'
        PROVE  \E b \in line \cap Newlines :
                 \/ line = Log!WholeLine(b)
                 \/ \E c \in torn' : line = {d \in Log!WholeLine(b) : c <= d}
    <3>1. PICK b \in came \cap Newlines : line = Log!Line(came, b)
      BY <1>5
    <3>2. Whole(line, b, torn')
      BY <1>8, <3>1 DEF Splits
    <3> QED
      BY <3>1, <3>2 DEF Whole
  <2> QED
    BY <2>1 DEF Log!DeliveredWhole, Log!WholeLine, Log!Bytes
<1>19. Log!DeliveredInOrder'
  <2>1. ASSUME NEW line \in given', NEW earlier \in delivered', NEW c \in line, NEW d \in earlier PROVE d < c
    BY <1>5, <1>13, <1>14
  <2> QED
    BY <2>1 DEF Log!DeliveredInOrder
<1>20. Log!NothingDropped'
  <2>1. ASSUME NEW b \in Newlines, b <= q
        PROVE  (\E line \in given' \cup delivered' : b \in line) \/ b \in lost'
    <3>1. b \in Nat
      BY LogNumbers
    <3>2. CASE b <= p
      <4>1. (\E line \in given \cup delivered : b \in line) \/ b \in lost
        BY <1>7, <3>2 DEF Follows, Log!NothingDropped, Log!HandedOver
      <4>2. lost \subseteq lost'
        BY <1>1
      <4> QED
        BY <1>5, <4>1, <4>2
    <3>3. CASE b \in came
      <4>1. b \in Log!Line(came, b)
        BY <1>8, <3>3 DEF Splits, Whole
      <4> QED
        BY <1>5, <3>3, <4>1
    <3>4. CASE ~(b <= p) /\ b \notin came
      <4>1. b \in data
        BY ONLY <1>3, <2>1, <3>1, <3>4
      <4>2. came = IF skipped THEN Log!AfterFragment(data) ELSE data
        BY DEF Log!Kept, came
      <4>3. skipped /\ b \in data \ Log!AfterFragment(data)
        BY <3>4, <4>1, <4>2
      <4> QED
        BY <1>1, <4>3
    <3> QED
      BY <3>2, <3>3, <3>4
  <2> QED
    BY <1>7, <2>1 DEF Log!NothingDropped, Log!HandedOver
<1> QED
  BY <1>15, <1>16, <1>17, <1>18, <1>19, <1>20 DEF Follows

\* A read of a file that is gone gets nothing.
LEMMA ReadNothing == ASSUME FileTyped, Follows, Log!Read, unnoticed PROVE Follows'
<1>1. PICK n \in Log!Fetched :
        /\ buf' = Log!Rest(Log!Kept((base + offset + 1)..(base + offset + n)))
        /\ given' = Log!SplitLines(Log!Kept((base + offset + 1)..(base + offset + n)))
  BY DEF Log!Read
<1>2. n = 0 /\ offset \in Nat /\ base \in Nat
  BY Gets DEF Log!Read, FileTyped
<1>3. (base + offset + 1)..(base + offset + n) = {}
  BY <1>2
<1>4. Log!Kept({}) = {}
  BY DEF Log!Kept, Log!AfterFragment
<1>5. Log!Rest({}) = buf /\ Log!SplitLines({}) = {}
  BY DEF Log!Rest, Log!SplitLines
<1>6. buf' = buf /\ given' = {}
  BY <1>1, <1>3, <1>4, <1>5
<1>7. delivered' = delivered \cup given /\ lost \subseteq lost'
  BY DEF Log!Read
<1>8. UNCHANGED <<written, base, unnoticed>>
  BY DEF Log!Read, Log!server
<1>9. Log!Place = base /\ Log!Place' = base
  BY <1>8 DEF Log!Place
<1>10. BytesTyped'
  BY <1>6, <1>7 DEF Follows, BytesTyped, Log!Bytes
<1>11. TailBuffer'
  BY <1>8 DEF TailBuffer
<1>12. TailBehind'
  BY <1>6, <1>7, <1>8, <1>9 DEF Follows, TailBehind
<1>13. Log!DeliveredWhole' /\ Log!DeliveredInOrder'
  BY <1>6 DEF Log!DeliveredWhole, Log!DeliveredInOrder
<1>14. Log!NothingDropped'
  BY <1>6, <1>7, <1>9 DEF Follows, Log!NothingDropped, Log!HandedOver
<1> QED
  BY <1>10, <1>11, <1>12, <1>13, <1>14 DEF Follows

LEMMA MeasureFollows == ASSUME FileTyped, PollTyped, Follows, Log!Measure PROVE Follows'
<1>1. PICK from \in 0..Log!Size, skip \in BOOLEAN :
           /\ offset = -1 => from \in {0, Log!Size} /\ ~unnoticed
           /\ unnoticed => from = 0 /\ offset > 0 /\ Log!Size < offset
           /\ offset # -1 /\ ~unnoticed => from = offset /\ offset <= Log!Size
           /\ offset' = IF skip THEN Log!Size - MaxGap ELSE from
           /\ offset' \in from..Log!Size
           /\ skipped' = skip /\ unnoticed' = FALSE /\ gap' \in Nat
           /\ buf' = IF skip \/ unnoticed THEN {} ELSE buf
           /\ skip => pc' = "read"
           /\ pc' \in {"idle", "read"}
           /\ lost' = lost \cup (base + (IF offset = -1 THEN 0 ELSE from) + 1)..(base + offset')
           /\ torn' = IF offset = -1 /\ ~skip /\ ~Log!StartsAfter(base + from)
                      THEN torn \cup {base + from + 1} ELSE torn
           /\ UNCHANGED <<written, base, rotations, given, delivered>>
  BY Measured
<1>2. base \in Nat /\ written \in Nat /\ Log!Size \in Nat /\ offset \in -1..MaxBytes /\ from \in Nat /\ offset' \in Nat
        /\ from <= offset' /\ base \in Newlines \cup {0}
  <2>1. base \in Nat /\ written \in Nat /\ Log!Size \in Nat /\ offset \in -1..MaxBytes /\ base \in Newlines \cup {0}
    BY LogNumbers DEF FileTyped, TailPlace, Log!Size
  <2>2. from \in 0..Log!Size /\ offset' \in from..Log!Size
    BY <1>1
  <2> QED
    BY ONLY <2>1, <2>2
<1>3. pc = "size"
  BY DEF Log!Measure
<1>4. Log!Place = base + (IF offset = -1 \/ unnoticed THEN 0 ELSE from)
  BY <1>1, <1>2 DEF Log!Place
<1>5. Log!Place' = base + offset'
  BY <1>1, <1>2 DEF Log!Place
<1>6. Log!Place <= Log!Place' /\ Log!Place \in Nat /\ Log!Place' \in Nat
  <2>1. PICK x : x = IF offset = -1 \/ unnoticed THEN 0 ELSE from
    OBVIOUS
  <2>2. x \in Nat /\ x <= from
    BY ONLY <1>2, <2>1
  <2>3. Log!Place = base + x
    BY ONLY <1>4, <2>1
  <2>4. PICK y : y = offset'
    OBVIOUS
  <2>5. base \in Nat /\ from \in Nat /\ y \in Nat /\ from <= y
    BY ONLY <1>2, <2>4
  <2>6. base + x <= base + y /\ base + x \in Nat /\ base + y \in Nat
    BY ONLY <2>2, <2>5
  <2> QED
    BY ONLY <1>5, <2>3, <2>4, <2>6
<1>7. BytesTyped'
  BY <1>1 DEF Follows, BytesTyped, Log!Bytes
<1>8. TailBuffer'
  <2>1. offset' # -1 /\ unnoticed' = FALSE
    BY <1>1, <1>2
  <2>2. CASE skip
    BY <1>1, <2>1, <2>2 DEF TailBuffer
  <2>3. CASE ~skip
    <3>1. offset' = from /\ skipped' = FALSE /\ buf' = IF unnoticed THEN {} ELSE buf
      BY <1>1, <2>3
    <3>2. CASE offset = -1 \/ unnoticed
      <4>1. buf' = {}
        BY <1>1, <3>1, <3>2 DEF Follows, TailBuffer
      <4>2. base + from + 1 \in (base + 1)..(base + from + 1) /\ (base + from + 1)..(base + from) = {}
              /\ (base + from + 1) - 1 = base + from
        BY <1>2
      <4>3. base + from \in Newlines \cup {0} \/ base + from + 1 \in torn'
        <5>1. CASE unnoticed
          BY <1>1, <1>2, <5>1
        <5>2. CASE offset = -1 /\ Log!StartsAfter(base + from)
          BY <1>2, <5>2 DEF Log!StartsAfter
        <5>3. CASE offset = -1 /\ ~Log!StartsAfter(base + from)
          BY <1>1, <2>3, <5>3
        <5> QED
          BY <3>2, <5>1, <5>2, <5>3
      <4>4. Bare(base + from + 1, base + from)
        BY <4>2 DEF Bare
      <4>5. Holds(buf', base + from + 1, base + from, torn')
        BY <4>1, <4>2, <4>3, <4>4 DEF Holds
      <4>6. \E s \in (base' + 1)..(base' + offset' + 1) : Holds(buf', s, base' + offset', torn')
        BY <1>1, <3>1, <4>2, <4>5
      <4> QED
        BY <2>1, <3>1, <4>6 DEF TailBuffer, Holds, Bare
    <3>3. CASE offset # -1 /\ ~unnoticed
      <4>1. from = offset /\ buf' = buf /\ torn' = torn
        BY <1>1, <3>1, <3>3
      <4>2. PICK s \in (base + 1)..(base + offset + 1) : Holds(buf, s, base + offset, torn)
        BY <1>3, <3>3 DEF Follows, TailBuffer
      <4>3. s \in (base' + 1)..(base' + offset' + 1) /\ Holds(buf', s, base' + offset', torn')
        BY <1>1, <3>1, <4>1, <4>2
      <4> QED
        BY <2>1, <3>1, <4>3 DEF TailBuffer, Holds, Bare
    <3> QED
      BY <3>2, <3>3
  <2> QED
    BY <2>2, <2>3
<1>9. TailBehind'
  <2>1. ASSUME NEW line \in given \cup delivered, NEW d \in line PROVE d <= Log!Place' /\ \A c \in buf' : d < c
    <3>1. d \in Nat
      BY DEF Follows, BytesTyped, Log!Bytes
    <3>2. d <= Log!Place /\ (~unnoticed => \A c \in buf : d < c)
      BY DEF Follows, TailBehind
    <3>3. d <= Log!Place'
      BY ONLY <1>6, <3>1, <3>2
    <3>4. \A c \in buf' : d < c
      BY <1>1, <3>2
    <3> QED
      BY <3>3, <3>4
  <2> QED
    BY <1>1, <2>1 DEF TailBehind
<1>10. Log!DeliveredWhole'
  <2>1. torn \subseteq torn' /\ given' = given
    BY <1>1
  <2> QED
    BY <2>1 DEF Follows, Log!DeliveredWhole, Log!WholeLine, Log!Bytes
<1>11. Log!DeliveredInOrder'
  BY <1>1 DEF Follows, Log!DeliveredInOrder
<1>12. Log!NothingDropped'
  <2>1. ASSUME NEW b \in Newlines, b <= Log!Place'
        PROVE  (\E line \in given \cup delivered : b \in line) \/ b \in lost'
    <3>1. b \in Nat
      BY LogNumbers
    <3>2. CASE b <= Log!Place
      <4>1. (\E line \in given \cup delivered : b \in line) \/ b \in lost
        BY <3>2 DEF Follows, Log!NothingDropped, Log!HandedOver
      <4> QED
        BY <1>1, <4>1
    <3>3. CASE ~(b <= Log!Place)
      <4>1. (IF offset = -1 THEN 0 ELSE from) = (IF offset = -1 \/ unnoticed THEN 0 ELSE from)
        BY <1>1
      <4>2. Log!Place = base + (IF offset = -1 THEN 0 ELSE from)
        BY <1>4, <4>1
      <4>3. PICK x : x = IF offset = -1 THEN 0 ELSE from
        OBVIOUS
      <4>4. x \in Nat
        BY ONLY <1>2, <4>3
      <4>5. Log!Place = base + x
        BY ONLY <4>2, <4>3
      <4>6. PICK y : y = offset'
        OBVIOUS
      <4>7. base \in Nat /\ y \in Nat
        BY ONLY <1>2, <4>6
      <4>8. ~(b <= base + x) /\ b <= base + y
        BY ONLY <1>5, <2>1, <3>3, <4>5, <4>6
      <4>9. b \in (base + x + 1)..(base + y)
        BY ONLY <3>1, <4>4, <4>7, <4>8
      <4> QED
        BY <1>1, <4>3, <4>6, <4>9
    <3> QED
      BY <3>2, <3>3
  <2> QED
    BY <1>1, <2>1 DEF Log!NothingDropped, Log!HandedOver
<1> QED
  BY <1>7, <1>8, <1>9, <1>10, <1>11, <1>12 DEF Follows

\* The steps that read nothing.
LEMMA IdleFollows ==
  ASSUME FileTyped, Follows, Log!Write \/ Log!Tick \/ Log!Connect \/ Log!Poll \/ Log!MeasureFails
  PROVE  Follows'
<1>1. UNCHANGED <<base, unnoticed, offset, buf, given, delivered, torn, lost, skipped>>
  BY DEF Log!Write, Log!Tick, Log!Connect, Log!Poll, Log!MeasureFails, Log!server, Log!history
<1>2. pc' = pc \/ (pc # "read" /\ pc' # "read")
  BY DEF Log!Write, Log!Tick, Log!Connect, Log!Poll, Log!MeasureFails, Log!Fail
<1>3. BytesTyped'
  BY <1>1 DEF Follows, BytesTyped, Log!Bytes
<1>4. Log!Place' = Log!Place
  BY <1>1 DEF Log!Place
<1>5. TailBuffer'
  BY <1>1, <1>2 DEF Follows, TailBuffer, Holds, Bare
<1>6. TailBehind'
  BY <1>1, <1>4 DEF Follows, TailBehind
<1>7. Log!DeliveredWhole'
  BY <1>1 DEF Follows, Log!DeliveredWhole, Log!WholeLine, Log!Bytes
<1>8. Log!DeliveredInOrder'
  BY <1>1 DEF Follows, Log!DeliveredInOrder
<1>9. Log!NothingDropped'
  BY <1>1, <1>4 DEF Follows, Log!NothingDropped, Log!HandedOver
<1> QED
  BY <1>3, <1>5, <1>6, <1>7, <1>8, <1>9 DEF Follows

\* A read that fails after a skip leaves the tailer where it is.
LEMMA FailFollows == ASSUME FileTyped, Follows, Log!ReadFails PROVE Follows'
<1>1. UNCHANGED <<written, base, unnoticed, offset, buf, given, delivered, lost, skipped>>
  BY DEF Log!ReadFails, Log!server
<1>2. pc = "read" /\ pc' = "idle" /\ torn' = IF skipped THEN torn \cup {base + offset + 1} ELSE torn
  BY DEF Log!ReadFails, Log!Fail
<1>3. BytesTyped'
  BY <1>1 DEF Follows, BytesTyped, Log!Bytes
<1>4. Log!Place' = Log!Place
  BY <1>1 DEF Log!Place
<1>5. base \in Nat /\ offset \in Nat
  BY <1>2 DEF FileTyped, TailPlace
<1>6. TailBuffer'
  <2>1. SUFFICES ASSUME ~unnoticed PROVE \E s \in (base + 1)..(base + offset + 1) : Holds(buf, s, base + offset, torn')
    BY <1>1, <1>2, <1>5 DEF TailBuffer, Holds, Bare
  <2>2. CASE skipped
    <3>1. buf = {}
      BY <1>2, <2>1, <2>2 DEF Follows, TailBuffer
    <3>2. base + offset + 1 \in (base + 1)..(base + offset + 1) /\ (base + offset + 1)..(base + offset) = {}
      BY <1>5
    <3>3. Holds(buf, base + offset + 1, base + offset, torn')
      BY <1>2, <2>2, <3>1, <3>2 DEF Holds, Bare
    <3> QED
      BY <3>2, <3>3
  <2>3. CASE ~skipped
    BY <1>2, <1>5, <2>1, <2>3 DEF Follows, TailBuffer
  <2> QED
    BY <2>2, <2>3
<1>7. TailBehind'
  BY <1>1, <1>4 DEF Follows, TailBehind
<1>8. torn \subseteq torn'
  BY <1>2
<1>9. Log!DeliveredWhole'
  BY <1>1, <1>8 DEF Follows, Log!DeliveredWhole, Log!WholeLine, Log!Bytes
<1>10. Log!DeliveredInOrder'
  BY <1>1 DEF Follows, Log!DeliveredInOrder
<1>11. Log!NothingDropped'
  BY <1>1, <1>4 DEF Follows, Log!NothingDropped, Log!HandedOver
<1> QED
  BY <1>3, <1>6, <1>7, <1>9, <1>10, <1>11 DEF Follows

LEMMA RotateFollows == ASSUME FileTyped, Follows, Log!Rotate PROVE Follows'
<1>1. PICK end \in written..MaxBytes :
        /\ end \in Newlines \cup {0}
        /\ written' = end /\ base' = end /\ lost' = lost \cup (Log!Place + 1)..end
  BY DEF Log!Rotate
<1>2. unnoticed' = (offset > 0) /\ UNCHANGED <<offset, buf, pc, skipped, given, delivered, torn>>
  BY DEF Log!Rotate
<1>3. base \in Nat /\ written \in Nat /\ base <= written /\ offset \in -1..MaxBytes /\ MaxBytes \in Nat /\ end \in Nat
        /\ written <= end
  <2>1. base \in 0..written /\ written \in 0..MaxBytes /\ offset \in -1..MaxBytes /\ MaxBytes \in Nat
    BY LogNumbers DEF FileTyped
  <2> QED
    BY ONLY <1>1, <2>1
<1>4. Log!Place \in Nat /\ Log!Place <= end
  <2>1. ~unnoticed => offset <= written - base
    BY DEF FileTyped, TailPlace, Log!Size
  <2> QED
    BY <1>3, <2>1 DEF Log!Place
<1>5. unnoticed' <=> offset > 0
  BY ONLY <1>2
<1>6. Log!Place' = end
  <2>1. CASE offset > 0
    BY <1>1, <1>5, <2>1 DEF Log!Place
  <2>2. CASE ~(offset > 0)
    <3>1. (offset = -1 \/ offset = 0) /\ end + 0 = end
      BY ONLY <1>3, <2>2
    <3> QED
      BY <1>1, <1>2, <3>1 DEF Log!Place
  <2> QED
    BY <2>1, <2>2
<1>7. BytesTyped'
  BY <1>2 DEF Follows, BytesTyped, Log!Bytes
<1>8. ~unnoticed' => buf' = {} /\ (offset' = -1 \/ offset' = 0)
  <2>1. ASSUME ~unnoticed' PROVE buf = {} /\ (offset = -1 \/ offset = 0)
    <3>1. offset = -1 \/ offset = 0
      BY ONLY <1>3, <1>5, <2>1
    <3>2. ~unnoticed
      BY <1>3, <3>1 DEF FileTyped, TailPlace, Log!Size
    <3>3. CASE offset = -1 \/ (pc = "read" /\ skipped)
      <4>1. buf = {}
        BY <3>2, <3>3 DEF Follows, TailBuffer
      <4> QED
        BY ONLY <3>1, <4>1
    <3>4. CASE offset = 0 /\ \E s \in (base + 1)..(base + offset + 1) : Holds(buf, s, base + offset, torn)
      <4>1. PICK s \in (base + 1)..(base + 1) : Holds(buf, s, base, torn)
        BY <1>3, <3>4
      <4>2. buf = s..base
        BY <4>1 DEF Holds
      <4> QED
        BY <1>3, <3>4, <4>1, <4>2
    <3> QED
      BY <3>1, <3>2, <3>3, <3>4 DEF Follows, TailBuffer
  <2> QED
    BY <1>2, <2>1
<1>9. TailBuffer'
  <2>1. SUFFICES ASSUME ~unnoticed', offset' = 0
                 PROVE  \E s \in (base' + 1)..(base' + offset' + 1) : Holds(buf', s, base' + offset', torn')
    BY <1>8 DEF TailBuffer, Holds, Bare
  <2>2. base' + offset' = end /\ end + 1 \in (base' + 1)..(base' + offset' + 1) /\ (end + 1)..end = {}
          /\ (end + 1) - 1 = end
    BY <1>1, <1>3, <2>1
  <2>3. Holds(buf', end + 1, end, torn')
    BY <1>1, <1>8, <2>1, <2>2 DEF Holds, Bare
  <2> QED
    BY <2>2, <2>3
<1>10. TailBehind'
  <2>1. ASSUME NEW line \in given \cup delivered, NEW d \in line PROVE d <= end
    <3>1. d \in Nat
      BY DEF Follows, BytesTyped, Log!Bytes
    <3>2. d <= Log!Place
      BY DEF Follows, TailBehind
    <3> QED
      BY ONLY <1>3, <1>4, <3>1, <3>2
  <2> QED
    BY <1>2, <1>6, <1>8, <2>1 DEF TailBehind
<1>11. Log!DeliveredWhole'
  BY <1>2 DEF Follows, Log!DeliveredWhole, Log!WholeLine, Log!Bytes
<1>12. Log!DeliveredInOrder'
  BY <1>2 DEF Follows, Log!DeliveredInOrder
<1>13. Log!NothingDropped'
  <2>1. ASSUME NEW b \in Newlines, b <= end
        PROVE  (\E line \in given \cup delivered : b \in line) \/ b \in lost'
    <3>1. b \in Nat
      BY LogNumbers
    <3>2. CASE b <= Log!Place
      BY <1>1, <3>2 DEF Follows, Log!NothingDropped, Log!HandedOver
    <3>3. CASE ~(b <= Log!Place)
      <4>1. b \in (Log!Place + 1)..end
        BY ONLY <1>3, <1>4, <2>1, <3>1, <3>3
      <4> QED
        BY <1>1, <4>1
    <3> QED
      BY <3>2, <3>3
  <2> QED
    BY <1>2, <1>6, <2>1 DEF Log!NothingDropped, Log!HandedOver
<1> QED
  BY <1>7, <1>9, <1>10, <1>11, <1>12, <1>13 DEF Follows

LEMMA TailStep == ASSUME TailInv, Log!Next PROVE TailInv'
<1>1. PollTyped /\ FileTyped /\ Follows
  BY TailSplit
<1>2. Follows'
  BY <1>1, IdleFollows, FailFollows, RotateFollows, MeasureFollows, ReadFollows, ReadNothing
  DEF Log!Next, Log!ReadLines
<1>3. (PollTyped /\ FileTyped /\ Follows)'
  BY <1>1, <1>2, PollStep, FileStep
<1> QED
  BY <1>3, TailSplit, PTL

LEMMA TailStarts == Log!Init => TailInv
<1> SUFFICES ASSUME Log!Init PROVE TailInv
  OBVIOUS
<1> USE DEF Log!Init
<1>1. written \in 0..MaxBytes /\ base = 0 /\ MaxBytes \in Nat /\ MaxRotations \in Nat /\ MaxFailures \in Nat
        /\ \A e \in Newlines : e \in Nat /\ e > 0
  BY LogNumbers
<1>2. PollTyped
  BY <1>1 DEF PollTyped
<1>3. FileTyped
  <2>1. Log!Size = written /\ written \in Nat
    BY <1>1 DEF Log!Size
  <2>2. offset = -1 /\ -1 \in -1..MaxBytes /\ -1 <= written /\ base \in 0..written
    BY <1>1, <2>1
  <2>3. TailPlace
    BY <1>1, <2>1, <2>2 DEF TailPlace
  <2>4. rotations \in 0..MaxRotations /\ gap \in Nat
    BY <1>1
  <2> QED
    BY <1>1, <2>2, <2>3, <2>4 DEF FileTyped
<1>4. BytesTyped /\ TailBuffer /\ TailBehind
  BY DEF BytesTyped, TailBuffer, TailBehind
<1>5. Log!DeliveredWhole /\ Log!DeliveredInOrder
  BY DEF Log!DeliveredWhole, Log!DeliveredInOrder
<1>6. Log!NothingDropped
  <2>1. Log!Place = 0
    BY DEF Log!Place
  <2>2. \A b \in Newlines : ~(b <= 0)
    BY <1>1
  <2> QED
    BY <2>1, <2>2 DEF Log!NothingDropped
<1> QED
  BY <1>2, <1>3, <1>4, <1>5, <1>6, TailSplit DEF Follows

-----------------------------------------------------------------------------
(* The theorems.                                                              *)

LinesInv ==
    /\ part \in {"tail", "flow"}
    /\ part = "tail" => TailInv
    /\ part = "flow" => FlowInv

LEMMA LinesStart == LinesInit => LinesInv
  BY TailStarts, FlowStarts DEF LinesInit, LinesInv

LEMMA TailRestsWhenOff ==
  ASSUME UNCHANGED <<bothVars, tailVars>>, TailInv PROVE TailInv'
BY DEF bothVars, tailVars, TailInv, Log!TypeOK, TailPlace, TailBuffer, Holds, Bare, TailBehind, Log!Place, Log!Size,
       Log!Bytes, Log!DeliveredWhole, Log!WholeLine, Log!DeliveredInOrder, Log!NothingDropped, Log!HandedOver

LEMMA FlowRestsWhenOff ==
  ASSUME UNCHANGED <<bothVars, flowVars>>, FlowInv PROVE FlowInv'
<1> USE DEF bothVars, flowVars
<1>1. StreamTypes'
  BY DEF FlowInv, StreamTypes, Flow!TypeOK
<1>2. RetriesInv'
  BY DEF FlowInv, RetriesInv
<1>3. StreamInv'
  <2>1. UNCHANGED <<game, out, kept, handed, heard, wire, conn, made>>
    OBVIOUS
  <2> QED
    BY <2>1 DEF FlowInv, StreamInv
<1>4. Flow!OwnReply'
  BY DEF FlowInv, Flow!OwnReply
<1> QED
  BY <1>1, <1>2, <1>3, <1>4 DEF FlowInv

LEMMA LinesStep == LinesInv /\ [LinesNext]_<<part, bothVars, tailVars, flowVars>> => LinesInv'
<1> SUFFICES ASSUME LinesInv, [LinesNext]_<<part, bothVars, tailVars, flowVars>> PROVE LinesInv'
  OBVIOUS
<1>1. CASE UNCHANGED <<part, bothVars, tailVars, flowVars>>
  BY <1>1, TailRestsWhenOff, FlowRestsWhenOff DEF LinesInv
<1>2. CASE LinesNext
  BY <1>2, TailStep, FlowStep DEF LinesInv, LinesNext
<1> QED
  BY <1>1, <1>2

\* The variables of the tailer and of the clients stay in their types: no wait is longer than the
\* longest there is, the tailer never reads from before the file or past it, and who waits for a
\* reply still runs (net/logsource.py:135-153, 230-306, net/frostbite.py:686-707).
THEOREM LinesTyped == LinesSpec => []LinesTypeOK
<1>1. LinesInv => LinesTypeOK
  BY DEF LinesInv, TailInv, FlowInv, StreamTypes, LinesTypeOK
<1> QED
  BY <1>1, LinesStart, LinesStep, PTL DEF LinesSpec

\* What the bot is handed is what the server said, for a log of any lines, any gap and any number
\* of truncations and failed requests: each line whole, none twice or out of turn, and none lost
\* but what a skip or a truncation took (net/logsource.py:135-153, 230-306); and for any number of
\* events, commands and lost connections: each event once and in order, whatever was asked in
\* between, with the notice of a reconnection in its place (net/frostbite.py:361-375, 562-583,
\* net/homefront.py:222-254, net/frontline.py:250-272).
THEOREM LinesArriveAsWritten == LinesSpec => []LinesAsWritten
<1>1. LinesInv => LinesAsWritten
  BY FlowInOrder DEF LinesInv, TailInv, LinesAsWritten
<1> QED
  BY <1>1, LinesStart, LinesStep, PTL DEF LinesSpec

\* A late reply is never taken for the reply to another command, for any number of commands given
\* up (net/frostbite.py:575, net/ravaged.py:386-390).
THEOREM StreamRepliesBelong == LinesSpec => []OwnReply
<1>1. LinesInv => OwnReply
  BY DEF LinesInv, FlowInv, OwnReply
<1> QED
  BY <1>1, LinesStart, LinesStep, PTL DEF LinesSpec

\* A refused password is not tried again before the longest wait is over, for any waits and however
\* often the server and its password change (net/frostbite.py:691-699, net/homefront.py:267-275,
\* net/frontline.py:302-307).
THEOREM RefusedPasswordsRest == LinesSpec => NotHammered
<1>1. LinesInv => (part = "flow" => Flow!NotHammered)
  BY FlowPatient DEF LinesInv
<1>2. LinesInv /\ [LinesNext]_<<part, bothVars, tailVars, flowVars>>
        => [part = "flow" => Flow!NotHammered]_<<part, bothVars, tailVars, flowVars>>
  BY <1>1
<1> QED
  BY <1>2, LinesStart, LinesStep, PTL DEF LinesSpec, NotHammered

===============================================================================
