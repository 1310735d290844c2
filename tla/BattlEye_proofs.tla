---------------------------- MODULE BattlEye_proofs ----------------------------
(* The BattlEye client, for any threads, numbers, windows and faults: it stays in *)
(* its types, hands every event over once, answers a command with its own reply   *)
(* and sends things in the order they were asked for.                             *)
EXTENDS BattlEye, FiniteSetTheorems, SequenceTheorems, TLAPS

USE CallersAssumption, WindowAssumption, TimesAssumption, BoundsAssumption

-----------------------------------------------------------------------------
(* The invariant.                                                             *)

SeqOf(n) == (n - first - 1) % Wrap

\* The events the bot may still meet.
Arriving == {d.n : d \in {e \in flying : e.type = "event"}}
Outstanding == unacked \cup Arriving

Events == [type : {"event"}, n : Nat, seq : 0..(Wrap - 1)]
Answered == [type : {"reply"}, ask : Asks, seq : 0..(Wrap - 1), part : 1..2, total : 1..2]

Places == {"idle", "await", "drain", "silent", "probe", "collect", "return"}
USE DEF Places

Typed ==
    /\ flying \subseteq Events \cup Answered
    /\ \A d \in flying : d.type = "event" => d.seq = SeqOf(d.n)

\* The threads, and whether they take turns.
Turns ==
    /\ pc[Reader] # "await" /\ \A t \in Askers : pc[t] \in {"idle", "await"}
    /\ ~overlap => \A t, u \in Threads : pc[t] # "idle" /\ pc[u] # "idle" => t = u

Linked == (~connected => ~session) /\ (~session => unacked = {})

\* What was acknowledged is what has been met.
Met ==
    /\ \A i \in DOMAIN events : events[i] \in acked
    /\ \A i \in DOMAIN copy : copy[i] \in acked
    /\ handed \subseteq acked /\ acked \subseteq 1..pushed

Kept == AckedIsKept /\ (~overlap /\ pc[Reader] = "return" => copy = events)

Ordered ==
    /\ SentInOrder /\ latest <= asks
    /\ \A i \in DOMAIN outbox : outbox[i] <= asks
    /\ \A i, j \in DOMAIN outbox : i < j => outbox[i] < outbox[j]

\* While the threads take turns, every reply under a command's number is its own.
Asked == ~overlap => \A t \in Threads : Awaits(t) =>
    /\ \A d \in flying : d.type = "reply" /\ IsMine(t, d) => d.ask = asking[t].ask
    /\ \A i \in DOMAIN parts : parts[i] = asking[t].ask

Close == \A n \in Outstanding : n \in (first + 1)..pushed /\ pushed < n + Outrun

Covered ==
    /\ session => (first + 1)..pushed \subseteq acked \cup unacked
    /\ (first + 1)..(pushed - Outrun) \subseteq acked

\* The window holds the numbers g of events met, each once; one that may come again
\* is among them with only its neighbours after it, and so is after any other all
\* that was pushed long after it.
Remembers(g) ==
    /\ \A i \in DOMAIN seen : g[i] \in acked /\ seen[i] = SeqOf(g[i])
    /\ \A i, j \in DOMAIN seen : g[i] = g[j] => i = j
    /\ \A n \in Outstanding \cap acked : \E i \in DOMAIN seen :
          g[i] = n /\ \A j \in DOMAIN seen : j > i => n - Outrun < g[j] /\ g[j] < n + Outrun
    /\ \A i \in DOMAIN seen : \A m \in acked :
          m >= g[i] + Outrun => \E j \in DOMAIN seen : j > i /\ g[j] = m

Remembered == \E g \in [DOMAIN seen -> (first + 1)..pushed] : Remembers(g)

Inv ==
    /\ TypeOK /\ Typed /\ Turns /\ Linked
    /\ Met /\ HandedOnce /\ Kept
    /\ Ordered /\ Asked
    /\ Close /\ Covered /\ Remembered

-----------------------------------------------------------------------------
(* Arithmetic of the sequence byte.                                           *)

LEMMA Wraps ==
  ASSUME NEW a \in Int, NEW w \in Nat \ {0}
  PROVE  a % w \in 0..(w - 1)
  BY SMTT(30)

LEMMA Divides ==
  ASSUME NEW a \in Nat, NEW w \in Nat \ {0}
  PROVE  a \div w \in Nat /\ a = w * (a \div w) + (a % w)
  BY SMTT(30)

LEMMA Multiple ==
  ASSUME NEW k \in Int, NEW w \in Nat \ {0}, w * k > 0
  PROVE  w * k >= w
<1>1. k >= 1
  <2>1. SUFFICES ASSUME k <= 0 PROVE FALSE
    OBVIOUS
  <2>2. w * (-k) >= 0
    BY <2>1
  <2> QED
    BY <2>2
<1>2. w * (k - 1) >= 0
  BY <1>1
<1> QED
  BY <1>2

\* Two numbers with the same byte are far apart.
LEMMA SameByte ==
  ASSUME NEW a \in Nat, NEW b \in Nat, NEW w \in Nat \ {0}, a < b, a % w = b % w
  PROVE  b - a >= w
<1> DEFINE qa == a \div w
           qb == b \div w
<1>1. qa \in Nat /\ a = w * qa + (a % w) /\ qb \in Nat /\ b = w * qb + (b % w)
  BY Divides
<1>2. a % w \in Int
  BY Wraps
<1> HIDE DEF qa, qb
<1>3. b - a = w * qb - w * qa
  <2>1. w * qa \in Int /\ w * qb \in Int
    BY <1>1
  <2> QED
    BY <1>1, <1>2, <2>1
<1>4. b - a = w * (qb - qa)
  BY <1>1, <1>3
<1>5. qb - qa \in Int /\ w * (qb - qa) > 0
  BY <1>1, <1>4
<1> QED
  BY <1>4, <1>5, Multiple

LEMMA Byte ==
  ASSUME NEW a \in Int
  PROVE  a % Wrap \in 0..(Wrap - 1)
<1>1. Wrap \in Nat \ {0}
  OBVIOUS
<1> QED
  BY <1>1, Wraps

-----------------------------------------------------------------------------
(* What the steps are made of.                                                *)

\* An acknowledged event is remembered, or was seen.
LEMMA Handled ==
  ASSUME TypeOK, Typed, NEW d \in flying, d.type = "event", d.n \in Pushed, HandleMessage(d)
  PROVE  /\ unacked' \subseteq unacked /\ acked' = acked \cup {d.n}
         /\ seen' \in Seq(0..(Wrap - 1)) /\ Len(seen') <= Window
         /\ events' \in Seq(Pushed)
<1>1. d.seq \in 0..(Wrap - 1)
  BY DEF Typed, Events, Answered
<1>2. unacked' \subseteq unacked /\ acked' = acked \cup {d.n}
  BY DEF HandleMessage
<1>3. CASE UNCHANGED <<seen, events>>
  BY <1>2, <1>3 DEF TypeOK
<1>4. CASE Saw(d.seq) /\ Keep(d)
  <2>1. events' \in Seq(Pushed)
    BY <1>4, AppendProperties DEF Keep, TypeOK
  <2>2. CASE Len(seen) < Window
    <3>1. seen' = Append(seen, d.seq)
      BY <1>4, <2>2 DEF Saw
    <3>2. seen' \in Seq(0..(Wrap - 1)) /\ Len(seen') = Len(seen) + 1
      BY <1>1, <3>1, AppendProperties DEF TypeOK
    <3> QED
      BY <1>2, <2>1, <2>2, <3>2 DEF TypeOK
  <2>3. CASE ~(Len(seen) < Window)
    <3>1. seen' = Append(Tail(seen), d.seq)
      BY <1>4, <2>3 DEF Saw
    <3>2. seen \in Seq(0..(Wrap - 1)) /\ seen # <<>> /\ Len(seen) = Window
      BY <2>3 DEF TypeOK
    <3>3. Tail(seen) \in Seq(0..(Wrap - 1)) /\ Len(Tail(seen)) = Len(seen) - 1
      BY <3>2, HeadTailProperties
    <3>4. seen' \in Seq(0..(Wrap - 1)) /\ Len(seen') = Len(Tail(seen)) + 1
      BY <1>1, <3>1, <3>3, AppendProperties
    <3> QED
      BY <1>2, <2>1, <3>2, <3>3, <3>4
  <2> QED
    BY <2>2, <2>3
<1> QED
  BY <1>3, <1>4 DEF HandleMessage

\* The latest of some commands is the largest number among them.
LEMMA LatestIs ==
  ASSUME latest \in Asks, NEW sent, NEW c \in Asks, \A i \in DOMAIN sent : sent[i] \in Asks,
         c = latest \/ \E i \in DOMAIN sent : c = sent[i],
         latest <= c, \A i \in DOMAIN sent : sent[i] <= c
  PROVE  Latest(sent) = c
<1> DEFINE those == {latest} \cup {sent[i] : i \in DOMAIN sent}
           last(e) == \A i \in DOMAIN sent : sent[i] <= e /\ latest <= e
<1>1. c \in those /\ last(c)
  OBVIOUS
<1>2. ASSUME NEW e \in those, last(e) PROVE e = c
  <2>1. e \in Int /\ c \in Int
    BY DEF Asks
  <2>2. e <= c
    OBVIOUS
  <2>3. latest <= e \/ DOMAIN sent = {}
    BY <1>2
  <2>4. c <= e
    BY <1>2, <2>1, <2>2, <2>3
  <2> QED
    BY <2>1, <2>2, <2>4
<1>3. Latest(sent) = CHOOSE e \in those : last(e)
  BY DEF Latest
<1> QED
  BY <1>1, <1>2, <1>3

\* A command takes the chat that waits with it; of the replies on their way only those
\* that may still come are left, under other numbers.
LEMMA Sending ==
  ASSUME Inv, NEW t \in Threads, NEW ask \in Asks, Send(t, ask)
  PROVE  /\ outbox' = <<>> /\ parts' = <<>>
         /\ latest' \in Asks /\ (latest' <= asks \/ latest' = ask)
         /\ seq' \in 0..(Wrap - 1)
         /\ \E number \in 0..(Wrap - 1) :
              /\ asking' = [asking EXCEPT ![t] = [ask |-> ask, seq |-> number]]
              /\ flying' \subseteq Events \cup Answered
              /\ \A d : d.type = "event" => (d \in flying' <=> d \in flying)
              /\ \A d \in flying' : d.type = "reply" => d.seq # number \/ d.ask = ask
         /\ overlap' = (overlap \/ \E u \in Threads \ {t} : pc[u] # "idle")
         /\ UNCHANGED <<server, connected, seen, events, quiet, retryIn, copy, handed, acked, faults>>
<1> DEFINE number == (seq + Len(outbox)) % Wrap
<1>1. outbox \in Seq(Asks) /\ Len(outbox) \in Nat /\ latest \in Asks /\ asks \in Asks
      /\ seq \in 0..(Wrap - 1)
  BY DEF Inv, TypeOK
<1>2. number \in 0..(Wrap - 1) /\ (number + 1) % Wrap \in 0..(Wrap - 1)
  <2>1. number \in 0..(Wrap - 1)
    <3>1. seq + Len(outbox) \in Int
      BY <1>1
    <3> QED
      BY <3>1, Byte, Zenon
  <2> HIDE DEF number
  <2> QED
    BY <2>1, Byte
<1>3. PICK total \in 0..2 :
        flying' = {d \in flying : d.type = "event" \/ (number - d.seq) % Wrap \in 1..Late}
                     \cup Replies(ask, number, total)
  BY DEF Send, Waiting
<1>4. /\ outbox' = SubSeq(outbox, Len(outbox) + 1, Len(outbox))
      /\ latest' = Latest(outbox \o <<ask>>)
      /\ parts' = <<>> /\ seq' = (number + 1) % Wrap
      /\ asking' = [asking EXCEPT ![t] = [ask |-> ask, seq |-> number]]
      /\ overlap' = (overlap \/ \E u \in Threads \ {t} : pc[u] # "idle")
      /\ UNCHANGED <<server, connected, seen, events, quiet, retryIn, copy, handed, acked, faults>>
  BY DEF Send, Waiting
<1>5. outbox' = <<>>
  BY <1>1, <1>4
<1>6. latest' \in Asks /\ (latest' <= asks \/ latest' = ask)
  <2> DEFINE sent == outbox \o <<ask>>
             n == Len(outbox)
  <2>1. /\ DOMAIN sent = 1..(n + 1)
        /\ \A i \in 1..n : sent[i] = outbox[i]
        /\ sent[n + 1] = ask
    BY <1>1
  <2>2. /\ \A i \in 1..n : outbox[i] \in Asks /\ outbox[i] <= asks /\ latest < outbox[i]
        /\ \A i, j \in 1..n : i < j => outbox[i] < outbox[j]
        /\ latest <= asks
    BY <1>1 DEF Inv, Ordered, SentInOrder
  <2>3. \A i \in DOMAIN sent : sent[i] \in Asks
    BY <1>1, <2>1, <2>2
  <2> HIDE DEF sent
  <2>4. CASE n = 0
    <3> DEFINE c == IF ask > latest THEN ask ELSE latest
    <3>1. c \in Asks /\ (c = latest \/ c = sent[n + 1]) /\ latest <= c
          /\ \A i \in DOMAIN sent : sent[i] <= c
      BY <1>1, <2>1, <2>4 DEF Asks
    <3>2. n + 1 \in DOMAIN sent
      BY <2>1, <2>4
    <3> HIDE DEF c
    <3>3. Latest(sent) = c
      BY <1>1, <2>3, <3>1, <3>2, LatestIs
    <3> QED
      BY <1>4, <2>1, <2>2, <3>1, <3>3 DEF sent
  <2>5. CASE n > 0
    <3> DEFINE c == IF ask > outbox[n] THEN ask ELSE outbox[n]
    <3>0. n \in 1..n /\ n \in DOMAIN sent /\ n + 1 \in DOMAIN sent
      BY <1>1, <2>1, <2>5
    <3>1. /\ c \in Asks /\ (c = sent[n] \/ c = sent[n + 1]) /\ outbox[n] <= c /\ ask <= c
          /\ latest <= c
      BY <1>1, <2>1, <2>2, <3>0 DEF Asks
    <3>2. ASSUME NEW i \in DOMAIN sent PROVE sent[i] <= c
      <4>1. CASE i = n + 1
        BY <2>1, <3>1, <4>1
      <4>2. CASE i \in 1..n
        <5>1. outbox[i] <= outbox[n]
          BY <2>2, <3>0, <4>2 DEF Asks
        <5> QED
          BY <2>1, <2>2, <3>0, <3>1, <4>2, <5>1 DEF Asks
      <4> QED
        BY <1>1, <2>1, <4>1, <4>2
    <3> HIDE DEF c
    <3>3. Latest(sent) = c
      BY <1>1, <2>3, <3>0, <3>1, <3>2, LatestIs
    <3>4. c = ask \/ c <= asks
      BY <2>1, <2>2, <3>0, <3>1
    <3> QED
      BY <1>4, <3>1, <3>3, <3>4 DEF sent
  <2> QED
    BY <1>1, <2>4, <2>5
<1> HIDE DEF number
<1>7. Replies(ask, number, total) \subseteq Answered
  BY <1>2, <1>3 DEF Replies, Answered
<1>8. flying' \subseteq Events \cup Answered
  BY <1>3, <1>7 DEF Inv, Typed
<1>9. \A d : d.type = "event" => (d \in flying' <=> d \in flying)
  BY <1>3 DEF Replies
<1>10. ASSUME NEW d \in flying', d.type = "reply" PROVE d.seq # number \/ d.ask = ask
  <2>1. CASE d \in Replies(ask, number, total)
    BY <2>1 DEF Replies
  <2>2. CASE (number - d.seq) % Wrap \in 1..Late
    <3>1. number - number = 0 /\ 0 % Wrap = 0
      BY <1>2
    <3> QED
      BY <2>2, <3>1
  <2> QED
    BY <1>3, <1>10, <2>1, <2>2
<1> QED
  BY <1>2, <1>4, <1>5, <1>6, <1>8, <1>9, <1>10

-----------------------------------------------------------------------------
(* Chat and commands go out in the order they were asked for.                 *)

Increasing(q, low, high) ==
    /\ \A i \in DOMAIN q : low < q[i] /\ q[i] <= high
    /\ \A i, j \in DOMAIN q : i < j => q[i] < q[j]

\* The head of a queue in order is sent: the rest is in order behind it.
LEMMA OneTaken ==
  ASSUME latest \in Asks, NEW high \in Asks, NEW q \in Seq(Asks), q # <<>>,
         Increasing(q, latest, high)
  PROVE  /\ q[1] \in Asks /\ q[1] <= high
         /\ Tail(q) \in Seq(Asks) /\ Increasing(Tail(q), q[1], high)
         /\ \A sent : DOMAIN sent = 1..1 /\ sent[1] = q[1] => Latest(sent) = q[1]
<1>1. Len(q) \in Nat \ {0} /\ DOMAIN q = 1..Len(q)
  OBVIOUS
<1>2. 1 \in DOMAIN q /\ q[1] \in Asks /\ q[1] <= high /\ latest < q[1]
  BY <1>1 DEF Increasing
<1>3. /\ Tail(q) \in Seq(Asks) /\ Len(Tail(q)) = Len(q) - 1
      /\ \A i \in 1..Len(Tail(q)) : Tail(q)[i] = q[i + 1]
  BY HeadTailProperties
<1>4. DOMAIN Tail(q) = 1..(Len(q) - 1)
  BY <1>3
<1>5. Increasing(Tail(q), q[1], high)
  <2>1. \A i \in 1..(Len(q) - 1) : i + 1 \in DOMAIN q /\ Tail(q)[i] = q[i + 1] /\ 1 < i + 1
    BY <1>1, <1>3
  <2>2. \A i \in DOMAIN Tail(q) : q[1] < Tail(q)[i] /\ Tail(q)[i] <= high
    BY <1>2, <1>4, <2>1 DEF Increasing
  <2>3. \A i, j \in DOMAIN Tail(q) : i < j => Tail(q)[i] < Tail(q)[j]
    <3>1. ASSUME NEW i \in DOMAIN Tail(q), NEW j \in DOMAIN Tail(q), i < j
          PROVE  Tail(q)[i] < Tail(q)[j]
      <4>1. i + 1 \in DOMAIN q /\ j + 1 \in DOMAIN q /\ i + 1 < j + 1
        BY <1>1, <1>4, <3>1
      <4> QED
        BY <1>4, <2>1, <4>1 DEF Increasing
    <3> QED
      BY <3>1
  <2> QED
    BY <2>2, <2>3 DEF Increasing
<1>6. ASSUME NEW sent, DOMAIN sent = 1..1, sent[1] = q[1] PROVE Latest(sent) = q[1]
  <2>1. \A i \in DOMAIN sent : sent[i] = q[1]
    BY <1>6
  <2>2. 1 \in DOMAIN sent
    BY <1>6
  <2>3. latest <= q[1] /\ q[1] <= q[1]
    BY <1>2 DEF Asks
  <2> QED
    BY <1>2, <1>6, <2>1, <2>2, <2>3, LatestIs
<1> QED
  BY <1>2, <1>3, <1>5, <1>6

LEMMA OrderedStep ==
  ASSUME Inv, [Next]_vars
  PROVE  outbox' \in Seq(Asks) /\ latest' \in Asks /\ asks' \in Asks /\ Ordered'
<1> DEFINE Goal == outbox' \in Seq(Asks) /\ latest' \in Asks /\ asks' \in Asks /\ Ordered'
<1>1. /\ outbox \in Seq(Asks) /\ latest \in Asks /\ asks \in Asks /\ latest <= asks
      /\ Increasing(outbox, latest, asks)
  BY DEF Inv, TypeOK, Ordered, SentInOrder, Increasing
<1>2. ASSUME UNCHANGED <<outbox, latest, asks>> PROVE Goal
  BY <1>1, <1>2 DEF Ordered, SentInOrder, Increasing
<1>3. ASSUME outbox' = <<>>, latest' \in Asks, asks' \in Asks, latest' <= asks' PROVE Goal
  BY <1>3 DEF Ordered, SentInOrder
<1>4. ASSUME NEW t \in Threads, Command(t) PROVE Goal
  <2>1. asks' = asks + 1 /\ asks + 1 \in Asks /\ Send(t, asks + 1)
    BY <1>1, <1>4 DEF Command, Asks
  <2>2. outbox' = <<>> /\ latest' \in Asks /\ (latest' <= asks \/ latest' = asks + 1)
    BY <2>1, Sending
  <2> QED
    BY <1>1, <1>3, <2>1, <2>2 DEF Asks
<1>5. ASSUME StillThere PROVE Goal
  <2>1. Reader \in Threads /\ Probe \in Asks /\ Send(Reader, Probe) /\ asks' = asks
    BY <1>5 DEF StillThere, Threads, Probe, Asks
  <2>2. outbox' = <<>> /\ latest' \in Asks /\ (latest' <= asks \/ latest' = Probe)
    BY <2>1, Sending
  <2> QED
    BY <1>1, <1>3, <2>1, <2>2 DEF Asks, Probe
<1>6. ASSUME Lost, UNCHANGED <<asks, latest>> PROVE Goal
  BY <1>1, <1>3, <1>6 DEF Lost
<1>7. ASSUME NEW t \in Threads, Write(t) PROVE Goal
  <2> DEFINE queue == Append(outbox, asks + 1)
             n == Len(outbox)
  <2>1. asks' = asks + 1 /\ asks + 1 \in Asks /\ n \in Nat
    BY <1>1, <1>7 DEF Write, Asks
  <2>2. /\ queue \in Seq(Asks) /\ DOMAIN queue = 1..(n + 1) /\ queue # <<>>
        /\ \A i \in 1..n : queue[i] = outbox[i] /\ i \in DOMAIN outbox
        /\ queue[n + 1] = asks + 1
    BY <1>1, <2>1, AppendProperties
  <2>3. 1..(n + 1) = 1..n \cup {n + 1}
    BY <2>1
  <2>4. Increasing(queue, latest, asks')
    <3>1. \A i \in 1..n : latest < queue[i] /\ queue[i] <= asks /\ queue[i] \in Asks
      BY <1>1, <2>2 DEF Increasing
    <3>2. \A i \in DOMAIN queue : latest < queue[i] /\ queue[i] <= asks'
      BY <1>1, <2>1, <2>2, <2>3, <3>1 DEF Asks
    <3>3. ASSUME NEW i \in DOMAIN queue, NEW j \in DOMAIN queue, i < j PROVE queue[i] < queue[j]
      <4>1. CASE j \in 1..n
        <5>1. i \in 1..n
          BY <2>1, <2>2, <3>3, <4>1
        <5> QED
          BY <1>1, <2>2, <3>3, <4>1, <5>1 DEF Increasing
      <4>2. CASE j = n + 1
        <5>1. i \in 1..n
          BY <2>1, <2>2, <3>3, <4>2
        <5> QED
          BY <1>1, <2>2, <3>1, <4>2, <5>1 DEF Asks
      <4> QED
        BY <2>2, <2>3, <4>1, <4>2
    <3> QED
      BY <3>2, <3>3 DEF Increasing
  <2>5. \/ outbox' = queue /\ latest' = latest
        \/ outbox' = Tail(queue) /\ latest' = Latest(<<Head(queue)>>)
    BY <1>7 DEF Write
  <2> HIDE DEF queue
  <2>6. CASE outbox' = queue /\ latest' = latest
    BY <1>1, <2>1, <2>2, <2>4, <2>6 DEF Ordered, SentInOrder, Increasing, Asks
  <2>7. CASE outbox' = Tail(queue) /\ latest' = Latest(<<Head(queue)>>)
    <3>1. /\ queue[1] \in Asks /\ queue[1] <= asks'
          /\ Tail(queue) \in Seq(Asks) /\ Increasing(Tail(queue), queue[1], asks')
          /\ \A sent : DOMAIN sent = 1..1 /\ sent[1] = queue[1] => Latest(sent) = queue[1]
      BY <1>1, <2>1, <2>2, <2>4, OneTaken
    <3>2. DOMAIN <<Head(queue)>> = 1..1 /\ <<Head(queue)>>[1] = queue[1]
      BY <2>2
    <3>3. latest' = queue[1]
      BY <2>7, <3>1, <3>2
    <3> QED
      BY <2>1, <2>7, <3>1, <3>3 DEF Ordered, SentInOrder, Increasing
  <2> QED
    BY <2>5, <2>6, <2>7
<1>8. ASSUME Housekeep PROVE Goal
  <2>1. PICK say \in {k \in {0, 1} : k <= Len(outbox)} :
          /\ latest' = Latest(SubSeq(outbox, 1, say))
          /\ outbox' = SubSeq(outbox, say + 1, Len(outbox))
    BY <1>8 DEF Housekeep
  <2>2. asks' = asks
    BY <1>8 DEF Housekeep
  <2>3. CASE say = 0
    <3>1. SubSeq(outbox, 1, 0) = <<>> /\ SubSeq(outbox, 1, Len(outbox)) = outbox
      BY <1>1, SubSeqEmpty, SubSeqFull
    <3>2. Latest(<<>>) = latest
      <4>1. latest <= latest
        BY <1>1 DEF Asks
      <4>2. \A sent : DOMAIN sent = {} => Latest(sent) = latest
        BY <1>1, <4>1, LatestIs
      <4>3. DOMAIN <<>> = {}
        OBVIOUS
      <4> QED
        BY <4>2, <4>3
    <3>3. latest' = latest /\ outbox' = outbox
      <4>1. say + 1 = 1
        BY <2>3
      <4>2. latest' = Latest(SubSeq(outbox, 1, 0)) /\ outbox' = SubSeq(outbox, 1, Len(outbox))
        BY <2>1, <2>3, <4>1, Zenon
      <4> QED
        BY <3>1, <3>2, <4>2, Zenon
    <3> QED
      BY <1>2, <2>2, <3>3
  <2>4. CASE say = 1
    <3>1. outbox # <<>> /\ 1 \in DOMAIN outbox
      BY <1>1, <2>1, <2>4
    <3>2. outbox' = Tail(outbox)
      BY <1>1, <2>1, <2>4, <3>1, TailIsSubSeq
    <3>3. /\ outbox[1] \in Asks /\ outbox[1] <= asks
          /\ Tail(outbox) \in Seq(Asks) /\ Increasing(Tail(outbox), outbox[1], asks)
          /\ \A sent : DOMAIN sent = 1..1 /\ sent[1] = outbox[1] => Latest(sent) = outbox[1]
      BY <1>1, <3>1, OneTaken
    <3>4. DOMAIN SubSeq(outbox, 1, 1) = 1..1 /\ SubSeq(outbox, 1, 1)[1] = outbox[1]
      BY <1>1, <3>1
    <3>5. latest' = outbox[1]
      BY <2>1, <2>4, <3>3, <3>4
    <3> QED
      BY <1>1, <2>2, <3>2, <3>3, <3>5 DEF Ordered, SentInOrder, Increasing
  <2> QED
    BY <2>1, <2>3, <2>4
<1>9. ASSUME NEW t \in Threads, Awaiting(t) PROVE Goal
  <2>1. CASE TimesOut(t)
    BY <1>2, <1>6, <2>1 DEF TimesOut, history
  <2>2. CASE \E d \in flying : MeetEvent(t, d) \/ MeetReply(t, d)
    BY <1>2, <2>2 DEF MeetEvent, MeetReply
  <2> QED
    BY <1>9, <2>1, <2>2 DEF Awaiting
<1>10. ASSUME Reading PROVE Goal
  <2>1. CASE ReadLines \/ Login \/ LoginFails \/ Collect \/ Return \/ \E d \in flying : Drain(d)
    BY <1>2, <2>1 DEF ReadLines, Login, LoginFails, Collect, Return, Drain, client, history
  <2>2. CASE DrainFails
    BY <1>6, <2>2 DEF DrainFails, history
  <2> QED
    BY <1>5, <1>8, <1>10, <2>1, <2>2 DEF Reading
<1>11. ASSUME Network \/ Tick \/ UNCHANGED vars PROVE Goal
  BY <1>2, <1>11 DEF Network, Push, PushAgain, Restart, Tick, vars, client, history
<1> QED
  BY <1>4, <1>7, <1>9, <1>10, <1>11 DEF Next, Threads

-----------------------------------------------------------------------------
(* Types.                                                                     *)

\* An event met is taken off the network, acknowledged and, the first time, kept.
Meets(d) ==
    /\ d.type = "event" /\ flying' = flying \ {d} /\ HandleMessage(d)
    /\ UNCHANGED <<session, pushed, first, connected, copy, handed, overlap, pc, asking, parts>>

LEMMA AnEventIsTyped ==
  ASSUME Inv, NEW d \in flying, d.type = "event"
  PROVE  d.n \in Outstanding /\ d.n \in (first + 1)..pushed /\ d.n \in Pushed /\ d.seq = SeqOf(d.n)
<1>1. d.n \in Outstanding /\ d.seq = SeqOf(d.n)
  BY DEF Outstanding, Arriving, Inv, Typed
<1>2. d.n \in (first + 1)..pushed
  BY <1>1 DEF Inv, Close
<1> QED
  BY <1>1, <1>2 DEF Inv, TypeOK, Pushed

LEMMA TypesStep ==
  ASSUME Inv, [Next]_vars
  PROVE  TypeOK' /\ Typed'
<1> DEFINE Goal == TypeOK' /\ Typed'
<1>1. /\ outbox' \in Seq(Asks) /\ latest' \in Asks /\ asks' \in Asks
      /\ outbox \in Seq(Asks) /\ latest \in Asks /\ asks \in Asks
      /\ TypeOK /\ Typed
  BY OrderedStep DEF Inv, TypeOK
<1>2. Reader \in Threads /\ \A t \in Askers : t \in Threads
  BY DEF Threads
<1>3. \A n \in Nat : SeqOf(n) \in 0..(Wrap - 1)
  <2>1. \A n \in Nat : n - first - 1 \in Int
    BY DEF Inv, TypeOK
  <2> QED
    BY <2>1, Byte, Zenon DEF SeqOf
<1>4. ASSUME UNCHANGED <<first, flying>> PROVE Typed'
  BY <1>1, <1>4 DEF Typed, SeqOf
<1>5. ASSUME UNCHANGED first, flying' \subseteq flying PROVE Typed'
  BY <1>1, <1>5 DEF Typed, SeqOf
<1>6. ASSUME NEW n \in Nat, flying' = flying \cup {Event(n)}, UNCHANGED first PROVE Typed'
  <2>1. Event(n) \in Events /\ Event(n).n = n /\ Event(n).seq = SeqOf(n)
    BY <1>3 DEF Event, Events, SeqOf
  <2> QED
    BY <1>1, <1>6, <2>1 DEF Typed, SeqOf
<1>7. ASSUME Push PROVE Goal
  <2>1. pushed + 1 \in Nat /\ pushed + 1 \in Pushed /\ pushed' \in 0..MaxEvents /\ first' \in 0..pushed'
    BY <1>1, <1>7 DEF Push, TypeOK, Pushed
  <2>2. Typed'
    BY <1>6, <1>7, <2>1 DEF Push
  <2> QED
    BY <1>1, <1>7, <2>1, <2>2 DEF Push, TypeOK, client, threads, history
<1>8. ASSUME NEW n \in unacked, PushAgain(n) PROVE Goal
  <2>1. n \in Nat
    BY <1>1 DEF TypeOK, Pushed
  <2>2. Typed'
    BY <1>6, <1>8, <2>1 DEF PushAgain, server
  <2> QED
    BY <1>1, <1>8, <2>2 DEF PushAgain, TypeOK, server, client, threads, history
<1>9. ASSUME Restart PROVE Goal
  <2>1. Typed'
    BY <1>4, <1>9 DEF Restart
  <2>2. faults' \in 0..MaxFaults
    BY <1>1, <1>9 DEF Restart, TypeOK
  <2> QED
    BY <1>1, <1>9, <2>1, <2>2 DEF Restart, TypeOK, client, threads, history
<1>10. ASSUME Tick PROVE Goal
  <2>1. Typed'
    BY <1>4, <1>10 DEF Tick, server
  <2> QED
    BY <1>1, <1>10, <2>1 DEF Tick, TypeOK, server, client, threads, history
<1>11. ASSUME NEW t \in Threads, NEW ask \in Asks, Send(t, ask), pc' \in [Threads -> Places]
       PROVE  Goal
  <2>1. PICK number \in 0..(Wrap - 1) :
          /\ asking' = [asking EXCEPT ![t] = [ask |-> ask, seq |-> number]]
          /\ flying' \subseteq Events \cup Answered
          /\ \A d : d.type = "event" => (d \in flying' <=> d \in flying)
    BY <1>11, Sending
  <2>2. /\ outbox' = <<>> /\ parts' = <<>> /\ seq' \in 0..(Wrap - 1)
        /\ overlap' = (overlap \/ \E u \in Threads \ {t} : pc[u] # "idle")
        /\ UNCHANGED <<server, connected, seen, events, quiet, retryIn, copy, handed, acked, faults>>
    BY <1>11, Sending
  <2>3. asking' \in [Threads -> [ask : Asks, seq : -1..(Wrap - 1)]]
    <3>1. [ask |-> ask, seq |-> number] \in [ask : Asks, seq : -1..(Wrap - 1)]
      OBVIOUS
    <3> QED
      BY <1>1, <2>1, <3>1 DEF TypeOK
  <2>4. Typed'
    BY <1>1, <2>1, <2>2 DEF Typed, SeqOf, server
  <2>5. overlap' \in BOOLEAN
    BY <1>1, <2>2 DEF TypeOK
  <2>6. DOMAIN parts' \subseteq 1..2
    BY <2>2
  <2> QED
    BY <1>1, <1>11, <2>2, <2>3, <2>4, <2>5, <2>6 DEF TypeOK, server
<1>12. ASSUME NEW t \in Askers, Command(t) PROVE Goal
  <2>1. /\ asks + 1 \in Asks /\ Send(t, asks + 1)
        /\ pc' = [pc EXCEPT ![t] = "await"]
    BY <1>1, <1>12 DEF Command, Asks
  <2>2. pc' \in [Threads -> Places]
    BY <1>1, <2>1 DEF TypeOK
  <2> QED
    BY <1>2, <1>11, <2>1, <2>2
<1>13. ASSUME StillThere PROVE Goal
  <2>1. /\ Probe \in Asks /\ Send(Reader, Probe)
        /\ pc' = [pc EXCEPT ![Reader] = "probe"]
    BY <1>13 DEF StillThere, Asks, Probe
  <2>2. pc' \in [Threads -> Places]
    BY <1>1, <2>1 DEF TypeOK
  <2> QED
    BY <1>2, <1>11, <2>1, <2>2
<1>14. \A n \in Nat : (seq + n) % Wrap \in 0..(Wrap - 1)
  <2>1. \A n \in Nat : seq + n \in Int
    BY <1>1 DEF TypeOK
  <2> QED
    BY <2>1, Byte, Zenon
<1>15. ASSUME NEW t \in Askers, Write(t) PROVE Goal
  <2>1. PICK n \in {0, 1} : Number(n)
    BY <1>15 DEF Write
  <2>2. seq' \in 0..(Wrap - 1) /\ flying' = flying
    BY <1>14, <2>1 DEF Number
  <2>3. Typed'
    BY <1>4, <1>15, <2>2 DEF Write, server
  <2> QED
    BY <1>1, <1>15, <2>2, <2>3 DEF Write, TypeOK, server, threads
<1>16. ASSUME Housekeep PROVE Goal
  <2>1. PICK n \in Nat : Number(n)
    BY <1>16 DEF Housekeep
  <2>2. seq' \in 0..(Wrap - 1) /\ flying' = flying
    BY <1>14, <2>1 DEF Number
  <2>3. Typed'
    BY <1>4, <1>16, <2>2 DEF Housekeep, server
  <2>4. pc' \in [Threads -> Places]
    BY <1>1, <1>16 DEF Housekeep, TypeOK
  <2> QED
    BY <1>1, <1>16, <2>2, <2>3, <2>4 DEF Housekeep, TypeOK, server
<1>17. ASSUME NEW d \in flying, Meets(d), UNCHANGED <<seq, retryIn, faults>>, quiet' = 0 PROVE Goal
  <2>1. d.type = "event" /\ d.n \in Pushed /\ HandleMessage(d)
    BY <1>17, AnEventIsTyped DEF Meets
  <2>2. /\ unacked' \subseteq unacked /\ acked' = acked \cup {d.n}
        /\ seen' \in Seq(0..(Wrap - 1)) /\ Len(seen') <= Window
        /\ events' \in Seq(Pushed)
    BY <1>1, <2>1, Handled
  <2>3. Typed'
    BY <1>5, <1>17 DEF Meets
  <2>4. 0 \in 0..(DeadAfter + 1)
    OBVIOUS
  <2> QED
    BY <1>1, <1>17, <2>1, <2>2, <2>3, <2>4 DEF Meets, TypeOK
<1>18. 0 \in 0..(DeadAfter + 1) /\ 1..RetryMax \subseteq 0..RetryMax /\ 0 \in 0..RetryMax
  OBVIOUS
<1>19. ASSUME NEW t \in Threads, Back(t)
       PROVE  /\ pc' \in [Threads -> Places]
              /\ asking' \in [Threads -> [ask : Asks, seq : -1..(Wrap - 1)]]
  <2>1. Nobody \in [ask : Asks, seq : -1..(Wrap - 1)]
    BY DEF Nobody, Probe, Asks
  <2> QED
    BY <1>1, <1>19, <2>1 DEF Back, TypeOK
<1>20. ASSUME NEW t \in Threads, NEW d \in flying, MeetEvent(t, d) PROVE Goal
  BY <1>17, <1>20 DEF MeetEvent, Meets, Take, threads
<1>21. ASSUME NEW d \in flying, Drain(d) PROVE Goal
  <2>1. CASE d.type = "event"
    BY <1>17, <1>21, <2>1 DEF Drain, Meets, Take, threads
  <2>2. CASE d.type # "event"
    <3>1. Typed'
      BY <1>5, <1>21 DEF Drain, Take
    <3> QED
      BY <1>1, <1>18, <1>21, <2>2, <3>1 DEF Drain, Take, TypeOK, threads
  <2> QED
    BY <2>1, <2>2
<1>22. ASSUME NEW t \in Threads, NEW d \in flying, MeetReply(t, d) PROVE Goal
  <2>1. Typed'
    BY <1>5, <1>22 DEF MeetReply, Take, server
  <2>2. d.part \in 1..2
    BY <1>1, <1>22 DEF MeetReply, Typed, Events, Answered
  <2>3. DOMAIN parts' \subseteq 1..2
    BY <1>1, <1>22, <2>2 DEF MeetReply, Gathered, TypeOK
  <2>4. /\ pc' \in [Threads -> Places]
        /\ asking' \in [Threads -> [ask : Asks, seq : -1..(Wrap - 1)]]
    BY <1>1, <1>19, <1>22 DEF MeetReply, TypeOK
  <2> QED
    BY <1>1, <1>18, <1>22, <2>1, <2>3, <2>4 DEF MeetReply, Take, TypeOK, server
<1>23. ASSUME NEW t \in Threads, TimesOut(t) PROVE Goal
  <2>1. Typed'
    BY <1>5, <1>23 DEF TimesOut, Take, Lost, server
  <2>2. /\ pc' \in [Threads -> Places]
        /\ asking' \in [Threads -> [ask : Asks, seq : -1..(Wrap - 1)]]
    BY <1>19, <1>23 DEF TimesOut
  <2>3. /\ session' \in BOOLEAN /\ connected' \in BOOLEAN
        /\ pushed' = pushed /\ first' = first /\ unacked' \subseteq Pushed /\ retryIn' \in 0..RetryMax
    BY <1>1, <1>18, <1>23 DEF TimesOut, Lost, TypeOK, server
  <2>4. quiet' \in 0..(DeadAfter + 1)
    BY <1>1, <1>18, <1>23 DEF TimesOut, Take, TypeOK
  <2> QED
    BY <1>1, <1>23, <2>1, <2>2, <2>3, <2>4 DEF TimesOut, TypeOK, history
<1>24. ASSUME Login PROVE Goal
  <2>1. Typed'
    BY <1>24 DEF Login, Typed
  <2>2. pc' \in [Threads -> Places]
    BY <1>1, <1>24 DEF Login, TypeOK
  <2>3. first' \in 0..pushed'
    BY <1>1, <1>24 DEF Login, TypeOK
  <2>4. seq' \in 0..(Wrap - 1) /\ seen' \in Seq(0..(Wrap - 1)) /\ Len(seen') <= Window
    BY <1>24 DEF Login
  <2>5. overlap' \in BOOLEAN
    BY <1>1, <1>24 DEF Login, TypeOK
  <2> QED
    BY <1>1, <1>18, <1>24, <2>1, <2>2, <2>3, <2>4, <2>5 DEF Login, TypeOK
<1>25. ASSUME LoginFails PROVE Goal
  <2>1. Typed'
    BY <1>4, <1>25 DEF LoginFails, server
  <2> QED
    BY <1>1, <1>18, <1>25, <2>1 DEF LoginFails, TypeOK, server, client, threads, history
<1>26. ASSUME ReadLines PROVE Goal
  <2>1. Typed'
    BY <1>4, <1>26 DEF ReadLines, server
  <2>2. overlap' \in BOOLEAN
    BY <1>1, <1>26 DEF ReadLines, TypeOK
  <2> QED
    BY <1>1, <1>26, <2>1, <2>2 DEF ReadLines, TypeOK, server, client
<1>27. ASSUME DrainFails PROVE Goal
  <2>1. Typed'
    BY <1>4, <1>27 DEF DrainFails, Lost, Typed
  <2>2. faults' \in 0..MaxFaults
    BY <1>1, <1>27 DEF DrainFails, TypeOK
  <2>3. pc' \in [Threads -> Places]
    BY <1>1, <1>27 DEF DrainFails, TypeOK
  <2>4. /\ session' \in BOOLEAN /\ connected' \in BOOLEAN /\ unacked' \subseteq Pushed
        /\ retryIn' \in 0..RetryMax
    BY <1>18, <1>27 DEF DrainFails, Lost
  <2> QED
    BY <1>1, <1>27, <2>1, <2>2, <2>3, <2>4 DEF DrainFails, Lost, TypeOK, history
<1>28. ASSUME Collect PROVE Goal
  <2>1. Typed'
    BY <1>4, <1>28 DEF Collect, server
  <2> QED
    BY <1>1, <1>28, <2>1 DEF Collect, TypeOK, server, client, history
<1>29. ASSUME Return PROVE Goal
  <2>1. Typed'
    BY <1>4, <1>29 DEF Return, server
  <2>2. handed' \subseteq Pushed
    BY <1>1, <1>29 DEF Return, TypeOK
  <2>3. events' \in Seq(Pushed) /\ copy' \in Seq(Pushed)
    BY <1>29 DEF Return
  <2>4. pc' \in [Threads -> Places]
    BY <1>1, <1>29 DEF Return, TypeOK
  <2> QED
    BY <1>1, <1>29, <2>1, <2>2, <2>3, <2>4 DEF Return, TypeOK, server
<1>30. ASSUME UNCHANGED vars PROVE Goal
  <2>1. Typed'
    BY <1>4, <1>30 DEF vars, server
  <2> QED
    BY <1>1, <1>30, <2>1 DEF vars, TypeOK, server, client, threads, history
<1>31. ASSUME NEW t \in Threads, Awaiting(t) PROVE Goal
  BY <1>20, <1>22, <1>23, <1>31 DEF Awaiting
<1>32. ASSUME Reading PROVE Goal
  BY <1>13, <1>16, <1>21, <1>24, <1>25, <1>26, <1>27, <1>28, <1>29, <1>32 DEF Reading
<1>33. ASSUME Network PROVE Goal
  BY <1>7, <1>8, <1>9, <1>33 DEF Network
<1> HIDE DEF Goal
<1>34. Goal
  BY <1>10, <1>12, <1>15, <1>30, <1>31, <1>32, <1>33 DEF Next
<1> QED
  BY <1>34 DEF Goal

-----------------------------------------------------------------------------
(* The threads, and the session.                                              *)

\* A thread that begins while another is inside is seen to overlap it; one that goes
\* on, or leaves, changes nothing.
LEMMA TurnsStep ==
  ASSUME Inv, [Next]_vars
  PROVE  Turns'
<1>1. Turns /\ pc \in [Threads -> Places] /\ Reader \in Threads /\ Reader \notin Askers
      /\ \A t \in Askers : t \in Threads /\ t # Reader
  BY DEF Inv, TypeOK, Threads
<1>2. ASSUME UNCHANGED <<pc, overlap>> PROVE Turns'
  BY <1>1, <1>2 DEF Turns
<1>3. ASSUME NEW t \in Threads, NEW p \in Places, pc' = [pc EXCEPT ![t] = p],
             t = Reader => p # "await", t \in Askers => p \in {"idle", "await"},
             p # "idle" => \/ UNCHANGED overlap /\ pc[t] # "idle"
                           \/ overlap' = (overlap \/ \E u \in Threads \ {t} : pc[u] # "idle"),
             overlap => overlap'
      PROVE  Turns'
  <2>1. pc'[Reader] # "await" /\ \A u \in Askers : pc'[u] \in {"idle", "await"}
    BY <1>1, <1>3 DEF Turns
  <2>2. ASSUME ~overlap', NEW u \in Threads, NEW v \in Threads, pc'[u] # "idle", pc'[v] # "idle", u # v
        PROVE  FALSE
    <3>1. CASE u # t /\ v # t
      BY <1>1, <1>3, <2>2, <3>1 DEF Turns
    <3>2. CASE u = t
      <4>1. pc[v] # "idle" /\ p # "idle"
        BY <1>1, <1>3, <2>2, <3>2
      <4>2. UNCHANGED overlap /\ pc[t] # "idle"
        BY <1>3, <2>2, <3>2, <4>1
      <4> QED
        BY <1>1, <2>2, <3>2, <4>1, <4>2 DEF Turns
    <3>3. CASE v = t
      <4>1. pc[u] # "idle" /\ p # "idle"
        BY <1>1, <1>3, <2>2, <3>3
      <4>2. UNCHANGED overlap /\ pc[t] # "idle"
        BY <1>3, <2>2, <3>3, <4>1
      <4> QED
        BY <1>1, <2>2, <3>3, <4>1, <4>2 DEF Turns
    <3> QED
      BY <3>1, <3>2, <3>3
  <2> QED
    BY <2>1, <2>2 DEF Turns
<1>4. ASSUME NEW t \in Askers, Command(t) PROVE Turns'
  <2>1. /\ t \in Threads /\ t # Reader /\ pc' = [pc EXCEPT ![t] = "await"]
        /\ overlap' = (overlap \/ \E u \in Threads \ {t} : pc[u] # "idle")
    BY <1>1, <1>4 DEF Command, Send
  <2> QED
    BY <1>3, <2>1
<1>5. ASSUME StillThere PROVE Turns'
  <2>1. /\ pc' = [pc EXCEPT ![Reader] = "probe"]
        /\ overlap' = (overlap \/ \E u \in Threads \ {Reader} : pc[u] # "idle")
    BY <1>5 DEF StillThere, Send
  <2> QED
    BY <1>1, <1>3, <2>1
<1>6. ASSUME ReadLines \/ Login PROVE Turns'
  <2>1. /\ pc' = [pc EXCEPT ![Reader] = "drain"]
        /\ overlap' = (overlap \/ \E u \in Threads \ {Reader} : pc[u] # "idle")
    BY <1>6 DEF ReadLines, Login
  <2> QED
    BY <1>1, <1>3, <2>1
<1>7. ASSUME Housekeep PROVE Turns'
  <2>1. PICK p \in {"silent", "collect"} : pc' = [pc EXCEPT ![Reader] = p]
    BY <1>7 DEF Housekeep
  <2>2. UNCHANGED overlap /\ pc[Reader] # "idle"
    BY <1>7 DEF Housekeep
  <2> QED
    BY <1>1, <1>3, <2>1, <2>2
<1>8. ASSUME Collect PROVE Turns'
  <2>1. pc' = [pc EXCEPT ![Reader] = "return"] /\ UNCHANGED overlap /\ pc[Reader] # "idle"
    BY <1>8 DEF Collect, history
  <2> QED
    BY <1>1, <1>3, <2>1
<1>9. ASSUME DrainFails \/ Return PROVE Turns'
  <2>1. pc' = [pc EXCEPT ![Reader] = "idle"] /\ UNCHANGED overlap
    BY <1>9 DEF DrainFails, Return, history
  <2> QED
    BY <1>1, <1>3, <2>1
<1>10. ASSUME NEW t \in Threads, Awaits(t), Back(t), UNCHANGED overlap PROVE Turns'
  <2>1. CASE t = Reader /\ pc[t] = "probe"
    <3>1. pc' = [pc EXCEPT ![t] = "collect"] /\ pc[t] # "idle"
      BY <1>10, <2>1 DEF Back
    <3> QED
      BY <1>1, <1>3, <1>10, <2>1, <3>1
  <2>2. CASE ~(t = Reader /\ pc[t] = "probe")
    <3>1. pc[t] # "probe"
      BY <1>1, <2>2 DEF Turns, Threads
    <3>2. pc' = [pc EXCEPT ![t] = "idle"]
      BY <1>10, <3>1 DEF Back
    <3> QED
      BY <1>1, <1>3, <1>10, <3>2
  <2> QED
    BY <2>1, <2>2
<1>11. ASSUME NEW t \in Threads, Awaiting(t) PROVE Turns'
  <2>1. CASE TimesOut(t)
    BY <1>10, <1>11, <2>1 DEF TimesOut, history
  <2>2. CASE \E d \in flying : MeetEvent(t, d)
    BY <1>2, <2>2 DEF MeetEvent, threads
  <2>3. CASE \E d \in flying : MeetReply(t, d)
    BY <1>2, <1>10, <2>3 DEF MeetReply
  <2> QED
    BY <1>11, <2>1, <2>2, <2>3 DEF Awaiting
<1>12. ASSUME Reading PROVE Turns'
  <2>1. CASE LoginFails \/ \E d \in flying : Drain(d)
    BY <1>2, <2>1 DEF LoginFails, Drain, threads, history
  <2> QED
    BY <1>5, <1>6, <1>7, <1>8, <1>9, <1>12, <2>1 DEF Reading
<1>13. ASSUME Network \/ Tick \/ UNCHANGED vars PROVE Turns'
  BY <1>2, <1>13 DEF Network, Push, PushAgain, Restart, Tick, vars, threads, history
<1>14. ASSUME NEW t \in Askers, Write(t) PROVE Turns'
  BY <1>2, <1>14 DEF Write, threads
<1> QED
  BY <1>4, <1>11, <1>12, <1>13, <1>14 DEF Next

LEMMA LinkedStep ==
  ASSUME Inv, [Next]_vars
  PROVE  Linked'
<1>1. Linked
  BY DEF Inv
<1>2. ASSUME UNCHANGED <<session, connected>>, unacked' \subseteq unacked PROVE Linked'
  BY <1>1, <1>2 DEF Linked
<1>3. ASSUME Lost PROVE Linked'
  BY <1>3 DEF Lost, Linked
<1>4. ASSUME Network \/ Tick \/ UNCHANGED vars PROVE Linked'
  BY <1>1, <1>4 DEF Network, Push, PushAgain, Restart, Tick, vars, server, client, Linked
<1>5. ASSUME NEW t \in Threads, Awaiting(t) PROVE Linked'
  <2>1. CASE TimesOut(t)
    BY <1>2, <1>3, <2>1 DEF TimesOut, server
  <2>2. CASE \E d \in flying : MeetEvent(t, d) \/ MeetReply(t, d)
    BY <1>2, <2>2 DEF MeetEvent, MeetReply, HandleMessage, server
  <2> QED
    BY <1>5, <2>1, <2>2 DEF Awaiting
<1>6. ASSUME Reading PROVE Linked'
  <2>1. CASE ReadLines \/ LoginFails \/ Housekeep \/ Collect \/ Return \/ \E d \in flying : Drain(d)
    BY <1>2, <2>1 DEF ReadLines, LoginFails, Housekeep, Collect, Return, Drain, HandleMessage,
                     server, client
  <2>2. CASE StillThere
    BY <1>2, <2>2 DEF StillThere, Send, server
  <2>3. CASE Login
    BY <2>3 DEF Login, Linked
  <2>4. CASE DrainFails
    BY <1>3, <2>4 DEF DrainFails
  <2> QED
    BY <1>6, <2>1, <2>2, <2>3, <2>4 DEF Reading
<1>7. ASSUME NEW t \in Askers, Command(t) \/ Write(t) PROVE Linked'
  BY <1>2, <1>7 DEF Command, Send, Write, server
<1> QED
  BY <1>4, <1>5, <1>6, <1>7 DEF Next

-----------------------------------------------------------------------------
(* What a step does to the events.                                            *)

\* Nothing is met, and nothing more can be.
Idly ==
    /\ UNCHANGED <<pushed, first, seen, acked>>
    /\ Outstanding' \subseteq Outstanding
    /\ session' => session /\ unacked' = unacked

LEMMA EventSteps ==
  ASSUME Inv, [Next]_vars
  PROVE  Push \/ Login \/ Idly \/ \E d \in flying : Meets(d)
<1> DEFINE Goal == Push \/ Login \/ Idly \/ \E d \in flying : Meets(d)
<1>1. ASSUME UNCHANGED <<pushed, first, seen, acked>>, flying' \subseteq flying,
             unacked' \subseteq unacked, session' => session /\ unacked' = unacked
      PROVE  Idly
  BY <1>1 DEF Idly, Outstanding, Arriving
<1>2. ASSUME NEW t \in Threads, NEW ask \in Asks, Send(t, ask) PROVE Idly
  <2>1. /\ \A d : d.type = "event" => (d \in flying' <=> d \in flying)
        /\ UNCHANGED <<server, seen, acked>>
    BY <1>2, Sending
  <2>2. Arriving' \subseteq Arriving
    BY <2>1 DEF Arriving
  <2> QED
    BY <2>1, <2>2 DEF Idly, Outstanding, server
<1>3. ASSUME NEW n \in unacked, PushAgain(n) PROVE Idly
  <2>1. Arriving' \subseteq Arriving \cup {n}
    BY <1>3 DEF PushAgain, Arriving, Event
  <2> QED
    BY <1>3, <2>1 DEF PushAgain, Idly, Outstanding, server, client, history
<1>4. ASSUME NEW t \in Threads, Awaiting(t) PROVE Goal
  <2>1. CASE TimesOut(t)
    <3>1. flying' \subseteq flying
      BY <2>1 DEF TimesOut, Take, Lost
    <3>2. /\ UNCHANGED <<pushed, first>> /\ unacked' \subseteq unacked
          /\ session' => session /\ unacked' = unacked
      BY <2>1 DEF TimesOut, Lost, server
    <3> QED
      BY <1>1, <2>1, <3>1, <3>2 DEF TimesOut, history
  <2>2. CASE \E d \in flying : MeetEvent(t, d)
    BY <2>2 DEF MeetEvent, Meets, Take, threads
  <2>3. CASE \E d \in flying : MeetReply(t, d)
    BY <1>1, <2>3 DEF MeetReply, Take, server
  <2> QED
    BY <1>4, <2>1, <2>2, <2>3 DEF Awaiting
<1>5. ASSUME Reading PROVE Goal
  <2>1. CASE ReadLines \/ LoginFails \/ Housekeep \/ Collect \/ Return
    <3>1. UNCHANGED <<server, flying, seen, acked>>
      BY <2>1 DEF ReadLines, LoginFails, Housekeep, Number, Collect, Return, client, history
    <3> QED
      BY <1>1, <3>1 DEF server
  <2>2. CASE StillThere
    <3>1. Reader \in Threads /\ Probe \in Asks
      BY DEF Threads, Probe, Asks
    <3> QED
      BY <1>2, <2>2, <3>1 DEF StillThere
  <2>3. CASE DrainFails
    BY <1>1, <2>3 DEF DrainFails, Lost, history
  <2>4. ASSUME NEW d \in flying, Drain(d) PROVE Goal
    <3>1. CASE d.type = "event"
      BY <2>4, <3>1 DEF Drain, Meets, Take, threads
    <3>2. CASE d.type # "event"
      BY <1>1, <2>4, <3>2 DEF Drain, Take
    <3> QED
      BY <3>1, <3>2
  <2> QED
    BY <1>5, <2>1, <2>2, <2>3, <2>4 DEF Reading
<1>6. ASSUME NEW t \in Askers, Command(t) \/ Write(t) PROVE Idly
  <2>1. CASE Command(t)
    <3>1. t \in Threads /\ asks + 1 \in Asks /\ Send(t, asks + 1)
      BY <2>1 DEF Command, Threads, Inv, TypeOK, Asks
    <3> QED
      BY <1>2, <3>1
  <2>2. CASE Write(t)
    <3>1. UNCHANGED <<server, flying, seen, acked>>
      BY <2>2 DEF Write, Number
    <3> QED
      BY <1>1, <3>1 DEF server
  <2> QED
    BY <1>6, <2>1, <2>2
<1>7. ASSUME Restart \/ Tick \/ UNCHANGED vars PROVE Idly
  BY <1>1, <1>7 DEF Restart, Tick, vars, server, client, history
<1> QED
  BY <1>3, <1>4, <1>5, <1>6, <1>7 DEF Next, Network

\* An event that comes is outrun by less than Outrun, and all that was pushed before
\* the last Outrun has been acknowledged.
LEMMA CloseStep ==
  ASSUME Inv, [Next]_vars
  PROVE  Close' /\ Covered'
<1> DEFINE Goal == Close' /\ Covered'
<1>1. /\ pushed \in Nat /\ first \in 0..pushed /\ Outrun \in Nat \ {0}
      /\ Close /\ Covered /\ Linked
  BY DEF Inv, TypeOK
<1>2. ASSUME Push PROVE Goal
  <2>1. /\ session /\ pushed' = pushed + 1 /\ first' = first /\ session' = session
        /\ unacked' = unacked \cup {pushed + 1} /\ acked' = acked
        /\ \A n \in Outstanding : pushed + 1 - n < Outrun
    BY <1>2 DEF Push, Outstanding, Arriving, history
  <2>2. Outstanding' \subseteq Outstanding \cup {pushed + 1}
    BY <1>2 DEF Push, Outstanding, Arriving, Event
  <2>3. ASSUME NEW n \in Outstanding' PROVE n \in (first + 1)..(pushed + 1) /\ pushed + 1 < n + Outrun
    <3>1. CASE n = pushed + 1
      BY <1>1, <3>1
    <3>2. CASE n \in Outstanding
      BY <1>1, <2>1, <3>2 DEF Close
    <3> QED
      BY <2>2, <3>1, <3>2
  <2>4. (first + 1)..(pushed + 1) \subseteq acked \cup unacked'
    <3>1. (first + 1)..(pushed + 1) \subseteq (first + 1)..pushed \cup {pushed + 1}
      BY <1>1
    <3> QED
      BY <1>1, <2>1, <3>1 DEF Covered
  <2>5. (first + 1)..((pushed + 1) - Outrun) \subseteq acked
    <3>1. ASSUME NEW n \in (first + 1)..((pushed + 1) - Outrun) PROVE n \in acked
      <4>1. n \in (first + 1)..pushed /\ ~(pushed + 1 - n < Outrun)
        BY <1>1, <3>1
      <4>2. n \notin unacked
        BY <2>1, <4>1 DEF Outstanding
      <4> QED
        BY <1>1, <2>1, <4>1, <4>2 DEF Covered
    <3> QED
      BY <3>1
  <2>6. Close'
    BY <2>1, <2>3 DEF Close
  <2>7. Covered'
    <3>1. first' = first /\ pushed' = pushed + 1 /\ acked' = acked
      BY <2>1
    <3>2. (first' + 1)..pushed' \subseteq acked' \cup unacked'
      BY <2>4, <3>1, Zenon
    <3>3. (first' + 1)..(pushed' - Outrun) \subseteq acked'
      BY <2>5, <3>1, Zenon
    <3> QED
      BY <3>2, <3>3 DEF Covered
  <2> QED
    BY <2>6, <2>7
<1>3. ASSUME Login PROVE Goal
  <2>1. flying' = {} /\ unacked' = unacked /\ first' = pushed /\ pushed' = pushed /\ unacked = {}
    BY <1>1, <1>3 DEF Login, Linked
  <2>2. Outstanding' = {}
    BY <2>1 DEF Outstanding, Arriving
  <2>3. (pushed + 1)..pushed = {} /\ (pushed + 1)..(pushed - Outrun) = {}
    BY <1>1
  <2> QED
    BY <2>1, <2>2, <2>3 DEF Close, Covered
<1>4. ASSUME Idly PROVE Goal
  BY <1>1, <1>4 DEF Idly, Close, Covered
<1>5. ASSUME NEW d \in flying, Meets(d) PROVE Goal
  <2>1. /\ flying' \subseteq flying /\ UNCHANGED <<session, pushed, first>>
        /\ unacked' \in {unacked, unacked \ {d.n}} /\ acked' = acked \cup {d.n}
    BY <1>5 DEF Meets, HandleMessage
  <2>2. Outstanding' \subseteq Outstanding
    BY <2>1 DEF Outstanding, Arriving
  <2>3. Close'
    BY <1>1, <2>1, <2>2 DEF Close
  <2>4. Covered'
    BY <1>1, <2>1 DEF Covered
  <2> QED
    BY <2>3, <2>4
<1> QED
  BY <1>2, <1>3, <1>4, <1>5, EventSteps

-----------------------------------------------------------------------------
(* The window.                                                                *)

\* No more values than places.
LEMMA TooMany ==
  ASSUME NEW S, IsFiniteSet(S), NEW T, IsFiniteSet(T), Cardinality(T) < Cardinality(S),
         NEW g, \A k \in S : \E j \in T : g[j] = k
  PROVE  FALSE
<1> DEFINE f == [k \in S |-> CHOOSE j \in T : g[j] = k]
<1>1. f \in [S -> T] /\ \A k \in S : g[f[k]] = k
  OBVIOUS
<1>2. \E k, m \in S : k # m /\ f[k] = f[m]
  <2> HIDE DEF f
  <2> QED
    BY <1>1, FS_PigeonHole
<1> QED
  BY <1>1, <1>2

LEMMA SeenLength ==
  ASSUME Inv
  PROVE  /\ seen \in Seq(0..(Wrap - 1)) /\ DOMAIN seen = 1..Len(seen) /\ Len(seen) \in 0..Window
         /\ pushed \in Nat /\ first \in 0..pushed /\ acked \subseteq 1..pushed
         /\ \A n \in Outstanding : n \in (first + 1)..pushed /\ pushed < n + Outrun
  BY DEF Inv, TypeOK, Met, Close

\* A number in the window is that of the event itself, and of no other as far away as
\* the numbers repeat: more than the window holds was met in between.
LEMMA Fresh ==
  ASSUME Inv, NEW n \in Outstanding
  PROVE  n \in acked <=> \E i \in DOMAIN seen : seen[i] = SeqOf(n)
<1>1. PICK g \in [DOMAIN seen -> (first + 1)..pushed] : Remembers(g)
  BY DEF Inv, Remembered
<1>2. ASSUME n \in acked PROVE \E i \in DOMAIN seen : seen[i] = SeqOf(n)
  <2>1. PICK i \in DOMAIN seen : g[i] = n
    BY <1>1, <1>2 DEF Remembers
  <2> QED
    BY <1>1, <2>1 DEF Remembers
<1>3. ASSUME n \notin acked, NEW i \in DOMAIN seen, seen[i] = SeqOf(n) PROVE FALSE
  <2> DEFINE k == g[i]
             K == (k + Outrun)..(pushed - Outrun)
             J == 1..Len(seen) \ {i}
  <2>1. /\ k \in acked /\ k # n /\ SeqOf(k) = SeqOf(n) /\ k \in (first + 1)..pushed
        /\ n \in (first + 1)..pushed /\ pushed < n + Outrun
    BY <1>1, <1>3, SeenLength DEF Remembers
  <2>2. \A m \in acked : m >= k + Outrun => \E j \in DOMAIN seen : j > i /\ g[j] = m
    BY <1>1 DEF Remembers
  <2>3. Outrun \in Nat \ {0} /\ Window \in Nat /\ Window >= 2 * Outrun - 1
        /\ Wrap \in Nat \ {0} /\ Wrap >= 2 * Window
    OBVIOUS
  <2>4. pushed \in Nat /\ first \in 0..pushed /\ Len(seen) \in 0..Window /\ DOMAIN seen = 1..Len(seen)
    BY SeenLength
  <2> HIDE DEF k
  <2>5. n - k >= Wrap
    <3> DEFINE a == k - first - 1
               b == n - first - 1
    <3>1. a \in Nat /\ b \in Nat /\ a # b /\ a % Wrap = b % Wrap /\ k \in Int /\ n \in Int
      <4>1. a \in Nat /\ b \in Nat /\ a # b /\ k \in Int /\ n \in Int
        BY <2>1, <2>4
      <4>2. a % Wrap = b % Wrap
        BY <2>1, Zenon DEF SeqOf
      <4> QED
        BY <4>1, <4>2, Zenon
    <3>2. b - a = n - k /\ a - b = k - n
      BY <2>1, <2>4
    <3>3. a < b \/ b < a
      <4> HIDE DEF a, b
      <4> QED
        BY <3>1
    <3> HIDE DEF a, b
    <3>4. CASE a < b
      <4>1. b - a >= Wrap
        BY <2>3, <3>1, <3>4, SameByte, Zenon
      <4> QED
        BY <3>2, <4>1
    <3>5. CASE b < a
      <4>1. a - b >= Wrap
        BY <2>3, <3>1, <3>5, SameByte, Zenon
      <4>2. k - n >= Wrap
        BY <3>2, <4>1
      <4> QED
        BY <2>1, <2>3, <2>4, <4>2
    <3> QED
      BY <3>3, <3>4, <3>5
  <2>6. K \subseteq acked /\ \A m \in K : m >= k + Outrun
    <3>1. K \subseteq (first + 1)..(pushed - Outrun) /\ \A m \in K : m >= k + Outrun
      BY <2>1, <2>3, <2>4
    <3> QED
      BY <3>1 DEF Inv, Covered
  <2>7. \A m \in K : \E j \in J : g[j] = m
    <3>1. ASSUME NEW m \in K PROVE \E j \in J : g[j] = m
      <4>1. PICK j \in DOMAIN seen : j > i /\ g[j] = m
        BY <2>2, <2>6
      <4> QED
        BY <2>4, <4>1
    <3> QED
      BY <3>1
  <2>8. IsFiniteSet(K) /\ Cardinality(K) >= Window
    <3>1. k + Outrun \in Int /\ pushed - Outrun \in Int
          /\ pushed - Outrun - (k + Outrun) + 1 >= Window /\ ~(k + Outrun > pushed - Outrun)
      BY <2>1, <2>3, <2>4, <2>5
    <3>2. IsFiniteSet(K) /\ Cardinality(K) = pushed - Outrun - (k + Outrun) + 1
      BY <3>1, FS_Interval
    <3> QED
      BY <3>1, <3>2
  <2>9. IsFiniteSet(J) /\ Cardinality(J) < Window
    <3>1. Len(seen) \in Int /\ 1 \in Int /\ i \in 1..Len(seen) /\ ~(1 > Len(seen)) /\ Len(seen) - 1 + 1 = Len(seen)
      BY <2>4
    <3>2. IsFiniteSet(1..Len(seen)) /\ Cardinality(1..Len(seen)) = Len(seen)
      BY <3>1, FS_Interval
    <3> DEFINE I == 1..Len(seen)
    <3>3. IsFiniteSet(I \ {i}) /\ Cardinality(I \ {i}) = Cardinality(I) - 1
      <4>1. IsFiniteSet(I) /\ i \in I
        BY <3>1, <3>2
      <4> HIDE DEF I
      <4> QED
        BY <4>1, FS_RemoveElement
    <3> QED
      BY <2>4, <3>2, <3>3
  <2>10. Cardinality(J) < Cardinality(K)
    <3> HIDE DEF J, K
    <3>1. Cardinality(J) \in Nat /\ Cardinality(K) \in Nat
      BY <2>8, <2>9, FS_CardinalityType
    <3> QED
      BY <2>3, <2>8, <2>9, <3>1
  <2> HIDE DEF J, K
  <2> QED
    BY <2>7, <2>8, <2>9, <2>10, TooMany
<1> QED
  BY <1>2, <1>3

\* The oldest number is forgotten only when its event can no longer come: the window
\* is full of later neighbours otherwise, and an event has too few of them.
LEMMA Forgotten ==
  ASSUME Inv, NEW g \in [DOMAIN seen -> (first + 1)..pushed], Remembers(g), Len(seen) = Window,
         NEW n \in Outstanding \ acked, NEW k \in Outstanding \cap acked,
         NEW i \in DOMAIN seen, g[i] = k,
         \A j \in DOMAIN seen : j > i => k - Outrun < g[j] /\ g[j] < k + Outrun
  PROVE  i > 1
<1> DEFINE J == 2..Window
           T == ((k - Outrun + 1)..(k + Outrun - 1) \ {k}) \ {n}
           f == [j \in J |-> g[j]]
<1>1. /\ DOMAIN seen = 1..Window /\ pushed \in Nat /\ first \in 0..pushed /\ acked \subseteq 1..pushed
      /\ n \in (first + 1)..pushed /\ pushed < n + Outrun /\ k \in (first + 1)..pushed
      /\ pushed < k + Outrun /\ n # k
      /\ Outrun \in Nat \ {0} /\ Window \in Nat /\ Window >= 2 * Outrun - 1
  BY SeenLength
<1>2. SUFFICES ASSUME i = 1 PROVE FALSE
  BY <1>1
<1>3. \A j \in J : j \in DOMAIN seen /\ j > i /\ j # i
  BY <1>1, <1>2
<1>4. f \in [J -> T]
  <2>1. ASSUME NEW j \in J PROVE g[j] \in T
    <3>1. /\ k - Outrun < g[j] /\ g[j] < k + Outrun /\ g[j] \in (first + 1)..pushed
          /\ g[j] \in acked /\ g[j] # k
      BY <1>3 DEF Remembers
    <3>2. g[j] # n /\ g[j] \in Int
      BY <1>1, <3>1
    <3>3. g[j] \in (k - Outrun + 1)..(k + Outrun - 1)
      BY <1>1, <3>1, <3>2
    <3> QED
      BY <3>1, <3>2, <3>3
  <2> QED
    BY <2>1
<1>5. \A j, m \in J : f[j] = f[m] => j = m
  BY <1>3 DEF Remembers
<1>6. IsFiniteSet(J) /\ Cardinality(J) = Window - 1
  <2>1. 2 \in Int /\ Window \in Int /\ (IF 2 > Window THEN 0 ELSE Window - 2 + 1) = Window - 1
    BY <1>1
  <2> QED
    BY <2>1, FS_Interval
<1>7. IsFiniteSet(T) /\ Cardinality(T) = 2 * Outrun - 3
  <2> DEFINE low == k - Outrun + 1
             high == k + Outrun - 1
  <2>1. low \in Int /\ high \in Int /\ ~(low > high) /\ high - low + 1 = 2 * Outrun - 1
        /\ k \in low..high /\ n \in low..high
    BY <1>1
  <2>2. IsFiniteSet(low..high) /\ Cardinality(low..high) = 2 * Outrun - 1
    <3> HIDE DEF low, high
    <3> QED
      BY <2>1, FS_Interval
  <2>3. IsFiniteSet(low..high \ {k}) /\ Cardinality(low..high \ {k}) = 2 * Outrun - 1 - 1
    <3> DEFINE U == low..high
    <3>1. IsFiniteSet(U) /\ Cardinality(U) = 2 * Outrun - 1 /\ k \in U
      BY <2>1, <2>2
    <3> HIDE DEF U
    <3>2. IsFiniteSet(U \ {k}) /\ Cardinality(U \ {k}) = 2 * Outrun - 1 - 1
      BY <3>1, FS_RemoveElement
    <3> QED
      BY <3>2 DEF U
  <2>4. n \in low..high \ {k}
    BY <1>1, <2>1
  <2>5. IsFiniteSet(T) /\ Cardinality(T) = 2 * Outrun - 1 - 1 - 1
    <3> DEFINE U == low..high \ {k}
    <3>1. IsFiniteSet(U) /\ Cardinality(U) = 2 * Outrun - 1 - 1 /\ n \in U /\ T = U \ {n}
      BY <2>3, <2>4
    <3> HIDE DEF U, T
    <3> QED
      BY <3>1, FS_RemoveElement
  <2>6. 2 * Outrun - 1 - 1 - 1 = 2 * Outrun - 3
    BY <1>1
  <2> QED
    BY <2>5, <2>6, Zenon
<1>8. Cardinality(T) < Cardinality(J)
  BY <1>1, <1>6, <1>7
<1> HIDE DEF J, T, f
<1> QED
  BY <1>4, <1>5, <1>6, <1>7, <1>8, FS_PigeonHole

\* How the window takes a number up: without its first, when it is full.
LEMMA Taken ==
  ASSUME Inv, NEW b \in 0..(Wrap - 1), Saw(b)
  PROVE  \E s \in {0, 1} :
           /\ s = 1 <=> Len(seen) = Window
           /\ s <= Len(seen) /\ DOMAIN seen' = 1..(Len(seen) - s + 1)
           /\ \A i \in 1..(Len(seen) - s) : seen'[i] = seen[i + s]
           /\ seen'[Len(seen) - s + 1] = b
<1>1. seen \in Seq(0..(Wrap - 1)) /\ Len(seen) \in 0..Window /\ Window > 0
  BY SeenLength
<1>2. CASE Len(seen) < Window
  <2>1. seen' = Append(seen, b)
    BY <1>2 DEF Saw
  <2>2. /\ DOMAIN seen' = 1..(Len(seen) - 0 + 1) /\ \A i \in 1..(Len(seen) - 0) : seen'[i] = seen[i + 0]
        /\ seen'[Len(seen) - 0 + 1] = b /\ 0 <= Len(seen) /\ Len(seen) # Window
    BY <1>1, <1>2, <2>1
  <2> QED
    BY <2>2
<1>3. CASE Len(seen) = Window
  <2>1. seen' = Append(Tail(seen), b)
    BY <1>1, <1>3 DEF Saw
  <2>2. /\ Tail(seen) \in Seq(0..(Wrap - 1)) /\ Len(Tail(seen)) = Len(seen) - 1
        /\ \A i \in 1..Len(Tail(seen)) : Tail(seen)[i] = seen[i + 1]
    BY <1>1, <1>3, HeadTailProperties
  <2>3. /\ DOMAIN seen' = 1..(Len(seen) - 1 + 1) /\ \A i \in 1..(Len(seen) - 1) : seen'[i] = seen[i + 1]
        /\ seen'[Len(seen) - 1 + 1] = b /\ 1 <= Len(seen)
    BY <1>1, <1>3, <2>1, <2>2
  <2> QED
    BY <1>3, <2>3
<1> QED
  BY <1>1, <1>2, <1>3

LEMMA RememberedStep ==
  ASSUME Inv, [Next]_vars
  PROVE  Remembered'
<1>1. PICK g \in [DOMAIN seen -> (first + 1)..pushed] : Remembers(g)
  BY DEF Inv, Remembered
<1>2. /\ DOMAIN seen = 1..Len(seen) /\ Len(seen) \in 0..Window
      /\ pushed \in Nat /\ first \in 0..pushed /\ acked \subseteq 1..pushed
      /\ \A n \in Outstanding : n \in (first + 1)..pushed /\ pushed < n + Outrun
      /\ Outrun \in Nat \ {0}
  BY SeenLength
<1>3. ASSUME UNCHANGED <<first, seen, acked>>, Outstanding' \cap acked \subseteq Outstanding,
             pushed' \in Nat, pushed <= pushed'
      PROVE  Remembered'
  <2>1. g \in [DOMAIN seen' -> (first' + 1)..pushed']
    <3>1. (first + 1)..pushed \subseteq (first + 1)..pushed'
      BY <1>2, <1>3
    <3> QED
      BY <1>3, <3>1
  <2>2. Remembers(g)'
    BY <1>1, <1>3 DEF Remembers, SeqOf
  <2> QED
    BY <2>1, <2>2 DEF Remembered
<1>4. ASSUME Idly PROVE Remembered'
  BY <1>2, <1>3, <1>4 DEF Idly
<1>5. ASSUME Push PROVE Remembered'
  <2>1. /\ UNCHANGED <<first, seen, acked>> /\ pushed' = pushed + 1
        /\ Outstanding' \subseteq Outstanding \cup {pushed + 1}
    BY <1>5 DEF Push, Outstanding, Arriving, Event, client, history
  <2>2. pushed + 1 \notin acked /\ pushed + 1 \in Nat /\ pushed <= pushed + 1
    BY <1>2
  <2> QED
    BY <1>3, <2>1, <2>2
<1>6. ASSUME Login PROVE Remembered'
  <2>1. seen' = <<>> /\ flying' = {} /\ unacked' = {}
    BY <1>6 DEF Login, Inv, Linked
  <2>2. DOMAIN seen' = {} /\ Outstanding' = {}
    BY <2>1 DEF Outstanding, Arriving
  <2>3. [i \in {} |-> 0] \in [{} -> (first' + 1)..pushed']
    OBVIOUS
  <2>4. Remembers([i \in {} |-> 0])'
    BY <2>2 DEF Remembers
  <2> QED
    BY <2>2, <2>3, <2>4 DEF Remembered
<1>7. ASSUME NEW d \in flying, Meets(d) PROVE Remembered'
  <2> DEFINE n == d.n
  <2>1. /\ n \in Outstanding /\ n \in (first + 1)..pushed /\ d.seq = SeqOf(n)
        /\ d.seq \in 0..(Wrap - 1) /\ n \in Int
    <3>1. n \in Outstanding /\ n \in (first + 1)..pushed /\ d.seq = SeqOf(n)
      BY <1>7, AnEventIsTyped DEF Meets
    <3>2. n - first - 1 \in Int
      BY <1>2, <3>1
    <3>3. (n - first - 1) % Wrap \in 0..(Wrap - 1)
      BY <3>2, Byte, Zenon
    <3> QED
      BY <1>2, <3>1, <3>3 DEF SeqOf
  <2>2. /\ UNCHANGED <<pushed, first>> /\ acked' = acked \cup {n} /\ Outstanding' \subseteq Outstanding
    BY <1>7 DEF Meets, HandleMessage, Outstanding, Arriving
  <2> HIDE DEF n
  <2>3. CASE n \in acked
    <3>1. \E i \in DOMAIN seen : seen[i] = d.seq
      BY <2>1, <2>3, Fresh
    <3>2. seen' = seen /\ acked' = acked
      BY <1>7, <2>2, <2>3, <3>1 DEF Meets, HandleMessage
    <3> QED
      BY <1>2, <1>3, <2>2, <3>2
  <2>4. CASE n \notin acked
    <3>1. Saw(d.seq)
      <4>1. ~\E i \in DOMAIN seen : seen[i] = d.seq
        BY <2>1, <2>4, Fresh
      <4> QED
        BY <1>7, <4>1 DEF Meets, HandleMessage
    <3>2. PICK s \in {0, 1} :
           /\ s = 1 <=> Len(seen) = Window
           /\ s <= Len(seen) /\ DOMAIN seen' = 1..(Len(seen) - s + 1)
           /\ \A i \in 1..(Len(seen) - s) : seen'[i] = seen[i + s]
           /\ seen'[Len(seen) - s + 1] = d.seq
      BY <2>1, <3>1, Taken
    <3> DEFINE most == Len(seen) - s
    <3>3. /\ most \in Nat /\ DOMAIN seen' = 1..(most + 1) /\ seen'[most + 1] = d.seq
          /\ \A i \in 1..most : seen'[i] = seen[i + s]
      BY <1>2, <3>2
    <3>4. \A i \in 1..most : i + s \in DOMAIN seen
      BY <1>2, <3>2
    <3>5. PICK h \in [1..(most + 1) -> (first + 1)..pushed] :
            /\ h[most + 1] = n /\ \A i \in 1..most : h[i] = g[i + s]
            /\ \A i \in 1..(most + 1) : i \in 1..most \/ i = most + 1
      <4> DEFINE with == [i \in 1..(most + 1) |-> IF i <= most THEN g[i + s] ELSE n]
      <4>1. /\ with[most + 1] = n /\ \A i \in 1..most : with[i] = g[i + s]
            /\ \A i \in 1..(most + 1) : i \in 1..most \/ i = most + 1
        BY <3>3
      <4>2. with \in [1..(most + 1) -> (first + 1)..pushed]
        BY <2>1, <3>3, <3>4
      <4> QED
        BY <4>1, <4>2
    <3>6. s \in Nat /\ Len(seen) \in Nat /\ s <= Len(seen)
      <4>1. s \in Nat
        OBVIOUS
      <4>2. s <= Len(seen)
        BY <3>2, Zenon
      <4>3. Len(seen) \in Nat
        BY <1>2
      <4> QED
        BY <4>1, <4>2, <4>3
    <3>7. \A j \in DOMAIN seen : j > s => j - s \in 1..most /\ (j - s) + s = j
      BY <1>2, <3>6
    <3> HIDE DEF most
    <3>8. \A i \in DOMAIN seen' : h[i] \in acked' /\ seen'[i] = SeqOf(h[i])
      <4>1. \A i \in 1..most : h[i] \in acked' /\ seen'[i] = SeqOf(h[i])
        BY <1>1, <2>2, <3>3, <3>4, <3>5 DEF Remembers
      <4>2. h[most + 1] \in acked' /\ seen'[most + 1] = SeqOf(h[most + 1])
        BY <2>1, <2>2, <3>3, <3>5
      <4> QED
        BY <3>3, <3>5, <4>1, <4>2
    <3>9. \A i, j \in DOMAIN seen' : h[i] = h[j] => i = j
      <4>1. \A i \in 1..most : h[i] # n
        BY <1>1, <2>4, <3>4, <3>5 DEF Remembers
      <4>2. \A i, j \in 1..most : h[i] = h[j] => i = j
        <5>1. \A i, j \in 1..most : h[i] = h[j] => i + s = j + s
          BY <1>1, <3>4, <3>5 DEF Remembers
        <5> QED
          BY <3>2, <5>1
      <4> QED
        BY <3>3, <3>5, <4>1, <4>2
    <3>10. ASSUME NEW k \in Outstanding' \cap acked'
           PROVE  \E i \in DOMAIN seen' : h[i] = k /\ \A j \in DOMAIN seen' :
                     j > i => k - Outrun < h[j] /\ h[j] < k + Outrun
      <4>1. CASE k = n
        <5>1. most + 1 \in DOMAIN seen' /\ ~\E j \in DOMAIN seen' : j > most + 1
          BY <3>3
        <5> QED
          BY <3>5, <4>1, <5>1
      <4>2. CASE k # n
        <5>1. k \in Outstanding \cap acked
          BY <2>2, <4>2
        <5>2. PICK i \in DOMAIN seen : g[i] = k /\ \A j \in DOMAIN seen :
                     j > i => k - Outrun < g[j] /\ g[j] < k + Outrun
          BY <1>1, <5>1 DEF Remembers
        <5>3. i > s
          <6>1. CASE s = 0
            BY <1>2, <6>1
          <6>2. CASE s = 1
            <7>1. n \in Outstanding \ acked
              BY <2>1, <2>4
            <7> QED
              BY <1>1, <3>2, <5>1, <5>2, <6>2, <7>1, Forgotten
          <6> QED
            BY <6>1, <6>2
        <5>4. i - s \in 1..most /\ i - s \in DOMAIN seen' /\ h[i - s] = k
          BY <3>3, <3>5, <3>7, <5>2, <5>3
        <5>5. k - Outrun < n /\ n < k + Outrun
          BY <1>2, <2>1, <5>1
        <5>6. ASSUME NEW j \in 1..most, j > i - s PROVE k - Outrun < h[j] /\ h[j] < k + Outrun
          <6>1. i \in Int /\ j \in Int
            BY <1>2, <3>3
          <6>2. j + s > i
            BY <3>6, <5>6, <6>1
          <6>3. j + s \in DOMAIN seen
            BY <3>4
          <6> QED
            BY <3>5, <5>2, <6>2, <6>3
        <5> QED
          BY <3>3, <3>5, <5>4, <5>5, <5>6
      <4> QED
        BY <4>1, <4>2
    <3>11. ASSUME NEW i \in DOMAIN seen', NEW m \in acked', m >= h[i] + Outrun
           PROVE  \E j \in DOMAIN seen' : j > i /\ h[j] = m
      <4>1. m \in 1..pushed
        BY <1>2, <2>1, <2>2
      <4>2. CASE i = most + 1
        <5>1. m >= n + Outrun
          BY <3>5, <3>11, <4>2
        <5> QED
          BY <1>2, <2>1, <4>1, <5>1
      <4>3. CASE i \in 1..most /\ m = n
        <5>1. most + 1 \in DOMAIN seen' /\ most + 1 > i
          BY <3>3, <4>3
        <5> QED
          BY <3>5, <4>3, <5>1
      <4>4. CASE i \in 1..most /\ m # n
        <5>1. m \in acked /\ i + s \in DOMAIN seen /\ m >= g[i + s] + Outrun
          BY <2>2, <3>4, <3>5, <3>11, <4>4
        <5>2. PICK j \in DOMAIN seen : j > i + s /\ g[j] = m
          BY <1>1, <5>1 DEF Remembers
        <5>3. j > s /\ j - s > i
          <6>1. i \in Nat \ {0} /\ j \in Nat
            BY <1>2, <3>3, <4>4
          <6> QED
            BY <3>6, <5>2, <6>1
        <5>4. j - s \in 1..most /\ h[j - s] = m
          BY <3>5, <3>7, <5>2, <5>3
        <5> QED
          BY <3>3, <5>3, <5>4
      <4> QED
        BY <3>3, <3>5, <4>2, <4>3, <4>4
    <3>12. Remembers(h)'
      BY <2>2, <3>8, <3>9, <3>10, <3>11 DEF Remembers, SeqOf
    <3> QED
      BY <2>2, <3>3, <3>12 DEF Remembered
  <2> QED
    BY <2>3, <2>4
<1> QED
  BY <1>4, <1>5, <1>6, <1>7, EventSteps

-----------------------------------------------------------------------------
(* Handing the events over.                                                   *)

Aside ==
    /\ UNCHANGED <<events, copy, handed, acked>> /\ pushed' \in {pushed, pushed + 1}
    /\ overlap => overlap'
    /\ pc'[Reader] = "return" => pc[Reader] = "return"

LEMMA DeliverySteps ==
  ASSUME Inv, [Next]_vars
  PROVE  \/ Aside \/ Collect \/ Return
         \/ (~overlap => pc[Reader] # "return") /\ \E d \in flying : Meets(d)
<1> DEFINE Goal == \/ Aside \/ Collect \/ Return
                   \/ (~overlap => pc[Reader] # "return") /\ \E d \in flying : Meets(d)
<1>1. /\ Reader \in Threads /\ \A t \in Askers : t \in Threads /\ t # Reader
      /\ pc \in [Threads -> Places] /\ Turns
  BY DEF Inv, TypeOK, Threads
<1>2. ASSUME UNCHANGED <<events, copy, handed, acked, pushed, overlap, pc>> PROVE Aside
  BY <1>2 DEF Aside
<1>3. ASSUME NEW t \in Threads, NEW ask, Send(t, ask), NEW p \in {"await", "probe"},
             pc' = [pc EXCEPT ![t] = p]
      PROVE  Aside
  <2>1. /\ overlap' = (overlap \/ \E u \in Threads \ {t} : pc[u] # "idle")
        /\ UNCHANGED <<server, events, copy, handed, acked>>
    BY <1>3 DEF Send
  <2>2. pc'[Reader] = "return" => pc[Reader] = "return"
    BY <1>1, <1>3
  <2> QED
    BY <2>1, <2>2 DEF Aside, server
<1>4. ASSUME NEW t \in Threads, Awaiting(t) PROVE Goal
  <2>1. ASSUME Awaits(t), Back(t) PROVE pc'[Reader] = "return" => pc[Reader] = "return"
    BY <1>1, <2>1 DEF Back
  <2>2. CASE TimesOut(t)
    <3>1. UNCHANGED <<events, copy, handed, acked, overlap, pushed>> /\ Awaits(t) /\ Back(t)
      BY <2>2 DEF TimesOut, Lost, history, server
    <3> QED
      BY <2>1, <3>1 DEF Aside
  <2>3. CASE \E d \in flying : MeetEvent(t, d)
    <3>1. \E d \in flying : Meets(d)
      BY <2>3 DEF MeetEvent, Meets, Take, threads
    <3>2. ASSUME ~overlap PROVE pc[Reader] # "return"
      <4>1. pc[t] \in {"await", "probe"}
        BY <2>3 DEF MeetEvent, Awaits
      <4> QED
        BY <1>1, <3>2, <4>1 DEF Turns
    <3> QED
      BY <3>1, <3>2
  <2>4. CASE \E d \in flying : MeetReply(t, d)
    <3>1. UNCHANGED <<events, copy, handed, acked, overlap, pushed>>
      BY <2>4 DEF MeetReply, server
    <3>2. UNCHANGED pc \/ (Awaits(t) /\ Back(t))
      BY <2>4 DEF MeetReply
    <3> QED
      BY <2>1, <3>1, <3>2 DEF Aside
  <2> QED
    BY <1>4, <2>2, <2>3, <2>4 DEF Awaiting
<1>5. ASSUME Reading PROVE Goal
  <2>1. CASE ReadLines \/ Login \/ Housekeep \/ DrainFails
    <3>1. PICK p \in {"drain", "silent", "collect", "idle"} : pc' = [pc EXCEPT ![Reader] = p]
      BY <2>1 DEF ReadLines, Login, Housekeep, DrainFails
    <3>2. UNCHANGED <<events, copy, handed, acked, pushed>> /\ (overlap => overlap')
      <4>1. CASE ReadLines \/ Login
        BY <4>1 DEF ReadLines, Login, server, client
      <4>2. CASE Housekeep \/ DrainFails
        BY <4>2 DEF Housekeep, DrainFails, Lost, server, history
      <4> QED
        BY <2>1, <4>1, <4>2
    <3> QED
      BY <1>1, <3>1, <3>2 DEF Aside
  <2>2. CASE LoginFails
    BY <1>2, <2>2 DEF LoginFails, server, client, threads, history
  <2>3. CASE StillThere
    <3>1. Send(Reader, Probe) /\ pc' = [pc EXCEPT ![Reader] = "probe"]
      BY <2>3 DEF StillThere
    <3> QED
      BY <1>1, <1>3, <3>1
  <2>4. ASSUME NEW d \in flying, Drain(d) PROVE Goal
    <3>1. CASE d.type = "event"
      BY <2>4, <3>1 DEF Drain, Meets, Take, threads
    <3>2. CASE d.type # "event"
      BY <1>2, <2>4, <3>2 DEF Drain, threads
    <3> QED
      BY <3>1, <3>2
  <2> QED
    BY <1>5, <2>1, <2>2, <2>3, <2>4 DEF Reading
<1>6. ASSUME NEW t \in Askers, Command(t) \/ Write(t) PROVE Goal
  <2>1. CASE Command(t)
    <3>1. Send(t, asks + 1) /\ pc' = [pc EXCEPT ![t] = "await"]
      BY <2>1 DEF Command
    <3> QED
      BY <1>1, <1>3, <3>1
  <2>2. CASE Write(t)
    BY <1>2, <2>2 DEF Write, server, threads
  <2> QED
    BY <1>6, <2>1, <2>2
<1>7. ASSUME Network \/ Tick \/ UNCHANGED vars PROVE Goal
  <2>1. CASE Push
    BY <2>1 DEF Push, Aside, client, threads, history
  <2>2. CASE Restart \/ Tick \/ UNCHANGED vars \/ \E n \in unacked : PushAgain(n)
    BY <1>2, <2>2 DEF Restart, Tick, PushAgain, vars, server, client, threads, history
  <2> QED
    BY <1>7, <2>1, <2>2 DEF Network
<1> QED
  BY <1>4, <1>5, <1>6, <1>7 DEF Next

\* An event met for the first time joins the queue; met again, it changes nothing.
LEMMA DeliveryStep ==
  ASSUME Inv, [Next]_vars
  PROVE  Met' /\ HandedOnce' /\ Kept'
<1> DEFINE Goal == Met' /\ HandedOnce' /\ Kept'
<1>1. /\ Met /\ HandedOnce /\ Kept /\ pushed \in Nat /\ first \in 0..pushed
      /\ events \in Seq(Pushed) /\ pc \in [Threads -> Places] /\ Reader \in Threads
  BY DEF Inv, TypeOK, Threads
<1>2. ASSUME Aside PROVE Goal
  <2>1. 1..pushed \subseteq 1..pushed'
    BY <1>1, <1>2 DEF Aside
  <2>2. Met'
    BY <1>1, <1>2, <2>1 DEF Aside, Met
  <2>3. HandedOnce'
    BY <1>1, <1>2 DEF Aside, HandedOnce
  <2>4. Kept'
    BY <1>1, <1>2 DEF Aside, Kept, AckedIsKept
  <2> QED
    BY <2>2, <2>3, <2>4
<1>3. ASSUME Collect PROVE Goal
  <2>1. /\ copy' = events /\ UNCHANGED <<events, handed, acked, pushed, overlap>>
    BY <1>3 DEF Collect, client, server, history
  <2>2. Met'
    BY <1>1, <2>1 DEF Met
  <2>3. HandedOnce'
    BY <1>1, <2>1 DEF HandedOnce
  <2>4. Kept'
    BY <1>1, <2>1 DEF Kept, AckedIsKept
  <2> QED
    BY <2>2, <2>3, <2>4
<1>4. ASSUME Return PROVE Goal
  <2>1. /\ events' = <<>> /\ copy' = <<>> /\ handed' = handed \cup {copy[i] : i \in DOMAIN copy}
        /\ UNCHANGED <<acked, pushed, overlap>> /\ pc[Reader] = "return" /\ pc'[Reader] = "idle"
    BY <1>1, <1>4 DEF Return, server
  <2>2. Met'
    <3>1. DOMAIN events' = {} /\ DOMAIN copy' = {}
      BY <2>1
    <3>2. handed' \subseteq acked
      BY <1>1, <2>1 DEF Met
    <3> QED
      BY <1>1, <2>1, <3>1, <3>2 DEF Met
  <2>3. HandedOnce'
    BY <2>1 DEF HandedOnce
  <2>4. Kept'
    BY <1>1, <2>1 DEF Kept, AckedIsKept
  <2> QED
    BY <2>2, <2>3, <2>4
<1>5. ASSUME NEW d \in flying, Meets(d), ~overlap => pc[Reader] # "return" PROVE Goal
  <2> DEFINE n == d.n
  <2>1. /\ n \in Outstanding /\ n \in 1..pushed /\ d.seq = SeqOf(n) /\ n \in Pushed
    BY <1>1, <1>5, AnEventIsTyped DEF Meets
  <2>2. /\ acked' = acked \cup {n} /\ UNCHANGED <<pushed, copy, handed, overlap, pc>>
    BY <1>5 DEF Meets, HandleMessage
  <2>3. n \in acked <=> \E i \in DOMAIN seen : seen[i] = d.seq
    BY <2>1, Fresh
  <2>4. n \in acked => acked' = acked /\ events' = events
    BY <1>5, <2>2, <2>3 DEF Meets, HandleMessage
  <2>5. n \notin acked => events' = Append(events, n)
    BY <1>5, <2>3 DEF Meets, HandleMessage, Keep
  <2> HIDE DEF n
  <2>6. CASE n \in acked
    <3>1. Met'
      BY <1>1, <2>2, <2>4, <2>6 DEF Met
    <3>2. HandedOnce'
      BY <1>1, <2>2, <2>4, <2>6 DEF HandedOnce
    <3>3. Kept'
      BY <1>1, <2>2, <2>4, <2>6 DEF Kept, AckedIsKept
    <3> QED
      BY <3>1, <3>2, <3>3
  <2>7. CASE n \notin acked
    <3> DEFINE most == Len(events)
    <3>1. /\ DOMAIN events = 1..most /\ DOMAIN events' = 1..(most + 1) /\ most \in Nat
          /\ \A i \in 1..most : events'[i] = events[i]
          /\ events'[most + 1] = n /\ most + 1 \in 1..(most + 1)
          /\ \A i \in 1..(most + 1) : i \in 1..most \/ i = most + 1
          /\ \A i \in 1..most : i \in 1..(most + 1)
      BY <1>1, <2>1, <2>5, <2>7, AppendProperties
    <3> HIDE DEF most
    <3>2. Met'
      BY <1>1, <2>1, <2>2, <3>1 DEF Met
    <3>3. HandedOnce'
      <4>1. \A i \in 1..most : events[i] # n
        BY <1>1, <2>7, <3>1 DEF Met
      <4>2. n \notin handed
        BY <1>1, <2>7 DEF Met
      <4>3. \A i \in DOMAIN events' : events'[i] \notin handed'
        BY <1>1, <2>2, <3>1, <4>2 DEF HandedOnce
      <4>4. \A i, j \in DOMAIN events' : i # j => events'[i] # events'[j]
        BY <1>1, <3>1, <4>1 DEF HandedOnce
      <4> QED
        BY <4>3, <4>4 DEF HandedOnce
    <3>4. Kept'
      <4>1. AckedIsKept'
        BY <1>1, <2>2, <3>1 DEF Kept, AckedIsKept
      <4> QED
        BY <1>5, <2>2, <4>1 DEF Kept
    <3> QED
      BY <3>2, <3>3, <3>4
  <2> QED
    BY <2>6, <2>7
<1> QED
  BY <1>2, <1>3, <1>4, <1>5, DeliverySteps

-----------------------------------------------------------------------------
(* Replies.                                                                   *)

\* No reply comes, nothing is gathered, and nobody begins to wait.
NoReply ==
    /\ \A d \in flying' : d.type = "reply" => d \in flying
    /\ parts' = parts /\ (overlap => overlap')
    /\ \A t \in Threads : Awaits(t)' => Awaits(t) /\ asking'[t] = asking[t]

LEMMA ReplySteps ==
  ASSUME Inv, [Next]_vars
  PROVE  \/ NoReply
         \/ \E t \in Threads, ask \in Asks : Send(t, ask) /\ \E p : pc' = [pc EXCEPT ![t] = p]
         \/ \E t \in Threads, d \in flying : MeetReply(t, d)
<1> DEFINE Asking == \E t \in Threads, ask \in Asks : Send(t, ask) /\ \E p : pc' = [pc EXCEPT ![t] = p]
           Meeting == \E t \in Threads, d \in flying : MeetReply(t, d)
<1>1. /\ Reader \in Threads /\ \A t \in Askers : t \in Threads
      /\ pc \in [Threads -> Places] /\ asking \in [Threads -> [ask : Asks, seq : -1..(Wrap - 1)]]
  BY DEF Inv, TypeOK, Threads
<1>2. ASSUME UNCHANGED <<parts, pc, asking>>, overlap => overlap',
             \A d \in flying' : d.type = "reply" => d \in flying
      PROVE  NoReply
  BY <1>2 DEF NoReply, Awaits
<1>3. ASSUME NEW p \in Places \ {"await", "probe"}, pc' = [pc EXCEPT ![Reader] = p],
             UNCHANGED <<parts, asking>>, overlap => overlap', flying' \subseteq flying
      PROVE  NoReply
  <2>1. \A t \in Threads : Awaits(t)' => Awaits(t)
    BY <1>1, <1>3 DEF Awaits
  <2> QED
    BY <1>3, <2>1 DEF NoReply
<1>4. ASSUME NEW t \in Threads, TimesOut(t) PROVE NoReply
  <2>1. flying' \subseteq flying /\ UNCHANGED <<parts, overlap>>
    BY <1>4 DEF TimesOut, Take, Lost, history
  <2>2. \A u \in Threads : Awaits(u)' => Awaits(u) /\ asking'[u] = asking[u]
    BY <1>1, <1>4 DEF TimesOut, Back, Awaits
  <2> QED
    BY <2>1, <2>2 DEF NoReply
<1>5. ASSUME NEW t \in Threads, Awaiting(t) PROVE NoReply \/ Meeting
  <2>1. CASE \E d \in flying : MeetEvent(t, d)
    BY <1>2, <2>1 DEF MeetEvent, Take, threads
  <2> QED
    BY <1>4, <1>5, <2>1 DEF Awaiting
<1>6. ASSUME Reading PROVE NoReply \/ Asking
  <2>1. CASE ReadLines \/ Collect
    <3>1. PICK p \in {"drain", "return"} : pc' = [pc EXCEPT ![Reader] = p]
      BY <2>1 DEF ReadLines, Collect
    <3>2. UNCHANGED <<parts, asking, flying>> /\ (overlap => overlap')
      <4>1. CASE ReadLines
        BY <4>1 DEF ReadLines, client
      <4>2. CASE Collect
        BY <4>2 DEF Collect, client, history
      <4> QED
        BY <2>1, <4>1, <4>2
    <3> QED
      BY <1>3, <3>1, <3>2
  <2>2. CASE Login \/ Housekeep
    <3>1. PICK p \in {"drain", "silent", "collect"} : pc' = [pc EXCEPT ![Reader] = p]
      BY <2>2 DEF Login, Housekeep
    <3>2. UNCHANGED <<parts, asking>> /\ (overlap => overlap') /\ flying' \subseteq flying
      <4>1. CASE Login
        BY <4>1 DEF Login
      <4>2. CASE Housekeep
        BY <4>2 DEF Housekeep, Number
      <4> QED
        BY <2>2, <4>1, <4>2
    <3> QED
      BY <1>3, <3>1, <3>2
  <2>3. CASE DrainFails \/ Return
    <3>1. /\ pc' = [pc EXCEPT ![Reader] = "idle"] /\ flying' \subseteq flying
          /\ UNCHANGED <<parts, asking, overlap>>
      BY <2>3 DEF DrainFails, Return, Lost, history
    <3> QED
      BY <1>3, <3>1
  <2>4. CASE StillThere
    <3>1. Probe \in Asks /\ Send(Reader, Probe) /\ pc' = [pc EXCEPT ![Reader] = "probe"]
      BY <2>4 DEF StillThere, Probe, Asks
    <3> QED
      BY <1>1, <3>1
  <2>5. CASE LoginFails \/ \E d \in flying : Drain(d)
    <3>1. flying' \subseteq flying /\ UNCHANGED <<parts, asking, pc, overlap>>
      BY <2>5 DEF LoginFails, Drain, Take, client, threads, history
    <3> QED
      BY <1>2, <3>1
  <2> QED
    BY <1>6, <2>1, <2>2, <2>3, <2>4, <2>5 DEF Reading
<1>7. ASSUME NEW t \in Askers, Command(t) \/ Write(t) PROVE NoReply \/ Asking
  <2>1. CASE Command(t)
    <3>1. asks + 1 \in Asks /\ Send(t, asks + 1) /\ pc' = [pc EXCEPT ![t] = "await"]
      BY <2>1 DEF Command, Inv, TypeOK, Asks
    <3> QED
      BY <1>1, <3>1
  <2>2. CASE Write(t)
    BY <1>2, <2>2 DEF Write, Number, threads
  <2> QED
    BY <1>7, <2>1, <2>2
<1>8. ASSUME Network \/ Tick \/ UNCHANGED vars PROVE NoReply
  <2>1. \A n : Event(n).type # "reply"
    BY DEF Event
  <2>2. \A d \in flying' : d.type = "reply" => d \in flying
    BY <1>8, <2>1 DEF Network, Push, PushAgain, Restart, Tick, vars
  <2>3. UNCHANGED <<parts, pc, asking, overlap>>
    BY <1>8 DEF Network, Push, PushAgain, Restart, Tick, vars, client, threads, history
  <2> QED
    BY <1>2, <2>2, <2>3
<1> QED
  BY <1>5, <1>6, <1>7, <1>8 DEF Next

LEMMA AskedStep ==
  ASSUME Inv, [Next]_vars
  PROVE  Asked'
<1>1. /\ Asked /\ Turns /\ pc \in [Threads -> Places]
      /\ asking \in [Threads -> [ask : Asks, seq : -1..(Wrap - 1)]]
  BY DEF Inv, TypeOK
<1>2. ASSUME NoReply PROVE Asked'
  BY <1>1, <1>2 DEF NoReply, Asked, IsMine
<1>3. ASSUME NEW t \in Threads, NEW ask \in Asks, Send(t, ask), NEW p, pc' = [pc EXCEPT ![t] = p]
      PROVE  Asked'
  <2>1. PICK number \in 0..(Wrap - 1) :
          /\ asking' = [asking EXCEPT ![t] = [ask |-> ask, seq |-> number]]
          /\ \A d \in flying' : d.type = "reply" => d.seq # number \/ d.ask = ask
    BY <1>3, Sending
  <2>2. parts' = <<>> /\ overlap' = (overlap \/ \E u \in Threads \ {t} : pc[u] # "idle")
    BY <1>3, Sending
  <2>3. asking'[t].ask = ask /\ asking'[t].seq = number
    BY <1>1, <2>1
  <2>4. ASSUME ~overlap', NEW u \in Threads, Awaits(u)' PROVE u = t
    <3>1. SUFFICES ASSUME u # t PROVE FALSE
      OBVIOUS
    <3>2. pc[u] = "idle" /\ pc'[u] = pc[u]
      BY <1>1, <1>3, <2>2, <2>4, <3>1
    <3> QED
      BY <2>4, <3>2 DEF Awaits
  <2>5. DOMAIN parts' = {}
    BY <2>2
  <2>6. \A d \in flying' : d.type = "reply" /\ IsMine(t, d)' => d.ask = asking'[t].ask
    BY <2>1, <2>3 DEF IsMine
  <2> QED
    BY <2>4, <2>5, <2>6 DEF Asked, IsMine
<1>4. ASSUME NEW t \in Threads, NEW d \in flying, MeetReply(t, d) PROVE Asked'
  <2>1. /\ d.type = "reply" /\ Awaits(t) /\ flying' \subseteq flying /\ overlap' = overlap
    BY <1>4 DEF MeetReply, Take
  <2>2. ASSUME ~overlap', NEW u \in Threads, Awaits(u)'
        PROVE  u = t /\ UNCHANGED <<pc, asking>> /\ Awaits(u)
    <3>1. \A v \in Threads : v # t => pc[v] = "idle" /\ pc'[v] = pc[v]
      BY <1>1, <1>4, <2>1, <2>2 DEF MeetReply, Back, Turns, Awaits
    <3>2. u = t
      BY <2>2, <3>1 DEF Awaits
    <3>3. UNCHANGED <<pc, asking>>
      BY <1>1, <1>4, <2>2, <3>2 DEF MeetReply, Back, Awaits
    <3> QED
      BY <2>2, <3>2, <3>3 DEF Awaits
  <2>3. ASSUME ~overlap', Awaits(t)' PROVE \A i \in DOMAIN parts' : parts'[i] = asking[t].ask
    <3>1. /\ \A i \in DOMAIN parts : parts[i] = asking[t].ask
          /\ IsMine(t, d) => d.ask = asking[t].ask
      BY <1>1, <2>1, <2>3 DEF Asked
    <3>2. CASE parts' = parts
      BY <3>1, <3>2
    <3>3. CASE parts' = Gathered(d) /\ IsMine(t, d)
      BY <3>1, <3>3 DEF Gathered
    <3>4. CASE Back(t)
      BY <2>2, <2>3, <3>4, <1>1 DEF Back, Awaits
    <3> QED
      BY <1>4, <3>2, <3>3, <3>4 DEF MeetReply
  <2>4. ASSUME ~overlap', NEW u \in Threads, Awaits(u)', NEW e \in flying',
               e.type = "reply", IsMine(u, e)'
        PROVE  e.ask = asking'[u].ask
    <3>1. u = t /\ asking' = asking /\ e \in flying
      BY <2>1, <2>2, <2>4
    <3>2. IsMine(t, e)
      BY <2>4, <3>1 DEF IsMine
    <3> QED
      BY <1>1, <2>1, <2>4, <3>1, <3>2 DEF Asked
  <2>5. ASSUME ~overlap', NEW u \in Threads, Awaits(u)', NEW i \in DOMAIN parts'
        PROVE  parts'[i] = asking'[u].ask
    BY <2>2, <2>3, <2>5
  <2> QED
    BY <2>4, <2>5 DEF Asked
<1> QED
  BY <1>2, <1>3, <1>4, ReplySteps

LEMMA OwnReplyHolds ==
  ASSUME Asked
  PROVE  OwnReply
<1>1. SUFFICES ASSUME ~overlap, NEW t \in Threads, NEW d \in flying,
                      Awaits(t), d.type = "reply", IsMine(t, d), Complete(d)
               PROVE  Answers(d) = {asking[t].ask}
  BY DEF OwnReply
<1>2. d.ask = asking[t].ask /\ \A i \in DOMAIN parts : parts[i] = asking[t].ask
  BY <1>1 DEF Asked
<1>3. DOMAIN Gathered(d) = DOMAIN parts \cup {d.part}
  BY DEF Gathered
<1>4. \A i \in DOMAIN Gathered(d) : Gathered(d)[i] = asking[t].ask
  BY <1>2 DEF Gathered
<1>5. d.part \in DOMAIN Gathered(d)
  BY <1>3
<1> QED
  BY <1>2, <1>4, <1>5 DEF Answers

-----------------------------------------------------------------------------
(* Together.                                                                  *)

LEMMA InvInit ==
  Init => Inv
<1>1. SUFFICES ASSUME Init PROVE Inv
  OBVIOUS
<1>2. TypeOK
  <2>1. asking \in [Threads -> [ask : Asks, seq : -1..(Wrap - 1)]]
    BY <1>1 DEF Init, Nobody, Probe, Asks
  <2>2. seen \in Seq(0..(Wrap - 1)) /\ Len(seen) = 0 /\ events \in Seq(Pushed) /\ copy \in Seq(Pushed)
        /\ outbox \in Seq(Asks) /\ DOMAIN parts = {}
    BY <1>1 DEF Init
  <2>3. /\ 0 \in 0..MaxEvents /\ 0 \in 0..0 /\ 0 \in 0..(Wrap - 1) /\ 0 \in Asks
        /\ 0 \in 0..(DeadAfter + 1) /\ 0 \in 0..RetryMax /\ 0 \in 0..MaxFaults /\ 0 <= Window
    BY DEF Asks
  <2> QED
    BY <1>1, <2>1, <2>2, <2>3 DEF Init, TypeOK
<1>3. Typed /\ Outstanding = {}
  BY <1>1 DEF Init, Typed, Outstanding, Arriving
<1>4. Turns /\ Linked
  BY <1>1 DEF Init, Turns, Linked, Threads
<1>5. DOMAIN events = {} /\ DOMAIN copy = {} /\ DOMAIN outbox = {} /\ DOMAIN seen = {}
  BY <1>1 DEF Init
<1>6. Met /\ HandedOnce /\ Kept
  <2>1. Met
    BY <1>1, <1>5 DEF Init, Met
  <2>2. HandedOnce
    BY <1>5 DEF HandedOnce
  <2>3. Kept
    BY <1>1 DEF Init, Kept, AckedIsKept, Threads
  <2> QED
    BY <2>1, <2>2, <2>3
<1>7. Ordered
  BY <1>1, <1>5 DEF Init, Ordered, SentInOrder
<1>8. Asked
  BY <1>1 DEF Init, Asked
<1>9. Close /\ Covered
  <2>1. first = 0 /\ pushed = 0
    BY <1>1 DEF Init
  <2>2. (0 + 1)..0 = {} /\ (0 + 1)..(0 - Outrun) = {}
    OBVIOUS
  <2> QED
    BY <1>3, <2>1, <2>2 DEF Close, Covered
<1>10. Remembered
  <2>1. [i \in {} |-> 0] \in [{} -> (first + 1)..pushed]
    OBVIOUS
  <2>2. Remembers([i \in {} |-> 0])
    BY <1>3, <1>5 DEF Remembers
  <2> QED
    BY <1>5, <2>1, <2>2 DEF Remembered
<1> QED
  BY <1>2, <1>3, <1>4, <1>6, <1>7, <1>8, <1>9, <1>10 DEF Inv

LEMMA InvNext ==
  Inv /\ [Next]_vars => Inv'
<1> SUFFICES ASSUME Inv, [Next]_vars PROVE Inv'
  OBVIOUS
<1>1. TypeOK' /\ Typed' /\ Turns' /\ Linked'
  BY TypesStep, TurnsStep, LinkedStep
<1>2. Met' /\ HandedOnce' /\ Kept'
  BY DeliveryStep
<1>3. Ordered' /\ Asked'
  BY OrderedStep, AskedStep
<1>4. Close' /\ Covered' /\ Remembered'
  BY CloseStep, RememberedStep
<1> QED
  BY <1>1, <1>2, <1>3, <1>4 DEF Inv

LEMMA InvAlways ==
  Spec => []Inv
  BY InvInit, InvNext, PTL DEF Spec

\* The client stays in its types.
THEOREM BattlEyeTyped ==
  Spec => []TypeOK
<1>1. Inv => TypeOK
  BY DEF Inv
<1> QED
  BY <1>1, InvAlways, PTL

\* read_lines and command queue each event that comes, unless its number is among the
\* Window last: whatever is sent again, lost, late or asked for meanwhile, each event
\* reaches the bot, and once.
THEOREM EventsReachTheBotOnce ==
  Spec => []EachEventOnce
<1>1. Inv => EachEventOnce
  BY DEF Inv, Kept, EachEventOnce
<1> QED
  BY <1>1, InvAlways, PTL

\* command takes no other reply for its own, neither one of an earlier command nor a
\* part of one, while the threads take turns.
THEOREM RepliesAreOnesOwn ==
  Spec => []OwnReply
<1>1. Inv => OwnReply
  BY OwnReplyHolds DEF Inv
<1> QED
  BY <1>1, InvAlways, PTL

\* Chat that waits goes out before any command asked for after it.
THEOREM ChatGoesOutInOrder ==
  Spec => []SentInOrder
<1>1. Inv => SentInOrder
  BY DEF Inv, Ordered
<1> QED
  BY <1>1, InvAlways, PTL
================================================================================
