---------------------------- MODULE Replies_proofs ----------------------------
(* The RCON client of the Quake 3 engines, for any number of threads, commands *)
(* and retries, that of the Source engine, for any number of commands and      *)
(* faults of the server, and the rosters, for any players, bots, slots, names   *)
(* and lost lines.                                                             *)
EXTENDS MCReplies, SequenceTheorems, TLAPS

\* The datagrams of a sequence.
Among(seq) == {seq[i] : i \in 1..Len(seq)}

\* Where a thread has sent its question and collects the answer.
Reading == {"collect", "recv"}

\* What is on the wire was sent, nothing is both flying and in the socket, and
\* nothing that waited when a request began can still reach it.
WireInv ==
    /\ \A d \in flying \cup Among(buffer) : d \in Datagrams /\ d[2] <= sends[d[1]]
    /\ flying \cap Among(buffer) = {}
    /\ \A t \in Threads :
         /\ \A d \in waiting[t] : d \in Datagrams /\ d[2] <= sends[d[1]]
         /\ waiting[t] \cap flying = {}
         /\ waiting[t] \cap Among(chunks[t]) = {}
         /\ pc[t] \in Reading => waiting[t] \cap Among(buffer) = {}
         /\ pc[t] \notin Reading => chunks[t] = <<>>

\* No command was sent more often than the client tries it.
Limited == \A c \in 1..Len(calls) : sends[c] <= Attempts(calls[c])

\* What keeps the number of times a command is sent below its limit: only the
\* thread that asked it sends it, and counts.
OwnerInv ==
    /\ \A t \in Threads :
         /\ pc[t] = "idle" <=> call[t] = 0
         /\ pc[t] # "idle" => tries[t] \in 1..Attempts(calls[call[t]])
         /\ pc[t] \in {"request", "discard"} => sends[call[t]] = tries[t] - 1
         /\ pc[t] \in {"collect", "recv"} => sends[call[t]] = tries[t]
    /\ \A t, u \in Threads : call[t] = call[u] /\ call[t] # 0 => t = u
    /\ \A c \in Calls : c > Len(calls) => sends[c] = 0
    /\ Limited

\* The variables in their types.
RconTypes ==
    /\ calls \in Seq(Commands) /\ Len(calls) <= MaxCalls
    /\ pc \in [Threads -> Busy \cup {"idle"}]
    /\ call \in [Threads -> 0..Len(calls)]
    /\ tries \in [Threads -> 0..MaxRetries]
    /\ chunks \in [Threads -> Seq(Datagrams)]
    /\ waiting \in [Threads -> SUBSET Datagrams]
    /\ nonblocking \in BOOLEAN
    /\ flying \subseteq Datagrams
    /\ buffer \in Seq(Datagrams)
    /\ sends \in [Calls -> 0..MaxRetries]

-----------------------------------------------------------------------------
(* Sequences of datagrams.                                                    *)

LEMMA AmongAppend ==
  ASSUME NEW S, NEW seq \in Seq(S), NEW d \in S
  PROVE  /\ Append(seq, d) \in Seq(S)
         /\ Append(seq, d) # <<>>
         /\ Among(Append(seq, d)) = Among(seq) \cup {d}
<1>1. /\ Append(seq, d) \in Seq(S)
      /\ Len(Append(seq, d)) = Len(seq) + 1
      /\ \A i \in 1..Len(seq) : Append(seq, d)[i] = seq[i]
      /\ Append(seq, d)[Len(seq) + 1] = d
  BY AppendProperties
<1>2. Len(seq) \in Nat
  OBVIOUS
<1>3. 1..(Len(seq) + 1) = 1..Len(seq) \cup {Len(seq) + 1}
  BY <1>2
<1> QED
  BY <1>1, <1>2, <1>3 DEF Among

LEMMA AmongTail ==
  ASSUME NEW S, NEW seq \in Seq(S), seq # <<>>
  PROVE  /\ Tail(seq) \in Seq(S) /\ Head(seq) \in S
         /\ Among(Tail(seq)) \subseteq Among(seq) /\ Head(seq) \in Among(seq)
<1>1. /\ Head(seq) \in S /\ Tail(seq) \in Seq(S)
      /\ Len(Tail(seq)) = Len(seq) - 1
      /\ \A i \in 1..Len(Tail(seq)) : Tail(seq)[i] = seq[i + 1]
  BY HeadTailProperties
<1>2. Len(seq) \in Nat \ {0} /\ Head(seq) = seq[1]
  BY EmptySeq
<1> QED
  BY <1>1, <1>2 DEF Among

LEMMA AmongEmpty == Among(<<>>) = {}
  BY DEF Among

LEMMA AttemptsBound ==
  ASSUME NEW cmd PROVE Attempts(cmd) \in 1..MaxRetries
  BY RetriesAssumption DEF Attempts

-----------------------------------------------------------------------------
(* Who sends what, and how often.                                             *)

\* A new command is nobody's yet.
LEMMA NewCallFacts ==
  ASSUME RconTypes, OwnerInv, NEW cmd \in Commands, NewCall(cmd)
  PROVE  /\ calls' \in Seq(Commands) /\ Len(calls') = Len(calls) + 1
         /\ Len(calls') <= MaxCalls /\ Len(calls) \in Nat
         /\ \A c \in 1..Len(calls) : calls'[c] = calls[c]
         /\ calls'[Len(calls) + 1] = cmd
         /\ Len(calls) + 1 \in Calls /\ sends[Len(calls) + 1] = 0
<1>1. Len(calls) < MaxCalls /\ calls' = Append(calls, cmd) /\ calls \in Seq(Commands)
  BY DEF NewCall, RconTypes
<1>2. /\ calls' \in Seq(Commands) /\ Len(calls') = Len(calls) + 1
      /\ \A c \in 1..Len(calls) : calls'[c] = calls[c]
      /\ calls'[Len(calls) + 1] = cmd
  BY <1>1, AppendProperties
<1>3. Len(calls) \in Nat /\ Len(calls) + 1 \in Calls
  BY <1>1, RetriesAssumption DEF Calls
<1>4. sends[Len(calls) + 1] = 0
  <2>1. Len(calls) + 1 > Len(calls)
    BY <1>3
  <2> QED
    BY <1>3, <2>1 DEF OwnerInv
<1>5. Len(calls') <= MaxCalls
  BY <1>1, <1>2, <1>3, RetriesAssumption
<1> QED
  BY <1>2, <1>3, <1>4, <1>5

\* A thread that asks nothing yet owns nothing.
LEMMA OwnerStep ==
  ASSUME RconTypes, OwnerInv, [Next]_vars
  PROVE  OwnerInv' /\ RconTypes'
<1> DEFINE Kept == OwnerInv' /\ RconTypes'
<1>1. ASSUME NEW t \in Threads, Write(t) PROVE Kept
  <2> DEFINE n == Len(calls) + 1
  <2>1. /\ calls' \in Seq(Commands) /\ Len(calls') = n /\ n <= MaxCalls /\ Len(calls) \in Nat
        /\ \A c \in 1..Len(calls) : calls'[c] = calls[c]
        /\ calls'[n] = "say" /\ n \in Calls /\ sends[n] = 0
    BY <1>1, NewCallFacts DEF Write, Commands
  <2>2. /\ sends' = [sends EXCEPT ![n] = @ + 1]
        /\ flying' \in {flying, flying \cup {<<n, sends[n] + 1>>}}
        /\ UNCHANGED <<local, nonblocking, buffer>>
    BY <1>1 DEF Write, Transmit
  <2> HIDE DEF n
  <2>3. <<n, sends[n] + 1>> \in Datagrams
    BY <2>1, RetriesAssumption DEF Datagrams
  <2>4. RconTypes'
    <3>1. call \in [Threads -> 0..n] /\ sends' \in [Calls -> 0..MaxRetries]
      BY <2>1, <2>2, RetriesAssumption DEF RconTypes, n
    <3> QED
      BY <2>1, <2>2, <2>3, <3>1 DEF RconTypes, local
  <2>5. \A t1 \in Threads : call[t1] # n /\ (call[t1] # 0 => call[t1] \in 1..Len(calls))
    BY <2>1 DEF RconTypes, n
  <2>6. \A c \in Calls : sends'[c] = IF c = n THEN 1 ELSE sends[c]
    BY <2>1, <2>2 DEF RconTypes
  <2>7. \A t1 \in Threads : call[t1] # 0 => /\ calls'[call[t1]] = calls[call[t1]]
                                             /\ sends'[call[t1]] = sends[call[t1]]
    BY <2>1, <2>5, <2>6, RetriesAssumption DEF Calls, n
  <2>8. Limited'
    <3>1. Attempts("say") \in 1..MaxRetries
      BY AttemptsBound
    <3> QED
      BY <2>1, <2>6, <3>1, RetriesAssumption DEF OwnerInv, Limited, n, Calls
  <2>9. \A c \in Calls : c > Len(calls') => sends'[c] = 0
    BY <2>1, <2>6 DEF OwnerInv, n, Calls
  <2>10. OwnerInv'
    BY <2>2, <2>7, <2>8, <2>9 DEF OwnerInv, local
  <2> QED
    BY <2>4, <2>10
<1>2. ASSUME NEW t \in Threads, NEW cmd \in Commands, pc[t] = "idle", Begin(t, cmd),
             UNCHANGED <<wire, sends>>
      PROVE  Kept
  <2> DEFINE n == Len(calls) + 1
  <2>1. /\ calls' \in Seq(Commands) /\ Len(calls') = n /\ n <= MaxCalls /\ Len(calls) \in Nat
        /\ \A c \in 1..Len(calls) : calls'[c] = calls[c]
        /\ calls'[n] = cmd /\ n \in Calls /\ sends[n] = 0
    BY <1>2, NewCallFacts DEF Begin
  <2>2. /\ pc' = [pc EXCEPT ![t] = "request"] /\ call' = [call EXCEPT ![t] = n]
        /\ tries' = [tries EXCEPT ![t] = 1]
        /\ UNCHANGED <<chunks, waiting, sends, nonblocking, flying, buffer>>
    BY <1>2 DEF Begin, wire
  <2> HIDE DEF n
  <2>3. RconTypes'
    <3>1. /\ call' \in [Threads -> 0..n] /\ tries' \in [Threads -> 0..MaxRetries]
          /\ pc' \in [Threads -> Busy \cup {"idle"}]
      BY <2>1, <2>2, RetriesAssumption DEF RconTypes, n, Busy
    <3> QED
      BY <2>1, <2>2, <3>1 DEF RconTypes
  <2>4. \A t1 \in Threads : call[t1] # n /\ (call[t1] # 0 => call[t1] \in 1..Len(calls))
    BY <2>1 DEF RconTypes, n
  <2>5. \A t1 \in Threads : call[t1] # 0 => calls'[call[t1]] = calls[call[t1]]
    BY <2>1, <2>4
  <2>6. Limited'
    <3>1. Attempts(cmd) \in 1..MaxRetries
      BY AttemptsBound
    <3> QED
      BY <2>1, <2>2, <3>1, RetriesAssumption DEF OwnerInv, Limited, n, Calls
  <2>7. \A c \in Calls : c > Len(calls') => sends'[c] = 0
    BY <2>1, <2>2 DEF OwnerInv, n, Calls
  <2>8. \A t1 \in Threads :
          /\ pc'[t1] = IF t1 = t THEN "request" ELSE pc[t1]
          /\ call'[t1] = IF t1 = t THEN n ELSE call[t1]
          /\ tries'[t1] = IF t1 = t THEN 1 ELSE tries[t1]
    BY <2>2 DEF RconTypes
  <2>9. 1 \in 1..Attempts(cmd) /\ n # 0
    BY <2>1, AttemptsBound DEF n
  <2>10. ASSUME NEW u \in Threads
         PROVE  /\ pc'[u] = "idle" <=> call'[u] = 0
                /\ pc'[u] # "idle" => tries'[u] \in 1..Attempts(calls'[call'[u]])
                /\ pc'[u] \in {"request", "discard"} => sends'[call'[u]] = tries'[u] - 1
                /\ pc'[u] \in {"collect", "recv"} => sends'[call'[u]] = tries'[u]
    <3>1. CASE u = t
      BY <2>1, <2>2, <2>8, <2>9, <3>1
    <3>2. CASE u # t
      BY <2>2, <2>5, <2>8, <3>2 DEF OwnerInv
    <3> QED
      BY <3>1, <3>2
  <2>11. \A u, v \in Threads : call'[u] = call'[v] /\ call'[u] # 0 => u = v
    BY <2>4, <2>8 DEF OwnerInv
  <2>12. OwnerInv'
    BY <2>6, <2>7, <2>10, <2>11 DEF OwnerInv
  <2> QED
    BY <2>3, <2>12
<1>3. ASSUME NEW t \in Threads, NEW cmd \in Commands, Command(t, cmd) PROVE Kept
  BY <1>2, <1>3 DEF Command
<1>4. ASSUME NEW t \in Threads, GetStatus(t) PROVE Kept
  <2>1. CASE UNCHANGED <<calls, local, wire, sends>>
    BY <2>1 DEF OwnerInv, Limited, RconTypes, local, wire
  <2>2. CASE Begin(t, "status")
    BY <1>2, <1>4, <2>2 DEF GetStatus, Commands
  <2> QED
    BY <1>4, <2>1, <2>2 DEF GetStatus
<1>5. ASSUME NEW t \in Threads, Clear(t) \/ Discard(t) \/ Listen(t) \/ Receive(t) PROVE Kept
  <2>1. \A i \in DOMAIN buffer : buffer[i] \in Datagrams
    BY DEF RconTypes
  <2>2. buffer # <<>> => Tail(buffer) \in Seq(Datagrams) /\ Head(buffer) \in Datagrams
    BY HeadTailProperties DEF RconTypes
  <2>3. buffer # <<>> => Append(chunks[t], Head(buffer)) \in Seq(Datagrams)
    BY <2>2, AppendProperties DEF RconTypes
  <2>4. CASE Clear(t)
    <3>1. RconTypes'
      BY <2>1, <2>4 DEF Clear, RconTypes, Busy
    <3> QED
      BY <2>4, <3>1 DEF Clear, RconTypes, OwnerInv, Limited
  <2>5. CASE Discard(t)
    BY <2>2, <2>5 DEF Discard, local, RconTypes, OwnerInv, Limited
  <2>6. CASE Listen(t)
    <3>1. RconTypes'
      BY <2>6 DEF Listen, RconTypes, Busy
    <3> QED
      BY <2>6, <3>1 DEF Listen, RconTypes, OwnerInv, Limited
  <2>7. CASE Receive(t)
    <3>1. RconTypes'
      BY <2>2, <2>3, <2>7 DEF Receive, RconTypes, Busy
    <3> QED
      BY <2>7, <3>1 DEF Receive, RconTypes, OwnerInv, Limited
  <2> QED
    BY <1>5, <2>4, <2>5, <2>6, <2>7
<1>6. ASSUME NEW t \in Threads, Discarded(t) PROVE Kept
  <2> DEFINE n == call[t]
  <2>1. /\ pc[t] = "discard" /\ pc' = [pc EXCEPT ![t] = "collect"]
        /\ sends' = [sends EXCEPT ![n] = @ + 1]
        /\ flying' \in {flying, flying \cup {<<n, sends[n] + 1>>}}
        /\ UNCHANGED <<calls, call, tries, chunks, waiting, nonblocking, buffer>>
    BY <1>6 DEF Discarded, Send, Transmit
  <2>2. /\ n # 0 /\ n \in 0..Len(calls) /\ Len(calls) \in Nat /\ Len(calls) <= MaxCalls
        /\ sends[n] = tries[t] - 1 /\ tries[t] \in 0..MaxRetries
        /\ tries[t] \in 1..Attempts(calls[n]) /\ Attempts(calls[n]) \in 1..MaxRetries
    BY <2>1, AttemptsBound DEF OwnerInv, RconTypes
  <2>2a. n \in 1..Len(calls) /\ n \in Calls /\ sends[n] + 1 = tries[t]
        /\ tries[t] \in 1..MaxRetries /\ tries[t] <= Attempts(calls[n])
    BY <2>2, RetriesAssumption DEF Calls
  <2>3. <<n, sends[n] + 1>> \in Datagrams
    BY <2>2a DEF Datagrams
  <2> HIDE DEF n
  <2>4. RconTypes'
    BY <2>1, <2>2a, <2>3 DEF RconTypes, Busy
  <2>5. \A t1 \in Threads : call[t1] = n => t1 = t
    BY <2>2 DEF OwnerInv, n
  <2>6. \A c \in Calls : sends'[c] = IF c = n THEN tries[t] ELSE sends[c]
    BY <2>1, <2>2a DEF RconTypes
  <2>7. Limited' /\ \A c \in Calls : c > Len(calls') => sends'[c] = 0
    BY <2>1, <2>2, <2>2a, <2>6, RetriesAssumption DEF OwnerInv, Limited, Calls
  <2>8. \A t1 \in Threads \ {t} : call[t1] # 0 => sends'[call[t1]] = sends[call[t1]]
    BY <2>5, <2>6, RetriesAssumption DEF RconTypes, Calls
  <2>9. OwnerInv'
    BY <2>1, <2>2, <2>2a, <2>6, <2>7, <2>8 DEF OwnerInv, RconTypes, n
  <2> QED
    BY <2>4, <2>9
<1>7. ASSUME NEW t \in Threads, Return(t), pc[t] = "recv", nonblocking' \in BOOLEAN PROVE Kept
  <2>1. RconTypes'
    <3>1. <<>> \in Seq(Datagrams) /\ Len(calls) \in Nat /\ 0 \in 0..MaxRetries
      BY RetriesAssumption, EmptySeq DEF RconTypes
    <3>2. /\ chunks' \in [Threads -> Seq(Datagrams)] /\ waiting' \in [Threads -> SUBSET Datagrams]
          /\ tries' \in [Threads -> 0..MaxRetries] /\ call' \in [Threads -> 0..Len(calls)]
          /\ pc' \in [Threads -> Busy \cup {"idle"}]
      BY <1>7, <3>1 DEF Return, RconTypes
    <3> QED
      BY <1>7, <3>2 DEF Return, RconTypes
  <2>2. OwnerInv'
    BY <1>7 DEF Return, RconTypes, OwnerInv, Limited
  <2> QED
    BY <2>1, <2>2
<1>8. ASSUME NEW t \in Threads, Answered(t) PROVE Kept
  BY <1>7, <1>8 DEF Answered, Answer, Quiet
<1>9. ASSUME NEW t \in Threads, Unanswered(t) PROVE Kept
  <2>1. CASE tries[t] < Attempts(calls[call[t]])
    <3>1. /\ pc[t] = "recv" /\ pc' = [pc EXCEPT ![t] = "request"]
          /\ tries' = [tries EXCEPT ![t] = @ + 1] /\ waiting' = [waiting EXCEPT ![t] = {}]
          /\ UNCHANGED <<calls, call, chunks, flying, buffer, sends>>
          /\ nonblocking' \in {FALSE, nonblocking}
      BY <1>9, <2>1 DEF Unanswered, Quiet
    <3>2. /\ tries[t] \in 1..MaxRetries /\ Attempts(calls[call[t]]) \in 1..MaxRetries
          /\ sends[call[t]] = tries[t] /\ call[t] # 0
      BY <3>1, AttemptsBound DEF OwnerInv, RconTypes
    <3>3. tries[t] + 1 \in 1..Attempts(calls[call[t]]) /\ tries[t] + 1 \in 1..MaxRetries
      BY <2>1, <3>2, RetriesAssumption
    <3>4. RconTypes'
      <4>1. nonblocking' \in BOOLEAN
        BY <3>1 DEF RconTypes
      <4> QED
        BY <3>1, <3>3, <4>1 DEF RconTypes, Busy
    <3>5. \A u \in Threads : /\ pc'[u] = IF u = t THEN "request" ELSE pc[u]
                             /\ tries'[u] = IF u = t THEN tries[t] + 1 ELSE tries[u]
      BY <3>1 DEF RconTypes
    <3>6. OwnerInv'
      BY <3>1, <3>2, <3>3, <3>5 DEF OwnerInv, Limited
    <3> QED
      BY <3>4, <3>6
  <2>2. CASE ~(tries[t] < Attempts(calls[call[t]]))
    BY <1>7, <1>9, <2>2 DEF Unanswered, Quiet, RconTypes
  <2> QED
    BY <2>1, <2>2
<1>10. ASSUME NEW d \in Datagrams, Arrive(d) \/ Lose(d) PROVE Kept
  <2>1. Append(buffer, d) \in Seq(Datagrams)
    BY AppendProperties DEF RconTypes
  <2> QED
    BY <1>10, <2>1 DEF Arrive, Lose, RconTypes, OwnerInv, Limited, local
<1>11. CASE Tick \/ UNCHANGED vars
  BY <1>11 DEF Tick, vars, local, wire, RconTypes, OwnerInv, Limited
<1> QED
  BY <1>1, <1>3, <1>4, <1>5, <1>6, <1>8, <1>9, <1>10, <1>11 DEF Next, Ask, Request

-----------------------------------------------------------------------------
(* What is in the socket, and what a request may take from it.                *)

LEMMA WireStep ==
  ASSUME RconTypes, OwnerInv, RconTypes', WireInv, [Next]_vars
  PROVE  WireInv'
<1>1. ASSUME NEW c \in Calls, Transmit(c), sends[c] < MaxRetries,
             UNCHANGED <<chunks, waiting, buffer>>,
             \A t \in Threads : /\ pc'[t] \in Reading => (pc[t] \in Reading \/ Among(buffer) = {})
                                /\ pc'[t] \notin Reading => pc[t] \notin Reading
      PROVE  WireInv'
  <2> USE RetriesAssumption DEF Datagrams
  <2> DEFINE d == <<c, sends[c] + 1>>
  <2>1. /\ sends' = [sends EXCEPT ![c] = @ + 1] /\ flying' \subseteq flying \cup {d}
        /\ UNCHANGED <<chunks, waiting, buffer>>
    BY <1>1 DEF Transmit
  <2>2. d \in Datagrams /\ d[1] = c /\ d[2] = sends[c] + 1 /\ sends[c] \in Nat
    BY <1>1 DEF RconTypes
  <2>3. \A e \in Datagrams : e[1] \in Calls /\ e[2] \in Nat /\ sends[e[1]] \in Nat
    BY DEF RconTypes
  <2>4. \A e \in Datagrams : e[2] <= sends[e[1]] => e[2] <= sends'[e[1]] /\ e # d
    BY <2>1, <2>2, <2>3 DEF RconTypes
  <2>5. d[2] <= sends'[d[1]]
    BY <2>1, <2>2 DEF RconTypes
  <2> HIDE DEF d
  <2>6. d \notin Among(buffer) /\ \A t \in Threads : d \notin waiting[t]
    BY <2>4 DEF WireInv
  <2>8. \A e \in flying' \cup Among(buffer') : e \in Datagrams /\ e[2] <= sends'[e[1]]
    BY <2>1, <2>2, <2>4, <2>5 DEF WireInv
  <2>9. flying' \cap Among(buffer') = {}
    BY <2>1, <2>6 DEF WireInv
  <2>10. ASSUME NEW t \in Threads
         PROVE /\ \A e \in waiting'[t] : e \in Datagrams /\ e[2] <= sends'[e[1]]
               /\ waiting'[t] \cap flying' = {}
               /\ waiting'[t] \cap Among(chunks'[t]) = {}
               /\ pc'[t] \in Reading => waiting'[t] \cap Among(buffer') = {}
               /\ pc'[t] \notin Reading => chunks'[t] = <<>>
    <3>1. \A e \in waiting'[t] : e \in Datagrams /\ e[2] <= sends'[e[1]]
      BY <2>1, <2>4 DEF WireInv
    <3>2. waiting'[t] \cap flying' = {}
      BY <2>1, <2>6 DEF WireInv
    <3>3. waiting'[t] \cap Among(chunks'[t]) = {}
      BY <2>1 DEF WireInv
    <3>4. pc'[t] \in Reading => waiting'[t] \cap Among(buffer') = {}
      <4>1. pc'[t] \in Reading => (pc[t] \in Reading \/ Among(buffer) = {})
        BY <1>1
      <4>2. CASE Among(buffer) = {}
        BY <2>1, <4>2
      <4>3. CASE pc[t] \in Reading
        BY <2>1, <4>3 DEF WireInv
      <4> QED
        BY <4>1, <4>2, <4>3
    <3>5. pc'[t] \notin Reading => chunks'[t] = <<>>
      <4>1. pc'[t] \notin Reading => pc[t] \notin Reading
        BY <1>1
      <4> QED
        BY <2>1, <4>1 DEF WireInv
    <3> QED
      BY <3>1, <3>2, <3>3, <3>4, <3>5
  <2> QED
    BY <2>8, <2>9, <2>10 DEF WireInv
<1>2. ASSUME NEW t \in Threads, Write(t) PROVE WireInv'
  <2>1. /\ Len(calls) + 1 \in Calls /\ sends[Len(calls) + 1] = 0
    BY <1>2, NewCallFacts DEF Write, Commands
  <2> QED
    BY <1>1, <1>2, <2>1, RetriesAssumption DEF Write, local
<1>3. ASSUME NEW t \in Threads, NEW cmd, pc[t] = "idle", Begin(t, cmd),
             UNCHANGED <<wire, sends>>
      PROVE  WireInv'
  BY <1>3 DEF Begin, wire, WireInv, Reading, RconTypes
<1>4. ASSUME NEW t \in Threads, GetStatus(t) PROVE WireInv'
  <2>1. CASE UNCHANGED <<local, wire, sends>>
    BY <2>1 DEF WireInv, local, wire
  <2> QED
    BY <1>3, <1>4, <2>1 DEF GetStatus
<1>5. ASSUME NEW t \in Threads, Clear(t) PROVE WireInv'
  <2>1. waiting' = [waiting EXCEPT ![t] = Among(buffer)] /\ pc[t] = "request"
        /\ pc' = [pc EXCEPT ![t] = "discard"] /\ UNCHANGED <<flying, buffer, chunks, sends>>
    <3>1. DOMAIN buffer = 1..Len(buffer)
      BY DEF RconTypes
    <3> QED
      BY <1>5, <3>1 DEF Clear, Among
  <2>2. chunks[t] = <<>> /\ Among(chunks[t]) = {}
    BY <2>1, AmongEmpty DEF WireInv, Reading
  <2> QED
    BY <2>1, <2>2 DEF WireInv, Reading, RconTypes
<1>6. ASSUME NEW t \in Threads, Discard(t) PROVE WireInv'
  <2>1. Among(buffer') \subseteq Among(buffer)
    BY <1>6, AmongTail DEF Discard, RconTypes
  <2> QED
    BY <1>6, <2>1 DEF Discard, local, WireInv
<1>7. ASSUME NEW t \in Threads, Discarded(t) PROVE WireInv'
  <2>1. /\ call[t] \in Calls /\ sends[call[t]] < MaxRetries
    <3>1. /\ call[t] # 0 /\ call[t] \in 0..Len(calls) /\ Len(calls) \in Nat
          /\ Len(calls) <= MaxCalls /\ sends[call[t]] = tries[t] - 1
          /\ tries[t] \in 0..MaxRetries
      BY <1>7 DEF Discarded, OwnerInv, RconTypes
    <3> QED
      BY <3>1, RetriesAssumption DEF Calls
  <2>2. /\ pc' = [pc EXCEPT ![t] = "collect"] /\ pc[t] = "discard" /\ buffer = <<>>
        /\ Transmit(call[t]) /\ UNCHANGED <<chunks, waiting, buffer>>
    BY <1>7 DEF Discarded, Send
  <2>3. Among(buffer) = {}
    BY <2>2, AmongEmpty
  <2> QED
    BY <1>1, <2>1, <2>2, <2>3 DEF RconTypes, Reading
<1>8. ASSUME NEW t \in Threads, Listen(t) PROVE WireInv'
  BY <1>8 DEF Listen, WireInv, Reading, RconTypes
<1>9. ASSUME NEW t \in Threads, Receive(t) PROVE WireInv'
  <2>1. /\ pc[t] = "recv" /\ buffer # <<>>
        /\ chunks' = [chunks EXCEPT ![t] = Append(@, Head(buffer))]
        /\ buffer' = Tail(buffer) /\ pc' = [pc EXCEPT ![t] = "collect"]
        /\ UNCHANGED <<waiting, flying, sends>>
    BY <1>9 DEF Receive
  <2>2. /\ Among(buffer') \subseteq Among(buffer) /\ Head(buffer) \in Among(buffer)
        /\ Head(buffer) \in Datagrams
    BY <2>1, AmongTail DEF RconTypes
  <2>3. Among(Append(chunks[t], Head(buffer))) = Among(chunks[t]) \cup {Head(buffer)}
    BY <2>2, AmongAppend DEF RconTypes
  <2>4. waiting[t] \cap Among(Append(chunks[t], Head(buffer))) = {}
    BY <2>1, <2>2, <2>3 DEF WireInv, Reading
  <2> QED
    BY <2>1, <2>2, <2>4 DEF WireInv, Reading, RconTypes
<1>10. ASSUME NEW t \in Threads, Return(t) PROVE WireInv'
  BY <1>10, AmongEmpty DEF Return, WireInv, Reading, RconTypes
<1>11. ASSUME NEW t \in Threads, Unanswered(t) PROVE WireInv'
  <2>1. CASE tries[t] < Attempts(calls[call[t]])
    BY <1>11, <2>1, AmongEmpty DEF Unanswered, WireInv, Reading, RconTypes
  <2> QED
    BY <1>10, <1>11, <2>1 DEF Unanswered
<1>12. ASSUME NEW d \in Datagrams, Arrive(d) PROVE WireInv'
  <2>1. Among(buffer') = Among(buffer) \cup {d}
    BY <1>12, AmongAppend DEF Arrive, RconTypes
  <2> QED
    BY <1>12, <2>1 DEF Arrive, local, WireInv
<1>13. ASSUME NEW d \in Datagrams, Lose(d) PROVE WireInv'
  BY <1>13 DEF Lose, local, WireInv
<1>14. CASE Tick \/ UNCHANGED vars
  BY <1>14 DEF Tick, vars, local, wire, WireInv
<1> QED
  BY <1>2, <1>3, <1>4, <1>5, <1>6, <1>7, <1>8, <1>9, <1>10, <1>11, <1>12, <1>13, <1>14
     DEF Next, Ask, Request, Command, Answered, Answer

\* The invariant that the steps keep gives what a request may not take.
LEMMA WireGives == RconTypes /\ WireInv => NothingStale
  <1> SUFFICES ASSUME RconTypes, WireInv, NEW t \in Threads, NEW i \in DOMAIN chunks[t]
               PROVE  chunks[t][i] \notin waiting[t]
    BY DEF NothingStale
  <1>1. i \in 1..Len(chunks[t])
    BY DEF RconTypes
  <1> QED
    BY <1>1 DEF WireInv, Among

LEMMA RconStarts == Init => RconTypes /\ OwnerInv /\ WireInv
<1> SUFFICES ASSUME Init PROVE RconTypes /\ OwnerInv /\ WireInv
  OBVIOUS
<1>1. RconTypes
  <2>1. <<>> \in Seq(Commands) /\ Len(<<>>) = 0 /\ <<>> \in Seq(Datagrams)
    OBVIOUS
  <2>2. calls \in Seq(Commands) /\ Len(calls) = 0 /\ Len(calls) <= MaxCalls
    BY <2>1, RetriesAssumption DEF Init
  <2>3. chunks \in [Threads -> Seq(Datagrams)] /\ buffer \in Seq(Datagrams)
    BY <2>1 DEF Init
  <2>4. pc \in [Threads -> Busy \cup {"idle"}] /\ nonblocking \in BOOLEAN
    BY DEF Init, Busy
  <2>5. flying \subseteq Datagrams /\ waiting \in [Threads -> SUBSET Datagrams]
    BY DEF Init
  <2>6. call \in [Threads -> 0..Len(calls)]
    BY <2>2 DEF Init
  <2>7. tries \in [Threads -> 0..MaxRetries] /\ sends \in [Calls -> 0..MaxRetries]
    BY RetriesAssumption DEF Init
  <2> QED
    BY <2>2, <2>3, <2>4, <2>5, <2>6, <2>7 DEF RconTypes
<1>2. OwnerInv
  <2>1. Len(calls) = 0 /\ Limited
    BY EmptySeq DEF Init, Limited
  <2>2. \A t \in Threads : pc[t] = "idle" /\ call[t] = 0
    BY DEF Init
  <2>3. \A c \in Calls : sends[c] = 0
    BY DEF Init
  <2> QED
    BY <2>1, <2>2, <2>3 DEF OwnerInv
<1>3. WireInv
  BY AmongEmpty DEF Init, WireInv, Reading
<1> QED
  BY <1>1, <1>2, <1>3

\* A command that stops the server from answering is sent once and every other at
\* most max_retries times, and no request takes as its answer a datagram that was
\* waiting when it began, however many threads share the socket and whatever is
\* lost (rcon.py:171-214, 281-297).
THEOREM RconCorrect == Spec => [](NeverRepeated /\ NothingStale)
<1> DEFINE IInv == RconTypes /\ OwnerInv /\ WireInv
<1>1. Init => IInv
  BY RconStarts
<1>2. IInv /\ [Next]_vars => IInv'
  BY OwnerStep, WireStep
<1>3. IInv => NeverRepeated /\ NothingStale
  <2>1. RconTypes /\ Limited => NeverRepeated
    <3> SUFFICES ASSUME RconTypes, Limited, NEW c \in 1..Len(calls)
                 PROVE  sends[c] <= MaxRetries /\ (calls[c] \in NoRetry => sends[c] <= 1)
      BY DEF NeverRepeated
    <3>1. sends[c] <= Attempts(calls[c]) /\ sends[c] \in 0..MaxRetries
      BY RetriesAssumption DEF Limited, RconTypes, Calls
    <3> QED
      BY <3>1, RetriesAssumption DEF Attempts
  <2> QED
    BY <2>1, WireGives DEF OwnerInv
<1> QED
  BY <1>1, <1>2, <1>3, PTL DEF Spec

-----------------------------------------------------------------------------
(* What the cache of the status holds.                                        *)

\* The cached reply is dated when it was asked for, and the clock does not run backwards.
CacheInv ==
    /\ now \in 0..MaxTime
    /\ born \in [Calls -> 0..now]
    /\ cache \in [at : 0..now, by : 0..Len(calls)]
    /\ cache.by # 0 => cache.at = born[cache.by]
    /\ shown \in 0..now
    /\ StatusIsRecent

LEMMA CacheStep ==
  ASSUME RconTypes, OwnerInv, CacheInv, [Next]_vars
  PROVE  CacheInv'
<1> USE RetriesAssumption, TimeAssumption
<1>0. Len(calls) \in Nat /\ Len(calls) <= MaxCalls
  BY DEF RconTypes
<1>1. ASSUME NEW cmd \in Commands, NewCall(cmd), UNCHANGED <<now, cache, shown>> PROVE CacheInv'
  <2> DEFINE n == Len(calls) + 1
  <2>1. Len(calls') = n /\ n \in Calls /\ n <= MaxCalls
    BY <1>1, NewCallFacts
  <2>2. born' = [born EXCEPT ![n] = now]
    BY <1>1 DEF NewCall
  <2>3. cache.by # n /\ cache \in [at : 0..now, by : 0..n]
    BY <1>0 DEF CacheInv
  <2> HIDE DEF n
  <2>4. born' \in [Calls -> 0..now]
    BY <2>1, <2>2 DEF CacheInv
  <2>5. cache.by # 0 => cache.at = born'[cache.by]
    BY <1>0, <2>2, <2>3 DEF CacheInv, Calls
  <2> QED
    BY <1>1, <2>1, <2>3, <2>4, <2>5 DEF CacheInv, StatusIsRecent
<1>2. ASSUME UNCHANGED <<calls, born, cache, shown, now>> PROVE CacheInv'
  BY <1>2 DEF CacheInv, StatusIsRecent
<1>2a. ASSUME UNCHANGED <<calls, born, cache, shown>>, now' \in 0..MaxTime, now' >= now
      PROVE  CacheInv'
  <2>1. 0..now \subseteq 0..now' /\ now \in Nat
    BY <1>2a DEF CacheInv
  <2>2. /\ born' \in [Calls -> 0..now'] /\ shown' \in 0..now'
        /\ cache' \in [at : 0..now', by : 0..Len(calls')]
    BY <1>2a, <2>1 DEF CacheInv
  <2> QED
    BY <1>2a, <2>2 DEF CacheInv, StatusIsRecent
<1>3. ASSUME NEW t \in Threads, Write(t) PROVE CacheInv'
  BY <1>1, <1>3 DEF Write, Commands
<1>4. ASSUME NEW t \in Threads, NEW cmd \in Commands, Command(t, cmd) PROVE CacheInv'
  BY <1>1, <1>4 DEF Command, Begin
<1>5. ASSUME NEW t \in Threads, GetStatus(t) PROVE CacheInv'
  <2>1. CASE IsFresh
    <3>1. shown' = now - born[cache.by] /\ UNCHANGED <<calls, born, now, cache>>
      BY <1>5, <2>1 DEF GetStatus
    <3>2. cache.by \in Calls /\ cache.at = born[cache.by] /\ now - cache.at < TTL
      BY <1>0, <2>1 DEF CacheInv, IsFresh, Calls
    <3> QED
      BY <3>1, <3>2 DEF CacheInv, StatusIsRecent
  <2>2. CASE ~IsFresh
    BY <1>1, <1>5, <2>2 DEF GetStatus, Begin, Commands
  <2> QED
    BY <2>1, <2>2
<1>6. ASSUME NEW t \in Threads, Clear(t) \/ Discard(t) \/ Discarded(t) \/ Listen(t) \/ Receive(t)
      PROVE  CacheInv'
  BY <1>2, <1>6 DEF Clear, Discard, Discarded, Send, Listen, Receive
<1>7. ASSUME NEW t \in Threads, Unanswered(t) PROVE CacheInv'
  BY <1>2, <1>7 DEF Unanswered, Return
<1>8. ASSUME NEW t \in Threads, Answered(t) PROVE CacheInv'
  <2>1. pc[t] = "recv" /\ UNCHANGED <<calls, now, born, shown>>
    BY <1>8 DEF Answered, Quiet, Answer, Return
  <2>2. call[t] # 0 /\ call[t] \in 0..Len(calls)
    BY <2>1 DEF OwnerInv, RconTypes
  <2>3. CASE UNCHANGED cache
    BY <1>2, <2>1, <2>3
  <2>4. CASE Cached(t)
    <3>1. call[t] \in Calls /\ born[call[t]] \in 0..now
      BY <1>0, <2>2 DEF Calls, CacheInv
    <3>2. cache' = [at |-> born[call[t]], by |-> call[t]]
      BY <2>4 DEF Cached
    <3>3. cache' \in [at : 0..now', by : 0..Len(calls')] /\ cache'.at = born'[cache'.by]
      BY <2>1, <2>2, <3>1, <3>2
    <3> QED
      BY <2>1, <3>3 DEF CacheInv, StatusIsRecent
  <2> QED
    BY <1>8, <2>3, <2>4 DEF Answered, Answer
<1>9. ASSUME NEW d \in Datagrams, Arrive(d) \/ Lose(d) PROVE CacheInv'
  BY <1>2, <1>9 DEF Arrive, Lose
<1>10. CASE Tick \/ UNCHANGED vars
  <2>1. ASSUME Tick PROVE now' \in 0..MaxTime /\ now' >= now
    BY <2>1 DEF Tick, CacheInv
  <2> QED
    BY <1>2, <1>2a, <1>10, <2>1 DEF Tick, vars
<1> QED
  BY <1>3, <1>4, <1>5, <1>6, <1>7, <1>8, <1>9, <1>10 DEF Next, Ask, Request

LEMMA CacheStarts == Init => CacheInv
<1> SUFFICES ASSUME Init PROVE CacheInv
  OBVIOUS
<1>1. calls = <<>> /\ Len(calls) = 0
  BY EmptySeq DEF Init
<1> QED
  BY <1>1, TimeAssumption DEF Init, CacheInv, StatusIsRecent

-----------------------------------------------------------------------------
(* The connection of the Source engine: the password is refused once.         *)

\* After a refusal the connection is closed, nothing is left to be read from it, and
\* no other is opened.
RefusedInv ==
    /\ {up, right, open, refused} \subseteq BOOLEAN
    /\ denials = IF refused THEN 1 ELSE 0
    /\ refused => ~open /\ stream = <<>>

LEMMA RefusedStep ==
  ASSUME RefusedInv, Source!Next
  PROVE  RefusedInv'
<1>1. ASSUME NEW ok \in BOOLEAN, Source!Opens(ok), UNCHANGED <<up, right>> PROVE RefusedInv'
  <2>1. stream' = <<>> /\ open' \in BOOLEAN /\ refused' \in BOOLEAN
    BY <1>1 DEF Source!Opens
  <2>2. refused' => ~open'
    BY <1>1 DEF Source!Opens
  <2>3. CASE up /\ ~right /\ ~refused
    <3>1. denials' = denials + 1 /\ refused'
      BY <1>1, <2>3 DEF Source!Opens
    <3>2. denials = 0
      BY <2>3 DEF RefusedInv
    <3> QED
      BY <1>1, <2>1, <2>2, <3>1, <3>2 DEF RefusedInv
  <2>4. CASE ~(up /\ ~right /\ ~refused)
    <3>1. denials' = denials
      BY <1>1, <2>4 DEF Source!Opens
    <3>2. refused' = refused
      BY Zenon, <1>1, <2>4 DEF Source!Opens, RefusedInv
    <3> QED
      BY <1>1, <2>1, <2>2, <3>1, <3>2 DEF RefusedInv
  <2> QED
    BY <1>1, <2>1, <2>2, <2>3, <2>4 DEF RefusedInv
<1>2. CASE Source!Answers \/ Source!HangsUp \/ Source!Changes
  <2>1. UNCHANGED <<refused, denials>>
    BY <1>2 DEF Source!Answers, Source!HangsUp, Source!Changes, Source!srClient
  <2>2. refused => ~open' /\ stream' = <<>>
    BY <1>2 DEF Source!Answers, Source!HangsUp, Source!Changes, RefusedInv
  <2>3. {up', right', open'} \subseteq BOOLEAN
    <3>1. up' \in BOOLEAN
      BY <1>2 DEF Source!Answers, Source!HangsUp, Source!Changes, RefusedInv
    <3>2. right' \in BOOLEAN
      BY <1>2 DEF Source!Answers, Source!HangsUp, Source!Changes, RefusedInv
    <3>3. open' \in BOOLEAN
      BY <1>2 DEF Source!Answers, Source!HangsUp, Source!Changes, RefusedInv
    <3> QED
      BY <3>1, <3>2, <3>3
  <2> QED
    BY <2>1, <2>2, <2>3 DEF RefusedInv
<1>3. CASE Source!Command \/ Source!Write \/ Source!TriesAgain
  <2>1. /\ UNCHANGED <<up, right>>
        /\ \/ \E ok \in BOOLEAN : Source!Opens(ok)
           \/ UNCHANGED <<open, stream, refused, denials>>
    BY <1>3 DEF Source!Command, Source!Write, Source!TriesAgain
  <2> QED
    BY <1>1, <2>1 DEF RefusedInv
<1>4. CASE Source!Receive
  <2>1. ~refused /\ denials = 0
    BY <1>4 DEF Source!Receive, RefusedInv
  <2>2. /\ UNCHANGED <<up, right>>
        /\ \/ refused' = TRUE /\ open' = FALSE /\ stream' = <<>> /\ denials' = denials + 1
           \/ UNCHANGED <<open, refused, denials>>
    BY <1>4 DEF Source!Receive
  <2>3. CASE UNCHANGED <<open, refused, denials>>
    BY <2>1, <2>2, <2>3 DEF RefusedInv
  <2>4. CASE refused' = TRUE /\ open' = FALSE /\ stream' = <<>> /\ denials' = denials + 1
    <3>1. denials' = 1
      BY <2>1, <2>4
    <3> QED
      BY <2>2, <2>4, <3>1 DEF RefusedInv
  <2> QED
    BY <2>2, <2>3, <2>4
<1>5. CASE Source!EndsEarly \/ Source!GivesUp
  BY <1>5 DEF Source!EndsEarly, Source!GivesUp, Source!srServer, RefusedInv
<1> QED
  BY <1>2, <1>3, <1>4, <1>5 DEF Source!Next

-----------------------------------------------------------------------------
(* The packets of one reply among those of others.                            *)

Packets == {"part", "rest", "end", "refused"} \X Nat

\* The place of a packet in the reply it belongs to.
Rank(m) == IF m[1] = "part" THEN 1 ELSE IF m[1] = "rest" THEN 2 ELSE 3

Whole(n) == <<<<"part", n>>, <<"rest", n>>, <<"end", n>>>>

\* The first k packets of the reply to request n.
SoFar(n, k) ==
    IF k = 0 THEN <<>> ELSE IF k = 1 THEN <<<<"part", n>>>> ELSE <<<<"part", n>>, <<"rest", n>>>>

\* The packet at i is one of request n's, and the next of them after the first k or after the
\* one before it.
Follows(seq, n, k, i) ==
    /\ seq[i] \in {<<"part", n>>, <<"rest", n>>, <<"end", n>>}
    /\ Rank(seq[i]) > k
    /\ \/ Rank(seq[i]) = k + 1
       \/ i > 1 /\ seq[i - 1][2] = n /\ Rank(seq[i - 1]) + 1 = Rank(seq[i])

\* Of the reply to request n all but the first k packets are in the sequence, up to
\* some point, in order.
InOrder(seq, n, k) ==
    /\ \A i \in 1..Len(seq) : seq[i][2] = n => Follows(seq, n, k, i)
    /\ \A i, j \in 1..Len(seq) :
         i < j /\ seq[i][2] = n /\ seq[j][2] = n => Rank(seq[i]) < Rank(seq[j])

\* No packet belongs to a later request.
UpTo(seq, n) == \A i \in 1..Len(seq) : seq[i][2] <= n

LEMMA PacketsTail ==
  ASSUME NEW seq \in Seq(Packets), seq # <<>>, NEW n \in Nat, NEW k \in Nat, InOrder(seq, n, k)
  PROVE  /\ Head(seq)[2] # n => InOrder(Tail(seq), n, k)
         /\ Head(seq)[2] = n => /\ Head(seq) \in {<<"part", n>>, <<"rest", n>>, <<"end", n>>}
                                /\ Rank(Head(seq)) = k + 1
                                /\ InOrder(Tail(seq), n, k + 1)
<1> DEFINE t == Tail(seq)
<1>1. /\ Head(seq) = seq[1] /\ Len(seq) \in Nat \ {0} /\ 1 \in 1..Len(seq)
      /\ t \in Seq(Packets) /\ Len(t) = Len(seq) - 1
      /\ \A i \in 1..Len(t) : t[i] = seq[i + 1]
  BY HeadTailProperties, EmptySeq
<1>2. \A i \in 1..Len(t) : i + 1 \in 1..Len(seq) /\ t[i] = seq[i + 1]
  BY <1>1
<1>3. \A m : Rank(m) \in 1..3
  BY DEF Rank
<1>3a. \A i, j \in 1..Len(t) : i < j => i + 1 < j + 1
  BY <1>1
<1> HIDE DEF t
<1>4. CASE Head(seq)[2] # n
  <2>1. ASSUME NEW i \in 1..Len(t), t[i][2] = n PROVE Follows(t, n, k, i)
    <3>1. Follows(seq, n, k, i + 1) /\ t[i] = seq[i + 1]
      BY <1>2, <1>3a, <2>1 DEF InOrder
    <3>2. CASE i = 1
      BY <1>1, <1>4, <3>1, <3>2 DEF Follows
    <3>3. CASE i > 1
      <4>1. t[i - 1] = seq[i]
        BY <1>1, <3>3
      <4> QED
        BY <1>1, <3>1, <3>3, <4>1 DEF Follows
    <3> QED
      BY <1>1, <3>2, <3>3
  <2>2. InOrder(t, n, k)
    BY <1>2, <1>3a, <2>1 DEF InOrder
  <2> QED
    BY <1>4, <2>2 DEF t
<1>5. CASE Head(seq)[2] = n
  <2>1. Follows(seq, n, k, 1)
    BY <1>1, <1>5 DEF InOrder
  <2>2. Rank(seq[1]) = k + 1 /\ seq[1] \in {<<"part", n>>, <<"rest", n>>, <<"end", n>>}
    BY <2>1 DEF Follows
  <2>3. ASSUME NEW i \in 1..Len(t), t[i][2] = n PROVE Follows(t, n, k + 1, i)
    <3>1. Follows(seq, n, k, i + 1) /\ t[i] = seq[i + 1]
      BY <1>2, <1>3a, <2>3 DEF InOrder
    <3>2. Rank(seq[1]) < Rank(seq[i + 1])
      BY <1>1, <1>2, <1>5, <2>3 DEF InOrder
    <3>3. Rank(seq[i + 1]) > k + 1 /\ seq[i][2] = n /\ Rank(seq[i]) + 1 = Rank(seq[i + 1])
      BY <1>3, <2>2, <3>1, <3>2 DEF Follows
    <3>4. CASE i = 1
      BY <2>2, <3>1, <3>3, <3>4 DEF Follows
    <3>5. CASE i > 1
      <4>1. t[i - 1] = seq[i]
        BY <1>1, <3>5
      <4> QED
        BY <3>1, <3>3, <3>5, <4>1 DEF Follows
    <3> QED
      BY <1>1, <3>4, <3>5
  <2>4. InOrder(t, n, k + 1)
    BY <1>2, <1>3a, <2>3 DEF InOrder
  <2> QED
    BY <1>1, <1>5, <2>2, <2>4 DEF t
<1> QED
  BY <1>4, <1>5

LEMMA PacketsOfTwo ==
  ASSUME NEW s \in Seq(Packets), NEW t \in Seq(Packets)
  PROVE  /\ s \o t \in Seq(Packets) /\ Len(s \o t) = Len(s) + Len(t)
         /\ Len(s) \in Nat /\ Len(t) \in Nat
         /\ \A i \in 1..Len(s) : (s \o t)[i] = s[i]
         /\ \A k \in 1..Len(t) : (s \o t)[Len(s) + k] = t[k]
<1>1. Len(s) \in Nat /\ Len(t) \in Nat /\ s \o t \in Seq(Packets) /\ Len(s \o t) = Len(s) + Len(t)
  BY ConcatProperties
<1>2. \A i \in 1..Len(s) + Len(t) : (s \o t)[i] = IF i <= Len(s) THEN s[i] ELSE t[i - Len(s)]
  BY ConcatProperties
<1>3. ASSUME NEW k \in 1..Len(t) PROVE (s \o t)[Len(s) + k] = t[k]
  <2>1. Len(s) + k \in 1..Len(s) + Len(t) /\ ~(Len(s) + k <= Len(s)) /\ (Len(s) + k) - Len(s) = k
    BY <1>1
  <2> QED
    BY <1>2, <2>1
<1>4. ASSUME NEW i \in 1..Len(s) PROVE (s \o t)[i] = s[i]
  <2>1. i \in 1..Len(s) + Len(t) /\ i <= Len(s)
    BY <1>1
  <2> QED
    BY <1>2, <2>1
<1> QED
  BY <1>1, <1>3, <1>4

LEMMA PacketsFromAHead ==
  ASSUME NEW s \in Seq(Packets), NEW t \in Seq(Packets), s # <<>>
  PROVE  /\ s \o t # <<>> /\ Head(s \o t) = Head(s) /\ Tail(s \o t) = Tail(s) \o t
         /\ Head(s) \in Packets /\ Tail(s) \in Seq(Packets)
<1> DEFINE h == <<Head(s)>>
           r == Tail(s) \o t
<1>1. /\ Head(s) \in Packets /\ Tail(s) \in Seq(Packets) /\ s = h \o Tail(s)
      /\ h \in Seq(Packets)
  BY HeadTailProperties, HeadTailAppend
<1>2. s \o t = h \o r /\ r \in Seq(Packets)
  BY <1>1, ConcatAssociative, PacketsOfTwo
<1> HIDE DEF r
<1>3. /\ h \o r \in Seq(Packets) /\ Len(h \o r) = 1 + Len(r) /\ Len(r) \in Nat
      /\ (h \o r)[1] = Head(s) /\ \A k \in 1..Len(r) : (h \o r)[1 + k] = r[k]
  <2>1. Len(h) = 1 /\ h[1] = Head(s) /\ 1 \in 1..Len(h)
    OBVIOUS
  <2> HIDE DEF h
  <2> QED
    BY <1>1, <1>2, <2>1, PacketsOfTwo
<1>4. h \o r # <<>>
  BY <1>3, EmptySeq
<1>5. /\ Head(h \o r) = Head(s) /\ Tail(h \o r) \in Seq(Packets) /\ Len(Tail(h \o r)) = Len(r)
      /\ \A k \in 1..Len(Tail(h \o r)) : Tail(h \o r)[k] = (h \o r)[k + 1]
  BY <1>3, <1>4, HeadTailProperties
<1>6. \A k \in 1..Len(r) : Tail(h \o r)[k] = r[k]
  <2> SUFFICES ASSUME NEW k \in 1..Len(r) PROVE Tail(h \o r)[k] = r[k]
    OBVIOUS
  <2>1. k + 1 = 1 + k
    OBVIOUS
  <2> QED
    BY <1>3, <1>5, <2>1
<1>7. Tail(h \o r) = r
  BY <1>2, <1>5, <1>6, SeqEqual
<1> QED
  BY <1>1, <1>2, <1>4, <1>5, <1>7 DEF r

LEMMA PairAppended ==
  ASSUME NEW a, NEW b PROVE Append(<<a>>, b) = <<a, b>>
<1> DEFINE S == {a, b}
           t == <<a, b>>
           u == Append(<<a>>, b)
<1>1. <<a>> \in Seq(S) /\ Len(<<a>>) = 1 /\ <<a>>[1] = a /\ b \in S
  OBVIOUS
<1>2. t \in Seq(S) /\ Len(t) = 2 /\ t[1] = a /\ t[2] = b
  OBVIOUS
<1> HIDE DEF S, t
<1>3. u \in Seq(S) /\ Len(u) = 2 /\ u[1] = a /\ u[2] = b
  BY <1>1, AppendProperties
<1> HIDE DEF u
<1>4. \A i \in 1..Len(u) : u[i] = t[i]
  <2>1. \A i \in 1..2 : i = 1 \/ i = 2
    OBVIOUS
  <2> QED
    BY <1>2, <1>3, <2>1
<1> QED
  BY <1>2, <1>3, <1>4, SeqEqual DEF t, u

LEMMA PacketsUpToMore ==
  ASSUME NEW s \in Seq(Packets), NEW n \in Nat, UpTo(s, n)
  PROVE  UpTo(s, n + 1)
<1>1. \A i \in 1..Len(s) : s[i] \in Packets
  OBVIOUS
<1>2. \A i \in 1..Len(s) : s[i][2] \in Nat /\ s[i][2] <= n
  BY <1>1 DEF UpTo, Packets
<1>3. \A x \in Nat : x <= n => x <= n + 1
  OBVIOUS
<1> QED
  BY <1>2, <1>3 DEF UpTo

LEMMA PacketsTailUpTo ==
  ASSUME NEW s \in Seq(Packets), s # <<>>, NEW n \in Nat, UpTo(s, n)
  PROVE  UpTo(Tail(s), n)
<1>1. Len(s) \in Nat /\ Len(Tail(s)) = Len(s) - 1 /\ \A i \in 1..Len(Tail(s)) : Tail(s)[i] = s[i + 1]
  BY HeadTailProperties
<1>2. \A i \in 1..Len(Tail(s)) : i + 1 \in 1..Len(s)
  BY <1>1
<1> QED
  BY <1>1, <1>2 DEF UpTo

\* What a lost connection leaves is the beginning of what there was, or nothing.
LEMMA PacketsCutShort ==
  ASSUME NEW s \in Seq(Packets), NEW t \in Seq(Packets), NEW n \in Nat
  PROVE  /\ \A k \in Nat : InOrder(s \o t, n, k) => InOrder(s, n, k)
         /\ UpTo(s \o t, n) => UpTo(s, n)
         /\ \A k \in Nat : InOrder(<<>>, n, k)
         /\ UpTo(<<>>, n)
<1>1. /\ Len(s) \in Nat /\ Len(t) \in Nat /\ Len(s \o t) = Len(s) + Len(t)
      /\ \A i \in 1..Len(s) : (s \o t)[i] = s[i]
  BY PacketsOfTwo
<1>2. \A i \in 1..Len(s) : i \in 1..Len(s \o t)
  BY <1>1
<1>3. ASSUME NEW k \in Nat, InOrder(s \o t, n, k) PROVE InOrder(s, n, k)
  <2>1. ASSUME NEW i \in 1..Len(s), s[i][2] = n PROVE Follows(s, n, k, i)
    <3>1. Follows(s \o t, n, k, i) /\ (s \o t)[i] = s[i]
      BY <1>1, <1>2, <1>3, <2>1 DEF InOrder
    <3>2. i > 1 => (s \o t)[i - 1] = s[i - 1]
      BY <1>1
    <3> QED
      BY <3>1, <3>2 DEF Follows
  <2> QED
    BY <1>1, <1>2, <1>3, <2>1 DEF InOrder
<1>4. UpTo(s \o t, n) => UpTo(s, n)
  BY <1>1, <1>2 DEF UpTo
<1>5. UpTo(<<>>, n) /\ \A k \in Nat : InOrder(<<>>, n, k)
  BY DEF UpTo, InOrder
<1> QED
  BY <1>3, <1>4, <1>5

\* The reply to a new request behind everything that was still to come.
LEMMA PacketsOfANewReply ==
  ASSUME NEW s \in Seq(Packets), NEW n \in Nat, UpTo(s, n)
  PROVE  /\ Whole(n + 1) \in Seq(Packets) /\ <<<<"refused", 0>>>> \in Seq(Packets)
         /\ <<<<"part", n + 1>>>> \in Seq(Packets)
         /\ InOrder(s \o Whole(n + 1), n + 1, 0) /\ UpTo(s \o Whole(n + 1), n + 1)
         /\ UpTo(s \o <<<<"part", n + 1>>>>, n + 1)
         /\ InOrder(s \o <<<<"refused", 0>>>>, n + 1, 0) /\ UpTo(s \o <<<<"refused", 0>>>>, n + 1)
<1> DEFINE w == Whole(n + 1)
           r == <<<<"refused", 0>>>>
           p == <<<<"part", n + 1>>>>
<1>1. /\ w \in Seq(Packets) /\ Len(w) = 3
      /\ w[1] = <<"part", n + 1>> /\ w[2] = <<"rest", n + 1>> /\ w[3] = <<"end", n + 1>>
  BY DEF Whole, Packets
<1>2. r \in Seq(Packets) /\ Len(r) = 1 /\ r[1] = <<"refused", 0>>
  BY DEF Packets
<1>3. p \in Seq(Packets) /\ Len(p) = 1 /\ p[1] = <<"part", n + 1>>
  BY DEF Packets
<1> HIDE DEF w, r, p
<1>4. \A i \in 1..Len(s) : s[i][2] \in Nat /\ s[i][2] <= n
  BY DEF UpTo, Packets
<1> DEFINE L == Len(s)
<1>5. L \in Nat
  OBVIOUS
<1>6. /\ Len(s \o w) = L + 3 /\ \A i \in 1..L : (s \o w)[i] = s[i]
      /\ (s \o w)[L + 1] = w[1] /\ (s \o w)[L + 2] = w[2] /\ (s \o w)[L + 3] = w[3]
  <2>1. /\ Len(s \o w) = L + Len(w) /\ \A i \in 1..L : (s \o w)[i] = s[i]
        /\ \A k \in 1..Len(w) : (s \o w)[L + k] = w[k]
    BY <1>1, PacketsOfTwo
  <2>2. 1 \in 1..3 /\ 2 \in 1..3 /\ 3 \in 1..3
    OBVIOUS
  <2> HIDE DEF L
  <2> QED
    BY <1>1, <2>1, <2>2
<1>7. /\ Len(s \o r) = L + 1 /\ \A i \in 1..L : (s \o r)[i] = s[i]
      /\ (s \o r)[L + 1] = r[1]
  <2>1. /\ Len(s \o r) = L + Len(r) /\ \A i \in 1..L : (s \o r)[i] = s[i]
        /\ \A k \in 1..Len(r) : (s \o r)[L + k] = r[k]
    BY <1>2, PacketsOfTwo
  <2>2. 1 \in 1..1
    OBVIOUS
  <2> HIDE DEF L
  <2> QED
    BY <1>2, <2>1, <2>2
<1>8. /\ Len(s \o p) = L + 1 /\ \A i \in 1..L : (s \o p)[i] = s[i]
      /\ (s \o p)[L + 1] = p[1]
  <2>1. /\ Len(s \o p) = L + Len(p) /\ \A i \in 1..L : (s \o p)[i] = s[i]
        /\ \A k \in 1..Len(p) : (s \o p)[L + k] = p[k]
    BY <1>3, PacketsOfTwo
  <2>2. 1 \in 1..1
    OBVIOUS
  <2> HIDE DEF L
  <2> QED
    BY <1>3, <2>1, <2>2
<1> HIDE DEF L
<1>9. \A i \in 1..(L + 3) : i \in 1..L \/ i = L + 1 \/ i = L + 2 \/ i = L + 3
  BY <1>5
<1>10. \A i \in 1..(L + 1) : i \in 1..L \/ i = L + 1
  BY <1>5
<1>11. UpTo(s \o w, n + 1) /\ UpTo(s \o r, n + 1) /\ UpTo(s \o p, n + 1)
  <2>1. UpTo(s \o w, n + 1)
    BY <1>1, <1>4, <1>6, <1>9 DEF UpTo, L
  <2>2. UpTo(s \o r, n + 1)
    BY <1>2, <1>4, <1>7, <1>10 DEF UpTo, L
  <2>3. UpTo(s \o p, n + 1)
    BY <1>3, <1>4, <1>8, <1>10 DEF UpTo, L
  <2> QED
    BY <2>1, <2>2, <2>3
<1>12. InOrder(s \o r, n + 1, 0)
  <2>1. \A i \in 1..(L + 1) : (s \o r)[i][2] # n + 1
    BY <1>2, <1>4, <1>7, <1>10 DEF L
  <2> QED
    BY <1>7, <2>1 DEF InOrder
<1>13. InOrder(s \o w, n + 1, 0)
  <2>1. \A i \in 1..L : (s \o w)[i][2] # n + 1
    BY <1>4, <1>6 DEF L
  <2>2. /\ Rank(w[1]) = 1 /\ Rank(w[2]) = 2 /\ Rank(w[3]) = 3
        /\ w[1][2] = n + 1 /\ w[2][2] = n + 1 /\ w[3][2] = n + 1
    BY <1>1 DEF Rank
  <2>3. /\ Follows(s \o w, n + 1, 0, L + 1) /\ Follows(s \o w, n + 1, 0, L + 2)
        /\ Follows(s \o w, n + 1, 0, L + 3)
    <3>1. L + 2 > 1 /\ L + 3 > 1 /\ (L + 2) - 1 = L + 1 /\ (L + 3) - 1 = L + 2
      BY <1>5
    <3>2. Follows(s \o w, n + 1, 0, L + 1)
      BY <1>1, <1>6, <2>2 DEF Follows
    <3>3. Follows(s \o w, n + 1, 0, L + 2)
      <4>1. (s \o w)[L + 2] = w[2] /\ (s \o w)[(L + 2) - 1] = w[1]
        BY <1>6, <3>1
      <4> QED
        BY ONLY <1>1, <2>2, <3>1, <4>1 DEF Follows
    <3>4. Follows(s \o w, n + 1, 0, L + 3)
      <4>1. (s \o w)[L + 3] = w[3] /\ (s \o w)[(L + 3) - 1] = w[2]
        BY <1>6, <3>1
      <4> QED
        BY ONLY <1>1, <2>2, <3>1, <4>1 DEF Follows
    <3> QED
      BY <3>2, <3>3, <3>4
  <2>4. \A i \in 1..(L + 3) : (s \o w)[i][2] = n + 1 => i \in {L + 1, L + 2, L + 3}
    BY <1>9, <2>1
  <2>5. \A k \in {1, 2, 3} : Rank((s \o w)[L + k]) = k
    BY <1>6, <2>2
  <2>6. ASSUME NEW i \in 1..Len(s \o w), NEW j \in 1..Len(s \o w), i < j,
               (s \o w)[i][2] = n + 1, (s \o w)[j][2] = n + 1
        PROVE  Rank((s \o w)[i]) < Rank((s \o w)[j])
    <3>1. PICK k \in {1, 2, 3}, l \in {1, 2, 3} : i = L + k /\ j = L + l
      BY <1>6, <2>4, <2>6
    <3>2. Rank((s \o w)[i]) = k /\ Rank((s \o w)[j]) = l
      BY <2>5, <3>1
    <3>3. k < l
      BY ONLY <1>5, <2>6, <3>1
    <3> QED
      BY <3>2, <3>3
  <2>7. \A i \in 1..Len(s \o w) : (s \o w)[i][2] = n + 1 => Follows(s \o w, n + 1, 0, i)
    BY <1>6, <2>3, <2>4
  <2> QED
    BY <2>6, <2>7 DEF InOrder
<1> QED
  BY <1>1, <1>2, <1>3, <1>11, <1>12, <1>13 DEF w, r, p

-----------------------------------------------------------------------------
(* The connection of the Source engine: a reply is that of its own command.   *)

\* All that the client can still read from this connection.
Coming == stream \o owed

\* No packet is of a request to come, and what is still to come of the reply that is
\* awaited goes on where the packets that were read end.
ReplyInv ==
    /\ stream \in Seq(Packets) /\ owed \in Seq(Packets)
    /\ id \in Nat /\ mine \in 0..id
    /\ UpTo(Coming, id)
    /\ mine # 0 => \E k \in 0..2 : parts = SoFar(mine, k) /\ InOrder(Coming, mine, k)
    /\ Source!OwnReply

\* Nothing is read, and what is to come stays or is cut short.
LEMMA ComingStays ==
  ASSUME ReplyInv, stream' \in Seq(Packets), owed' \in Seq(Packets),
         Coming' \in {Coming, stream, <<>>}, UNCHANGED <<id, mine, parts, answer>>
  PROVE  ReplyInv'
<1>1. UpTo(Coming', id)
  BY PacketsCutShort DEF ReplyInv, Coming
<1>2. ASSUME NEW k \in 0..2, mine # 0, InOrder(Coming, mine, k) PROVE InOrder(Coming', mine, k)
  <2>1. mine \in Nat /\ k \in Nat
    BY DEF ReplyInv
  <2>2. InOrder(stream, mine, k) /\ InOrder(<<>>, mine, k)
    BY <1>2, <2>1, PacketsCutShort DEF ReplyInv, Coming
  <2> QED
    BY <1>2, <2>2
<1>3. UpTo(Coming, id)'
  BY <1>1
<1>4. mine' # 0 => \E k \in 0..2 : parts' = SoFar(mine', k) /\ InOrder(Coming', mine', k)
  BY <1>2 DEF ReplyInv
<1> QED
  BY <1>3, <1>4 DEF ReplyInv, Source!OwnReply

\* A request goes out on a connection where nothing of a later one is to come.
LEMMA ComingGrows ==
  ASSUME ReplyInv, NEW pending \in Seq(Packets), NEW c, stream' \in Seq(Packets),
         UpTo(stream' \o pending, id), Source!Sends(pending, c), UNCHANGED answer
  PROVE  ReplyInv'
<1> DEFINE n == id + 1
           r == Source!Reply(n)
<1>1. /\ id' = n /\ mine' = n /\ parts' = <<>> /\ n \in Nat /\ n # 0 /\ id \in Nat
      /\ owed' = IF open' THEN pending \o r ELSE <<>>
  BY DEF Source!Sends, ReplyInv
<1>2. stream' \o pending \in Seq(Packets)
  BY PacketsOfTwo
<1>3. /\ r \in Seq(Packets)
      /\ InOrder((stream' \o pending) \o r, n, 0) /\ UpTo((stream' \o pending) \o r, n)
  <2>1. r = IF right THEN Whole(n) ELSE <<<<"refused", 0>>>>
    BY DEF Source!Reply, Whole
  <2> QED
    BY <1>1, <1>2, <2>1, PacketsOfANewReply
<1> HIDE DEF n, r
<1>4. CASE open'
  <2>1. owed' = pending \o r /\ owed' \in Seq(Packets)
    BY <1>1, <1>3, <1>4, PacketsOfTwo
  <2>2. Coming' = (stream' \o pending) \o r
    BY <1>3, <2>1, ConcatAssociative DEF Coming
  <2> QED
    BY <1>1, <1>3, <2>1, <2>2 DEF ReplyInv, SoFar, Source!OwnReply
<1>5. CASE ~open'
  <2>1. owed' = <<>> /\ owed' \in Seq(Packets)
    BY <1>1, <1>5
  <2>2. Coming' = stream'
    BY <2>1, ConcatEmptySeq DEF Coming
  <2>3. InOrder(stream' \o pending, n, 0) /\ UpTo(stream' \o pending, n)
    BY <1>1, <1>2, <1>3, PacketsCutShort
  <2>4. InOrder(stream', n, 0) /\ UpTo(stream', n)
    BY <1>1, <2>3, PacketsCutShort
  <2> QED
    BY <1>1, <2>1, <2>2, <2>4 DEF ReplyInv, SoFar, Source!OwnReply
<1> QED
  BY <1>4, <1>5

LEMMA ReplyStep ==
  ASSUME ReplyInv, Source!Next
  PROVE  ReplyInv'
<1> USE DEF Coming
<1>0. /\ stream \in Seq(Packets) /\ owed \in Seq(Packets) /\ Coming \in Seq(Packets)
      /\ id \in Nat /\ UpTo(Coming, id) /\ <<>> \in Seq(Packets)
  BY PacketsOfTwo DEF ReplyInv
<1>1. CASE Source!Answers
  <2>1. /\ owed # <<>> /\ stream' = Append(stream, Head(owed)) /\ owed' = Tail(owed)
        /\ UNCHANGED <<id, mine, parts, answer>>
    BY <1>1 DEF Source!Answers, Source!srClient
  <2>2. /\ stream' = stream \o <<Head(owed)>> /\ owed = <<Head(owed)>> \o owed'
        /\ Head(owed) \in Packets /\ owed' \in Seq(Packets) /\ <<Head(owed)>> \in Seq(Packets)
    BY <1>0, <2>1, HeadTailProperties, AppendIsConcat, HeadTailAppend
  <2>3. (stream \o <<Head(owed)>>) \o owed' = stream \o (<<Head(owed)>> \o owed')
    BY <1>0, <2>2, ConcatAssociative
  <2>4. stream' \in Seq(Packets)
    BY <1>0, <2>2, PacketsOfTwo
  <2>5. Coming' = Coming
    BY <2>2, <2>3
  <2> QED
    BY <2>1, <2>2, <2>4, <2>5, ComingStays
<1>2. CASE Source!HangsUp
  <2>1. owed' = <<>> /\ stream' \in {stream, <<>>} /\ UNCHANGED <<id, mine, parts, answer>>
    BY <1>2 DEF Source!HangsUp, Source!srClient
  <2>2. Coming' = stream'
    BY <1>0, <2>1, ConcatEmptySeq
  <2> QED
    BY <1>0, <2>1, <2>2, ComingStays
<1>3. CASE Source!Changes
  <2>1. owed' \in {owed, <<>>} /\ stream' = stream /\ UNCHANGED <<id, mine, parts, answer>>
    BY <1>3 DEF Source!Changes, Source!srClient
  <2>2. Coming' \in {Coming, stream}
    BY <1>0, <2>1, ConcatEmptySeq
  <2> QED
    BY <1>0, <2>1, <2>2, ComingStays
<1>4. ASSUME owed' \in Seq(Packets), stream' \in Seq(Packets), id' \in {id, id + 1},
             UpTo(Coming', id'), mine' = 0, Source!OwnReply'
      PROVE  ReplyInv'
  BY <1>0, <1>4 DEF ReplyInv
<1>5. CASE Source!Command \/ Source!TriesAgain
  <2>1. UNCHANGED answer
    BY <1>5 DEF Source!Command, Source!TriesAgain
  <2>2. CASE UNCHANGED stream /\ Source!Sends(owed, 0)
    BY <1>0, <2>1, <2>2, ComingGrows
  <2>3. ASSUME NEW c, stream' = <<>>, Source!Sends(<<>>, c) PROVE ReplyInv'
    <3>1. UpTo(stream' \o <<>>, id)
      BY <1>0, <2>3, ConcatEmptySeq, PacketsCutShort
    <3> QED
      BY <1>0, <2>1, <2>3, <3>1, ComingGrows
  <2>4. CASE stream' = <<>> /\ owed' = <<>> /\ Source!Raises /\ UNCHANGED id
    <3>1. UpTo(Coming', id')
      BY <1>0, <2>4, ConcatEmptySeq, PacketsCutShort
    <3> QED
      BY <1>0, <1>4, <2>1, <2>4, <3>1 DEF Source!Raises, ReplyInv, Source!OwnReply
  <2> QED
    BY <1>5, <2>2, <2>3, <2>4 DEF Source!Command, Source!TriesAgain, Source!Opens
<1>6. CASE Source!Write
  <2>1. mine = 0 /\ UNCHANGED <<mine, answer>>
    BY <1>6 DEF Source!Write, Source!Idle
  <2> DEFINE left == IF authed THEN owed ELSE <<>>
             reply == IF right THEN <<<<"part", id + 1>>>> ELSE <<<<"refused", 0>>>>
  <2>2. /\ stream' = IF authed THEN stream ELSE <<>>
        /\ \/ owed' = <<>> /\ id' \in {id, id + 1}
           \/ owed' = left \o reply /\ id' = id + 1
    <3>1. CASE authed
      BY <1>6, <3>1 DEF Source!Write
    <3>2. CASE ~authed
      BY <1>6, <3>2 DEF Source!Write, Source!Opens
    <3> QED
      BY <3>1, <3>2
  <2>3. stream' \in Seq(Packets) /\ left \in Seq(Packets) /\ UpTo(stream' \o left, id)
    <3>1. CASE authed
      BY <1>0, <2>2, <3>1
    <3>2. CASE ~authed
      BY <1>0, <2>2, <3>2, ConcatEmptySeq, PacketsCutShort
    <3> QED
      BY <3>1, <3>2
  <2>4. /\ reply \in Seq(Packets)
        /\ UpTo((stream' \o left) \o reply, id + 1)
    BY <1>0, <2>3, PacketsOfTwo, PacketsOfANewReply
  <2> HIDE DEF left, reply
  <2>5. UpTo(stream', id) /\ UpTo(stream', id + 1)
    <3>1. UpTo(stream', id)
      BY <1>0, <2>3, PacketsCutShort
    <3> QED
      BY <1>0, <2>3, <3>1, PacketsUpToMore
  <2>6. CASE owed' = <<>> /\ id' \in {id, id + 1}
    <3>1. Coming' = stream'
      BY <2>3, <2>6, ConcatEmptySeq
    <3> QED
      BY <1>0, <1>4, <2>1, <2>3, <2>5, <2>6, <3>1 DEF ReplyInv, Source!OwnReply
  <2>7. CASE owed' = left \o reply /\ id' = id + 1
    <3>1. Coming' = (stream' \o left) \o reply
      <4>1. (stream' \o left) \o reply = stream' \o (left \o reply)
        BY <2>3, <2>4, ConcatAssociative
      <4> QED
        BY <2>7, <4>1
    <3>2. owed' \in Seq(Packets)
      BY <2>3, <2>4, <2>7, PacketsOfTwo
    <3> QED
      BY <1>4, <2>1, <2>3, <2>4, <2>7, <3>1, <3>2 DEF ReplyInv, Source!OwnReply
  <2> QED
    BY <2>2, <2>6, <2>7
<1>7. CASE Source!Receive
  <2> DEFINE m == Head(stream)
  <2>1. mine # 0 /\ stream # <<>> /\ id' = id
    BY <1>7 DEF Source!Receive, Source!Idle
  <2>2. /\ Coming # <<>> /\ Head(Coming) = m /\ Tail(Coming) = Tail(stream) \o owed
        /\ m \in Packets /\ Tail(stream) \in Seq(Packets)
    BY <1>0, <2>1, PacketsFromAHead
  <2>3. PICK k \in 0..2 : parts = SoFar(mine, k) /\ InOrder(Coming, mine, k)
    BY <2>1 DEF ReplyInv
  <2>4. mine \in Nat /\ k \in Nat /\ SoFar(mine, k) \in {SoFar(mine, l) : l \in 0..2}
    BY <1>0, <2>3 DEF ReplyInv
  <2>5. UpTo(Tail(stream) \o owed, id)
    BY <1>0, <2>2, PacketsTailUpTo
  <2>6. /\ m[2] # mine => InOrder(Tail(stream) \o owed, mine, k)
        /\ m[2] = mine => /\ m \in {<<"part", mine>>, <<"rest", mine>>, <<"end", mine>>}
                          /\ Rank(m) = k + 1
                          /\ InOrder(Tail(stream) \o owed, mine, k + 1)
    <3> DEFINE w == Coming
    <3>1. /\ w \in Seq(Packets) /\ w # <<>> /\ InOrder(w, mine, k)
          /\ Head(w) = m /\ Tail(w) = Tail(stream) \o owed
      BY <1>0, <2>2, <2>3
    <3> HIDE DEF w, m
    <3>2. /\ m[2] # mine => InOrder(Tail(w), mine, k)
          /\ m[2] = mine => /\ m \in {<<"part", mine>>, <<"rest", mine>>, <<"end", mine>>}
                            /\ Rank(m) = k + 1
                            /\ InOrder(Tail(w), mine, k + 1)
      BY <2>4, <3>1, PacketsTail
    <3> QED
      BY <3>1, <3>2
  <2> HIDE DEF m
  <2>7. CASE m[1] = "refused"
    <3>1. Source!Raises /\ stream' = <<>> /\ owed' = <<>> /\ UNCHANGED answer
      BY <1>7, <2>7 DEF Source!Receive, Source!IsMine, m
    <3>2. Coming' = <<>> /\ UpTo(Coming', id')
      BY <1>0, <2>1, <3>1, ConcatEmptySeq, PacketsCutShort
    <3> QED
      BY <1>0, <1>4, <2>1, <3>1, <3>2 DEF ReplyInv, Source!Raises, Source!OwnReply
  <2>8. CASE m[1] # "refused" /\ Source!IsMine(m)
    <3>1. /\ parts' = Append(parts, m) /\ stream' = Tail(stream)
          /\ UNCHANGED <<owed, mine, answer>>
      BY <1>7, <2>8 DEF Source!Receive, Source!IsMine, m
    <3>2. m[2] = mine /\ m[1] \in {"part", "rest"}
      BY <2>8 DEF Source!IsMine
    <3>3. k + 1 \in 0..2 /\ parts' = SoFar(mine, k + 1)
      <4>1. \/ m = <<"part", mine>> /\ Rank(m) = 1
            \/ m = <<"rest", mine>> /\ Rank(m) = 2
        BY <2>6, <3>2 DEF Rank
      <4>1a. Rank(m) = k + 1 /\ k \in Nat
        BY <2>4, <2>6, <3>2
      <4>1b. (Rank(m) = 1 => k = 0) /\ (Rank(m) = 2 => k = 1)
        BY ONLY <4>1a
      <4>2. \/ k = 0 /\ m = <<"part", mine>>
            \/ k = 1 /\ m = <<"rest", mine>>
        BY ONLY <4>1, <4>1b
      <4>3. CASE k = 0 /\ m = <<"part", mine>>
        BY <2>3, <3>1, <4>3 DEF SoFar
      <4>4. CASE k = 1 /\ m = <<"rest", mine>>
        <5>1. parts = <<<<"part", mine>>>> /\ parts' = <<<<"part", mine>>, <<"rest", mine>>>>
          <6>1. parts = <<<<"part", mine>>>> /\ parts' = Append(parts, <<"rest", mine>>)
            BY <2>3, <3>1, <4>4 DEF SoFar
          <6> QED
            BY <6>1, PairAppended
        <5> QED
          BY <4>4, <5>1 DEF SoFar
      <4> QED
        BY <4>2, <4>3, <4>4
    <3> QED
      BY <1>0, <2>1, <2>2, <2>5, <2>6, <3>1, <3>2, <3>3 DEF ReplyInv, Source!OwnReply
  <2>9. CASE m[1] # "refused" /\ ~Source!IsMine(m) /\ m = <<"end", mine>>
    <3>1. Source!Returns /\ stream' = Tail(stream) /\ UNCHANGED owed
      BY <1>7, <2>9 DEF Source!Receive, m
    <3>2. Source!OwnReply'
      BY <2>3, <3>1 DEF Source!Returns, Source!OwnReply, SoFar
    <3> QED
      BY <1>0, <1>4, <2>1, <2>2, <2>5, <3>1, <3>2 DEF Source!Returns, Source!Raises
  <2>10. CASE m[1] # "refused" /\ ~Source!IsMine(m) /\ m # <<"end", mine>>
    <3>1. /\ stream' = Tail(stream) /\ UNCHANGED <<owed, mine, parts, answer>>
      BY <1>7, <2>10 DEF Source!Receive, m
    <3>2. m[2] # mine
      BY <2>6, <2>10 DEF Source!IsMine
    <3> QED
      BY <1>0, <2>1, <2>2, <2>3, <2>5, <2>6, <3>1, <3>2 DEF ReplyInv, Source!OwnReply
  <2> QED
    BY <2>7, <2>8, <2>9, <2>10
<1>8. CASE Source!EndsEarly \/ Source!GivesUp
  <2>1. /\ mine # 0 /\ mine' = 0 /\ UNCHANGED <<stream, owed, id>>
        /\ \/ Source!Returns
           \/ UNCHANGED answer
    BY <1>8 DEF Source!EndsEarly, Source!GivesUp, Source!Idle, Source!Returns, Source!Raises,
                Source!srServer
  <2>2. Source!OwnReply'
    <3>1. PICK k \in 0..2 : parts = SoFar(mine, k)
      BY <2>1 DEF ReplyInv
    <3> QED
      BY <2>1, <3>1 DEF ReplyInv, Source!Returns, Source!OwnReply, SoFar
  <2> QED
    BY <1>0, <1>4, <2>1, <2>2
<1> QED
  BY <1>1, <1>2, <1>3, <1>5, <1>6, <1>7, <1>8 DEF Source!Next

-----------------------------------------------------------------------------
(* The state of the Source client.                                            *)

\* An attempt is under way as long as a reply is awaited, and only the second can be the second
\* time that the server carries a command out.
SourceTypes ==
    /\ attempt \in 0..2 /\ (mine = 0 <=> attempt = 0)
    /\ sent \in 0..MaxCommands /\ faults \in 0..MaxFaults
    /\ done \in 0..2 /\ (attempt = 1 => done \in 0..1)
    /\ authed \in BOOLEAN
    /\ open => up
    /\ authed => ~refused

LEMMA SourceTypesStep ==
  ASSUME RefusedInv, ReplyInv, SourceTypes, Source!Next
  PROVE  SourceTypes'
<1> USE BoundsAssumption
<1>0. /\ id \in Nat /\ {up, right, open, refused, authed} \subseteq BOOLEAN
      /\ MaxCommands \in Nat /\ MaxFaults \in Nat
  BY DEF ReplyInv, RefusedInv, SourceTypes
<1>1. ASSUME NEW ok \in BOOLEAN, Source!Opens(ok), UNCHANGED up
      PROVE  authed' \in BOOLEAN /\ (open' => up') /\ (authed' => ~refused')
  <2>1. open' = (up /\ right /\ ~refused) /\ authed' = open' /\ refused' = (refused \/ (up /\ ~right))
    BY Zenon, <1>1 DEF Source!Opens
  <2>2. (open' <=> up /\ right /\ ~refused) /\ (authed' <=> open')
        /\ (refused' <=> refused \/ (up /\ ~right))
    BY Zenon, <2>1
  <2>3. authed' \in BOOLEAN
    BY <2>1
  <2> QED
    BY Zenon, <1>1, <2>2, <2>3
<1>2. ASSUME NEW pending, NEW c \in 0..1, Source!Sends(pending, c)
      PROVE  mine' # 0 /\ done' \in {c, c + 1}
  BY <1>0, <1>2 DEF Source!Sends
<1>3. CASE Source!Answers
  BY <1>3 DEF Source!Answers, Source!srClient, SourceTypes
<1>4. CASE Source!HangsUp
  <2>1. faults' \in 0..MaxFaults
    BY <1>0, <1>4 DEF Source!HangsUp, Source!Fault, SourceTypes
  <2> QED
    BY <1>4, <2>1 DEF Source!HangsUp, Source!srClient, SourceTypes
<1>5. CASE Source!Changes
  <2>1. faults' \in 0..MaxFaults
    BY <1>0, <1>5 DEF Source!Changes, Source!Fault, SourceTypes
  <2>2. open' => up'
    BY Zenon, <1>5 DEF Source!Changes
  <2> QED
    BY <1>5, <2>1, <2>2 DEF Source!Changes, Source!srClient, SourceTypes
<1>6. CASE Source!Command \/ Source!Write
  <2>0. sent < MaxCommands /\ sent' = sent + 1 /\ UNCHANGED <<up, faults>>
    BY <1>6 DEF Source!Command, Source!Write
  <2>1. sent' \in 0..MaxCommands /\ UNCHANGED <<up, faults>>
    BY <1>0, <2>0 DEF SourceTypes
  <2>2. authed' \in BOOLEAN /\ (open' => up') /\ (authed' => ~refused')
    <3>1. \/ UNCHANGED <<open, authed, refused>>
          \/ \E ok \in BOOLEAN : Source!Opens(ok)
      BY <1>6 DEF Source!Command, Source!Write
    <3> QED
      BY <1>1, <2>1, <3>1 DEF SourceTypes
  <2>3. /\ attempt' \in 0..2 /\ (mine' = 0 <=> attempt' = 0)
        /\ done' \in 0..2 /\ (attempt' = 1 => done' \in 0..1)
    <3>1. CASE Source!Write
      BY <3>1 DEF Source!Write, SourceTypes
    <3>2. CASE Source!Command
      <4>1. \/ \E pending : Source!Sends(pending, 0) /\ attempt' = 1
            \/ Source!Raises /\ done' = 0
        BY <3>2 DEF Source!Command
      <4> QED
        BY <1>2, <4>1 DEF Source!Raises
    <3> QED
      BY <1>6, <3>1, <3>2
  <2> QED
    BY <2>1, <2>2, <2>3 DEF SourceTypes
<1>7. CASE Source!TriesAgain
  <2>1. UNCHANGED <<up, faults, sent>> /\ attempt = 1 /\ done \in 0..1
    BY <1>7 DEF Source!TriesAgain, SourceTypes
  <2>2. \E ok \in BOOLEAN : Source!Opens(ok)
    BY <1>7 DEF Source!TriesAgain
  <2>3. authed' \in BOOLEAN /\ (open' => up') /\ (authed' => ~refused')
    BY <1>1, <2>1, <2>2
  <2>4. \/ Source!Sends(<<>>, done) /\ attempt' = 2
        \/ Source!Raises /\ done' = done
    BY <1>7 DEF Source!TriesAgain
  <2> QED
    BY <1>2, <2>1, <2>3, <2>4 DEF Source!Raises, SourceTypes
<1>8. CASE Source!Receive
  <2>1. /\ UNCHANGED <<up, faults, sent, done>>
        /\ \/ Source!Raises /\ refused' = TRUE /\ authed' = FALSE /\ open' = FALSE
           \/ Source!Raises /\ UNCHANGED <<open, authed, refused>>
           \/ UNCHANGED <<open, authed, refused, mine, attempt>>
    BY <1>8 DEF Source!Receive, Source!Returns
  <2>2. /\ attempt' \in 0..2 /\ (mine' = 0 <=> attempt' = 0)
        /\ attempt' = 1 => done' \in 0..1
    BY <2>1 DEF Source!Raises, SourceTypes
  <2>3. authed' \in BOOLEAN
    BY <2>1 DEF SourceTypes
  <2>4. (open' => up') /\ (authed' => ~refused')
    <3>1. CASE UNCHANGED <<open, authed, refused>>
      BY <2>1, <3>1 DEF SourceTypes
    <3>2. CASE authed' = FALSE /\ open' = FALSE
      BY <3>2
    <3> QED
      BY <2>1, <3>1, <3>2
  <2> QED
    BY <2>1, <2>2, <2>3, <2>4 DEF SourceTypes
<1>9. CASE Source!EndsEarly \/ Source!GivesUp
  <2>1. /\ UNCHANGED <<up, open, faults, sent, done, refused>>
        /\ authed' = open /\ Source!Raises
    BY <1>9 DEF Source!EndsEarly, Source!GivesUp, Source!Returns, Source!srServer
  <2> QED
    BY <1>0, <2>1 DEF Source!Raises, SourceTypes, RefusedInv
<1> QED
  BY <1>3, <1>4, <1>5, <1>6, <1>7, <1>8, <1>9 DEF Source!Next

LEMMA SourceTyped == ASSUME ReplyInv, SourceTypes PROVE Source!TypeOK
<1>1. (mine = 0) = (attempt = 0)
  BY DEF SourceTypes
<1> QED
  BY <1>1 DEF ReplyInv, SourceTypes, Source!TypeOK

-----------------------------------------------------------------------------
(* The rosters.  A client is about somebody: what it says of them stays true   *)
(* as long as no line that would tell is lost, and where lines are lost one     *)
(* that introduces the player, or a roll call, makes it true again.            *)

\* No slot is nowhere, and nobody is nameless.
LEMMA RollFacts == Roll!Nowhere \notin Slots /\ MaxLost \in Nat /\ Roll!NoGuid \notin People
  BY NobodyAssumption, BoundsAssumption DEF Roll!Nowhere, Roll!NoGuid

Cids == Slots \cup Names \cup People
Client == [cid : Cids, guid : People \cup {Roll!NoGuid}, name : Names \cup People,
           team : Roll!Sides \cup {Roll!NoTeam}, bot : BOOLEAN]
Keyed == {"source", "altitude", "ravaged", "frostbite", "battleye"}

\* The server: nobody shares a slot or a name, and AI players are where there are any.
Places ==
    /\ game \in Titles
    /\ seat \in [People -> Slots \cup {Roll!Nowhere}]
    /\ nick \in [People -> Names \cup People \cup {Roll!NoName}]
    /\ side \in [People -> Roll!Sides \cup {Roll!NoTeam}]
    /\ \A p \in Roll!Here : nick[p] \in Names \cup People
    /\ \A p, q \in Roll!Here : p # q => seat[p] # seat[q] /\ nick[p] # nick[q]
    /\ game = "frostbite" => \A p \in Roll!Here : nick[p] = p
    /\ game \notin {"source", "altitude"} => Roll!Here \cap Bots = {}

\* What a lost line leaves behind, by title; nobody is in the slot of a line that is trailing.
Counts ==
    /\ unheard \subseteq People /\ astray \in BOOLEAN /\ claimed \in BOOLEAN /\ lost \in 0..MaxLost
    /\ game # "frontline" /\ lost = 0 => ~astray
    /\ game \in Keyed /\ lost = 0 => unheard = {}
    /\ game = "altitude" /\ ~astray => lost = 0
    /\ \A l \in trailing : game = "source" /\ l.side = Roll!NoTeam
                           /\ \A p \in Roll!Here : seat[p] # l.slot

\* A client as the title keeps it.
Titled(c) ==
    /\ c \in Client
    /\ game = "ravaged" => c.guid = c.cid
    /\ game = "frostbite" => c.guid \in {Roll!NoGuid, c.cid}
    /\ game = "homefront" => c.guid \in People
    /\ game \notin {"source", "altitude"} => ~c.bot

\* A client that may be taken for the player: the identity is theirs or not known yet, with the
\* exceptions of Frontline and BattlEye, and while no line was lost it is known what is an AI player.
Good(c, p) ==
    /\ \/ c.guid \in {Roll!NoGuid, p}
       \/ game = "frontline"
       \/ game = "battleye" /\ (lost > 0 \/ claimed)
    /\ lost = 0 => (c.bot <=> p \in Bots)
    /\ game = "battleye" /\ lost = 0 => c.name = nick[p]

\* A slot or name has one client, and whoever was introduced finds there one that is Good.
OneEach == \A c, d \in clients : c.cid = d.cid => c = d
Own == \A p \in Roll!Here \ unheard : \A c \in Roll!InSlot(Roll!Cid(Roll!Line(p))) : Good(c, p)

\* Once nothing is missing the list is the players, and on Homefront, which looks for identities,
\* each client has that of a player and the name they had when they were last stated.
Present == game # "homefront" /\ ~astray =>
  {c.cid : c \in clients} = {Roll!Cid(Roll!Line(p)) : p \in Roll!Here}

Homefront ==
    game = "homefront" =>
        /\ \A c, d \in clients : c.guid = d.guid => c = d
        /\ ~astray =>
              /\ \A c \in clients : c.guid \in Roll!Here
                                    /\ (c.guid \in unheard \/ c.cid = nick[c.guid])
              /\ \A p \in Roll!Here \ unheard : \E c \in clients : c.guid = p

Lines == [who : People, slot : Slots, name : Names \cup People,
          side : Roll!Sides \cup {Roll!NoTeam, Roll!Untold}]

\* A line that may be believed about the client it means.
Suits(l) ==
    /\ l \in Lines
    /\ game \notin {"source", "altitude"} => l.who \notin Bots
    /\ game = "frostbite" => l.name = l.who
    /\ \A c \in Roll!InSlot(Roll!Cid(l)) :
          lost = 0 => /\ c.bot <=> l.who \in Bots
                      /\ game = "battleye" /\ ~claimed => c.guid \in {Roll!NoGuid, l.who}

\* A client as a line tells it.
About(c, l) ==
    /\ Titled(c)
    /\ c.cid = Roll!Cid(l) /\ c.name = l.name
    /\ \/ c.guid \in {Roll!NoGuid, l.who}
       \/ game = "battleye" /\ (lost > 0 \/ claimed)
    /\ lost = 0 => (c.bot <=> l.who \in Bots)

LEMMA TheIn == ASSUME NEW S, S # {} PROVE Roll!The(S) \in S
  BY DEF Roll!The

LEMMA TheOne == ASSUME NEW x PROVE Roll!The({x}) = x
  BY DEF Roll!The

LEMMA CidOf ==
  ASSUME NEW l \in Lines
  PROVE  /\ Roll!Cid(l) \in Cids
         /\ game = "ravaged" => Roll!Cid(l) = l.who
         /\ game \in {"homefront", "frostbite"} => Roll!Cid(l) = l.name
         /\ game \notin {"ravaged", "homefront", "frostbite"} => Roll!Cid(l) = l.slot
  BY DEF Roll!Cid, Lines, Cids

LEMMA FreshFields ==
  ASSUME NEW l \in Lines
  PROVE  /\ Roll!Fresh(l) \in Client /\ Roll!Fresh(l).cid = Roll!Cid(l)
         /\ Roll!Fresh(l).name = l.name
         /\ Roll!Fresh(l).team = Roll!NoTeam /\ (Roll!Fresh(l).bot <=> l.who \in Bots)
         /\ Roll!Fresh(l).guid = IF game \in {"battleye", "frostbite"} \/ l.who \in Bots
                                  THEN Roll!NoGuid ELSE l.who
<1> DEFINE d == Roll!Fresh(l)
           b == d.bot
<1>1. b = (l.who \in Bots)
  BY Zenon DEF Roll!Fresh
<1>2. /\ d.cid = Roll!Cid(l) /\ d.name = l.name /\ d.team = Roll!NoTeam
      /\ d.guid
         = IF game \in {"battleye", "frostbite"} \/ l.who \in Bots THEN Roll!NoGuid ELSE l.who
      /\ d = [cid |-> d.cid, guid |-> d.guid, name |-> d.name, team |-> d.team, bot |-> b]
  BY DEF Roll!Fresh, Roll!Guid
<1> HIDE DEF b
<1>3. b \in BOOLEAN
  BY Z3, <1>1
<1>4. b <=> l.who \in Bots
  BY Zenon, <1>1
<1> HIDE DEF d
<1>5. d \in Client
  BY <1>2, <1>3, CidOf DEF Client, Lines
<1> QED
  BY <1>2, <1>4, <1>5 DEF b, d

LEMMA FreshFacts ==
  ASSUME NEW l, Suits(l), game # "frontline"
  PROVE  About(Roll!Fresh(l), l)
<1> DEFINE d == Roll!Fresh(l)
<1>0. l \in Lines
  BY DEF Suits
<1>1. /\ d \in Client /\ d.cid = Roll!Cid(l) /\ d.name = l.name /\ (d.bot <=> l.who \in Bots)
      /\ d.guid
         = IF game \in {"battleye", "frostbite"} \/ l.who \in Bots THEN Roll!NoGuid ELSE l.who
  BY <1>0, FreshFields
<1> HIDE DEF d
<1>2. Titled(d)
  BY <1>0, <1>1, CidOf DEF Suits, Titled, Lines
<1>3. d.guid \in {Roll!NoGuid, l.who}
  BY <1>1
<1>4. About(d, l)
  BY Zenon, <1>1, <1>2, <1>3 DEF About
<1> QED
  BY <1>4 DEF d

\* A client that a line renames.
LEMMA RenamedFacts ==
  ASSUME NEW l, Suits(l), NEW c \in clients, Titled(c), Counts,
         c \in Roll!InSlot(Roll!Cid(l)) \/ game = "homefront",
         \/ c.guid \in {Roll!NoGuid, l.who}
         \/ game \in {"ravaged", "frostbite", "battleye"}
  PROVE  LET d == [c EXCEPT !.cid = Roll!Cid(l), !.name = l.name]
         IN About(d, l) /\ d.team = c.team
<1> DEFINE d == [c EXCEPT !.cid = Roll!Cid(l), !.name = l.name]
<1>1. /\ d \in Client /\ d.cid = Roll!Cid(l) /\ d.guid = c.guid /\ d.name = l.name
      /\ d.team = c.team
      /\ d.bot = c.bot
  BY CidOf DEF Suits, Titled, Client, Lines
<1> HIDE DEF d
<1>0. l \in Lines /\ lost \in Nat
  BY RollFacts DEF Suits, Counts
<1>2. c.cid = Roll!Cid(l) \/ game = "homefront"
  BY DEF Roll!InSlot
<1>3. Titled(d)
  BY <1>1, <1>2 DEF Titled
<1>4. \/ d.guid \in {Roll!NoGuid, l.who}
      \/ game = "battleye" /\ (lost > 0 \/ claimed)
  <2>1. CASE game = "battleye"
    <3>1. CASE lost = 0 /\ ~claimed
      BY Zenon, <1>1, <2>1, <3>1 DEF Suits
    <3>2. lost # 0 => lost > 0
      BY <1>0
    <3> QED
      BY <2>1, <3>1, <3>2
  <2>2. CASE game # "battleye"
    <3>1. game = "ravaged" => c.guid = l.who
      BY <1>0, <1>2, CidOf DEF Titled
    <3>2. game = "frostbite" => c.guid \in {Roll!NoGuid, l.who}
      BY <1>0, <1>2, CidOf DEF Titled, Suits
    <3> QED
      <4>1. c.guid \in {Roll!NoGuid, l.who}
        BY <2>2, <3>1, <3>2
      <4> QED
        BY <1>1, <4>1
  <2> QED
    BY <2>1, <2>2
<1>5. lost = 0 => (d.bot <=> l.who \in Bots)
  BY <1>1 DEF Suits, Titled
<1>6. About(d, l) /\ d.team = c.team
  BY <1>1, <1>3, <1>4, <1>5 DEF About
<1> QED
  BY <1>6 DEF d

LEMMA KnownFacts ==
  ASSUME NEW l, Suits(l), NEW S \in SUBSET clients, Counts, \A c \in clients : Titled(c),
         game # "frontline",
         S \subseteq Roll!InSlot(Roll!Cid(l)) \/ game = "homefront",
         \A c \in S : \/ c.guid \in {Roll!NoGuid, l.who}
                     \/ game \in {"ravaged", "frostbite", "battleye"}
  PROVE  About(Roll!Known(S, l), l)
<1>1. CASE S = {}
  BY <1>1, FreshFacts DEF Roll!Known
<1>2. CASE S # {}
  <2> DEFINE c == Roll!The(S)
  <2>1. c \in S
    BY <1>2, TheIn
  <2> HIDE DEF c
  <2>2. About([c EXCEPT !.cid = Roll!Cid(l), !.name = l.name], l)
    BY <2>1, RenamedFacts
  <2> QED
    BY <1>2, <2>2 DEF Roll!Known, c
<1> QED
  BY <1>1, <1>2

LEMMA Retold ==
  ASSUME NEW l, Suits(l), NEW c, About(c, l), NEW d \in Client,
         d.cid = c.cid, d.name = c.name, d.bot = c.bot,
         \/ d.guid \in {c.guid, l.who}
         \/ d.guid = Roll!NoGuid /\ game \notin {"ravaged", "homefront"}
  PROVE  About(d, l)
<1>0. l \in Lines /\ Roll!Cid(l) \in Cids /\ (game = "ravaged" => Roll!Cid(l) = l.who)
      /\ (game = "frostbite" => Roll!Cid(l) = l.name)
  BY CidOf DEF Suits
<1>1. Titled(d)
  <2>1. game = "homefront" => d.guid \in People
    BY <1>0 DEF About, Titled, Lines
  <2>2. game = "ravaged" => d.guid = d.cid
    BY <1>0 DEF About, Titled
  <2>3. game = "frostbite" => d.guid \in {Roll!NoGuid, d.cid}
    BY <1>0 DEF About, Titled, Suits
  <2>4. game \notin {"source", "altitude"} => ~d.bot
    BY DEF About, Titled
  <2> QED
    BY <2>1, <2>2, <2>3, <2>4 DEF Titled
<1>2. \/ d.guid \in {Roll!NoGuid, l.who}
      \/ game = "battleye" /\ (lost > 0 \/ claimed)
  BY Zenon DEF About
<1>3. d.cid = Roll!Cid(l) /\ d.name = l.name /\ (lost = 0 => (d.bot <=> l.who \in Bots))
  BY DEF About
<1> QED
  BY Zenon, <1>1, <1>2, <1>3 DEF About

\* The titles that make a client of a line.
Makes == {"source", "ravaged", "homefront", "frostbite", "battleye"}

\* What is kept of the clients.
ClientsOf == Counts /\ (\A c \in clients : Titled(c)) /\ OneEach /\ Own

LEMMA EnsuredAbout ==
  ASSUME NEW l, Suits(l), ClientsOf, game \in Makes
  PROVE  /\ About(Roll!Ensured(l), l)
         /\ game \in {"source", "ravaged"} /\ l.side \in Roll!Sides => Roll!Ensured(l).team = l.side
<1>0. l \in Lines /\ Counts /\ \A c \in clients : Titled(c)
  BY DEF Suits, ClientsOf
<1>1. CASE game = "source"
  <2> DEFINE S == {c \in Roll!InSlot(l.slot) : c.guid \in {Roll!NoGuid, l.who}}
             k == Roll!Known(S, l)
             g == IF k.guid = Roll!NoGuid THEN Roll!Guid(l.who) ELSE k.guid
             t == Roll!Told(k.team, l)
             d == [k EXCEPT !.guid = g, !.team = t]
  <2>1. Roll!Ensured(l) = d
    BY <1>1 DEF Roll!Ensured, Roll!SourceEnsure
  <2>2. About(k, l)
    <3>1. S \subseteq Roll!InSlot(Roll!Cid(l)) /\ S \subseteq clients
      BY <1>0, <1>1, CidOf DEF Roll!InSlot
    <3> HIDE DEF S
    <3>2. \A c \in S : c.guid \in {Roll!NoGuid, l.who}
      BY DEF S
    <3> QED
      BY <1>0, <1>1, <3>1, <3>2, KnownFacts
  <2>3. k \in Client
    BY <2>2 DEF About, Titled
  <2>4. g \in {k.guid, l.who, Roll!NoGuid} /\ t \in Roll!Sides \cup {Roll!NoTeam}
        /\ (l.side \in Roll!Sides => t = l.side)
    <3>1. Roll!Untold \notin Roll!Sides
      BY DEF Roll!Untold, Roll!Sides
    <3>2. k.team \in Roll!Sides \cup {Roll!NoTeam}
      BY <2>3 DEF Client
    <3> HIDE DEF k
    <3> QED
      BY <1>0, <3>1, <3>2 DEF Roll!Told, Lines, Roll!Guid
  <2> HIDE DEF k, g, t
  <2>5. /\ d \in Client /\ d.guid = g /\ d.team = t
        /\ d.cid = k.cid /\ d.name = k.name /\ d.bot = k.bot
    <3>1. g \in People \cup {Roll!NoGuid}
      BY <1>0, <2>3, <2>4 DEF Client, Lines
    <3> QED
      BY <2>3, <2>4, <3>1 DEF Client
  <2> HIDE DEF d
  <2>6. About(d, l)
    BY <1>1, <2>2, <2>4, <2>5, Retold
  <2> QED
    BY <2>1, <2>4, <2>5, <2>6
<1>2. CASE game = "ravaged"
  <2> DEFINE k == Roll!Known(Roll!InSlot(l.who), l)
             t == IF l.side \in Roll!Sides THEN l.side ELSE k.team
             d == [k EXCEPT !.team = t]
  <2>1. Roll!Ensured(l) = d
    BY <1>2 DEF Roll!Ensured, Roll!RavagedEnsure
  <2>2. About(k, l)
    <3> DEFINE S == Roll!InSlot(l.who)
    <3>1. S \subseteq Roll!InSlot(Roll!Cid(l)) /\ S \subseteq clients
      BY <1>0, <1>2, CidOf DEF Roll!InSlot
    <3> HIDE DEF S
    <3>2. About(Roll!Known(S, l), l)
      BY <1>0, <1>2, <3>1, KnownFacts
    <3> QED
      BY <3>2 DEF S
  <2>3. k \in Client
    BY <2>2 DEF About, Titled
  <2> HIDE DEF k
  <2>4. t \in Roll!Sides \cup {Roll!NoTeam} /\ (l.side \in Roll!Sides => t = l.side)
    BY <2>3 DEF Client
  <2> HIDE DEF t
  <2>5. /\ d \in Client /\ d.guid = k.guid /\ d.team = t
        /\ d.cid = k.cid /\ d.name = k.name /\ d.bot = k.bot
    BY <2>3, <2>4 DEF Client
  <2> HIDE DEF d
  <2>6. About(d, l)
    BY <1>2, <2>2, <2>5, Retold
  <2> QED
    BY <2>1, <2>4, <2>5, <2>6
<1>3. CASE game = "homefront"
  <2> DEFINE S == Roll!OfGuid(l.who)
  <2>1. Roll!Ensured(l) = Roll!Known(S, l)
    BY <1>3 DEF Roll!Ensured, Roll!HomefrontEnsure
  <2>2. S \subseteq clients /\ \A c \in S : c.guid = l.who
    BY DEF Roll!OfGuid
  <2> HIDE DEF S
  <2>3. About(Roll!Known(S, l), l)
    BY <1>0, <1>3, <2>2, KnownFacts
  <2> QED
    BY <1>3, <2>1, <2>3
<1>4. CASE game \in {"frostbite", "battleye"}
  <2> DEFINE S == Roll!InSlot(Roll!Cid(l))
  <2>1. Roll!Ensured(l) = Roll!Known(S, l)
    BY <1>0, <1>4, CidOf DEF Roll!Ensured, Roll!FrostbiteClient, Roll!BattlEyeClient
  <2>2. S \subseteq clients
    BY DEF Roll!InSlot
  <2>3. S \subseteq Roll!InSlot(Roll!Cid(l))
    OBVIOUS
  <2> HIDE DEF S
  <2>4. About(Roll!Known(S, l), l)
    BY <1>0, <1>4, <2>2, <2>3, KnownFacts
  <2> QED
    BY <1>4, <2>1, <2>4
<1> QED
  BY <1>1, <1>2, <1>3, <1>4 DEF Makes

-----------------------------------------------------------------------------
(* The server and the counts.                                               *)

LEMMA LineOf ==
  ASSUME Places, NEW p \in Roll!Here
  PROVE  /\ Roll!Line(p) \in Lines /\ Roll!Line(p).side \in Roll!Sides \cup {Roll!NoTeam}
         /\ Roll!Line(p).who = p /\ Roll!Line(p).slot = seat[p] /\ Roll!Line(p).name = nick[p]
         /\ Roll!Line(p).side = side[p] /\ p \in People /\ seat[p] \in Slots
<1>1. p \in People /\ seat[p] \in Slots /\ nick[p] \in Names \cup People
      /\ side[p] \in Roll!Sides \cup {Roll!NoTeam}
  BY DEF Places, Roll!Here
<1> QED
  BY <1>1 DEF Roll!Line, Lines

\* Where everybody stays, as far as the server goes.
LEMMA PlacesStay ==
  ASSUME Places, UNCHANGED <<game, seat, nick, side>>
  PROVE  Places'
  BY DEF Places, Roll!Here

LEMMA CountsStay ==
  ASSUME Counts, UNCHANGED <<game, seat, trailing>>, unheard' \subseteq unheard, lost' = lost,
         astray' = astray, claimed' \in BOOLEAN
  PROVE  Counts'
  BY DEF Counts, Roll!Here

LEMMA CountsMiss ==
  ASSUME Counts, UNCHANGED <<game, claimed>>, unheard' \subseteq People, Roll!Miss,
         \A l \in trailing' : game = "source" /\ l.side = Roll!NoTeam
                              /\ \A p \in Roll!Here' : seat'[p] # l.slot
  PROVE  Counts'
  BY RollFacts DEF Counts, Roll!Miss

LEMMA PlacesEnter ==
  ASSUME Places, Counts, NEW p \in People, NEW s \in Slots, NEW n \in Names, Roll!Enter(p, s, n)
  PROVE  /\ Places' /\ Counts' /\ Roll!Here' = Roll!Here \cup {p}
         /\ \A q \in Roll!Here : q # p /\ seat'[q] = seat[q] /\ nick'[q] = nick[q]
<1>1. /\ p \notin Roll!Here /\ s \notin {seat[q] : q \in Roll!Here}
      /\ n \notin {nick[q] : q \in Roll!Here}
      /\ s \notin {t.slot : t \in trailing}
      /\ p \in Bots => game \in {"source", "altitude"}
      /\ seat' = [seat EXCEPT ![p] = s]
      /\ nick' = [nick EXCEPT ![p] = IF game = "frostbite" THEN p ELSE n]
      /\ side' = [side EXCEPT ![p] = Roll!NoTeam]
      /\ UNCHANGED <<game, claimed, trailing>>
      /\ \/ lost' = lost /\ unheard' = unheard \ {p} /\ astray' = (astray \/ game = "frontline")
         \/ Roll!Miss /\ unheard' = unheard \cup {p}
  BY DEF Roll!Enter, Roll!Settled
<1>2. /\ \A q \in People : q # p => seat'[q] = seat[q] /\ nick'[q] = nick[q] /\ side'[q] = side[q]
      /\ seat'[p] = s /\ nick'[p] = (IF game = "frostbite" THEN p ELSE n) /\ s # Roll!Nowhere
  BY <1>1, RollFacts DEF Places
<1>3. Roll!Here' = Roll!Here \cup {p}
  BY <1>1, <1>2 DEF Roll!Here
<1>4. \A q \in Roll!Here : q # p /\ seat'[q] = seat[q] /\ nick'[q] = nick[q]
  BY <1>1, <1>2 DEF Roll!Here
<1>5. Places'
  <2>1. /\ seat' \in [People -> Slots \cup {Roll!Nowhere}]
        /\ nick' \in [People -> Names \cup People \cup {Roll!NoName}]
        /\ side' \in [People -> Roll!Sides \cup {Roll!NoTeam}]
    BY <1>1 DEF Places
  <2>2. \A q \in Roll!Here : seat[q] # s /\ nick[q] # n
    BY <1>1
  <2>3. game = "frostbite" => \A q \in Roll!Here' : nick'[q] = q
    BY <1>2, <1>3, <1>4 DEF Places
  <2>4. \A q, r \in Roll!Here' : q # r => seat'[q] # seat'[r] /\ nick'[q] # nick'[r]
    <3>1. \A q \in Roll!Here : seat'[q] # s /\ nick'[q] # nick'[p]
      BY <1>1, <1>2, <1>3, <1>4, <2>2, <2>3
    <3>2. \A q, r \in Roll!Here : q # r => seat'[q] # seat'[r] /\ nick'[q] # nick'[r]
      BY <1>4 DEF Places
    <3> QED
      BY <1>2, <1>3, <3>1, <3>2
  <2>5. \A q \in Roll!Here' : nick'[q] \in Names \cup People
    BY <1>2, <1>3, <1>4 DEF Places
  <2>6. game \notin {"source", "altitude"} => Roll!Here' \cap Bots = {}
    BY <1>1, <1>3 DEF Places
  <2> QED
    BY <1>1, <2>1, <2>3, <2>4, <2>5, <2>6 DEF Places
<1>6. Counts'
  <2>1. \A l \in trailing : game = "source" /\ l.side = Roll!NoTeam
                            /\ \A q \in Roll!Here' : seat'[q] # l.slot
    BY <1>1, <1>2, <1>3, <1>4 DEF Counts
  <2>2. CASE Roll!Miss /\ unheard' = unheard \cup {p}
    <3>1. unheard' \subseteq People
      BY <2>2 DEF Counts
    <3> QED
      BY <1>1, <2>1, <2>2, <3>1, CountsMiss
  <2>3. CASE lost' = lost /\ unheard' = unheard \ {p} /\ astray' = (astray \/ game = "frontline")
    BY <1>1, <2>1, <2>3 DEF Counts
  <2> QED
    BY <1>1, <2>2, <2>3
<1> QED
  BY <1>3, <1>4, <1>5, <1>6

LEMMA PlacesLeave ==
  ASSUME Places, Counts, NEW p \in Roll!Here, Roll!Leave(p)
  PROVE  /\ Places' /\ Counts' /\ Roll!Here' = Roll!Here \ {p}
         /\ \A q \in Roll!Here' : seat'[q] = seat[q] /\ nick'[q] = nick[q]
<1>1. /\ seat' = [seat EXCEPT ![p] = Roll!Nowhere]
      /\ nick' = [nick EXCEPT ![p] = Roll!NoName] /\ side' = [side EXCEPT ![p] = Roll!NoTeam]
      /\ trailing' = IF game = "source" THEN {[Roll!Line(p) EXCEPT !.side = Roll!NoTeam]} ELSE {}
      /\ UNCHANGED <<game, unheard, claimed>>
      /\ \/ lost' = lost /\ astray' = (astray \/ game = "frontline")
         \/ Roll!Miss
  BY DEF Roll!Leave
<1>2. p \in People
  BY DEF Roll!Here
<1>3. /\ \A q \in People : q # p => seat'[q] = seat[q] /\ nick'[q] = nick[q] /\ side'[q] = side[q]
      /\ seat'[p] = Roll!Nowhere
  BY <1>1, <1>2 DEF Places
<1>4. Roll!Here' = Roll!Here \ {p}
  BY <1>2, <1>3 DEF Roll!Here
<1>5. \A q \in Roll!Here' : seat'[q] = seat[q] /\ nick'[q] = nick[q]
  BY <1>3, <1>4 DEF Roll!Here
<1>6. Places'
  <2>1. /\ seat' \in [People -> Slots \cup {Roll!Nowhere}]
        /\ nick' \in [People -> Names \cup People \cup {Roll!NoName}]
        /\ side' \in [People -> Roll!Sides \cup {Roll!NoTeam}]
    BY <1>1 DEF Places
  <2>2. /\ \A q \in Roll!Here' : nick'[q] \in Names \cup People
        /\ \A q, r \in Roll!Here' : q # r => seat'[q] # seat'[r] /\ nick'[q] # nick'[r]
        /\ game = "frostbite" => \A q \in Roll!Here' : nick'[q] = q
        /\ game \notin {"source", "altitude"} => Roll!Here' \cap Bots = {}
    BY <1>4, <1>5 DEF Places
  <2> QED
    BY <1>1, <2>1, <2>2 DEF Places
<1>7. Counts'
  <2>1. \A l \in trailing' : game = "source" /\ l.side = Roll!NoTeam
                             /\ \A q \in Roll!Here' : seat'[q] # l.slot
    <3>1. [Roll!Line(p) EXCEPT !.side = Roll!NoTeam].side = Roll!NoTeam
          /\ [Roll!Line(p) EXCEPT !.side = Roll!NoTeam].slot = seat[p]
      BY DEF Roll!Line
    <3>2. \A q \in Roll!Here' : seat'[q] # seat[p]
      BY <1>4, <1>5 DEF Places
    <3> QED
      BY <1>1, <3>1, <3>2
  <2>2. CASE Roll!Miss
    <3>1. unheard' \subseteq People
      BY <1>1 DEF Counts
    <3> QED
      BY <1>1, <2>1, <2>2, <3>1, CountsMiss
  <2>3. CASE lost' = lost /\ astray' = (astray \/ game = "frontline")
    BY <1>1, <2>1, <2>3 DEF Counts
  <2> QED
    BY <1>1, <2>2, <2>3
<1> QED
  BY <1>4, <1>5, <1>6, <1>7

LEMMA PlacesRename ==
  ASSUME Places, Counts, NEW p \in Roll!Here, NEW n \in Names, Roll!Rename(p, n)
  PROVE  /\ Places' /\ Counts' /\ Roll!Here' = Roll!Here /\ UNCHANGED seat
         /\ \A q \in Roll!Here : q # p => nick'[q] = nick[q]
         /\ game \in {"source", "homefront", "frontline"}
<1>1. /\ n \notin {nick[q] : q \in Roll!Here} /\ nick' = [nick EXCEPT ![p] = n]
      /\ UNCHANGED <<seat, side, game, claimed, trailing, lost, astray>>
      /\ game \in {"source", "homefront", "frontline"}
      /\ \/ unheard' = unheard
         \/ game \in {"homefront", "frontline"} /\ unheard' = unheard \cup {p}
  BY DEF Roll!Rename, Roll!RenameLine, Roll!Settled, Roll!Heard
<1>2. p \in People
  BY DEF Roll!Here
<1>3. nick'[p] = n /\ \A q \in Roll!Here : q # p => nick'[q] = nick[q]
  BY <1>1, <1>2 DEF Places, Roll!Here
<1>4. Roll!Here' = Roll!Here
  BY <1>1 DEF Roll!Here
<1>5. Places'
  <2>1. nick' \in [People -> Names \cup People \cup {Roll!NoName}]
    BY <1>1 DEF Places
  <2>2. /\ \A q \in Roll!Here' : nick'[q] \in Names \cup People
        /\ \A q, r \in Roll!Here' : q # r => seat'[q] # seat'[r] /\ nick'[q] # nick'[r]
    BY <1>1, <1>3, <1>4 DEF Places
  <2> QED
    BY <1>1, <1>4, <2>1, <2>2 DEF Places
<1>6. Counts'
  BY <1>1, <1>2, <1>4 DEF Counts, Keyed
<1> QED
  BY <1>1, <1>3, <1>4, <1>5, <1>6

LEMMA PlacesChangeTeam ==
  ASSUME Places, Counts, NEW p \in Roll!Here, NEW t \in Roll!Sides, Roll!ChangeTeam(p, t)
  PROVE  Places' /\ Counts' /\ Roll!Here' = Roll!Here
<1>1. /\ side' = [side EXCEPT ![p] = t]
      /\ UNCHANGED <<seat, nick, unheard, game, claimed, trailing>>
      /\ \/ lost' = lost /\ astray' = astray
         \/ Roll!Miss
  BY DEF Roll!ChangeTeam, Roll!Settled, Roll!Heard
<1>2. Roll!Here' = Roll!Here
  BY <1>1 DEF Roll!Here
<1>3. Places'
  BY <1>1, <1>2 DEF Places
<1>4. Counts'
  <2>1. CASE Roll!Miss
    <3>1. unheard' \subseteq People
      BY <1>1 DEF Counts
    <3> QED
      BY <1>1, <1>2, <2>1, <3>1, CountsMiss DEF Counts
  <2>2. CASE lost' = lost /\ astray' = astray
    BY <1>1, <1>2, <2>2 DEF Counts
  <2> QED
    BY <1>1, <2>1, <2>2
<1> QED
  BY <1>2, <1>3, <1>4

-----------------------------------------------------------------------------
(* The clients after a step.                                                *)

\* A client that may stand for somebody who is there.
Fit(c, p) == Titled(c) /\ c.cid = Roll!Cid(Roll!Line(p)) /\ Good(c, p)

\* A client that was there before, except for its team.
Was(c) ==
    /\ c \in Client
    /\ \E d \in clients :
          c.cid = d.cid /\ c.guid = d.guid /\ c.name = d.name /\ c.bot = d.bot

\* Introduced, and neither moved nor renamed by the step.
Stays(q) == q \in Roll!Here \ unheard /\ seat'[q] = seat[q] /\ nick'[q] = nick[q]

LEMMA CidsDiffer ==
  Places => \A p, q \in Roll!Here : Roll!Cid(Roll!Line(p)) = Roll!Cid(Roll!Line(q)) => p = q
<1> SUFFICES ASSUME Places, NEW p \in Roll!Here, NEW q \in Roll!Here,
                    Roll!Cid(Roll!Line(p)) = Roll!Cid(Roll!Line(q)) PROVE p = q
  OBVIOUS
<1>1. /\ game = "ravaged" => Roll!Cid(Roll!Line(p)) = p /\ Roll!Cid(Roll!Line(q)) = q
      /\ game \in {"homefront", "frostbite"} => Roll!Cid(Roll!Line(p)) = nick[p]
         /\ Roll!Cid(Roll!Line(q)) = nick[q]
      /\ game \notin {"ravaged", "homefront", "frostbite"} =>
            Roll!Cid(Roll!Line(p)) = seat[p] /\ Roll!Cid(Roll!Line(q)) = seat[q]
  BY LineOf, CidOf
<1> QED
  BY <1>1 DEF Places

LEMMA CidStays ==
  ASSUME NEW q, game' = game, seat'[q] = seat[q], nick'[q] = nick[q]
  PROVE  Roll!Cid(Roll!Line(q))' = Roll!Cid(Roll!Line(q))
  BY DEF Roll!Cid, Roll!Line

LEMMA OwnStep ==
  ASSUME ClientsOf, Places', game' = game, lost' \in {lost, lost + 1}, claimed => claimed',
         NEW P, P \subseteq Roll!Here',
         \A c \in clients' : \/ \E p \in P : Fit(c, p)'
                             \/ Was(c) /\ \A p \in P : c.cid # Roll!Cid(Roll!Line(p))',
         \A q \in Roll!Here' \ (unheard' \cup P) : Stays(q)
  PROVE  (\A c \in clients : Titled(c))' /\ Own'
<1>0. (\A p, q \in Roll!Here : Roll!Cid(Roll!Line(p)) = Roll!Cid(Roll!Line(q)) => p = q)'
  BY CidsDiffer, PTL
<1>1. ASSUME NEW c \in clients' PROVE Titled(c)'
  <2>1. CASE \E p \in P : Fit(c, p)'
    BY <2>1 DEF Fit
  <2>2. CASE Was(c)
    BY <2>2 DEF Was, Titled, ClientsOf
  <2> QED
    BY <2>1, <2>2
<1>2. ASSUME NEW q \in Roll!Here' \ unheard', NEW c \in clients', c.cid = Roll!Cid(Roll!Line(q))'
      PROVE  Good(c, q)'
  <2>1. CASE \E p \in P : Fit(c, p)'
    <3>1. PICK p \in P : Fit(c, p)'
      BY <2>1
    <3>2. c.cid = Roll!Cid(Roll!Line(p))' /\ Good(c, p)'
      BY <3>1 DEF Fit
    <3> QED
      BY <1>0, <1>2, <3>2
  <2>2. CASE Was(c) /\ \A p \in P : c.cid # Roll!Cid(Roll!Line(p))'
    <3>1. Stays(q)
      BY <1>2, <2>2
    <3>2. PICK d \in clients : c.cid = d.cid /\ c.guid = d.guid /\ c.name = d.name /\ c.bot = d.bot
      BY <2>2 DEF Was
    <3>3. d.cid = Roll!Cid(Roll!Line(q))
      BY <1>2, <3>1, <3>2, CidStays DEF Stays
    <3>4. Good(d, q)
      BY <3>1, <3>3 DEF ClientsOf, Own, Roll!InSlot, Stays
    <3>5. lost' = 0 => lost = 0
      BY RollFacts DEF ClientsOf, Counts
    <3>6. lost > 0 => lost' > 0
      BY RollFacts DEF ClientsOf, Counts
    <3>7. \/ c.guid \in {Roll!NoGuid, q}
          \/ game = "frontline"
          \/ game = "battleye" /\ (lost' > 0 \/ claimed')
      BY Zenon, <3>2, <3>4, <3>6 DEF Good
    <3>8. lost' = 0 => (c.bot <=> q \in Bots)
      BY <3>2, <3>4, <3>5 DEF Good
    <3>9. game = "battleye" /\ lost' = 0 => c.name = nick'[q]
      BY <3>1, <3>2, <3>4, <3>5 DEF Good, Stays
    <3> QED
      BY Zenon, <3>7, <3>8, <3>9 DEF Good
  <2> QED
    BY <2>1, <2>2
<1> QED
  BY <1>1, <1>2 DEF Own, Roll!InSlot

\* Nobody new: some are gone, some on another team.
LEMMA FewerStep ==
  ASSUME ClientsOf, Places', Counts', game' = game, lost' \in {lost, lost + 1}, claimed => claimed',
         clients' \subseteq clients, \A q \in Roll!Here' \ unheard' : Stays(q)
  PROVE  ClientsOf'
<1>1. \A c \in clients' : Was(c)
  BY DEF Was, ClientsOf, Titled
<1>2. (\A c \in clients : Titled(c))' /\ Own'
  <2> DEFINE P == {}
  <2>1. P \subseteq Roll!Here' /\ \A q \in Roll!Here' \ (unheard' \cup P) : Stays(q)
    OBVIOUS
  <2>2. \A c \in clients' : \/ \E p \in P : Fit(c, p)'
                            \/ Was(c) /\ \A p \in P : c.cid # Roll!Cid(Roll!Line(p))'
    BY <1>1
  <2> HIDE DEF P
  <2> QED
    BY <2>1, <2>2, OwnStep
<1> QED
  BY <1>2 DEF ClientsOf, OneEach

LEMMA PutOf ==
  ASSUME NEW cs, NEW e
  PROVE  /\ e \in Roll!Put(cs, e)
         /\ \A d \in Roll!Put(cs, e) :
               d # e => d \in cs /\ d.cid # e.cid /\ (game = "homefront" => d.guid # e.guid)
         /\ \A d \in cs : \/ d \in Roll!Put(cs, e)
                          \/ d.cid = e.cid
                          \/ game = "homefront" /\ d.guid = e.guid
  BY DEF Roll!Put

LEMMA PutStep ==
  ASSUME ClientsOf, Places', Counts', game' = game, lost' = lost, claimed => claimed',
         NEW p \in Roll!Here', NEW e, Fit(e, p)', clients' = Roll!Put(clients, e),
         \A q \in Roll!Here' \ (unheard' \cup {p}) : Stays(q)
  PROVE  ClientsOf'
<1>0. /\ e \in clients' /\ e.cid = Roll!Cid(Roll!Line(p))'
      /\ \A d \in clients' : d # e => d \in clients /\ d.cid # e.cid
  BY PutOf DEF Fit
<1>1. (\A c \in clients : Titled(c))' /\ Own'
  <2> DEFINE P == {p}
  <2>1. P \subseteq Roll!Here' /\ \A q \in Roll!Here' \ (unheard' \cup P) : Stays(q)
    OBVIOUS
  <2>2. \A c \in clients' : \/ \E r \in P : Fit(c, r)'
                            \/ Was(c) /\ \A r \in P : c.cid # Roll!Cid(Roll!Line(r))'
    <3> SUFFICES ASSUME NEW c \in clients', c # e PROVE Was(c) /\ c.cid # Roll!Cid(Roll!Line(p))'
      OBVIOUS
    <3>1. c \in clients /\ c.cid # e.cid
      BY <1>0
    <3> QED
      BY <1>0, <3>1 DEF Was, ClientsOf, Titled
  <2> HIDE DEF P
  <2>3. lost' \in {lost, lost + 1}
    OBVIOUS
  <2> QED
    BY <2>1, <2>2, <2>3, OwnStep
<1>2. OneEach'
  BY <1>0 DEF ClientsOf, OneEach
<1> QED
  BY <1>1, <1>2 DEF ClientsOf

\* One client is on another team.
LEMMA TeamStep ==
  ASSUME ClientsOf, Places', Counts', game' = game, lost' = lost, claimed => claimed',
         NEW c \in clients, NEW t \in Roll!Sides \cup {Roll!NoTeam},
         clients' = Roll!Put(clients, [c EXCEPT !.team = t]),
         \A q \in Roll!Here' \ unheard' : Stays(q)
  PROVE  ClientsOf' /\ (game # "homefront" => {d.cid : d \in clients'} = {d.cid : d \in clients})
<1> DEFINE e == [c EXCEPT !.team = t]
<1>0. /\ e \in Client /\ e.cid = c.cid /\ e.guid = c.guid /\ e.name = c.name /\ e.bot = c.bot
  BY DEF ClientsOf, Titled, Client
<1> HIDE DEF e
<1>1. /\ clients' = Roll!Put(clients, e)
      /\ e \in clients'
      /\ \A d \in clients' : d # e => d \in clients /\ d.cid # e.cid
      /\ game # "homefront" => \A d \in clients : d \in clients' \/ d.cid = e.cid
  <2>1. clients' = Roll!Put(clients, e)
    BY DEF e
  <2>2. /\ e \in Roll!Put(clients, e)
        /\ \A d \in Roll!Put(clients, e) : d # e => d \in clients /\ d.cid # e.cid
        /\ game # "homefront" => \A d \in clients : d \in Roll!Put(clients, e) \/ d.cid = e.cid
    BY PutOf
  <2> QED
    BY <2>1, <2>2
<1>2. \A d \in clients' : Was(d)
  BY <1>0, <1>1 DEF Was, ClientsOf, Titled
<1>3. (\A d \in clients : Titled(d))' /\ Own'
  <2> DEFINE P == {}
  <2>1. P \subseteq Roll!Here' /\ \A q \in Roll!Here' \ (unheard' \cup P) : Stays(q)
    OBVIOUS
  <2>2. \A d \in clients' : \/ \E p \in P : Fit(d, p)'
                            \/ Was(d) /\ \A p \in P : d.cid # Roll!Cid(Roll!Line(p))'
    BY <1>2
  <2> HIDE DEF P
  <2>3. lost' \in {lost, lost + 1}
    OBVIOUS
  <2> QED
    BY <2>1, <2>2, <2>3, OwnStep
<1>4. OneEach'
  BY <1>1 DEF ClientsOf, OneEach
<1>5. ASSUME game # "homefront" PROVE {d.cid : d \in clients'} = {d.cid : d \in clients}
  BY <1>0, <1>1, <1>5
<1> QED
  BY <1>3, <1>4, <1>5 DEF ClientsOf

-----------------------------------------------------------------------------
(* Whether everybody is on the list.                                        *)

LEMMA PresentPut ==
  ASSUME Present, game' = game, astray' = astray, NEW p, NEW e, e.cid = Roll!Cid(Roll!Line(p))',
         clients' = Roll!Put(clients, e), Roll!Here' = Roll!Here \cup {p},
         \A q \in Roll!Here : Roll!Cid(Roll!Line(q))' = Roll!Cid(Roll!Line(q))
  PROVE  Present'
<1> SUFFICES ASSUME game # "homefront", ~astray
             PROVE  {c.cid : c \in clients'} = {Roll!Cid(Roll!Line(q))' : q \in Roll!Here'}
  BY DEF Present
<1>1. {c.cid : c \in clients} = {Roll!Cid(Roll!Line(q)) : q \in Roll!Here}
  BY DEF Present
<1>2. {c.cid : c \in clients'} = {c.cid : c \in clients} \cup {e.cid}
  <2>1. /\ e \in clients'
        /\ \A d \in clients' : d = e \/ d \in clients
        /\ \A d \in clients : d \in clients' \/ d.cid = e.cid
    BY PutOf
  <2> QED
    BY <2>1
<1> QED
  BY <1>1, <1>2

LEMMA PresentStays ==
  ASSUME Present, game' = game, astray \in BOOLEAN, astray => astray', Roll!Here' = Roll!Here,
         {c.cid : c \in clients'} = {c.cid : c \in clients},
         \A q \in Roll!Here : Roll!Cid(Roll!Line(q))' = Roll!Cid(Roll!Line(q))
  PROVE  Present'
  BY DEF Present

LEMMA HomefrontStays ==
  ASSUME Homefront, game' = game, clients' = clients, astray \in BOOLEAN, astray => astray',
         Roll!Here' = Roll!Here,
         unheard \subseteq unheard',
         \A q \in Roll!Here \ unheard' : nick'[q] = nick[q]
  PROVE  Homefront'
  BY DEF Homefront

LEMMA HomefrontPut ==
  ASSUME Homefront, Places, Places', OneEach, Counts, game' = game, astray' = astray,
         NEW p \in Roll!Here', NEW e, e.guid = p,
         clients' = Roll!Put(clients, e), Roll!Here' = Roll!Here \cup {p},
         unheard \ {p} \subseteq unheard',
         \A q \in Roll!Here \ {p} : nick'[q] = nick[q],
         \/ e.cid = nick'[p]
         \/ /\ UNCHANGED <<nick, unheard>> /\ p \in Roll!Here
            /\ \E c \in clients : c.cid = e.cid /\ c.guid = p
  PROVE  Homefront'
<1> SUFFICES ASSUME game = "homefront"
             PROVE  /\ \A c, d \in clients' : c.guid = d.guid => c = d
                    /\ ~astray =>
                         /\ \A c \in clients' : c.guid \in Roll!Here'
                                                /\ (c.guid \in unheard' \/ c.cid = nick'[c.guid])
                         /\ \A q \in Roll!Here' \ unheard' : \E c \in clients' : c.guid = q
  BY DEF Homefront
<1>1. /\ e \in clients'
      /\ \A d \in clients' : d # e => d \in clients /\ d.cid # e.cid /\ d.guid # p
      /\ \A d \in clients : d \in clients' \/ d.cid = e.cid \/ d.guid = p
  BY PutOf
<1>2. \A c, d \in clients' : c.guid = d.guid => c = d
  BY <1>1 DEF Homefront
<1>3. ASSUME ~astray
      PROVE  /\ \A c \in clients' : c.guid \in Roll!Here'
                                    /\ (c.guid \in unheard' \/ c.cid = nick'[c.guid])
             /\ \A q \in Roll!Here' \ unheard' : \E c \in clients' : c.guid = q
  <2>1. /\ \A c \in clients : c.guid \in Roll!Here /\ (c.guid \in unheard \/ c.cid = nick[c.guid])
        /\ \A q \in Roll!Here \ unheard : \E c \in clients : c.guid = q
    BY <1>3 DEF Homefront
  <2>2. p \in unheard' \/ e.cid = nick'[p]
    BY <2>1
  <2>3. ASSUME NEW c \in clients'
        PROVE c.guid \in Roll!Here' /\ (c.guid \in unheard' \/ c.cid = nick'[c.guid])
    BY <1>1, <2>1, <2>2
  <2>4. ASSUME NEW q \in Roll!Here' \ unheard' PROVE \E c \in clients' : c.guid = q
    <3>1. CASE q = p
      BY <1>1, <3>1
    <3>2. CASE q # p
      <4>1. q \in Roll!Here \ unheard /\ nick'[q] = nick[q]
        BY <2>4, <3>2
      <4>2. PICK c \in clients : c.guid = q /\ c.cid = nick[q]
        BY <2>1, <4>1
      <4>3. c.cid # e.cid
        <5>1. CASE e.cid = nick'[p]
          BY <2>4, <3>2, <4>1, <4>2, <5>1 DEF Places
        <5>2. CASE \E d \in clients : d.cid = e.cid /\ d.guid = p
          BY <3>2, <4>2, <5>2 DEF OneEach
        <5> QED
          BY <5>1, <5>2
      <4> QED
        BY <1>1, <3>2, <4>2, <4>3
    <3> QED
      BY <3>1, <3>2
  <2> QED
    BY <2>3, <2>4
<1> QED
  BY <1>2, <1>3

-----------------------------------------------------------------------------
(* Lines that are read.                                                     *)

RosterInv == Places /\ ClientsOf /\ Present /\ Homefront

LEMMA ReadNothing == ASSUME Roll!Read({}) PROVE clients' = clients
  BY DEF Roll!Read

LEMMA ReadOne == ASSUME NEW e, Roll!Read({e}) PROVE clients' = Roll!Put(clients, e)
  BY TheOne DEF Roll!Read

LEMMA SuitsIfHere ==
  ASSUME RosterInv, NEW p \in Roll!Here, NEW l \in Lines, l.who = p, l.slot = seat[p],
         l.name = nick[p]
  PROVE  Suits(l) /\ Roll!Cid(l) = Roll!Cid(Roll!Line(p))
<1>1. p \notin Bots \/ game \in {"source", "altitude"}
  BY DEF RosterInv, Places
<1>2. Roll!Cid(l) = Roll!Cid(Roll!Line(p))
  BY DEF Roll!Cid, Roll!Line
<1>3. game = "frostbite" => l.name = l.who
  BY DEF RosterInv, Places
<1>4. ASSUME NEW c \in Roll!InSlot(Roll!Cid(l)), lost = 0
      PROVE  /\ c.bot <=> l.who \in Bots
             /\ game = "battleye" /\ ~claimed => c.guid \in {Roll!NoGuid, l.who}
  <2>1. c \in clients /\ Titled(c)
    BY DEF RosterInv, ClientsOf, Roll!InSlot
  <2>2. CASE game \in {"source", "altitude", "battleye"}
    <3>1. unheard = {}
      BY <1>4, <2>2 DEF RosterInv, ClientsOf, Counts, Keyed
    <3>2. Good(c, p)
      BY <1>2, <3>1 DEF RosterInv, ClientsOf, Own
    <3>3. c.bot <=> l.who \in Bots
      BY <1>4, <3>2 DEF Good
    <3>4. game = "battleye" /\ ~claimed => c.guid \in {Roll!NoGuid, l.who}
      <4>1. ~(lost > 0)
        BY <1>4
      <4> QED
        BY Zenon, <3>2, <4>1 DEF Good
    <3> QED
      BY <3>3, <3>4
  <2>3. CASE game \notin {"source", "altitude", "battleye"}
    BY <1>1, <2>1, <2>3 DEF Titled
  <2> QED
    BY <2>2, <2>3
<1> QED
  BY <1>1, <1>2, <1>3, <1>4 DEF Suits

\* One who comes in is not on the list while no line was lost.
LEMMA SuitsIfNew ==
  ASSUME RosterInv, NEW l \in Lines, l.who \notin Bots \/ game \in {"source", "altitude"},
         game = "frostbite" => l.name = l.who, l.slot \notin {seat[q] : q \in Roll!Here}
  PROVE  Suits(l)
<1>1. ASSUME NEW c \in Roll!InSlot(Roll!Cid(l)), lost = 0
      PROVE  /\ c.bot <=> l.who \in Bots
             /\ game = "battleye" /\ ~claimed => c.guid \in {Roll!NoGuid, l.who}
  <2>1. c \in clients /\ Titled(c) /\ c.cid = Roll!Cid(l)
    BY DEF RosterInv, ClientsOf, Roll!InSlot
  <2>2. CASE game \in {"source", "altitude", "battleye"}
    <3>1. ~astray
      BY <1>1, <2>2 DEF RosterInv, ClientsOf, Counts
    <3>2. {d.cid : d \in clients} = {Roll!Cid(Roll!Line(q)) : q \in Roll!Here}
      BY <2>2, <3>1 DEF RosterInv, Present
    <3>3. PICK q \in Roll!Here : Roll!Cid(l) = Roll!Cid(Roll!Line(q))
      BY <2>1, <3>2
    <3>4. Roll!Cid(l) = l.slot /\ Roll!Cid(Roll!Line(q)) = seat[q]
      BY <2>2, CidOf, LineOf DEF RosterInv
    <3> QED
      BY <3>3, <3>4
  <2>3. CASE game \notin {"source", "altitude", "battleye"}
    BY <2>1, <2>3 DEF Titled
  <2> QED
    BY <2>2, <2>3
<1> QED
  BY <1>1 DEF Suits

LEMMA AboutFits ==
  ASSUME NEW l, NEW c, About(c, l), NEW p, l.who = p, Roll!Cid(l) = Roll!Cid(Roll!Line(p))',
         game' = game, lost' = lost, claimed => claimed', game = "battleye" => l.name = nick'[p]
  PROVE  Fit(c, p)'
<1>1. Titled(c)' /\ c.cid = Roll!Cid(Roll!Line(p))'
  BY DEF About, Titled
<1>2. \/ c.guid \in {Roll!NoGuid, p}
      \/ game = "frontline"
      \/ game = "battleye" /\ (lost > 0 \/ claimed)
  BY Zenon DEF About
<1>3. (lost = 0 => (c.bot <=> p \in Bots)) /\ c.name = l.name
  BY DEF About
<1>4. game = "battleye" /\ lost = 0 => c.name = nick'[p]
  BY <1>3
<1>5. Good(c, p)'
  BY Zenon, <1>2, <1>3, <1>4 DEF Good
<1> QED
  BY <1>1, <1>5 DEF Fit

\* A line about one who is there, or comes in, is read: the client it means.
LEMMA OneRead ==
  ASSUME RosterInv, Places', Counts', NEW p \in Roll!Here', NEW l, NEW e, About(e, l), l.who = p,
         l.name = nick'[p], Roll!Cid(l) = Roll!Cid(Roll!Line(p))',
         clients' = Roll!Put(clients, e), game' = game, lost' = lost, astray' = astray,
         claimed => claimed',
         Roll!Here' = Roll!Here \cup {p},
         unheard \ {p} \subseteq unheard',
         \A q \in Roll!Here' \ (unheard' \cup {p}) : Stays(q),
         \A q \in Roll!Here : Roll!Cid(Roll!Line(q))' = Roll!Cid(Roll!Line(q)),
         \A q \in Roll!Here \ {p} : nick'[q] = nick[q]
  PROVE  RosterInv'
<1>1. Fit(e, p)'
  BY AboutFits
<1>2. ClientsOf'
  BY <1>1, PutStep DEF RosterInv
<1>3. Present'
  <2>1. e.cid = Roll!Cid(Roll!Line(p))'
    BY <1>1 DEF Fit
  <2> QED
    BY <2>1, PresentPut DEF RosterInv
<1>4. Homefront'
  <2>1. CASE game = "homefront"
    <3>1. e.cid = nick'[p]
      <4>1. e.cid = Roll!Cid(Roll!Line(p))'
        BY <1>1 DEF Fit
      <4> QED
        BY <2>1, <4>1 DEF Roll!Cid, Roll!Line
    <3>2. e.guid = p
      <4>1. e.guid \in {Roll!NoGuid, p} /\ e.guid \in People
        BY <2>1 DEF About, Titled
      <4> QED
        BY <4>1, RollFacts
    <3> QED
      BY <3>1, <3>2, HomefrontPut DEF RosterInv, ClientsOf
  <2>2. CASE game # "homefront"
    BY <2>2 DEF Homefront
  <2> QED
    BY <2>1, <2>2
<1> QED
  BY <1>2, <1>3, <1>4 DEF RosterInv

\* Something is missing from now on.
LEMMA AstrayStep ==
  ASSUME RosterInv, Places', Counts', game' = game, lost' \in {lost, lost + 1}, claimed => claimed',
         clients' \subseteq clients, \A q \in Roll!Here' \ unheard' : Stays(q),
         astray'
  PROVE  RosterInv'
<1>1. ClientsOf'
  BY FewerStep DEF RosterInv
<1>2. Present' /\ Homefront'
  BY DEF Present, Homefront, RosterInv
<1> QED
  BY <1>1, <1>2 DEF RosterInv

LEMMA NothingRead ==
  ASSUME RosterInv, Places', Counts', game' = game, lost' = lost, claimed => claimed',
         clients' = clients, astray' = astray, unheard \subseteq unheard', Roll!Here' = Roll!Here,
         \A q \in Roll!Here' \ unheard' : Stays(q),
         game # "homefront" => \A q \in Roll!Here : Roll!Cid(Roll!Line(q))' = Roll!Cid(Roll!Line(q))
  PROVE  RosterInv'
<1>1. ClientsOf'
  <2>1. lost' \in {lost, lost + 1} /\ clients' \subseteq clients
    OBVIOUS
  <2> QED
    BY <2>1, FewerStep DEF RosterInv
<1>2. astray \in BOOLEAN
  BY DEF RosterInv, ClientsOf, Counts
<1>3. Present'
  BY DEF RosterInv, Present
<1>4. Homefront'
  BY <1>2, HomefrontStays DEF RosterInv, Stays
<1> QED
  BY <1>1, <1>3, <1>4 DEF RosterInv

\* A client that is under no player's slot, or is told to be on another team.
LEMMA TeamRead ==
  ASSUME RosterInv, Places', Counts', NEW c \in clients, NEW t \in Roll!Sides \cup {Roll!NoTeam},
         clients' = Roll!Put(clients, [c EXCEPT !.team = t]),
         game' = game, lost' = lost, claimed' = claimed, astray' = astray, unheard' = unheard,
         UNCHANGED <<seat, nick>>
  PROVE  RosterInv'
<1>0. Roll!Here' = Roll!Here
  BY DEF Roll!Here
<1>1. \A q \in Roll!Here' \ unheard' : Stays(q)
  BY <1>0 DEF Stays
<1>2. ClientsOf' /\ (game # "homefront" => {d.cid : d \in clients'} = {d.cid : d \in clients})
  BY <1>1, TeamStep DEF RosterInv
<1>3. Present'
  <2>1. \A q \in Roll!Here : Roll!Cid(Roll!Line(q))' = Roll!Cid(Roll!Line(q))
    BY CidStays
  <2>2. CASE game # "homefront"
    BY <1>0, <1>2, <2>1, <2>2 DEF RosterInv, Present
  <2>3. CASE game = "homefront"
    BY <2>3 DEF Present
  <2> QED
    BY <2>2, <2>3
<1>4. Homefront'
  <2>1. CASE game = "homefront" /\ c.guid \in Roll!Here
    <3>1. PICK e : e = [c EXCEPT !.team = t]
      OBVIOUS
    <3>2. e.cid = c.cid /\ e.guid = c.guid
      BY <3>1 DEF RosterInv, ClientsOf, Titled, Client
    <3>3. PICK p : p = c.guid
      OBVIOUS
    <3>4. /\ p \in Roll!Here' /\ Roll!Here' = Roll!Here \cup {p} /\ e.guid = p
          /\ clients' = Roll!Put(clients, e)
          /\ unheard \ {p} \subseteq unheard' /\ \A q \in Roll!Here \ {p} : nick'[q] = nick[q]
          /\ UNCHANGED <<nick, unheard>> /\ p \in Roll!Here
          /\ \E d \in clients : d.cid = e.cid /\ d.guid = p
      BY <1>0, <2>1, <3>1, <3>2, <3>3
    <3> QED
      BY <3>4, HomefrontPut DEF RosterInv, ClientsOf
  <2>2. CASE game = "homefront" /\ c.guid \notin Roll!Here
    <3>1. astray
      BY <2>2 DEF RosterInv, Homefront
    <3>2. \A d, e \in clients' : d.guid = e.guid => d = e
      <4>1. PICK e : e = [c EXCEPT !.team = t]
        OBVIOUS
      <4>2. \A d \in clients' : d # e => d \in clients /\ d.guid # e.guid
        <5>1. clients' = Roll!Put(clients, e)
          BY <4>1
        <5> QED
          BY <2>2, <5>1, PutOf
      <4> QED
        BY <2>2, <4>2 DEF RosterInv, Homefront
    <3> QED
      BY <3>1, <3>2 DEF Homefront
  <2>3. CASE game # "homefront"
    BY <2>3 DEF Homefront
  <2> QED
    BY <2>1, <2>2, <2>3
<1> QED
  BY <1>2, <1>3, <1>4 DEF RosterInv

-----------------------------------------------------------------------------
(* One lemma for each thing that happens on the server.                     *)

\* A line about one who is there is read, and nothing else happens.
LEMMA ReadAbout ==
  ASSUME RosterInv, NEW p \in Roll!Here, NEW l \in Lines, l.who = p, l.slot = seat[p],
         l.name = nick[p],
         NEW e, About(e, l), Roll!Read({e}),
         UNCHANGED <<game, seat, nick, lost, astray, trailing>>,
         Places', unheard' \in {unheard, unheard \ {p}}, claimed => claimed', claimed' \in BOOLEAN
  PROVE  RosterInv'
<1>0. Roll!Here' = Roll!Here
  BY DEF Roll!Here
<1>1. Counts'
  <2>1. unheard' \subseteq unheard
    OBVIOUS
  <2> QED
    BY <2>1, CountsStay DEF RosterInv, ClientsOf
<1>2. clients' = Roll!Put(clients, e)
  BY ReadOne
<1>3. Roll!Cid(l) = Roll!Cid(Roll!Line(p))
  BY SuitsIfHere
<1>4. \A q \in Roll!Here : Roll!Cid(Roll!Line(q))' = Roll!Cid(Roll!Line(q))
  BY CidStays
<1>5. /\ p \in Roll!Here' /\ Roll!Here' = Roll!Here \cup {p} /\ unheard \ {p} \subseteq unheard'
      /\ l.name = nick'[p] /\ Roll!Cid(l) = Roll!Cid(Roll!Line(p))'
      /\ \A q \in Roll!Here \ {p} : nick'[q] = nick[q]
      /\ \A q \in Roll!Here' \ (unheard' \cup {p}) : Stays(q)
  BY <1>0, <1>3, <1>4 DEF Stays
<1> QED
  BY <1>1, <1>2, <1>4, <1>5, OneRead

LEMMA IdentifiedAbout ==
  ASSUME RosterInv, NEW l, Suits(l), game \notin {"altitude", "frontline"}
  PROVE  \E e : Roll!Identified(l, l.who) = {e} /\ About(e, l)
<1>0. game \in Makes /\ l \in Lines
  BY DEF RosterInv, Places, Titles, Makes, Suits
<1>1. About(Roll!Ensured(l), l)
  BY <1>0, EnsuredAbout DEF RosterInv
<1> DEFINE k == Roll!Ensured(l)
<1>2. k \in Client
  BY <1>1 DEF About, Titled
<1>3. CASE game = "battleye"
  <2> DEFINE g == IF k.guid = Roll!NoGuid THEN l.who ELSE k.guid
             d == [k EXCEPT !.guid = g]
  <2>1. Roll!Identified(l, l.who) = {d}
    BY <1>3 DEF Roll!Identified, Roll!BattlEyeIdentify, Roll!Ensured
  <2> HIDE DEF k
  <2>2. g \in People \cup {Roll!NoGuid} /\ g \in {k.guid, l.who}
    BY <1>0, <1>2 DEF Client, Lines
  <2> HIDE DEF g
  <2>3. /\ d \in Client /\ d.guid = g /\ d.cid = k.cid /\ d.name = k.name /\ d.bot = k.bot
    BY <1>2, <2>2 DEF Client
  <2> HIDE DEF d
  <2>4. About(k, l)
    BY <1>1 DEF k
  <2> QED
    BY <2>1, <2>2, <2>3, <2>4, Retold
<1>4. CASE game = "frostbite"
  <2> DEFINE d == [k EXCEPT !.guid = l.who]
  <2>1. Roll!Identified(l, l.who) = {d}
    BY <1>4 DEF Roll!Identified, Roll!FrostbiteJoin, Roll!Ensured
  <2> HIDE DEF k
  <2>3. /\ d \in Client /\ d.guid = l.who /\ d.cid = k.cid /\ d.name = k.name /\ d.bot = k.bot
    BY <1>0, <1>2 DEF Client, Lines
  <2> HIDE DEF d
  <2>4. About(k, l)
    BY <1>1 DEF k
  <2> QED
    BY <2>1, <2>3, <2>4, Retold
<1>5. CASE game \in {"source", "ravaged", "homefront"}
  <2>1. Roll!Identified(l, l.who) = {Roll!Ensured(l)}
    BY <1>5 DEF Roll!Identified, Roll!HomefrontUid, Roll!Ensured
  <2> QED
    BY <1>1, <2>1
<1> QED
  BY <1>0, <1>3, <1>4, <1>5 DEF Makes

LEMMA MissIs == ASSUME Roll!Miss
                PROVE lost' \in {lost, lost + 1} /\ astray' /\ clients' \subseteq clients
  BY DEF Roll!Miss

LEMMA IdentifyStep ==
  ASSUME RosterInv, NEW p \in Roll!Here, Roll!Identify(p)
  PROVE  RosterInv'
<1>0. /\ game \notin {"altitude", "frontline"}
      /\ UNCHANGED <<seat, nick, side, game, claimed, trailing>>
      /\ \/ Roll!Read(Roll!Identified(Roll!Line(p), p)) /\ unheard' = unheard \ {p}
            /\ lost' = lost /\ astray' = astray
         \/ Roll!Miss /\ unheard' = unheard
  BY DEF Roll!Identify, Roll!Settled, Roll!Heard
<1>1. Places' /\ Roll!Here' = Roll!Here /\ claimed \in BOOLEAN
  BY <1>0, PlacesStay DEF RosterInv, ClientsOf, Counts, Roll!Here
<1>2. CASE Roll!Read(Roll!Identified(Roll!Line(p), p)) /\ unheard' = unheard \ {p} /\ lost' = lost
           /\ astray' = astray
  <2>1. PICK l : l = Roll!Line(p)
    OBVIOUS
  <2>2. l \in Lines /\ l.who = p /\ l.slot = seat[p] /\ l.name = nick[p]
    BY <2>1, LineOf DEF RosterInv
  <2>3. Suits(l)
    BY <2>2, SuitsIfHere
  <2>4. PICK e : Roll!Identified(l, l.who) = {e} /\ About(e, l)
    BY <1>0, <2>3, IdentifiedAbout
  <2>5. Roll!Read({e})
    <3>1. Roll!Identified(Roll!Line(p), p) = {e}
      BY <2>1, <2>2, <2>4
    <3> QED
      BY <1>2, <3>1
  <2> QED
    BY <1>0, <1>1, <1>2, <2>2, <2>4, <2>5, ReadAbout
<1>3. CASE Roll!Miss /\ unheard' = unheard
  <2>1. Counts'
    BY <1>0, <1>1, <1>3, CountsMiss DEF RosterInv, ClientsOf, Counts
  <2>2. \A q \in Roll!Here' \ unheard' : Stays(q)
    BY <1>0, <1>1, <1>3 DEF Stays
  <2> QED
    BY <1>0, <1>1, <1>3, <2>1, <2>2, MissIs, AstrayStep
<1> QED
  BY <1>0, <1>2, <1>3

LEMMA ClaimStep ==
  ASSUME RosterInv, NEW p \in Roll!Here, NEW g \in People, Roll!Claim(p, g)
  PROVE  RosterInv'
<1>0. /\ game = "battleye" /\ Roll!Read(Roll!Identified(Roll!Line(p), g)) /\ lost' = lost
      /\ astray' = astray
      /\ claimed' = (claimed \/ g # p)
      /\ UNCHANGED <<game, seat, nick, side, unheard, trailing>>
  BY DEF Roll!Claim, Roll!Heard
<1>1. Places' /\ Roll!Here' = Roll!Here /\ claimed' \in BOOLEAN
  BY <1>0, PlacesStay DEF RosterInv, Roll!Here
<1>2. Counts'
  BY <1>0, <1>1, CountsStay DEF RosterInv, ClientsOf
<1>3. PICK l : l = Roll!Line(p)
  OBVIOUS
<1>4. l \in Lines /\ l.who = p /\ l.slot = seat[p] /\ l.name = nick[p]
  BY <1>3, LineOf DEF RosterInv
<1>5. Suits(l) /\ Roll!Cid(l) = Roll!Cid(Roll!Line(p))
  BY <1>4, SuitsIfHere
<1>6. PICK k : k = Roll!Ensured(l)
  OBVIOUS
<1>7. About(k, l) /\ k \in Client
  <2>1. About(Roll!Ensured(l), l)
    BY <1>0, <1>5, EnsuredAbout DEF RosterInv, Makes
  <2> QED
    BY <1>6, <2>1 DEF About, Titled
<1>8. PICK e : e = [k EXCEPT !.guid = IF k.guid = Roll!NoGuid THEN g ELSE k.guid]
  OBVIOUS
<1>9. /\ e \in Client /\ e.cid = k.cid /\ e.name = k.name /\ e.bot = k.bot
      /\ e.guid = (IF k.guid = Roll!NoGuid THEN g ELSE k.guid)
  BY <1>7, <1>8 DEF Client
<1>10. clients' = Roll!Put(clients, e)
  <2>1. Roll!Identified(Roll!Line(p), g) = {e}
    BY <1>0, <1>3, <1>6, <1>8 DEF Roll!Identified, Roll!BattlEyeIdentify, Roll!Ensured
  <2>2. Roll!Read({e})
    BY <1>0, <2>1
  <2> QED
    BY <2>2, ReadOne
<1>11. Fit(e, p)'
  <2>1. Titled(e)'
    BY <1>0, <1>7, <1>9 DEF About, Titled
  <2>2. e.cid = Roll!Cid(Roll!Line(p))'
    BY <1>0, <1>5, <1>7, <1>9 DEF About, Roll!Cid, Roll!Line
  <2>3. Good(e, p)'
    <3>1. \/ e.guid \in {Roll!NoGuid, p}
          \/ lost' > 0 \/ claimed'
      <4>1. CASE g = p
        <5>1. \/ k.guid \in {Roll!NoGuid, p}
              \/ lost > 0
              \/ claimed
          BY Zenon, <1>4, <1>7 DEF About
        <5>2. k.guid \in {Roll!NoGuid, p} => e.guid \in {Roll!NoGuid, p}
          BY <1>9, <4>1
        <5> QED
          BY <1>0, <5>1, <5>2
      <4>2. CASE g # p
        BY <1>0, <4>2
      <4> QED
        BY <4>1, <4>2
    <3>2. lost = 0 => (e.bot <=> p \in Bots)
      BY <1>4, <1>7, <1>9 DEF About
    <3>3. e.name = nick[p]
      BY <1>4, <1>7, <1>9 DEF About
    <3> QED
      BY Zenon, <1>0, <3>1, <3>2, <3>3 DEF Good
  <2> QED
    BY <2>1, <2>2, <2>3 DEF Fit
<1>12. \A q \in Roll!Here' \ (unheard' \cup {p}) : Stays(q)
  BY <1>0, <1>1 DEF Stays
<1>13. ClientsOf'
  BY <1>0, <1>1, <1>2, <1>10, <1>11, <1>12, PutStep DEF RosterInv
<1>14. Present'
  <2>1. e.cid = Roll!Cid(Roll!Line(p))'
    BY <1>11 DEF Fit
  <2>2. \A q \in Roll!Here : Roll!Cid(Roll!Line(q))' = Roll!Cid(Roll!Line(q))
    BY <1>0, CidStays
  <2>3. Roll!Here' = Roll!Here \cup {p}
    BY <1>1
  <2> QED
    BY <1>0, <1>10, <2>1, <2>2, <2>3, PresentPut DEF RosterInv
<1>15. Homefront'
  BY <1>0 DEF Homefront
<1> QED
  BY <1>1, <1>13, <1>14, <1>15 DEF RosterInv

LEMMA EnterStep ==
  ASSUME RosterInv, NEW p \in People, NEW s \in Slots, NEW n \in Names, Roll!Enter(p, s, n)
  PROVE  RosterInv'
<1>1. /\ Places' /\ Counts' /\ Roll!Here' = Roll!Here \cup {p}
      /\ \A q \in Roll!Here : q # p /\ seat'[q] = seat[q] /\ nick'[q] = nick[q]
  BY PlacesEnter DEF RosterInv, ClientsOf
<1> DEFINE m == IF game = "frostbite" THEN p ELSE n
<1>2. PICK l : l = [who |-> p, slot |-> s, name |-> m, side |-> Roll!Untold]
  OBVIOUS
<1>3. /\ p \notin Roll!Here /\ s \notin {seat[q] : q \in Roll!Here}
      /\ p \in Bots => game \in {"source", "altitude"}
      /\ seat' = [seat EXCEPT ![p] = s] /\ nick' = [nick EXCEPT ![p] = m]
      /\ UNCHANGED <<game, claimed, trailing>>
  BY DEF Roll!Enter, Roll!Settled
<1>4. \/ /\ Roll!Read(Roll!Joined(l)) /\ lost' = lost /\ unheard' = unheard \ {p}
         /\ astray' = (astray \/ game = "frontline")
      \/ Roll!Miss /\ unheard' = unheard \cup {p}
  <2> DEFINE k == [who |-> p, slot |-> s, name |-> n, side |-> Roll!Untold]
  <2>1. (IF game = "frostbite" THEN [k EXCEPT !.name = p] ELSE k) = l
    BY <1>2
  <2>2. \/ /\ Roll!Read(Roll!Joined(IF game = "frostbite" THEN [k EXCEPT !.name = p] ELSE k))
           /\ UNCHANGED lost /\ unheard' = unheard \ {p}
           /\ astray' = (astray \/ game = "frontline")
        \/ Roll!Miss /\ unheard' = unheard \cup {p}
    BY DEF Roll!Enter
  <2> QED
    BY <2>1, <2>2
<1>5. /\ l \in Lines /\ l.who = p /\ l.slot = s /\ l.name = m /\ seat'[p] = s /\ nick'[p] = m
      /\ game = "frostbite" => m = p
  BY <1>2, <1>3 DEF Lines, RosterInv, Places
<1> HIDE DEF m
<1>6. Suits(l)
  BY <1>3, <1>5, SuitsIfNew
<1>7. \A q \in Roll!Here' \ (unheard' \cup {p}) : Stays(q)
  BY <1>1, <1>4 DEF Stays
<1>8. CASE \/ Roll!Miss /\ unheard' = unheard \cup {p}
           \/ game = "frontline" /\ lost' = lost /\ astray' /\ Roll!Read(Roll!Joined(l))
  <2>1. /\ astray' /\ lost' \in {lost, lost + 1}
        /\ \A q \in Roll!Here' \ unheard' : Stays(q) \/ q = p
    BY <1>7, <1>8, MissIs
  <2>2. clients' \subseteq clients
    <3>1. game = "frontline" => Roll!Joined(l) = {}
      BY DEF Roll!Joined
    <3> QED
      BY <1>8, <3>1, MissIs, ReadNothing
  <2>3. CASE Roll!Miss /\ unheard' = unheard \cup {p}
    BY <1>1, <1>3, <2>1, <2>2, <2>3, AstrayStep
  <2>4. CASE game = "frontline" /\ lost' = lost
    <3>1. ClientsOf'
      <4> DEFINE P == {}
      <4>1. \A c \in clients' : Was(c)
        BY <2>2 DEF RosterInv, ClientsOf, Titled, Was
      <4>2. (\A c \in clients : Titled(c))'
        BY <1>3, <2>2 DEF RosterInv, ClientsOf, Titled
      <4>3. Own'
        <5>1. ASSUME NEW q \in Roll!Here', NEW c \in clients' PROVE Good(c, q)'
          <6>1. q \notin Bots /\ ~c.bot
            BY <1>1, <1>3, <2>2, <2>4, <5>1 DEF RosterInv, Places, ClientsOf, Titled
          <6> QED
            BY <1>3, <2>4, <6>1 DEF Good
        <5> QED
          BY <5>1 DEF Own, Roll!InSlot
      <4> QED
        BY <1>1, <2>2, <4>2, <4>3 DEF RosterInv, ClientsOf, OneEach
    <3>2. Present' /\ Homefront'
      BY <1>3, <2>1, <2>4 DEF Present, Homefront
    <3> QED
      BY <1>1, <3>1, <3>2 DEF RosterInv
  <2> QED
    BY <1>8, <2>3, <2>4
<1>9. CASE Roll!Read(Roll!Joined(l)) /\ lost' = lost /\ unheard' = unheard \ {p}
           /\ astray' = astray /\ game # "frontline"
  <2>1. PICK e : Roll!Joined(l) = {e} /\ About(e, l)
    <3>1. CASE game = "altitude"
      BY <1>6, <3>1, FreshFacts DEF Roll!Joined, Roll!AltitudeClientAdd
    <3>2. CASE game # "altitude"
      <4>1. game \in Makes
        BY <1>9, <3>2 DEF Makes, Titles, RosterInv, Places
      <4>2. About(Roll!Ensured(l), l)
        BY <1>6, <4>1, EnsuredAbout DEF RosterInv
      <4> QED
        BY <1>9, <3>2, <4>2 DEF Roll!Joined
    <3> QED
      BY <3>1, <3>2
  <2>2. clients' = Roll!Put(clients, e)
    <3>1. Roll!Read({e})
      BY <1>9, <2>1
    <3> QED
      BY <3>1, ReadOne
  <2>3. Roll!Cid(l) = Roll!Cid(Roll!Line(p))'
    BY <1>3, <1>5 DEF Roll!Cid, Roll!Line
  <2>4. \A q \in Roll!Here : Roll!Cid(Roll!Line(q))' = Roll!Cid(Roll!Line(q))
    BY <1>1, <1>3, CidStays
  <2>5. /\ p \in Roll!Here' /\ unheard \ {p} \subseteq unheard' /\ l.name = nick'[p]
        /\ \A q \in Roll!Here \ {p} : nick'[q] = nick[q]
    BY <1>1, <1>5, <1>9
  <2> QED
    BY <1>1, <1>3, <1>5, <1>7, <1>9, <2>1, <2>2, <2>3, <2>4, <2>5, OneRead
<1> QED
  <2>1. astray \in BOOLEAN
    BY DEF RosterInv, ClientsOf, Counts
  <2> QED
    BY <1>4, <1>8, <1>9, <2>1

LEMMA LeaveStep ==
  ASSUME RosterInv, NEW p \in Roll!Here, Roll!Leave(p)
  PROVE  RosterInv'
<1>1. /\ Places' /\ Counts' /\ Roll!Here' = Roll!Here \ {p}
      /\ \A q \in Roll!Here' : seat'[q] = seat[q] /\ nick'[q] = nick[q]
  BY PlacesLeave DEF RosterInv, ClientsOf
<1>2. /\ UNCHANGED <<game, unheard, claimed>>
      /\ \/ /\ clients' = clients \ Roll!Leavers(Roll!Line(p)) /\ lost' = lost
            /\ astray' = (astray \/ game = "frontline")
         \/ Roll!Miss
  BY DEF Roll!Leave
<1>3. \A q \in Roll!Here' \ unheard' : Stays(q)
  BY <1>1, <1>2 DEF Stays
<1>4. astray \in BOOLEAN
  BY DEF RosterInv, ClientsOf, Counts
<1>5. clients' \subseteq clients /\ lost' \in {lost, lost + 1}
  BY <1>2, MissIs
<1>6. CASE astray'
  BY <1>1, <1>2, <1>3, <1>5, <1>6, AstrayStep
<1>7. CASE ~astray'
  <2>1. clients' = clients \ Roll!Leavers(Roll!Line(p)) /\ lost' = lost /\ ~astray
        /\ game # "frontline"
    BY <1>2, <1>4, <1>7, MissIs
  <2>2. ClientsOf'
    BY <1>1, <1>2, <1>3, <1>5, FewerStep DEF RosterInv
  <2>3. PICK l : l = Roll!Line(p)
    OBVIOUS
  <2>4. l \in Lines /\ l.who = p /\ l.slot = seat[p] /\ l.name = nick[p]
    BY <2>3, LineOf DEF RosterInv
  <2>5. CASE game = "homefront"
    <3>1. clients' = {c \in clients : c.guid # p}
      BY <2>1, <2>3, <2>4, <2>5 DEF Roll!Leavers, Roll!HomefrontLogout, Roll!OfGuid
    <3>2. /\ \A c, d \in clients : c.guid = d.guid => c = d
          /\ \A c \in clients : c.guid \in Roll!Here /\ (c.guid \in unheard \/ c.cid = nick[c.guid])
          /\ \A q \in Roll!Here \ unheard : \E c \in clients : c.guid = q
      BY <2>1, <2>5 DEF RosterInv, Homefront
    <3>3. Homefront'
      BY <1>1, <1>2, <3>1, <3>2 DEF Homefront
    <3>4. Present'
      BY <1>2, <2>5 DEF Present
    <3> QED
      BY <1>1, <2>2, <3>3, <3>4 DEF RosterInv
  <2>6. CASE game # "homefront"
    <3>1. Roll!Leavers(l) = Roll!InSlot(Roll!Cid(l))
      <4>1. game \in Titles
        BY DEF RosterInv, Places
      <4>2. CASE game = "altitude"
        <5>1. lost = 0 /\ unheard = {}
          BY <2>1, <4>2 DEF RosterInv, ClientsOf, Counts, Keyed
        <5>2. Roll!Cid(l) = l.slot /\ Roll!Cid(Roll!Line(p)) = Roll!Cid(l)
          BY <2>3, <2>4, <4>2, CidOf
        <5>3. \A c \in Roll!InSlot(Roll!Cid(l)) : Good(c, p)
          BY <5>1, <5>2 DEF RosterInv, ClientsOf, Own
        <5>4. \A c \in Roll!InSlot(Roll!Cid(l)) : c.guid \in {Roll!NoGuid, p}
          BY <4>2, <5>3 DEF Good
        <5>5. Roll!Leavers(l) =
                {c \in Roll!InSlot(l.slot) :
                    Roll!NoGuid \in {c.guid, Roll!Guid(l.who)} \/ c.guid = l.who}
          BY <4>2 DEF Roll!Leavers, Roll!AltitudeClientRemove
        <5> QED
          BY <2>4, <5>2, <5>4, <5>5
      <4>3. CASE game \in {"source", "ravaged", "frostbite", "battleye"}
        BY <2>4, <4>3, CidOf
           DEF Roll!Leavers, Roll!SourceDisconnected, Roll!RavagedDisconnected, Roll!FrostbiteLeave,
               Roll!BattlEyeDisconnected
      <4> QED
        BY <2>1, <2>6, <4>1, <4>2, <4>3 DEF Titles
    <3>2. clients' = {c \in clients : c.cid # Roll!Cid(Roll!Line(p))}
      BY <2>1, <2>3, <3>1 DEF Roll!InSlot
    <3>3. {c.cid : c \in clients} = {Roll!Cid(Roll!Line(q)) : q \in Roll!Here}
      BY <2>1, <2>6 DEF RosterInv, Present
    <3>4. {c.cid : c \in clients'} = {Roll!Cid(Roll!Line(q)) : q \in Roll!Here'}
      <4>1. \A q \in Roll!Here' : Roll!Cid(Roll!Line(q)) # Roll!Cid(Roll!Line(p))
        BY <1>1, CidsDiffer DEF RosterInv
      <4> QED
        BY <1>1, <3>2, <3>3, <4>1
    <3>5. \A q \in Roll!Here' : Roll!Cid(Roll!Line(q))' = Roll!Cid(Roll!Line(q))
      BY <1>1, <1>2, CidStays
    <3>6. {Roll!Cid(Roll!Line(q))' : q \in Roll!Here'} = {Roll!Cid(Roll!Line(q)) : q \in Roll!Here'}
      BY <3>5
    <3>7. Present'
      BY <3>4, <3>6 DEF Present
    <3>8. Homefront'
      BY <1>2, <2>6 DEF Homefront
    <3> QED
      BY <1>1, <2>2, <3>7, <3>8 DEF RosterInv
  <2> QED
    BY <2>5, <2>6
<1> QED
  BY <1>6, <1>7

LEMMA UnassignedStep ==
  ASSUME RosterInv, Roll!Unassigned
  PROVE  RosterInv'
<1>1. PICK l \in trailing : Roll!Read(Roll!Changed(l)) /\ lost' = lost /\ astray' = astray
  BY DEF Roll!Unassigned, Roll!Heard
<1>2. trailing' = {} /\ UNCHANGED <<game, seat, nick, side, unheard, claimed>>
  BY DEF Roll!Unassigned
<1>3. game = "source" /\ l.side = Roll!NoTeam
  BY DEF RosterInv, ClientsOf, Counts
<1>4. Places' /\ Roll!Here' = Roll!Here
  BY <1>2, PlacesStay DEF RosterInv, Roll!Here
<1>5. Counts'
  BY <1>1, <1>2, <1>4 DEF RosterInv, ClientsOf, Counts
<1>6. Roll!Changed(l) = {[c EXCEPT !.team = l.side] : c \in Roll!InSlot(l.slot)}
  BY <1>3 DEF Roll!Changed, Roll!SourceChangeTeam
<1>7. CASE Roll!InSlot(l.slot) = {}
  <2>1. Roll!Changed(l) = {}
    BY <1>6, <1>7
  <2>2. clients' = clients
    BY <1>1, <2>1, ReadNothing
  <2>3. /\ \A q \in Roll!Here' \ unheard' : Stays(q)
        /\ \A q \in Roll!Here : Roll!Cid(Roll!Line(q))' = Roll!Cid(Roll!Line(q))
    BY <1>2, <1>4, CidStays DEF Stays
  <2> QED
    BY <1>1, <1>2, <1>4, <1>5, <2>2, <2>3, NothingRead
<1>8. CASE Roll!InSlot(l.slot) # {}
  <2>1. Roll!Changed(l) # {}
    BY <1>6, <1>8
  <2>2. PICK c \in Roll!InSlot(l.slot) : Roll!The(Roll!Changed(l)) = [c EXCEPT !.team = l.side]
    BY <1>6, <2>1, TheIn
  <2>3. clients' = Roll!Put(clients, [c EXCEPT !.team = Roll!NoTeam]) /\ c \in clients
    BY <1>1, <1>3, <2>1, <2>2 DEF Roll!Read, Roll!InSlot
  <2> QED
    BY <1>1, <1>2, <1>4, <1>5, <2>3, TeamRead
<1> QED
  BY <1>7, <1>8

LEMMA ActStep ==
  ASSUME RosterInv, NEW p \in Roll!Here, Roll!Act(p)
  PROVE  RosterInv'
<1>0. /\ game \in {"source", "ravaged", "frostbite"} /\ Roll!Read(Roll!Speakers(Roll!Line(p)))
      /\ UNCHANGED <<lost, astray, seat, nick, side, unheard, game, claimed, trailing>>
  BY DEF Roll!Act, Roll!Heard, Roll!Settled
<1>1. Places' /\ claimed \in BOOLEAN
  BY <1>0, PlacesStay DEF RosterInv, ClientsOf, Counts
<1>2. PICK l : l = Roll!Line(p)
  OBVIOUS
<1>3. l \in Lines /\ l.who = p /\ l.slot = seat[p] /\ l.name = nick[p]
  BY <1>2, LineOf DEF RosterInv
<1>4. About(Roll!Ensured(l), l)
  BY <1>0, <1>3, SuitsIfHere, EnsuredAbout DEF RosterInv, Makes
<1>5. PICK e : e = Roll!Ensured(l)
  OBVIOUS
<1>6. Roll!Read({e})
  BY <1>0, <1>2, <1>5 DEF Roll!Speakers
<1> QED
  BY <1>0, <1>1, <1>3, <1>4, <1>5, <1>6, ReadAbout

\* Of the titles whose lines always make a client, the client that is told to be on a team.
LEMMA TeamTold ==
  ASSUME RosterInv, NEW l, Suits(l), NEW t \in Roll!Sides \cup {Roll!NoTeam}, game \in Makes
  PROVE  About([Roll!Ensured(l) EXCEPT !.team = t], l)
<1> DEFINE k == Roll!Ensured(l)
           d == [k EXCEPT !.team = t]
<1>1. About(k, l) /\ k \in Client
  BY EnsuredAbout DEF RosterInv, About, Titled
<1> HIDE DEF k
<1>2. d \in Client /\ d.guid = k.guid /\ d.cid = k.cid /\ d.name = k.name /\ d.bot = k.bot
  BY <1>1 DEF Client
<1> HIDE DEF d
<1>3. About(d, l)
  BY <1>1, <1>2, Retold
<1> QED
  BY <1>3 DEF d, k

LEMMA ChangeTeamStep ==
  ASSUME RosterInv, NEW p \in Roll!Here, NEW t \in Roll!Sides, Roll!ChangeTeam(p, t)
  PROVE  RosterInv'
<1>1. Places' /\ Counts' /\ Roll!Here' = Roll!Here /\ claimed \in BOOLEAN
  BY PlacesChangeTeam DEF RosterInv, ClientsOf, Counts
<1>2. PICK l : l = [Roll!Line(p) EXCEPT !.side = t]
  OBVIOUS
<1>3. UNCHANGED <<seat, nick, unheard, game, claimed, trailing>>
  BY DEF Roll!ChangeTeam, Roll!Settled
<1>4. \/ Roll!Read(Roll!Changed(l)) /\ lost' = lost /\ astray' = astray
      \/ Roll!Miss
      \/ clients' = clients /\ lost' = lost /\ astray' = astray
  BY <1>2 DEF Roll!ChangeTeam, Roll!Heard
<1>5. l \in Lines /\ l.who = p /\ l.slot = seat[p] /\ l.name = nick[p] /\ l.side = t
  BY <1>2, LineOf DEF RosterInv, Lines, Roll!Line
<1>6. /\ \A q \in Roll!Here' \ unheard' : Stays(q)
      /\ \A q \in Roll!Here : Roll!Cid(Roll!Line(q))' = Roll!Cid(Roll!Line(q))
  BY <1>1, <1>3, CidStays DEF Stays
<1>7. CASE Roll!Miss
  BY <1>1, <1>3, <1>6, <1>7, MissIs, AstrayStep
<1>8. CASE clients' = clients /\ lost' = lost /\ astray' = astray
  BY <1>1, <1>3, <1>6, <1>8, NothingRead
<1>9. CASE Roll!Read(Roll!Changed(l)) /\ lost' = lost /\ astray' = astray
  <2>1. CASE game \in {"source", "ravaged", "frostbite"}
    <3>1. Suits(l)
      BY <1>5, SuitsIfHere
    <3>2. PICK e : e = [Roll!Ensured(l) EXCEPT !.team = t]
      OBVIOUS
    <3>3. About(e, l)
      BY <2>1, <3>1, <3>2, TeamTold DEF Makes
    <3>4. Roll!Changed(l) = {e}
      <4>1. t # Roll!NoTeam
        BY DEF Roll!Sides, Roll!NoTeam
      <4> QED
        BY <1>5, <2>1, <3>2, <4>1
           DEF Roll!Changed, Roll!SourceChangeTeam, Roll!RavagedJoinedTeam,
               Roll!FrostbiteTeamChange, Roll!Ensured
    <3>5. Roll!Read({e})
      BY <1>9, <3>4
    <3> QED
      BY <1>1, <1>3, <1>5, <1>9, <3>3, <3>5, ReadAbout
  <2>2. CASE game \in {"altitude", "homefront"}
    <3> DEFINE S == IF game = "altitude" THEN Roll!InSlot(l.slot) ELSE Roll!OfGuid(l.who)
    <3>1. S \subseteq clients
      BY DEF Roll!InSlot, Roll!OfGuid
    <3>2. Roll!Changed(l) = {[c EXCEPT !.team = l.side] : c \in S}
      BY <2>2 DEF Roll!Changed, Roll!AltitudeTeamChange, Roll!HomefrontTeamChange
    <3> HIDE DEF S
    <3>3. CASE S = {}
      <4>1. Roll!Changed(l) = {}
        BY <3>2, <3>3
      <4>2. clients' = clients
        BY <1>9, <4>1, ReadNothing
      <4> QED
        BY <1>1, <1>3, <1>6, <1>9, <4>2, NothingRead
    <3>4. CASE S # {}
      <4>1. Roll!Changed(l) # {}
        BY <3>2, <3>4
      <4>2. PICK c \in S : Roll!The(Roll!Changed(l)) = [c EXCEPT !.team = l.side]
        BY <3>2, <4>1, TheIn
      <4>3. clients' = Roll!Put(clients, [c EXCEPT !.team = t]) /\ c \in clients
        BY <1>5, <1>9, <3>1, <4>1, <4>2 DEF Roll!Read
      <4> QED
        BY <1>1, <1>3, <1>9, <4>3, TeamRead
    <3> QED
      BY <3>3, <3>4
  <2>3. CASE game \notin {"source", "ravaged", "frostbite", "altitude", "homefront"}
    <3>1. Roll!Changed(l) = {}
      BY <2>3 DEF Roll!Changed
    <3>2. clients' = clients
      BY <1>9, <3>1, ReadNothing
    <3> QED
      BY <1>1, <1>3, <1>6, <1>9, <3>2, NothingRead
  <2> QED
    BY <2>1, <2>2, <2>3
<1> QED
  BY <1>4, <1>7, <1>8, <1>9

LEMMA RenameStep ==
  ASSUME RosterInv, NEW p \in Roll!Here, NEW n \in Names, Roll!Rename(p, n)
  PROVE  RosterInv'
<1>1. /\ Places' /\ Counts' /\ Roll!Here' = Roll!Here /\ UNCHANGED seat
      /\ \A q \in Roll!Here : q # p => nick'[q] = nick[q]
  BY PlacesRename DEF RosterInv, ClientsOf
<1>2. /\ nick' = [nick EXCEPT ![p] = n] /\ UNCHANGED <<side, game, claimed, trailing, lost, astray>>
      /\ \/ Roll!RenameLine(Roll!Line(p), n) /\ unheard' = unheard
         \/ /\ game \in {"homefront", "frontline"} /\ clients' = clients
            /\ unheard' = unheard \cup {p}
  BY DEF Roll!Rename, Roll!Settled, Roll!Heard
<1>3. CASE game \in {"homefront", "frontline"} /\ clients' = clients /\ unheard' = unheard \cup {p}
  <2>1. \A q \in Roll!Here' \ unheard' : Stays(q)
    BY <1>1, <1>3 DEF Stays
  <2>2. game # "homefront" => \A q \in Roll!Here : Roll!Cid(Roll!Line(q))' = Roll!Cid(Roll!Line(q))
    BY <1>1, <1>2, <1>3 DEF Roll!Cid, Roll!Line
  <2> QED
    BY <1>1, <1>2, <1>3, <2>1, <2>2, NothingRead
<1>4. CASE Roll!RenameLine(Roll!Line(p), n) /\ unheard' = unheard
  <2>0. game = "source" /\ Roll!Read({[Roll!Ensured(Roll!Line(p)) EXCEPT !.name = n]})
    BY <1>4 DEF Roll!RenameLine
  <2>1. PICK l : l = Roll!Line(p)
    OBVIOUS
  <2>2. l \in Lines /\ l.who = p /\ l.slot = seat[p] /\ l.name = nick[p] /\ p \in People
    BY <2>1, LineOf DEF RosterInv
  <2>3. PICK k : k = Roll!Ensured(l)
    OBVIOUS
  <2>4. About(k, l) /\ k \in Client
    BY <2>0, <2>2, <2>3, SuitsIfHere, EnsuredAbout DEF RosterInv, Makes, About, Titled
  <2>5. PICK e : e = [k EXCEPT !.name = n]
    OBVIOUS
  <2>6. e \in Client /\ e.cid = k.cid /\ e.guid = k.guid /\ e.bot = k.bot /\ e.name = n
    BY <2>4, <2>5 DEF Client
  <2>7. PICK m : m = [l EXCEPT !.name = n]
    OBVIOUS
  <2>8. m.who = p /\ m.slot = seat[p] /\ m.name = n /\ Roll!Cid(m) = Roll!Cid(l)
    BY <2>0, <2>2, <2>7 DEF Lines, Roll!Cid
  <2>9. About(e, m)
    BY <2>0, <2>2, <2>4, <2>6, <2>8 DEF About, Titled
  <2>10. clients' = Roll!Put(clients, e)
    <3>1. Roll!Read({e})
      BY <2>0, <2>1, <2>3, <2>5
    <3> QED
      BY <3>1, ReadOne
  <2>11. \A q \in Roll!Here : Roll!Cid(Roll!Line(q))' = Roll!Cid(Roll!Line(q))
    BY <1>1, <1>2, <2>0 DEF Roll!Cid, Roll!Line
  <2>12. /\ p \in Roll!Here' /\ Roll!Here' = Roll!Here \cup {p} /\ m.name = nick'[p]
         /\ \A q \in Roll!Here' \ (unheard' \cup {p}) : Stays(q)
         /\ Roll!Cid(m) = Roll!Cid(Roll!Line(p))'
         /\ unheard \ {p} \subseteq unheard'
         /\ \A q \in Roll!Here \ {p} : nick'[q] = nick[q]
    BY <1>1, <1>2, <1>4, <2>1, <2>2, <2>8, <2>11 DEF Stays, RosterInv, Places
  <2> QED
    BY <1>1, <1>2, <2>8, <2>9, <2>10, <2>11, <2>12, OneRead
<1> QED
  BY <1>2, <1>3, <1>4

LEMMA KillStep ==
  ASSUME RosterInv, NEW a \in Roll!Here, NEW v \in Roll!Here, Roll!Kill(a, v)
  PROVE  RosterInv'
<1>0. /\ game \in {"source", "ravaged", "frostbite"}
      /\ clients' = Roll!Put(Roll!Put(clients, Roll!The(Roll!Fighter(Roll!Line(v)))),
                             Roll!The(Roll!Fighter(Roll!Line(a))))
      /\ UNCHANGED <<lost, astray, seat, nick, side, unheard, game, claimed, trailing>>
  BY DEF Roll!Kill, Roll!Heard, Roll!Settled
<1>1. Places' /\ Roll!Here' = Roll!Here /\ claimed \in BOOLEAN
  BY <1>0, PlacesStay DEF RosterInv, ClientsOf, Counts, Roll!Here
<1>2. Counts'
  BY <1>0, <1>1, CountsStay DEF RosterInv, ClientsOf
<1>3. ASSUME NEW p \in Roll!Here PROVE Fit(Roll!The(Roll!Fighter(Roll!Line(p))), p)
  <2>1. PICK l : l = Roll!Line(p)
    OBVIOUS
  <2>2. l \in Lines /\ l.who = p /\ l.slot = seat[p] /\ l.name = nick[p] /\ p \in People
    BY <2>1, LineOf DEF RosterInv
  <2>3. About(Roll!Ensured(l), l)
    BY <1>0, <2>2, SuitsIfHere, EnsuredAbout DEF RosterInv, Makes
  <2>4. Roll!The(Roll!Fighter(Roll!Line(p))) = Roll!Ensured(l)
    BY <1>0, <2>1, TheOne DEF Roll!Fighter
  <2>5. PICK e : e = Roll!Ensured(l)
    OBVIOUS
  <2>6. Fit(e, p)
    <3>1. About(e, l)
      BY <2>3, <2>5
    <3>2. Good(e, p)
      BY <1>0, <2>2, <3>1 DEF About, Good
    <3> QED
      BY <2>1, <3>1, <3>2 DEF Fit, About
  <2> QED
    BY <2>4, <2>5, <2>6
<1>4. PICK x, y : /\ x = Roll!The(Roll!Fighter(Roll!Line(v)))
                /\ y = Roll!The(Roll!Fighter(Roll!Line(a)))
  OBVIOUS
<1>5. /\ Fit(x, v) /\ Fit(y, a) /\ clients' = Roll!Put(Roll!Put(clients, x), y)
  BY <1>0, <1>3, <1>4
<1>6. /\ Fit(x, v)' /\ Fit(y, a)'
      /\ x.cid = Roll!Cid(Roll!Line(v)) /\ y.cid = Roll!Cid(Roll!Line(a))
      /\ \A q \in Roll!Here : Roll!Cid(Roll!Line(q))' = Roll!Cid(Roll!Line(q))
  BY <1>0, <1>5, CidStays DEF Fit, Titled, Good, Roll!Cid, Roll!Line
<1>7. /\ \A c \in clients' : c = y \/ c.cid # y.cid
      /\ \A c \in clients' : c \in {x, y} \/ c.cid \notin {x.cid, y.cid}
      /\ \A c \in clients' : c \in {x, y} \/ c \in clients
      /\ y \in clients' /\ (x \in clients' \/ x.cid = y.cid)
      /\ \A c \in clients : c \in clients' \/ c.cid \in {x.cid, y.cid}
  BY <1>0, <1>5 DEF Roll!Put
<1>8. ClientsOf'
  <2> DEFINE P == {a, v}
  <2>1. P \subseteq Roll!Here' /\ \A q \in Roll!Here' \ (unheard' \cup P) : Stays(q)
    BY <1>0, <1>1 DEF Stays
  <2>2. \A c \in clients' : \/ \E p \in P : Fit(c, p)'
                            \/ Was(c) /\ \A p \in P : c.cid # Roll!Cid(Roll!Line(p))'
    <3> SUFFICES ASSUME NEW c \in clients', c \notin {x, y}
                 PROVE  Was(c) /\ \A p \in P : c.cid # Roll!Cid(Roll!Line(p))'
      BY <1>6
    <3>1. c \in clients /\ c.cid # x.cid /\ c.cid # y.cid
      BY <1>7
    <3> QED
      BY <1>6, <3>1 DEF Was, RosterInv, ClientsOf, Titled
  <2> HIDE DEF P
  <2>3. lost' \in {lost, lost + 1} /\ game' = game /\ (claimed => claimed')
    BY <1>0
  <2>4. (\A c \in clients : Titled(c))' /\ Own'
    BY <1>1, <2>1, <2>2, <2>3, OwnStep DEF RosterInv
  <2>5. OneEach'
    BY <1>7 DEF RosterInv, ClientsOf, OneEach
  <2> QED
    BY <1>2, <2>4, <2>5 DEF ClientsOf
<1>9. {c.cid : c \in clients'} = {c.cid : c \in clients} \cup {x.cid, y.cid}
  BY <1>7
<1>10. Present'
  <2> SUFFICES ASSUME ~astray
               PROVE {c.cid : c \in clients'} = {Roll!Cid(Roll!Line(q))' : q \in Roll!Here'}
    BY <1>0 DEF Present
  <2>1. {c.cid : c \in clients} = {Roll!Cid(Roll!Line(q)) : q \in Roll!Here}
    BY <1>0 DEF RosterInv, Present
  <2>2. {x.cid, y.cid} \subseteq {Roll!Cid(Roll!Line(q)) : q \in Roll!Here}
    BY <1>6
  <2>3. {Roll!Cid(Roll!Line(q))' : q \in Roll!Here'} = {Roll!Cid(Roll!Line(q)) : q \in Roll!Here}
    BY <1>1, <1>6
  <2> QED
    BY <1>9, <2>1, <2>2, <2>3
<1>11. Homefront'
  BY <1>0 DEF Homefront
<1> QED
  BY <1>1, <1>8, <1>10, <1>11 DEF RosterInv

LEMMA PlayerRowStep ==
  ASSUME RosterInv, NEW p \in Roll!Here, Roll!PlayerRow(p),
         UNCHANGED <<game, seat, nick, side, claimed, trailing, lost>>
  PROVE  RosterInv'
<1>0. /\ game = "homefront" /\ Roll!Read({[Roll!Ensured(Roll!Line(p)) EXCEPT !.team = side[p]]})
      /\ unheard' = unheard \ {p} /\ astray' = astray
  BY DEF Roll!PlayerRow
<1>1. Places' /\ claimed \in BOOLEAN
  BY PlacesStay DEF RosterInv, ClientsOf, Counts
<1>2. PICK l : l = Roll!Line(p)
  OBVIOUS
<1>3. l \in Lines /\ l.who = p /\ l.slot = seat[p] /\ l.name = nick[p]
  BY <1>2, LineOf DEF RosterInv
<1>4. PICK e : e = [Roll!Ensured(l) EXCEPT !.team = side[p]]
  OBVIOUS
<1>5. About(e, l)
  <2>1. side[p] \in Roll!Sides \cup {Roll!NoTeam}
    BY LineOf DEF RosterInv
  <2> QED
    BY <1>0, <1>3, <1>4, <2>1, SuitsIfHere, TeamTold DEF Makes
<1>6. Roll!Read({e})
  BY <1>0, <1>2, <1>4
<1> QED
  BY <1>0, <1>1, <1>3, <1>5, <1>6, ReadAbout

LEMMA ReadPlayersStep ==
  ASSUME RosterInv, Roll!ReadPlayers, UNCHANGED <<game, seat, nick, side, claimed, trailing, lost>>
  PROVE  RosterInv'
<1> DEFINE row(p) == Roll!Ensured([Roll!Line(p) EXCEPT !.side = Roll!Untold])
<1>0. /\ game = "ravaged" /\ unheard' = {} /\ astray' = astray
      /\ clients' = {c \in clients : c.cid \notin Roll!Here} \cup {row(p) : p \in Roll!Here}
  BY DEF Roll!ReadPlayers
<1>1. Places' /\ Roll!Here' = Roll!Here
  BY PlacesStay DEF RosterInv, Roll!Here
<1>2. Counts'
  <2>1. unheard' \subseteq unheard
    BY <1>0
  <2> QED
    BY <1>0, <2>1, CountsStay DEF RosterInv, ClientsOf, Counts
<1>3. ASSUME NEW p \in Roll!Here PROVE Titled(row(p)) /\ row(p).cid = p
  <2>1. PICK l : l = [Roll!Line(p) EXCEPT !.side = Roll!Untold]
    OBVIOUS
  <2>2. l \in Lines /\ l.who = p /\ l.slot = seat[p] /\ l.name = nick[p]
    BY <2>1, LineOf DEF RosterInv, Lines, Roll!Line
  <2>3. About(Roll!Ensured(l), l) /\ Roll!Cid(l) = p
    BY <1>0, <2>2, SuitsIfHere, EnsuredAbout, CidOf DEF RosterInv, Makes
  <2> QED
    BY <2>1, <2>3 DEF About
<1> HIDE DEF row
<1>4. \A c \in clients' : Titled(c) /\ (c.cid \in Roll!Here => c = row(c.cid))
  BY <1>0, <1>3 DEF RosterInv, ClientsOf
<1>5. (\A c \in clients : Titled(c))'
  BY <1>4 DEF Titled
<1>6. Own'
  <2>1. ASSUME NEW q \in Roll!Here, NEW c \in clients', c.cid = Roll!Cid(Roll!Line(q))'
        PROVE  Good(c, q)'
    <3>1. c.cid = q
      BY <1>0, <2>1 DEF Roll!Cid, Roll!Line
    <3>2. c.guid = q /\ ~c.bot /\ q \notin Bots
      BY <1>0, <1>4, <2>1, <3>1 DEF Titled, RosterInv, Places
    <3> QED
      BY <1>0, <3>2 DEF Good
  <2> QED
    BY <1>1, <2>1 DEF Own, Roll!InSlot
<1>7. OneEach'
  <2>1. ASSUME NEW c \in clients', NEW d \in clients', c.cid = d.cid PROVE c = d
    <3>1. CASE c.cid \in Roll!Here
      BY <1>4, <2>1, <3>1
    <3>2. CASE c.cid \notin Roll!Here
      <4>1. c \in clients /\ d \in clients
        BY <1>0, <1>3, <2>1, <3>2
      <4> QED
        BY <2>1, <4>1 DEF RosterInv, ClientsOf, OneEach
    <3> QED
      BY <3>1, <3>2
  <2> QED
    BY <2>1 DEF OneEach
<1>8. Present'
  <2> SUFFICES ASSUME ~astray
               PROVE {c.cid : c \in clients'} = {Roll!Cid(Roll!Line(q))' : q \in Roll!Here'}
    BY <1>0 DEF Present
  <2>1. {Roll!Cid(Roll!Line(q)) : q \in Roll!Here} = Roll!Here
        /\ {Roll!Cid(Roll!Line(q))' : q \in Roll!Here'} = Roll!Here
    BY <1>0, <1>1 DEF Roll!Cid, Roll!Line
  <2>2. {c.cid : c \in clients} = Roll!Here
    BY <1>0, <2>1 DEF RosterInv, Present
  <2>3. {c.cid : c \in clients'} = Roll!Here
    <3>1. \A c \in clients' : c.cid \in Roll!Here
      BY <1>0, <1>3, <2>2
    <3>2. \A p \in Roll!Here : row(p) \in clients' /\ row(p).cid = p
      BY <1>0, <1>3
    <3> QED
      BY <3>1, <3>2
  <2> QED
    BY <2>1, <2>3
<1>9. Homefront'
  BY <1>0 DEF Homefront
<1> QED
  BY <1>1, <1>2, <1>5, <1>6, <1>7, <1>8, <1>9 DEF RosterInv, ClientsOf

LEMMA PlayerListStep ==
  ASSUME RosterInv, NEW read \in SUBSET Roll!Here, NEW known \in SUBSET Roll!Here,
         Roll!PlayerList(read, known),
         UNCHANGED <<game, seat, nick, side, claimed, trailing, lost>>
  PROVE  RosterInv'
<1> DEFINE updated(c, l) ==
             [c EXCEPT !.name = l.name, !.team = IF l.side = Roll!NoTeam THEN @ ELSE l.side]
           row(p) == LET l == Roll!Line(p) IN
                     IF Roll!InSlot(l.slot) # {} THEN {updated(Roll!The(Roll!InSlot(l.slot)), l)}
                     ELSE IF p \in known THEN {[Roll!Fresh(l) EXCEPT !.team = l.side]} ELSE {}
           slots == {seat[p] : p \in read}
<1>0. /\ game = "frontline" /\ astray' = (read # Roll!Here \/ known # Roll!Here)
      /\ unheard' = unheard \ (read \cap known)
      /\ clients' = (UNION {row(p) : p \in read})
         \cup {c \in clients : c.cid \notin slots /\ read # Roll!Here}
  BY DEF Roll!PlayerList
<1>1. Places' /\ Roll!Here' = Roll!Here
  BY PlacesStay DEF RosterInv, Roll!Here
<1>2. Counts'
  BY <1>0 DEF RosterInv, ClientsOf, Counts, Keyed
<1>3. ASSUME NEW p \in Roll!Here
      PROVE  /\ \E e : row(p) \in {{}, {e}} /\ (p \in known => row(p) = {e})
             /\ \A c \in row(p) : Titled(c) /\ c.cid = seat[p]
  <2>1. PICK l : l = Roll!Line(p)
    OBVIOUS
  <2>2. /\ l \in Lines /\ l.who = p /\ l.slot = seat[p] /\ l.name = nick[p]
        /\ l.side \in Roll!Sides \cup {Roll!NoTeam} /\ p \in People /\ seat[p] \in Slots
    BY <2>1, LineOf DEF RosterInv
  <2>3. p \notin Bots
    BY <1>0 DEF RosterInv, Places
  <2>4. CASE Roll!InSlot(l.slot) # {}
    <3>1. PICK c : c = Roll!The(Roll!InSlot(l.slot))
      OBVIOUS
    <3>2. c \in clients /\ Titled(c) /\ c.cid = seat[p]
      BY <2>2, <2>4, <3>1, TheIn DEF Roll!InSlot, RosterInv, ClientsOf
    <3>3. PICK e : e = updated(c, l)
      OBVIOUS
    <3>4. PICK t : t = IF l.side = Roll!NoTeam THEN c.team ELSE l.side
      OBVIOUS
    <3>5. e = [c EXCEPT !.name = l.name, !.team = t] /\ c \in Client
      BY <3>2, <3>3, <3>4 DEF Titled
    <3>6. t \in Roll!Sides \cup {Roll!NoTeam} /\ l.name \in Names \cup People
      BY <2>2, <3>4, <3>5 DEF Client, Lines
    <3>7. e \in Client /\ e.cid = c.cid /\ e.bot = c.bot
      BY <3>5, <3>6 DEF Client
    <3>8. Titled(e) /\ e.cid = seat[p]
      BY <1>0, <3>2, <3>7 DEF Titled
    <3>9. row(p) = {e}
      BY <2>1, <2>4, <3>1, <3>3
    <3> HIDE DEF row
    <3> QED
      BY <3>8, <3>9
  <2>5. CASE Roll!InSlot(l.slot) = {} /\ p \in known
    <3>1. PICK e : e = [Roll!Fresh(l) EXCEPT !.team = l.side]
      OBVIOUS
    <3>2. Roll!Cid(l) = seat[p] /\ seat[p] \in Cids
      BY <1>0, <2>2, CidOf DEF Cids
    <3>3. PICK f : f = Roll!Fresh(l)
      OBVIOUS
    <3>4. /\ f \in Client /\ f.cid = seat[p] /\ ~f.bot
      BY <2>2, <2>3, <3>2, <3>3, FreshFields
    <3>4a. e \in Client /\ e.cid = seat[p] /\ ~e.bot
      BY <2>2, <3>1, <3>3, <3>4 DEF Client
    <3>5. Titled(e)
      BY <1>0, <3>4a DEF Titled
    <3>6. row(p) = {e}
      BY <2>1, <2>5, <3>1
    <3> HIDE DEF row
    <3> QED
      BY <3>4a, <3>5, <3>6
  <2>6. CASE Roll!InSlot(l.slot) = {} /\ p \notin known
    <3>1. row(p) = {}
      BY <2>1, <2>6
    <3> HIDE DEF row
    <3> QED
      BY <2>6, <3>1
  <2> QED
    BY <2>4, <2>5, <2>6
<1> HIDE DEF row
<1>3a. \A p \in Roll!Here : \A c \in row(p) : Titled(c) /\ c.cid = seat[p]
  BY <1>3
<1>4. \A c \in clients' : \/ \E p \in read : c \in row(p)
                          \/ c \in clients /\ c.cid \notin slots
  BY <1>0
<1>5. \A c \in clients' : Titled(c)
  BY <1>3, <1>4 DEF RosterInv, ClientsOf
<1>6. (\A c \in clients : Titled(c))'
  BY <1>5 DEF Titled
<1>7. Own'
  <2>1. ASSUME NEW q \in Roll!Here, NEW c \in clients' PROVE Good(c, q)'
    <3>1. ~c.bot /\ q \notin Bots
      BY <1>0, <1>5 DEF Titled, RosterInv, Places
    <3> QED
      BY <1>0, <3>1 DEF Good
  <2> QED
    BY <1>1, <2>1 DEF Own, Roll!InSlot
<1>8. OneEach'
  <2>1. ASSUME NEW c \in clients', NEW d \in clients', c.cid = d.cid PROVE c = d
    <3>1. CASE \E p \in read : c \in row(p)
      <4>1. PICK p \in read : c \in row(p)
        BY <3>1
      <4>2. c.cid = seat[p] /\ seat[p] \in slots
        BY <1>3, <4>1
      <4>3. PICK q \in read : d \in row(q)
        BY <1>4, <2>1, <4>2
      <4>4. q = p
        <5>1. d.cid = seat[q] /\ seat[q] = seat[p] /\ p \in Roll!Here /\ q \in Roll!Here
          BY <1>3a, <2>1, <4>2, <4>3
        <5> QED
          BY <5>1 DEF RosterInv, Places
      <4> QED
        BY <1>3, <4>1, <4>3, <4>4
    <3>2. CASE c \in clients /\ c.cid \notin slots
      <4>1. d \in clients
        BY <1>3, <1>4, <2>1, <3>2
      <4> QED
        BY <2>1, <3>2, <4>1 DEF RosterInv, ClientsOf, OneEach
    <3> QED
      BY <1>4, <3>1, <3>2
  <2> QED
    BY <2>1 DEF OneEach
<1>9. Present'
  <2> SUFFICES ASSUME read = Roll!Here, known = Roll!Here
               PROVE  {c.cid : c \in clients'} = {Roll!Cid(Roll!Line(q))' : q \in Roll!Here'}
    BY <1>0 DEF Present
  <2>1. {Roll!Cid(Roll!Line(q))' : q \in Roll!Here'} = {seat[q] : q \in Roll!Here}
    <3>1. \A q \in Roll!Here : Roll!Cid(Roll!Line(q))' = seat[q]
      BY <1>0 DEF Roll!Cid, Roll!Line
    <3> QED
      BY <1>1, <3>1
  <2>2. clients' = UNION {row(p) : p \in Roll!Here}
    BY <1>0
  <2>3. \A p \in Roll!Here : \E c \in row(p) : c.cid = seat[p]
    BY <1>3
  <2> QED
    BY <1>3, <2>1, <2>2, <2>3
<1>10. Homefront'
  BY <1>0 DEF Homefront
<1> QED
  BY <1>1, <1>2, <1>6, <1>7, <1>8, <1>9, <1>10 DEF RosterInv, ClientsOf

LEMMA ReconcileStep ==
  ASSUME RosterInv, Roll!Reconcile, UNCHANGED <<game, seat, nick, side, claimed, trailing, lost>>
  PROVE  RosterInv'
<1> DEFINE kept(c, p) == c.guid \in {Roll!NoGuid, p}
           adopted(p) == [Roll!Fresh(Roll!Line(p)) EXCEPT !.guid = Roll!Guid(p)]
           own(p) == {c \in Roll!InSlot(Roll!Cid(Roll!Line(p))) : kept(c, p)}
           row(p) == IF own(p) = {} THEN adopted(p)
                     ELSE IF game = "frostbite" /\ side[p] # Roll!NoTeam
                          THEN [Roll!The(own(p)) EXCEPT !.team = side[p]] ELSE Roll!The(own(p))
<1>0. /\ game \in {"source", "battleye", "frostbite"} /\ unheard' = {} /\ astray' = FALSE
      /\ clients' = {row(p) : p \in Roll!Here}
  BY DEF Roll!Reconcile
<1>1. Places' /\ Roll!Here' = Roll!Here
  BY PlacesStay DEF RosterInv, Roll!Here
<1>2. Counts'
  BY <1>0, <1>1 DEF RosterInv, ClientsOf, Counts
<1>3. ASSUME NEW p \in Roll!Here PROVE Fit(row(p), p)
  <2>1. PICK l : l = Roll!Line(p)
    OBVIOUS
  <2>2. /\ l \in Lines /\ l.who = p /\ l.slot = seat[p] /\ l.name = nick[p]
        /\ side[p] \in Roll!Sides \cup {Roll!NoTeam} /\ p \in People
    BY <2>1, LineOf DEF RosterInv
  <2>3. Suits(l) /\ Roll!Cid(l) = Roll!Cid(Roll!Line(p))
    BY <2>2, SuitsIfHere
  <2>4. CASE own(p) = {}
    <3>1. PICK f : f = Roll!Fresh(l)
      OBVIOUS
    <3>2. About(f, l) /\ f \in Client
      BY <1>0, <2>3, <3>1, FreshFacts DEF About, Titled
    <3>3. PICK e : e = [f EXCEPT !.guid = Roll!Guid(p)]
      OBVIOUS
    <3>4. Roll!Guid(p) \in {Roll!NoGuid, p}
      BY DEF Roll!Guid
    <3>5. e \in Client /\ e.guid \in {Roll!NoGuid, p} /\ e.cid = f.cid /\ e.name = f.name
          /\ e.bot = f.bot
      BY <2>2, <3>2, <3>3, <3>4 DEF Client
    <3>6. About(e, l)
      <4>1. \/ e.guid \in {f.guid, l.who}
            \/ e.guid = Roll!NoGuid /\ game \notin {"ravaged", "homefront"}
        BY <1>0, <2>2, <3>5
      <4> QED
        BY <2>3, <3>2, <3>5, <4>1, Retold
    <3>7. Fit(e, p)
      BY <2>2, <2>3, <3>5, <3>6 DEF About, Fit, Good
    <3>8. row(p) = e
      BY <2>1, <2>4, <3>1, <3>3
    <3> HIDE DEF row
    <3> QED
      BY <3>7, <3>8
  <2>5. CASE own(p) # {}
    <3>1. PICK c : c = Roll!The(own(p))
      OBVIOUS
    <3>2. c \in clients /\ Titled(c) /\ c.cid = Roll!Cid(l) /\ c.guid \in {Roll!NoGuid, p}
          /\ c \in Roll!InSlot(Roll!Cid(Roll!Line(p)))
      <4>1. c \in own(p)
        BY <2>5, <3>1, TheIn
      <4> QED
        BY <2>3, <4>1 DEF Roll!InSlot, RosterInv, ClientsOf
    <3>3. /\ lost = 0 => (c.bot <=> p \in Bots)
          /\ game = "battleye" /\ lost = 0 => c.name = nick[p]
      <4> SUFFICES ASSUME lost = 0
                   PROVE  (c.bot <=> p \in Bots) /\ (game = "battleye" => c.name = nick[p])
        OBVIOUS
      <4>1. unheard = {}
        BY <1>0 DEF RosterInv, ClientsOf, Counts, Keyed
      <4>2. Good(c, p)
        BY <3>2, <4>1 DEF RosterInv, ClientsOf, Own
      <4> QED
        BY <4>2 DEF Good
    <3>4. PICK e : e = row(p)
      OBVIOUS
    <3>5. e \in {c, [c EXCEPT !.team = side[p]]}
      BY <2>5, <3>1, <3>4
    <3>6. e \in Client /\ e.cid = c.cid /\ e.guid = c.guid /\ e.name = c.name /\ e.bot = c.bot
      BY <2>2, <3>2, <3>5 DEF Titled, Client
    <3>7. Titled(e)
      BY <3>2, <3>6 DEF Titled
    <3>8. Fit(e, p)
      BY <2>3, <3>2, <3>3, <3>6, <3>7 DEF Fit, Good
    <3> HIDE DEF row
    <3> QED
      BY <3>4, <3>8
  <2> QED
    BY <2>4, <2>5
<1> HIDE DEF row
<1>4. ASSUME NEW p \in Roll!Here, NEW e, Fit(e, p) PROVE Fit(e, p)'
  <2>1. Titled(e)' /\ e.cid = Roll!Cid(Roll!Line(p))'
    BY <1>4 DEF Fit, Titled, Roll!Cid, Roll!Line
  <2>2. Good(e, p)'
    BY Zenon, <1>4 DEF Good, Fit
  <2> QED
    BY <2>1, <2>2 DEF Fit
<1>5. \A c \in clients' : \E p \in Roll!Here' : c = row(p) /\ Fit(c, p)'
  BY <1>0, <1>1, <1>3, <1>4
<1>6. (\A c \in clients : Titled(c))' /\ Own'
  <2>1. PICK P : P = Roll!Here'
    OBVIOUS
  <2>2. P \subseteq Roll!Here' /\ \A q \in Roll!Here' \ (unheard' \cup P) : Stays(q)
    BY <2>1
  <2>3. \A c \in clients' : \/ \E p \in P : Fit(c, p)'
                            \/ Was(c) /\ \A p \in P : c.cid # Roll!Cid(Roll!Line(p))'
    BY <1>5, <2>1
  <2>4. lost' \in {lost, lost + 1}
    OBVIOUS
  <2> QED
    BY <1>1, <2>2, <2>3, <2>4, OwnStep DEF RosterInv
<1>7. OneEach'
  <2>1. ASSUME NEW c \in clients', NEW d \in clients', c.cid = d.cid PROVE c = d
    <3>1. PICK p \in Roll!Here : c = row(p) /\ c.cid = Roll!Cid(Roll!Line(p))
      BY <1>0, <1>3 DEF Fit
    <3>2. PICK q \in Roll!Here : d = row(q) /\ d.cid = Roll!Cid(Roll!Line(q))
      BY <1>0, <1>3 DEF Fit
    <3> QED
      BY <2>1, <3>1, <3>2, CidsDiffer DEF RosterInv
  <2> QED
    BY <2>1 DEF OneEach
<1>8. Present'
  <2>1. {Roll!Cid(Roll!Line(q))' : q \in Roll!Here'} = {Roll!Cid(Roll!Line(q)) : q \in Roll!Here}
    <3>1. \A q \in Roll!Here : Roll!Cid(Roll!Line(q))' = Roll!Cid(Roll!Line(q))
      BY CidStays
    <3> QED
      BY <1>1, <3>1
  <2>2. {c.cid : c \in clients'} = {Roll!Cid(Roll!Line(q)) : q \in Roll!Here}
    <3>1. \A q \in Roll!Here : row(q).cid = Roll!Cid(Roll!Line(q))
      BY <1>3 DEF Fit
    <3> QED
      BY <1>0, <3>1
  <2> QED
    BY <2>1, <2>2 DEF Present
<1>9. Homefront'
  BY <1>0 DEF Homefront
<1> QED
  BY <1>1, <1>2, <1>6, <1>7, <1>8, <1>9 DEF RosterInv, ClientsOf

LEMMA ReconnectStep ==
  ASSUME RosterInv, Roll!Reconnect
  PROVE  RosterInv'
<1>0. /\ game \in {"homefront", "frontline"} /\ clients' = {} /\ unheard' = Roll!Here
      /\ astray' = (game = "frontline")
      /\ UNCHANGED <<game, seat, nick, side, claimed, trailing, lost>>
  BY DEF Roll!Reconnect
<1>1. Places' /\ Roll!Here' = Roll!Here
  BY <1>0, PlacesStay DEF RosterInv, Roll!Here
<1>2. Counts'
  BY <1>0, <1>1 DEF RosterInv, ClientsOf, Counts, Keyed, Roll!Here
<1>3. ClientsOf' /\ Homefront'
  BY <1>0, <1>1, <1>2 DEF ClientsOf, OneEach, Own, Roll!InSlot, Homefront
<1>4. Present'
  BY <1>0 DEF Present
<1> QED
  BY <1>1, <1>3, <1>4 DEF RosterInv

LEMMA RosterStarts == Roll!Init => RosterInv
<1> SUFFICES ASSUME Roll!Init PROVE RosterInv
  OBVIOUS
<1>1. Roll!Here = {}
  BY DEF Roll!Init, Roll!Here
<1>2. Places
  BY <1>1 DEF Roll!Init, Places
<1>3. Counts
  <2>1. 0 \in 0..MaxLost
    BY RollFacts
  <2> QED
    BY <2>1 DEF Roll!Init, Counts
<1>4. ClientsOf /\ Present /\ Homefront
  BY <1>1, <1>3 DEF Roll!Init, ClientsOf, OneEach, Own, Roll!InSlot, Present, Homefront
<1> QED
  BY <1>2, <1>4 DEF RosterInv

LEMMA RosterStep == RosterInv /\ [Roll!Next]_Roll!roVars => RosterInv'
<1> SUFFICES ASSUME RosterInv, [Roll!Next]_Roll!roVars PROVE RosterInv'
  OBVIOUS
<1>1. CASE Roll!RollCall
  <2>1. UNCHANGED <<game, seat, nick, side, claimed, trailing, lost>>
    BY <1>1 DEF Roll!RollCall
  <2>2. CASE \E p \in Roll!Here : Roll!PlayerRow(p)
    BY <2>1, <2>2, PlayerRowStep
  <2>3. CASE Roll!ReadPlayers
    BY <2>1, <2>3, ReadPlayersStep
  <2>4. CASE \E read, known \in SUBSET Roll!Here : Roll!PlayerList(read, known)
    BY <2>1, <2>4, PlayerListStep
  <2>5. CASE Roll!Reconcile
    BY <2>1, <2>5, ReconcileStep
  <2> QED
    BY <1>1, <2>2, <2>3, <2>4, <2>5 DEF Roll!RollCall
<1>2. CASE \E p \in People, s \in Slots, n \in Names : Roll!Enter(p, s, n)
  BY <1>2, EnterStep
<1>3. ASSUME NEW p \in Roll!Here,
             \/ Roll!Identify(p) \/ Roll!Leave(p) \/ Roll!Act(p)
             \/ \E g \in People : Roll!Claim(p, g)
             \/ \E t \in Roll!Sides : Roll!ChangeTeam(p, t)
             \/ \E v \in Roll!Here : Roll!Kill(p, v)
             \/ \E n \in Names : Roll!Rename(p, n)
      PROVE  RosterInv'
  BY <1>3, IdentifyStep, LeaveStep, ActStep, ClaimStep, ChangeTeamStep, KillStep, RenameStep
<1>4. CASE UNCHANGED Roll!roVars
  <2>1. UNCHANGED <<game, seat, nick, side, clients, unheard, astray, claimed, trailing, lost>>
    BY <1>4 DEF Roll!roVars
  <2>2. Places' /\ Roll!Here' = Roll!Here
    BY <2>1, PlacesStay DEF RosterInv, Roll!Here
  <2>3. Counts'
    <3>1. unheard' \subseteq unheard /\ claimed' \in BOOLEAN
      BY <2>1 DEF RosterInv, ClientsOf, Counts
    <3> QED
      BY <2>1, <3>1, CountsStay DEF RosterInv, ClientsOf
  <2>4. /\ \A q \in Roll!Here' \ unheard' : Stays(q)
        /\ \A q \in Roll!Here : Roll!Cid(Roll!Line(q))' = Roll!Cid(Roll!Line(q))
    BY <2>1, <2>2, CidStays DEF Stays
  <2> QED
    BY <2>1, <2>2, <2>3, <2>4, NothingRead
<1> QED
  BY <1>1, <1>2, <1>3, <1>4, ReconnectStep, UnassignedStep DEF Roll!Next

-----------------------------------------------------------------------------
(* What follows of it.                                                      *)

LEMMA NobodyIsAnother == RosterInv => Roll!EachActsAsOneself
<1> SUFFICES ASSUME RosterInv, NEW p \in Roll!Here \ unheard, NEW l, l = Roll!Line(p), NEW c,
                    c \in Roll!Identified(l, p) \cup Roll!Leavers(l) \cup Roll!Speakers(l)
                    \cup Roll!Changed(l) \cup Roll!Fighter(l)
             PROVE  /\ \/ c.guid \in {Roll!NoGuid, p}
                       \/ game = "frontline"
                       \/ game = "battleye" /\ (lost > 0 \/ claimed)
                    /\ lost = 0 => (c.bot <=> p \in Bots)
  BY DEF Roll!EachActsAsOneself
<1>1. /\ l \in Lines /\ l.who = p /\ l.slot = seat[p] /\ l.name = nick[p]
      /\ l.side \in Roll!Sides \cup {Roll!NoTeam}
      /\ p \in People
  BY LineOf DEF RosterInv
<1>2. Suits(l) /\ game \in Titles
  BY <1>1, SuitsIfHere DEF RosterInv, Places
\* The client under the player's own slot or name.
<1>3. ASSUME NEW d \in Roll!InSlot(Roll!Cid(l))
      PROVE  /\ \/ d.guid \in {Roll!NoGuid, p}
                \/ game = "frontline"
                \/ game = "battleye" /\ (lost > 0 \/ claimed)
             /\ lost = 0 => (d.bot <=> p \in Bots)
  <2>1. Good(d, p)
    BY <1>3 DEF RosterInv, ClientsOf, Own
  <2> QED
    BY Zenon, <2>1 DEF Good
\* The one that a line makes.
<1>4. ASSUME NEW d, About(d, l)
      PROVE  /\ \/ d.guid \in {Roll!NoGuid, p}
                \/ game = "frontline"
                \/ game = "battleye" /\ (lost > 0 \/ claimed)
             /\ lost = 0 => (d.bot <=> p \in Bots)
  BY Zenon, <1>1, <1>4 DEF About
\* The one with the player's identity.
<1>5. ASSUME NEW d \in Roll!OfGuid(p), game = "homefront"
      PROVE  d.guid \in {Roll!NoGuid, p} /\ (d.bot <=> p \in Bots)
  BY <1>1, <1>5 DEF Roll!OfGuid, RosterInv, ClientsOf, Titled, Places
<1>6. game \in Makes => About(Roll!Ensured(l), l)
  BY <1>2, EnsuredAbout DEF RosterInv
<1>7. CASE c \in Roll!Identified(l, p)
  <2>1. CASE game \in {"altitude", "frontline"}
    BY <1>7, <2>1 DEF Roll!Identified
  <2>2. CASE game \notin {"altitude", "frontline"}
    <3>1. PICK e : Roll!Identified(l, l.who) = {e} /\ About(e, l)
      BY <1>2, <2>2, IdentifiedAbout
    <3>2. c = e
      BY <1>1, <1>7, <3>1
    <3> QED
      BY <1>4, <3>1, <3>2
  <2> QED
    BY <2>1, <2>2
<1>8. CASE c \in Roll!Leavers(l)
  <2>1. CASE game = "homefront"
    BY <1>1, <1>5, <1>8, <2>1 DEF Roll!Leavers, Roll!HomefrontLogout
  <2>2. CASE game = "frontline"
    BY <1>8, <2>2 DEF Roll!Leavers
  <2>3. CASE game \notin {"homefront", "frontline"}
    <3>1. c \in Roll!InSlot(Roll!Cid(l))
      BY <1>1, <1>2, <1>8, <2>3, CidOf
         DEF Titles, Roll!Leavers, Roll!AltitudeClientRemove, Roll!SourceDisconnected,
             Roll!RavagedDisconnected, Roll!FrostbiteLeave, Roll!BattlEyeDisconnected
    <3> QED
      BY <1>3, <3>1
  <2> QED
    BY <2>1, <2>2, <2>3
<1>9. CASE c \in Roll!Speakers(l)
  <2>1. CASE game \in {"altitude", "homefront"}
    <3>1. c \in Roll!InSlot(Roll!Cid(l))
      BY <1>1, <1>9, <2>1, CidOf DEF Roll!Speakers, Roll!AltitudeClient, Roll!Resolve
    <3> QED
      BY <1>3, <3>1
  <2>2. CASE game \in {"source", "ravaged", "frostbite"}
    <3>1. c = Roll!Ensured(l) /\ game \in Makes
      BY <1>9, <2>2 DEF Roll!Speakers, Makes
    <3>2. About(c, l)
      BY <1>6, <3>1
    <3> QED
      BY <1>4, <3>2
  <2>3. CASE game \in {"battleye", "frontline"}
    <3>1. c \in clients /\ c.name = nick[p]
      BY <1>1, <1>9, <2>3 DEF Roll!Speakers, Roll!SplitSpeaker, Roll!ByName, Roll!Named
    <3>2. ~c.bot /\ p \notin Bots
      BY <2>3, <3>1 DEF RosterInv, ClientsOf, Titled, Places
    <3>3. CASE game = "battleye" /\ lost = 0
      <4>1. ~astray /\ unheard = {}
        BY <3>3 DEF RosterInv, ClientsOf, Counts, Keyed
      <4>2. {d.cid : d \in clients} = {Roll!Cid(Roll!Line(q)) : q \in Roll!Here}
        BY <3>3, <4>1 DEF RosterInv, Present
      <4>3. PICK q \in Roll!Here : c.cid = Roll!Cid(Roll!Line(q))
        BY <3>1, <4>2
      <4>4. Good(c, q)
        BY <3>1, <4>1, <4>3 DEF RosterInv, ClientsOf, Own, Roll!InSlot
      <4>5. c.name = nick[q]
        BY <3>3, <4>4 DEF Good
      <4>6. q = p
        BY <3>1, <4>5 DEF RosterInv, Places
      <4>7. c \in Roll!InSlot(Roll!Cid(l))
        BY <3>1, <4>3, <4>6 DEF Roll!InSlot
      <4> QED
        BY <1>3, <4>7
    <3>4. lost # 0 => lost > 0
      BY RollFacts DEF RosterInv, ClientsOf, Counts
    <3> QED
      BY <2>3, <3>2, <3>3, <3>4
  <2> QED
    BY <1>2, <2>1, <2>2, <2>3 DEF Titles
<1>10. CASE c \in Roll!Changed(l)
  <2> DEFINE found == CASE game = "source" -> Roll!SourceChangeTeam(l)
                        [] game = "altitude" -> Roll!AltitudeTeamChange(l)
                        [] game = "homefront" -> Roll!HomefrontTeamChange(l)
                        [] game = "frostbite" -> Roll!FrostbiteTeamChange(l)
                        [] game = "ravaged" -> Roll!RavagedJoinedTeam(l)
                        [] OTHER -> {}
  <2>1. PICK d \in found : c = [d EXCEPT !.team = l.side]
    BY <1>10 DEF Roll!Changed
  <2>2. \/ d \in Roll!InSlot(Roll!Cid(l))
        \/ d \in Roll!OfGuid(p) /\ game = "homefront"
        \/ d = Roll!Ensured(l) /\ game \in Makes
    BY <1>1, <2>1, CidOf
       DEF Roll!SourceChangeTeam, Roll!AltitudeTeamChange, Roll!HomefrontTeamChange,
           Roll!FrostbiteTeamChange, Roll!RavagedJoinedTeam, Roll!Ensured, Makes
  <2> HIDE DEF found
  <2>3. d \in Client
    <3>1. Roll!InSlot(Roll!Cid(l)) \cup Roll!OfGuid(p) \subseteq Client
      BY DEF Roll!InSlot, Roll!OfGuid, RosterInv, ClientsOf, Titled
    <3> QED
      BY <1>6, <2>2, <3>1 DEF About, Titled
  <2>4. c.guid = d.guid /\ c.bot = d.bot
    BY <2>1, <2>3 DEF Client
  <2>5. /\ \/ d.guid \in {Roll!NoGuid, p}
           \/ game = "frontline"
           \/ game = "battleye" /\ (lost > 0 \/ claimed)
        /\ lost = 0 => (d.bot <=> p \in Bots)
    BY <1>3, <1>4, <1>5, <1>6, <2>2
  <2> QED
    BY <2>4, <2>5
<1>11. CASE c \in Roll!Fighter(l)
  <2>1. CASE game \in {"altitude", "homefront"}
    <3>1. c \in Roll!InSlot(Roll!Cid(l))
      BY <1>1, <1>11, <2>1, CidOf
         DEF Roll!Fighter, Roll!AltitudeKill, Roll!HomefrontKill, Roll!Resolve
    <3> QED
      BY <1>3, <3>1
  <2>2. CASE game \in {"battleye", "frontline"}
    BY <1>11, <2>2 DEF Roll!Fighter
  <2>3. CASE game \in {"source", "ravaged", "frostbite"}
    <3>1. c = Roll!Ensured(l) /\ game \in Makes
      BY <1>11, <2>3 DEF Roll!Fighter, Makes
    <3>2. About(c, l)
      BY <1>6, <3>1
    <3> QED
      BY <1>4, <3>2
  <2> QED
    BY <1>2, <2>1, <2>2, <2>3 DEF Titles
<1> QED
  BY <1>7, <1>8, <1>9, <1>10, <1>11

LEMMA ListIsTrue == RosterInv => Roll!RosterIsTrue
<1> SUFFICES ASSUME RosterInv, ~astray, unheard \cap Roll!Here = {}
             PROVE  {c.cid : c \in clients} = {Roll!Cid(Roll!Line(p)) : p \in Roll!Here}
  BY DEF Roll!RosterIsTrue
<1>1. CASE game = "homefront"
  <2>1. /\ \A c \in clients : c.guid \in Roll!Here /\ c.cid = nick[c.guid]
        /\ \A p \in Roll!Here : \E c \in clients : c.guid = p
    BY <1>1 DEF RosterInv, Homefront
  <2>2. \A p \in Roll!Here : Roll!Cid(Roll!Line(p)) = nick[p]
    BY <1>1 DEF Roll!Cid, Roll!Line
  <2>3. \A p \in Roll!Here : \E c \in clients : c.cid = nick[p]
    BY <2>1
  <2> QED
    BY <2>1, <2>2, <2>3
<1>2. CASE game # "homefront"
  BY <1>2 DEF RosterInv, Present
<1> QED
  BY <1>1, <1>2

LEMMA KillsAreTold == RosterInv => Roll!TeamKillsAreTrue
<1> SUFFICES ASSUME RosterInv, game \in {"source", "ravaged"},
                    NEW a \in Roll!Here, NEW v \in Roll!Here, side[a] \in Roll!Sides,
                    side[v] \in Roll!Sides, a # v
             PROVE  Roll!KillTold(Roll!Line(a), Roll!Line(v)) = "teamkill" <=> side[a] = side[v]
  BY DEF Roll!TeamKillsAreTrue
<1>1. ASSUME NEW p \in Roll!Here, side[p] \in Roll!Sides
      PROVE  \E e : Roll!Fighter(Roll!Line(p)) = {e} /\ e.team = side[p]
  <2>1. PICK l : l = Roll!Line(p)
    OBVIOUS
  <2>2. l \in Lines /\ l.who = p /\ l.slot = seat[p] /\ l.name = nick[p] /\ l.side = side[p]
    BY <2>1, LineOf DEF RosterInv
  <2>3. Suits(l)
    BY <2>2, SuitsIfHere
  <2>4. Roll!Ensured(l).team = l.side
    BY <1>1, <2>2, <2>3, EnsuredAbout DEF RosterInv, Makes
  <2>5. Roll!Fighter(l) = {Roll!Ensured(l)}
    BY DEF Roll!Fighter
  <2> QED
    BY <2>1, <2>2, <2>4, <2>5
<1>2. PICK x : Roll!Fighter(Roll!Line(a)) = {x} /\ x.team = side[a]
  BY <1>1
<1>3. PICK y : Roll!Fighter(Roll!Line(v)) = {y} /\ y.team = side[v]
  BY <1>1
<1>4. Roll!The(Roll!Fighter(Roll!Line(a))) = x /\ Roll!The(Roll!Fighter(Roll!Line(v))) = y
  BY <1>2, <1>3, TheOne
<1>5. Roll!Line(a) # Roll!Line(v)
  BY DEF Roll!Line
<1>6. Roll!Mates(x, y) <=> side[a] = side[v]
  BY <1>2, <1>3 DEF Roll!Mates
<1>7. Roll!KillTold(Roll!Line(a), Roll!Line(v)) = IF Roll!Mates(x, y) THEN "teamkill" ELSE "kill"
  BY <1>2, <1>3, <1>4, <1>5 DEF Roll!KillTold
<1> QED
  BY <1>6, <1>7

LEMMA RosterTyped == ASSUME RosterInv PROVE Roll!TypeOK
<1>1. \A c \in clients : Roll!InSlot(c.cid) = {c}
  BY DEF RosterInv, ClientsOf, OneEach, Roll!InSlot
<1>2. {astray, claimed} \subseteq BOOLEAN /\ unheard \subseteq People /\ lost \in 0..MaxLost
  BY DEF RosterInv, ClientsOf, Counts
<1> QED
  BY <1>1, <1>2 DEF RosterInv, Places, Roll!TypeOK

-----------------------------------------------------------------------------
(* The clients and the rosters, one at a time.                                *)

LEMMA SourceStarts == Source!Init => RefusedInv /\ ReplyInv /\ SourceTypes
<1> SUFFICES ASSUME Source!Init PROVE RefusedInv /\ ReplyInv /\ SourceTypes
  OBVIOUS
<1>1. RefusedInv
  BY DEF Source!Init, RefusedInv
<1>2. stream \in Seq(Packets) /\ owed \in Seq(Packets) /\ Coming = <<>>
  BY ConcatEmptySeq DEF Source!Init, Coming
<1>3. UpTo(Coming, 0)
  BY <1>2, PacketsCutShort
<1>4. SourceTypes
  <2>1. MaxCommands \in Nat /\ MaxFaults \in Nat
    BY BoundsAssumption
  <2>2. sent \in 0..MaxCommands /\ faults \in 0..MaxFaults
    BY <2>1 DEF Source!Init
  <2>3. authed \in BOOLEAN /\ (open => up) /\ (authed => ~refused)
    BY DEF Source!Init
  <2>4. attempt \in 0..2 /\ done \in 0..2 /\ done \in 0..1 /\ (mine = 0 <=> attempt = 0)
    BY DEF Source!Init
  <2> QED
    BY <2>2, <2>3, <2>4 DEF SourceTypes
<1> QED
  BY <1>1, <1>2, <1>3, <1>4 DEF Source!Init, ReplyInv, Source!OwnReply

\* What the clients and the rosters keep.
RepliesInv ==
    /\ RconTypes /\ OwnerInv /\ WireInv /\ CacheInv
    /\ part = "source" => RefusedInv /\ ReplyInv /\ SourceTypes
    /\ part = "roll" => RosterInv

LEMMA RepliesStart == RepliesInit => RepliesInv
  BY RconStarts, CacheStarts, SourceStarts, RosterStarts DEF RepliesInit, RepliesInv

LEMMA RepliesStep == RepliesInv /\ [RepliesNext]_<<part, vars, sourceVars, rollVars>> => RepliesInv'
<1> SUFFICES ASSUME RepliesInv, [RepliesNext]_<<part, vars, sourceVars, rollVars>>
             PROVE  RepliesInv'
  OBVIOUS
<1>1. part' = part /\ [Next]_vars
  BY DEF RepliesNext
<1>2. RconTypes' /\ OwnerInv' /\ WireInv' /\ CacheInv'
  BY <1>1, OwnerStep, WireStep, CacheStep DEF RepliesInv
<1>3. ASSUME part = "source" PROVE RefusedInv' /\ ReplyInv' /\ SourceTypes'
  <2>1. RefusedInv /\ ReplyInv /\ SourceTypes
    BY <1>3 DEF RepliesInv
  <2>2. CASE Source!Next
    BY <2>1, <2>2, RefusedStep, ReplyStep, SourceTypesStep
  <2>3. CASE UNCHANGED sourceVars
    BY <2>1, <2>3 DEF sourceVars, RefusedInv, ReplyInv, SourceTypes, Coming, Source!OwnReply
  <2> QED
    BY <1>3, <2>2, <2>3 DEF RepliesNext
<1>4. ASSUME part = "roll" PROVE RosterInv'
  <2>1. RosterInv /\ [Roll!Next]_rollVars
    BY <1>4 DEF RepliesInv, RepliesNext
  <2>2. rollVars = Roll!roVars
    BY DEF rollVars, Roll!roVars
  <2>3. [Roll!Next]_(Roll!roVars)
    BY <2>1 DEF rollVars, Roll!roVars
  <2> QED
    BY <2>1, <2>3, RosterStep
<1> QED
  BY <1>1, <1>2, <1>3, <1>4 DEF RepliesInv

\* A reply is given to the command it answers and to no other, and no status handed out is
\* older than the cache's lifetime: on the socket that threads share whatever is lost, late or
\* repeated (rcon.py:171-214, 307-326), and on the Source connection however many commands are
\* given up and lines sent that nobody waits for (net/source.py:281-317).
THEOREM AnswersBelong == RepliesSpec => []RepliesBelong
<1>1. RepliesInv => RepliesBelong
  BY WireGives DEF RepliesInv, CacheInv, ReplyInv, RepliesBelong
<1> QED
  BY <1>1, RepliesStart, RepliesStep, PTL DEF RepliesSpec

\* A Source server refuses a password once, however many commands are sent, retried and given up
\* and however often the server or its password changes (net/source.py:166-183, 205-210,
\* 252-257, 301-304).
THEOREM PasswordRefusedOnce == RepliesSpec => []RefusedOnce
<1>1. RepliesInv => RefusedOnce
  BY DEF RepliesInv, RefusedInv, RefusedOnce, Source!RefusedOnce
<1> QED
  BY <1>1, RepliesStart, RepliesStep, PTL DEF RepliesSpec

\* Nobody acts as another, is listed when gone or is missing when here, and a kill is told as what
\* it is, for any players, slots and names and however many lines are lost, as far as each title's
\* lines allow (parsers/source/parser.py:188-227, parsers/homefront/parser.py:228-253,
\* parsers/frontline/parser.py:195-209, parsers/battleye/parser.py:91-98).
THEOREM EachPlayerIsThemselves == RepliesSpec => []RostersAreTrue
<1>1. RepliesInv => RostersAreTrue
  BY NobodyIsAnother, ListIsTrue, KillsAreTold DEF RepliesInv, RostersAreTrue
<1> QED
  BY <1>1, RepliesStart, RepliesStep, PTL DEF RepliesSpec

\* The variables of the three stay in their types: no clock runs backwards, a thread sends only a
\* command it was given, an attempt is under way as long as a reply is awaited, and no two clients
\* are under one slot or name (rcon.py:171-214, net/source.py:252-317, core/clients.py).
THEOREM RepliesTyped == RepliesSpec => []RepliesTypeOK
<1>1. RepliesInv => RepliesTypeOK
  <2> SUFFICES ASSUME RepliesInv PROVE RepliesTypeOK
    OBVIOUS
  <2>1. TypeOK
    BY DEF RepliesInv, RconTypes, CacheInv, TypeOK
  <2> QED
    BY <2>1, SourceTyped, RosterTyped DEF RepliesInv, RepliesTypeOK
<1> QED
  BY <1>1, RepliesStart, RepliesStep, PTL DEF RepliesSpec

===============================================================================
