--------------------------------- MODULE Rcon ---------------------------------
(****************************************************************************)
(* The Quake 3 RCON client (net/rcon.py).  One UDP socket carries every      *)
(* question, and a datagram does not say which question it answers.  A       *)
(* request throws away what is waiting, sends, and collects what arrives     *)
(* until the socket goes quiet.  The event loop and the worker threads of    *)
(* the status polls all use the same socket and the same timeout setting,    *)
(* and nothing locks them.                                                   *)
(****************************************************************************)
EXTENDS Naturals, Sequences, FiniteSets

CONSTANTS
    Threads,      \* the event loop and the pool's workers
    Others,       \* commands that are answered, sent again and not cached: "ban"
    MaxCalls,     \* how many commands are ever sent: the bound
    MaxRetries,   \* max_retries
    TTL,          \* status_cache_ttl
    MaxTime,      \* how long the clock runs: the bound
    Reliable      \* every command is answered, and before the timeout

ASSUME RetriesAssumption == MaxRetries \in Nat \ {0} /\ MaxCalls \in Nat
ASSUME OthersAssumption == Others \cap {"say", "status", "map"} = {}
ASSUME TimeAssumption == TTL \in Nat \ {0} /\ MaxTime \in Nat

VARIABLES
    calls,       \* what each command asked so far was, in the order they were asked
    pc,          \* where each thread is
    call,        \* the command it is sending, 0 when it sends none
    tries,       \* the `attempt` of its retry loop, from 1
    chunks,      \* the datagrams it has collected
    nonblocking, \* the timeout of the socket is 0
    flying,      \* replies on their way
    buffer,      \* datagrams waiting in the socket
    now,
    cache,       \* _status_cache: when the command asked by was asked, by = 0 for none
    sends,       \* history: how often each command was put on the wire
    born,        \* history: when each command was asked
    waiting,     \* history: the datagrams that were waiting when a request began
    shown        \* history: how old the cached status last handed out was

wire == <<nonblocking, flying, buffer>>
local == <<pc, call, tries, chunks, waiting>>
vars == <<calls, local, wire, now, cache, sends, born, shown>>

Calls == 1..MaxCalls
Datagrams == Calls \X (1..MaxRetries)  \* a reply: to which command, to which attempt
NoRetry == {"map"}  \* for quit, map, map_rotate and map_restart
Commands == {"say", "status"} \cup NoRetry \cup Others

Init ==
    /\ calls = <<>>
    /\ pc = [t \in Threads |-> "idle"]
    /\ call = [t \in Threads |-> 0]
    /\ tries = [t \in Threads |-> 0]
    /\ chunks = [t \in Threads |-> <<>>]
    /\ waiting = [t \in Threads |-> {}]
    /\ nonblocking = FALSE
    /\ flying = {}
    /\ buffer = <<>>
    /\ now = 0
    /\ cache = [at |-> 0, by |-> 0]
    /\ sends = [c \in Calls |-> 0]
    /\ born = [c \in Calls |-> 0]
    /\ shown = 0

-----------------------------------------------------------------------------
NewCall(cmd) ==
    /\ Len(calls) < MaxCalls
    /\ calls' = Append(calls, cmd)
    /\ born' = [born EXCEPT ![Len(calls) + 1] = now]

\* Handed to the kernel: the server answers it, or never sees it.
Transmit(c) ==
    /\ sends' = [sends EXCEPT ![c] = @ + 1]
    /\ \/ flying' = flying \cup {<<c, sends[c] + 1>>}
       \/ ~Reliable /\ UNCHANGED flying

\* write: send and do not wait.
Write(t) ==
    /\ pc[t] = "idle"
    /\ NewCall("say")
    /\ Transmit(Len(calls) + 1)
    /\ UNCHANGED <<local, nonblocking, buffer, now, cache, shown>>

Begin(t, cmd) ==
    /\ NewCall(cmd)
    /\ pc' = [pc EXCEPT ![t] = "request"]
    /\ call' = [call EXCEPT ![t] = Len(calls) + 1]
    /\ tries' = [tries EXCEPT ![t] = 1]
    /\ UNCHANGED <<chunks, waiting>>

\* command
Command(t, cmd) ==
    /\ pc[t] = "idle"
    /\ cmd \in Commands \ {"say", "status"}
    /\ Begin(t, cmd)
    /\ UNCHANGED <<wire, now, cache, sends, shown>>

IsFresh == cache.by # 0 /\ now - cache.at < TTL

\* get_status: answered from the cache, or asked.
GetStatus(t) ==
    /\ pc[t] = "idle"
    /\ IF IsFresh
       THEN /\ shown' = now - born[cache.by]
            /\ UNCHANGED <<calls, local, born>>
       ELSE Begin(t, "status") /\ UNCHANGED shown
    /\ UNCHANGED <<wire, now, cache, sends>>

-----------------------------------------------------------------------------
(* request: one attempt on the wire.                                        *)

\* _discard_pending sets the timeout to 0 ...
Clear(t) ==
    /\ pc[t] = "request"
    /\ pc' = [pc EXCEPT ![t] = "discard"]
    /\ nonblocking' = TRUE
    /\ waiting' = [waiting EXCEPT ![t] = {buffer[i] : i \in DOMAIN buffer}]
    /\ UNCHANGED <<calls, call, tries, chunks, flying, buffer, now, cache, sends, born, shown>>

\* ... reads whatever is waiting ...
Discard(t) ==
    /\ pc[t] = "discard"
    /\ buffer # <<>>
    /\ buffer' = Tail(buffer)
    /\ UNCHANGED <<calls, local, nonblocking, flying, now, cache, sends, born, shown>>

Send(t) ==
    /\ pc' = [pc EXCEPT ![t] = "collect"]
    /\ Transmit(call[t])
    /\ UNCHANGED <<calls, call, tries, chunks, waiting, nonblocking, buffer, now, cache,
                   born, shown>>

\* Mutant: whatever is waiting is left in the socket.
DiscardedNothing(t) == pc[t] = "discard" /\ Send(t)

\* ... until nothing is, and the request is sent.
Discarded(t) ==
    /\ pc[t] = "discard"
    /\ buffer = <<>>
    /\ Send(t)

\* The timeout is set before every read, and the read uses what it is by then.
Listen(t) ==
    /\ pc[t] = "collect"
    /\ pc' = [pc EXCEPT ![t] = "recv"]
    /\ nonblocking' = FALSE
    /\ UNCHANGED <<calls, call, tries, chunks, waiting, flying, buffer, now, cache, sends,
                   born, shown>>

Receive(t) ==
    /\ pc[t] = "recv"
    /\ buffer # <<>>
    /\ chunks' = [chunks EXCEPT ![t] = Append(@, Head(buffer))]
    /\ buffer' = Tail(buffer)
    /\ pc' = [pc EXCEPT ![t] = "collect"]
    /\ UNCHANGED <<calls, call, tries, waiting, nonblocking, flying, now, cache, sends, born,
                   shown>>

\* Mutant: a read without a timeout.
QuietNever(t) ==
    /\ pc[t] = "recv"
    /\ buffer = <<>>
    /\ nonblocking

\* A read that ends with nothing: the timeout ran out, or another thread has made
\* the socket non-blocking in between.
Quiet(t) ==
    /\ pc[t] = "recv"
    /\ buffer = <<>>
    /\ nonblocking \/ (Reliable => flying = {})

\* The request returns or raises.
Return(t) ==
    /\ pc' = [pc EXCEPT ![t] = "idle"]
    /\ call' = [call EXCEPT ![t] = 0]
    /\ tries' = [tries EXCEPT ![t] = 0]
    /\ chunks' = [chunks EXCEPT ![t] = <<>>]
    /\ waiting' = [waiting EXCEPT ![t] = {}]
    /\ UNCHANGED <<calls, flying, buffer, now, sends, born, shown>>

\* Mutant: every command is sent again when it is not answered.
AttemptsAlways(cmd) == MaxRetries

Attempts(cmd) == IF cmd \in NoRetry THEN 1 ELSE MaxRetries

\* No reply: the request is sent again, or the caller gets an RconError.
Unanswered(t) ==
    /\ Quiet(t)
    /\ chunks[t] = <<>>
    /\ IF tries[t] < Attempts(calls[call[t]])
       THEN /\ pc' = [pc EXCEPT ![t] = "request"]
            /\ tries' = [tries EXCEPT ![t] = @ + 1]
            /\ waiting' = [waiting EXCEPT ![t] = {}]
            /\ UNCHANGED <<calls, call, chunks, flying, buffer, now, sends, born, shown>>
       ELSE Return(t)
    /\ nonblocking' \in {FALSE, nonblocking}  \* reset after a timeout, not after an error
    /\ UNCHANGED cache

\* Mutant: the time the reply expires is stored in place of the time it was asked.
CachedExpiry(t) == cache' = [at |-> now + TTL, by |-> call[t]]

\* Mutant: the cached reply is dated when it came, not when it was asked for.
CachedAtArrival(t) == cache' = [at |-> now, by |-> call[t]]

\* get_status remembers a reply under the time it looked at the clock before it asked.
Cached(t) == cache' = [at |-> born[call[t]], by |-> call[t]]

Answer(t) ==
    /\ chunks[t] # <<>>
    /\ Return(t)
    /\ nonblocking' = FALSE
    /\ IF calls[call[t]] = "status" THEN Cached(t) ELSE UNCHANGED cache

Answered(t) == Quiet(t) /\ Answer(t)

-----------------------------------------------------------------------------
(* The network and the clock.                                               *)

Arrive(d) ==
    /\ d \in flying
    /\ flying' = flying \ {d}
    /\ buffer' = Append(buffer, d)
    /\ UNCHANGED <<calls, local, nonblocking, now, cache, sends, born, shown>>

Lose(d) ==
    /\ ~Reliable
    /\ d \in flying
    /\ flying' = flying \ {d}
    /\ UNCHANGED <<calls, local, nonblocking, buffer, now, cache, sends, born, shown>>

Tick ==
    /\ now < MaxTime
    /\ now' = now + 1
    /\ UNCHANGED <<calls, local, wire, cache, sends, born, shown>>

Ask(t) == Write(t) \/ GetStatus(t) \/ \E cmd \in Commands : Command(t, cmd)

Request(t) ==
    Clear(t) \/ Discard(t) \/ Discarded(t) \/ Listen(t) \/ Receive(t)
        \/ Unanswered(t) \/ Answered(t)

Next ==
    \/ \E t \in Threads : Ask(t) \/ Request(t)
    \/ \E d \in Datagrams : Arrive(d) \/ Lose(d)
    \/ Tick

Spec == Init /\ [][Next]_vars

\* Every thread is scheduled, and a read times out when nothing comes.
FairSpec == Spec /\ \A t \in Threads : WF_vars(Request(t))

-----------------------------------------------------------------------------
Busy == {"request", "discard", "collect", "recv"}

TypeOK ==
    /\ calls \in Seq(Commands) /\ Len(calls) <= MaxCalls
    /\ pc \in [Threads -> Busy \cup {"idle"}]
    /\ call \in [Threads -> 0..Len(calls)]
    /\ tries \in [Threads -> 0..MaxRetries]
    /\ chunks \in [Threads -> Seq(Datagrams)]
    /\ waiting \in [Threads -> SUBSET Datagrams]
    /\ nonblocking \in BOOLEAN
    /\ flying \subseteq Datagrams
    /\ buffer \in Seq(Datagrams)
    /\ now \in 0..MaxTime
    /\ cache \in [at : 0..now, by : 0..Len(calls)]
    /\ sends \in [Calls -> 0..MaxRetries]
    /\ born \in [Calls -> 0..now]
    /\ shown \in 0..now

\* A command that makes the server stop answering reaches the wire once, and no
\* other more often than max_retries, whatever is lost.  (rcon.py:32, 281-298)
NeverRepeated ==
    \A c \in 1..Len(calls) : /\ sends[c] <= MaxRetries
                             /\ calls[c] \in NoRetry => sends[c] <= 1

\* Nothing that was waiting when a request began becomes part of its answer: the
\* reply to an earlier `say` is not the reply to a question.  (rcon.py:171-214)
NothingStale ==
    \A t \in Threads : \A i \in DOMAIN chunks[t] : chunks[t][i] \notin waiting[t]

\* A cached status is handed out while less than a cache lifetime has passed
\* since the server was asked, however long the answer took.  (rcon.py:307-326)
StatusIsRecent == shown < TTL

\* Every request is answered or given up.  (rcon.py:171-199, 281-293)
EveryCallEnds == \A t \in Threads : pc[t] = "request" ~> pc[t] = "idle"

\* "Left in the buffer it would be returned as *this* command's reply - an empty
\* `status`, which reads as 'the server is empty'" (rcon.py:174-176): whoever gets
\* an answer finds in it an answer to what they asked.
OwnAnswer ==
    [][\A t \in Threads : call[t] # 0 /\ call'[t] = 0 /\ chunks[t] # <<>>
         => \E i \in DOMAIN chunks[t] : calls[chunks[t][i][1]] = calls[call[t]]]_vars
=============================================================================
