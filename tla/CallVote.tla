------------------------------ MODULE CallVote ------------------------------
(****************************************************************************)
(* Who may call a vote, and against whom (plugins/callvote).  The server     *)
(* runs one vote at a time and writes lines that the bot reads later, in     *)
(* order.  What can be done about a vote differs: Urban Terror can cancel    *)
(* the one that runs, Homefront is told to lift a ban once the line saying   *)
(* that it passed is read, and Altitude reports no outcome but a player      *)
(* thrown out by vote, whom it bars for two minutes unless told otherwise.   *)
(****************************************************************************)
EXTENDS Integers, Sequences

CONSTANTS
    Players,
    Level,       \* max_level() of each player
    Needed,      \* level_needed() for each type of vote
    Protected,   \* protect.level, 0 for off
    MaxLines,    \* how far the bot's reading is ever behind: the bound
    MaxVotes     \* how many votes are ever called: the bound

VARIABLES
    engine,      \* which of the three: "urt", "homefront" or "altitude"
    running,     \* the server: the vote in progress, NoVote for none
    banned,      \* the server: the votes that passed and still keep someone out
    called,      \* the server: how many votes have been called
    log,         \* the lines the bot has yet to read
    current,     \* self.current
    lastVote,    \* the newest row of callvote_history
    warned,      \* console.warn: who has called a vote against somebody protected
    missed       \* history: a line was not acted on, the bot being paused

vars == <<engine, running, banned, called, log, current, lastVote, warned, missed>>

NoVote == [type |-> "none"]
Types == {"kick", "ban", "map"}
PlayerVotes == {"kick", "ban"}

CanVeto == engine = "urt"    \* self._can_veto

\* Only Homefront lets a ban be voted, and only on Altitude is a kick one.
Bars(vote) == vote.type = IF engine = "altitude" THEN "kick" ELSE "ban"

Init ==
    /\ engine \in {"urt", "homefront", "altitude"}
    /\ running = NoVote /\ banned = {} /\ called = 0
    /\ log = <<>>
    /\ current = NoVote
    /\ lastVote = NoVote
    /\ warned = {}
    /\ missed = FALSE

-----------------------------------------------------------------------------
(* The server.                                                              *)

Call(caller, type, target) ==
    /\ running = NoVote /\ called < MaxVotes /\ Len(log) < MaxLines
    /\ type = "ban" => engine = "homefront"
    /\ caller # target
    /\ LET vote == [type |-> type, caller |-> caller, target |-> target]
       IN  running' = vote /\ log' = Append(log, [line |-> "called", vote |-> vote])
    /\ called' = called + 1
    /\ UNCHANGED <<engine, banned, current, lastVote, warned, missed>>

End(passed) ==
    /\ running # NoVote /\ Len(log) < MaxLines
    /\ banned' = IF passed /\ Bars(running) THEN banned \cup {running} ELSE banned
    /\ log' = IF engine # "altitude"
              THEN Append(log, [line |-> IF passed THEN "passed" ELSE "failed", vote |-> running])
              ELSE IF passed /\ Bars(running)
              THEN Append(log, [line |-> "barred", vote |-> running]) ELSE log
    /\ running' = NoVote
    /\ UNCHANGED <<engine, called, current, lastVote, warned, missed>>

-----------------------------------------------------------------------------
(* The plugin.                                                              *)

\* protect(): the target is high enough and outranks the caller.
Shielded(vote) ==
    /\ Protected > 0 /\ vote.type \in PlayerVotes
    /\ Level[vote.target] >= Protected
    /\ Level[vote.target] > Level[vote.caller]

\* Mutant: a vote against somebody protected counts as dealt with, veto or no veto.
HandledIfShielded(vote, enough) ==
    Shielded(vote) \/ (CanVeto /\ enough /\ Level[vote.caller] < Needed[vote.type])

\* protect() and refuse(): what the bot has the server cancel.  Too few voters are not checked.
Handled(vote, enough) ==
    CanVeto /\ (Shielded(vote) \/ (enough /\ Level[vote.caller] < Needed[vote.type]))

\* on_callvote, with whether there are min_voters
ReadCalled(enough) ==
    /\ log # <<>> /\ Head(log).line = "called"
    /\ LET vote == Head(log).vote
       IN /\ IF Handled(vote, enough) THEN current' = NoVote /\ running' = NoVote
             ELSE current' = vote /\ UNCHANGED running
          /\ warned' = IF Shielded(vote) THEN warned \cup {vote.caller} ELSE warned
    /\ log' = Tail(log)
    /\ UNCHANGED <<engine, banned, called, lastVote, missed>>

\* undo_protected: a kick cannot be undone.
Undone(vote) ==
    IF Shielded(vote) /\ vote.type = "ban"
    THEN {ban \in banned : ban.target # vote.target} ELSE banned

\* on_vote_finished: a finish that names another vote is recorded, and protects nobody.
ReadFinished ==
    /\ log # <<>> /\ Head(log).line \in {"passed", "failed"}
    /\ LET ended == Head(log).vote
           passed == Head(log).line = "passed"
           same == engine # "urt"
                       \/ (ended.type = current.type /\ ended.target = current.target)
       IN  IF current = NoVote THEN UNCHANGED <<banned, lastVote>>
           ELSE /\ lastVote' = IF same THEN current ELSE [ended EXCEPT !.caller = current.caller]
                /\ banned' = IF passed /\ same THEN Undone(current) ELSE banned
    /\ current' = NoVote
    /\ log' = Tail(log)
    /\ UNCHANGED <<engine, running, called, warned, missed>>

\* on_disconnect, of who was thrown out by vote: the game's own ban on them is lifted.
ReadThrownOut ==
    /\ log # <<>> /\ Head(log).line = "barred"
    /\ LET target == Head(log).vote.target
       IN  banned' = IF Protected > 0 /\ Level[target] >= Protected
                     THEN {vote \in banned : vote.target # target} ELSE banned
    /\ log' = Tail(log)
    /\ UNCHANGED <<engine, running, called, current, lastVote, warned, missed>>

\* !pause: a line is read and not acted on.
Skip ==
    /\ log # <<>>
    /\ log' = Tail(log)
    /\ missed' = TRUE
    /\ UNCHANGED <<engine, running, banned, called, current, lastVote, warned>>

\* !veto
Veto ==
    /\ CanVeto /\ current # NoVote
    /\ current' = NoVote /\ running' = NoVote
    /\ UNCHANGED <<engine, banned, called, log, lastVote, warned, missed>>

Votes ==
    \/ \E caller, target \in Players, type \in Types : Call(caller, type, target)
    \/ \E passed \in BOOLEAN : End(passed)

Reads == Skip \/ ReadFinished \/ ReadThrownOut \/ \E enough \in BOOLEAN : ReadCalled(enough)

Next == Votes \/ Reads \/ Veto

Spec == Init /\ [][Next]_vars

-----------------------------------------------------------------------------
Vote == [type : Types, caller : Players, target : Players]

TypeOK ==
    /\ {running, current, lastVote} \subseteq Vote \cup {NoVote}
    /\ banned \subseteq Vote
    /\ Len(log) <= MaxLines

\* Once the bot has read what the server wrote, no vote against a protected player by somebody
\* they outrank keeps them out, unless a line was passed over while the bot was paused.
\* (plugins/callvote/__init__.py:356-457, 514-543)
NoShieldedBanStands ==
    log = <<>> /\ ~missed => \A ban \in banned : ~Shielded(ban)

=============================================================================
