------------------------------ MODULE RunLoop ------------------------------
(****************************************************************************)
(* The run loop (cli.py), the event bus and the scheduler.  Lines are read,  *)
(* maybe on a thread of their own, and fed one by one; a line's handlers     *)
(* publish more events, each a task of its own, and the line is done when    *)
(* they are; then the jobs due this second run.  While the loop waits, other *)
(* tasks run: a status poll that ends publishes as well.                     *)
(*                                                                          *)
(* A handler that waits (a web lookup) is an event that stays in background  *)
(* while others are delivered.  The second of the last firing is kept as the *)
(* set of the jobs that fired in the present second.                         *)
(****************************************************************************)
EXTENDS Integers, FiniteSets

CONSTANTS
    Jobs,
    DueAt,     \* the seconds of the minute each job names
    Seconds,   \* how many there are in a minute
    OneShot,   \* the jobs that are removed once they ran
    Cascade,   \* how long a chain of events publishing events gets: the bound
    MaxLines,  \* how many lines one read returns: the bound
    MaxPolls   \* how many status polls end with an answer: the bound

ASSUME LoopAssumption ==
    /\ Seconds \in Nat \ {0} /\ Cascade \in Nat /\ MaxLines \in Nat /\ MaxPolls \in Nat

VARIABLES
    pc,         \* where the loop is
    second,     \* of the clock's minute
    batch,      \* the lines read and not yet fed
    background, \* _background: the publishes still running
    tracked,    \* the ones the drain is waiting for
    scheduled,  \* _tasks
    disabled,   \* the jobs whose plugin is switched off
    due,        \* what is left of this tick's due()
    fired,      \* the jobs whose last_fired is this second
    late,       \* the second the tick began in is over
    polls,      \* how many status polls ended with an answer
    ended       \* exit_code is not None

jobVars == <<scheduled, disabled, due, fired, late>>
loopVars == <<pc, second, batch, background, tracked, jobVars, polls, ended>>

Places == {"read", "reading", "feed", "drain", "tick", "job", "sleep", "over"}

\* A publish: whether a line led to it, and how many more may follow from it.
Publishes == [ofLine : BOOLEAN, depth : 0..Cascade]

LoopInit ==
    /\ pc = "read" /\ second = 0 /\ batch = 0
    /\ background = {} /\ tracked = {}
    /\ scheduled = Jobs /\ disabled = {} /\ due = {} /\ fired = {} /\ late = FALSE
    /\ polls = 0 /\ ended = FALSE

-----------------------------------------------------------------------------
\* publish_soon
PublishSoon(ofLine, depth) == [ofLine |-> ofLine, depth |-> depth]

\* The next poll of the source is due, or is not yet.
Poll ==
    /\ pc = "read"
    /\ pc' \in {"reading", "tick"}
    /\ UNCHANGED <<second, batch, background, tracked, jobVars, polls, ended>>

Read ==
    /\ pc = "reading"
    /\ batch' \in 0..MaxLines
    /\ pc' = "feed"
    /\ UNCHANGED <<second, background, tracked, jobVars, polls, ended>>

\* feed_line.  A handler may switch a plugin, or ask the loop to stop, which publishes.
Feed ==
    /\ pc = "feed" /\ batch > 0
    /\ batch' = batch - 1
    /\ pc' = "drain"
    /\ \/ /\ background' \in {background, background \cup {PublishSoon(TRUE, Cascade)}}
          /\ disabled' \in {disabled} \cup {(disabled \ {j}) \cup ({j} \ disabled) : j \in Jobs}
          /\ UNCHANGED ended
       \/ /\ ended' = TRUE
          /\ background' = background \cup {PublishSoon(TRUE, Cascade)}
          /\ UNCHANGED disabled
    /\ tracked' = background'
    /\ UNCHANGED <<second, scheduled, due, fired, late, polls>>

\* The line was dropped: the bot is paused.
FeedPaused ==
    /\ pc = "feed" /\ batch > 0
    /\ batch' = batch - 1
    /\ UNCHANGED <<pc, second, background, tracked, jobVars, polls, ended>>

\* Mutant: a publish that is over is still waited for.
DeliverStillTracked(e) ==
    /\ e \in background /\ pc \in {"reading", "drain", "job", "sleep"}
    /\ background' = background \ {e}
    /\ UNCHANGED <<pc, second, batch, tracked, jobVars, polls, ended>>

\* A publish ends; one of its handlers may have published in turn.
Deliver(e) ==
    /\ e \in background /\ pc \in {"reading", "drain", "job", "sleep"}
    /\ \E more \in {{}} \cup IF e.depth > 0 THEN {{PublishSoon(e.ofLine, e.depth - 1)}} ELSE {} :
          /\ background' = (background \ {e}) \cup more
          /\ tracked' = tracked \ ({e} \ more)
    /\ UNCHANGED <<pc, second, batch, jobVars, polls, ended>>

\* Mutant: the drain waits for what was running when the line was fed, and no more.
DrainedOnce ==
    /\ pc = "drain" /\ tracked = {}
    /\ pc' = "feed"
    /\ UNCHANGED <<second, batch, background, tracked, jobVars, polls, ended>>

\* drain: what was waited for is done, and the loop looks again.
Drained ==
    /\ pc = "drain" /\ tracked = {}
    /\ tracked' = background
    /\ pc' = IF background = {} THEN "feed" ELSE "drain"
    /\ UNCHANGED <<second, batch, background, jobVars, polls, ended>>

Fed ==
    /\ pc = "feed" /\ batch = 0
    /\ pc' = "tick"
    /\ UNCHANGED <<second, batch, background, tracked, jobVars, polls, ended>>

\* due()
Due == {j \in scheduled \ (disabled \cup fired) : second \in DueAt[j]}

\* tick; one that fires nothing goes straight to sleep.
TickBegins ==
    /\ pc = "tick"
    /\ due' = Due
    /\ pc' = IF Due = {} THEN "sleep" ELSE "job"
    /\ late' = FALSE
    /\ UNCHANGED <<second, batch, background, tracked, scheduled, disabled, fired, polls, ended>>

\* One job runs, and may publish.  It counts as fired in the second the tick began in,
\* which may be over.
RunJob(j) ==
    /\ pc = "job" /\ j \in due
    /\ due' = due \ {j}
    /\ pc' = IF due' = {} THEN "sleep" ELSE "job"
    /\ fired' = IF late THEN fired ELSE fired \cup {j}
    /\ background' \in {background, background \cup {PublishSoon(FALSE, Cascade)}}
    /\ scheduled' = scheduled \ (OneShot \cap {j})
    /\ UNCHANGED <<second, batch, tracked, disabled, late, polls, ended>>

\* asyncio.sleep(LIVE_TICK), and the loop's condition.
Sleep ==
    /\ pc = "sleep"
    /\ pc' = IF ended THEN "over" ELSE "read"
    /\ UNCHANGED <<second, batch, background, tracked, jobVars, polls, ended>>

-----------------------------------------------------------------------------
\* A status poll is answered while the loop waits for something, and publishes.
PollAnswered ==
    /\ pc \in {"reading", "drain", "job", "sleep"} /\ polls < MaxPolls
    /\ polls' = polls + 1
    /\ background' = background \cup {PublishSoon(FALSE, Cascade)}
    /\ UNCHANGED <<pc, second, batch, tracked, jobVars, ended>>

\* The clock, for as long as there is somebody to look at it.
Clock ==
    /\ pc # "over"
    /\ second' = (second + 1) % Seconds
    /\ fired' = {} /\ late' = (pc = "job")
    /\ UNCHANGED <<pc, batch, background, tracked, scheduled, disabled, due, polls, ended>>

LoopStep ==
    \/ Poll \/ Read \/ Feed \/ FeedPaused \/ Drained \/ Fed \/ TickBegins \/ Sleep
    \/ \E j \in Jobs : RunJob(j)

LoopNext == LoopStep \/ PollAnswered \/ Clock \/ \E e \in Publishes : Deliver(e)

LoopSpec == LoopInit /\ [][LoopNext]_loopVars

\* The loop runs on, a read and every handler return in the end, and time passes.  The
\* source is polled again and again.
LoopFairness ==
    /\ WF_loopVars(LoopStep) /\ WF_loopVars(Clock)
    /\ \A e \in Publishes : WF_loopVars(Deliver(e))

-----------------------------------------------------------------------------
LoopTypeOK ==
    /\ pc \in Places /\ second \in 0..(Seconds - 1) /\ batch \in 0..MaxLines
    /\ background \subseteq Publishes /\ tracked \subseteq Publishes
    /\ scheduled \subseteq Jobs /\ disabled \subseteq Jobs
    /\ due \subseteq Jobs /\ fired \subseteq Jobs
    /\ late \in BOOLEAN /\ polls \in 0..MaxPolls /\ ended \in BOOLEAN

\* Whatever a line led to, at any number of removes, is done before the next line is
\* taken, and before the jobs of the second run.  (bus.py:97-144, bot.py:654-665)
LineSettles ==
    pc \in {"feed", "tick", "read"} => \A e \in background : ~e.ofLine

\* The loop never waits for ever: once it was asked to stop it stops, and until then a
\* job that names every second is due again and again, unless its plugin is off.
\* (cli.py:465-482, bus.py:122-144, scheduler.py:252-281)
LoopGoesOn ==
    /\ ended ~> pc = "over"
    /\ \A j \in Jobs \ OneShot : DueAt[j] = 0..(Seconds - 1) =>
           []<>(j \in due \cup disabled \/ pc = "over")

=============================================================================
