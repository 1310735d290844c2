------------------------------ MODULE AuthTasks ------------------------------
(****************************************************************************)
(* AuthManager (parsers/cod/auth.py): one asyncio task per slot polls the    *)
(* server's status table until the player who joined can be resolved.        *)
(*                                                                          *)
(* asyncio runs a task until its next await, so an action here is the code   *)
(* between two awaits of _run.  task.cancel() only *requests* the end: the   *)
(* CancelledError is raised when the task next runs, and raised before the   *)
(* first line of _run when the task never started, in which case the         *)
(* `finally` that clears the registry is never entered.                      *)
(****************************************************************************)
EXTENDS Naturals, TLAPS

CONSTANTS
    Slots,        \* in-game slot ids (cid)
    Tasks,        \* identities of the asyncio tasks ever created: the bound
    MaxAttempts,  \* max_attempts
    NoTask        \* what dict.pop(cid, None) answers for a free slot

ASSUME NoTaskAssumption == NoTask \notin Tasks
ASSUME MaxAttemptsAssumption == MaxAttempts \in Nat \ {0}

VARIABLES
    registry,  \* self._tasks: the task remembered for each slot
    phase,     \* where each task is suspended
    slotOf,    \* the slot each task polls for
    attempt,   \* the `attempt` of its loop
    doomed,    \* tasks on which cancel() has been called
    stopped    \* the run loop has ended and cancel_all() has run

authVars == <<registry, phase, slotOf, attempt, doomed, stopped>>

Suspended == {"delay", "resolve", "retry"}
Unfinished == {"created"} \cup Suspended
Phases == {"unused", "done"} \cup Unfinished

Live(t) == phase[t] \in Unfinished /\ t \notin doomed

AuthInit ==
    /\ registry = [c \in Slots |-> NoTask]
    /\ phase = [t \in Tasks |-> "unused"]
    /\ slotOf \in {[t \in Tasks |-> c] : c \in Slots}
    /\ attempt = [t \in Tasks |-> 0]
    /\ doomed = {}
    /\ stopped = FALSE

-----------------------------------------------------------------------------
\* cancel(cid) dooms whatever the registry remembers, unless it has finished.
DoomedBy(C) == {t \in Tasks : phase[t] \in Unfinished /\ \E c \in C : registry[c] = t}

Remember(c, t) ==
    /\ registry' = [registry EXCEPT ![c] = t]
    /\ phase' = [phase EXCEPT ![t] = "created"]
    /\ slotOf' = [slotOf EXCEPT ![t] = c]
    /\ UNCHANGED <<attempt, stopped>>

\* Mutant: a restart that does not cancel the poll it replaces.
ScheduleOverwriting(c) ==
    /\ ~stopped
    /\ \E t \in Tasks : phase[t] = "unused" /\ Remember(c, t)
    /\ UNCHANGED doomed

Schedule(c) ==
    /\ ~stopped
    /\ \E t \in Tasks : phase[t] = "unused" /\ Remember(c, t)
    /\ doomed' = doomed \cup DoomedBy({c})

\* cancel(cid) for every slot of C, with no await between them.
CancelSlots(C) ==
    /\ ~stopped
    /\ doomed' = doomed \cup DoomedBy(C)
    /\ registry' = [c \in Slots |-> IF c \in C THEN NoTask ELSE registry[c]]
    /\ UNCHANGED <<phase, slotOf, attempt>>

Cancel(C) == CancelSlots(C) /\ UNCHANGED stopped

\* The `finally` of the run loop (cli.py), after which nothing is scheduled.
CancelAll == CancelSlots(Slots) /\ stopped' = TRUE

\* Mutant: a poll that ends without clearing its slot.
FinishKeepingEntry(t) ==
    /\ phase' = [phase EXCEPT ![t] = "done"]
    /\ UNCHANGED <<registry, slotOf, doomed, stopped>>

\* The `finally` of _run: it clears the slot, whoever the slot remembers now.
Finish(t) ==
    /\ phase' = [phase EXCEPT ![t] = "done"]
    /\ registry' = [registry EXCEPT ![slotOf[t]] = NoTask]
    /\ UNCHANGED <<slotOf, doomed, stopped>>

Start(t) ==
    /\ phase[t] = "created"
    /\ phase' = [phase EXCEPT ![t] = IF t \in doomed THEN "done" ELSE "delay"]
    /\ UNCHANGED <<registry, slotOf, attempt, doomed, stopped>>

\* A sleep elapses and the resolver is asked.
Ask(t) ==
    /\ phase[t] \in {"delay", "retry"}
    /\ t \notin doomed
    /\ phase' = [phase EXCEPT ![t] = "resolve"]
    /\ attempt' = [attempt EXCEPT ![t] = @ + 1]
    /\ UNCHANGED <<registry, slotOf, doomed, stopped>>

\* Mutant: a poll that never gives up.
NotYetNoLimit(t) ==
    /\ phase[t] = "resolve"
    /\ t \notin doomed
    /\ phase' = [phase EXCEPT ![t] = "retry"]
    /\ UNCHANGED <<registry, slotOf, attempt, doomed, stopped>>

\* The resolver answered None.
NotYet(t) ==
    /\ phase[t] = "resolve"
    /\ t \notin doomed
    /\ IF attempt[t] < MaxAttempts
       THEN /\ phase' = [phase EXCEPT ![t] = "retry"]
            /\ UNCHANGED <<registry, slotOf, doomed, stopped>>
       ELSE Finish(t)
    /\ UNCHANGED attempt

\* The resolver answered an AuthInfo; on_authed runs in this same step.
Resolved(t) ==
    /\ phase[t] = "resolve"
    /\ t \notin doomed
    /\ Finish(t)
    /\ UNCHANGED attempt

\* Mutant: a poll that swallows its cancellation and sleeps again.
CancelledSwallowed(t) ==
    /\ phase[t] \in Suspended
    /\ t \in doomed
    /\ phase' = [phase EXCEPT ![t] = "retry"]
    /\ UNCHANGED <<registry, slotOf, attempt, doomed, stopped>>

\* The CancelledError is raised at the await the task was suspended on.
Cancelled(t) ==
    /\ phase[t] \in Suspended
    /\ t \in doomed
    /\ Finish(t)
    /\ UNCHANGED attempt

TaskStep(t) == Start(t) \/ Ask(t) \/ NotYet(t) \/ Resolved(t) \/ Cancelled(t)

AuthNext ==
    \/ \E c \in Slots : Schedule(c)
    \/ \E C \in SUBSET Slots : Cancel(C)
    \/ CancelAll
    \/ \E t \in Tasks : TaskStep(t)

AuthSpec == AuthInit /\ [][AuthNext]_authVars

\* The event loop runs every task that is ready, and every sleep and every
\* resolver call returns.
FairAuthSpec == AuthSpec /\ \A t \in Tasks : WF_authVars(TaskStep(t))

-----------------------------------------------------------------------------
AuthTypeOK ==
    /\ registry \in [Slots -> Tasks \cup {NoTask}]
    /\ phase \in [Tasks -> Phases]
    /\ slotOf \in [Tasks -> Slots]
    /\ attempt \in [Tasks -> 0..MaxAttempts]
    /\ doomed \subseteq Tasks
    /\ stopped \in BOOLEAN

\* `pending` never names a poll that is over or that was told to stop: whatever
\* order schedules, quits and ends of tasks come in, a remembered task is live
\* and polls for the slot it is remembered under.  (auth.py:66-115)
RegistryIsLive ==
    \A c \in Slots : registry[c] # NoTask =>
        /\ Live(registry[c])
        /\ slotOf[registry[c]] = c

\* A live poll is forgotten in one way only: an earlier poll for the same slot
\* was told to stop after it had started, and its `finally` cleared the entry
\* the later poll had taken over.  (auth.py:66-75 and 114-115)
ForgottenHasCause ==
    \A t \in Tasks : Live(t) /\ registry[slotOf[t]] # t =>
        \E u \in doomed : u # t /\ slotOf[u] = slotOf[t]

\* Every poll ends: it resolves, gives up after MaxAttempts or is cancelled.
\* (auth.py:98-115)
EveryPollEnds == \A t \in Tasks : phase[t] = "created" ~> phase[t] = "done"

-----------------------------------------------------------------------------
(* The registry of polls, for any number of slots and of polls.               *)

\* A poll that will ask again has an attempt left: what keeps the attempt
\* counter in its type when Ask increments it.
AttemptLeft ==
    \A t \in Tasks : phase[t] \in {"unused", "created", "delay", "retry"} =>
        attempt[t] < MaxAttempts

\* Only a poll that exists is told to stop, so a new one starts undoomed.
DoomedExist == \A t \in doomed : phase[t] # "unused"

\* The registry remembers live polls of the right slot, and a live poll that is
\* not remembered was overtaken by a cancelled one.
AuthInv ==
    AuthTypeOK /\ AttemptLeft /\ DoomedExist /\ RegistryIsLive /\ ForgottenHasCause

LEMMA AuthInitInv == AuthInit => AuthInv
<1> SUFFICES ASSUME AuthInit PROVE AuthInv
  OBVIOUS
<1> USE NoTaskAssumption, MaxAttemptsAssumption DEF AuthInit
<1>0. PICK c0 \in Slots : slotOf = [t \in Tasks |-> c0]
  OBVIOUS
<1>1. AuthTypeOK
  <2>1. registry \in [Slots -> Tasks \cup {NoTask}]
    OBVIOUS
  <2>2. phase \in [Tasks -> Phases]
    BY DEF Phases
  <2>3. slotOf \in [Tasks -> Slots]
    BY <1>0
  <2>4. attempt \in [Tasks -> 0..MaxAttempts]
    OBVIOUS
  <2> QED
    BY <2>1, <2>2, <2>3, <2>4 DEF AuthTypeOK
<1>2. AttemptLeft /\ DoomedExist
  BY DEF AttemptLeft, DoomedExist
<1>3. RegistryIsLive
  BY DEF RegistryIsLive
<1>4. ForgottenHasCause
  BY DEF ForgottenHasCause, Live, Unfinished, Suspended
<1> QED
  BY <1>1, <1>2, <1>3, <1>4 DEF AuthInv

\* Every step keeps the variables in their types and leaves an attempt to each
\* poll that will ask again.
LEMMA AuthTypeStep ==
  AuthTypeOK /\ AttemptLeft /\ DoomedExist /\ [AuthNext]_authVars
    => AuthTypeOK' /\ AttemptLeft' /\ DoomedExist'
<1> SUFFICES ASSUME AuthTypeOK, AttemptLeft, DoomedExist, [AuthNext]_authVars
             PROVE  AuthTypeOK' /\ AttemptLeft' /\ DoomedExist'
  OBVIOUS
<1> DEFINE Kept == AuthTypeOK' /\ AttemptLeft' /\ DoomedExist'
<1> USE NoTaskAssumption, MaxAttemptsAssumption
<1> USE DEF AuthTypeOK, AttemptLeft, DoomedExist, Phases, Unfinished, Suspended
<1>1. ASSUME NEW c \in Slots, Schedule(c) PROVE Kept
  BY <1>1 DEF Schedule, Remember, DoomedBy
<1>2. ASSUME NEW C \in SUBSET Slots, Cancel(C) PROVE Kept
  BY <1>2 DEF Cancel, CancelSlots, DoomedBy
<1>3. CASE CancelAll
  BY <1>3 DEF CancelAll, CancelSlots, DoomedBy
<1>4. ASSUME NEW t \in Tasks, Start(t) PROVE Kept
  BY <1>4 DEF Start
<1>5. ASSUME NEW t \in Tasks, Ask(t) PROVE Kept
  BY <1>5 DEF Ask
<1>6. ASSUME NEW t \in Tasks, NotYet(t) PROVE Kept
  BY <1>6 DEF NotYet, Finish
<1>7. ASSUME NEW t \in Tasks, Resolved(t) PROVE Kept
  BY <1>7 DEF Resolved, Finish
<1>8. ASSUME NEW t \in Tasks, Cancelled(t) PROVE Kept
  BY <1>8 DEF Cancelled, Finish
<1>9. CASE UNCHANGED authVars
  BY <1>9 DEF authVars
<1> QED
  BY <1>1, <1>2, <1>3, <1>4, <1>5, <1>6, <1>7, <1>8, <1>9 DEF AuthNext, TaskStep

\* A remembered poll is live: the steps that end or doom a poll clear its entry.
LEMMA RegistryStep ==
  AuthTypeOK /\ DoomedExist /\ RegistryIsLive /\ [AuthNext]_authVars => RegistryIsLive'
<1> SUFFICES ASSUME AuthTypeOK, DoomedExist, RegistryIsLive, [AuthNext]_authVars
             PROVE  RegistryIsLive'
  OBVIOUS
<1> USE NoTaskAssumption
<1> USE DEF AuthTypeOK, DoomedExist, RegistryIsLive, Live, Unfinished, Suspended, Phases
<1>1. ASSUME NEW c \in Slots, Schedule(c) PROVE RegistryIsLive'
  BY <1>1 DEF Schedule, Remember, DoomedBy
<1>2. ASSUME NEW C \in SUBSET Slots, Cancel(C) PROVE RegistryIsLive'
  BY <1>2 DEF Cancel, CancelSlots, DoomedBy
<1>3. CASE CancelAll
  BY <1>3 DEF CancelAll, CancelSlots, DoomedBy
<1>4. ASSUME NEW t \in Tasks, Start(t) PROVE RegistryIsLive'
  BY <1>4 DEF Start
<1>5. ASSUME NEW t \in Tasks, Ask(t) PROVE RegistryIsLive'
  BY <1>5 DEF Ask
<1>6. ASSUME NEW t \in Tasks, Finish(t) PROVE RegistryIsLive'
  BY <1>6 DEF Finish
<1>7. ASSUME NEW t \in Tasks, NotYet(t) PROVE RegistryIsLive'
  <2>1. CASE attempt[t] < MaxAttempts
    BY <1>7, <2>1 DEF NotYet
  <2>2. CASE ~(attempt[t] < MaxAttempts)
    <3>1. Finish(t)
      BY <1>7, <2>2 DEF NotYet
    <3> QED
      BY <1>6, <3>1
  <2> QED
    BY <2>1, <2>2
<1>8. ASSUME NEW t \in Tasks, Resolved(t) \/ Cancelled(t) PROVE RegistryIsLive'
  BY <1>6, <1>8 DEF Resolved, Cancelled
<1>9. CASE UNCHANGED authVars
  BY <1>9 DEF authVars
<1> QED
  BY <1>1, <1>2, <1>3, <1>4, <1>5, <1>7, <1>8, <1>9 DEF AuthNext, TaskStep

\* A live poll is forgotten only when a cancelled poll of its slot cleans up:
\* an uncancelled poll that ends is the one its slot remembers, or is itself
\* already forgotten.
LEMMA ForgottenStep ==
  AuthTypeOK /\ DoomedExist /\ RegistryIsLive /\ ForgottenHasCause /\ [AuthNext]_authVars
    => ForgottenHasCause'
<1> SUFFICES ASSUME AuthTypeOK, DoomedExist, RegistryIsLive, ForgottenHasCause,
                    [AuthNext]_authVars,
                    NEW t \in Tasks, Live(t)', (registry[slotOf[t]] # t)'
             PROVE  \E u \in doomed' : u # t /\ (slotOf[u] = slotOf[t])'
  BY DEF ForgottenHasCause
<1> USE NoTaskAssumption
<1> USE DEF AuthTypeOK, DoomedExist, RegistryIsLive, ForgottenHasCause, Live, Unfinished, Suspended, Phases
<1>1. ASSUME NEW c \in Slots, Schedule(c)
      PROVE  \E u \in doomed' : u # t /\ (slotOf[u] = slotOf[t])'
  BY <1>1 DEF Schedule, Remember, DoomedBy
<1>2. ASSUME NEW C \in SUBSET Slots, Cancel(C)
      PROVE  \E u \in doomed' : u # t /\ (slotOf[u] = slotOf[t])'
  BY <1>2 DEF Cancel, CancelSlots, DoomedBy
<1>3. ASSUME CancelAll
      PROVE  \E u \in doomed' : u # t /\ (slotOf[u] = slotOf[t])'
  BY <1>3 DEF CancelAll, CancelSlots, DoomedBy
<1>4. ASSUME NEW s \in Tasks, Start(s) \/ Ask(s)
      PROVE  \E u \in doomed' : u # t /\ (slotOf[u] = slotOf[t])'
  BY <1>4 DEF Start, Ask
<1>5. ASSUME NEW s \in Tasks, Finish(s), phase[s] \in Unfinished
      PROVE  \E u \in doomed' : u # t /\ (slotOf[u] = slotOf[t])'
  BY <1>5 DEF Finish
<1>6. ASSUME NEW s \in Tasks, NotYet(s)
      PROVE  \E u \in doomed' : u # t /\ (slotOf[u] = slotOf[t])'
  <2>1. CASE attempt[s] < MaxAttempts
    BY <1>6, <2>1 DEF NotYet
  <2>2. CASE ~(attempt[s] < MaxAttempts)
    <3>1. Finish(s) /\ phase[s] \in Unfinished
      BY <1>6, <2>2 DEF NotYet
    <3> QED
      BY <1>5, <3>1
  <2> QED
    BY <2>1, <2>2
<1>7. ASSUME NEW s \in Tasks, Resolved(s) \/ Cancelled(s)
      PROVE  \E u \in doomed' : u # t /\ (slotOf[u] = slotOf[t])'
  BY <1>5, <1>7 DEF Resolved, Cancelled
<1>8. CASE UNCHANGED authVars
  BY <1>8 DEF authVars
<1> QED
  BY <1>1, <1>2, <1>3, <1>4, <1>6, <1>7, <1>8 DEF AuthNext, TaskStep

\* The three invariants hold of every behaviour, for any number of slots, polls
\* and attempts.
THEOREM AuthCorrect == AuthSpec => [](AuthTypeOK /\ RegistryIsLive /\ ForgottenHasCause)
<1>1. AuthInit => AuthInv
  BY AuthInitInv
<1>2. AuthInv /\ [AuthNext]_authVars => AuthInv'
  BY AuthTypeStep, RegistryStep, ForgottenStep DEF AuthInv
<1>3. AuthInv => AuthTypeOK /\ RegistryIsLive /\ ForgottenHasCause
  BY DEF AuthInv
<1> QED
  BY <1>1, <1>2, <1>3, PTL DEF AuthSpec
=============================================================================
