------------------------------- MODULE MCCore -------------------------------
(* Three parts of the core, one at a time: the polls of AuthTasks, the loop    *)
(* of RunLoop, or the sentences of Penalties.  RunLoop has what the polls      *)
(* publish, and AuthTasks the shutdown of the loop, so none needs the state of *)
(* another; whichever is not checked rests.                                    *)
(*                                                                            *)
(* Two slots and three polls: enough for a poll to be restarted and for its    *)
(* successor to be restarted in turn, next to a slot that is left alone.       *)
EXTENDS AuthTasks, RunLoop, Penalties

CONSTANT MaxJobs  \* the scheduled jobs: one every second, the rest once a minute

MCJobs == 1..MaxJobs
MCDueAt == [j \in MCJobs |-> IF j = 1 THEN 0..(Seconds - 1) ELSE {0}]
MCOneShot == {MaxJobs}

AuthRests ==
    /\ stopped = TRUE /\ doomed = {}
    /\ phase = [t \in Tasks |-> "unused"] /\ attempt = [t \in Tasks |-> 0]
    /\ slotOf = [t \in Tasks |-> CHOOSE c \in Slots : TRUE]
    /\ registry = [c \in Slots |-> NoTask]

LoopRests ==
    /\ pc = "over" /\ second = 0 /\ batch = 0 /\ background = {} /\ tracked = {}
    /\ scheduled = {} /\ disabled = {} /\ due = {} /\ fired = {} /\ late = FALSE
    /\ polls = 0 /\ ended = TRUE

VARIABLE checked

CoreInit ==
    \/ checked = "auth" /\ AuthInit /\ LoopRests /\ Init
    \/ checked = "loop" /\ AuthRests /\ LoopInit /\ Init
    \/ checked = "penalties" /\ AuthRests /\ LoopRests /\ Init

CoreNext ==
    /\ \/ checked = "auth" /\ AuthNext /\ UNCHANGED <<loopVars, vars>>
       \/ checked = "loop" /\ LoopNext /\ UNCHANGED <<authVars, vars>>
       \/ checked = "penalties" /\ Next /\ UNCHANGED <<authVars, loopVars>>
    /\ UNCHANGED checked

\* The fairness of each, of steps that only the part being checked can take.
PenaltiesFairness ==
    /\ WF_vars(checked = "penalties" /\ Tick)
    /\ \A p \in Players :
          /\ SF_vars(checked = "penalties" /\ Join(p)) /\ WF_vars(checked = "penalties" /\ Quit(p))
          /\ WF_vars(checked = "penalties" /\ Connect(p))
          /\ WF_vars(checked = "penalties" /\ Leave(p))

CoreSpec ==
    /\ CoreInit /\ [][CoreNext]_<<authVars, loopVars, vars, checked>>
    /\ \A t \in Tasks : WF_authVars(TaskStep(t))
    /\ LoopFairness /\ PenaltiesFairness

CoreTypeOK == AuthTypeOK /\ LoopTypeOK /\ TypeOK

\* The property of Penalties, of the behaviours it is checked in.
PlayerComesBack == checked = "penalties" => ComesBack

\* What was begun is not forgotten: a poll without a cause, or an event of a line before the
\* next line is read.  Of AuthTasks and RunLoop.
NothingForgotten == ForgottenHasCause /\ LineSettles

\* No wait is for ever: for a status, or for a ban to be over.  Of AuthTasks and Penalties.
WaitingEnds == EveryPollEnds /\ PlayerComesBack
=============================================================================
