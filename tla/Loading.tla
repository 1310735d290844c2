------------------------------- MODULE Loading -------------------------------
(****************************************************************************)
(* Loading and starting the plugins of a configuration: core/pluginmgr.py,   *)
(* and add_plugin and start of runtime/bot.py.                               *)
(*                                                                          *)
(* Every way in which the plugins can need one another is an initial state:   *)
(* what each requires, and what it only wants to come after.  Importing a     *)
(* module, reading its configuration and whether it may run are one outcome   *)
(* each, open until it is asked for.                                         *)
(****************************************************************************)
EXTENDS Naturals, Sequences

CONSTANTS
    Modules,  \* the plugins there are
    Row       \* the place of each in the configuration

VARIABLES
    listed,   \* the plugins in the configuration
    requires, \* requires_plugins
    follows,  \* load_after
    unfit,    \* found to be disabled in the configuration, or not for this game
    phase,
    pending,  \* those that wait for others, with the ones they wait for
    order,    \* order_names, so far
    loaded,   \* how many of these are loaded
    on,       \* is_enabled
    started   \* how many have been started or passed over

loVars == <<listed, requires, follows, unfit, phase, pending, order, loaded, on, started>>
conf == <<listed, requires, follows>>

Ordered == {order[i] : i \in 1..Len(order)}
Loaded == {order[i] : i \in 1..loaded}
Up == {order[i] : i \in 1..started} \cap on

Init ==
    /\ listed \in SUBSET Modules
    /\ requires \in [Modules -> SUBSET Modules]
    /\ follows \in [Modules -> SUBSET Modules]
    /\ \A p \in Modules : /\ p \notin requires[p] \cup follows[p]
                          /\ requires[p] \cap follows[p] = {}
                          /\ p \notin listed => requires[p] = {} /\ follows[p] = {}
    /\ unfit = {}
    /\ phase = "importing" /\ pending = <<>> /\ order = <<>> /\ loaded = 0
    /\ on = {} /\ started = 0

-----------------------------------------------------------------------------
\* A bug: nobody waits for one who only wants to come after.
NeedsRequired(p) == (requires[p] \cap listed) \ {p}

\* What is waited for: whatever is not in the configuration, and oneself, is passed over.
Needs(p) == ((requires[p] \cup follows[p]) \cap listed) \ {p}

Missing == {p \in listed : ~(requires[p] \subseteq listed)}

\* Every class is imported before the requirements are looked at.  Importing may fail, as may
\* finding the one plugin class of a module.
Import ==
    /\ phase = "importing"
    /\ \/ phase' = "refused" /\ UNCHANGED pending
       \/ /\ phase' = IF Missing = {} THEN "ordering" ELSE "refused"
          /\ pending' = [p \in listed |-> Needs(p)]
    /\ UNCHANGED <<conf, unfit, order, loaded, on, started>>

Ready == {p \in DOMAIN pending \ Ordered : pending[p] = {}}

FirstRow(S) == CHOOSE p \in S : \A q \in S : Row[p] <= Row[q]

\* A bug: the first in the configuration whether it waits or not.
OrderByRow ==
    LET p == FirstRow(listed \ Ordered)
    IN /\ phase = "ordering" /\ listed \ Ordered # {}
       /\ order' = Append(order, p)
       /\ pending' = [q \in listed |-> pending[q] \ {p}]
       /\ UNCHANGED <<conf, unfit, phase, loaded, on, started>>

\* One is put next, and whoever waited for it no longer does.
OrderNext ==
    LET p == FirstRow(Ready)
    IN /\ phase = "ordering" /\ Ready # {}
       /\ order' = Append(order, p)
       /\ pending' = [q \in listed |-> pending[q] \ {p}]
       /\ UNCHANGED <<conf, unfit, phase, loaded, on, started>>

\* Nobody is ready: either all are placed, or the rest wait for one another.
OrderEnds ==
    /\ phase = "ordering" /\ Ready = {}
    /\ phase' = IF Ordered = listed THEN "loading" ELSE "cycle"
    /\ UNCHANGED <<conf, unfit, pending, order, loaded, on, started>>

\* A bug: what it needs may be off.
MayRunAlone(p, bad) == p \notin bad

\* What is off, and what needs something that is off, is loaded and not enabled.
MayRun(p, bad) == p \notin bad /\ requires[p] \subseteq on

\* The configuration of what may run must be there and have no problems.
Load ==
    LET p == order[loaded + 1]
    IN /\ phase = "loading" /\ loaded < Len(order)
       /\ unfit' \in {unfit, unfit \cup {p}}
       /\ \/ MayRun(p, unfit') /\ phase' = "refused" /\ UNCHANGED <<loaded, on>>
          \/ /\ loaded' = loaded + 1 /\ UNCHANGED phase
             /\ on' = IF MayRun(p, unfit') THEN on \cup {p} ELSE on
       /\ UNCHANGED <<conf, pending, order, started>>

LoadEnds ==
    /\ phase = "loading" /\ loaded = Len(order) /\ phase' = "starting"
    /\ UNCHANGED <<conf, unfit, pending, order, loaded, on, started>>

\* Plugins are started in the order they were loaded in.
Start ==
    /\ phase = "starting" /\ started < Len(order)
    /\ started' = started + 1
    /\ UNCHANGED <<conf, unfit, phase, pending, order, loaded, on>>

Next == Import \/ OrderNext \/ OrderEnds \/ Load \/ LoadEnds \/ Start

Spec == Init /\ [][Next]_loVars

-----------------------------------------------------------------------------
Phases == {"importing", "ordering", "loading", "starting", "refused", "cycle"}

TypeOK ==
    /\ listed \subseteq Modules /\ unfit \subseteq listed
    /\ requires \in [Modules -> SUBSET Modules] /\ follows \in [Modules -> SUBSET Modules]
    /\ phase \in Phases /\ order \in Seq(listed) /\ on \subseteq Loaded
    /\ loaded \in 0..Len(order) /\ started \in 0..loaded

\* When a plugin is started, everything it requires is up, and everything it wants to come after
\* that will be up is. (pluginmgr.py:116-152, runtime/bot.py:238-242)
UpAfterItsNeeds ==
    \A p \in Up : /\ requires[p] \subseteq Up \cup {p}
                  /\ follows[p] \cap on \subseteq Up \cup {p}

\* The bot refuses to start over the order only if some plugins wait for one another all round:
\* each of them has one of them to wait for. (pluginmgr.py:149-151)
RefusedForACycle ==
    phase = "cycle" =>
        /\ listed \ Ordered # {}
        /\ \A p \in listed \ Ordered : Needs(p) \ Ordered # {}

\* Loading leaves off what must be, and nothing else: a plugin that is fit is on as soon as all it
\* requires is. (pluginmgr.py:223-235)
OffForCause ==
    phase = "starting" =>
        \A p \in listed : p \in on <=> p \notin unfit /\ requires[p] \subseteq on
=============================================================================
