------------------------------ MODULE ReadyUp ------------------------------
(****************************************************************************)
(* Everybody says !ready before a match (core/matchmode and the plugins of     *)
(* Medal of Honor, Bad Company 2 and Homefront that use it).  Once a second    *)
(* the plugin looks who is here: whoever has not said so is reminded, and       *)
(* when nobody is left it counts down and has the server start the round again. *)
(*                                                                          *)
(* A client is an object, so that whoever comes back is not the one who was     *)
(* ready.  Which plugins match mode switches off is in Commands.               *)
(****************************************************************************)
EXTENDS Integers, FiniteSets

CONSTANTS
    Players,
    Nag,        \* NAG_SECONDS
    CountFrom,  \* COUNTDOWN_FROM
    Beat        \* COUNTDOWN_STEP

\* What core/matchmode.py:39-44 and its callers make the three.
Paces == Nag \in Nat /\ CountFrom \in Nat /\ Beat \in Nat

VARIABLES
    here,      \* the players who are connected
    inForce,   \* whether the plugin is enabled
    match,     \* match_mode
    awaiting,  \* _running
    ready,     \* _ready
    count,     \* _count, -1 for None
    wait,      \* how long until _due
    agreed     \* history: who was here when the countdown began and still is

ruVars == <<here, inForce, match, awaiting, ready, count, wait, agreed>>

NotBegun == -1
CountingDown == count # NotBegun

Init ==
    /\ here \in SUBSET Players
    /\ inForce = TRUE /\ match = FALSE
    /\ awaiting = FALSE /\ ready = {} /\ count = NotBegun /\ wait = 0
    /\ agreed = {}

-----------------------------------------------------------------------------
\* begin
Begin == awaiting' = TRUE /\ ready' = {} /\ count' = NotBegun /\ wait' = Nag

\* cancel
Cancel == awaiting' = FALSE /\ ready' = {} /\ count' = NotBegun /\ wait' = 0

\* !match on, whether it is on already or not
MatchOn ==
    /\ inForce
    /\ match' = TRUE
    /\ Begin
    /\ agreed' = {}
    /\ UNCHANGED <<here, inForce>>

\* !match off
MatchOff ==
    /\ inForce
    /\ match' = FALSE
    /\ Cancel
    /\ agreed' = {}
    /\ UNCHANGED <<here, inForce>>

\* on_disable leaves match mode as it is.
Disable ==
    /\ inForce
    /\ inForce' = FALSE
    /\ Cancel
    /\ agreed' = {}
    /\ UNCHANGED <<here, match>>

Enable ==
    /\ ~inForce
    /\ inForce' = TRUE
    /\ UNCHANGED <<here, match, awaiting, ready, count, wait, agreed>>

\* Mutant: one may change one's mind while it counts down.
ToggleLate(p) ==
    /\ inForce /\ awaiting /\ p \in here
    /\ ready' = IF p \in ready THEN ready \ {p} ELSE ready \cup {p}
    /\ UNCHANGED <<here, inForce, match, awaiting, count, wait, agreed>>

\* !ready, and again to take it back
Toggle(p) ==
    /\ inForce /\ awaiting /\ ~CountingDown /\ p \in here
    /\ ready' = IF p \in ready THEN ready \ {p} ELSE ready \cup {p}
    /\ UNCHANGED <<here, inForce, match, awaiting, count, wait, agreed>>

-----------------------------------------------------------------------------
(* What a second brings.                                                    *)

Due == inForce /\ awaiting /\ wait = 0

Remind ==
    /\ Due /\ ~CountingDown
    /\ here = {} \/ ~(here \subseteq ready)
    /\ wait' = Nag
    /\ UNCHANGED <<here, inForce, match, awaiting, ready, count, agreed>>

StartCounting ==
    /\ Due /\ ~CountingDown
    /\ here # {} /\ here \subseteq ready
    /\ count' = CountFrom
    /\ wait' = Beat
    /\ agreed' = here
    /\ UNCHANGED <<here, inForce, match, awaiting, ready>>

CountDown ==
    /\ Due /\ CountingDown /\ count > 0
    /\ count' = count - 1
    /\ wait' = Beat
    /\ UNCHANGED <<here, inForce, match, awaiting, ready, agreed>>

\* The round is started again.
Start ==
    /\ Due /\ CountingDown /\ count <= 0
    /\ Cancel
    /\ agreed' = {}
    /\ UNCHANGED <<here, inForce, match>>

Tick ==
    /\ wait > 0
    /\ wait' = wait - 1
    /\ UNCHANGED <<here, inForce, match, awaiting, ready, count, agreed>>

-----------------------------------------------------------------------------
Join(p) ==
    /\ p \notin here
    /\ here' = here \cup {p}
    /\ UNCHANGED <<inForce, match, awaiting, ready, count, wait, agreed>>

Leave(p) ==
    /\ p \in here
    /\ here' = here \ {p}
    /\ ready' = ready \ {p}
    /\ agreed' = agreed \ {p}
    /\ UNCHANGED <<inForce, match, awaiting, count, wait>>

Next ==
    \/ \E p \in Players : Toggle(p) \/ Join(p) \/ Leave(p)
    \/ MatchOn \/ MatchOff \/ Disable \/ Enable
    \/ Remind \/ StartCounting \/ CountDown \/ Start \/ Tick

Spec == Init /\ [][Next]_ruVars

-----------------------------------------------------------------------------
TypeOK ==
    /\ here \in SUBSET Players /\ ready \in SUBSET Players /\ agreed \in SUBSET Players
    /\ inForce \in BOOLEAN /\ match \in BOOLEAN /\ awaiting \in BOOLEAN
    /\ count \in Int /\ wait \in Nat

\* A round is only started in match mode, and everybody who was here when the countdown began
\* and still is has said to be ready and has not taken it back, whatever is switched, started
\* again or cancelled meanwhile. (core/matchmode.py:106-157)
StartsAgreed == Start => inForce /\ match /\ agreed \subseteq ready
=============================================================================
