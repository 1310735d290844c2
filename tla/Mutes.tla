------------------------------- MODULE Mutes -------------------------------
(****************************************************************************)
(* Mutes (runtime/bot.py).  Several plugins mute, each for as long as it     *)
(* likes, through the one deadline the bot keeps for each slot.  The server  *)
(* is told a number of seconds and, on most builds, counts them itself; the  *)
(* sweep lifts what a build does not.  The deadline belongs to the slot and  *)
(* is still there when somebody else sits down in it.                        *)
(****************************************************************************)
EXTENDS Integers

CONSTANTS
    Slots,
    Lengths,  \* the seconds a mute is given for
    Sweep,    \* how often expired mutes are lifted: every five seconds
    MaxTime   \* how long the clock runs: the bound

VARIABLES
    now,
    counts,     \* the server: whether it counts the seconds itself
    seated,     \* the slots somebody is in
    muted,      \* _muted: each slot's deadline, 0 for none
    silent,     \* the server: until when it silences who is in each slot, 0 for not
    promised,   \* history: the longest mute the bot said it gave to who is in each slot
    inherited   \* history: slots that had a deadline when they were sat down in

vars == <<now, counts, seated, muted, silent, promised, inherited>>

Init ==
    /\ now = 0 /\ counts \in BOOLEAN /\ seated = {}
    /\ muted = [c \in Slots |-> 0] /\ silent = [c \in Slots |-> 0]
    /\ promised = [c \in Slots |-> 0] /\ inherited = {}

Silenced(c) == silent[c] # 0 /\ (counts => silent[c] > now)

Longer(a, b) == IF a > b THEN a ELSE b

\* Mutant: the last mute wins.
MuteAnyway(c, seconds) ==
    /\ c \in seated
    /\ muted' = [muted EXCEPT ![c] = now + seconds]
    /\ silent' = [silent EXCEPT ![c] = now + seconds]
    /\ promised' = [promised EXCEPT ![c] = Longer(@, now + seconds)]
    /\ UNCHANGED <<now, counts, seated, inherited>>

Mute(c, seconds) ==
    /\ c \in seated
    /\ IF now + seconds <= muted[c] THEN UNCHANGED <<muted, silent>>
       ELSE /\ muted' = [muted EXCEPT ![c] = now + seconds]
            /\ silent' = [silent EXCEPT ![c] = now + seconds]
    /\ promised' = [promised EXCEPT ![c] = Longer(@, now + seconds)]
    /\ UNCHANGED <<now, counts, seated, inherited>>

Unmute(c) ==
    /\ c \in seated
    /\ muted' = [muted EXCEPT ![c] = 0]
    /\ silent' = [silent EXCEPT ![c] = 0]
    /\ promised' = [promised EXCEPT ![c] = 0]
    /\ inherited' = inherited \ {c}
    /\ UNCHANGED <<now, counts, seated>>

\* _lift_expired_mutes.  It is due in every second the sweep divides.
LiftExpired ==
    LET over == {c \in Slots : muted[c] # 0 /\ now >= muted[c]}
    IN  /\ now % Sweep = 0 /\ over # {}
        /\ muted' = [c \in Slots |-> IF c \in over THEN 0 ELSE muted[c]]
        /\ silent' = [c \in Slots |-> IF c \in over \cap seated THEN 0 ELSE silent[c]]
        /\ inherited' = inherited \ over
        /\ UNCHANGED <<now, counts, seated, promised>>

Sit(c) ==
    /\ c \notin seated
    /\ seated' = seated \cup {c}
    /\ inherited' = IF muted[c] # 0 THEN inherited \cup {c} ELSE inherited
    /\ UNCHANGED <<now, counts, muted, silent, promised>>

\* The server forgets who it silenced when they go, and the bot forgets nothing.
Leave(c) ==
    /\ c \in seated
    /\ seated' = seated \ {c}
    /\ silent' = [silent EXCEPT ![c] = 0] /\ promised' = [promised EXCEPT ![c] = 0]
    /\ inherited' = inherited \ {c}
    /\ UNCHANGED <<now, counts, muted>>

Tick == now < MaxTime /\ now' = now + 1
        /\ UNCHANGED <<counts, seated, muted, silent, promised, inherited>>

Next ==
    \/ \E c \in Slots : \/ \E s \in Lengths : Mute(c, s)
                        \/ Unmute(c) \/ Sit(c) \/ Leave(c)
    \/ LiftExpired \/ Tick

Spec == Init /\ [][Next]_vars

-----------------------------------------------------------------------------
TypeOK ==
    /\ now \in 0..MaxTime /\ counts \in BOOLEAN
    /\ seated \subseteq Slots /\ inherited \subseteq seated
    /\ {muted, silent, promised} \subseteq [Slots -> Nat]

\* Whoever was told they are muted for a while is silent for all of it, however many
\* plugins mute them and whatever the sweep lifts in between, unless an admin lets them
\* speak or the slot still had its last occupant's deadline.  And a silence has a
\* deadline that ends it, on a server that counts and on one that does not.
\* (bot.py:1547-1589)
LongestMuteHolds ==
    \A c \in seated :
        /\ promised[c] > now /\ c \notin inherited => Silenced(c)
        /\ Silenced(c) => muted[c] >= silent[c]

=============================================================================
