------------------------------ MODULE Admission ------------------------------
(* What the bot promises about bans: a player may be admitted to a slot at    *)
(* any moment, except under a record that holds a ban in force.               *)
EXTENDS FiniteSets

CONSTANTS Slots, Ids, None

VARIABLES banned, admitted

admissionVars == <<banned, admitted>>

Init ==
    /\ banned \subseteq Ids
    /\ admitted = [s \in Slots |-> None]

\* Anybody may be admitted who is not banned, anybody may go, in any slots.
Admit ==
    /\ admitted' \in [Slots -> Ids \cup {None}]
    /\ \A s \in Slots : admitted'[s] \in {admitted[s], None} \cup (Ids \ banned)
    /\ UNCHANGED banned

\* A ban does not throw anybody out by itself: the game server does.
Judge ==
    /\ banned' \subseteq Ids
    /\ UNCHANGED admitted

Spec == Init /\ [][Admit \/ Judge]_admissionVars
=============================================================================
