------------------------------ MODULE Sentences ------------------------------
(* What a ban promises: who has been sentenced, until when, and who may come   *)
(* in.  A later sentence never shortens an earlier one.                        *)
EXTENDS Integers

CONSTANT Players

VARIABLES
    now,
    terms,    \* the ends of each player's sentences that nobody lifted
    admitted  \* who is served

Never == -1  \* the end of a permanent sentence

Serving(p) == \E end \in terms[p] : end = Never \/ end > now

Init ==
    /\ now = 0
    /\ terms = [p \in Players |-> {}]
    /\ admitted = {}

Pronounce(p) ==
    /\ terms[p] \subseteq terms'[p]
    /\ terms' = [terms EXCEPT ![p] = terms'[p]]
    /\ UNCHANGED <<now, admitted>>

Pardon(p) ==
    /\ terms' = [terms EXCEPT ![p] = {}]
    /\ UNCHANGED <<now, admitted>>

Admit(p) ==
    /\ ~Serving(p)
    /\ admitted' = admitted \cup {p}
    /\ UNCHANGED <<now, terms>>

Dismiss(p) ==
    /\ admitted' = admitted \ {p}
    /\ UNCHANGED <<now, terms>>

Tick ==
    /\ now' = now + 1
    /\ UNCHANGED <<terms, admitted>>

Next ==
    \/ \E p \in Players : Pronounce(p) \/ Pardon(p) \/ Admit(p) \/ Dismiss(p)
    \/ Tick

Spec == Init /\ [][Next]_<<now, terms, admitted>>
=============================================================================
