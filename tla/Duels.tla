------------------------------- MODULE Duels -------------------------------
(****************************************************************************)
(* Two players counting kills on each other (plugins/duel).  A challenge has *)
(* to be accepted by the other side; challenging somebody who challenged     *)
(* first accepts.  Either side may leave, call it off or start it again.     *)
(****************************************************************************)
EXTENDS Integers, FiniteSets

CONSTANTS
    Players,
    MaxDuels,  \* settings.max_duels, asked of the challenger only
    Timeout,   \* settings.proposal_timeout, 0 for never
    MaxKills,  \* how many kills are counted: the bound
    MaxTime    \* how long the clock runs: the bound

VARIABLES
    now,
    connected,
    duels,     \* the Duels, as records with each side's score
    agreed     \* history: the pairs of which each has said !duel to the other

vars == <<now, connected, duels, agreed>>

Duel == [challenger : Players, opponent : Players, accepted : BOOLEAN, at : Nat,
         scores : [Players -> Nat]]

Init == now = 0 /\ connected = Players /\ duels = {} /\ agreed = {}

-----------------------------------------------------------------------------
Sides(d) == {d.challenger, d.opponent}
DuelsOf(p) == {d \in duels : p \in Sides(d)}
Between(p, q) == {d \in duels : {p, q} = Sides(d)}
NoScore == [p \in Players |-> 0]

Propose(p, q) ==
    /\ {p, q} \subseteq connected /\ p # q /\ Between(p, q) = {}
    /\ Cardinality(DuelsOf(p)) < MaxDuels
    /\ duels' = duels \cup {[challenger |-> p, opponent |-> q, accepted |-> FALSE, at |-> now,
                             scores |-> NoScore]}
    /\ UNCHANGED <<now, connected, agreed>>

\* Mutant: saying !duel twice accepts one's own challenge.
AnswerExistingOneself(p, q) ==
    \E d \in Between(p, q) :
        /\ {p, q} \subseteq connected /\ p # q /\ ~d.accepted
        /\ duels' = (duels \ {d}) \cup {[d EXCEPT !.accepted = TRUE, !.scores = NoScore]}
        /\ agreed' = IF d.opponent = p THEN agreed \cup {{p, q}} ELSE agreed
        /\ UNCHANGED <<now, connected>>

\* _answer_existing: the challenger who asks again is reminded, and nothing changes.
AnswerExisting(p, q) ==
    \E d \in Between(p, q) :
        /\ p \in connected /\ p # q /\ ~d.accepted /\ d.challenger # p
        /\ duels' = (duels \ {d}) \cup {[d EXCEPT !.accepted = TRUE, !.scores = NoScore]}
        /\ agreed' = agreed \cup {{p, q}}
        /\ UNCHANGED <<now, connected>>

Kill(p, q) ==
    /\ {p, q} \subseteq connected /\ p # q
    /\ \E d \in Between(p, q) :
          /\ d.accepted /\ d.scores[p] < MaxKills
          /\ duels' = (duels \ {d}) \cup {[d EXCEPT !.scores[p] = @ + 1]}
    /\ UNCHANGED <<now, connected, agreed>>

\* cmd_duelcancel
CallOff(p, d) ==
    /\ p \in connected /\ d \in DuelsOf(p)
    /\ duels' = duels \ {d} /\ agreed' = agreed \ {Sides(d)}
    /\ UNCHANGED <<now, connected>>

\* cmd_duelreset
Reset(p, d) ==
    /\ p \in connected /\ d \in DuelsOf(p)
    /\ duels' = (duels \ {d}) \cup {[d EXCEPT !.scores = NoScore]}
    /\ UNCHANGED <<now, connected, agreed>>

Leave(p) ==
    /\ p \in connected
    /\ connected' = connected \ {p}
    /\ duels' = duels \ DuelsOf(p)
    /\ agreed' = {pair \in agreed : p \notin pair}
    /\ UNCHANGED now

Enter(p) == p \notin connected /\ connected' = connected \cup {p}
            /\ UNCHANGED <<now, duels, agreed>>

\* _expire_proposals
Expire ==
    LET over == {d \in duels : ~d.accepted /\ now - d.at >= Timeout}
    IN  /\ Timeout > 0 /\ over # {}
        /\ duels' = duels \ over
        /\ UNCHANGED <<now, connected, agreed>>

\* on_disable
Disable == duels' = {} /\ agreed' = {} /\ UNCHANGED <<now, connected>>

Tick == now < MaxTime /\ now' = now + 1 /\ UNCHANGED <<connected, duels, agreed>>

Next ==
    \/ \E p, q \in Players : Propose(p, q) \/ AnswerExisting(p, q) \/ Kill(p, q)
    \/ \E p \in Players : \/ Leave(p) \/ Enter(p)
                          \/ \E d \in duels : CallOff(p, d) \/ Reset(p, d)
    \/ Expire \/ Disable \/ Tick

Spec == Init /\ [][Next]_vars

-----------------------------------------------------------------------------
TypeOK ==
    /\ now \in 0..MaxTime
    /\ connected \subseteq Players
    /\ \A d \in duels : d \in Duel

\* There is one duel at most between two players, they are two, both are there, and it
\* counts once each of them has asked for it: a challenge that ran out, was called off or
\* was left behind never comes back as a duel.  (plugins/duel/__init__.py:165-320)
DuelsAreMutual ==
    \A d \in duels :
        /\ d.challenger # d.opponent /\ Sides(d) \subseteq connected
        /\ Between(d.challenger, d.opponent) = {d}
        /\ d.accepted <=> Sides(d) \in agreed
        /\ ~d.accepted => d.scores = NoScore

=============================================================================
