------------------------------ MODULE MCSession ------------------------------
(* Two players, spelled once (the log's guid is the identity) or twice (the    *)
(* log prints a number of its own, as CoD4X does).                             *)
EXTENDS Session, TLC

CONSTANTS ann, bob

SpeltOnce == [p \in {ann, bob} |-> <<"table", p>>]
SpeltByLog == [p \in {ann, bob} |-> <<"log", p>>]

Symmetric == Permutations(Players) \cup Permutations(Slots) \cup Permutations(Tasks)
=============================================================================
