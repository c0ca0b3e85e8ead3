---- MODULE MCTwoPerson ----
EXTENDS TwoPerson, TLC

Symmetry == Permutations(Operators) \cup Permutations(Calls)
====
