---- MODULE MCActionRunner ----
EXTENDS ActionRunner, TLC
Symmetry == Permutations(Forward) \cup Permutations(Reverse) \cup Permutations(Threads)
====
