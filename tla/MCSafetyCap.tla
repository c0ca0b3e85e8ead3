---- MODULE MCSafetyCap ----
EXTENDS SafetyCap, TLC
Symmetry == Permutations(Actions \ (Recommendations \cup LambdaLimits)) \cup Permutations(Threads)
====
