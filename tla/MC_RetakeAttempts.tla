------------------------- MODULE MC_RetakeAttempts -------------------------
\* Instances of RetakeAttempts for TLC.
EXTENDS RetakeAttempts, TLC

\* Students and handlers are interchangeable.
Symmetry == Permutations(Students) \cup Permutations(Requests)
=============================================================================
