------------------------- MODULE MC_SchoolAccounts -------------------------
\* Instances of SchoolAccounts for TLC.
EXTENDS SchoolAccounts, TLC

Symmetry == Permutations(Emails) \cup Permutations(Domains) \cup Permutations(Requests)
=============================================================================
