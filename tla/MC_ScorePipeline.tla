-------------------------- MODULE MC_ScorePipeline --------------------------
\* Instances of ScorePipeline for TLC.
EXTENDS ScorePipeline, TLC

\* Students and handlers are interchangeable.
Symmetry == Permutations(Enrolled) \cup Permutations(Handlers)
=============================================================================
