---------------------------- MODULE MC_Enrollment ----------------------------
\* Instances of Enrollment for TLC.
EXTENDS Enrollment, TLC

\* Students, courses, grades and handlers are interchangeable.
Symmetry == Permutations(Students) \cup Permutations(Courses)
              \cup Permutations(Grades) \cup Permutations(Requests)
=============================================================================
