----------------------------- MODULE MC_Staffing -----------------------------
\* Instances of Timetable and TeacherSections, which name the same teachers.
EXTENDS TeacherSections, TLC

Symmetry == Permutations(Teachers) \cup Permutations(Rooms) \cup Permutations(Bookers)
            \cup Permutations(Schools) \cup Permutations(Names) \cup Permutations(Editors)
=============================================================================
