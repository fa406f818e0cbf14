------------------------ MODULE MC_LeavesAttendance ------------------------
\* Instances of LeavesAttendance for TLC, with the views on it.
EXTENDS AttendanceViews, TLC

\* Leaves, periods and handlers are interchangeable; days are ordered.
Symmetry == Permutations(LeaveId) \cup Permutations(Periods)
              \cup Permutations(Requests)
=============================================================================
