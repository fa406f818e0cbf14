------------------------- MODULE MC_PasswordResets -------------------------
\* Instances of PasswordResets for TLC.
EXTENDS PasswordResets, TLC

CONSTANTS here, there

\* A student, a teacher of no school, of one and of two, and a school admin.
SomeUsers ==
    [role : {"student", "school_admin"}, tenant : {here}, schools : {{here}}] \cup
    [role : {"teacher"}, tenant : {here}, schools : {{}, {here}, {here, there}}]

Symmetry == Permutations(Workers)
=============================================================================
