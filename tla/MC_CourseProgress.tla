------------------------- MODULE MC_CourseProgress -------------------------
\* Instances of CourseProgress for TLC.
EXTENDS ProgressViews, TLC

CONSTANTS c1, c2

Has(contents, given) == [items |-> contents, assignments |-> given]

\* A chapter with an assignment alone, or two with an item each and an assignment
\* in one; an edit may turn either into the other.
SomeEditions == {c1 :> Has(0, 1), c1 :> Has(1, 0) @@ c2 :> Has(1, 1)}

\* The chapter, and its first item.
SomeKeys == {<<c1, 0>>, <<c1, 1>>}

Symmetry == Permutations(Requests)
=============================================================================
