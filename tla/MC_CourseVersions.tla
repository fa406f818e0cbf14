------------------------- MODULE MC_CourseVersions -------------------------
\* Instances of CourseVersions for TLC.
EXTENDS CourseVersions, TLC

CONSTANTS c1, c2, t1, s1, s2, g1, g2

Items(chapters) == [p \in Places |-> IF p[1] \in chapters THEN 1 ELSE 0]

Edit(parts, schools, grades, chapters, items) ==
    [parts |-> parts,
     body  |-> [schools |-> schools, grades |-> grades, chapters |-> chapters,
                copies |-> Items(items)]]

\* A whole course, its content alone (a chapter more, the items of one), and
\* content with an item of a chapter it does not name.
SomeEdits ==
    {Edit(Parts, {s1}, {g1}, {c1}, {c1}),
     Edit({"content"}, {}, {}, {c1, c2}, {c2}),
     Edit({"content"}, {}, {}, {c2}, {c1})}

\* Two schools with different grades.
PairedRules == {s1 :> {g1} @@ s2 :> {g2}}

Symmetry == Permutations(Requests)
=============================================================================
