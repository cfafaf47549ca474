------------------------------ MODULE MCSession ------------------------------
(***************************************************************************)
(* Small instances of Session: one caller or two, two projects in turn.    *)
(***************************************************************************)
EXTENDS Session, TLC

CONSTANTS a, b, p1, p2, x1, x2, e1, s1, j1

One      == {a}
Two      == {a, b}
Projects == {p1, p2}
Servers  == {x1, x2}
Proxying == {e1}
Sending  == {s1}
Varying  == {j1}

\* Project and proxy instances are interchangeable, and so are two callers.
Symmetric == Permutations(Projects) \cup Permutations(Servers) \cup Permutations(Two)

=============================================================================
