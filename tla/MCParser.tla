------------------------------ MODULE MCParser ------------------------------
(* Values of the constants of Parser and Leb for TLC. *)
EXTENDS Parser, Leb, TLC

CONSTANTS p1, p2, p3, a, b

MCStr == {p1, p2, p3}
MCText == {a, b}
MCSymmetry == Permutations(MCStr) \cup Permutations(MCText)

\* Every number of a module is read for what it is (m3_core.c:342).  That does not depend on the
\* state and is looked at once, in the initial one.
NumbersHold == Init => LebRight
=============================================================================
