----------------------------- MODULE MCCodePages -----------------------------
(* Values of the constants of CodePages for TLC. *)
EXTENDS CodePages, TLC

CONSTANTS p1, p2, p3, f1, i1

MCPage == {p1, p2, p3}
MCFunc == {f1}
MCImport == {i1}
PageSymmetry == Permutations(MCPage)
=============================================================================
