---------------------------- MODULE MCFuncTypes ----------------------------
(* Values of the constants of FuncTypes and Signatures for TLC. *)
EXTENDS FuncTypes, Signatures, TLC

CONSTANTS a1, a2, a3, a4, a5, s1, s2, s3, m1, m2

MCAddress == {a1, a2, a3, a4, a5}
MCSimple == <<s1>>
MCStructure == {s1, s2, s3}
MCModule == {m1, m2}
MCSymmetry == Permutations(MCAddress) \cup Permutations({s2, s3}) \cup Permutations(MCModule)

\* Both ends of a signature agree (m3_bind.c:28).  That does not depend on the
\* state and is looked at once, in the initial one.
SignaturesHold == Init => SignaturesAgree
=============================================================================
