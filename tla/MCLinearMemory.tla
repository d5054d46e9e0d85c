--------------------------- MODULE MCLinearMemory ---------------------------
(* Values of the constants of LinearMemory for TLC. *)
EXTENDS LinearMemory, TLC

CONSTANTS a1, a2

MCAddress == {a1, a2}
MCSymmetry == Permutations(MCAddress)

\* One more than the bytes of the largest memory.
MCOffset == 0..LimitPages * PageSize + 1

\* And one byte before the memory.
MCHeapOffset == MCOffset \cup {-1}
=============================================================================
