---------------------------- MODULE MCExecution ----------------------------
(* Values of the constants of Execution and Operators for TLC. *)
EXTENDS Execution, Operators, TLC

CONSTANTS s, a, b, p

\* The start function calls the import, a calls b, b calls the import and itself.
MCFunc == {s, a, b, p}
MCBody == s :> {p} @@ a :> {b} @@ b :> {b, p}

\* The operators are those of WebAssembly (m3_exec.h:117).  That does not depend on the
\* state and is looked at once, in the initial one.
OperatorsHold == Init => OperatorsRight
=============================================================================
