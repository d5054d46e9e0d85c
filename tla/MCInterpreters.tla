---------------------------- MODULE MCInterpreters ----------------------------
(* Values of the constants of Interpreters for TLC. *)
EXTENDS Interpreters, TLC

CONSTANTS t1, t2, i1, i2, n1, c1, h1, h2

\* Two threads, an interpreter each, with an import of one name, which the first may
\* replace with another block.
MCThread == {t1, t2}
MCInterp == {i1, i2}
MCUsers == i1 :> {t1} @@ i2 :> {t2}
MCName == {n1}
MCContextOf == n1 :> c1
MCImports == i1 :> {<<n1, h1>>, <<n1, h2>>} @@ i2 :> {<<n1, h1>>}

\* One thread, one interpreter.
OneThread == {t1}
OneInterp == {i1}
OneUsers == i1 :> {t1}
RelockImports == i1 :> {<<n1, h1>>}
=============================================================================
