------------------------------ MODULE TypeTable ------------------------------
(***************************************************************************)
(* What the function types of an environment are to its modules: each has  *)
(* the types of its type section, in their order, for as long as it lives, *)
(* and call_indirect takes two of them for the same exactly when they are  *)
(* equal.  There are no pointers and no list of types: FuncTypes has       *)
(* those, and implements this.                                             *)
(***************************************************************************)
EXTENDS Naturals, Sequences

CONSTANTS
  Structure,
  Module

VARIABLES
  types,    \* of every module
  open,     \* the modules whose type section is parsed
  matches   \* pairs of uses of types that call_indirect takes for the same

vars == <<types, open, matches>>

\* A use of a type is a module and the index of the type in it.
Uses(ts) == UNION {{m} \X (1..Len(ts[m])) : m \in Module}
Same(ts) == {p \in Uses(ts) \X Uses(ts) : ts[p[1][1]][p[1][2]] = ts[p[2][1]][p[2][2]]}

Become(ts) == types' = ts /\ matches' = Same(ts)

Init ==
  /\ types = [m \in Module |-> <<>>]
  /\ open = {}
  /\ matches = {}

Begin(m) ==
  /\ open = {} /\ types[m] = <<>>
  /\ open' = {m}
  /\ UNCHANGED <<types, matches>>

Add(m, s) ==
  /\ m \in open
  /\ Become([types EXCEPT ![m] = Append(@, s)])
  /\ UNCHANGED open

End(m) ==
  /\ m \in open
  /\ open' = {}
  /\ UNCHANGED <<types, matches>>

\* The section is refused, or the module is freed.
Drop(m) ==
  /\ Become([types EXCEPT ![m] = <<>>])
  /\ open' = open \ {m}

Next ==
  \E m \in Module :
    Begin(m) \/ End(m) \/ Drop(m) \/ \E s \in Structure : Add(m, s)

Spec == Init /\ [][Next]_vars
=============================================================================
