---------------------------- MODULE BlockRegistry ----------------------------
(***************************************************************************)
(* What ImportFunctionCache promises to the interpreters of a process: each *)
(* of them has a table of blocks of its own, found by context, that only    *)
(* its own imports, failed imports and deinit change, at one point in time; *)
(* a call of an import runs the block that is in the table at that point.   *)
(*                                                                         *)
(* There are no identifiers here, no lock and no row that is read, changed  *)
(* and written back: Interpreters has those, and implements this.           *)
(***************************************************************************)
EXTENDS Naturals

CONSTANTS
  Thread,
  Interp,
  Context,
  Handler,
  NoHandler,
  Depth     \* how deep a call of a block can be nested

VARIABLES
  blocks,   \* the table of every interpreter
  gone,     \* the interpreters after deinit
  running   \* per thread: the blocks it is in, the innermost is the deepest

vars == <<blocks, gone, running>>

Init ==
  /\ blocks = [i \in Interp |-> [c \in Context |-> NoHandler]]
  /\ gone = {}
  /\ running = [t \in Thread |-> {}]

Add(i, c, h) ==
  /\ i \notin gone
  /\ blocks' = [blocks EXCEPT ![i][c] = h]
  /\ UNCHANGED <<gone, running>>

Remove(i, c) ==
  /\ i \notin gone
  /\ blocks' = [blocks EXCEPT ![i][c] = NoHandler]
  /\ UNCHANGED <<gone, running>>

Clear(i) ==
  /\ i \notin gone
  /\ blocks' = [blocks EXCEPT ![i] = [c \in Context |-> NoHandler]]
  /\ gone' = gone \cup {i}
  /\ UNCHANGED running

Call(t, i, c) ==
  /\ i \notin gone /\ blocks[i][c] # NoHandler
  /\ \E d \in Depth :
       /\ \A r \in running[t] : r.depth < d
       /\ running' = [running EXCEPT ![t] = @ \cup
            {[depth |-> d, on |-> i, context |-> c, handler |-> blocks[i][c]]}]
  /\ UNCHANGED <<blocks, gone>>

Return(t) ==
  /\ \E r \in running[t] :
       /\ \A q \in running[t] : q.depth <= r.depth
       /\ running' = [running EXCEPT ![t] = @ \ {r}]
  /\ UNCHANGED <<blocks, gone>>

Next ==
  \/ \E i \in Interp : Clear(i)
  \/ \E i \in Interp, c \in Context :
       \/ Remove(i, c) \/ \E h \in Handler : Add(i, c, h)
       \/ \E t \in Thread : Call(t, i, c)
  \/ \E t \in Thread : Return(t)

Spec == Init /\ [][Next]_vars
=============================================================================
