----------------------------- MODULE Execution -----------------------------
(***************************************************************************)
(* One runtime with one module: loading it, linking its imports, finding   *)
(* and calling functions, and the code of the functions calling each       *)
(* other.                                                                  *)
(*                                                                         *)
(* A function is compiled when it is first needed: by m3_FindFunction, by  *)
(* the start function, by call_indirect, or by the op_Compile that stands  *)
(* at a call site whose callee had no code when the caller was compiled.   *)
(* op_Compile turns itself into op_Call.  The C stack is the variable      *)
(* stack: "call" and "find" are m3_Call and m3_FindFunction, "guest" a     *)
(* function that runs, "host" an imported function, which may use the      *)
(* interface again and for which op_CallRawFunction moves runtime->stack.  *)
(***************************************************************************)
EXTENDS Integers, Sequences, FiniteSets

CONSTANTS
  Func,          \* the functions of the module
  Import,        \* those that are imported
  Body,          \* what the code of the others calls, a site for each
  Malformed,     \* those whose code does not compile
  Elements,      \* the functions that InitElements puts in table0
  Start,         \* the start function
  First,         \* the function with index 0; imports have the first indices
  NoFunc,
  AllocFails,    \* allocations may fail
  MaxDepth       \* bound: frames on the stack

ASSUME ExecutionAssumption ==
  /\ NoFunc \notin Func /\ Import \subseteq Func
  /\ Body \in [Func \ Import -> SUBSET Func]
  /\ Malformed \subseteq Func /\ Elements \subseteq Func
  /\ Start \in Func \cup {NoFunc} /\ First \in Func
  /\ Import # {} => First \in Import
  /\ AllocFails \in BOOLEAN
  /\ MaxDepth \in Nat

VARIABLES
  loaded,     \* module->runtime is set
  table,      \* functions in table0
  linked,     \* imports with function->module
  compiled,   \* functions with function->compiled
  constants,  \* functions whose constants are copied
  site,       \* caller -> callee -> the operation at the call site
  pending,    \* startFunction >= 0
  found,      \* functions that m3_FindFunction has returned
  stack,
  base,       \* runtime->stack: 0, or the depth of the frame that moved it
  wild,       \* op_Call has jumped to an M3Function
  lazyFailed, \* history: a compilation by op_Compile has failed
  completed,  \* history: how often the start function has returned, up to 2
  reentered   \* history: it was due again when an imported function that it called used
              \* m3_FindFunction

code == <<compiled, constants, site>>
module == <<loaded, table, linked>>
history == <<lazyFailed, completed, reentered>>
vars == <<module, code, pending, found, stack, base, wild, history>>

------------------------------------------------------------------------------
(* The stack *)

Frame == [kind : {"call", "find", "guest", "host"}, fn : Func, saved : 0..MaxDepth]
Api(kind, f) == [kind |-> kind, fn |-> f, saved |-> 0]

Depth == Len(stack)
Top == stack[Depth]
Runs(kinds) == stack # <<>> /\ Top.kind \in kinds
Keep(n) == SubSeq(stack, 1, n)

InStart == \E k \in 1..Depth : stack[k].kind = "find"

\* The interface is used by the program, or by an imported function.
MayUse ==
  /\ loaded /\ Depth + 1 < MaxDepth
  /\ \/ stack = <<>>
     \/ Runs({"host"})

\* Call (function->compiled, ...), op_CallRawFunction of an import included.
Enter(f, below) ==
  /\ stack' = Append(below,
       [kind |-> IF f \in Import THEN "host" ELSE "guest", fn |-> f, saved |-> base])
  /\ base' = IF f \in Import THEN Len(below) + 1 ELSE base

\* The innermost frame is left, and runtime->stack put back if it had moved it.
LeaveTo(n) ==
  /\ stack' = Keep(n)
  /\ base' = IF Runs({"host"}) THEN Top.saved ELSE base

\* The innermost m3_Call or m3_FindFunction.
Innermost(k) ==
  /\ stack[k].kind \in {"call", "find"}
  /\ \A j \in k + 1..Depth : stack[j].kind \notin {"call", "find"}

\* Mutant of Unwind: op_CallRawFunction forwards a trap before it puts the stack back.
UnwindMoved ==
  \E k \in 1..Depth : Innermost(k) /\ stack' = Keep(k - 1) /\ UNCHANGED base

\* A trap returns from it.
Unwind == \E k \in 1..Depth : Innermost(k) /\ LeaveTo(k - 1)

------------------------------------------------------------------------------
(* m3_LoadModule and m3_LinkRawFunction *)

\* InitMemory, InitGlobals, InitDataSegments, InitElements
Load ==
  /\ ~loaded
  /\ loaded' = TRUE /\ table' = Elements
  /\ UNCHANGED <<linked, code, pending, found, stack, base, wild, history>>

\* One of them throws, InitElements perhaps after some of the elements.
LoadFails ==
  /\ ~loaded
  /\ \E some \in SUBSET Elements : table' = table \cup some
  /\ UNCHANGED <<loaded, linked, code, pending, found, stack, base, wild, history>>

\* Mutant of Link: FindAndLinkFunction does not ask whether the function is imported.
LinkAny(f) ==
  /\ MayUse
  /\ linked' = linked \cup {f} /\ compiled' = compiled \cup {f}
  /\ UNCHANGED <<loaded, table, constants, site, pending, found, stack, base, wild, history>>

\* Also a second time, with other code.
Link(f) ==
  /\ MayUse /\ f \in Import
  /\ linked' = linked \cup {f} /\ compiled' = compiled \cup {f}
  /\ UNCHANGED <<loaded, table, constants, site, pending, found, stack, base, wild, history>>

------------------------------------------------------------------------------
(* CompileFunction *)

\* An import has no body, and a call of an import that is not linked does not compile.
Compilable(f) ==
  /\ f \notin Import /\ f \notin Malformed
  /\ \A g \in Body[f] : g \in Import => g \in linked

Outcome(f) ==
  IF ~Compilable(f) THEN {"error"}
  ELSE IF AllocFails THEN {"done", "error", "no constants"} ELSE {"done"}

\* The code of f has op_Call where the callee has code, op_Compile elsewhere.
Sites(f) ==
  [g \in Func |-> IF g \notin Body[f] THEN "none"
                  ELSE IF g \in compiled THEN "op_Call" ELSE "op_Compile"]

\* compiled is set before the constants are copied, and stays set when that fails.
CompileFunction(f, outcome) ==
  /\ compiled' = IF outcome = "error" THEN compiled ELSE compiled \cup {f}
  /\ constants' = IF outcome = "done" THEN constants \cup {f} ELSE constants

\* Mutant of Compiles: the code is made whatever CompileFunction returns.
CompilesAnyway(f, ok) ==
  \/ f \in compiled /\ ok /\ UNCHANGED <<compiled, constants>>
  \/ /\ f \notin compiled /\ ok
     /\ \E outcome \in Outcome(f) : CompileFunction(f, outcome)

\* if (not function->compiled) CompileFunction (function);
Compiles(f, ok) ==
  \/ f \in compiled /\ ok /\ UNCHANGED <<compiled, constants>>
  \/ /\ f \notin compiled
     /\ \E outcome \in Outcome(f) : CompileFunction(f, outcome) /\ ok = (outcome = "done")

\* What the sites are after that.
SitesAfter(f) ==
  IF f \in compiled' \ compiled THEN [site EXCEPT ![f] = Sites(f)] ELSE site

------------------------------------------------------------------------------
(* m3_FindFunction and m3_Call *)

\* m3_FindFunction calls m3_RunStart only if the index of the start function is not 0.
StartDue == pending /\ Start # First

\* Mutant of FindFunction: the start function is forgotten if the function has code.
FindSkipsStart(f) ==
  /\ MayUse /\ f \notin Import
  /\ \E ok \in BOOLEAN :
       /\ Compiles(f, ok)
       /\ stack' = IF ok /\ StartDue /\ f \notin compiled
                   THEN Append(stack, Api("find", f)) ELSE stack
       /\ found' = IF ok /\ (f \in compiled \/ ~StartDue) THEN found \cup {f} ELSE found
       /\ reentered' = IF ok /\ StartDue /\ InStart THEN TRUE ELSE reentered
  /\ site' = SitesAfter(f)
  /\ UNCHANGED <<module, pending, base, wild, lazyFailed, completed>>

FindFunction(f) ==
  /\ MayUse /\ f \notin Import
  /\ \E ok \in BOOLEAN :
       /\ Compiles(f, ok)
       /\ stack' = IF ok /\ StartDue THEN Append(stack, Api("find", f)) ELSE stack
       /\ found' = IF ok /\ ~StartDue THEN found \cup {f} ELSE found
       /\ reentered' = IF ok /\ StartDue /\ InStart THEN TRUE ELSE reentered
  /\ site' = SitesAfter(f)
  /\ UNCHANGED <<module, pending, base, wild, lazyFailed, completed>>

\* m3_RunStart, up to the call.
RunStart ==
  /\ Runs({"find"})
  /\ \E ok \in BOOLEAN :
       /\ Compiles(Start, ok)
       /\ IF ok THEN Enter(Start, stack) ELSE LeaveTo(Depth - 1)
  /\ site' = SitesAfter(Start)
  /\ UNCHANGED <<module, pending, found, wild, history>>

\* m3_CallV, m3_Call, m3_CallArgv, which refuse a function that is not compiled.
CallFound(f) ==
  /\ MayUse /\ f \in found /\ f \in compiled
  /\ Enter(f, Append(stack, Api("call", f)))
  /\ UNCHANGED <<module, code, pending, found, wild, history>>

------------------------------------------------------------------------------
(* The code of a function *)

MayCall == Runs({"guest"}) /\ Depth < MaxDepth

\* op_Call
OpCall(g) ==
  /\ MayCall /\ site[Top.fn][g] = "op_Call"
  /\ Enter(g, stack)
  /\ UNCHANGED <<module, code, pending, found, wild, history>>

\* Mutant of OpCompile: the operand is patched only if the callee was compiled just now.
OpCompileUnpatched(g) ==
  /\ MayCall /\ site[Top.fn][g] = "op_Compile"
  /\ \E ok \in BOOLEAN :
       /\ Compiles(g, ok)
       /\ site' = [SitesAfter(g) EXCEPT ![Top.fn][g] =
                     IF ok /\ g \notin compiled THEN "op_Call" ELSE "op_Call of M3Function"]
       /\ lazyFailed' = (lazyFailed \/ ~ok)
       /\ IF ok THEN Enter(g, stack) ELSE Unwind
  /\ UNCHANGED <<module, pending, found, wild, completed, reentered>>

\* op_Compile is rewritten first; the operand stays an M3Function if the callee does
\* not compile.
OpCompile(g) ==
  /\ MayCall /\ site[Top.fn][g] = "op_Compile"
  /\ \E ok \in BOOLEAN :
       /\ Compiles(g, ok)
       /\ site' = [SitesAfter(g) EXCEPT ![Top.fn][g] =
                     IF ok THEN "op_Call" ELSE "op_Call of M3Function"]
       /\ lazyFailed' = (lazyFailed \/ ~ok)
       /\ IF ok THEN Enter(g, stack) ELSE Unwind
  /\ UNCHANGED <<module, pending, found, wild, completed, reentered>>

\* The next op_Call there takes the M3Function for code.
OpCallOfFunction(g) ==
  /\ MayCall /\ site[Top.fn][g] = "op_Call of M3Function"
  /\ wild' = TRUE
  /\ UNCHANGED <<module, code, pending, found, stack, base, history>>

\* op_CallIndirect
OpCallIndirect(g) ==
  /\ MayCall /\ g \in table
  /\ \E ok \in BOOLEAN : Compiles(g, ok) /\ IF ok THEN Enter(g, stack) ELSE Unwind
  /\ site' = SitesAfter(g)
  /\ UNCHANGED <<module, pending, found, wild, history>>

\* Mutant of Return: m3_RunStart keeps startFunction.
ReturnKeepsStart ==
  LET below == stack[Depth - 1]
  IN /\ Runs({"guest", "host"})
     /\ LeaveTo(IF below.kind \in {"call", "find"} THEN Depth - 2 ELSE Depth - 1)
     /\ IF below.kind = "find"
        THEN /\ found' = found \cup {below.fn}
             /\ completed' = IF completed < 2 THEN completed + 1 ELSE completed
        ELSE UNCHANGED <<found, completed>>
     /\ UNCHANGED <<module, code, pending, wild, lazyFailed, reentered>>

\* To the caller, or from m3_Call, or from m3_RunStart and m3_FindFunction.
Return ==
  LET below == stack[Depth - 1]
  IN /\ Runs({"guest", "host"})
     /\ LeaveTo(IF below.kind \in {"call", "find"} THEN Depth - 2 ELSE Depth - 1)
     /\ IF below.kind = "find"
        THEN /\ found' = found \cup {below.fn} /\ pending' = FALSE
             /\ completed' = IF completed < 2 THEN completed + 1 ELSE completed
        ELSE UNCHANGED <<found, pending, completed>>
     /\ UNCHANGED <<module, code, wild, lazyFailed, reentered>>

\* A trap of the code, stack overflow included, or of an imported function.
Trap ==
  /\ Runs({"guest", "host"})
  /\ Unwind
  /\ UNCHANGED <<module, code, pending, found, wild, history>>

------------------------------------------------------------------------------
Init ==
  /\ loaded = FALSE /\ table = {} /\ linked = {}
  /\ compiled = {} /\ constants = {}
  /\ site = [f \in Func |-> [g \in Func |-> "none"]]
  /\ pending = (Start # NoFunc)
  /\ found = {} /\ stack = <<>> /\ base = 0
  /\ wild = FALSE /\ lazyFailed = FALSE /\ completed = 0 /\ reentered = FALSE

Execute ==
  \/ Load \/ LoadFails \/ RunStart \/ Return \/ Trap
  \/ \E f \in Func :
       \/ Link(f) \/ FindFunction(f) \/ CallFound(f)
       \/ OpCall(f) \/ OpCompile(f) \/ OpCallOfFunction(f) \/ OpCallIndirect(f)

\* What happens after the jump into an M3Function is not modelled.
Next == (~wild /\ Execute) \/ (wild /\ UNCHANGED vars)

Spec == Init /\ [][Next]_vars

------------------------------------------------------------------------------
(* Properties *)

TypeOK ==
  /\ loaded \in BOOLEAN
  /\ table \subseteq Elements /\ linked \subseteq Import
  /\ compiled \subseteq Func /\ constants \subseteq compiled \ Import
  /\ site \in [Func -> [Func -> {"none", "op_Compile", "op_Call", "op_Call of M3Function"}]]
  /\ pending \in BOOLEAN
  /\ found \subseteq Func
  /\ stack \in Seq(Frame) /\ Depth <= MaxDepth
  /\ base \in 0..MaxDepth
  /\ wild \in BOOLEAN /\ lazyFailed \in BOOLEAN /\ completed \in 0..2
  /\ reentered \in BOOLEAN

\* Whatever runs, and whatever m3_Call may be given, has code: a function that does not
\* compile, or an import that is not linked, is never entered, on whichever of the five
\* ways to it (m3_env.c, m3_exec.h).
EntriesHaveCode ==
  /\ found \subseteq compiled
  /\ \A k \in 1..Depth : stack[k].kind \in {"guest", "host"} => stack[k].fn \in compiled

\* No function is returned by m3_FindFunction before the start function has run to its
\* end, however often it trapped before (m3_env.c:588).
StartFirst == found # {} /\ Start # NoFunc => completed > 0

\* The start function runs to its end once, unless an imported function that it calls
\* looks a function up, which starts it again (m3_env.c:565).
StartOnce == completed <= 1 \/ reentered

\* runtime->stack is where the innermost imported function that runs has put it, and
\* at the start of the stack when none does, however calls ended (m3_exec.h:645).
BaseRestored ==
  LET hosts == {k \in 1..Depth : stack[k].kind = "host"}
  IN base = IF hosts = {} THEN 0 ELSE CHOOSE k \in hosts : \A j \in hosts : j <= k

\* A call site jumps to something else than code only after its callee did not compile.
WildOnlyAfterFailure == wild => lazyFailed

\* Call sites jump to code: op_Compile leaves "patch up compiled pc and call rewritten
\* op_Call" (m3_exec.h:761).
NoWildCall == ~wild
=============================================================================
