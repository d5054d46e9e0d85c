------------------------------ MODULE CodePages ------------------------------
(***************************************************************************)
(* The code pages of a wasm3 runtime and the compiler that fills them.     *)
(*                                                                         *)
(* A compiled function is a run of words on one or more code pages.  A     *)
(* page is on the runtime's list of open pages, on its list of full pages, *)
(* on the environment's list of released pages, or it is held by the       *)
(* compilation in progress: as the page written to (o->page), or as a      *)
(* savedPage of CompileElseBlock and Compile_BranchTable, which write to a *)
(* second page for a while.                                                *)
(*                                                                         *)
(* The lists are sets here: which of the pages that fit is taken makes no  *)
(* difference to what is stated.  The words are counted, not represented.  *)
(*                                                                         *)
(* EvaluateExpression compiles with a runtime of its own that lives on the *)
(* C stack, so there are two runtimes here, "main" and "temp".             *)
(***************************************************************************)
EXTENDS Integers, Sequences, FiniteSets

CONSTANTS
  Page,         \* the code pages the process can get from m3_Malloc
  Func,         \* functions with a body, compiled by CompileFunction
  Import,       \* imported functions, linked by LinkRawFunction
  NoPage,       \* the NULL page
  NoPc,         \* the NULL pc of a function that is not compiled
  NoFunc,       \* no function is being compiled
  AlignLines,   \* d_m3CodePageAlignSize, in words
  HeaderLines,  \* sizeof (M3CodePageHeader), in words
  Threshold,    \* d_m3CodePageFreeLinesThreshold
  Operands,     \* how many words the operations take after the opcode
  Targets,      \* how many targets a br_table has besides the default
  MaxNesting    \* bound: pages saved at once by nested else blocks

RawWords == 4
BridgeWords == 2
Runtime == {"main", "temp"}

ASSUME PageAssumption ==
  /\ IsFiniteSet(Page)
  /\ NoPage \notin Page
  /\ NoPc \notin Page \X Nat
  /\ NoFunc \notin Func
  /\ Func \cap Import = {}

ASSUME LinesAssumption ==
  /\ AlignLines \in Nat \ {0}
  /\ HeaderLines \in Nat
  /\ Threshold \in Nat
  /\ MaxNesting \in Nat

\* Every operation and its operands fit what EmitOp asks for before it writes
\* the opcode: at most four operands (call_indirect) against a threshold of six.
ASSUME OperandsAssumption ==
  /\ Operands \subseteq Nat
  /\ \A n \in Operands : n + 1 <= Threshold
  /\ Targets \subseteq Nat
  /\ 3 <= Threshold

VARIABLES
  numLines,           \* size of each page in words, 0 when it is not allocated
  lineIndex,          \* words written to each page
  pagesOpen,          \* per runtime: pages that may be written to again
  pagesFull,          \* per runtime: pages with too little room left
  pagesReleased,      \* the environment's pages, of runtimes that are gone
  numCodePages,       \* per runtime, the counter of that name
  numActiveCodePages, \* per runtime, the counter of that name
  alive,              \* the main runtime exists
  pc,                 \* where the compilation stands
  page,               \* o->page
  saved,              \* the savedPage locals of the C frames, outermost first
  targets,            \* br_table pointers that are still to be written
  function,           \* the function in compilation
  entry,              \* its first pc
  compiled,           \* function->compiled
  ignored             \* history: a failed EmitOp was ignored by its caller

lists == <<pagesOpen, pagesFull, pagesReleased, numCodePages>>
pool  == <<numLines, lineIndex, lists, numActiveCodePages>>
frame == <<saved, targets, function, entry>>
vars  == <<pool, alive, pc, page, frame, compiled, ignored>>

------------------------------------------------------------------------------
(* Pages *)

Pc == Page \X Nat

\* NumFreeLines
Free(p) == numLines[p] - lineIndex[p]

Unallocated == {p \in Page : numLines[p] = 0}

\* Mutant of NewPageLines: rounded down.
NewPageLinesDown(n) == ((HeaderLines + n) \div AlignLines) * AlignLines - HeaderLines

\* NewCodePage rounds the bytes of header and words up to d_m3CodePageAlignSize.
NewPageLines(n) ==
  ((HeaderLines + n + (AlignLines - 1)) \div AlignLines) * AlignLines - HeaderLines

Fitting(S, n) == {p \in S : Free(p) >= n}

\* The pages that AcquireCodePageWithCapacity may return: the runtime's open
\* pages first, then the environment's, then a new one.  m3_Malloc may fail at
\* any time, which leaves nothing to choose from.
Acquirable(r, n) ==
  IF Fitting(pagesOpen[r], n) # {} THEN Fitting(pagesOpen[r], n)
  ELSE IF Fitting(pagesReleased, n) # {} THEN Fitting(pagesReleased, n)
  ELSE Unallocated

NeedsMalloc(r, n) ==
  Fitting(pagesOpen[r], n) = {} /\ Fitting(pagesReleased, n) = {}

\* What taking p does to everything but the lists of the runtime itself.
Take(r, p, n) ==
  /\ pagesReleased' = pagesReleased \ {p}
  /\ numLines' = IF p \in Unallocated
                 THEN [numLines EXCEPT ![p] = NewPageLines(n)] ELSE numLines
  /\ numCodePages' = IF p \in pagesOpen[r] THEN numCodePages
                     ELSE [numCodePages EXCEPT ![r] = @ + 1]

\* ReleaseCodePageNoTrack: p, as it is after this step, joins the open or the
\* full pages; taken holds the page that leaves the open ones in the same step.
PutBack(r, p, taken) ==
  LET isFull == numLines'[p] - lineIndex'[p] < Threshold
      rest   == pagesOpen[r] \ taken
  IN /\ pagesOpen' = [pagesOpen EXCEPT ![r] = IF isFull THEN rest ELSE rest \cup {p}]
     /\ pagesFull' = [pagesFull EXCEPT ![r] = IF isFull THEN @ \cup {p} ELSE @]

\* Mutant of Acquire: the page is not taken off the open list.
AcquireLeavesListed(r, p, n) ==
  /\ p \in Acquirable(r, n)
  /\ Take(r, p, n)
  /\ numActiveCodePages' = [numActiveCodePages EXCEPT ![r] = @ + 1]
  /\ UNCHANGED <<pagesOpen, pagesFull>>

\* AcquireCodePageWithCapacity that returns p.
Acquire(r, p, n) ==
  /\ p \in Acquirable(r, n)
  /\ Take(r, p, n)
  /\ pagesOpen' = [pagesOpen EXCEPT ![r] = @ \ {p}]
  /\ numActiveCodePages' = [numActiveCodePages EXCEPT ![r] = @ + 1]
  /\ UNCHANGED pagesFull

\* Mutant of Release: ReleaseCodePageNoTrack in its place.
ReleaseNoTrack(r, p) ==
  /\ UNCHANGED <<numLines, pagesReleased, numCodePages, numActiveCodePages>>
  /\ PutBack(r, p, {})

\* ReleaseCodePage
Release(r, p) ==
  /\ UNCHANGED <<numLines, pagesReleased, numCodePages>>
  /\ PutBack(r, p, {})
  /\ numActiveCodePages' = [numActiveCodePages EXCEPT ![r] = @ - 1]

------------------------------------------------------------------------------
(* The compiler's writes *)

rt == IF pc = "expression" THEN "temp" ELSE "main"

\* EnsureCodePageNumLines (need) and then the given number of words.  When the
\* page has no room for them and a bridge, a branch to a new page takes the last
\* two words and the old page is released.
Emit(need, words) ==
  \/ /\ Free(page) >= need + BridgeWords
     /\ lineIndex' = [lineIndex EXCEPT ![page] = @ + words]
     /\ UNCHANGED <<numLines, lists, numActiveCodePages, page>>
  \/ /\ Free(page) < need + BridgeWords
     /\ \E q \in Acquirable(rt, need + BridgeWords) :
          /\ Take(rt, q, need + BridgeWords)
          /\ lineIndex' = [lineIndex EXCEPT ![page] = @ + BridgeWords,
                                            ![q] = @ + words]
          /\ PutBack(rt, page, {q})
          /\ page' = q
     /\ UNCHANGED numActiveCodePages

EmitOp(operands) == Emit(Threshold, 1 + operands)

\* CompileFunction up to its first EmitOp.  When no page is to be had it returns
\* without a trace.
BeginFunction(f) ==
  /\ alive /\ pc = "idle" /\ compiled[f] = NoPc
  /\ \E p \in Acquirable("main", Threshold) :
       /\ Acquire("main", p, Threshold)
       /\ page' = p
       /\ entry' = <<p, lineIndex[p]>>
  /\ pc' = "entry" /\ function' = f
  /\ UNCHANGED <<lineIndex, alive, saved, targets, compiled, ignored>>

EmitEntry ==
  /\ pc = "entry"
  /\ EmitOp(1)
  /\ pc' = "body"
  /\ UNCHANGED <<alive, frame, compiled, ignored>>

\* Any operation of a function body, of a br_table target or of an expression.
EmitOperation ==
  /\ pc \in {"body", "target", "expression"}
  /\ \E n \in Operands : EmitOp(n)
  /\ UNCHANGED <<alive, pc, frame, compiled, ignored>>

\* PreserveArgsAndLocals and Compile_Select do not look at the result of EmitOp:
\* when it got no page their operands are written without the opcode.
EmitWithoutOp ==
  /\ pc = "body"
  /\ Free(page) < Threshold + BridgeWords
  /\ NeedsMalloc("main", Threshold + BridgeWords)
  /\ \E n \in Operands \ {0} : lineIndex' = [lineIndex EXCEPT ![page] = @ + n]
  /\ ignored' = TRUE
  /\ UNCHANGED <<numLines, lists, numActiveCodePages, alive, pc, page, frame, compiled>>

\* CompileElseBlock as far as its CompileBlock: write to a page of its own.
BeginElse ==
  /\ pc = "body" /\ Len(saved) < MaxNesting
  /\ \E p \in Acquirable("main", Threshold) :
       Acquire("main", p, Threshold) /\ page' = p
  /\ saved' = Append(saved, page)
  /\ UNCHANGED <<lineIndex, alive, pc, targets, function, entry, compiled, ignored>>

\* ... its op_Branch back to the saved page ...
EmitElseBranch ==
  /\ pc = "body" /\ saved # <<>>
  /\ EmitOp(1)
  /\ pc' = "elseEnd"
  /\ UNCHANGED <<alive, frame, compiled, ignored>>

\* Mutant of EndElse: the page of the else block is not released.
EndElseKeepsPage ==
  /\ pc = "elseEnd"
  /\ UNCHANGED pool
  /\ page' = saved[Len(saved)]
  /\ saved' = SubSeq(saved, 1, Len(saved) - 1)
  /\ pc' = "body"
  /\ UNCHANGED <<alive, targets, function, entry, compiled, ignored>>

\* ... and its end.
EndElse ==
  /\ pc = "elseEnd"
  /\ UNCHANGED lineIndex
  /\ Release("main", page)
  /\ page' = saved[Len(saved)]
  /\ saved' = SubSeq(saved, 1, Len(saved) - 1)
  /\ pc' = "body"
  /\ UNCHANGED <<alive, targets, function, entry, compiled, ignored>>

\* Mutant of BeginTable: the default target is forgotten.
BeginTableShort ==
  /\ pc = "body"
  /\ \E n \in Targets : Emit(n + 3, 0) /\ targets' = n + 1
  /\ pc' = "table"
  /\ UNCHANGED <<alive, saved, function, entry, compiled, ignored>>

\* Compile_BranchTable: EnsureCodePageNumLines for the whole table ...
BeginTable ==
  /\ pc = "body"
  /\ \E n \in Targets : Emit(n + 4, 0) /\ targets' = n + 1
  /\ pc' = "table"
  /\ UNCHANGED <<alive, saved, function, entry, compiled, ignored>>

\* ... op_BranchTable, the slot and the target count ...
EmitTable ==
  /\ pc = "table"
  /\ EmitOp(2)
  /\ pc' = "row"
  /\ UNCHANGED <<alive, frame, compiled, ignored>>

\* ... then for every target a page for the code that resolves its results ...
BeginTarget ==
  /\ pc = "row"
  /\ \E p \in Acquirable("main", Threshold) :
       Acquire("main", p, Threshold) /\ page' = p
  /\ saved' = Append(saved, page)
  /\ pc' = "target"
  /\ UNCHANGED <<lineIndex, alive, targets, function, entry, compiled, ignored>>

\* ... and a pointer to that code, in the table.
EndTarget ==
  LET table == saved[Len(saved)]
  IN /\ pc = "target"
     /\ lineIndex' = [lineIndex EXCEPT ![table] = @ + 1]
     /\ Release("main", page)
     /\ page' = table
     /\ saved' = SubSeq(saved, 1, Len(saved) - 1)
     /\ targets' = targets - 1
     /\ pc' = IF targets = 1 THEN "body" ELSE "row"
     /\ UNCHANGED <<alive, function, entry, compiled, ignored>>

------------------------------------------------------------------------------
(* The end of a compilation, and the operations around it *)

Stop ==
  /\ page' = NoPage /\ saved' = <<>> /\ targets' = 0
  /\ function' = NoFunc /\ entry' = NoPc /\ pc' = "idle"

\* CompileFunction succeeds, or has no memory for the copy of its constants, which it
\* makes after it has set compiled.
EndFunction ==
  /\ pc = "body" /\ saved = <<>>
  /\ compiled' = [compiled EXCEPT ![function] = entry]
  /\ UNCHANGED lineIndex
  /\ Release("main", page)
  /\ Stop
  /\ UNCHANGED <<alive, ignored>>

\* Anything on the way throws (malformed code, no page, no slot ...): the handler
\* of CompileFunction releases o->page, and no other page.
Throw ==
  /\ pc \in {"entry", "body", "table", "row", "target"}
  /\ UNCHANGED lineIndex
  /\ Release("main", page)
  /\ Stop
  /\ UNCHANGED <<alive, compiled, ignored>>

\* Mutant of LinkRawFunction: the function starts behind the words written for it.
LinkRawFunctionBehind(f) ==
  /\ alive /\ pc = "idle"
  /\ \E p \in Acquirable("main", RawWords) :
       /\ compiled' = [compiled EXCEPT ![f] = <<p, lineIndex[p] + RawWords>>]
       /\ Take("main", p, RawWords)
       /\ lineIndex' = [lineIndex EXCEPT ![p] = @ + RawWords]
       /\ PutBack("main", p, {p})
  /\ UNCHANGED <<numActiveCodePages, alive, pc, page, frame, ignored>>

\* LinkRawFunction
LinkRawFunction(f) ==
  /\ alive /\ pc = "idle"
  /\ \E p \in Acquirable("main", RawWords) :
       /\ compiled' = [compiled EXCEPT ![f] = <<p, lineIndex[p]>>]
       /\ Take("main", p, RawWords)
       /\ lineIndex' = [lineIndex EXCEPT ![p] = @ + RawWords]
       /\ PutBack("main", p, {p})
  /\ UNCHANGED <<numActiveCodePages, alive, pc, page, frame, ignored>>

\* EvaluateExpression: a runtime of its own, with nothing in it, and a page.
BeginExpression ==
  /\ alive /\ pc = "idle"
  /\ \E p \in Acquirable("temp", Threshold) :
       Acquire("temp", p, Threshold) /\ page' = p
  /\ pc' = "expression"
  /\ UNCHANGED <<lineIndex, alive, frame, compiled, ignored>>

\* ... compiled or not, the page is released and then the runtime
\* (Runtime_Release), whose pages go to the environment, empty.
EndExpression ==
  /\ pc = "expression"
  /\ LET own == pagesOpen["temp"] \cup pagesFull["temp"] \cup {page}
     IN /\ pagesReleased' = pagesReleased \cup own
        /\ lineIndex' = [p \in Page |-> IF p \in own THEN 0 ELSE lineIndex[p]]
  /\ pagesOpen' = [pagesOpen EXCEPT !["temp"] = {}]
  /\ pagesFull' = [pagesFull EXCEPT !["temp"] = {}]
  /\ numCodePages' = [numCodePages EXCEPT !["temp"] = 0]
  /\ numActiveCodePages' = [numActiveCodePages EXCEPT !["temp"] = 0]
  /\ pc' = "idle" /\ page' = NoPage
  /\ UNCHANGED <<numLines, alive, frame, compiled, ignored>>

\* m3_FreeRuntime: the modules go and with them every compiled pointer; the
\* pages of both lists go to the environment.
FreeRuntime ==
  /\ alive /\ pc = "idle"
  /\ alive' = FALSE
  /\ compiled' = [f \in Func \cup Import |-> NoPc]
  /\ LET own == pagesOpen["main"] \cup pagesFull["main"]
     IN /\ pagesReleased' = pagesReleased \cup own
        /\ lineIndex' = [p \in Page |-> IF p \in own THEN 0 ELSE lineIndex[p]]
  /\ pagesOpen' = [pagesOpen EXCEPT !["main"] = {}]
  /\ pagesFull' = [pagesFull EXCEPT !["main"] = {}]
  /\ numCodePages' = [numCodePages EXCEPT !["main"] = 0]
  /\ numActiveCodePages' = [numActiveCodePages EXCEPT !["main"] = 0]
  /\ UNCHANGED <<numLines, pc, page, frame, ignored>>

\* m3_NewRuntime, in the same environment.
NewRuntime ==
  /\ ~alive
  /\ alive' = TRUE
  /\ UNCHANGED <<pool, pc, page, frame, compiled, ignored>>

\* m3_FreeEnvironment frees the released pages; m3_NewEnvironment starts again.
FreeEnvironment ==
  /\ ~alive /\ pagesReleased # {}
  /\ numLines' = [p \in Page |-> IF p \in pagesReleased THEN 0 ELSE numLines[p]]
  /\ lineIndex' = [p \in Page |-> IF p \in pagesReleased THEN 0 ELSE lineIndex[p]]
  /\ pagesReleased' = {}
  /\ UNCHANGED <<pagesOpen, pagesFull, numCodePages, numActiveCodePages,
                 alive, pc, page, frame, compiled, ignored>>

Init ==
  /\ numLines = [p \in Page |-> 0]
  /\ lineIndex = [p \in Page |-> 0]
  /\ pagesOpen = [r \in Runtime |-> {}]
  /\ pagesFull = [r \in Runtime |-> {}]
  /\ pagesReleased = {}
  /\ numCodePages = [r \in Runtime |-> 0]
  /\ numActiveCodePages = [r \in Runtime |-> 0]
  /\ alive = TRUE
  /\ pc = "idle" /\ page = NoPage /\ saved = <<>> /\ targets = 0
  /\ function = NoFunc /\ entry = NoPc
  /\ compiled = [f \in Func \cup Import |-> NoPc]
  /\ ignored = FALSE

\* A write past the end of a page is undefined behaviour: nothing that follows it
\* is modelled.
Next ==
  /\ \A p \in Page : lineIndex[p] <= numLines[p]
  /\ \/ \E f \in Func : BeginFunction(f)
     \/ EmitEntry \/ EmitOperation \/ EmitWithoutOp
     \/ BeginElse \/ EmitElseBranch \/ EndElse
     \/ BeginTable \/ EmitTable \/ BeginTarget \/ EndTarget
     \/ EndFunction \/ Throw
     \/ \E f \in Import : LinkRawFunction(f)
     \/ BeginExpression \/ EndExpression
     \/ FreeRuntime \/ NewRuntime \/ FreeEnvironment

Spec == Init /\ [][Next]_vars

------------------------------------------------------------------------------
(* Properties *)

TypeOK ==
  /\ numLines \in [Page -> Nat]
  /\ lineIndex \in [Page -> Nat]
  /\ pagesOpen \in [Runtime -> SUBSET Page]
  /\ pagesFull \in [Runtime -> SUBSET Page]
  /\ pagesReleased \in SUBSET Page
  /\ numCodePages \in [Runtime -> Nat]
  /\ numActiveCodePages \in [Runtime -> Nat]
  /\ alive \in BOOLEAN
  /\ pc \in {"idle", "entry", "body", "elseEnd", "table", "row", "target", "expression"}
  /\ page \in Page \cup {NoPage}
  /\ saved \in Seq(Page)
  /\ targets \in Nat
  /\ function \in Func \cup {NoFunc}
  /\ entry \in Pc \cup {NoPc}
  /\ compiled \in [Func \cup Import -> Pc \cup {NoPc}]
  /\ ignored \in BOOLEAN

\* The pages the compilation in progress holds, and those on some list.
Held == {saved[i] : i \in 1..Len(saved)} \cup ({page} \ {NoPage})
Listed(r) == pagesOpen[r] \cup pagesFull[r]

\* Pages that nothing points to any more: they are never freed.
Lost == {p \in Page : numLines[p] > 0}
          \ (Held \cup Listed("main") \cup Listed("temp") \cup pagesReleased)

ListsDisjoint ==
  /\ \A r \in Runtime : pagesOpen[r] \cap pagesFull[r] = {}
  /\ Listed("main") \cap Listed("temp") = {}
  /\ (Listed("main") \cup Listed("temp")) \cap pagesReleased = {}
  /\ (Listed("main") \cup Listed("temp") \cup pagesReleased) \cap Held = {}

SavedDistinct ==
  /\ \A i \in 1..Len(saved) : saved[i] # page
  /\ \A i, j \in 1..Len(saved) : saved[i] = saved[j] => i = j

\* No page is in two places: not on two lists, not on a list while it is written
\* to, not written to by two blocks of the function at once (m3_env.c, m3_compile.c).
PagesUnshared == ListsDisjoint /\ SavedDistinct

\* The assertion of ReleaseCodePage: the pages on the runtime's two lists and the
\* active ones are all the pages the runtime has got (m3_env.c:1062).
PagesCounted ==
  \A r \in Runtime :
    Cardinality(pagesOpen[r]) + Cardinality(pagesFull[r]) + numActiveCodePages[r]
      = numCodePages[r]

\* As long as a function is compiled the page of its first word is neither freed
\* nor back with the environment nor used by an expression, the word has been
\* written, and no other function starts there.
CompiledCodeKept ==
  \A f \in Func \cup Import : compiled[f] # NoPc =>
    LET p == compiled[f][1]
    IN /\ numLines[p] > 0 /\ p \notin pagesReleased \cup Listed("temp")
       /\ pc = "expression" => page # p
       /\ compiled[f][2] < lineIndex[p]
       /\ \A g \in (Func \cup Import) \ {f} : compiled[g] # compiled[f]

\* The two assertions on the room in a page (m3_emit.c:26, m3_code.c:83): the words
\* stay within the pages, and the pages in use keep the two words of a bridge and
\* the table its missing pointers.  It holds until a failed EmitOp is ignored.
RoomForBridge ==
  ~ignored =>
    /\ \A p \in Page : lineIndex[p] <= numLines[p]
    /\ \A p \in Held :
         Free(p) >= BridgeWords + (IF /\ targets > 0 /\ pc # "table"
                                      /\ p = (IF pc = "row" THEN page ELSE saved[Len(saved)])
                                   THEN targets ELSE 0)

\* A page is lost only when a compilation fails while it writes to the page of an
\* else block or of a br_table target (m3_compile.c:1507).
LosesPages == Lost' \ Lost # {} => Throw /\ saved # <<>>
OnlyThrowLosesPages == [][LosesPages]_vars
=============================================================================
