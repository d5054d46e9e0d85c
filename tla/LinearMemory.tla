---------------------------- MODULE LinearMemory ----------------------------
(***************************************************************************)
(* The linear memory of a runtime: its size, the block that holds it, and  *)
(* the pointers to that block.                                             *)
(*                                                                         *)
(* realloc may move the memory whenever memory.grow changes its size.  The *)
(* operations get the block in an argument, _mem, which they hand on from  *)
(* one to the next; the C frames under them, of op_Loop, op_Call and       *)
(* op_CallRawFunction, have _mem's of their own, which the grow may leave  *)
(* behind.  Swift asks for the block and its length at every access.       *)
(*                                                                         *)
(* Numbers are scaled: a page has PageSize bytes, a u32 the values         *)
(* 0..Word-1.  The offsets that code computes are unsigned; those that     *)
(* Swift is given are Int, and may be negative.                            *)
(***************************************************************************)
EXTENDS Integers, Sequences, FiniteSets

CONSTANTS
  PageSize,    \* d_m3MemPageSize
  Word,        \* 2^32
  LimitPages,  \* d_m3MaxLinearMemoryPages
  DefaultMax,  \* the maximum of a memory without one, 65536
  Address,     \* where realloc may put the memory
  Null,
  ElementSize, \* sizes of the types that Swift reads arrays of
  Offset,      \* offsets that code accesses, and the counts of every access
  HeapOffset,  \* byteOffset of Swift's heap functions, an Int
  MaxDepth     \* bound: C frames

ASSUME LinearMemoryAssumption ==
  /\ PageSize \in Nat \ {0} /\ Word \in Nat /\ DefaultMax \in Nat
  /\ LimitPages \in 1..DefaultMax /\ DefaultMax < Word
  /\ Null \notin Address
  /\ ElementSize \subseteq Nat \ {0} /\ Offset \subseteq Nat /\ HeapOffset \subseteq Int
  /\ MaxDepth \in Nat

VARIABLES
  loaded,     \* a module is loaded
  mallocated, \* memory->mallocated
  pages,      \* memory->numPages
  maxPages,   \* memory->maxPages
  length,     \* memory->mallocated->length
  mem,        \* _mem of the operation or the imported function that runs
  frames,     \* the C frames below it, with the _mem's they go back to
  r0,         \* what memory.grow or memory.size has returned last
  accessor,   \* history: what has made the last access
  outside     \* history: the bytes it touched that were not the memory's

memory == <<mallocated, pages, length>>
access == <<accessor, outside>>
vars == <<loaded, memory, maxPages, mem, frames, r0, access>>

Failure == -1
Frame == [kind : {"call", "loop", "host", "entrance"}, mem : Address \cup {Null}]
Accessor == {"none", "code", "bytes", "values"}

Depth == Len(frames)
Below(n) == SubSeq(frames, 1, n)
Push(kind) ==
  /\ Depth < MaxDepth
  /\ frames' = Append(frames, [kind |-> kind, mem |-> mem])

\* An operation of a function runs ...
Executes == frames # <<>> /\ frames[Depth].kind # "host"
\* ... or Swift does, the program's code or an imported function.
InSwift == loaded /\ ~Executes

\* Frame k is the innermost of these kinds.
Innermost(k, kinds) ==
  frames[k].kind \in kinds /\ \A j \in k + 1..Depth : frames[j].kind \notin kinds

------------------------------------------------------------------------------
(* m3_LoadModule and ResizeMemory *)

\* m3_Realloc returns the same block if the size does not change.
Resized(n) ==
  /\ pages' = n /\ length' = n * PageSize
  /\ mallocated' \in IF n = pages /\ n > 0 THEN {mallocated} ELSE Address

\* Mutant of ResizeMemory: the limit on linear memory is not looked at.
ResizeUnlimited(n, max, ok) ==
  \/ ok /\ n <= max /\ Resized(n)
  \/ ~ok /\ UNCHANGED memory

\* It throws, or realloc fails: nothing has changed.
ResizeMemory(n, max, ok) ==
  \/ ok /\ n <= max /\ n <= LimitPages /\ Resized(n)
  \/ /\ ~ok
     /\ n > max \/ n > LimitPages \/ n # pages \/ n = 0
     /\ UNCHANGED memory

\* InitMemory of a module that has a memory; max is 0 if it states no maximum, or 0.
InitMemory(init, max, ok) ==
  /\ maxPages' = IF max = 0 THEN DefaultMax ELSE max
  /\ ResizeMemory(init, maxPages', ok)

\* Mutant of Loads: InitDataSegments looks at segments only.
LoadsAnyway(dataOk) == dataOk

\* InitDataSegments throws without memory, even if there are no segments.
Loads(dataOk) == dataOk /\ mallocated' # Null

Load(init, max) ==
  /\ ~loaded
  /\ \E initOk, dataOk \in BOOLEAN :
       InitMemory(init, max, initOk) /\ loaded' = (initOk /\ Loads(dataOk))
  /\ UNCHANGED <<mem, frames, r0, access>>

\* A module that imports its memory gets the one that is there.
LoadImported ==
  /\ ~loaded
  /\ UNCHANGED <<memory, maxPages, mem, frames, r0, access>>
  /\ \E dataOk \in BOOLEAN : loaded' = Loads(dataOk)

------------------------------------------------------------------------------
(* C frames *)

\* m3_Call and m3_RunStart
Enter ==
  /\ InSwift /\ Push("entrance")
  /\ mem' = mallocated
  /\ UNCHANGED <<loaded, memory, maxPages, r0, access>>

\* op_Call and op_CallIndirect, op_Loop, op_CallRawFunction under an op_Call
Calls(kind) ==
  /\ Executes /\ Push(kind)
  /\ kind = "host" => frames[Depth].kind \in {"call", "entrance"}
  /\ UNCHANGED <<loaded, memory, maxPages, mem, r0, access>>

\* To op_Call, which asks for the block again, or to the caller of m3_Call.
Return ==
  /\ \E k \in 1..Depth :
       /\ Innermost(k, {"call", "entrance"})
       /\ frames' = Below(k - 1)
       /\ mem' = IF frames[k].kind = "call" THEN mallocated ELSE frames[k].mem
  /\ UNCHANGED <<loaded, memory, maxPages, r0, access>>

\* Mutant of Continue: op_Loop goes on with its own _mem.
ContinueStale(k) ==
  /\ Executes /\ frames[k].kind = "loop"
  /\ \A j \in k..Depth : frames[j].kind \notin {"call", "entrance"}
  /\ frames' = Below(k) /\ mem' = frames[k].mem
  /\ UNCHANGED <<loaded, memory, maxPages, r0, access>>

\* op_ContinueLoop: the inner loops forward the loopId, op_Loop asks for the block again.
Continue(k) ==
  /\ Executes /\ frames[k].kind = "loop"
  /\ \A j \in k..Depth : frames[j].kind \notin {"call", "entrance"}
  /\ frames' = Below(k) /\ mem' = mallocated
  /\ UNCHANGED <<loaded, memory, maxPages, r0, access>>

\* A trap ends m3_Call.
Trap ==
  /\ \E k \in 1..Depth :
       /\ Innermost(k, {"entrance"})
       /\ frames' = Below(k - 1) /\ mem' = frames[k].mem
  /\ UNCHANGED <<loaded, memory, maxPages, r0, access>>

------------------------------------------------------------------------------
(* Operations on the memory *)

MemSize ==
  /\ Executes
  /\ r0' = pages
  /\ UNCHANGED <<loaded, memory, maxPages, mem, frames, access>>

\* Mutant of MemGrow: the number of pages is read after the memory was resized.
MemGrowLate(n) ==
  /\ Executes
  /\ \E ok \in BOOLEAN :
       /\ ResizeMemory((pages + n) % Word, maxPages, ok)
       /\ r0' = IF ok THEN pages' ELSE Failure
  /\ mem' = mallocated'
  /\ UNCHANGED <<loaded, maxPages, frames, access>>

\* The sum is a u32.
MemGrow(n) ==
  /\ Executes
  /\ \/ n = 0 /\ r0' = pages /\ UNCHANGED <<memory, mem>>
     \/ /\ n > 0
        /\ \E ok \in BOOLEAN :
             /\ ResizeMemory((pages + n) % Word, maxPages, ok)
             /\ r0' = IF ok THEN pages ELSE Failure
        /\ mem' = mallocated'
  /\ UNCHANGED <<loaded, maxPages, frames, access>>

\* The block is the memory, or one that memory.grow has left; n bytes of it from offset on
\* are read or written.
BytesOf(block) == IF block = mallocated THEN 0..length - 1 ELSE {}
Touches(by, block, offset, n) ==
  /\ accessor' = by
  /\ outside' = (offset..offset + n - 1) \ BytesOf(block)
  /\ UNCHANGED <<loaded, memory, maxPages, mem, frames, r0>>

\* Loads, stores, memory.copy, memory.fill; out of bounds they trap.  They look for the
\* length in their block: in one that memory.grow has left there may be any.
Access(offset, n) ==
  /\ Executes
  /\ mem = mallocated => offset + n <= length
  /\ Touches("code", mem, offset, n)

\* Mutant of IsValid: only the first byte is looked at.
IsValidFirst(offset, n) == length > 0 /\ offset <= length

\* m3_GetMemory and Heap.isValid, which looks at the end only: a negative offset passes.
\* Otherwise Swift throws invalidMemoryAccess.
IsValid(offset, n) == length > 0 /\ offset + n <= length

\* dataFromHeap, bytesFromHeap, stringFromHeap, writeToHeap.  Swift stops at a negative
\* count before it accesses anything.
HeapBytes(offset, n) ==
  /\ InSwift /\ IsValid(offset, n)
  /\ Touches("bytes", mallocated, offset, n)

\* valuesFromHeap and valueFromHeap of n values
HeapValues(offset, n, size) ==
  /\ InSwift /\ IsValid(offset, n)
  /\ Touches("values", mallocated, offset, n * size)

------------------------------------------------------------------------------
Init ==
  /\ loaded = FALSE /\ mallocated = Null /\ pages = 0 /\ maxPages = 0 /\ length = 0
  /\ mem = Null /\ frames = <<>> /\ r0 = 0
  /\ accessor = "none" /\ outside = {}

Next ==
  \/ LoadImported \/ Enter \/ Return \/ Trap \/ MemSize
  \/ \E init \in 0..Word - 1, max \in 0..Word - 1 : Load(init, max)
  \/ \E kind \in {"call", "loop", "host"} : Calls(kind)
  \/ \E k \in 1..Depth : Continue(k)
  \/ \E n \in 0..Word - 1 : MemGrow(n)
  \/ \E offset, n \in Offset : Access(offset, n)
  \/ \E offset \in HeapOffset, n \in Offset :
       \/ HeapBytes(offset, n)
       \/ \E size \in ElementSize : HeapValues(offset, n, size)

Spec == Init /\ [][Next]_vars

------------------------------------------------------------------------------
(* Properties *)

TypeOK ==
  /\ loaded \in BOOLEAN
  /\ mallocated \in Address \cup {Null} /\ mem \in Address \cup {Null}
  /\ pages \in 0..LimitPages /\ maxPages \in 0..Word - 1
  /\ length = pages * PageSize
  /\ frames \in Seq(Frame) /\ Depth <= MaxDepth
  /\ r0 \in 0..LimitPages \cup {Failure}
  /\ accessor \in Accessor /\ outside \subseteq Int

\* No operation gets a block that memory.grow has left: not after a loop, a call, or an
\* imported function that used the interface again (m3_exec.h:858).
FreshPointer == Executes => mem = mallocated

\* Code runs only when there is a memory: operations read maxStack and length from it
\* without asking (m3_env.c:449).
CodeHasMemory == frames # <<>> => mallocated # Null

\* Whatever runs, there is a memory, and the block it works with is that memory.
MemoryAtHand == FreshPointer /\ CodeHasMemory

\* A function that reads -1 from memory.grow finds the memory as it was, otherwise it
\* reads the size from before (m3_exec.h:682).
GrowTold ==
  [][loaded /\ memory' # memory => r0' = pages]_vars

\* An access that is not refused touches no byte before the memory, behind it, or of a
\* block that memory.grow has left.
InBounds == outside = {}

\* The code's accesses are in bounds, also after loops, calls and imported functions that
\* grew the memory (m3_exec.h:858, :1291).  Only Swift's may not be: its functions for
\* bytes touch some before the memory, of a negative byteOffset (Heap.swift:17), but none
\* behind it; those for values do both (Interpreter.Heap.swift:30).
OutsideOnlyBySwift ==
  outside # {} =>
    /\ accessor \in {"bytes", "values"}
    /\ accessor = "bytes" => \A byte \in outside : byte < 0
=============================================================================
