-------------------------- MODULE LinearMemoryProofs ------------------------
(***************************************************************************)
(* Proofs about LinearMemory, for every page size, limit and depth: the    *)
(* operations always have the block that holds the memory, code only runs  *)
(* when there is one, and it touches no byte that is not the memory's.     *)
(* The argument is about the C frames: m3_Call only starts at the bottom   *)
(* or in an imported function, and never before a module was loaded, which *)
(* takes a memory.                                                         *)
(***************************************************************************)
EXTENDS LinearMemory, TLAPS

Kinds == {"call", "loop", "host", "entrance"}

\* Swift runs below every m3_Call.
Entered ==
  \A k \in 1..Depth : (k = 1 \/ frames[k - 1].kind = "host") <=> frames[k].kind = "entrance"

LoadedHasMemory == (frames # <<>> => loaded) /\ (loaded => mallocated # Null)

IInv == TypeOK /\ Entered /\ LoadedHasMemory /\ FreshPointer

------------------------------------------------------------------------------
(* Numbers and frames *)

LEMMA Remainder == \A n \in Nat : n % Word \in 0..Word - 1
BY LinearMemoryAssumption

\* What the conjuncts of TypeOK say, in the form the provers use.
LEMMA Types ==
  ASSUME TypeOK
  PROVE  /\ pages \in Nat /\ pages <= LimitPages /\ length = pages * PageSize
         /\ maxPages \in Nat /\ maxPages < Word
         /\ frames \in Seq(Frame) /\ Depth \in Nat
         /\ \A k \in 1..Depth : /\ frames[k] \in Frame
                                /\ frames[k].kind \in Kinds
                                /\ frames[k].mem \in Address \cup {Null}
<1>1. frames \in Seq(Frame) /\ Depth \in Nat /\ \A k \in 1..Depth : frames[k] \in Frame
  BY DEF TypeOK, Depth
<1>2. \A f \in Frame : f.kind \in Kinds /\ f.mem \in Address \cup {Null}
  BY DEF Frame, Kinds
<1>3. /\ pages \in Nat /\ pages <= LimitPages /\ length = pages * PageSize
      /\ maxPages \in Nat /\ maxPages < Word
  BY LinearMemoryAssumption DEF TypeOK
<1> QED BY <1>1, <1>2, <1>3

\* The frames below frame n.
LEMMA Belows ==
  ASSUME TypeOK, NEW n \in 0..Depth
  PROVE  /\ Below(n) \in Seq(Frame) /\ Len(Below(n)) = n
         /\ \A k \in 1..n : Below(n)[k] = frames[k]
         /\ Below(n) = <<>> <=> n = 0
<1>1. frames \in Seq(Frame) /\ Len(frames) \in Nat
  BY DEF TypeOK
<1>2. Below(n) \in Seq(Frame) /\ Len(Below(n)) = n /\ \A k \in 1..n : Below(n)[k] = frames[k]
  BY <1>1 DEF Below, Depth
<1>3. Below(n) = <<>> <=> n = 0
  BY <1>2
<1> QED BY <1>2, <1>3

\* Going back to frame n.
LEMMA PopIInv ==
  ASSUME IInv, NEW n \in 0..Depth, frames' = Below(n), mem' \in Address \cup {Null},
         UNCHANGED <<loaded, memory, maxPages, r0, access>>,
         \/ n = 0 \/ frames[n].kind = "host" \/ mem' = mallocated,
         frames # <<>>
  PROVE  IInv'
<1>1. /\ frames' \in Seq(Frame) /\ Depth' = n
      /\ \A k \in 1..n : frames'[k] = frames[k]
      /\ frames' = <<>> <=> n = 0
  BY Belows DEF IInv, Depth
<1>2. n \in Nat /\ n <= Depth /\ Depth \in Nat
  BY Types DEF IInv
<1>3. TypeOK'
  <2>1. Depth' <= MaxDepth
    BY <1>1, <1>2, LinearMemoryAssumption DEF IInv, TypeOK
  <2> QED BY <2>1, <1>1 DEF IInv, TypeOK, memory, access
<1>4. Entered'
  <2> SUFFICES ASSUME NEW k \in 1..n
               PROVE  (k = 1 \/ frames'[k - 1].kind = "host") <=> frames'[k].kind = "entrance"
    BY <1>1 DEF Entered
  <2>1. k \in 1..Depth /\ frames'[k] = frames[k] /\ (k # 1 => frames'[k - 1] = frames[k - 1])
    BY <1>1, <1>2
  <2> QED BY <2>1 DEF IInv, Entered
<1>5. LoadedHasMemory'
  BY DEF IInv, LoadedHasMemory, memory
<1>6. FreshPointer'
  BY <1>1, <1>2 DEF FreshPointer, Executes, memory
<1> QED BY <1>3, <1>4, <1>5, <1>6 DEF IInv

\* One frame more.
LEMMA PushIInv ==
  ASSUME IInv, NEW kind \in Kinds, Push(kind), mem' \in Address \cup {Null},
         UNCHANGED <<loaded, memory, maxPages, r0, access>>,
         frames = <<>> \/ frames[Depth].kind = "host" <=> kind = "entrance",
         kind = "host" \/ mem' = mallocated,
         loaded
  PROVE  IInv'
<1>1. frames \in Seq(Frame) /\ Depth \in Nat /\ Depth < MaxDepth
      /\ mem \in Address \cup {Null}
  BY Types DEF IInv, TypeOK, Push
<1> DEFINE f == [kind |-> kind, mem |-> mem]
<1>2. f \in Frame /\ f.kind = kind
  BY <1>1 DEF Frame, Kinds
<1>3. /\ frames' = Append(frames, f) /\ frames' \in Seq(Frame) /\ frames' # <<>>
      /\ Depth' = Depth + 1 /\ frames'[Depth + 1].kind = kind
      /\ \A k \in 1..Depth : frames'[k] = frames[k]
  BY <1>1, <1>2 DEF Push, Depth
<1>4. TypeOK'
  <2>1. MaxDepth \in Nat
    BY LinearMemoryAssumption
  <2> QED BY <2>1, <1>1, <1>3 DEF IInv, TypeOK, memory, access
<1>5. Entered'
  <2> SUFFICES ASSUME NEW k \in 1..Depth + 1
               PROVE  (k = 1 \/ frames'[k - 1].kind = "host") <=> frames'[k].kind = "entrance"
    BY <1>3 DEF Entered
  <2>1. CASE k \in 1..Depth
    <3> k # 1 => k - 1 \in 1..Depth
      BY <2>1, <1>1
    <3>1. frames'[k] = frames[k] /\ (k # 1 => frames'[k - 1] = frames[k - 1])
      BY <2>1, <1>3
    <3> QED BY <3>1, <2>1 DEF IInv, Entered
  <2>2. CASE k = Depth + 1 /\ Depth # 0
    <3>1. frames'[k - 1] = frames[Depth] /\ k # 1 /\ frames # <<>>
      BY <2>2, <1>1, <1>3 DEF Depth
    <3> QED BY <3>1, <2>2, <1>3
  <2>3. CASE k = Depth + 1 /\ Depth = 0
    <3>1. frames = <<>>
      BY <2>3, <1>1 DEF Depth
    <3> QED BY <3>1, <2>3, <1>3
  <2> QED BY <2>1, <2>2, <2>3, <1>1
<1>6. LoadedHasMemory'
  BY DEF IInv, LoadedHasMemory, memory
<1>7. FreshPointer'
  BY <1>3 DEF FreshPointer, Executes, memory
<1> QED BY <1>4, <1>5, <1>6, <1>7 DEF IInv

------------------------------------------------------------------------------
(* The memory *)

\* What ResizeMemory does for InitMemory and for memory.grow.
LEMMA ResizeTypes ==
  ASSUME TypeOK, NEW n \in 0..Word - 1, NEW max, NEW ok \in BOOLEAN,
         ResizeMemory(n, max, ok)
  PROVE  /\ mallocated' \in Address \cup {Null}
         /\ pages' \in 0..LimitPages /\ length' = pages' * PageSize
         /\ mallocated # Null => mallocated' # Null
         /\ ~ok => UNCHANGED memory
<1>1. CASE ok /\ n <= LimitPages /\ Resized(n)
  <2>1. /\ pages' = n /\ length' = n * PageSize
        /\ mallocated' \in IF n = pages /\ n > 0 THEN {mallocated} ELSE Address
    BY <1>1 DEF Resized
  <2>2. n \in 0..LimitPages
    BY <1>1, LinearMemoryAssumption
  <2>3. CASE n = pages /\ n > 0
    BY <2>1, <2>2, <2>3, <1>1 DEF TypeOK
  <2>4. CASE ~(n = pages /\ n > 0)
    BY <2>1, <2>2, <2>4, <1>1, LinearMemoryAssumption
  <2> QED BY <2>3, <2>4
<1>2. CASE ~ok /\ UNCHANGED memory
  BY <1>2 DEF TypeOK, memory
<1> QED BY <1>1, <1>2 DEF ResizeMemory

LEMMA LoadIInv ==
  ASSUME IInv, NEW init \in 0..Word - 1, NEW max \in 0..Word - 1, Load(init, max)
  PROVE  IInv'
<1>1. PICK initOk \in BOOLEAN, dataOk \in BOOLEAN :
        InitMemory(init, max, initOk) /\ loaded' = (initOk /\ Loads(dataOk))
  BY DEF Load
<1>2. /\ maxPages' = IF max = 0 THEN DefaultMax ELSE max
      /\ ResizeMemory(init, maxPages', initOk)
  BY <1>1 DEF InitMemory
<1>3. ~loaded /\ UNCHANGED <<mem, frames, r0, access>>
  BY DEF Load
<1>4. /\ mallocated' \in Address \cup {Null}
      /\ pages' \in 0..LimitPages /\ length' = pages' * PageSize
  BY <1>2, ResizeTypes DEF IInv
<1>5. maxPages' \in 0..Word - 1
  BY <1>2, LinearMemoryAssumption
<1>6. frames = <<>> /\ frames' = <<>> /\ Depth = 0 /\ Depth' = 0
  BY <1>3 DEF IInv, LoadedHasMemory, Depth
<1>7. loaded' \in BOOLEAN /\ (loaded' => mallocated' # Null)
  BY <1>1 DEF Loads
<1>8. TypeOK'
  <2>1. frames' \in Seq(Frame) /\ Depth' <= MaxDepth
    BY <1>3, <1>6 DEF IInv, TypeOK
  <2>2. mem' \in Address \cup {Null} /\ r0' \in 0..LimitPages \cup {Failure}
    BY <1>3 DEF IInv, TypeOK
  <2>3. accessor' \in Accessor /\ outside' \subseteq Int
    BY <1>3 DEF IInv, TypeOK, access
  <2> QED BY <2>1, <2>2, <2>3, <1>4, <1>5, <1>7 DEF TypeOK
<1>9. Entered' /\ LoadedHasMemory' /\ FreshPointer'
  BY <1>6, <1>7 DEF Entered, LoadedHasMemory, FreshPointer, Executes
<1> QED BY <1>8, <1>9 DEF IInv

LEMMA LoadImportedIInv == IInv /\ LoadImported => IInv'
<1>1. SUFFICES ASSUME IInv, LoadImported PROVE IInv'
  OBVIOUS
<1>2. /\ ~loaded /\ UNCHANGED <<memory, maxPages, mem, frames, r0, access>>
      /\ loaded' \in BOOLEAN /\ (loaded' => mallocated' # Null)
  BY <1>1 DEF LoadImported, Loads
<1>3. frames = <<>> /\ Depth' = Depth
  BY <1>1, <1>2 DEF IInv, LoadedHasMemory, Depth
<1>4. TypeOK'
  BY <1>1, <1>2, <1>3 DEF IInv, TypeOK, memory, access
<1>5. Entered' /\ LoadedHasMemory' /\ FreshPointer'
  BY <1>1, <1>2, <1>3 DEF IInv, Entered, LoadedHasMemory, FreshPointer, Executes
<1> QED BY <1>4, <1>5 DEF IInv

LEMMA MemGrowIInv == IInv /\ (\E n \in 0..Word - 1 : MemGrow(n)) => IInv'
<1>1. SUFFICES ASSUME IInv, NEW n \in 0..Word - 1, MemGrow(n) PROVE IInv'
  OBVIOUS
<1>2. UNCHANGED <<loaded, maxPages, frames, access>> /\ Depth' = Depth /\ Executes
  BY <1>1 DEF MemGrow, Depth
<1>3. pages \in Nat /\ pages \in 0..LimitPages
  BY <1>1, LinearMemoryAssumption DEF IInv, TypeOK
<1>4. /\ mallocated' \in Address \cup {Null} /\ mem' = mallocated'
      /\ pages' \in 0..LimitPages /\ length' = pages' * PageSize
      /\ r0' \in 0..LimitPages \cup {Failure}
      /\ mallocated # Null => mallocated' # Null
  <2>1. CASE n = 0 /\ r0' = pages /\ UNCHANGED <<memory, mem>>
    BY <2>1, <1>1, <1>2, <1>3 DEF IInv, TypeOK, memory, FreshPointer
  <2>2. ASSUME NEW ok \in BOOLEAN,
               ResizeMemory((pages + n) % Word, maxPages, ok),
               r0' = IF ok THEN pages ELSE Failure, mem' = mallocated'
        PROVE  <1>4!:
    <3>1. (pages + n) % Word \in 0..Word - 1
      BY <1>3, Remainder
    <3> QED BY <1>1, <1>3, <2>2, <3>1, ResizeTypes DEF IInv
  <2> QED BY <1>1, <2>1, <2>2 DEF MemGrow
<1>5. TypeOK'
  BY <1>1, <1>2, <1>4 DEF IInv, TypeOK, access
<1>6. Entered' /\ LoadedHasMemory' /\ FreshPointer'
  BY <1>1, <1>2, <1>4 DEF IInv, Entered, LoadedHasMemory, FreshPointer, Executes
<1> QED BY <1>5, <1>6 DEF IInv

------------------------------------------------------------------------------
(* The other steps *)

LEMMA EnterIInv == IInv /\ Enter => IInv'
<1>1. SUFFICES ASSUME IInv, Enter PROVE IInv'
  OBVIOUS
<1>2. /\ loaded /\ ~Executes /\ Push("entrance") /\ mem' = mallocated
      /\ UNCHANGED <<loaded, memory, maxPages, r0, access>>
  BY <1>1 DEF Enter, InSwift
<1>3. frames = <<>> \/ frames[Depth].kind = "host"
  BY <1>2 DEF Executes
<1>4. mem' \in Address \cup {Null}
  BY <1>1, <1>2 DEF IInv, TypeOK
<1> QED BY <1>1, <1>2, <1>3, <1>4, PushIInv DEF Kinds

LEMMA CallsIInv ==
  IInv /\ (\E kind \in {"call", "loop", "host"} : Calls(kind)) => IInv'
<1>1. SUFFICES ASSUME IInv, NEW kind \in {"call", "loop", "host"}, Calls(kind)
               PROVE  IInv'
  OBVIOUS
<1>2. /\ Executes /\ Push(kind)
      /\ UNCHANGED <<loaded, memory, maxPages, mem, r0, access>>
  BY <1>1 DEF Calls
<1>3. frames # <<>> /\ frames[Depth].kind # "host" /\ mem = mallocated /\ loaded
  BY <1>1, <1>2 DEF IInv, Executes, FreshPointer, LoadedHasMemory
<1>4. mem' \in Address \cup {Null} /\ mem' = mallocated
  BY <1>1, <1>2, <1>3 DEF IInv, TypeOK
<1> QED BY <1>1, <1>2, <1>3, <1>4, PushIInv DEF Kinds

LEMMA ReturnIInv == IInv /\ Return => IInv'
<1>1. SUFFICES ASSUME IInv, Return PROVE IInv'
  OBVIOUS
<1>2. PICK k \in 1..Depth :
        /\ Innermost(k, {"call", "entrance"})
        /\ frames' = Below(k - 1)
        /\ mem' = IF frames[k].kind = "call" THEN mallocated ELSE frames[k].mem
  BY <1>1 DEF Return
<1>3. UNCHANGED <<loaded, memory, maxPages, r0, access>>
  BY <1>1 DEF Return
<1>4. Depth \in Nat /\ frames[k].mem \in Address \cup {Null} /\ frames # <<>>
  BY <1>1, Types DEF IInv, Depth
<1>5. mem' \in Address \cup {Null}
  BY <1>1, <1>2, <1>4 DEF IInv, TypeOK
<1>6. k - 1 = 0 \/ frames[k - 1].kind = "host" \/ mem' = mallocated
  BY <1>1, <1>2, <1>4 DEF IInv, Entered, Innermost
<1>7. k - 1 \in 0..Depth
  BY <1>4
<1> QED BY <1>1, <1>2, <1>3, <1>4, <1>5, <1>6, <1>7, PopIInv

LEMMA ContinueIInv == IInv /\ (\E k \in 1..Depth : Continue(k)) => IInv'
<1>1. SUFFICES ASSUME IInv, NEW k \in 1..Depth, Continue(k) PROVE IInv'
  OBVIOUS
<1>2. /\ frames' = Below(k) /\ mem' = mallocated
      /\ UNCHANGED <<loaded, memory, maxPages, r0, access>>
      /\ frames # <<>>
  BY <1>1 DEF Continue, Executes
<1>3. k \in 0..Depth /\ mem' \in Address \cup {Null}
  BY <1>1, <1>2, Types DEF IInv, TypeOK
<1> QED BY <1>1, <1>2, <1>3, PopIInv

LEMMA TrapIInv == IInv /\ Trap => IInv'
<1>1. SUFFICES ASSUME IInv, Trap PROVE IInv'
  OBVIOUS
<1>2. PICK k \in 1..Depth :
        /\ Innermost(k, {"entrance"}) /\ frames' = Below(k - 1)
        /\ mem' = frames[k].mem
  BY <1>1 DEF Trap
<1>3. UNCHANGED <<loaded, memory, maxPages, r0, access>>
  BY <1>1 DEF Trap
<1>4. Depth \in Nat /\ frames[k].mem \in Address \cup {Null} /\ frames # <<>>
  BY <1>1, Types DEF IInv, Depth
<1>5. k - 1 = 0 \/ frames[k - 1].kind = "host"
  BY <1>1, <1>2, <1>4 DEF IInv, Entered, Innermost
<1>6. k - 1 \in 0..Depth /\ mem' \in Address \cup {Null}
  BY <1>2, <1>4
<1> QED BY <1>1, <1>2, <1>3, <1>4, <1>5, <1>6, PopIInv

\* The accesses and memory.size change none of the memory, the frames and _mem.
LEMMA QuietIInv ==
  ASSUME IInv, UNCHANGED <<loaded, memory, maxPages, mem, frames>>,
         r0' \in 0..LimitPages \cup {Failure},
         accessor' \in Accessor, outside' \subseteq Int
  PROVE  IInv'
<1>1. TypeOK'
  BY DEF IInv, TypeOK, memory, Depth
<1>2. Entered' /\ LoadedHasMemory' /\ FreshPointer'
  BY DEF IInv, Entered, LoadedHasMemory, FreshPointer, Executes, memory, Depth
<1> QED BY <1>1, <1>2 DEF IInv

LEMMA MemSizeIInv == IInv /\ MemSize => IInv'
<1>1. SUFFICES ASSUME IInv, MemSize PROVE IInv'
  OBVIOUS
<1>2. /\ r0' \in 0..LimitPages \cup {Failure}
      /\ accessor' \in Accessor /\ outside' \subseteq Int
  BY <1>1 DEF IInv, TypeOK, MemSize, access
<1> QED BY <1>1, <1>2, QuietIInv DEF MemSize

\* The bytes an access touches.
LEMMA TouchesIInv ==
  ASSUME IInv, NEW by \in Accessor, NEW block, NEW offset \in Int, NEW n \in Int,
         Touches(by, block, offset, n)
  PROVE  IInv'
<1>1. outside' \subseteq Int
  BY DEF Touches
<1>2. r0' \in 0..LimitPages \cup {Failure} /\ accessor' \in Accessor
  BY DEF IInv, TypeOK, Touches
<1>3. UNCHANGED <<loaded, memory, maxPages, mem, frames>>
  BY DEF Touches
<1> QED BY <1>1, <1>2, <1>3, QuietIInv

Accesses ==
  \/ \E offset, n \in Offset : Access(offset, n)
  \/ \E offset \in HeapOffset, n \in Offset :
       \/ HeapBytes(offset, n)
       \/ \E size \in ElementSize : HeapValues(offset, n, size)

LEMMA AccessesIInv == IInv /\ Accesses => IInv'
<1>1. SUFFICES ASSUME IInv, Accesses PROVE IInv'
  OBVIOUS
<1>2. Offset \subseteq Int /\ HeapOffset \subseteq Int /\ ElementSize \subseteq Int
  BY LinearMemoryAssumption
<1>3. ASSUME NEW offset \in Offset, NEW n \in Offset, Access(offset, n)  PROVE IInv'
  <2>1. offset \in Int /\ n \in Int /\ "code" \in Accessor
    BY <1>2 DEF Accessor
  <2> QED BY <1>1, <1>3, <2>1, TouchesIInv DEF Access
<1>4. ASSUME NEW offset \in HeapOffset, NEW n \in Offset, HeapBytes(offset, n)  PROVE IInv'
  <2>1. offset \in Int /\ n \in Int /\ "bytes" \in Accessor
    BY <1>2 DEF Accessor
  <2> QED BY <1>1, <1>4, <2>1, TouchesIInv DEF HeapBytes
<1>5. ASSUME NEW offset \in HeapOffset, NEW n \in Offset, NEW size \in ElementSize,
             HeapValues(offset, n, size)
      PROVE  IInv'
  <2>1. offset \in Int /\ n \in Int /\ size \in Int /\ "values" \in Accessor
    BY <1>2 DEF Accessor
  <2>2. n * size \in Int
    BY <2>1
  <2>3. Touches("values", mallocated, offset, n * size)
    BY <1>5 DEF HeapValues
  <2> QED BY <1>1, <2>1, <2>2, <2>3, TouchesIInv
<1> QED BY <1>1, <1>3, <1>4, <1>5 DEF Accesses

LEMMA InitIInv == Init => IInv
<1>1. SUFFICES ASSUME Init PROVE IInv
  OBVIOUS
<1>2. frames = <<>> /\ Depth = 0 /\ frames \in Seq(Frame)
  BY <1>1 DEF Init, Depth
<1>3. TypeOK
  <2>1. 0 \in 0..LimitPages /\ 0 \in 0..Word - 1 /\ 0 = 0 * PageSize /\ 0 <= MaxDepth
    BY LinearMemoryAssumption
  <2> QED BY <1>1, <1>2, <2>1 DEF Init, TypeOK, Accessor
<1>4. Entered /\ LoadedHasMemory /\ FreshPointer
  BY <1>1, <1>2 DEF Init, Entered, LoadedHasMemory, FreshPointer, Executes
<1> QED BY <1>3, <1>4 DEF IInv

LEMMA NextIInv == IInv /\ [Next]_vars => IInv'
<1>1. SUFFICES ASSUME IInv, [Next]_vars PROVE IInv'
  OBVIOUS
<1>2. CASE UNCHANGED vars
  BY <1>1, <1>2, QuietIInv DEF vars, access, IInv, TypeOK
<1>3. CASE \E init \in 0..Word - 1, max \in 0..Word - 1 : Load(init, max)
  BY <1>1, <1>3, LoadIInv
<1>4. CASE Accesses
  BY <1>1, <1>4, AccessesIInv
<1>5. CASE \/ LoadImported \/ Enter \/ Return \/ Trap \/ MemSize
           \/ \E kind \in {"call", "loop", "host"} : Calls(kind)
           \/ \E k \in 1..Depth : Continue(k)
           \/ \E n \in 0..Word - 1 : MemGrow(n)
  BY <1>1, <1>5, LoadImportedIInv, EnterIInv, ReturnIInv, TrapIInv, MemSizeIInv, CallsIInv,
     ContinueIInv, MemGrowIInv
<1> QED BY <1>1, <1>2, <1>3, <1>4, <1>5 DEF Next, Accesses

------------------------------------------------------------------------------
(* The theorems *)

\* The argument: every step keeps the shape of the C frames and the pointer.
THEOREM Invariance == Spec => []IInv
<1>1. Init => IInv
  BY InitIInv
<1>2. IInv /\ [Next]_vars => IInv'
  BY NextIInv
<1> QED BY <1>1, <1>2, PTL DEF Spec

\* The variables have their types: the memory never exceeds the limit that it was
\* configured with, and its length is that of its pages.
THEOREM TypeCorrect == Spec => []TypeOK
<1>1. IInv => TypeOK
  BY DEF IInv
<1> QED BY <1>1, Invariance, PTL

\* No code runs without memory (m3_env.c:449), and whatever moved the memory, an
\* operation that runs has a pointer to where it is now (m3_exec.h:858).
THEOREM MemoryPresent == Spec => []MemoryAtHand
<1>1. IInv => MemoryAtHand
  BY DEF IInv, LoadedHasMemory, CodeHasMemory, MemoryAtHand
<1> QED BY <1>1, Invariance, PTL

\* Of a loaded module's steps only memory.grow changes the memory, when it succeeds;
\* then it returns the size from before.
LEMMA StepTold == [Next]_vars => (loaded /\ memory' # memory => r0' = pages)
<1>1. SUFFICES ASSUME [Next]_vars, loaded, memory' # memory PROVE r0' = pages
  OBVIOUS
<1>2. CASE \E n \in 0..Word - 1 : MemGrow(n)
  <2>1. PICK n \in 0..Word - 1 : MemGrow(n)
    BY <1>2
  <2>2. CASE r0' = pages
    BY <2>2
  <2>3. ASSUME NEW ok \in BOOLEAN,
               ResizeMemory((pages + n) % Word, maxPages, ok),
               r0' = IF ok THEN pages ELSE Failure
        PROVE  r0' = pages
    BY <1>1, <2>3 DEF ResizeMemory
  <2> QED BY <2>1, <2>2, <2>3 DEF MemGrow
<1>3. CASE UNCHANGED memory
  BY <1>1, <1>3
<1>4. ~\E init \in 0..Word - 1, max \in 0..Word - 1 : Load(init, max)
  BY <1>1 DEF Load
<1>5. \/ LoadImported \/ Enter \/ Return \/ Trap \/ MemSize
      \/ \E kind \in {"call", "loop", "host"} : Calls(kind)
      \/ \E k \in 1..Depth : Continue(k)
      \/ Accesses
      => UNCHANGED memory
  BY DEF LoadImported, Enter, Return, Trap, MemSize, Calls, Continue, Accesses, Access,
         HeapBytes, HeapValues, Touches, memory
<1>6. UNCHANGED vars => UNCHANGED memory
  BY DEF vars
<1> QED BY <1>1, <1>2, <1>3, <1>4, <1>5, <1>6 DEF Next, Accesses

\* What memory.grow tells the function is what happened to the memory.
THEOREM GrowthTold == Spec => GrowTold
<1>1. [Next]_vars => [loaded /\ memory' # memory => r0' = pages]_vars
  BY StepTold
<1> QED BY <1>1, PTL DEF Spec, GrowTold

------------------------------------------------------------------------------
(* What the accesses touch *)

\* Only accesses say what they touch.
LEMMA OthersQuiet == IInv /\ [Next]_vars => Accesses \/ UNCHANGED access
<1>1. CASE UNCHANGED vars
  BY <1>1 DEF vars
<1>2. ASSUME NEW init, NEW max, Load(init, max)  PROVE UNCHANGED access
  BY <1>2 DEF Load, access
<1>3. ASSUME NEW n, MemGrow(n)  PROVE UNCHANGED access
  BY <1>3 DEF MemGrow, access
<1>4. CASE \/ LoadImported \/ Enter \/ Return \/ Trap \/ MemSize
           \/ \E kind \in {"call", "loop", "host"} : Calls(kind)
           \/ \E k \in 1..Depth : Continue(k)
  BY <1>4 DEF LoadImported, Enter, Return, Trap, MemSize, Calls, Continue, access
<1> QED BY <1>1, <1>2, <1>3, <1>4 DEF Next, Accesses

\* An access to the memory itself whose end was looked at touches nothing behind it, and
\* nothing before it unless it starts there.
LEMMA TouchesEnd ==
  ASSUME TypeOK, NEW by, NEW offset \in Int, NEW n \in Nat,
         Touches(by, mallocated, offset, n), offset + n <= length
  PROVE  /\ accessor' = by
         /\ \A byte \in outside' : byte < 0
         /\ offset \in Nat => outside' = {}
<1>1. length \in Int
  BY LinearMemoryAssumption, Types
<1>2. accessor' = by /\ outside' = (offset..offset + n - 1) \ (0..length - 1)
  BY DEF Touches, BytesOf
<1>3. \A byte \in outside' : byte \in Int /\ offset <= byte /\ byte < length /\ byte \notin 0..length - 1
  BY <1>1, <1>2
<1>4. \A byte \in outside' : byte < 0 /\ offset <= byte
  BY <1>1, <1>3
<1>5. ASSUME offset \in Nat  PROVE outside' = {}
  BY <1>4, <1>5, <1>3
<1> QED BY <1>2, <1>4, <1>5

\* The code has the memory itself (FreshPointer) and looks at the end, from 0 on.
LEMMA AccessInside ==
  ASSUME IInv, NEW offset \in Offset, NEW n \in Offset, Access(offset, n)
  PROVE  outside' = {}
<1>1. offset \in Nat /\ n \in Nat
  BY LinearMemoryAssumption
<1>2. offset \in Int /\ mem = mallocated
  BY <1>1 DEF IInv, FreshPointer, Access
<1>3. Touches("code", mallocated, offset, n) /\ offset + n <= length
  BY <1>2 DEF Access
<1> QED BY <1>1, <1>2, <1>3, TouchesEnd DEF IInv

LEMMA HeapBytesInside ==
  ASSUME IInv, NEW offset \in HeapOffset, NEW n \in Offset, HeapBytes(offset, n)
  PROVE  /\ accessor' = "bytes"
         /\ \A byte \in outside' : byte < 0
         /\ offset \in Nat => outside' = {}
<1>1. offset \in Int /\ n \in Nat
  BY LinearMemoryAssumption
<1>2. Touches("bytes", mallocated, offset, n) /\ offset + n <= length
  BY DEF HeapBytes, IsValid
<1> QED BY <1>1, <1>2, TouchesEnd DEF IInv

\* However the functions and Swift's part of the program call one another, code that an
\* access is not refused to touches bytes of the memory only, also after loops, calls and
\* imported functions that moved it (m3_exec.h:858, :1291); Swift's functions for bytes
\* touch none behind it (Heap.swift:17).
THEOREM CodeInBounds == Spec => []OutsideOnlyBySwift
<1>1. Init => IInv /\ OutsideOnlyBySwift
  BY InitIInv DEF Init, OutsideOnlyBySwift
<1>2. IInv /\ OutsideOnlyBySwift /\ [Next]_vars => (IInv /\ OutsideOnlyBySwift)'
  <2>1. SUFFICES ASSUME IInv, OutsideOnlyBySwift, [Next]_vars PROVE OutsideOnlyBySwift'
    BY NextIInv
  <2>2. CASE UNCHANGED access
    BY <2>1, <2>2 DEF OutsideOnlyBySwift, access
  <2>3. CASE \E offset, n \in Offset : Access(offset, n)
    BY <2>1, <2>3, AccessInside DEF OutsideOnlyBySwift
  <2>4. CASE \E offset \in HeapOffset, n \in Offset : HeapBytes(offset, n)
    BY <2>1, <2>4, HeapBytesInside DEF OutsideOnlyBySwift
  <2>5. CASE \E offset \in HeapOffset, n \in Offset, size \in ElementSize :
               HeapValues(offset, n, size)
    <3>1. accessor' = "values"
      BY <2>5 DEF HeapValues, Touches
    <3> QED BY <3>1 DEF OutsideOnlyBySwift
  <2> QED BY <2>1, <2>2, <2>3, <2>4, <2>5, OthersQuiet DEF Accesses
<1> QED BY <1>1, <1>2, PTL DEF Spec

\* The only values that Swift reads arrays of have one byte, and no byteOffset is negative.
Bytes == ElementSize = {1}
Forward == HeapOffset \subseteq Nat

\* Where Swift gives no negative byteOffset and reads no arrays but of bytes, no access that
\* is not refused touches what is not memory: Heap.isValid needs no more than these two
\* (Heap.swift:17, Interpreter.Heap.swift:30).
THEOREM AccessesInBounds ==
  ASSUME Bytes, Forward
  PROVE  Spec => []InBounds
<1>1. Init => IInv /\ InBounds
  BY InitIInv DEF Init, InBounds
<1>2. IInv /\ InBounds /\ [Next]_vars => (IInv /\ InBounds)'
  <2>1. SUFFICES ASSUME IInv, InBounds, [Next]_vars PROVE InBounds'
    BY NextIInv
  <2>2. CASE UNCHANGED access
    BY <2>1, <2>2 DEF InBounds, access
  <2>3. CASE \E offset, n \in Offset : Access(offset, n)
    BY <2>1, <2>3, AccessInside DEF InBounds
  <2>4. CASE \E offset \in HeapOffset, n \in Offset : HeapBytes(offset, n)
    BY <2>1, <2>4, HeapBytesInside DEF InBounds, Forward
  <2>5. CASE \E offset \in HeapOffset, n \in Offset, size \in ElementSize :
               HeapValues(offset, n, size)
    <3>1. PICK offset \in HeapOffset, n \in Offset : HeapValues(offset, n, 1)
      BY <2>5 DEF Bytes
    <3>2. offset \in Nat /\ offset \in Int /\ n \in Nat
      BY LinearMemoryAssumption DEF Forward
    <3>3. n * 1 = n
      BY <3>2
    <3>4. Touches("values", mallocated, offset, n) /\ offset + n <= length
      BY <3>1, <3>3 DEF HeapValues, IsValid
    <3> QED BY <2>1, <3>2, <3>4, TouchesEnd DEF IInv, InBounds
  <2> QED BY <2>1, <2>2, <2>3, <2>4, <2>5, OthersQuiet DEF Accesses
<1> QED BY <1>1, <1>2, PTL DEF Spec
=============================================================================
