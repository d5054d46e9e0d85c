------------------------------ MODULE Compiler ------------------------------
(***************************************************************************)
(* The one-pass compiler of m3_compile.c: it turns the stack code of a     *)
(* Wasm function into code for a register machine, keeping for each Wasm   *)
(* operand the place its value will have when the code runs (a slot of the *)
(* frame, or one of the registers r0 and fp0).  Operands that come from    *)
(* local.get are not copied: they name the local's own slot until the      *)
(* local is set (copy on write).                                           *)
(*                                                                         *)
(* One step compiles one Wasm instruction.  The state also follows one     *)
(* execution of the code being compiled: what the slots and registers      *)
(* would hold ("mem", "regs"), and, beside every operand, the value the    *)
(* Wasm semantics gives it ("val").  At a conditional branch the execution *)
(* takes one of the two ways; code it jumps over is compiled but changes   *)
(* no slot.  The compiler is right when the place it keeps for an operand  *)
(* holds the operand's value.                                              *)
(***************************************************************************)
EXTENDS Integers, FiniteSets, SequencesExt

CONSTANTS
  Args, Locals, Results,  \* the function's signature and its own locals: sequences of types
  Consts,                 \* constants of the code: records [type, id], id \in 1..Cardinality(Consts)
  ConstSlots,             \* slots ReserveConstants finds the code to need
  BlockTypes,             \* the block types of the code: records [params, results]
  CallTypes,              \* the types of the functions it calls
  Operators,              \* [ins, out]: operand types and result ("none" for a store)
  Conversions,            \* [from, to]: conversion opcodes
  Globals,                \* the types of the globals
  CondLabels,             \* result types of the labels br_if may name
  MaxConstantTableSize,   \* d_m3MaxConstantTableSize
  MaxFunctionSlots,       \* d_m3MaxFunctionSlots
  MaxStackHeight,         \* d_m3MaxFunctionStackHeight
  MaxUsage,               \* 0xFF, what a usage count can hold
  MaxDepth,               \* bound: blocks open at once
  MaxDead                 \* bound: operands a block has in unreachable code

ValueType == {"i32", "i64", "f32", "f64"}
Signature == [params : Seq(ValueType), results : Seq(ValueType)]

ASSUME CompilerAssumption ==
  /\ {Args, Locals, Results} \subseteq Seq(ValueType) /\ Globals \subseteq ValueType
  /\ BlockTypes \subseteq Signature /\ CallTypes \subseteq Signature
  /\ ConstSlots \in Nat /\ MaxConstantTableSize \in Nat /\ MaxStackHeight \in Nat
  /\ MaxFunctionSlots \in Nat \ {0}
  /\ MaxFunctionSlots < 60000 \* slots are no registers: m3_compile.c:480
  /\ MaxUsage \in Nat \ {0} /\ MaxDepth \in Nat \ {0}

VARIABLE o  \* the M3Compilation, with the followed execution

-----------------------------------------------------------------------------
(* Types, places and values *)

\* GetTypeNumSlots with 32-bit slots
Width(t) == IF t \in {"i64", "f64"} THEN 2 ELSE 1
IsFp(t) == t \in {"f32", "f64"}
\* AlignSlotToType
Align(s, t) == IF Width(t) = 2 THEN s + (s % 2) ELSE s

R0 == 60000     \* d_m3Reg0SlotAlias
Fp0 == 60002    \* d_m3Fp0SlotAlias
Unused == 65535 \* c_slotUnused
Registers == {R0, Fp0}
RegisterFor(t) == IF IsFp(t) THEN Fp0 ELSE R0

\* c_ioSlotCount: arguments and results are passed in 64-bit cells
IoSlots == 2
Frame == 2 + IoSlots * Max({0} \cup {Len(t.params) + Len(t.results) : t \in CallTypes})
Slots == 0 .. MaxFunctionSlots - 1
Memory == 0 .. MaxFunctionSlots + Frame - 1
Cells(s, t) == s .. s + Width(t) - 1

Junk == 0
Here == <<"here", 0>>    \* the execution is at the code now compiled
Gone == <<"gone", 0>>    \* it has left the function, or is in an earlier pass of a loop
ToEnd(d) == <<"end", d>>
ToElse(d) == <<"else", d>>

Running(c) == c.path = Here
Block(c) == Last(c.scopes)
Failed(c) == c.result # "none"
Fail(c, why) == [c EXCEPT !.result = why]
IsRegister(slot) == slot \in Registers

\* what the place kept for an entry of the stack holds
Held(c, slot, t) ==
  IF IsRegister(slot) THEN c.regs[slot]
  ELSE IF \E v \in {c.mem[s] : s \in Cells(slot, t)} : \A s \in Cells(slot, t) : c.mem[s] = v
       THEN c.mem[slot] ELSE Junk
HeldAt(c, i) == Held(c, c.stack[i].slot, c.stack[i].type)

\* a value the program has just computed
Fresh(c) ==
  Min((Cardinality(Consts) + 1 .. 3 * MaxFunctionSlots + 2 * MaxStackHeight)
        \ (Range(c.mem) \cup Range(c.regs) \cup Range(c.carry)
             \cup {c.stack[i].val : i \in DOMAIN c.stack}))
New(c) == IF Running(c) THEN Fresh(c) ELSE Junk

\* f with v in all the places
Filled(f, places, v) == [x \in DOMAIN f \cup places |-> IF x \in places THEN v ELSE f[x]]

\* the code now emitted writes v to a place
Store(c, slot, t, v) ==
  IF ~Running(c) \/ Failed(c) THEN c
  ELSE IF IsRegister(slot) THEN [c EXCEPT !.regs[slot] = v]
  ELSE [c EXCEPT !.mem = Filled(c.mem, Cells(slot, t), v)]

\* a value leaves the operand stack: got is what the code has for it
Observe(c, want, got) ==
  IF Running(c) /\ ~Failed(c) /\ want # got THEN [c EXCEPT !.wrong = TRUE] ELSE c

TopVals(c, n) == [j \in 1..n |-> c.stack[Len(c.stack) - n + j].val]
TopHeld(c, n) == [j \in 1..n |-> HeldAt(c, Len(c.stack) - n + j)]

-----------------------------------------------------------------------------
(* Slot and register allocation *)

\* AllocateSlotsWithinRange: only the first and the last cell are looked at
FreeSlots(c, t, first, end) ==
  {s \in Align(first, t) .. end - Width(t) :
     (s - Align(first, t)) % Width(t) = 0 /\ c.count[s] = 0 /\ c.count[s + Width(t) - 1] = 0}

\* MarkSlotsAllocated; past the array the write is undefined
Mark(c, slot, t) ==
  IF Failed(c) THEN c
  ELSE IF ~(Cells(slot, t) \subseteq Slots) THEN Fail(c, "wild")
  ELSE [c EXCEPT !.count = Filled(c.count, Cells(slot, t), 1)]

\* AllocateSlots
SlotFor(c, t) == Min(FreeSlots(c, t, c.dyn, MaxFunctionSlots))
HasSlot(c, t) == FreeSlots(c, t, c.dyn, MaxFunctionSlots) # {}

\* DeallocateSlot: the counts are bytes
Deallocate(c, slot, t) ==
  [c EXCEPT !.count = [s \in DOMAIN c.count \cup Cells(slot, t) |->
                        IF s \in Cells(slot, t) THEN (c.count[s] + MaxUsage) % (MaxUsage + 1)
                        ELSE c.count[s]]]

\* GetMaxUsedSlotPlusOne, without the upper bound slotMaxAllocatedIndexPlusOne it starts from
MaxUsedSlotPlusOne(c) ==
  Max({c.dyn} \cup {s + 1 : s \in {x \in c.dyn .. MaxFunctionSlots - 1 : c.count[x] > 0}})

-----------------------------------------------------------------------------
(* The operand stack *)

\* Mutant of Push: the height of the stack is not looked at.
PushUnchecked(c, t, slot, v) ==
  LET d == [c EXCEPT !.stack = Append(@, [slot |-> slot, type |-> t, val |-> IF Running(c) THEN v ELSE Junk])]
  IN IF Failed(c) THEN c ELSE IF IsRegister(slot) THEN [d EXCEPT !.reg[slot] = Len(d.stack)] ELSE d

Push(c, t, slot, v) ==
  IF Failed(c) THEN c
  ELSE IF Len(c.stack) >= MaxStackHeight THEN Fail(c, "functionStackOverflow")
  ELSE LET d == [c EXCEPT !.stack = Append(@, [slot |-> slot, type |-> t,
                                               val |-> IF Running(c) THEN v ELSE Junk])]
       IN IF IsRegister(slot) THEN [d EXCEPT !.reg[slot] = Len(d.stack)] ELSE d

PushRegister(c, t, v) == Push(c, t, RegisterFor(t), v)

PushAllocatedSlot(c, t, v) ==
  IF Failed(c) THEN c
  ELSE IF ~HasSlot(c, t) THEN Fail(c, "functionStackOverflow")
  ELSE Push(Mark(c, SlotFor(c, t), t), t, SlotFor(c, t), v)

\* an operation just emitted leaves v in the register, or in the slot
ResultInRegister(c, t, v) == PushRegister(Store(c, RegisterFor(t), t, v), t, v)
EmitToTop(c, v) == Store(c, Last(c.stack).slot, Last(c.stack).type, v)
PushAllocatedSlotAndEmit(c, t, v) == EmitToTop(PushAllocatedSlot(c, t, v), v)

\* Mutant of Pop: a register that is popped stays allocated.
PopKeepsRegister(c) ==
  LET e == Last(c.stack)
      d == [c EXCEPT !.stack = Front(@)]
  IN IF Failed(c) THEN c
     ELSE IF Len(c.stack) > Block(c).base
          THEN IF ~IsRegister(e.slot) /\ e.slot >= c.dyn THEN Deallocate(d, e.slot, e.type) ELSE d
     ELSE IF Block(c).poly THEN c ELSE Fail(c, "functionStackUnderrun")

Pop(c) ==
  LET e == Last(c.stack)
      d == [c EXCEPT !.stack = Front(@)]
  IN IF Failed(c) THEN c
     ELSE IF Len(c.stack) > Block(c).base
          THEN IF IsRegister(e.slot) THEN [d EXCEPT !.reg[e.slot] = 0]
               ELSE IF e.slot >= c.dyn THEN Deallocate(d, e.slot, e.type) ELSE d
     ELSE IF Block(c).poly THEN c ELSE Fail(c, "functionStackUnderrun")

Pops(c, n) == FoldLeft(LAMBDA x, j : Pop(x), c, [j \in 1..n |-> j])

\* GetStackTypeFromTop: arguments and locals are hidden
TypeFromTop(c, k) ==
  IF Len(c.stack) - k > c.first THEN c.stack[Len(c.stack) - k].type ELSE "none"
TopType(c) == TypeFromTop(c, 0)
InRegister(c, i) == i \in DOMAIN c.stack /\ IsRegister(c.stack[i].slot)
TopInRegister(c, k) == InRegister(c, Len(c.stack) - k)

PopType(c, t) ==
  IF Failed(c) THEN c
  ELSE IF t = TopType(c) \/ Block(c).poly THEN Pop(c) ELSE Fail(c, "typeMismatch")

\* PreserveRegisterIfOccupied: the entry moves to a slot, the emitted code copies it
PreserveRegister(c, t) ==
  LET r == RegisterFor(t)
      i == c.reg[r]
      e == c.stack[i]
      d == [c EXCEPT !.reg[r] = 0]
      s == SlotFor(d, e.type)
  IN IF Failed(c) \/ i = 0 THEN c
     ELSE IF ~HasSlot(d, e.type) THEN Fail(d, "functionStackOverflow")
     ELSE Store(Mark([d EXCEPT !.stack[i].slot = s], s, e.type), s, e.type, c.regs[r])

\* Mutant of PreserveRegisters: fp0 is left alone.
PreserveInteger(c) == PreserveRegister(c, "i64")

PreserveRegisters(c) == PreserveRegister(PreserveRegister(c, "f64"), "i64")

PreserveNonTopRegisters(c) ==
  FoldLeft(LAMBDA x, t : IF x.reg[RegisterFor(t)] = Len(c.stack) THEN x ELSE PreserveRegister(x, t),
           c, <<"i64", "f64">>)

\* CopyStackIndexToSlot; where the record of a result names a register, the copy goes to a
\* slot with the number of the register, far above the frame
CopyToSlot(c, slot, i) ==
  IF Failed(c) \/ i \notin DOMAIN c.stack \/ IsRegister(slot) THEN c
  ELSE Store(c, slot, c.stack[i].type, HeldAt(c, i))

\* CopyStackTopToRegister, the stack left as it is
LoadTop(c, t) ==
  IF c.stack = <<>> THEN c ELSE Store(c, RegisterFor(t), t, HeldAt(c, Len(c.stack)))
CopyTopToRegister(c) ==
  IF Failed(c) \/ TopInRegister(c, 0) THEN c
  ELSE LoadTop(PreserveRegister(c, TopType(c)), TopType(c))

Unwind(c) ==
  IF Failed(c) THEN c ELSE Pops(c, Max({0, Len(c.stack) - Block(c).base}))

SetPolymorphic(c) ==
  IF Failed(c) THEN c ELSE Unwind([c EXCEPT !.scopes[Len(c.scopes)].poly = TRUE])

-----------------------------------------------------------------------------
(* Copy on write of the locals *)

NumLocals == Len(Args) + Len(Locals)

\* FindReferencedLocalWithinCurrentBlock starts at the first scope outwards that is no block
FirstVisible(c) ==
  c.scopes[Max({k \in 1..Len(c.scopes) : c.scopes[k].op # "block"})].base

References(c, i) ==
  {k \in FirstVisible(c) + 1 .. Len(c.stack) : c.stack[k].slot = c.stack[i].slot}

\* the stack with the entries refs in another slot
Renamed(stack, refs, slot) ==
  SubSeq([k \in DOMAIN stack |-> IF k \in refs THEN [stack[k] EXCEPT !.slot = slot] ELSE stack[k]],
         1, Len(stack))

\* Mutant of Preserve: the uses of the new slot are not counted.
PreserveUncounted(c, i) ==
  LET refs == References(c, i)
      t == c.stack[i].type
      s == SlotFor(c, t)
  IN IF Failed(c) \/ refs = {} THEN c
     ELSE IF ~HasSlot(c, t) THEN Fail(c, "functionStackOverflow")
     ELSE Store([Mark(c, s, t) EXCEPT !.stack = Renamed(c.stack, refs, s)],
                s, t, HeldAt(c, i))

\* every operand naming local i moves to one new slot, whose first cell counts them
Preserve(c, i) ==
  LET refs == References(c, i)
      t == c.stack[i].type
      s == SlotFor(c, t)
      d == Mark(c, s, t)
  IN IF Failed(c) \/ refs = {} THEN c
     ELSE IF ~HasSlot(c, t) THEN Fail(c, "functionStackOverflow")
     ELSE IF Cardinality(refs) > MaxUsage THEN Fail(d, "slot usage count overflow")
     ELSE Store([d EXCEPT !.stack = Renamed(c.stack, refs, s),
                          !.count[s] = Cardinality(refs)],
                s, t, HeldAt(c, i))

PreserveArgsAndLocals(c) ==
  IF Len(c.stack) > c.first
  THEN FoldLeft(LAMBDA x, i : Preserve(x, i), c, [i \in 1..NumLocals |-> i])
  ELSE c

-----------------------------------------------------------------------------
(* Block results and branches *)

PushBlockResults(c, t) ==
  FoldLeft(LAMBDA x, i : IF i = Len(t.results) /\ IsFp(t.results[i])
                         THEN PushRegister(x, t.results[i], Junk)
                         ELSE PushAllocatedSlot(x, t.results[i], Junk),
           c, [i \in 1..Len(t.results) |-> i])

\* CopyStackSlotsR: the n entries from index i are copied to the slots recorded from index
\* target on; the first later entry a copy would overwrite is moved to a temporary slot.
\* Temporary slots lie above every slot the function has touched (maxStackSlots): here they
\* are cells of their own, and never run out.
CopyStackSlots(c, target, i, n) ==
  LET Step(acc, j) ==
        LET x == acc.c
            k == i + j
            to == x.stack[target + j].slot
            wide == Width(x.stack[k].type) - 1
            hit == {m \in k + 1 .. i + n - 1 :
                      LET s == x.stack[m].slot
                      IN to = s \/ to = s + Width(x.stack[m].type) - 1 \/ to + wide = s}
            h == Min(hit)
            moved == [CopyToSlot(x, acc.temp, h) EXCEPT !.stack[h].slot = acc.temp]
        IN IF Failed(x) \/ to = x.stack[k].slot THEN acc
           ELSE IF hit = {} THEN [acc EXCEPT !.c = CopyToSlot(x, to, k)]
           ELSE [c |-> CopyToSlot(moved, to, k), temp |-> acc.temp + 2]
      done == FoldLeft(Step, [c |-> c, temp |-> MaxFunctionSlots], [j \in 1..n |-> j - 1]).c
  IN [done EXCEPT !.stack = c.stack]

LabelTypes(s) == IF s.op = "loop" THEN s.type.params ELSE s.type.results

\* ResolveBlockResults for scope number k.  When a float result was brought to fp0, endIndex
\* is one less, and so is the first index: the n entries below the result are copied.
ResolveBlockResults(c, k, isBranch) ==
  LET s == c.scopes[k]
      isLoop == s.op = "loop" /\ isBranch
      n == IF isLoop THEN Len(s.type.params) ELSE Len(s.type.results)
      records == s.exit + IF isLoop THEN 0 ELSE Len(s.type.params)
      height == Len(c.stack) - Block(c).base
      inFp == ~isLoop /\ IsFp(TopType(c))
      Copies(d) == IF Failed(d) THEN d
                   ELSE CopyStackSlots(d, records + 1, Len(d.stack) - n + (IF inFp THEN 0 ELSE 1), n)
  IN IF Failed(c) THEN c
     ELSE IF IF isBranch THEN height < n ELSE height # n THEN Fail(c, "typeCountMismatch")
     ELSE IF n = 0 THEN c
     ELSE Copies(IF inFp THEN CopyTopToRegister(c) ELSE c)

\* ReturnValues: the results go to the first cells of the frame
ReturnValues(c, isBranch) ==
  LET n == Len(Results)
      height == Len(c.stack) - Block(c).base
      Seen(d) == Observe(d, TopVals(c, n), [j \in 1..n |-> Held(d, IoSlots * (j - 1), Results[j])])
      Done(d) == IF isBranch THEN d ELSE Pops(d, n)
  IN IF Failed(c) THEN c
     ELSE IF Block(c).poly THEN Done(c)
     ELSE IF IF isBranch THEN height < n ELSE height # n THEN Fail(c, "typeCountMismatch")
     ELSE Done(Seen(FoldLeft(LAMBDA x, j : CopyToSlot(x, IoSlots * (n - j), Len(c.stack) - j + 1),
                             c, [j \in 1..n |-> j])))

\* locals and operands in use: what lies between a scope's exit and its base are records
Operands(c) ==
  {i \in 1..Len(c.stack) : \A k \in 2..Len(c.scopes) : ~(c.scopes[k].exit < i /\ i <= c.scopes[k].base)}
Under(c, n) == [i \in Operands(c) \cap 1..n |-> c.stack[i].val]
Kept(c, n) == [i \in Operands(c) \cap 1..n |-> HeldAt(c, i)]

\* the execution goes to scope k: a loop starts again, another block ends
Jump(c, k) ==
  LET s == c.scopes[k]
      n == Len(LabelTypes(s))
      landing == [j \in 1..n |-> HeldAt(c, s.exit + j)]
  IN IF ~Running(c) \/ Failed(c) THEN c
     ELSE IF k = 1 THEN [c EXCEPT !.path = Gone]
     ELSE IF s.op = "loop"
          THEN [Observe(Observe(c, TopVals(c, n), landing), Under(c, s.exit), Kept(c, s.exit))
                  EXCEPT !.path = Gone]
     ELSE [c EXCEPT !.path = ToEnd(k), !.carry = TopVals(c, n)]

\* the code of a branch to scope k, on the way that leaves the straight line
BranchCode(c, k) ==
  IF Block(c).poly /\ c.scopes[k].op # "loop" THEN c
  ELSE Jump(IF k = 1 THEN ReturnValues(c, TRUE) ELSE ResolveBlockResults(c, k, TRUE), k)

\* code compiled for a way the execution does not take
Aside(c) == [c EXCEPT !.path = IF Running(c) THEN Gone ELSE @]
Back(d, c) == [d EXCEPT !.path = c.path]

-----------------------------------------------------------------------------
(* Entering and leaving a block *)

\* CompileBlock up to its statements.  The parameters are popped and kept as records, the
\* results are allocated and popped to record where they will land, then the parameters are
\* pushed again over the records.  CompileBlock ignores that the results may not fit: it then
\* goes on with records that are not there.
Enter(c, t, op) ==
  LET n == Len(t.params)
      Popped == IF op = "else" THEN [c EXCEPT !.stack = SubSeq(@, 1, Len(@) - n)]
                ELSE FoldLeft(LAMBDA x, y : PopType(x, y), c, Reverse(t.params))
      Param(x, j, exit) ==
        LET e == IF exit + j \in DOMAIN x.stack THEN x.stack[exit + j] ELSE [slot |-> Unused, val |-> Junk]
            d == Push(x, t.params[j], e.slot, e.val)
        IN IF e.slot >= c.dyn THEN Mark(d, e.slot, t.params[j]) ELSE d
      Open(results, exit) ==
        [Pops(results, Len(t.results)) EXCEPT
           !.stack = results.stack,
           !.scopes = Append(@, [op |-> op, type |-> t, exit |-> exit, base |-> Len(results.stack),
                                 entry |-> Len(c.stack), poly |-> Block(c).poly])]
      Begin(results, exit) ==
        IF Failed(results) THEN Fail(c, "wild")
        ELSE FoldLeft(LAMBDA x, j : Param(x, j, exit), Open(results, exit), [j \in 1..n |-> j])
      Records(p) ==
        IF Failed(p) THEN p ELSE Begin(PushBlockResults([p EXCEPT !.stack = c.stack], t), Len(p.stack))
  IN IF Failed(c) THEN c ELSE Records(Popped)

\* the end of CompileBlock; whether the block's results are pushed depends on its opcode and
\* on the opcode that ended it
Leave(c, next) ==
  LET k == Len(c.scopes)
      s == Block(c)
      Carried(r) == IF ~Running(r) THEN r
                    ELSE [r EXCEPT !.path = ToEnd(k), !.carry = TopVals(c, Len(s.type.results))]
      Landed(u) == IF s.op = "if" \/ next = "else" THEN u
                   ELSE PushBlockResults([u EXCEPT !.stack = SubSeq(@, 1, s.exit)], s.type)
      Closed(v) == IF Failed(v) THEN v ELSE [v EXCEPT !.scopes = Front(@)]
  IN IF Failed(c) THEN c
     ELSE Closed(Landed(Unwind(Carried(IF s.poly THEN c ELSE ResolveBlockResults(c, k, FALSE)))))

\* the execution is here again, the results of the block being the ones it carries
Arrive(c, k) ==
  LET n == Len(c.carry)
  IN IF c.path # ToEnd(k) \/ Failed(c) THEN c
     ELSE [c EXCEPT !.path = Here, !.carry = <<>>,
             !.stack = [i \in DOMAIN @ |-> IF i > Len(@) - n
                                           THEN [@[i] EXCEPT !.val = c.carry[i - (Len(c.stack) - n)]]
                                           ELSE @[i]]]

-----------------------------------------------------------------------------
(* The instructions *)

\* operands an instruction may take: those of its block, any in dead code
Has(c, ts) ==
  \A j \in DOMAIN ts :
    LET i == Len(c.stack) - Len(ts) + j
    IN IF i > Block(c).base THEN c.stack[i].type = ts[j] ELSE Block(c).poly

\* the result of an operation that reads the n topmost operands where c keeps them
Result(c, n) ==
  IF Running(c) /\ TopHeld(c, n) = TopVals(c, n) THEN Fresh(c) ELSE Junk
Used(c, n) == Observe(c, TopVals(c, n), TopHeld(c, n))

\* PushConst: a constant has one slot of the table, which op_Entry fills; when the table is
\* full an operation puts the value in a slot
PushConst(c, k) ==
  LET w == Width(k.type)
      table == c.const0 .. c.maxConst - w
      same == {s \in table : (s - Align(c.const0, k.type)) % w = 0 /\ s >= Align(c.const0, k.type)
                             /\ \A x \in Cells(s, k.type) : c.count[x] > 0 /\ c.consts[x] = k.id}
      free == FreeSlots(c, k.type, c.const0, Min({c.dyn, c.const0 + MaxConstantTableSize}))
      s == Min(free)
      d == Mark(c, s, k.type)
  IN IF same # {} THEN Push(c, k.type, Min(same), k.id)
     ELSE IF free = {} THEN PushAllocatedSlotAndEmit(c, k.type, k.id)
     ELSE Push([d EXCEPT !.consts = Filled(c.consts, Cells(s, k.type), k.id),
                         !.mem = Filled(c.mem, Cells(s, k.type), k.id),
                         !.maxConst = Max({@, s + w})],
               k.type, s, k.id)

GetLocal(c, i) == Push(c, c.stack[i].type, c.stack[i].slot, c.stack[i].val)

\* Mutant of SetLocal: the local is written where it is, the operands that name it stay.
SetLocalInPlace(c, i, tee) ==
  LET e == CopyToSlot(c, c.stack[i].slot, Len(c.stack))
      f == IF Running(c) THEN [e EXCEPT !.stack[i].val = Last(c.stack).val] ELSE e
  IN IF tee THEN f ELSE Pop(f)

\* Compile_SetLocal: operands that name the local get its old value, then it is set
SetLocal(c, i, tee) ==
  LET Written(d) == CopyToSlot(d, c.stack[i].slot, Len(d.stack))
      Set(d) == IF Running(c) THEN [d EXCEPT !.stack[i].val = Last(c.stack).val] ELSE d
      Done(d) == IF tee THEN d ELSE Pop(d)
  IN Done(Set(Written(Preserve(c, i))))

GetGlobal(c, t) == PushAllocatedSlotAndEmit(c, t, New(c))
SetGlobal(c) == Pop(Used(c, 1))

\* Compile_Operator: the register the result needs is freed unless an operand is in it
Operator(c, ins, out) ==
  LET n == Len(ins)
      InReg(a) == TopInRegister(a, 0) \/ (n = 2 /\ TopInRegister(a, 1))
      Freed(a) == IF InReg(a) THEN a ELSE PreserveRegister(a, out)
      Emit(b) == IF out = "none" THEN Pops(Used(b, n), n) ELSE ResultInRegister(Pops(b, n), out, Result(b, n))
  IN Emit(Freed(IF IsFp(TopType(c)) /\ out \in {"i32", "i64"} THEN PreserveRegister(c, out) ELSE c))

\* Compile_Load_Store
Load(c, t) == Operator(IF IsFp(t) THEN PreserveRegister(c, "f64") ELSE c, <<"i32">>, t)

\* Compile_Convert: a result whose register is taken goes to a slot
Convert(c, to) ==
  LET d == Pop(c)
  IN IF c.reg[RegisterFor(to)] # 0 THEN PushAllocatedSlotAndEmit(d, to, Result(c, 1))
     ELSE ResultInRegister(d, to, Result(c, 1))

\* Compile_Select: operand, operand, selector
Select(c) ==
  LET t == TypeFromTop(c, 1)
      kept == IF IsFp(t) THEN {1, 2} ELSE {0, 1, 2}
      Emit(a) == ResultInRegister(IF t = "none" THEN a ELSE Pops(a, 3), t, Result(a, 3))
  IN Emit(IF t = "none" \/ \E k \in kept : TopInRegister(c, k) THEN c ELSE PreserveRegister(c, t))

Grown(c) == ResultInRegister(c, "i32", New(c))
MemorySize(c) == Grown(PreserveRegister(c, "i32"))

\* what is read from r0 once the top of the stack was copied there
Condition(c, a) == Observe(a, Last(c.stack).val, a.regs[R0])

MemoryGrow(c) == Grown(PopType(Condition(c, CopyTopToRegister(c)), "i32"))

\* Compile_Memory_CopyFill
MemoryCopyFill(c) ==
  Pops(PopType(Used(Condition(c, CopyTopToRegister(c)), 3), "i32"), 2)

\* CompileCallArgsAndReturn: the callee's frame starts above every slot in use
Call(c, t, indirect) ==
  LET n == Len(t.params)
      Index(a) == IF a.stack = <<>> THEN [slot |-> Unused, val |-> Junk] ELSE Last(a.stack)
      Arg(x, j, top) == Pop(CopyToSlot(x, top + IoSlots * (Len(t.results) + n - j), Len(x.stack)))
      Checked(b, args, top, index) ==
        LET at(j) == Held(args, top + IoSlots * (Len(t.results) + j - 1), t.params[j])
        IN Observe(Observe(args, TopVals(b, n), [j \in 1..n |-> at(j)]),
                   IF indirect THEN index.val ELSE Junk,
                   IF indirect THEN Held(args, index.slot, "i32") ELSE Junk)
      Called(x, top) ==
        IF Running(x) THEN [x EXCEPT !.mem = Filled(x.mem, top .. MaxFunctionSlots + Frame - 1, Junk)] ELSE x
      Put(x, j, s, v) == Store(Mark(Push(x, t.results[j], s, v), s, t.results[j]), s, t.results[j], v)
      Answered(x, top) ==
        FoldLeft(LAMBDA y, j : Put(y, j, top + IoSlots * (j - 1), New(y)), x, [j \in 1..Len(t.results) |-> j])
      Code(b, top, index) ==
        Answered(Called(Checked(b, FoldLeft(LAMBDA x, j : Arg(x, j, top), b, [j \in 1..n |-> j]), top, index), top), top)
      From(a) == Code(IF indirect THEN Pop(a) ELSE a, Align(Max({1, MaxUsedSlotPlusOne(a)}), "i64"), Index(a))
  IN From(IF indirect /\ TopInRegister(c, 0) THEN PreserveRegister(c, "i32") ELSE c)

\* Compile_LoopOrBlock: operands leave the registers, those that name locals get slots, and
\* so do the constants among a loop's parameters
Open(c, t, op) ==
  LET n == Len(t.params)
      ToSlot(x, i, s) == [CopyToSlot(Mark(x, s, x.stack[i].type), s, i) EXCEPT !.stack[i].slot = s]
      Instantiate(x, i) ==
        LET e == x.stack[i]
        IN IF Failed(x) \/ i <= Block(x).base \/ ~(x.const0 <= e.slot /\ e.slot < x.maxConst) THEN x
           ELSE IF HasSlot(x, e.type) THEN ToSlot(x, i, SlotFor(x, e.type))
           ELSE Fail(x, "functionStackOverflow")
      Params(a) == FoldLeft(LAMBDA x, j : Instantiate(x, Len(a.stack) - n + j), a, [j \in 1..n |-> j])
      Ready(a) == IF op = "loop" THEN Params(a) ELSE a
  IN Enter(Ready(PreserveArgsAndLocals(PreserveRegisters(c))), t, op)

\* Compile_If; then: the execution takes the first of the two ways
If(c, t, then) ==
  LET Way(b) == IF then \/ ~Running(b) THEN b ELSE [b EXCEPT !.path = ToElse(Len(b.scopes) + 1)]
  IN Enter(Way(Pop(Used(PreserveArgsAndLocals(PreserveNonTopRegisters(c)), 1))), t, "if")

\* CompileElseBlock, entered from the stack the if block was entered from
Else(c) ==
  LET s == Block(c)
      Again(a) == [a EXCEPT !.stack = SubSeq(@, 1, s.entry),
                            !.path = IF @ = ToElse(Len(c.scopes)) THEN Here ELSE @]
  IN Enter(Again(Leave(c, "else")), s.type, "else")

\* the end of a block; an if with results and no else gets an empty else block
End(c) ==
  LET k == Len(c.scopes)
      s == Block(c)
      Resumed(a) == [a EXCEPT !.path = IF @ = ToElse(k) THEN Here ELSE @]
  IN Arrive(Resumed(Leave(IF s.op = "if" /\ s.type.results # <<>> THEN Else(c) ELSE c, "end")), k)

\* Compile_Branch
Br(c, k) ==
  IF c.scopes[k].op = "loop"
  THEN [Jump(c, k) EXCEPT !.scopes[Len(c.scopes)].poly = TRUE]
  ELSE SetPolymorphic(BranchCode(c, k))

\* br_if: the copies a taken branch needs are jumped over when it is not taken
BrIf(c, k, taken) ==
  LET s == c.scopes[k]
      plain == LabelTypes(s) = <<>> /\ k # 1
      Way(a) == IF plain THEN IF taken THEN Jump(a, k) ELSE a
                ELSE IF taken THEN BranchCode(a, k) ELSE Back(BranchCode(Aside(a), k), a)
  IN Way(IF s.op = "loop" /\ plain THEN PopType(Condition(c, CopyTopToRegister(c)), "i32")
         ELSE Pop(Used(c, 1)))

\* Compile_BranchTable: the branch to each target is compiled apart, one of them is taken
BrTable(c, targets, taken) ==
  LET Target(x, j) ==
        IF j = taken THEN BranchCode(x, targets[j])
        ELSE Back(BranchCode(Aside(x), targets[j]), x)
      Operand(a) == Pop(Used(a, 1))
  IN SetPolymorphic(FoldLeft(Target, Operand(PreserveRegister(c, "i64")), [j \in DOMAIN targets |-> j]))

Return(c) ==
  IF Block(c).poly THEN c ELSE SetPolymorphic(Jump(ReturnValues(c, TRUE), 1))

Unreachable(c) == SetPolymorphic([c EXCEPT !.path = IF Running(c) THEN Gone ELSE @])

-----------------------------------------------------------------------------
(* The function *)

\* the same state with its computed values renumbered in the order they are met
Renumber(c) ==
  LET met == [i \in DOMAIN c.stack |-> c.stack[i].val] \o c.carry
               \o [s \in 1..MaxFunctionSlots |-> c.mem[s - 1]] \o <<c.regs[R0], c.regs[Fp0]>>
      first == {i \in DOMAIN met : met[i] > Cardinality(Consts) /\ \A j \in 1 .. i - 1 : met[j] # met[i]}
      name == [v \in {met[i] : i \in first} |->
                 Cardinality(Consts) + Cardinality({i \in first : \E k \in i..Len(met) : met[k] = v /\ k \in first})]
      Name(v) == IF v \in DOMAIN name THEN name[v] ELSE v
  IN [c EXCEPT !.stack = [i \in DOMAIN @ |-> [@[i] EXCEPT !.val = Name(@)]],
               !.carry = [i \in DOMAIN @ |-> Name(@[i])],
               !.mem = [s \in Memory |-> Name(@[s])],
               !.regs = [r \in Registers |-> Name(@[r])]]

\* what no operand refers to is forgotten: reading it gives Junk.  An execution on its way to
\* the end or the else of scope k keeps what was there before the block, and its records.
Tidy(c) ==
  LET live == CASE Running(c) -> Operands(c)
                [] c.path = Gone -> {}
                [] OTHER -> LET s == c.scopes[c.path[2]]
                            IN {i \in 1..s.base : i > s.exit \/ i \in Operands(c)}
      places == {c.stack[i].slot : i \in live}
      cells == UNION {Cells(c.stack[i].slot, c.stack[i].type) : i \in live}
                 \cup {s \in c.const0 .. c.maxConst - 1 : c.count[s] > 0}
  IN [c EXCEPT !.mem = [s \in Memory |-> IF s \in cells THEN @[s] ELSE Junk],
               !.regs = [r \in Registers |-> IF r \in places THEN @[r] ELSE Junk],
               !.stack = [i \in DOMAIN @ |-> IF i \in live THEN @[i] ELSE [@[i] EXCEPT !.val = Junk]]]

\* CompileFunction up to the first instruction
Start ==
  LET returns == IoSlots * Len(Results)
      empty == [stack |-> <<>>, count |-> [s \in Slots |-> IF s < returns THEN 1 ELSE 0],
                reg |-> [r \in Registers |-> 0],
                scopes |-> <<[op |-> "function", type |-> [params |-> Args, results |-> Results],
                              exit |-> 0, base |-> 0, entry |-> 0, poly |-> FALSE]>>,
                dyn |-> returns, first |-> 0, const0 |-> 0, maxConst |-> 0,
                consts |-> [s \in Slots |-> Junk], mem |-> [s \in Memory |-> Junk],
                regs |-> [r \in Registers |-> Junk], path |-> Here, carry |-> <<>>,
                wrong |-> FALSE, result |-> "none"]
      Given(c, ts, io) ==
        FoldLeft(LAMBDA x, t : [PushAllocatedSlotAndEmit(x, t, New(x)) EXCEPT !.dyn = @ + io], c, ts)
      Ready(c, top) ==
        [c EXCEPT !.const0 = top, !.maxConst = top, !.dyn = top + Align(ConstSlots, "i64"),
                  !.first = Len(c.stack), !.scopes[1].base = Len(c.stack)]
      Reserved(c) ==
        IF Failed(c) \/ c.dyn < MaxFunctionSlots THEN c ELSE Fail(c, "functionStackOverflow")
      WithLocals(c) == Reserved(Ready(c, MaxUsedSlotPlusOne(c)))
  IN WithLocals(Given(Given(empty, Args, IoSlots), Locals, 0))

Init == o = Start

\* the compilation of a function ends, or goes on with the next instruction
Compile(c) ==
  /\ ~Failed(o)
  /\ Block(c).poly => Len(c.stack) - Block(c).base <= MaxDead
  /\ o' = IF Failed(c) THEN [Start EXCEPT !.result = c.result, !.wrong = c.wrong] ELSE Renumber(Tidy(c))

\* the results of a block are on the stack, and nothing else
Complete(c) ==
  Block(c).poly \/ [j \in 1 .. Len(c.stack) - Block(c).base |-> c.stack[Block(c).base + j].type]
                     = Block(c).type.results
CanOpen(c, ts) == Has(c, ts) /\ Len(c.scopes) < MaxDepth
Scopes == 1..Len(o.scopes)

Compile_Const == \E k \in Consts : Compile(PushConst(o, k))
Compile_GetLocal == \E i \in 1..NumLocals : Compile(GetLocal(o, i))
Compile_SetLocal ==
  \E i \in 1..NumLocals, tee \in BOOLEAN : Has(o, <<o.stack[i].type>>) /\ Compile(SetLocal(o, i, tee))
Compile_GetGlobal == \E t \in Globals : Compile(GetGlobal(o, t))
Compile_SetGlobal == \E t \in Globals : Has(o, <<t>>) /\ Compile(SetGlobal(o))
Compile_Drop == Compile(Pop(o))
Compile_Operator == \E f \in Operators : Has(o, f.ins) /\ Compile(Operator(o, f.ins, f.out))
Compile_Load == \E t \in Globals : Has(o, <<"i32">>) /\ Compile(Load(o, t))
Compile_Convert == \E f \in Conversions : Has(o, <<f.from>>) /\ Compile(Convert(o, f.to))
Compile_Select ==
  \E t \in Globals : Has(o, <<t, t, "i32">>) /\ Compile(Select(o))
Compile_Memory_Size == Compile(MemorySize(o))
Compile_Memory_Grow == Has(o, <<"i32">>) /\ Compile(MemoryGrow(o))
Compile_Memory_CopyFill == Has(o, <<"i32", "i32", "i32">>) /\ Compile(MemoryCopyFill(o))
Compile_Call == \E t \in CallTypes : Has(o, t.params) /\ Compile(Call(o, t, FALSE))
Compile_CallIndirect ==
  \E t \in CallTypes : Has(o, Append(t.params, "i32")) /\ Compile(Call(o, t, TRUE))
Compile_LoopOrBlock ==
  \E t \in BlockTypes, op \in {"loop", "block"} : CanOpen(o, t.params) /\ Compile(Open(o, t, op))
Compile_If ==
  \E t \in BlockTypes, then \in BOOLEAN :
    CanOpen(o, Append(t.params, "i32")) /\ Compile(If(o, t, then))
Compile_Else == Block(o).op = "if" /\ Complete(o) /\ Compile(Else(o))
Compile_End ==
  /\ Complete(o)
  /\ Len(o.scopes) > 1
  /\ Block(o).op = "if" => Block(o).type.params = Block(o).type.results
  /\ Compile(End(o))
Compile_FunctionEnd ==
  /\ Complete(o)
  /\ Len(o.scopes) = 1
  /\ Compile([ReturnValues(o, FALSE) EXCEPT !.path = Gone, !.result = IF @ = "none" THEN "compiled" ELSE @])
Compile_Branch ==
  \E k \in Scopes : Has(o, LabelTypes(o.scopes[k])) /\ Compile(Br(o, k))
Compile_BranchIf ==
  \E k \in Scopes, taken \in BOOLEAN :
    /\ LabelTypes(o.scopes[k]) \in CondLabels
    /\ Has(o, Append(LabelTypes(o.scopes[k]), "i32"))
    /\ Compile(BrIf(o, k, taken))
Compile_BranchTable ==
  \E k, l \in Scopes, taken \in {1, 2} :
    /\ LabelTypes(o.scopes[k]) = LabelTypes(o.scopes[l])
    /\ LabelTypes(o.scopes[k]) \in CondLabels
    /\ Has(o, Append(LabelTypes(o.scopes[k]), "i32"))
    /\ Compile(BrTable(o, <<k, l>>, taken))
Compile_Return == Has(o, Results) /\ Compile(Return(o))
Compile_Unreachable == Compile(Unreachable(o))

Next ==
  \/ Compile_Const \/ Compile_GetLocal \/ Compile_SetLocal \/ Compile_GetGlobal \/ Compile_SetGlobal
  \/ Compile_Drop \/ Compile_Operator \/ Compile_Load \/ Compile_Convert \/ Compile_Select
  \/ Compile_Memory_Size \/ Compile_Memory_Grow \/ Compile_Memory_CopyFill
  \/ Compile_Call \/ Compile_CallIndirect
  \/ Compile_LoopOrBlock \/ Compile_If \/ Compile_Else \/ Compile_End \/ Compile_FunctionEnd
  \/ Compile_Branch \/ Compile_BranchIf \/ Compile_BranchTable \/ Compile_Return \/ Compile_Unreachable

Spec == Init /\ [][Next]_o

-----------------------------------------------------------------------------
(* Properties *)

\* What the proofs ask of the function that is compiled.  Its blocks have no parameters, as in
\* the first version of WebAssembly.
NoParams == \A t \in BlockTypes : t.params = <<>>

\* An operator takes one or two operands (Compile_Operator, m3_compile.c:2011).  Those of one
\* with a result are all integers or all floats, and integers give no float: that is a conversion.
OperatorsFit ==
  \A f \in Operators :
    /\ f.ins \in Seq(ValueType) /\ Len(f.ins) \in 1..2
    /\ f.out # "none" => /\ f.out \in ValueType
                         /\ \A j \in 1..Len(f.ins) : /\ IsFp(f.ins[j]) <=> IsFp(Last(f.ins))
                                                     /\ IsFp(f.out) => IsFp(f.ins[j])

\* Every operand has a place the frame has, counts are bytes, and the stack of m3_compile.h
\* (M3Compilation.wasmStack) is never written past its end.
TypeOK ==
  /\ \A i \in DOMAIN o.stack : o.stack[i].slot \in Slots \cup Registers \cup {Unused}
  /\ o.count \in [Slots -> 0..MaxUsage]
  /\ Len(o.stack) <= MaxStackHeight
  /\ o.path \in {Here, Gone} \cup {<<w, k>> : w \in {"end", "else"}, k \in 2..MaxDepth}

\* The compiled code computes what the Wasm code means: wherever an execution of the compiled
\* code is, the slot or register the compiler keeps for a local or an operand holds its value;
\* and every value the code has taken from there (operands of a store or a call, conditions,
\* results of a block or of the function) was the right one.
ValuesRight ==
  /\ ~o.wrong
  /\ Running(o) /\ ~Failed(o) => \A i \in Operands(o) : HeldAt(o, i) = o.stack[i].val

\* The count of a slot that is given out during the function (m3Slots) is the number of
\* operands in it: it is not reused while one is left, and free once none is.
UsageCounted ==
  ~Failed(o) =>
    \A s \in o.dyn .. MaxFunctionSlots - 1 :
      o.count[s] = Cardinality({i \in Operands(o) : s \in Cells(o.stack[i].slot, o.stack[i].type)})

\* No slot an operand is in is free: DeallocateSlot asserts that a slot it counts down is in
\* use (m3_compile.c:322).
StillAllocated ==
  ~Failed(o) =>
    \A i \in Operands(o) :
      \A s \in Cells(o.stack[i].slot, o.stack[i].type) \cap (o.dyn .. MaxFunctionSlots - 1) : o.count[s] > 0

\* A register belongs to at most one operand, and regStackIndexPlusOne names it: reached code
\* never has two operands in one register, nor a register that is taken for good.
RegistersHeld ==
  ~Failed(o) /\ ~Block(o).poly =>
    \A r \in Registers :
      {i \in Operands(o) : o.stack[i].slot = r} = IF o.reg[r] = 0 THEN {} ELSE {o.reg[r]}

\* Operands from outside a block are in slots while the block is compiled (m3_compile.c:408):
\* the code of a loop, of an else or after a branch finds them where the code before it did.
BlocksStartInSlots ==
  ~Failed(o) /\ ~Block(o).poly =>
    \A r \in Registers, k \in 2..Len(o.scopes) : o.reg[r] # 0 => o.reg[r] > o.scopes[k].base
=============================================================================
