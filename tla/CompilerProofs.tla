--------------------------- MODULE CompilerProofs ---------------------------
(***************************************************************************)
(* Proofs about Compiler, for functions, frames, stacks and constant       *)
(* tables of any size, and operators and calls of any number.              *)
(*                                                                         *)
(* RegistersHeld and BlocksStartInSlots are not inductive: an instruction  *)
(* keeps them because the stack, regStackIndexPlusOne and the blocks fit   *)
(* each other all along.  IInv says how.  The instructions are built from  *)
(* the steps of the compiler, so each step (Push, Pop, Mark, Preserve,     *)
(* Unwind, Enter, Leave, ...) has a lemma, which says that it keeps IInv   *)
(* and what it does to the stack and the registers; a loop in a step is a  *)
(* fold and uses the lemma of Folding.  While a block is opened or ended   *)
(* its scope is not there yet or is there still: Good says that a          *)
(* compilation fits given blocks, Sound that it fits its own.              *)
(*                                                                         *)
(* The two hypotheses of the theorems, NoParams and OperatorsFit, are      *)
(* stated in Compiler.  A compilation that fails keeps nothing: it is      *)
(* dropped, and the next function starts afresh.                           *)
(***************************************************************************)
EXTENDS Compiler, SequenceTheorems, FiniteSetTheorems, WellFoundedInduction, TLAPS

\* The globals of the module have value types.
LEMMA GlobalTypes == Globals \subseteq ValueType
BY CompilerAssumption

\* The function has the types of its arguments, locals and results.
LEMMA OwnTypes ==
  Args \in Seq(ValueType) /\ Locals \in Seq(ValueType) /\ Results \in Seq(ValueType)
BY CompilerAssumption

\* The constants of the function have a number of slots.
LEMMA ReservedSlots == ConstSlots \in Nat
BY CompilerAssumption

\* The constant table has a size.
LEMMA TableSize ==
  MaxConstantTableSize \in Nat
BY CompilerAssumption

\* What a sequence is, and the fields of the records.
IsSeq(s) == \E S : s \in Seq(S)

CompilationFields ==
  {"stack", "count", "reg", "scopes", "dyn", "first", "const0", "maxConst", "consts", "mem",
   "regs", "path", "carry", "wrong", "result"}
EntryFields == {"slot", "type", "val"}
ScopeFields == {"op", "type", "exit", "base", "entry", "poly"}

InFrame(slot, t) == slot \in Slots /\ slot + Width(t) - 1 \in Slots

\* Every entry of the stack is in the frame or in the register of its type; the locals are
\* below the constants, and what is in the slot of a local has its type.
StackFits(stack, const0) ==
  /\ IsSeq(stack) /\ NumLocals <= Len(stack) /\ Len(stack) <= MaxStackHeight
  /\ \A i \in 1..Len(stack) :
       /\ DOMAIN stack[i] = EntryFields
       /\ \/ IsRegister(stack[i].slot) /\ stack[i].slot = RegisterFor(stack[i].type)
          \/ InFrame(stack[i].slot, stack[i].type)
  /\ \A i \in 1..NumLocals : stack[i].slot \in Slots /\ stack[i].slot < const0
  /\ \A i \in 1..NumLocals : \A k \in 1..Len(stack) :
       stack[k].slot = stack[i].slot => stack[k].type = stack[i].type

\* A block lies above the blocks around it; code after dead code is dead.
ScopesFit(scopes) ==
  /\ IsSeq(scopes) /\ Len(scopes) \in 1..MaxDepth
  /\ \A k \in 1..Len(scopes) :
       /\ DOMAIN scopes[k] = ScopeFields /\ scopes[k].type \in Signature
       /\ scopes[k].exit \in Nat /\ scopes[k].base \in Nat /\ scopes[k].poly \in BOOLEAN
  /\ scopes[1].op = "function" /\ scopes[1].base = NumLocals
  /\ \A k \in 2..Len(scopes) :
       /\ scopes[k].type \in BlockTypes /\ scopes[k].entry = scopes[k].exit
       /\ scopes[k].base = scopes[k].exit + Len(scopes[k].type.results)
  /\ \A j, k \in 1..Len(scopes) :
       j < k => scopes[j].base <= scopes[k].exit /\ (scopes[j].poly => scopes[k].poly)

\* Not the record of a result; pushed in dead code.
InUse(i, scopes) == \A k \in 2..Len(scopes) : ~(scopes[k].exit < i /\ i <= scopes[k].base)
Dead(i, scopes) == \E k \in 1..Len(scopes) : scopes[k].poly /\ scopes[k].base < i

\* A register that is taken is taken by an operand of the innermost block, which is in it; an
\* operand in a register has taken it, unless it is in dead code.
RegistersFit(stack, reg, scopes) ==
  /\ reg \in [Registers -> Nat]
  /\ \A r \in Registers :
       reg[r] # 0 => Last(scopes).base < reg[r] /\ reg[r] <= Len(stack) /\ stack[reg[r]].slot = r
  /\ \A i \in 1..Len(stack) :
       IsRegister(stack[i].slot) /\ InUse(i, scopes) => reg[stack[i].slot] = i \/ Dead(i, scopes)

Paths == {Here, Gone} \cup {<<w, k>> : w \in {"end", "else"}, k \in 2..MaxDepth}

\* What there is of a compilation fits the blocks "scopes".
FitIn(c, scopes) ==
  /\ StackFits(c.stack, c.const0) /\ ScopesFit(scopes) /\ RegistersFit(c.stack, c.reg, scopes)
  /\ Last(scopes).base <= Len(c.stack)
  /\ c.count \in [Slots -> 0..MaxUsage] /\ c.path \in Paths /\ c.first = NumLocals
  /\ c.const0 \in Nat /\ c.maxConst \in Nat /\ c.dyn \in Slots
  /\ c.const0 <= c.maxConst /\ c.maxConst <= c.dyn

Fit(c) == FitIn(c, c.scopes)

IInv == TypeOK /\ DOMAIN o = CompilationFields /\ (~Failed(o) => Fit(o))
------------------------------------------------------------------------------
(* A compilation and what an operator keeps of it *)

\* The blocks a compilation is in, those it is to fit, and the slots of its frame.
Around(c) == [scopes |-> c.scopes, in |-> c.scopes, dyn |-> c.dyn, const0 |-> c.const0]

\* c has failed or is as it should be around b.
Good(b, c) ==
  /\ DOMAIN c = CompilationFields
  /\ ~Failed(c) => /\ FitIn(c, b.in) /\ c.scopes = b.scopes
                   /\ c.dyn = b.dyn /\ c.const0 = b.const0

\* d differs from c in what the followed execution has.
Same(c, d) ==
  /\ DOMAIN d = DOMAIN c
  /\ d.stack = c.stack /\ d.count = c.count /\ d.reg = c.reg /\ d.scopes = c.scopes
  /\ d.dyn = c.dyn /\ d.first = c.first /\ d.const0 = c.const0 /\ d.maxConst = c.maxConst
  /\ d.path = c.path /\ d.result = c.result

\* What only the followed execution has does not disturb the invariant.
LEMMA SameGood ==
  ASSUME NEW b, NEW c, NEW d, Good(b, c), Same(c, d)
  PROVE  Good(b, d)
BY DEF Good, Same, Failed, FitIn

\* Two such changes in a row are one.
LEMMA SameTrans ==
  ASSUME NEW c, NEW d, NEW e, Same(c, d), Same(d, e)
  PROVE  Same(c, e)
BY DEF Same

\* A failed compilation is as good as any: the function is dropped.
LEMMA Fails ==
  ASSUME NEW b, NEW c, DOMAIN c = CompilationFields, NEW why, why # "none"
  PROVE  Good(b, Fail(c, why)) /\ Failed(Fail(c, why))
BY DEF Good, Fail, Failed, CompilationFields

\* Writing a slot or a register changes what the execution has.
LEMMA StoreSame ==
  ASSUME NEW c, DOMAIN c = CompilationFields, NEW slot, NEW t, NEW v
  PROVE  Same(c, Store(c, slot, t, v))
<1>1. ASSUME NEW x  PROVE Same(c, [c EXCEPT !.mem = x])
  BY DEF Same, CompilationFields
<1>2. ASSUME NEW x  PROVE Same(c, [c EXCEPT !.regs = x])
  BY DEF Same, CompilationFields
<1>3. Same(c, c)
  BY DEF Same
<1>4. CASE ~Running(c) \/ Failed(c)
  BY <1>3, <1>4 DEF Store
<1>5. CASE ~(~Running(c) \/ Failed(c)) /\ IsRegister(slot)
  BY <1>2, <1>5 DEF Store
<1>6. CASE ~(~Running(c) \/ Failed(c)) /\ ~IsRegister(slot)
  BY <1>1, <1>6 DEF Store
<1> QED  BY <1>4, <1>5, <1>6

\* So does comparing what the code has taken with what it should have.
LEMMA ObserveSame ==
  ASSUME NEW c, DOMAIN c = CompilationFields, NEW want, NEW got
  PROVE  Same(c, Observe(c, want, got))
<1>1. Same(c, [c EXCEPT !.wrong = TRUE]) /\ Same(c, c)
  BY DEF Same, CompilationFields
<1> QED  BY <1>1 DEF Observe

\* So does copying an operand to a slot.
LEMMA CopyToSlotSame ==
  ASSUME NEW c, DOMAIN c = CompilationFields, NEW slot, NEW i
  PROVE  Same(c, CopyToSlot(c, slot, i))
<1>1. Same(c, c)
  BY DEF Same
<1> QED  BY <1>1, StoreSame DEF CopyToSlot

\* So does copying the top operand to its register.
LEMMA LoadTopSame ==
  ASSUME NEW c, DOMAIN c = CompilationFields, NEW t
  PROVE  Same(c, LoadTop(c, t))
<1>1. Same(c, c)
  BY DEF Same
<1> QED  BY <1>1, StoreSame DEF LoadTop

------------------------------------------------------------------------------
(* Sequences, least and greatest *)

\* A sequence after Append.
LEMMA Appended ==
  ASSUME NEW s, IsSeq(s), NEW e
  PROVE  /\ IsSeq(Append(s, e)) /\ Len(s) \in Nat /\ Len(Append(s, e)) = Len(s) + 1
         /\ \A i \in 1..Len(s) : Append(s, e)[i] = s[i]
         /\ Append(s, e)[Len(s) + 1] = e /\ Last(Append(s, e)) = e
<1>1. PICK S : s \in Seq(S)
  BY DEF IsSeq
<1>2. s \in Seq(S \cup {e}) /\ e \in S \cup {e}
  BY <1>1
<1>3. /\ Append(s, e) \in Seq(S \cup {e}) /\ Len(s) \in Nat /\ Len(Append(s, e)) = Len(s) + 1
      /\ \A i \in 1..Len(s) : Append(s, e)[i] = s[i]
      /\ Append(s, e)[Len(s) + 1] = e
  BY <1>2
<1> QED  BY <1>3 DEF IsSeq, Last

\* The first entries of a sequence.
LEMMA Cut ==
  ASSUME NEW s, IsSeq(s), NEW n \in Nat, n <= Len(s)
  PROVE  /\ IsSeq(SubSeq(s, 1, n)) /\ Len(s) \in Nat /\ Len(SubSeq(s, 1, n)) = n
         /\ \A i \in 1..n : SubSeq(s, 1, n)[i] = s[i]
<1>1. PICK S : s \in Seq(S)
  BY DEF IsSeq
<1>2. Len(s) \in Nat
  BY <1>1
<1>3. SubSeq(s, 1, n) \in Seq(S) /\ Len(SubSeq(s, 1, n)) = n
      /\ \A i \in 1..n : SubSeq(s, 1, n)[i] = s[i]
  BY <1>1, <1>2
<1> QED  BY <1>2, <1>3 DEF IsSeq

\* All entries of a sequence but the last.
LEMMA FrontOf ==
  ASSUME NEW s, IsSeq(s), Len(s) > 0
  PROVE  /\ IsSeq(Front(s)) /\ Len(s) \in Nat /\ Len(Front(s)) = Len(s) - 1
         /\ \A i \in 1..Len(s) - 1 : Front(s)[i] = s[i]
<1>1. Len(s) \in Nat
  BY DEF IsSeq
<1>2. Front(s) = SubSeq(s, 1, Len(s) - 1) /\ Len(s) - 1 \in Nat /\ Len(s) - 1 <= Len(s)
  BY <1>1 DEF Front
<1>3. /\ IsSeq(SubSeq(s, 1, Len(s) - 1)) /\ Len(SubSeq(s, 1, Len(s) - 1)) = Len(s) - 1
      /\ \A i \in 1..Len(s) - 1 : SubSeq(s, 1, Len(s) - 1)[i] = s[i]
  BY <1>2, Cut
<1> QED  BY <1>1, <1>2, <1>3

\* A function on the same places.
LEMMA OnSamePlaces ==
  ASSUME NEW s, IsSeq(s), NEW f, DOMAIN f = DOMAIN s, f = [i \in DOMAIN f |-> f[i]]
  PROVE  IsSeq(f) /\ Len(f) = Len(s) /\ DOMAIN s = 1..Len(s) /\ Len(s) \in Nat
<1>1. DOMAIN s = 1..Len(s) /\ Len(s) \in Nat
  BY DEF IsSeq
<1> DEFINE S == {f[i] : i \in DOMAIN f}
<1>2. f \in [1..Len(s) -> S]
  BY <1>1
<1>3. f \in Seq(S) /\ Len(f) = Len(s)
  BY <1>1, <1>2
<1> QED  BY <1>1, <1>3 DEF IsSeq

\* A set of numbers has a least one (well-founded induction on Nat).
LEMMA Least ==
  ASSUME NEW S \in SUBSET Nat, S # {}
  PROVE  \E x \in S : \A y \in S : ~(y < x)
<1> DEFINE R == {ss \in Nat \X Nat : ss[1] < ss[2]}
<1>1. IsWellFoundedOn(R, Nat)
  BY NatLessThanWellFounded DEF OpToRel
<1>2. \A x, y \in Nat : y < x => <<y, x>> \in R
  OBVIOUS
<1> HIDE DEF R
<1>3. \E x \in S : \A y \in S : ~(<<y, x>> \in R)
  BY <1>1, WFMin
<1> QED  BY <1>2, <1>3

\* Min of a set of numbers is its least element.
LEMMA MinIn ==
  ASSUME NEW S \in SUBSET Nat, S # {}
  PROVE  Min(S) \in S /\ \A x \in S : Min(S) <= x
<1>1. PICK m \in S : \A x \in S : ~(x < m)
  BY Least
<1>2. \A x \in S : m <= x
  BY <1>1
<1> QED  BY <1>2 DEF Min

\* Max of a bounded set of numbers is its greatest element.
LEMMA MaxIn ==
  ASSUME NEW S \in SUBSET Nat, S # {}, NEW bound \in Nat, \A x \in S : x <= bound
  PROVE  Max(S) \in S /\ \A x \in S : x <= Max(S)
<1> DEFINE T == {bound - x : x \in S}
<1>1. T \in SUBSET Nat /\ T # {}
  <2>1. \A x \in S : bound - x \in Nat
    <3>1. ASSUME NEW x \in S PROVE x \in Nat /\ x <= bound
      OBVIOUS
    <3>2. ASSUME NEW x \in S PROVE bound - x \in Nat
      BY <3>1
    <3> QED  BY <3>2
  <2>2. T \subseteq Nat
    BY <2>1
  <2>3. PICK x \in S : TRUE
    OBVIOUS
  <2>4. bound - x \in T
    BY <2>3
  <2> QED  BY <2>2, <2>4
<1>2. PICK m \in S : bound - m = Min(T)
  BY <1>1, MinIn
<1>3. \A x \in S : Min(T) <= bound - x
  BY <1>1, MinIn
<1>4. \A x \in S : m >= x
  BY <1>2, <1>3
<1> QED  BY <1>4 DEF Max

\* Max of a number and 0.
LEMMA Pair ==
  ASSUME NEW n \in Nat
  PROVE  Max({0, n}) = n
<1>1. {0, n} \in SUBSET Nat /\ {0, n} # {} /\ \A x \in {0, n} : x <= n
  OBVIOUS
<1>2. Max({0, n}) \in {0, n} /\ \A x \in {0, n} : x <= Max({0, n})
  BY <1>1, MaxIn
<1> QED  BY <1>2

\* What the assumptions on the constants say of frames, stacks and counts.
LEMMA Constants ==
  /\ NumLocals \in Nat /\ MaxFunctionSlots \in Nat \ {0} /\ MaxFunctionSlots < R0
  /\ MaxUsage \in Nat \ {0} /\ MaxDepth \in Nat \ {0} /\ MaxStackHeight \in Nat
  /\ Slots = 0 .. MaxFunctionSlots - 1
  /\ \A s \in Slots : ~IsRegister(s)
<1>1. Args \in Seq(ValueType) /\ Locals \in Seq(ValueType)
  BY CompilerAssumption
<1>2. NumLocals \in Nat
  BY <1>1 DEF NumLocals
<1>3. MaxFunctionSlots \in Nat \ {0} /\ MaxFunctionSlots < R0
  BY CompilerAssumption DEF R0
<1>4. \A s \in Slots : ~IsRegister(s)
  BY <1>3 DEF Slots, IsRegister, Registers, R0, Fp0
<1> QED  BY <1>2, <1>3, <1>4, CompilerAssumption DEF Slots

\* Values are one or two slots wide, and alignment moves a slot up by one at most.
LEMMA Widths ==
  ASSUME NEW t
  PROVE  /\ Width(t) \in {1, 2} /\ RegisterFor(t) \in Registers /\ IsRegister(RegisterFor(t))
         /\ \A s \in Nat : Align(s, t) \in Nat /\ s <= Align(s, t) /\ Align(s, t) <= s + 1
         /\ \A s \in Nat : s \in Cells(s, t) /\ (Cells(s, t) \subseteq Slots => InFrame(s, t))
<1>1. Width(t) \in {1, 2} /\ RegisterFor(t) \in Registers /\ IsRegister(RegisterFor(t))
  BY DEF Width, RegisterFor, Registers, IsRegister
<1>2. ASSUME NEW s \in Nat  PROVE Align(s, t) \in Nat /\ s <= Align(s, t) /\ Align(s, t) <= s + 1
  BY DEF Align
<1>3. ASSUME NEW s \in Nat  PROVE s \in Cells(s, t) /\ (Cells(s, t) \subseteq Slots => InFrame(s, t))
  BY <1>1 DEF Cells, InFrame
<1> QED  BY <1>1, <1>2, <1>3

------------------------------------------------------------------------------
(* What an operation does to the stack, the registers and the blocks *)

\* The innermost block lies above all others, and is dead if any of them is.
LEMMA ScopeFacts ==
  ASSUME NEW scopes, ScopesFit(scopes)
  PROVE  /\ Len(scopes) \in Nat \ {0} /\ Last(scopes) = scopes[Len(scopes)]
         /\ Last(scopes).base \in Nat /\ NumLocals <= Last(scopes).base
         /\ Last(scopes).poly \in BOOLEAN /\ Last(scopes).type \in Signature
         /\ \A k \in 1..Len(scopes) : scopes[k].base <= Last(scopes).base
         /\ \A i : Dead(i, scopes) => Last(scopes).poly
         /\ \A i \in Nat : Last(scopes).base < i =>
              InUse(i, scopes) /\ (Last(scopes).poly => Dead(i, scopes))
<1>1. Len(scopes) \in Nat \ {0}
  BY Constants DEF ScopesFit
<1>2. Last(scopes) = scopes[Len(scopes)] /\ Len(scopes) \in 1..Len(scopes)
  BY <1>1 DEF Last
<1>3. /\ Last(scopes).base \in Nat /\ Last(scopes).poly \in BOOLEAN
      /\ Last(scopes).type \in Signature
  BY <1>2 DEF ScopesFit
<1>4. ASSUME NEW k \in 1..Len(scopes)
      PROVE  /\ scopes[k].base \in Nat /\ scopes[k].base <= Last(scopes).base
             /\ (scopes[k].poly => Last(scopes).poly)
  <2>1. CASE k = Len(scopes)
    BY <1>2, <1>3, <2>1
  <2>2. CASE k # Len(scopes)
    <3>1. k < Len(scopes) /\ k \in 1..Len(scopes) /\ Len(scopes) \in 1..Len(scopes)
      BY <1>1, <1>2, <2>2
    <3>2. /\ scopes[k].base <= scopes[Len(scopes)].exit
          /\ scopes[k].poly => scopes[Len(scopes)].poly
      BY <3>1 DEF ScopesFit
    <3>3. Len(scopes) \in 2..Len(scopes)
      BY <3>1
    <3>4. /\ scopes[Len(scopes)].base =
               scopes[Len(scopes)].exit + Len(scopes[Len(scopes)].type.results)
          /\ scopes[Len(scopes)].exit \in Nat /\ scopes[k].base \in Nat
          /\ scopes[Len(scopes)].type \in Signature
      BY <3>1, <3>3 DEF ScopesFit
    <3>5. Len(scopes[Len(scopes)].type.results) \in Nat
      BY <3>4 DEF Signature
    <3> QED  BY <1>2, <3>2, <3>4, <3>5
  <2> QED  BY <2>1, <2>2
<1>5. NumLocals <= Last(scopes).base
  <2>1. scopes[1].base = NumLocals /\ 1 \in 1..Len(scopes)
    BY <1>1 DEF ScopesFit
  <2> QED  BY <1>4, <2>1
<1>6. ASSUME NEW i \in Nat, Last(scopes).base < i
      PROVE  InUse(i, scopes) /\ (Last(scopes).poly => Dead(i, scopes))
  <2>1. \A k \in 2..Len(scopes) : scopes[k].base < i /\ scopes[k].base \in Nat
    BY <1>1, <1>3, <1>4, <1>6
  <2>2. InUse(i, scopes)
    BY <2>1 DEF InUse
  <2> QED  BY <1>2, <1>6, <2>2 DEF Dead
<1>7. \A i : Dead(i, scopes) => Last(scopes).poly
  BY <1>4 DEF Dead
<1> QED  BY <1>1, <1>2, <1>3, <1>4, <1>5, <1>6, <1>7

\* A place an entry of the type may be in.
PlaceFits(stack, slot, t) ==
  /\ (IsRegister(slot) /\ slot = RegisterFor(t)) \/ InFrame(slot, t)
  /\ \A i \in 1..NumLocals : stack[i].slot = slot => stack[i].type = t

\* Push keeps the stack in the frame (m3_compile.c, Push).
LEMMA StackPushed ==
  ASSUME NEW stack, NEW const0, StackFits(stack, const0), Len(stack) < MaxStackHeight,
         NEW e, DOMAIN e = EntryFields, PlaceFits(stack, e.slot, e.type)
  PROVE  StackFits(Append(stack, e), const0)
<1> DEFINE s == Append(stack, e)
<1>1. /\ IsSeq(s) /\ Len(stack) \in Nat /\ Len(s) = Len(stack) + 1
      /\ \A i \in 1..Len(stack) : s[i] = stack[i]
      /\ s[Len(stack) + 1] = e
  BY Appended DEF StackFits
<1> HIDE DEF s
<1>2. NumLocals <= Len(stack) /\ NumLocals \in Nat /\ MaxStackHeight \in Nat
  BY Constants DEF StackFits
<1>3. ASSUME NEW i \in 1..Len(s)  PROVE i \in 1..Len(stack) \/ (i = Len(stack) + 1 /\ s[i] = e)
  BY <1>1
<1>4. NumLocals <= Len(s) /\ Len(s) <= MaxStackHeight
  BY <1>1, <1>2
<1>5. \A i \in 1..Len(s) :
        /\ DOMAIN s[i] = EntryFields
        /\ \/ IsRegister(s[i].slot) /\ s[i].slot = RegisterFor(s[i].type)
           \/ InFrame(s[i].slot, s[i].type)
  BY <1>1, <1>3 DEF StackFits, PlaceFits
<1>6. \A i \in 1..NumLocals : s[i] = stack[i]
  BY <1>1, <1>2
<1>7. \A i \in 1..NumLocals : s[i].slot \in Slots /\ s[i].slot < const0
  BY <1>6 DEF StackFits
<1>8. \A i \in 1..NumLocals : \A k \in 1..Len(s) : s[k].slot = s[i].slot => s[k].type = s[i].type
  BY <1>1, <1>3, <1>6 DEF StackFits, PlaceFits
<1>9. StackFits(s, const0)
  BY <1>1, <1>4, <1>5, <1>7, <1>8 DEF StackFits
<1> QED  BY <1>9 DEF s

\* Entries above the locals that go to places of the frame.
LEMMA StackMoved ==
  ASSUME NEW stack, NEW const0 \in Nat, StackFits(stack, const0),
         NEW s, IsSeq(s), Len(s) = Len(stack),
         \A i \in 1..Len(stack) :
           /\ DOMAIN s[i] = EntryFields /\ s[i].type = stack[i].type
           /\ \/ s[i].slot = stack[i].slot
              \/ i > NumLocals /\ InFrame(s[i].slot, s[i].type) /\ const0 <= s[i].slot
  PROVE  StackFits(s, const0)
<1>1. NumLocals <= Len(stack) /\ NumLocals \in Nat /\ Len(stack) \in Nat
  BY Constants DEF StackFits, IsSeq
<1>2. \A i \in 1..NumLocals :
        /\ s[i].slot = stack[i].slot /\ s[i].type = stack[i].type
        /\ s[i].slot \in Nat /\ s[i].slot < const0
  BY <1>1, Constants DEF StackFits
<1>3. \A i \in 1..NumLocals : \A k \in 1..Len(s) : s[k].slot = s[i].slot => s[k].type = s[i].type
  <2> SUFFICES ASSUME NEW i \in 1..NumLocals, NEW k \in 1..Len(s), s[k].slot = s[i].slot
               PROVE  s[k].type = s[i].type
    OBVIOUS
  <2>1. ~(const0 <= s[k].slot)
    BY <1>2
  <2>2. s[k].slot = stack[k].slot
    BY <2>1
  <2> QED  BY <1>2, <2>2 DEF StackFits
<1>4. \A i \in 1..Len(s) :
        \/ IsRegister(s[i].slot) /\ s[i].slot = RegisterFor(s[i].type)
        \/ InFrame(s[i].slot, s[i].type)
  BY DEF StackFits
<1>5. \A i \in 1..NumLocals : s[i].slot \in Slots /\ s[i].slot < const0
  BY <1>1, <1>2 DEF StackFits
<1> QED  BY <1>1, <1>3, <1>4, <1>5 DEF StackFits

\* What is left of a stack fits if the locals are left.
LEMMA StackCut ==
  ASSUME NEW stack, NEW const0, StackFits(stack, const0),
         NEW s, IsSeq(s), Len(s) <= Len(stack), NumLocals <= Len(s),
         \A i \in 1..Len(s) : s[i] = stack[i]
  PROVE  StackFits(s, const0)
<1>1. NumLocals \in Nat /\ Len(stack) \in Nat /\ Len(s) \in Nat /\ MaxStackHeight \in Nat
  BY Constants DEF StackFits, IsSeq
<1>2. \A i \in 1..Len(s) : i \in 1..Len(stack) /\ s[i] = stack[i]
  BY <1>1
<1>3. \A i \in 1..NumLocals : i \in 1..Len(stack) /\ s[i] = stack[i]
  BY <1>1, <1>2
<1>4. \A i \in 1..Len(s) :
        /\ DOMAIN s[i] = EntryFields
        /\ \/ IsRegister(s[i].slot) /\ s[i].slot = RegisterFor(s[i].type)
           \/ InFrame(s[i].slot, s[i].type)
  BY <1>2 DEF StackFits
<1>5. \A i \in 1..NumLocals : s[i].slot \in Slots /\ s[i].slot < const0
  BY <1>3 DEF StackFits
<1>6. \A i \in 1..NumLocals : \A k \in 1..Len(s) :
        s[k].slot = s[i].slot => s[k].type = s[i].type
  BY <1>2, <1>3 DEF StackFits
<1>7. Len(s) <= MaxStackHeight
  BY <1>1 DEF StackFits
<1> QED  BY <1>4, <1>5, <1>6, <1>7 DEF StackFits

\* An operand pushed in a slot takes no register.
LEMMA SlotPushed ==
  ASSUME NEW stack, IsSeq(stack), NEW reg, NEW scopes, RegistersFit(stack, reg, scopes),
         NEW e, ~IsRegister(e.slot)
  PROVE  RegistersFit(Append(stack, e), reg, scopes)
<1> DEFINE s == Append(stack, e)
<1>1. /\ IsSeq(s) /\ Len(stack) \in Nat /\ Len(s) = Len(stack) + 1
      /\ \A i \in 1..Len(stack) : s[i] = stack[i]
      /\ s[Len(stack) + 1] = e
  BY Appended
<1> HIDE DEF s
<1>2. \A i \in 1..Len(s) : i \in 1..Len(stack) \/ s[i] = e
  BY <1>1
<1>3. ASSUME NEW r \in Registers, reg[r] # 0
      PROVE  Last(scopes).base < reg[r] /\ reg[r] <= Len(s) /\ s[reg[r]].slot = r
  <2>1. /\ Last(scopes).base < reg[r] /\ reg[r] <= Len(stack) /\ stack[reg[r]].slot = r
        /\ reg[r] \in Nat
    BY <1>3 DEF RegistersFit
  <2> QED  BY <1>1, <1>3, <2>1
<1>4. \A i \in 1..Len(s) : IsRegister(s[i].slot) => i \in 1..Len(stack) /\ s[i] = stack[i]
  BY <1>1, <1>2
<1>5. RegistersFit(s, reg, scopes)
  BY <1>3, <1>4 DEF RegistersFit
<1> QED  BY <1>5 DEF s

\* An operand pushed in a free register takes it.
LEMMA RegisterPushed ==
  ASSUME NEW stack, IsSeq(stack), NEW reg, NEW scopes, ScopesFit(scopes),
         RegistersFit(stack, reg, scopes), Last(scopes).base <= Len(stack),
         NEW e, e.slot \in Registers, reg[e.slot] = 0 \/ Last(scopes).poly
  PROVE  RegistersFit(Append(stack, e), [reg EXCEPT ![e.slot] = Len(stack) + 1], scopes)
<1> DEFINE s == Append(stack, e)
           new == [reg EXCEPT ![e.slot] = Len(stack) + 1]
<1>1. /\ IsSeq(s) /\ Len(stack) \in Nat /\ Len(s) = Len(stack) + 1
      /\ \A i \in 1..Len(stack) : s[i] = stack[i]
      /\ s[Len(stack) + 1] = e
  BY Appended
<1>2. /\ new \in [Registers -> Nat] /\ new[e.slot] = Len(stack) + 1
      /\ \A r \in Registers : r # e.slot => new[r] = reg[r]
  BY <1>1 DEF RegistersFit
<1> HIDE DEF s, new
<1>3. Last(scopes).base \in Nat
  BY ScopeFacts
<1>4. ASSUME NEW r \in Registers, new[r] # 0
      PROVE  Last(scopes).base < new[r] /\ new[r] <= Len(s) /\ s[new[r]].slot = r
  <2>1. CASE r = e.slot
    BY <1>1, <1>2, <1>3, <2>1
  <2>2. CASE r # e.slot
    <3>1. /\ Last(scopes).base < reg[r] /\ reg[r] <= Len(stack) /\ stack[reg[r]].slot = r
          /\ reg[r] \in Nat /\ reg[r] # 0 /\ new[r] = reg[r]
      BY <1>2, <1>4, <2>2 DEF RegistersFit
    <3> QED  BY <1>1, <3>1
  <2> QED  BY <2>1, <2>2
<1>5. ASSUME NEW i \in 1..Len(s), IsRegister(s[i].slot), InUse(i, scopes)
      PROVE  new[s[i].slot] = i \/ Dead(i, scopes)
  <2>1. CASE i = Len(stack) + 1
    BY <1>1, <1>2, <2>1
  <2>2. CASE i # Len(stack) + 1
    <3>1. i \in 1..Len(stack) /\ s[i] = stack[i]
      BY <1>1, <2>2
    <3>2. reg[stack[i].slot] = i \/ Dead(i, scopes)
      BY <1>5, <3>1 DEF RegistersFit
    <3>3. CASE stack[i].slot # e.slot
      BY <1>2, <1>5, <3>1, <3>2, <3>3 DEF IsRegister
    <3>4. CASE stack[i].slot = e.slot /\ ~Dead(i, scopes)
      <4>1. reg[e.slot] = i /\ Last(scopes).poly /\ Last(scopes).base < i /\ i \in Nat
        BY <3>1, <3>2, <3>4 DEF RegistersFit
      <4> QED  BY <4>1, ScopeFacts
    <3> QED  BY <3>3, <3>4
  <2> QED  BY <2>1, <2>2
<1>6. RegistersFit(s, new, scopes)
  BY <1>2, <1>4, <1>5 DEF RegistersFit
<1> QED  BY <1>6 DEF s, new

\* A stack is cut to n entries: register r keeps what it had, or is free.
KeepsOrFrees(new, reg, r, n, scopes) ==
  \/ new[r] = reg[r] /\ reg[r] <= n
  \/ new[r] = 0 /\ (reg[r] > n \/ Last(scopes).poly)

\* Entries are popped, and what was in registers with them.
LEMMA RegistersCut ==
  ASSUME NEW stack, NEW reg, NEW scopes, RegistersFit(stack, reg, scopes), ScopesFit(scopes),
         NEW s, Len(s) \in Nat, Len(stack) \in Nat, Len(s) <= Len(stack),
         \A i \in 1..Len(s) : s[i] = stack[i],
         NEW new \in [Registers -> Nat],
         \A r \in Registers : KeepsOrFrees(new, reg, r, Len(s), scopes)
  PROVE  RegistersFit(s, new, scopes)
<1>1. ASSUME NEW r \in Registers, new[r] # 0
      PROVE  Last(scopes).base < new[r] /\ new[r] <= Len(s) /\ s[new[r]].slot = r
  <2>1. new[r] = reg[r] /\ reg[r] <= Len(s) /\ reg[r] \in Nat /\ reg[r] # 0
    BY <1>1 DEF RegistersFit, KeepsOrFrees
  <2>2. Last(scopes).base < reg[r] /\ stack[reg[r]].slot = r /\ s[reg[r]] = stack[reg[r]]
    BY <2>1 DEF RegistersFit
  <2> QED  BY <2>1, <2>2
<1>2. ASSUME NEW i \in 1..Len(s), IsRegister(s[i].slot), InUse(i, scopes)
      PROVE  new[s[i].slot] = i \/ Dead(i, scopes)
  <2>1. i \in 1..Len(stack) /\ s[i] = stack[i] /\ s[i].slot \in Registers
    BY <1>2 DEF IsRegister
  <2>2. reg[stack[i].slot] = i \/ Dead(i, scopes)
    BY <1>2, <2>1 DEF RegistersFit
  <2>3. CASE reg[s[i].slot] = i /\ new[s[i].slot] # i
    <3>1. Last(scopes).poly /\ i \in Nat /\ i # 0
      BY <2>1, <2>3 DEF KeepsOrFrees
    <3>2. Last(scopes).base < i
      BY <2>1, <2>3, <3>1 DEF RegistersFit
    <3> QED  BY <3>1, <3>2, ScopeFacts
  <2> QED  BY <2>1, <2>2, <2>3
<1> QED  BY <1>1, <1>2 DEF RegistersFit

\* The stack becomes s: register r keeps its entry, or its entry has left it.
StaysOrLeaves(new, reg, r, s) ==
  \/ new[r] = reg[r] /\ (reg[r] # 0 => s[reg[r]].slot = r)
  \/ new[r] = 0 /\ reg[r] # 0 /\ s[reg[r]].slot # r

\* Entries go from registers to slots.
LEMMA RegistersMoved ==
  ASSUME NEW stack, NEW reg, NEW scopes, RegistersFit(stack, reg, scopes),
         NEW s, Len(s) = Len(stack),
         \A i \in 1..Len(s) : s[i].slot = stack[i].slot \/ ~IsRegister(s[i].slot),
         NEW new \in [Registers -> Nat],
         \A r \in Registers : StaysOrLeaves(new, reg, r, s)
  PROVE  RegistersFit(s, new, scopes)
<1>1. ASSUME NEW r \in Registers, new[r] # 0
      PROVE  Last(scopes).base < new[r] /\ new[r] <= Len(s) /\ s[new[r]].slot = r
  BY <1>1 DEF RegistersFit, StaysOrLeaves
<1>2. ASSUME NEW i \in 1..Len(s), IsRegister(s[i].slot), InUse(i, scopes)
      PROVE  new[s[i].slot] = i \/ Dead(i, scopes)
  <2>1. s[i].slot = stack[i].slot /\ s[i].slot \in Registers /\ i # 0
    BY <1>2 DEF IsRegister
  <2>2. reg[s[i].slot] = i \/ Dead(i, scopes)
    BY <1>2, <2>1 DEF RegistersFit
  <2> QED  BY <2>1, <2>2 DEF StaysOrLeaves
<1> QED  BY <1>1, <1>2 DEF RegistersFit

------------------------------------------------------------------------------
(* Slots *)

\* FindFirstFree... finds a free slot of the frame.
LEMMA SlotFound ==
  ASSUME NEW c, NEW t, NEW first \in Nat, NEW end \in Nat, end <= MaxFunctionSlots,
         FreeSlots(c, t, first, end) # {}, NEW s, s = Min(FreeSlots(c, t, first, end))
  PROVE  /\ s \in Nat /\ first <= s /\ InFrame(s, t) /\ s + Width(t) <= end
         /\ c.count[s] = 0 /\ ~IsRegister(s)
<1>1. \A x \in FreeSlots(c, t, first, end) :
        /\ x \in Nat /\ first <= x /\ InFrame(x, t) /\ x + Width(t) <= end /\ c.count[x] = 0
  <2> SUFFICES ASSUME NEW x \in FreeSlots(c, t, first, end)
               PROVE  x \in Nat /\ first <= x /\ InFrame(x, t) /\ x + Width(t) <= end /\ c.count[x] = 0
    OBVIOUS
  <2>1. Align(first, t) \in Nat /\ first <= Align(first, t) /\ Width(t) \in {1, 2}
    BY Widths
  <2>2. x \in Align(first, t) .. end - Width(t) /\ c.count[x] = 0
    BY DEF FreeSlots
  <2>3. x \in Nat /\ first <= x /\ x + Width(t) <= MaxFunctionSlots /\ x + Width(t) <= end
    BY <2>1, <2>2, Constants
  <2>4. InFrame(x, t)
    BY <2>1, <2>3, Constants DEF InFrame
  <2> QED  BY <2>2, <2>3, <2>4
<1>2. FreeSlots(c, t, first, end) \in SUBSET Nat
  BY <1>1
<1>3. Min(FreeSlots(c, t, first, end)) \in FreeSlots(c, t, first, end)
  BY <1>2, MinIn
<1> QED  BY <1>1, <1>3, Constants DEF InFrame

\* A slot given out for the function's own use.
LEMMA SlotGiven ==
  ASSUME NEW c, NEW t, c.dyn \in Nat, HasSlot(c, t)
  PROVE  /\ SlotFor(c, t) \in Nat /\ c.dyn <= SlotFor(c, t) /\ InFrame(SlotFor(c, t), t)
         /\ ~IsRegister(SlotFor(c, t)) /\ c.count[SlotFor(c, t)] = 0
<1>1. /\ MaxFunctionSlots \in Nat /\ MaxFunctionSlots <= MaxFunctionSlots
      /\ FreeSlots(c, t, c.dyn, MaxFunctionSlots) # {}
      /\ SlotFor(c, t) = Min(FreeSlots(c, t, c.dyn, MaxFunctionSlots))
  BY Constants DEF HasSlot, SlotFor
<1> QED  BY <1>1, SlotFound

\* New counts for a set of cells.
LEMMA Counted ==
  ASSUME NEW count \in [Slots -> 0..MaxUsage], NEW S, S \subseteq Slots, NEW n \in 0..MaxUsage
  PROVE  Filled(count, S, n) \in [Slots -> 0..MaxUsage]
BY DEF Filled

\* The slots of a value in the frame are in the frame.
LEMMA InCells ==
  ASSUME NEW slot, NEW t, InFrame(slot, t)
  PROVE  Cells(slot, t) \subseteq Slots /\ slot \in Nat
<1>1. Width(t) \in {1, 2} /\ MaxFunctionSlots \in Nat /\ Slots = 0 .. MaxFunctionSlots - 1
  BY Widths, Constants
<1>2. slot \in 0 .. MaxFunctionSlots - 1 /\ slot + Width(t) - 1 \in 0 .. MaxFunctionSlots - 1
  BY <1>1 DEF InFrame
<1> QED  BY <1>1, <1>2 DEF Cells

------------------------------------------------------------------------------
(* Good compilations stay good *)

\* A change of stack, counts and registers that fit keeps the invariant.
LEMMA GoodWith ==
  ASSUME NEW b, NEW c, Good(b, c), ~Failed(c),
         NEW d, DOMAIN d = CompilationFields,
         d.scopes = c.scopes, d.dyn = c.dyn, d.first = c.first, d.const0 = c.const0,
         d.maxConst = c.maxConst, d.path = c.path, d.count \in [Slots -> 0..MaxUsage],
         StackFits(d.stack, d.const0), RegistersFit(d.stack, d.reg, b.in),
         Last(b.in).base <= Len(d.stack)
  PROVE  Good(b, d)
BY DEF Good, FitIn

\* What the invariant gives while compilation has not failed.
LEMMA GoodFacts ==
  ASSUME NEW b, NEW c, Good(b, c), ~Failed(c)
  PROVE  /\ DOMAIN c = CompilationFields /\ IsSeq(c.stack) /\ Len(c.stack) \in Nat
         /\ NumLocals \in Nat /\ c.const0 \in Nat /\ c.dyn \in Nat /\ c.dyn \in Slots
         /\ c.const0 <= c.dyn /\ c.count \in [Slots -> 0..MaxUsage]
         /\ StackFits(c.stack, c.const0) /\ ScopesFit(b.in)
         /\ RegistersFit(c.stack, c.reg, b.in)
         /\ Last(b.in).base \in Nat /\ NumLocals <= Last(b.in).base
         /\ Last(b.in).base <= Len(c.stack) /\ Last(b.in).poly \in BOOLEAN
         /\ c.reg \in [Registers -> Nat]
         /\ \A i \in 1..Len(c.stack) : DOMAIN c.stack[i] = EntryFields
         /\ c.scopes = b.scopes /\ c.dyn = b.dyn /\ c.const0 = b.const0 /\ c.first = NumLocals
<1>1. FitIn(c, b.in) /\ DOMAIN c = CompilationFields
      /\ c.scopes = b.scopes /\ c.dyn = b.dyn /\ c.const0 = b.const0
  BY DEF Good
<1>2. /\ StackFits(c.stack, c.const0) /\ ScopesFit(b.in) /\ RegistersFit(c.stack, c.reg, b.in)
      /\ Last(b.in).base <= Len(c.stack) /\ c.count \in [Slots -> 0..MaxUsage]
      /\ c.first = NumLocals /\ c.const0 \in Nat /\ c.maxConst \in Nat /\ c.dyn \in Slots
      /\ c.const0 <= c.maxConst /\ c.maxConst <= c.dyn
  BY <1>1 DEF FitIn
<1>3. c.dyn \in Nat /\ c.const0 <= c.dyn
  BY <1>2, Constants
<1>4. IsSeq(c.stack) /\ Len(c.stack) \in Nat
      /\ \A i \in 1..Len(c.stack) : DOMAIN c.stack[i] = EntryFields
  BY <1>2 DEF StackFits, IsSeq
<1>5. Last(b.in).base \in Nat /\ NumLocals <= Last(b.in).base /\ Last(b.in).poly \in BOOLEAN
  BY <1>2, ScopeFacts
<1>6. c.reg \in [Registers -> Nat]
  BY <1>2 DEF RegistersFit
<1> QED  BY <1>1, <1>2, <1>3, <1>4, <1>5, <1>6, Constants

------------------------------------------------------------------------------
(* Operands are pushed *)

\* d is c with n more operands.
Pushed(c, d, n) ==
  ~Failed(d) =>
    /\ ~Failed(c) /\ Len(d.stack) = Len(c.stack) + n
    /\ \A i \in 1..Len(c.stack) : d.stack[i] = c.stack[i]
    /\ \A r \in Registers : d.reg[r] = c.reg[r] \/ d.reg[r] > Len(c.stack)

\* The register for t can be taken.
Free(b, c, t) == Failed(c) \/ Last(b.in).poly \/ c.reg[RegisterFor(t)] = 0

\* An operand of type t can be pushed in the slot.
Suits(b, c, slot, t) ==
  /\ PlaceFits(c.stack, slot, t)
  /\ IsRegister(slot) => c.reg[slot] = 0 \/ Last(b.in).poly

\* What is pushed stays pushed while only the execution goes on.
LEMMA Unpushed ==
  ASSUME NEW c, NEW d, Same(c, d), NEW c0, NEW n, Pushed(c0, c, n)
  PROVE  Pushed(c0, d, n)
BY DEF Pushed, Same, Failed

\* Nothing is pushed by doing nothing.
LEMMA Untouched ==
  ASSUME NEW c, Failed(c) \/ Len(c.stack) \in Nat
  PROVE  Pushed(c, c, 0)
BY DEF Pushed

\* A new slot of the frame suits.
LEMMA NewSlotSuits ==
  ASSUME NEW b, NEW c, Good(b, c), ~Failed(c), NEW slot \in Nat, NEW t, InFrame(slot, t),
         c.const0 <= slot
  PROVE  Suits(b, c, slot, t)
<1>1. \A i \in 1..NumLocals : c.stack[i].slot \in Nat /\ c.stack[i].slot < c.const0 /\ c.const0 \in Nat
  BY GoodFacts, Constants DEF StackFits
<1>2. \A i \in 1..NumLocals : c.stack[i].slot # slot
  BY <1>1
<1>3. ~IsRegister(slot)
  BY Constants DEF InFrame
<1> QED  BY <1>2, <1>3 DEF Suits, PlaceFits

\* Push writes the fields of M3Compilation it says it does.
LEMMA PushFields ==
  ASSUME NEW c, DOMAIN c = CompilationFields, NEW t, NEW slot, NEW v
  PROVE  /\ DOMAIN Push(c, t, slot, v) = CompilationFields
         /\ Failed(c) => Push(c, t, slot, v) = c
         /\ ~IsRegister(slot) => Push(c, t, slot, v).reg = c.reg
<1> DEFINE e == [slot |-> slot, type |-> t, val |-> IF Running(c) THEN v ELSE Junk]
           d == [c EXCEPT !.stack = Append(@, e)]
           f == [d EXCEPT !.reg[slot] = Len(d.stack)]
<1>1. DOMAIN d = CompilationFields /\ DOMAIN f = CompilationFields /\ d.reg = c.reg
  BY DEF CompilationFields
<1>2. /\ DOMAIN Fail(c, "functionStackOverflow") = CompilationFields
      /\ Fail(c, "functionStackOverflow").reg = c.reg
  BY DEF Fail, CompilationFields
<1> QED  BY <1>1, <1>2 DEF Push

\* Push in a suitable place keeps the invariant.
LEMMA PushGood ==
  ASSUME NEW b, NEW c, Good(b, c), NEW t, NEW slot, NEW v, Failed(c) \/ Suits(b, c, slot, t)
  PROVE  Good(b, Push(c, t, slot, v)) /\ Pushed(c, Push(c, t, slot, v), 1)
<1>1. CASE Failed(c)
  BY <1>1 DEF Push, Pushed
<1>2. CASE ~Failed(c) /\ Len(c.stack) >= MaxStackHeight
  <2>1. Push(c, t, slot, v) = Fail(c, "functionStackOverflow")
    BY <1>2 DEF Push
  <2> QED  BY <2>1, Fails, "functionStackOverflow" # "none" DEF Good, Pushed
<1>3. CASE ~Failed(c) /\ ~(Len(c.stack) >= MaxStackHeight)
  <2> DEFINE e == [slot |-> slot, type |-> t, val |-> IF Running(c) THEN v ELSE Junk]
             d == [c EXCEPT !.stack = Append(@, e)]
             f == [d EXCEPT !.reg[slot] = Len(d.stack)]
  <2>1. Push(c, t, slot, v) = IF IsRegister(slot) THEN f ELSE d
    BY <1>3 DEF Push
  <2>2. /\ DOMAIN c = CompilationFields /\ StackFits(c.stack, c.const0) /\ IsSeq(c.stack)
        /\ Len(c.stack) \in Nat /\ ScopesFit(b.in) /\ RegistersFit(c.stack, c.reg, b.in)
        /\ Last(b.in).base \in Nat /\ Last(b.in).base <= Len(c.stack)
        /\ c.count \in [Slots -> 0..MaxUsage] /\ c.reg \in [Registers -> Nat]
    BY <1>3, GoodFacts
  <2>3. DOMAIN e = EntryFields /\ e.slot = slot /\ e.type = t
    BY DEF EntryFields
  <2> HIDE DEF e
  <2>4. /\ DOMAIN d = CompilationFields /\ d.stack = Append(c.stack, e) /\ d.reg = c.reg
        /\ d.scopes = c.scopes /\ d.dyn = c.dyn /\ d.first = c.first /\ d.const0 = c.const0
        /\ d.maxConst = c.maxConst /\ d.path = c.path /\ d.count = c.count /\ d.result = c.result
    BY <2>2 DEF CompilationFields
  <2>5. /\ Len(d.stack) = Len(c.stack) + 1
        /\ \A i \in 1..Len(c.stack) : d.stack[i] = c.stack[i]
        /\ Last(b.in).base <= Len(d.stack)
    BY <2>2, <2>4, Appended
  <2>6. StackFits(d.stack, d.const0)
    BY <1>3, <2>2, <2>3, <2>4, StackPushed, Constants DEF Suits
  <2>7. CASE ~IsRegister(slot)
    <3>1. RegistersFit(d.stack, d.reg, b.in)
      BY <2>2, <2>3, <2>4, <2>7, SlotPushed
    <3> HIDE DEF d
    <3>2. Good(b, d)
      BY <1>3, <2>2, <2>4, <2>5, <2>6, <3>1, GoodWith
    <3>3. Pushed(c, d, 1)
      BY <1>3, <2>4, <2>5 DEF Pushed, Failed
    <3> QED  BY <2>1, <2>7, <3>2, <3>3
  <2>8. CASE IsRegister(slot)
    <3>1. /\ DOMAIN f = CompilationFields /\ f.stack = d.stack
          /\ f.reg = [c.reg EXCEPT ![e.slot] = Len(c.stack) + 1]
          /\ f.scopes = c.scopes /\ f.dyn = c.dyn /\ f.first = c.first /\ f.const0 = c.const0
          /\ f.maxConst = c.maxConst /\ f.path = c.path /\ f.count = c.count /\ f.result = c.result
      BY <2>3, <2>4, <2>5 DEF CompilationFields
    <3>2. e.slot \in Registers /\ (c.reg[e.slot] = 0 \/ Last(b.in).poly)
      BY <1>3, <2>3, <2>8 DEF Suits, IsRegister
    <3> HIDE DEF d, f
    <3>3. RegistersFit(f.stack, f.reg, b.in)
      BY <2>2, <2>4, <3>1, <3>2, RegisterPushed
    <3>4. StackFits(f.stack, f.const0) /\ Last(b.in).base <= Len(f.stack)
      BY <2>4, <2>5, <2>6, <3>1
    <3>7. Good(b, f)
      BY <1>3, <2>2, <3>1, <3>3, <3>4, GoodWith
    <3>5. \A r \in Registers : f.reg[r] = c.reg[r] \/ f.reg[r] > Len(c.stack)
      BY <2>2, <3>1
    <3>6. Pushed(c, f, 1)
      BY <1>3, <2>5, <3>1, <3>5 DEF Pushed, Failed
    <3> QED  BY <2>1, <2>8, <3>6, <3>7
  <2> QED  BY <2>7, <2>8
<1> QED  BY <1>1, <1>2, <1>3

\* PushRegister keeps the invariant when the register is free.
LEMMA PushRegisterGood ==
  ASSUME NEW b, NEW c, Good(b, c), NEW t, NEW v, Free(b, c, t)
  PROVE  Good(b, PushRegister(c, t, v)) /\ Pushed(c, PushRegister(c, t, v), 1)
<1>1. RegisterFor(t) \in Registers /\ IsRegister(RegisterFor(t))
  BY Widths
<1>2. ASSUME ~Failed(c)  PROVE Suits(b, c, RegisterFor(t), t)
  <2>1. \A i \in 1..NumLocals : c.stack[i].slot \in Slots
    BY <1>2, GoodFacts DEF StackFits
  <2>2. \A i \in 1..NumLocals : c.stack[i].slot # RegisterFor(t)
    BY <1>1, <2>1, Constants
  <2> QED  BY <1>1, <1>2, <2>2 DEF Suits, PlaceFits, Free
<1> QED  BY <1>2, PushGood DEF PushRegister

\* The count of a slot changes.
LEMMA CountGood ==
  ASSUME NEW b, NEW c, Good(b, c), ~Failed(c), NEW count \in [Slots -> 0..MaxUsage]
  PROVE  /\ Good(b, [c EXCEPT !.count = count]) /\ Pushed(c, [c EXCEPT !.count = count], 0)
         /\ [c EXCEPT !.count = count].stack = c.stack /\ [c EXCEPT !.count = count].reg = c.reg
         /\ ~Failed([c EXCEPT !.count = count])
<1> DEFINE d == [c EXCEPT !.count = count]
<1>1. DOMAIN c = CompilationFields /\ Len(c.stack) \in Nat
  BY GoodFacts
<1>2. /\ DOMAIN d = CompilationFields /\ d.stack = c.stack /\ d.reg = c.reg
      /\ d.scopes = c.scopes /\ d.dyn = c.dyn /\ d.first = c.first /\ d.const0 = c.const0
      /\ d.maxConst = c.maxConst /\ d.path = c.path /\ d.count = count /\ d.result = c.result
  BY <1>1 DEF CompilationFields
<1> HIDE DEF d
<1>3. Good(b, d)
  BY <1>2, GoodFacts, GoodWith
<1>4. Pushed(c, d, 0) /\ ~Failed(d)
  BY <1>1, <1>2 DEF Pushed, Failed
<1> QED  BY <1>2, <1>3, <1>4 DEF d

\* d is c, or has failed.
OrFailed(c, d) ==
  (~Failed(d) => ~Failed(c) /\ d.stack = c.stack /\ d.reg = c.reg /\ d.dyn = c.dyn)

\* MarkSlotsAllocated keeps the invariant, and fails only outside the frame or at the top of a
\* count.
LEMMA MarkGood ==
  ASSUME NEW b, NEW c, Good(b, c), NEW slot, NEW t
  PROVE  /\ Good(b, Mark(c, slot, t)) /\ OrFailed(c, Mark(c, slot, t))
         /\ InFrame(slot, t) /\ ~Failed(c) => ~Failed(Mark(c, slot, t))
         /\ ~Failed(Mark(c, slot, t)) => Cells(slot, t) \subseteq Slots
<1>1. CASE Failed(c)
  BY <1>1 DEF Mark, OrFailed
<1>2. CASE ~Failed(c) /\ ~(Cells(slot, t) \subseteq Slots)
  <2>1. Mark(c, slot, t) = Fail(c, "wild")
    BY <1>2 DEF Mark
  <2>2. Good(b, Fail(c, "wild")) /\ Failed(Fail(c, "wild"))
    BY Fails, "wild" # "none" DEF Good
  <2> QED  BY <1>2, <2>1, <2>2, InCells DEF OrFailed
<1>3. CASE ~Failed(c) /\ Cells(slot, t) \subseteq Slots
  <2> DEFINE count == Filled(c.count, Cells(slot, t), 1)
  <2>1. count \in [Slots -> 0..MaxUsage]
    BY <1>3, GoodFacts, Counted, Constants, 1 \in 0..MaxUsage
  <2>2. Mark(c, slot, t) = [c EXCEPT !.count = count]
    BY <1>3 DEF Mark
  <2> HIDE DEF count
  <2>3. /\ Good(b, [c EXCEPT !.count = count])
        /\ [c EXCEPT !.count = count].stack = c.stack /\ [c EXCEPT !.count = count].reg = c.reg
        /\ ~Failed([c EXCEPT !.count = count])
    BY <1>3, <2>1, CountGood
  <2>4. [c EXCEPT !.count = count].dyn = c.dyn
    BY <1>3, <2>3 DEF Good
  <2> QED  BY <1>3, <2>2, <2>3, <2>4 DEF OrFailed
<1> QED  BY <1>1, <1>2, <1>3

\* A failure keeps the invariant and promises nothing else.
LEMMA FailGood ==
  ASSUME NEW b, NEW c, DOMAIN c = CompilationFields, NEW why, why # "none", NEW c0, NEW n
  PROVE  Good(b, Fail(c, why)) /\ Pushed(c0, Fail(c, why), n) /\ Failed(Fail(c, why))
BY Fails DEF Pushed

\* PushAllocatedSlot keeps the invariant.
LEMMA PushAllocatedSlotGood ==
  ASSUME NEW b, NEW c, Good(b, c), NEW t, NEW v
  PROVE  /\ Good(b, PushAllocatedSlot(c, t, v)) /\ Pushed(c, PushAllocatedSlot(c, t, v), 1)
         /\ ~Failed(PushAllocatedSlot(c, t, v)) => PushAllocatedSlot(c, t, v).reg = c.reg
<1>1. CASE Failed(c)
  BY <1>1 DEF PushAllocatedSlot, Pushed
<1>2. CASE ~Failed(c) /\ ~HasSlot(c, t)
  <2>1. PushAllocatedSlot(c, t, v) = Fail(c, "functionStackOverflow")
    BY <1>2 DEF PushAllocatedSlot
  <2> QED  BY <2>1, FailGood, "functionStackOverflow" # "none" DEF Good
<1>3. CASE ~Failed(c) /\ HasSlot(c, t)
  <2> DEFINE s == SlotFor(c, t)
             d == Mark(c, s, t)
  <2>1. PushAllocatedSlot(c, t, v) = Push(d, t, s, v)
    BY <1>3 DEF PushAllocatedSlot
  <2>2. s \in Nat /\ c.dyn <= s /\ InFrame(s, t) /\ ~IsRegister(s)
    BY <1>3, SlotGiven, GoodFacts
  <2>3. Good(b, d) /\ OrFailed(c, d) /\ ~Failed(d)
    BY <1>3, <2>2, MarkGood
  <2> HIDE DEF s, d
  <2>4. d.stack = c.stack /\ d.reg = c.reg /\ d.dyn = c.dyn
    BY <2>3 DEF OrFailed
  <2>5. d.const0 \in Nat /\ d.const0 <= d.dyn /\ d.dyn \in Nat
    BY <2>3, GoodFacts
  <2>6. d.const0 <= s
    BY <2>2, <2>4, <2>5
  <2>7. Suits(b, d, s, t)
    BY <2>2, <2>3, <2>6, NewSlotSuits
  <2>8. Good(b, Push(d, t, s, v)) /\ Pushed(d, Push(d, t, s, v), 1)
    BY <2>3, <2>7, PushGood
  <2>9. Pushed(c, Push(d, t, s, v), 1)
    BY <1>3, <2>4, <2>8 DEF Pushed
  <2>10. Push(d, t, s, v).reg = c.reg
    BY <2>2, <2>3, <2>4, PushFields DEF Good
  <2> QED  BY <2>1, <2>8, <2>9, <2>10
<1> QED  BY <1>1, <1>2, <1>3

\* So does the code that stores the result.
LEMMA EmitGood ==
  ASSUME NEW b, NEW c, Good(b, c), NEW slot, NEW t, NEW v
  PROVE  Good(b, Store(c, slot, t, v)) /\ Same(c, Store(c, slot, t, v))
<1>1. Same(c, Store(c, slot, t, v))
  BY StoreSame DEF Good
<1> QED  BY <1>1, SameGood

\* So do both together.
LEMMA PushAllocatedSlotAndEmitGood ==
  ASSUME NEW b, NEW c, Good(b, c), NEW t, NEW v
  PROVE  Good(b, PushAllocatedSlotAndEmit(c, t, v)) /\ Pushed(c, PushAllocatedSlotAndEmit(c, t, v), 1)
<1> DEFINE d == PushAllocatedSlot(c, t, v)
           e == EmitToTop(d, v)
<1>1. Good(b, d) /\ Pushed(c, d, 1)
  BY PushAllocatedSlotGood
<1>2. Good(b, e) /\ Same(d, e)
  BY <1>1, EmitGood DEF EmitToTop
<1>3. Pushed(c, e, 1)
  BY <1>1, <1>2, Unpushed
<1> QED  BY <1>2, <1>3 DEF PushAllocatedSlotAndEmit

\* So does a result in a free register.
LEMMA ResultInRegisterGood ==
  ASSUME NEW b, NEW c, Good(b, c), NEW t, NEW v, Free(b, c, t)
  PROVE  Good(b, ResultInRegister(c, t, v))
<1> DEFINE d == Store(c, RegisterFor(t), t, v)
<1>1. Good(b, d) /\ Same(c, d)
  BY EmitGood
<1>2. Free(b, d, t)
  BY <1>1 DEF Free, Same, Failed
<1> QED  BY <1>1, <1>2, PushRegisterGood DEF ResultInRegister

------------------------------------------------------------------------------
(* Operands are popped *)

\* d is c without its n topmost operands; in dead code there may have been fewer.
Popped(b, c, d, n) ==
  ~Failed(d) =>
    /\ ~Failed(c) /\ Len(d.stack) <= Len(c.stack)
    /\ Last(b.in).base <= Len(c.stack) - n => Len(d.stack) = Len(c.stack) - n
    /\ ~Last(b.in).poly => Last(b.in).base <= Len(c.stack) - n
    /\ \A i \in 1..Len(d.stack) : d.stack[i] = c.stack[i]
    /\ \A r \in Registers : d.reg[r] = c.reg[r] \/ d.reg[r] = 0

\* Counting down a byte that may be 0 gives a byte.
LEMMA Byte ==
  ASSUME NEW m \in Nat \ {0}, NEW x \in 0..m
  PROVE  (x + m) % (m + 1) \in 0..m
OBVIOUS

\* DeallocateSlot keeps the invariant: it touches counts only.
LEMMA DeallocateGood ==
  ASSUME NEW b, NEW c, Good(b, c), ~Failed(c), NEW slot, NEW t, InFrame(slot, t)
  PROVE  LET d == Deallocate(c, slot, t)
         IN Good(b, d) /\ d.stack = c.stack /\ d.reg = c.reg /\ ~Failed(d)
<1> DEFINE count == [s \in DOMAIN c.count \cup Cells(slot, t) |->
                       IF s \in Cells(slot, t) THEN (c.count[s] + MaxUsage) % (MaxUsage + 1)
                       ELSE c.count[s]]
<1>1. Cells(slot, t) \subseteq Slots /\ c.count \in [Slots -> 0..MaxUsage] /\ MaxUsage \in Nat \ {0}
  BY InCells, GoodFacts, Constants
<1>2. \A s \in Slots : (c.count[s] + MaxUsage) % (MaxUsage + 1) \in 0..MaxUsage
  BY <1>1, Byte
<1>3. count \in [Slots -> 0..MaxUsage]
  BY <1>1, <1>2
<1>4. Deallocate(c, slot, t) = [c EXCEPT !.count = count]
  BY DEF Deallocate
<1> HIDE DEF count
<1> QED  BY <1>3, <1>4, CountGood

\* Pop keeps the invariant: the register of the operand is given back with it.
LEMMA PopGood ==
  ASSUME NEW b, b.in = b.scopes, NEW c, Good(b, c)
  PROVE  Good(b, Pop(c)) /\ Popped(b, c, Pop(c), 1)
<1>1. CASE Failed(c)
  BY <1>1 DEF Pop, Popped
<1>2. CASE ~Failed(c) /\ ~(Len(c.stack) > Last(b.in).base)
  <2>1. Block(c) = Last(b.in) /\ Len(c.stack) = Last(b.in).base /\ Last(b.in).base \in Nat
    BY <1>2, GoodFacts DEF Block
  <2>2. CASE Last(b.in).poly
    <3>1. Pop(c) = c
      BY <1>2, <2>1, <2>2 DEF Pop
    <3> QED  BY <1>2, <2>1, <2>2, <3>1 DEF Popped
  <2>3. CASE ~Last(b.in).poly
    <3>1. Pop(c) = Fail(c, "functionStackUnderrun")
      BY <1>2, <2>1, <2>3 DEF Pop
    <3>2. Good(b, Pop(c)) /\ Failed(Pop(c))
      BY <3>1, Fails, "functionStackUnderrun" # "none" DEF Good
    <3> QED  BY <3>2 DEF Popped
  <2> QED  BY <2>2, <2>3
<1>3. CASE ~Failed(c) /\ Len(c.stack) > Last(b.in).base
  <2> DEFINE e == Last(c.stack)
             d == [c EXCEPT !.stack = Front(@)]
             f == [d EXCEPT !.reg[e.slot] = 0]
  <2>1. Block(c) = Last(b.in)
    BY <1>3, GoodFacts DEF Block
  <2>2. /\ DOMAIN c = CompilationFields /\ StackFits(c.stack, c.const0) /\ IsSeq(c.stack)
        /\ Len(c.stack) \in Nat /\ ScopesFit(b.in) /\ RegistersFit(c.stack, c.reg, b.in)
        /\ Last(b.in).base \in Nat /\ Last(b.in).base <= Len(c.stack) /\ NumLocals \in Nat
        /\ c.count \in [Slots -> 0..MaxUsage] /\ c.reg \in [Registers -> Nat]
        /\ NumLocals <= Last(b.in).base /\ c.dyn \in Nat
    BY <1>3, GoodFacts
  <2>3. e = c.stack[Len(c.stack)] /\ Len(c.stack) \in 1..Len(c.stack)
    BY <1>3, <2>2 DEF Last
  <2>4. /\ DOMAIN d = CompilationFields /\ d.stack = Front(c.stack) /\ d.reg = c.reg
        /\ d.scopes = c.scopes /\ d.dyn = c.dyn /\ d.first = c.first /\ d.const0 = c.const0
        /\ d.maxConst = c.maxConst /\ d.path = c.path /\ d.count = c.count /\ d.result = c.result
    BY <2>2 DEF CompilationFields
  <2>5. /\ DOMAIN f = CompilationFields /\ f.stack = d.stack
        /\ f.reg = [c.reg EXCEPT ![e.slot] = 0]
        /\ f.scopes = c.scopes /\ f.dyn = c.dyn /\ f.first = c.first /\ f.const0 = c.const0
        /\ f.maxConst = c.maxConst /\ f.path = c.path /\ f.count = c.count /\ f.result = c.result
    BY <2>4 DEF CompilationFields
  <2>6. /\ Pop(c) = IF IsRegister(e.slot) THEN f
                    ELSE IF e.slot >= c.dyn THEN Deallocate(d, e.slot, e.type) ELSE d
    BY <1>3, <2>1 DEF Pop
  <2> HIDE DEF d, e, f
  <2>7. /\ IsSeq(d.stack) /\ Len(d.stack) = Len(c.stack) - 1
        /\ \A i \in 1..Len(d.stack) : d.stack[i] = c.stack[i]
        /\ Last(b.in).base <= Len(d.stack) /\ Len(d.stack) \in Nat
    <3>1. Len(c.stack) > 0
      BY <1>3, <2>2
    <3>2. /\ IsSeq(Front(c.stack)) /\ Len(Front(c.stack)) = Len(c.stack) - 1
          /\ \A i \in 1..Len(c.stack) - 1 : Front(c.stack)[i] = c.stack[i]
      BY <2>2, <3>1, FrontOf
    <3> QED  BY <1>3, <2>2, <2>4, <3>1, <3>2
  <2>8. StackFits(d.stack, d.const0)
    <3>1. StackFits(c.stack, d.const0) /\ IsSeq(d.stack)
      BY <2>2, <2>4, <2>7
    <3>2. Len(d.stack) <= Len(c.stack) /\ NumLocals <= Len(d.stack)
      <4>1. Len(c.stack) \in Nat /\ Len(d.stack) = Len(c.stack) - 1
        BY <2>2, <2>7 DEF IsSeq
      <4>2. NumLocals <= Last(b.in).base /\ Last(b.in).base <= Len(d.stack)
        BY <2>2, <2>7
      <4>3. NumLocals \in Nat /\ Last(b.in).base \in Nat /\ Len(d.stack) \in Nat
        BY <2>2, <2>7, Constants
      <4> QED  BY <4>1, <4>2, <4>3
    <3>3. \A i \in 1..Len(d.stack) : d.stack[i] = c.stack[i]
      BY <2>7
    <3> QED  BY <3>1, <3>2, <3>3, StackCut
  <2>9. CASE IsRegister(e.slot)
    <3>1. f.reg \in [Registers -> Nat]
      <4>1. /\ c.reg \in [Registers -> Nat] /\ f.reg = [c.reg EXCEPT ![e.slot] = 0]
            /\ e.slot \in Registers
        BY <2>2, <2>5, <2>9 DEF IsRegister
      <4> QED  BY <4>1
    <3>2. ASSUME NEW r \in Registers
          PROVE  KeepsOrFrees(f.reg, c.reg, r, Len(d.stack), b.in)
      <4>1. c.reg[r] \in Nat /\ (c.reg[r] # 0 => c.reg[r] <= Len(c.stack) /\ c.stack[c.reg[r]].slot = r)
        BY <2>2 DEF RegistersFit
      <4>2. CASE r # e.slot
        <5>1. f.reg[r] = c.reg[r]
          BY <2>2, <2>5, <4>2
        <5>2. c.reg[r] # Len(c.stack)
          BY <1>3, <2>2, <2>3, <4>1, <4>2
        <5> QED  BY <2>2, <2>7, <4>1, <5>1, <5>2 DEF KeepsOrFrees
      <4>3. CASE r = e.slot
        <5>1. f.reg[r] = 0
          BY <2>2, <2>5, <4>3
        <5>2. InUse(Len(c.stack), b.in)
          BY <1>3, <2>2, ScopeFacts
        <5>3. c.reg[r] = Len(c.stack) \/ Dead(Len(c.stack), b.in)
          BY <2>2, <2>3, <2>9, <4>3, <5>2 DEF RegistersFit
        <5>4. c.reg[r] > Len(d.stack) \/ Last(b.in).poly
          BY <2>2, <2>7, <5>3, ScopeFacts
        <5> QED  BY <5>1, <5>4 DEF KeepsOrFrees
      <4> QED  BY <4>2, <4>3
    <3>3. RegistersFit(d.stack, f.reg, b.in)
      <4>1. Len(d.stack) <= Len(c.stack)
        BY <2>2, <2>7
      <4> QED  BY <2>2, <2>7, <3>1, <3>2, <4>1, RegistersCut
    <3>4. Good(b, f)
      BY <1>3, <2>2, <2>4, <2>5, <2>7, <2>8, <3>3, GoodWith
    <3>5. Popped(b, c, f, 1)
      BY <1>3, <2>2, <2>5, <2>7, <3>2 DEF Popped, Failed, KeepsOrFrees
    <3> QED  BY <2>6, <2>9, <3>4, <3>5
  <2>10. CASE ~IsRegister(e.slot)
    <3>1. ASSUME NEW r \in Registers
          PROVE  KeepsOrFrees(d.reg, c.reg, r, Len(d.stack), b.in)
      <4>1. c.reg[r] \in Nat /\ (c.reg[r] # 0 => c.reg[r] <= Len(c.stack) /\ c.stack[c.reg[r]].slot = r)
        BY <2>2 DEF RegistersFit
      <4>2. c.reg[r] # Len(c.stack)
        BY <1>3, <2>2, <2>3, <2>10, <4>1 DEF IsRegister
      <4> QED  BY <2>2, <2>4, <2>7, <4>1, <4>2 DEF KeepsOrFrees
    <3>2. RegistersFit(d.stack, d.reg, b.in)
      <4>1. d.reg \in [Registers -> Nat] /\ Len(d.stack) <= Len(c.stack)
        BY <2>2, <2>4, <2>7
      <4> QED  BY <2>2, <2>7, <3>1, <4>1, RegistersCut
    <3>3. Good(b, d) /\ ~Failed(d)
      BY <1>3, <2>2, <2>4, <2>7, <2>8, <3>2, GoodWith DEF Failed
    <3>4. Popped(b, c, d, 1)
      BY <1>3, <2>2, <2>4, <2>7 DEF Popped, Failed
    <3>5. InFrame(e.slot, e.type)
      BY <2>2, <2>3, <2>10 DEF StackFits
    <3> DEFINE g == Deallocate(d, e.slot, e.type)
    <3>6. Good(b, g) /\ g.stack = d.stack /\ g.reg = d.reg /\ ~Failed(g)
      BY <3>3, <3>5, DeallocateGood
    <3> HIDE DEF g
    <3>7. Popped(b, c, g, 1)
      BY <3>3, <3>4, <3>6 DEF Popped
    <3> QED  BY <2>6, <2>10, <3>3, <3>4, <3>6, <3>7 DEF g
  <2> QED  BY <2>9, <2>10
<1> QED  BY <1>1, <1>2, <1>3, GoodFacts

\* Popping n operands and one more pops n + 1.
LEMMA PoppedMore ==
  ASSUME NEW b, NEW c, NEW d, NEW e, NEW k \in Nat, Popped(b, c, d, k), Popped(b, d, e, 1),
         Last(b.in).base \in Nat, Failed(c) \/ Len(c.stack) \in Nat,
         Failed(d) \/ Len(d.stack) \in Nat, Failed(e) \/ Len(e.stack) \in Nat
  PROVE  Popped(b, c, e, k + 1)
<1>1. SUFFICES ASSUME ~Failed(e)
               PROVE  /\ ~Failed(c) /\ Len(e.stack) <= Len(c.stack)
                      /\ Last(b.in).base <= Len(c.stack) - (k + 1) =>
                           Len(e.stack) = Len(c.stack) - (k + 1)
                      /\ ~Last(b.in).poly => Last(b.in).base <= Len(c.stack) - (k + 1)
                      /\ \A i \in 1..Len(e.stack) : e.stack[i] = c.stack[i]
                      /\ \A r \in Registers : e.reg[r] = c.reg[r] \/ e.reg[r] = 0
  BY DEF Popped
<1>2. ~Failed(d) /\ ~Failed(c)
  BY <1>1 DEF Popped
<1>3. /\ Len(d.stack) <= Len(c.stack)
      /\ Last(b.in).base <= Len(c.stack) - k => Len(d.stack) = Len(c.stack) - k
      /\ ~Last(b.in).poly => Last(b.in).base <= Len(c.stack) - k
      /\ \A i \in 1..Len(d.stack) : d.stack[i] = c.stack[i]
      /\ \A r \in Registers : d.reg[r] = c.reg[r] \/ d.reg[r] = 0
  BY <1>2 DEF Popped
<1>4. /\ Len(e.stack) <= Len(d.stack)
      /\ Last(b.in).base <= Len(d.stack) - 1 => Len(e.stack) = Len(d.stack) - 1
      /\ ~Last(b.in).poly => Last(b.in).base <= Len(d.stack) - 1
      /\ \A i \in 1..Len(e.stack) : e.stack[i] = d.stack[i]
      /\ \A r \in Registers : e.reg[r] = d.reg[r] \/ e.reg[r] = 0
  BY <1>1 DEF Popped
<1>5. Len(c.stack) \in Nat /\ Len(d.stack) \in Nat /\ Len(e.stack) \in Nat
  BY <1>1, <1>2
<1>6. \A i \in 1..Len(e.stack) : i \in 1..Len(d.stack)
  BY <1>4, <1>5
<1>7. ASSUME Last(b.in).base <= Len(c.stack) - (k + 1)
      PROVE  Len(e.stack) = Len(c.stack) - (k + 1)
  <2>1. Last(b.in).base <= Len(c.stack) - k
    BY <1>5, <1>7
  <2>2. Len(d.stack) = Len(c.stack) - k
    BY <1>3, <2>1
  <2>3. Last(b.in).base <= Len(d.stack) - 1
    BY <1>5, <1>7, <2>2
  <2>4. Len(e.stack) = Len(d.stack) - 1
    BY <1>4, <2>3
  <2> QED  BY <1>5, <2>2, <2>4
<1>9. Len(e.stack) <= Len(c.stack)
  BY <1>3, <1>4, <1>5
<1>8. ~Last(b.in).poly => Last(b.in).base <= Len(c.stack) - (k + 1)
  BY <1>3, <1>4, <1>5
<1> QED  BY <1>2, <1>3, <1>4, <1>6, <1>7, <1>8, <1>9

\* Pops as a fold: good all along, one operand less each time.
PopNext(p, c, j) == Pop(c)
PopsHold(p, k, c) == Good(p.b, c) /\ Popped(p.b, p.c, c, k)
Popping == INSTANCE Folding WITH Op <- PopNext, Good <- PopsHold

\* The sequence of the first n numbers.
LEMMA Numbers ==
  ASSUME NEW n \in Nat
  PROVE  [j \in 1..n |-> j] \in Seq(Nat) /\ Len([j \in 1..n |-> j]) = n
OBVIOUS

\* Popping n operands keeps the invariant.
LEMMA PopsGood ==
  ASSUME NEW b, b.in = b.scopes, NEW c, Good(b, c), NEW n \in Nat
  PROVE  Good(b, Pops(c, n)) /\ Popped(b, c, Pops(c, n), n)
<1> DEFINE p == [b |-> b, c |-> c]
           s == [j \in 1..n |-> j]
<1>1. s \in Seq(Nat) /\ Len(s) = n
  BY Numbers
<1>2. Pops(c, n) = Popping!Folded(p, c, s)
  BY DEF Pops, PopNext, FoldLeft, MapThenFoldSet, Max,
         Popping!Folded, Popping!MapThenFoldSet, Popping!Largest
<1>3. p.b = b /\ p.c = c
  OBVIOUS
<1> HIDE DEF p, s
<1>4. PopsHold(p, 0, c)
  <2>1. Failed(c) \/ (Len(c.stack) \in Nat /\ Last(b.in).base \in Nat /\ Last(b.in).base <= Len(c.stack))
    BY GoodFacts
  <2> QED  BY <1>3, <2>1 DEF PopsHold, Popped
<1>5. ASSUME NEW k \in 1..Len(s), NEW x, PopsHold(p, k - 1, x)
      PROVE  PopsHold(p, k, PopNext(p, x, s[k]))
  <2>1. Good(b, x) /\ Popped(b, c, x, k - 1) /\ k - 1 \in Nat /\ k - 1 + 1 = k
    BY <1>1, <1>3, <1>5 DEF PopsHold
  <2>2. Good(b, Pop(x)) /\ Popped(b, x, Pop(x), 1)
    BY <2>1, PopGood
  <2>3. /\ Failed(c) \/ (Len(c.stack) \in Nat /\ Last(b.in).base \in Nat)
        /\ Failed(x) \/ Len(x.stack) \in Nat
        /\ Failed(Pop(x)) \/ Len(Pop(x).stack) \in Nat
    BY <2>1, <2>2, GoodFacts
  <2>4. CASE Failed(c)
    BY <1>3, <2>1, <2>2, <2>4 DEF PopsHold, PopNext, Popped
  <2>5. CASE ~Failed(c)
    <3>1. Popped(b, c, Pop(x), k - 1 + 1)
      BY <2>1, <2>2, <2>3, <2>5, PoppedMore
    <3> QED  BY <1>3, <2>1, <2>2, <3>1 DEF PopsHold, PopNext
  <2> QED  BY <2>4, <2>5
<1>6. PopsHold(p, Len(s), Popping!Folded(p, c, s))
  BY <1>1, <1>4, <1>5, Popping!Invariant
<1> QED  BY <1>1, <1>2, <1>3, <1>6 DEF PopsHold

------------------------------------------------------------------------------
(* Operands are moved *)

\* d is c with operands in other slots and registers freed.
Moved(c, d) ==
  ~Failed(d) =>
    /\ ~Failed(c) /\ Len(d.stack) = Len(c.stack)
    /\ \A i \in 1..Len(c.stack) : d.stack[i].type = c.stack[i].type
    /\ \A r \in Registers : d.reg[r] = c.reg[r] \/ d.reg[r] = 0

\* Moving operands twice moves them.
LEMMA MovedTrans ==
  ASSUME NEW c, NEW d, NEW e, Moved(c, d), Moved(d, e)
  PROVE  Moved(c, e)
BY DEF Moved

\* Doing nothing moves no operand.
LEMMA SameMoved ==
  ASSUME NEW c, NEW d, Same(c, d)
  PROVE  Moved(c, d)
BY DEF Same, Moved, Failed

\* A free register is free after operands were moved.
LEMMA StaysFree ==
  ASSUME NEW b, NEW c, NEW d, Moved(c, d), NEW t, Free(b, c, t)
  PROVE  Free(b, d, t)
BY Widths DEF Free, Moved

\* PreserveRegisterIfOccupied keeps the invariant and frees the register.
LEMMA PreserveRegisterGood ==
  ASSUME NEW b, NEW c, Good(b, c), NEW t
  PROVE  /\ Good(b, PreserveRegister(c, t)) /\ Moved(c, PreserveRegister(c, t))
         /\ Free(b, PreserveRegister(c, t), t)
         /\ ~Failed(PreserveRegister(c, t)) => PreserveRegister(c, t).reg[RegisterFor(t)] = 0
<1> DEFINE r == RegisterFor(t)
           i == c.reg[r]
           e == c.stack[i]
           d == [c EXCEPT !.reg[r] = 0]
           s == SlotFor(d, e.type)
           f == [d EXCEPT !.stack[i].slot = s]
           m == Mark(f, s, e.type)
           new == PreserveRegister(c, t)
<1>1. CASE Failed(c) \/ i = 0
  <2>1. new = c
    BY <1>1 DEF PreserveRegister
  <2> QED  BY <1>1, <2>1 DEF Moved, Free
<1>2. CASE ~(Failed(c) \/ i = 0)
  <2>1. /\ DOMAIN c = CompilationFields /\ StackFits(c.stack, c.const0) /\ IsSeq(c.stack)
        /\ Len(c.stack) \in Nat /\ ScopesFit(b.in) /\ RegistersFit(c.stack, c.reg, b.in)
        /\ Last(b.in).base \in Nat /\ Last(b.in).base <= Len(c.stack) /\ NumLocals \in Nat
        /\ c.count \in [Slots -> 0..MaxUsage] /\ c.reg \in [Registers -> Nat]
        /\ NumLocals <= Last(b.in).base /\ c.dyn \in Nat /\ c.const0 \in Nat /\ c.const0 <= c.dyn
    BY <1>2, GoodFacts
  <2>2. /\ r \in Registers /\ i \in 1..Len(c.stack) /\ NumLocals < i /\ e.slot = r
        /\ DOMAIN e = EntryFields
    <3>1. r \in Registers
      BY Widths
    <3>2. i \in Nat /\ i # 0 /\ Last(b.in).base < i /\ i <= Len(c.stack) /\ c.stack[i].slot = r
      BY <1>2, <2>1, <3>1 DEF RegistersFit
    <3>3. i \in 1..Len(c.stack)
      BY <2>1, <3>2
    <3> QED  BY <2>1, <3>1, <3>2, <3>3 DEF StackFits
  <2>3. /\ DOMAIN d = CompilationFields /\ d.stack = c.stack /\ d.reg = [c.reg EXCEPT ![r] = 0]
        /\ d.scopes = c.scopes /\ d.dyn = c.dyn /\ d.first = c.first /\ d.const0 = c.const0
        /\ d.maxConst = c.maxConst /\ d.path = c.path /\ d.count = c.count /\ d.result = c.result
    BY <2>1 DEF CompilationFields
  <2>4. /\ DOMAIN f = CompilationFields /\ f.stack = [c.stack EXCEPT ![i].slot = s]
        /\ f.reg = d.reg
        /\ f.scopes = c.scopes /\ f.dyn = c.dyn /\ f.first = c.first /\ f.const0 = c.const0
        /\ f.maxConst = c.maxConst /\ f.path = c.path /\ f.count = c.count /\ f.result = c.result
    BY <2>3 DEF CompilationFields
  <2>5. CASE ~HasSlot(d, e.type)
    <3>1. new = Fail(d, "functionStackOverflow")
      BY <1>2, <2>5 DEF PreserveRegister
    <3>2. Good(b, new) /\ Failed(new)
      BY <2>3, <3>1, Fails, "functionStackOverflow" # "none"
    <3> QED  BY <3>2 DEF Moved, Free
  <2>6. CASE HasSlot(d, e.type)
    <3>1. new = Store(m, s, e.type, c.regs[r])
      BY <1>2, <2>6 DEF PreserveRegister
    <3>2. s \in Nat /\ d.dyn <= s /\ InFrame(s, e.type) /\ ~IsRegister(s)
      BY <2>1, <2>3, <2>6, SlotGiven
    <3>3. c.const0 <= s
      BY <2>1, <2>3, <3>2
    <3> HIDE DEF r, i, e, d, s, f, m, new
    <3>4. IsSeq(f.stack) /\ Len(f.stack) = Len(c.stack)
      <4>1. f.stack = [k \in DOMAIN c.stack |-> IF k = i THEN [c.stack[k] EXCEPT !.slot = s] ELSE c.stack[k]]
        BY <2>4
      <4>2. DOMAIN f.stack = DOMAIN c.stack /\ f.stack = [k \in DOMAIN f.stack |-> f.stack[k]]
        BY <4>1
      <4> QED  BY <2>1, <4>2, OnSamePlaces
    <3>5. /\ f.stack[i] = [e EXCEPT !.slot = s]
          /\ \A k \in 1..Len(c.stack) : k # i => f.stack[k] = c.stack[k]
      BY <2>1, <2>2, <2>4 DEF e, IsSeq
    <3>6. DOMAIN f.stack[i] = EntryFields /\ f.stack[i].slot = s /\ f.stack[i].type = e.type
      BY <2>2, <3>5 DEF EntryFields
    <3>7. ASSUME NEW k \in 1..Len(c.stack)
          PROVE  /\ DOMAIN f.stack[k] = EntryFields /\ f.stack[k].type = c.stack[k].type
                 /\ \/ f.stack[k].slot = c.stack[k].slot
                    \/ /\ k > NumLocals /\ InFrame(f.stack[k].slot, f.stack[k].type)
                       /\ c.const0 <= f.stack[k].slot
      <4>1. CASE k = i
        BY <2>2, <3>2, <3>3, <3>6, <4>1 DEF e
      <4>2. CASE k # i
        BY <2>1, <3>5, <4>2 DEF StackFits
      <4> QED  BY <4>1, <4>2
    <3>8. StackFits(f.stack, f.const0)
      BY <2>1, <2>4, <3>4, <3>7, StackMoved
    <3>9. /\ f.reg \in [Registers -> Nat] /\ f.reg[r] = 0
          /\ \A x \in Registers : x # r => f.reg[x] = c.reg[x]
      <4>1. f.reg = [c.reg EXCEPT ![r] = 0] /\ c.reg \in [Registers -> Nat] /\ r \in Registers
        BY <2>1, <2>2, <2>3, <2>4
      <4> QED  BY <4>1
    <3>10. RegistersFit(f.stack, f.reg, b.in)
      <4>1. \A k \in 1..Len(f.stack) : f.stack[k].slot = c.stack[k].slot \/ ~IsRegister(f.stack[k].slot)
        BY <3>2, <3>4, <3>5, <3>6
      <4>2. ASSUME NEW x \in Registers
            PROVE  StaysOrLeaves(f.reg, c.reg, x, f.stack)
        <5>1. CASE x = r
          <6>1. c.reg[x] = i /\ i # 0 /\ f.stack[i].slot # r
            BY <2>2, <3>2, <3>6, <5>1 DEF i, IsRegister
          <6> QED  BY <3>9, <5>1, <6>1 DEF StaysOrLeaves
        <5>2. CASE x # r
          <6>1. f.reg[x] = c.reg[x]
            BY <3>9, <5>2
          <6>2. ASSUME c.reg[x] # 0  PROVE f.stack[c.reg[x]].slot = x
            <7>1. c.reg[x] \in 1..Len(c.stack) /\ c.stack[c.reg[x]].slot = x
              BY <2>1, <6>2 DEF RegistersFit
            <7>2. c.reg[x] # i
              BY <2>2, <5>2, <7>1 DEF e
            <7> QED  BY <3>5, <7>1, <7>2
          <6> QED  BY <6>1, <6>2 DEF StaysOrLeaves
        <5> QED  BY <5>1, <5>2
      <4> QED  BY <2>1, <3>4, <3>9, <4>1, <4>2, RegistersMoved
    <3>11. Good(b, f) /\ ~Failed(f)
      <4>1. Last(b.in).base <= Len(f.stack) /\ ~Failed(c)
        BY <1>2, <2>1, <3>4
      <4> QED  BY <2>1, <2>4, <3>8, <3>10, <4>1, GoodWith DEF Failed
    <3>12. Moved(c, f)
      BY <1>2, <3>4, <3>7, <3>9 DEF Moved
    <3>13. Good(b, m) /\ OrFailed(f, m)
      BY <3>2, <3>11, MarkGood DEF m
    <3>14. Good(b, new) /\ Same(m, new)
      BY <3>1, <3>13, EmitGood
    <3>15. ~Failed(new) => new.stack = f.stack /\ new.reg = f.reg
      BY <3>13, <3>14 DEF OrFailed, Same, Failed
    <3>16. Moved(c, new)
      BY <1>2, <3>12, <3>11, <3>15 DEF Moved
    <3>17. ~Failed(new) => new.reg[r] = 0
      BY <3>9, <3>15
    <3> QED  BY <3>14, <3>16, <3>17 DEF new, r, Free
  <2> QED  BY <2>5, <2>6
<1> QED  BY <1>1, <1>2

\* PreserveRegisters frees both.
LEMMA PreserveRegistersGood ==
  ASSUME NEW b, NEW c, Good(b, c)
  PROVE  /\ Good(b, PreserveRegisters(c)) /\ Moved(c, PreserveRegisters(c))
         /\ ~Failed(PreserveRegisters(c)) => \A r \in Registers : PreserveRegisters(c).reg[r] = 0
<1> DEFINE d == PreserveRegister(c, "f64")
           e == PreserveRegister(d, "i64")
<1>1. PreserveRegisters(c) = e /\ RegisterFor("f64") = Fp0 /\ RegisterFor("i64") = R0
  BY DEF PreserveRegisters, RegisterFor, IsFp
<1>2. Good(b, d) /\ Moved(c, d) /\ (~Failed(d) => d.reg[Fp0] = 0)
  BY <1>1, PreserveRegisterGood
<1>3. Good(b, e) /\ Moved(d, e) /\ (~Failed(e) => e.reg[R0] = 0)
  BY <1>1, <1>2, PreserveRegisterGood
<1> HIDE DEF d, e
<1>4. Moved(c, e)
  BY <1>2, <1>3, MovedTrans
<1>5. ~Failed(e) => e.reg[Fp0] = 0
  BY <1>2, <1>3 DEF Moved, Registers
<1> QED  BY <1>1, <1>3, <1>4, <1>5 DEF Registers

\* PreserveNonTopRegisters as a fold over the two registers.
NonTop(p, c, t) == IF c.reg[RegisterFor(t)] = Len(p.c.stack) THEN c ELSE PreserveRegister(c, t)
NonTopHold(p, k, c) ==
  /\ Good(p.b, c) /\ Moved(p.c, c)
  /\ ~Failed(c) => \A j \in 1..k : c.reg[RegisterFor(p.s[j])] \in {0, Len(p.c.stack)}
NonTops == INSTANCE Folding WITH Op <- NonTop, Good <- NonTopHold

\* PreserveNonTopRegisters frees those the top operand is not in.
LEMMA PreserveNonTopRegistersGood ==
  ASSUME NEW b, NEW c, Good(b, c)
  PROVE  /\ Good(b, PreserveNonTopRegisters(c)) /\ Moved(c, PreserveNonTopRegisters(c))
         /\ ~Failed(PreserveNonTopRegisters(c)) =>
              \A r \in Registers : PreserveNonTopRegisters(c).reg[r] \in {0, Len(c.stack)}
<1> DEFINE s == <<"i64", "f64">>
           p == [b |-> b, c |-> c, s |-> s]
           last == NonTops!Folded(p, c, s)
<1>1. p.b = b /\ p.c = c /\ p.s = s
  OBVIOUS
<1>2. s \in Seq({"i64", "f64"}) /\ Len(s) = 2 /\ s[1] = "i64" /\ s[2] = "f64"
  OBVIOUS
<1>3. PreserveNonTopRegisters(c) = last
  BY DEF PreserveNonTopRegisters, NonTop, FoldLeft, MapThenFoldSet, Max,
         NonTops!Folded, NonTops!MapThenFoldSet, NonTops!Largest
<1> HIDE DEF p, s
<1>4. NonTopHold(p, 0, c)
  BY <1>1 DEF NonTopHold, Moved
<1>5. ASSUME NEW k \in 1..Len(s), NEW x, NonTopHold(p, k - 1, x)
      PROVE  NonTopHold(p, k, NonTop(p, x, s[k]))
  <2> DEFINE y == NonTop(p, x, s[k])
  <2>1. /\ Good(b, x) /\ Moved(c, x)
        /\ ~Failed(x) => \A j \in 1..k - 1 : x.reg[RegisterFor(s[j])] \in {0, Len(c.stack)}
    BY <1>1, <1>5 DEF NonTopHold
  <2>2. /\ Good(b, y) /\ Moved(x, y)
        /\ ~Failed(y) => y.reg[RegisterFor(s[k])] \in {0, Len(c.stack)}
    <3>1. CASE x.reg[RegisterFor(s[k])] = Len(c.stack)
      BY <1>1, <2>1, <3>1 DEF NonTop, Moved
    <3>2. CASE x.reg[RegisterFor(s[k])] # Len(c.stack)
      <4>1. y = PreserveRegister(x, s[k])
        BY <1>1, <3>2 DEF NonTop
      <4> QED  BY <2>1, <4>1, PreserveRegisterGood
    <3> QED  BY <3>1, <3>2
  <2> HIDE DEF y
  <2>3. Moved(c, y)
    BY <2>1, <2>2, MovedTrans
  <2>4. ASSUME ~Failed(y), NEW j \in 1..k  PROVE y.reg[RegisterFor(s[j])] \in {0, Len(c.stack)}
    <3>1. j = k \/ j \in 1..k - 1
      OBVIOUS
    <3>2. ~Failed(x) /\ \A r \in Registers : y.reg[r] = x.reg[r] \/ y.reg[r] = 0
      BY <2>2, <2>4 DEF Moved
    <3>3. RegisterFor(s[j]) \in Registers
      BY Widths
    <3> QED  BY <2>1, <2>2, <2>4, <3>1, <3>2, <3>3
  <2> QED  BY <1>1, <2>2, <2>3, <2>4 DEF NonTopHold, y
<1>6. NonTopHold(p, Len(s), last)
  BY <1>2, <1>4, <1>5, NonTops!Invariant
<1>7. /\ Good(b, last) /\ Moved(c, last)
      /\ ~Failed(last) => \A j \in 1..2 : last.reg[RegisterFor(s[j])] \in {0, Len(c.stack)}
  BY <1>1, <1>2, <1>6 DEF NonTopHold
<1>8. \A r \in Registers : r = RegisterFor(s[1]) \/ r = RegisterFor(s[2])
  BY <1>2 DEF RegisterFor, IsFp, Registers
<1> HIDE DEF last
<1> QED  BY <1>3, <1>7, <1>8, 1 \in 1..2, 2 \in 1..2

\* CopyStackTopToRegister keeps the invariant.
LEMMA CopyTopToRegisterGood ==
  ASSUME NEW b, NEW c, Good(b, c)
  PROVE  Good(b, CopyTopToRegister(c)) /\ Moved(c, CopyTopToRegister(c))
<1> DEFINE d == PreserveRegister(c, TopType(c))
           e == LoadTop(d, TopType(c))
<1>1. Good(b, d) /\ Moved(c, d)
  BY PreserveRegisterGood
<1>2. Same(d, e)
  BY <1>1, LoadTopSame DEF Good
<1>3. Good(b, e)
  BY <1>1, <1>2, SameGood
<1>4. Moved(c, e)
  BY <1>1, <1>2, SameMoved, MovedTrans
<1>5. Moved(c, c)
  BY DEF Moved
<1> QED  BY <1>3, <1>4, <1>5 DEF CopyTopToRegister

\* UnwindBlockStack leaves the stack of the block as it was when the block was opened, with no
\* register taken.
LEMMA UnwindGood ==
  ASSUME NEW b, b.in = b.scopes, NEW c, Good(b, c)
  PROVE  /\ Good(b, Unwind(c))
         /\ ~Failed(Unwind(c)) =>
              /\ ~Failed(c) /\ Len(Unwind(c).stack) = Last(b.in).base
              /\ \A i \in 1..Last(b.in).base : Unwind(c).stack[i] = c.stack[i]
              /\ \A r \in Registers : Unwind(c).reg[r] = 0
<1>1. CASE Failed(c)
  BY <1>1 DEF Unwind
<1>2. CASE ~Failed(c)
  <2> DEFINE n == Len(c.stack) - Last(b.in).base
             d == Pops(c, n)
  <2>1. /\ n \in Nat /\ Block(c) = Last(b.in) /\ Len(c.stack) \in Nat /\ Last(b.in).base \in Nat
        /\ Last(b.in).base <= Len(c.stack)
    BY <1>2, GoodFacts DEF Block
  <2>2. Max({0, n}) = n
    BY <2>1, Pair
  <2>3. Unwind(c) = d
    BY <1>2, <2>1, <2>2 DEF Unwind
  <2> HIDE DEF d
  <2>4. Good(b, d) /\ Popped(b, c, d, n)
    BY <2>1, PopsGood DEF d
  <2>5. ASSUME ~Failed(d)
        PROVE  /\ Len(d.stack) = Last(b.in).base
               /\ \A i \in 1..Last(b.in).base : d.stack[i] = c.stack[i]
    BY <2>1, <2>4, <2>5 DEF Popped
  <2>6. ASSUME ~Failed(d), NEW r \in Registers  PROVE d.reg[r] = 0
    <3>1. RegistersFit(d.stack, d.reg, b.in)
      BY <2>4, <2>6, GoodFacts
    <3>2. d.reg[r] \in Nat /\ (d.reg[r] # 0 => Last(b.in).base < d.reg[r] /\ d.reg[r] <= Len(d.stack))
      BY <3>1 DEF RegistersFit
    <3> QED  BY <2>1, <2>5, <2>6, <3>2
  <2> QED  BY <1>2, <2>3, <2>4, <2>5, <2>6
<1> QED  BY <1>1, <1>2

------------------------------------------------------------------------------
(* Copy on write *)

\* Every block lies above the locals.
LEMMA AboveLocals ==
  ASSUME NEW scopes, ScopesFit(scopes), NEW k \in 1..Len(scopes)
  PROVE  scopes[k].base \in Nat /\ NumLocals <= scopes[k].base
<1>1. /\ Len(scopes) \in Nat /\ 1 \in 1..Len(scopes) /\ scopes[1].base = NumLocals
      /\ scopes[k].base \in Nat /\ NumLocals \in Nat
  BY ScopeFacts, Constants DEF ScopesFit
<1>2. CASE k = 1
  BY <1>1, <1>2
<1>3. CASE k # 1
  <2>1. 1 < k /\ k \in 2..Len(scopes)
    BY <1>1, <1>3
  <2>2. /\ scopes[1].base <= scopes[k].exit /\ scopes[k].exit \in Nat
        /\ scopes[k].base = scopes[k].exit + Len(scopes[k].type.results)
        /\ scopes[k].type \in Signature
    BY <1>1, <2>1 DEF ScopesFit
  <2>3. Len(scopes[k].type.results) \in Nat
    BY <2>2 DEF Signature
  <2> QED  BY <1>1, <2>2, <2>3
<1> QED  BY <1>2, <1>3

\* The operands that refer to a local are not locals themselves.
LEMMA RefsAboveLocals ==
  ASSUME NEW b, b.in = b.scopes, NEW c, Good(b, c), ~Failed(c), NEW i
  PROVE  References(c, i) \in SUBSET (NumLocals + 1 .. Len(c.stack))
<1>1. ScopesFit(c.scopes) /\ Len(c.stack) \in Nat /\ NumLocals \in Nat
  BY GoodFacts
<1> DEFINE S == {k \in 1..Len(c.scopes) : c.scopes[k].op # "block"}
<1>2. Len(c.scopes) \in Nat \ {0} /\ c.scopes[1].op = "function"
  BY <1>1, ScopeFacts DEF ScopesFit
<1>3. 1 \in S
  BY <1>2
<1>4. Max(S) \in S
  BY <1>2, <1>3, MaxIn, S \in SUBSET Nat, \A x \in S : x <= Len(c.scopes)
<1>5. FirstVisible(c) \in Nat /\ NumLocals <= FirstVisible(c)
  BY <1>1, <1>4, AboveLocals DEF FirstVisible
<1>6. \A k \in FirstVisible(c) + 1 .. Len(c.stack) : k \in NumLocals + 1 .. Len(c.stack)
  BY <1>1, <1>5
<1> QED  BY <1>6 DEF References

\* A stack after operands were given another slot.
LEMMA RenamedStack ==
  ASSUME NEW stack, IsSeq(stack), NEW refs, NEW slot, NEW s, s = Renamed(stack, refs, slot)
  PROVE  /\ IsSeq(s) /\ Len(s) = Len(stack)
         /\ \A k \in 1..Len(stack) : k \notin refs => s[k] = stack[k]
         /\ \A k \in 1..Len(stack) : k \in refs /\ DOMAIN stack[k] = EntryFields =>
              DOMAIN s[k] = EntryFields /\ s[k].slot = slot /\ s[k].type = stack[k].type
<1> DEFINE f == [k \in DOMAIN stack |->
                   IF k \in refs THEN [stack[k] EXCEPT !.slot = slot] ELSE stack[k]]
<1>1. DOMAIN f = DOMAIN stack /\ f = [k \in DOMAIN f |-> f[k]]
  OBVIOUS
<1>2. \A k \in DOMAIN stack : f[k] = IF k \in refs THEN [stack[k] EXCEPT !.slot = slot] ELSE stack[k]
  OBVIOUS
<1>3. s = SubSeq(f, 1, Len(stack))
  BY DEF Renamed
<1> HIDE DEF f
<1>4. IsSeq(f) /\ Len(f) = Len(stack) /\ DOMAIN stack = 1..Len(stack) /\ Len(stack) \in Nat
  BY <1>1, OnSamePlaces
<1>5. /\ IsSeq(SubSeq(f, 1, Len(stack))) /\ Len(SubSeq(f, 1, Len(stack))) = Len(stack)
      /\ \A k \in 1..Len(stack) : SubSeq(f, 1, Len(stack))[k] = f[k]
  BY <1>4, Cut
<1>6. \A k \in 1..Len(stack) : s[k] = f[k] /\ k \in DOMAIN stack
  BY <1>3, <1>4, <1>5
<1>7. ASSUME NEW k \in 1..Len(stack), k \in refs, DOMAIN stack[k] = EntryFields
      PROVE  DOMAIN s[k] = EntryFields /\ s[k].slot = slot /\ s[k].type = stack[k].type
  <2>1. s[k] = [stack[k] EXCEPT !.slot = slot]
    BY <1>2, <1>6, <1>7
  <2> QED  BY <1>7, <2>1 DEF EntryFields
<1> QED  BY <1>2, <1>3, <1>5, <1>6, <1>7

\* FindReferencedLocalWithinCurrentBlock and the copy that follows keep the invariant.
LEMMA PreserveGood ==
  ASSUME NEW b, b.in = b.scopes, NEW c, Good(b, c), NEW i \in 1..NumLocals
  PROVE  Good(b, Preserve(c, i)) /\ Moved(c, Preserve(c, i))
<1> DEFINE refs == References(c, i)
           t == c.stack[i].type
           s == SlotFor(c, t)
           d == Mark(c, s, t)
           f == [d EXCEPT !.stack = Renamed(c.stack, refs, s), !.count[s] = Cardinality(refs)]
           new == Preserve(c, i)
<1>1. CASE Failed(c) \/ refs = {}
  <2>1. new = c
    BY <1>1 DEF Preserve
  <2> QED  BY <2>1 DEF Moved
<1>2. CASE ~(Failed(c) \/ refs = {}) /\ ~HasSlot(c, t)
  <2>1. new = Fail(c, "functionStackOverflow")
    BY <1>2 DEF Preserve
  <2>2. Good(b, new) /\ Failed(new)
    BY <2>1, Fails, "functionStackOverflow" # "none" DEF Good
  <2> QED  BY <2>2 DEF Moved
<1>3. CASE ~(Failed(c) \/ refs = {}) /\ HasSlot(c, t)
  <2>1. /\ DOMAIN c = CompilationFields /\ StackFits(c.stack, c.const0) /\ IsSeq(c.stack)
        /\ Len(c.stack) \in Nat /\ ScopesFit(b.in) /\ RegistersFit(c.stack, c.reg, b.in)
        /\ Last(b.in).base \in Nat /\ Last(b.in).base <= Len(c.stack) /\ NumLocals \in Nat
        /\ c.count \in [Slots -> 0..MaxUsage] /\ c.reg \in [Registers -> Nat]
        /\ NumLocals <= Last(b.in).base /\ c.dyn \in Nat /\ c.const0 \in Nat /\ c.const0 <= c.dyn
    BY <1>3, GoodFacts
  <2>2. refs \in SUBSET (NumLocals + 1 .. Len(c.stack))
    BY <1>3, RefsAboveLocals
  <2>3. s \in Nat /\ c.dyn <= s /\ InFrame(s, t) /\ ~IsRegister(s) /\ c.const0 <= s /\ s \in Slots
    <3>1. s \in Nat /\ c.dyn <= s /\ InFrame(s, t) /\ ~IsRegister(s)
      BY <1>3, <2>1, SlotGiven
    <3> QED  BY <2>1, <3>1 DEF InFrame
  <2>4. Good(b, d) /\ OrFailed(c, d) /\ ~Failed(d)
    BY <1>3, <2>3, MarkGood
  <2>5. d.stack = c.stack /\ d.reg = c.reg
    BY <2>4 DEF OrFailed
  <2>6. CASE Cardinality(refs) > MaxUsage
    <3>1. new = Fail(d, "slot usage count overflow")
      BY <1>3, <2>6 DEF Preserve
    <3>2. DOMAIN d = CompilationFields /\ "slot usage count overflow" # "none"
      BY <2>4 DEF Good
    <3> HIDE DEF d, new
    <3>3. Good(b, new) /\ Failed(new)
      BY <3>1, <3>2, Fails
    <3> QED  BY <3>3 DEF Moved, new
  <2>7. CASE ~(Cardinality(refs) > MaxUsage)
    <3>1. new = Store(f, s, t, HeldAt(c, i))
      BY <1>3, <2>7 DEF Preserve
    <3>2. refs = {k \in refs : k \in NumLocals + 1 .. Len(c.stack) /\ c.stack[k].slot = c.stack[i].slot}
      BY <2>2 DEF References
    <3>3. Cardinality(refs) \in 0..MaxUsage
      <4>1. IsFiniteSet(1..Len(c.stack))
        <5>1. 1 \in Int /\ Len(c.stack) \in Int
          BY <2>1
        <5> QED  BY <5>1, FS_Interval
      <4>3. refs \subseteq 1..Len(c.stack)
        BY <2>1, <2>2
      <4>2. Cardinality(refs) \in Nat
        BY <4>1, <4>3, FS_Subset, FS_CardinalityType
      <4> QED  BY <2>7, <4>2, Constants
    <3> HIDE DEF refs, t, s, d
    <3>4. /\ DOMAIN d = CompilationFields /\ d.count \in [Slots -> 0..MaxUsage]
      BY <2>4, GoodFacts
    <3>5. /\ DOMAIN f = CompilationFields /\ f.stack = Renamed(c.stack, refs, s) /\ f.reg = c.reg
          /\ f.scopes = d.scopes /\ f.dyn = d.dyn /\ f.first = d.first /\ f.const0 = d.const0
          /\ f.maxConst = d.maxConst /\ f.path = d.path /\ f.result = d.result
          /\ f.count = [d.count EXCEPT ![s] = Cardinality(refs)]
      BY <2>5, <3>4 DEF CompilationFields
    <3>6. f.count \in [Slots -> 0..MaxUsage]
      <4>1. /\ d.count \in [Slots -> 0..MaxUsage] /\ s \in Slots /\ Cardinality(refs) \in 0..MaxUsage
            /\ f.count = [d.count EXCEPT ![s] = Cardinality(refs)]
        BY <2>3, <3>3, <3>4, <3>5
      <4> QED  BY <4>1
    <3> HIDE DEF f, new
    <3>7. /\ IsSeq(f.stack) /\ Len(f.stack) = Len(c.stack)
          /\ \A k \in 1..Len(c.stack) : k \notin refs => f.stack[k] = c.stack[k]
          /\ \A k \in 1..Len(c.stack) : k \in refs /\ DOMAIN c.stack[k] = EntryFields =>
               DOMAIN f.stack[k] = EntryFields /\ f.stack[k].slot = s /\ f.stack[k].type = c.stack[k].type
      BY <2>1, <3>5, RenamedStack
    <3>8. ASSUME NEW k \in 1..Len(c.stack), k \in refs
          PROVE  /\ DOMAIN f.stack[k] = EntryFields /\ f.stack[k].slot = s
                 /\ f.stack[k].type = c.stack[k].type
                 /\ c.stack[k].type = t /\ k > NumLocals /\ ~IsRegister(c.stack[k].slot)
      <4>1. /\ DOMAIN f.stack[k] = EntryFields /\ f.stack[k].slot = s
            /\ f.stack[k].type = c.stack[k].type
        BY <2>1, <3>7, <3>8 DEF StackFits
      <4>2. k \in NumLocals + 1 .. Len(c.stack) /\ c.stack[k].slot = c.stack[i].slot
        BY <3>2, <3>8
      <4>3. c.stack[k].type = t /\ c.stack[i].slot \in Slots
        BY <2>1, <4>2 DEF StackFits, t
      <4> QED  BY <2>1, <4>1, <4>2, <4>3, Constants
    <3>9. ASSUME NEW k \in 1..Len(c.stack)
          PROVE  /\ DOMAIN f.stack[k] = EntryFields /\ f.stack[k].type = c.stack[k].type
                 /\ \/ f.stack[k].slot = c.stack[k].slot
                    \/ /\ k > NumLocals /\ InFrame(f.stack[k].slot, f.stack[k].type)
                       /\ c.const0 <= f.stack[k].slot
      <4>1. CASE k \in refs
        BY <2>3, <3>8, <4>1
      <4>2. CASE k \notin refs
        BY <2>1, <3>7, <4>2 DEF StackFits
      <4> QED  BY <4>1, <4>2
    <3>10. c.const0 = d.const0 /\ Last(b.in).base <= Len(f.stack)
      BY <1>3, <2>1, <2>4, <3>7 DEF Good
    <3>11. StackFits(f.stack, f.const0)
      <4>1. f.const0 = c.const0
        BY <3>5, <3>10
      <4>2. StackFits(f.stack, c.const0)
        BY <2>1, <3>7, <3>9, StackMoved
      <4> QED  BY <4>1, <4>2
    <3>12. RegistersFit(f.stack, f.reg, b.in)
      <4>1. \A k \in 1..Len(f.stack) : f.stack[k].slot = c.stack[k].slot \/ ~IsRegister(f.stack[k].slot)
        BY <2>3, <3>7, <3>8
      <4>2. ASSUME NEW r \in Registers  PROVE StaysOrLeaves(f.reg, c.reg, r, f.stack)
        <5>1. ASSUME c.reg[r] # 0  PROVE f.stack[c.reg[r]].slot = r
          <6>1. c.reg[r] \in 1..Len(c.stack) /\ c.stack[c.reg[r]].slot = r
            BY <2>1, <5>1 DEF RegistersFit
          <6>2. c.reg[r] \notin refs
            BY <3>8, <6>1 DEF IsRegister
          <6> QED  BY <3>7, <6>1, <6>2
        <5> QED  BY <3>5, <5>1 DEF StaysOrLeaves
      <4>3. f.reg \in [Registers -> Nat]
        BY <2>1, <3>5
      <4> QED  BY <2>1, <3>7, <4>1, <4>2, <4>3, RegistersMoved
    <3>13. Good(b, f) /\ ~Failed(f)
      BY <2>4, <3>4, <3>5, <3>6, <3>10, <3>11, <3>12, GoodWith DEF Failed
    <3>14. Moved(c, f)
      BY <1>3, <3>5, <3>7, <3>9 DEF Moved
    <3>15. Good(b, new) /\ Same(f, new)
      BY <3>1, <3>13, EmitGood
    <3>16. Moved(c, new)
      BY <3>14, <3>15, SameMoved, MovedTrans
    <3> QED  BY <3>15, <3>16 DEF new
  <2> QED  BY <2>6, <2>7
<1> QED  BY <1>1, <1>2, <1>3

\* PreserveArgsAndLocals as a fold over the locals.
PreserveNext(p, c, i) == Preserve(c, i)
PreserveHolds(p, k, c) == Good(p.b, c) /\ Moved(p.c, c)
Preserving == INSTANCE Folding WITH Op <- PreserveNext, Good <- PreserveHolds

\* PreserveArgsAndLocals keeps the invariant.
LEMMA PreserveArgsAndLocalsGood ==
  ASSUME NEW b, b.in = b.scopes, NEW c, Good(b, c)
  PROVE  Good(b, PreserveArgsAndLocals(c)) /\ Moved(c, PreserveArgsAndLocals(c))
<1> DEFINE s == [i \in 1..NumLocals |-> i]
           p == [b |-> b, c |-> c]
           last == Preserving!Folded(p, c, s)
<1>1. p.b = b /\ p.c = c /\ Moved(c, c)
  BY DEF Moved
<1>2. s \in Seq(Nat) /\ Len(s) = NumLocals /\ NumLocals \in Nat /\ \A i \in 1..NumLocals : s[i] = i
  BY Constants, Numbers
<1>3. FoldLeft(LAMBDA x, i : Preserve(x, i), c, s) = last
  BY DEF PreserveNext, FoldLeft, MapThenFoldSet, Max,
         Preserving!Folded, Preserving!MapThenFoldSet, Preserving!Largest
<1> HIDE DEF p
<1>4. PreserveHolds(p, 0, c)
  BY <1>1 DEF PreserveHolds
<1>5. ASSUME NEW k \in 1..Len(s), NEW x, PreserveHolds(p, k - 1, x)
      PROVE  PreserveHolds(p, k, PreserveNext(p, x, s[k]))
  <2>1. Good(b, x) /\ Moved(c, x) /\ s[k] \in 1..NumLocals
    BY <1>1, <1>2, <1>5 DEF PreserveHolds
  <2>2. Good(b, Preserve(x, s[k])) /\ Moved(x, Preserve(x, s[k]))
    BY <2>1, PreserveGood
  <2>3. Moved(c, Preserve(x, s[k]))
    BY <2>1, <2>2, MovedTrans
  <2> QED  BY <1>1, <2>2, <2>3 DEF PreserveHolds, PreserveNext
<1>6. PreserveHolds(p, Len(s), last)
  BY <1>2, <1>4, <1>5, Preserving!Invariant
<1>7. Good(b, last) /\ Moved(c, last)
  BY <1>1, <1>6 DEF PreserveHolds
<1>8. CASE Len(c.stack) > c.first
  BY <1>3, <1>7, <1>8 DEF PreserveArgsAndLocals
<1>9. CASE ~(Len(c.stack) > c.first)
  BY <1>1, <1>9 DEF PreserveArgsAndLocals
<1> QED  BY <1>8, <1>9

------------------------------------------------------------------------------
(* Results and branches *)

\* PushBlockResults as a fold over the results: a register is taken by the last at most.
PushNext(p, c, i) ==
  IF i = Len(p.t.results) /\ IsFp(p.t.results[i])
  THEN PushRegister(c, p.t.results[i], Junk)
  ELSE PushAllocatedSlot(c, p.t.results[i], Junk)
PushHolds(p, k, c) ==
  /\ Good(p.b, c) /\ Pushed(p.c, c, k)
  /\ k < Len(p.t.results) => Failed(c) \/ c.reg = p.c.reg
Pushing == INSTANCE Folding WITH Op <- PushNext, Good <- PushHolds

\* Pushing k operands and one more pushes k + 1.
LEMMA PushedMore ==
  ASSUME NEW c, NEW d, NEW e, NEW k \in Nat, Pushed(c, d, k), Pushed(d, e, 1),
         Failed(c) \/ Len(c.stack) \in Nat, Failed(d) \/ Len(d.stack) \in Nat,
         Failed(d) \/ d.reg \in [Registers -> Nat], Failed(e) \/ e.reg \in [Registers -> Nat]
  PROVE  Pushed(c, e, k + 1)
<1>1. SUFFICES ASSUME ~Failed(e)
               PROVE  /\ ~Failed(c) /\ Len(e.stack) = Len(c.stack) + (k + 1)
                      /\ \A i \in 1..Len(c.stack) : e.stack[i] = c.stack[i]
                      /\ \A r \in Registers : e.reg[r] = c.reg[r] \/ e.reg[r] > Len(c.stack)
  BY DEF Pushed
<1>2. ~Failed(d) /\ ~Failed(c) /\ Len(d.stack) \in Nat /\ Len(c.stack) \in Nat
      /\ d.reg \in [Registers -> Nat] /\ e.reg \in [Registers -> Nat]
  BY <1>1 DEF Pushed
<1>3. /\ Len(d.stack) = Len(c.stack) + k
      /\ \A i \in 1..Len(c.stack) : d.stack[i] = c.stack[i]
      /\ \A r \in Registers : d.reg[r] = c.reg[r] \/ d.reg[r] > Len(c.stack)
  BY <1>2 DEF Pushed
<1>4. /\ Len(e.stack) = Len(d.stack) + 1
      /\ \A i \in 1..Len(d.stack) : e.stack[i] = d.stack[i]
      /\ \A r \in Registers : e.reg[r] = d.reg[r] \/ e.reg[r] > Len(d.stack)
  BY <1>1 DEF Pushed
<1>5. Len(e.stack) = Len(c.stack) + (k + 1)
  <2>1. /\ Len(d.stack) = Len(c.stack) + k /\ Len(e.stack) = Len(d.stack) + 1
        /\ Len(c.stack) \in Nat /\ k \in Nat
    BY <1>2, <1>3, <1>4
  <2>2. \A x \in Nat : x + k + 1 = x + (k + 1)
    OBVIOUS
  <2> QED  BY <2>1, <2>2
<1>6. \A i \in 1..Len(c.stack) : e.stack[i] = c.stack[i]
  <2>1. \A i \in 1..Len(c.stack) : i \in 1..Len(d.stack)
    BY <1>2, <1>3
  <2> QED  BY <1>3, <1>4, <2>1
<1>7. ASSUME NEW r \in Registers  PROVE e.reg[r] = c.reg[r] \/ e.reg[r] > Len(c.stack)
  <2>1. d.reg[r] \in Nat /\ e.reg[r] \in Nat
    BY <1>2
  <2>2. CASE e.reg[r] = d.reg[r]
    BY <1>3, <2>2
  <2>3. CASE e.reg[r] > Len(d.stack)
    BY <1>2, <1>3, <2>1, <2>3
  <2> QED  BY <1>4, <2>2, <2>3
<1> QED  BY <1>2, <1>5, <1>6, <1>7

\* A function type's results fit a fold.
LEMMA PushBlockResultsGood ==
  ASSUME NEW b, NEW c, Good(b, c), NEW t, Len(t.results) \in Nat, Free(b, c, "f64")
  PROVE  /\ Good(b, PushBlockResults(c, t))
         /\ Pushed(c, PushBlockResults(c, t), Len(t.results))
<1> DEFINE n == Len(t.results)
           s == [i \in 1..n |-> i]
           p == [b |-> b, c |-> c, t |-> t]
           last == Pushing!Folded(p, c, s)
<1>1. p.b = b /\ p.c = c /\ p.t = t
  OBVIOUS
<1>2. s \in Seq(Nat) /\ Len(s) = n /\ n \in Nat /\ \A i \in 1..n : s[i] = i
  BY Numbers
<1>3. PushBlockResults(c, p.t) = Pushing!Folded(p, c, [i \in 1..Len(p.t.results) |-> i])
  BY DEF PushBlockResults, PushNext, FoldLeft, MapThenFoldSet, Max,
         Pushing!Folded, Pushing!MapThenFoldSet, Pushing!Largest
<1>4. PushBlockResults(c, t) = last
  BY <1>1, <1>3
<1> HIDE DEF p, s
<1>5. PushHolds(p, 0, c)
  BY <1>1, GoodFacts, Untouched DEF PushHolds
<1>6. ASSUME NEW k \in 1..Len(s), NEW x, PushHolds(p, k - 1, x)
      PROVE  PushHolds(p, k, PushNext(p, x, s[k]))
  <2> DEFINE y == PushNext(p, x, s[k])
  <2>1. /\ Good(b, x) /\ Pushed(c, x, k - 1) /\ k \in 1..n /\ s[k] = k /\ k - 1 \in Nat
        /\ k - 1 + 1 = k
        /\ Failed(x) \/ x.reg = c.reg
    BY <1>1, <1>2, <1>6 DEF PushHolds
  <2>2. /\ Good(b, y) /\ Pushed(x, y, 1)
        /\ k < n => Failed(y) \/ y.reg = x.reg
    <3>1. CASE k = n /\ IsFp(t.results[k])
      <4>1. y = PushRegister(x, t.results[k], Junk)
        BY <1>1, <2>1, <3>1 DEF PushNext
      <4>2. RegisterFor(t.results[k]) = Fp0 /\ RegisterFor("f64") = Fp0
        BY <3>1 DEF RegisterFor, IsFp
      <4>3. Failed(x) \/ ~Failed(c)
        BY <2>1 DEF Pushed
      <4>4. Free(b, x, t.results[k])
        BY <2>1, <4>2, <4>3 DEF Free
      <4> QED  BY <1>2, <2>1, <3>1, <4>1, <4>4, PushRegisterGood
    <3>2. CASE ~(k = n /\ IsFp(t.results[k]))
      <4>1. y = PushAllocatedSlot(x, t.results[k], Junk)
        BY <1>1, <2>1, <3>2 DEF PushNext
      <4> QED  BY <2>1, <4>1, PushAllocatedSlotGood
    <3> QED  BY <3>1, <3>2
  <2> HIDE DEF y
  <2>3. /\ Failed(c) \/ Len(c.stack) \in Nat
        /\ Failed(x) \/ (Len(x.stack) \in Nat /\ x.reg \in [Registers -> Nat])
        /\ Failed(y) \/ y.reg \in [Registers -> Nat]
    BY <2>1, <2>2, GoodFacts
  <2>4. Pushed(c, y, k - 1 + 1)
    BY <2>1, <2>2, <2>3, PushedMore
  <2>5. k < n => Failed(y) \/ y.reg = c.reg
    BY <2>1, <2>2 DEF Pushed
  <2> QED  BY <1>1, <2>1, <2>2, <2>4, <2>5 DEF PushHolds, y
<1>7. PushHolds(p, Len(s), last)
  BY <1>2, <1>5, <1>6, Pushing!Invariant
<1> QED  BY <1>1, <1>2, <1>4, <1>7 DEF PushHolds

\* d differs from c in the stack, and in what the followed execution has.
Like(c, d) ==
  /\ DOMAIN d = DOMAIN c
  /\ d.count = c.count /\ d.reg = c.reg /\ d.scopes = c.scopes
  /\ d.dyn = c.dyn /\ d.first = c.first /\ d.const0 = c.const0 /\ d.maxConst = c.maxConst
  /\ d.path = c.path /\ d.result = c.result

\* What is like a compilation up to its stack stays so while the execution goes on.
LEMMA SameLike ==
  ASSUME NEW c, NEW d, NEW e, Like(c, d), Same(d, e)
  PROVE  Like(c, e)
BY DEF Like, Same

\* CopyStackSlotsR as a fold over the operands it copies.
CopyNext(p, acc, j) ==
  LET x == acc.c
      k == p.i + j
      to == x.stack[p.target + j].slot
      wide == Width(x.stack[k].type) - 1
      hit == {m \in k + 1 .. p.i + p.n - 1 :
                LET s == x.stack[m].slot
                IN to = s \/ to = s + Width(x.stack[m].type) - 1 \/ to + wide = s}
      h == Min(hit)
      moved == [CopyToSlot(x, acc.temp, h) EXCEPT !.stack[h].slot = acc.temp]
  IN IF Failed(x) \/ to = x.stack[k].slot THEN acc
     ELSE IF hit = {} THEN [acc EXCEPT !.c = CopyToSlot(x, to, k)]
     ELSE [c |-> CopyToSlot(moved, to, k), temp |-> acc.temp + 2]
CopyHolds(p, k, acc) == DOMAIN acc = {"c", "temp"} /\ Like(p.c, acc.c)
Copying == INSTANCE Folding WITH Op <- CopyNext, Good <- CopyHolds

\* CopyStackSlotsR changes what the execution has, and gives every operand its slot back.
LEMMA CopyStackSlotsSame ==
  ASSUME NEW c, DOMAIN c = CompilationFields, NEW target, NEW i, NEW n \in Nat
  PROVE  Same(c, CopyStackSlots(c, target, i, n))
<1> DEFINE p == [c |-> c, target |-> target, i |-> i, n |-> n]
           s == [j \in 1..n |-> j - 1]
           base == [c |-> c, temp |-> MaxFunctionSlots]
           last == Copying!Folded(p, base, s)
<1>1. p.c = c /\ p.target = target /\ p.i = i /\ p.n = n
  OBVIOUS
<1>2. s \in Seq(Int)
  OBVIOUS
<1>3. CopyStackSlots(c, p.target, p.i, p.n) =
        [Copying!Folded(p, base, [j \in 1..p.n |-> j - 1]).c EXCEPT !.stack = c.stack]
  BY DEF CopyStackSlots, CopyNext, FoldLeft, MapThenFoldSet, Max,
         Copying!Folded, Copying!MapThenFoldSet, Copying!Largest
<1>4. CopyStackSlots(c, target, i, n) = [last.c EXCEPT !.stack = c.stack]
  BY <1>1, <1>3
<1>5. CopyHolds(p, 0, base)
  BY DEF CopyHolds, Like
<1> HIDE DEF p, s, base
<1>6. ASSUME NEW k \in 1..Len(s), NEW acc, CopyHolds(p, k - 1, acc)
      PROVE  CopyHolds(p, k, CopyNext(p, acc, s[k]))
  <2> DEFINE j == s[k]
             x == acc.c
             m == p.i + j
             to == x.stack[p.target + j].slot
             wide == Width(x.stack[m].type) - 1
             hit == {q \in m + 1 .. p.i + p.n - 1 :
                       LET z == x.stack[q].slot
                       IN to = z \/ to = z + Width(x.stack[q].type) - 1 \/ to + wide = z}
             h == Min(hit)
             moved == [CopyToSlot(x, acc.temp, h) EXCEPT !.stack[h].slot = acc.temp]
             y == CopyNext(p, acc, j)
  <2>1. /\ y = acc
        \/ y = [acc EXCEPT !.c = CopyToSlot(x, to, m)]
        \/ y = [c |-> CopyToSlot(moved, to, m), temp |-> acc.temp + 2]
    BY DEF CopyNext
  <2> HIDE DEF y, hit, h, to, m, j
  <2>2. DOMAIN acc = {"c", "temp"} /\ Like(c, x) /\ DOMAIN x = CompilationFields
    BY <1>1, <1>6 DEF CopyHolds, Like
  <2> HIDE DEF x
  <2>3. CASE y = [acc EXCEPT !.c = CopyToSlot(x, to, m)]
    <3>1. Same(x, CopyToSlot(x, to, m))
      BY <2>2, CopyToSlotSame
    <3>2. DOMAIN y = {"c", "temp"} /\ y.c = CopyToSlot(x, to, m)
      BY <2>2, <2>3
    <3> QED  BY <1>1, <2>2, <3>1, <3>2, SameLike DEF CopyHolds, y, j
  <2>4. CASE y = [c |-> CopyToSlot(moved, to, m), temp |-> acc.temp + 2]
    <3> DEFINE z == CopyToSlot(x, acc.temp, h)
    <3>1. Same(x, z)
      BY <2>2, CopyToSlotSame
    <3> HIDE DEF z
    <3>2. Like(c, z) /\ DOMAIN z = CompilationFields
      BY <2>2, <3>1, SameLike DEF Same
    <3>3. moved = [z EXCEPT !.stack[h].slot = acc.temp]
      BY DEF z
    <3> HIDE DEF moved
    <3>4. Like(c, moved) /\ DOMAIN moved = CompilationFields
      BY <3>2, <3>3 DEF Like, CompilationFields
    <3>5. Same(moved, CopyToSlot(moved, to, m))
      BY <3>4, CopyToSlotSame
    <3>6. DOMAIN y = {"c", "temp"} /\ y.c = CopyToSlot(moved, to, m)
      BY <2>4
    <3> QED  BY <1>1, <3>4, <3>5, <3>6, SameLike DEF CopyHolds, y, j
  <2> QED  BY <1>1, <1>6, <2>1, <2>3, <2>4 DEF CopyHolds, y, j
<1>7. CopyHolds(p, Len(s), last)
  BY <1>2, <1>5, <1>6, Copying!Invariant
<1>8. Like(c, last.c)
  BY <1>1, <1>7 DEF CopyHolds
<1> HIDE DEF last
<1>9. Same(c, [last.c EXCEPT !.stack = c.stack])
  BY <1>8 DEF Like, Same, CompilationFields
<1> QED  BY <1>4, <1>9

\* d differs from c in the way the followed execution takes, too.
SamePlaces(c, d) ==
  /\ DOMAIN d = DOMAIN c
  /\ d.stack = c.stack /\ d.count = c.count /\ d.reg = c.reg /\ d.scopes = c.scopes
  /\ d.dyn = c.dyn /\ d.first = c.first /\ d.const0 = c.const0 /\ d.maxConst = c.maxConst
  /\ d.result = c.result

\* Where the execution is going does not disturb the invariant.
LEMMA WayGood ==
  ASSUME NEW b, NEW c, Good(b, c), NEW d, SamePlaces(c, d), Failed(c) \/ d.path \in Paths
  PROVE  Good(b, d)
BY DEF Good, FitIn, SamePlaces, Failed

\* The ways an execution can go.
LEMMA Ways ==
  /\ Here \in Paths /\ Gone \in Paths
  /\ \A k \in 2..MaxDepth : ToEnd(k) \in Paths /\ ToElse(k) \in Paths
  /\ \A b, c : Good(b, c) => Failed(c) \/ c.path \in Paths
<1>1. Here \in Paths /\ Gone \in Paths
  BY DEF Paths
<1>2. ASSUME NEW k \in 2..MaxDepth  PROVE ToEnd(k) \in Paths /\ ToElse(k) \in Paths
  BY DEF Paths, ToEnd, ToElse
<1>3. \A b, c : Good(b, c) => Failed(c) \/ c.path \in Paths
  BY DEF Good, FitIn
<1> QED  BY <1>1, <1>2, <1>3

\* An execution that turns there disturbs nothing.
LEMMA TurnGood ==
  ASSUME NEW b, NEW c, Good(b, c), NEW path, Failed(c) \/ path \in Paths
  PROVE  Good(b, [c EXCEPT !.path = path]) /\ SamePlaces(c, [c EXCEPT !.path = path])
<1> DEFINE d == [c EXCEPT !.path = path]
<1>1. DOMAIN c = CompilationFields
  BY DEF Good
<1>2. SamePlaces(c, d) /\ d.path = path
  BY <1>1 DEF SamePlaces, CompilationFields
<1> HIDE DEF d
<1>3. Good(b, d)
  BY <1>2, WayGood
<1> QED  BY <1>2, <1>3 DEF d

\* Comparing values keeps the invariant.
LEMMA ObserveGood ==
  ASSUME NEW b, NEW c, Good(b, c), NEW want, NEW got
  PROVE  Good(b, Observe(c, want, got)) /\ Same(c, Observe(c, want, got))
<1>1. Same(c, Observe(c, want, got))
  BY ObserveSame DEF Good
<1> QED  BY <1>1, SameGood

\* So does using operands.
LEMMA UsedGood ==
  ASSUME NEW b, NEW c, Good(b, c), NEW n
  PROVE  Good(b, Used(c, n)) /\ Same(c, Used(c, n))
BY ObserveGood DEF Used

\* The types of a block are sequences.
LEMMA ScopeTypes ==
  ASSUME NEW scopes, ScopesFit(scopes), NEW k \in 1..Len(scopes)
  PROVE  /\ Len(scopes[k].type.params) \in Nat /\ Len(scopes[k].type.results) \in Nat
         /\ Len(LabelTypes(scopes[k])) \in Nat
<1>1. scopes[k].type \in Signature
  BY DEF ScopesFit
<1>2. scopes[k].type.params \in Seq(ValueType) /\ scopes[k].type.results \in Seq(ValueType)
  BY <1>1 DEF Signature
<1> QED  BY <1>2 DEF LabelTypes

\* ResolveBlockResults keeps the invariant.
LEMMA ResolveBlockResultsGood ==
  ASSUME NEW b, b.in = b.scopes, NEW c, Good(b, c), NEW k, Failed(c) \/ k \in 1..Len(c.scopes),
         NEW isBranch
  PROVE  Good(b, ResolveBlockResults(c, k, isBranch))
<1> DEFINE s == c.scopes[k]
           isLoop == s.op = "loop" /\ isBranch
           n == IF isLoop THEN Len(s.type.params) ELSE Len(s.type.results)
           records == s.exit + IF isLoop THEN 0 ELSE Len(s.type.params)
           inFp == ~isLoop /\ IsFp(TopType(c))
           d == IF inFp THEN CopyTopToRegister(c) ELSE c
           from == Len(d.stack) - n + (IF inFp THEN 0 ELSE 1)
           new == ResolveBlockResults(c, k, isBranch)
<1>1. CASE Failed(c)
  BY <1>1 DEF ResolveBlockResults
<1>2. CASE ~Failed(c)
  <2>1. n \in Nat /\ DOMAIN c = CompilationFields
    <3>1. ScopesFit(c.scopes) /\ DOMAIN c = CompilationFields
      BY <1>2, GoodFacts
    <3> QED  BY <1>2, <3>1, ScopeTypes
  <2>2. Good(b, d) /\ DOMAIN d = CompilationFields
    BY CopyTopToRegisterGood DEF Good
  <2>3. \/ new = Fail(c, "typeCountMismatch")
        \/ new = c
        \/ new = IF Failed(d) THEN d ELSE CopyStackSlots(d, records + 1, from, n)
    BY <1>2 DEF ResolveBlockResults
  <2> HIDE DEF new, n, records, from, d
  <2>4. Good(b, Fail(c, "typeCountMismatch"))
    BY <2>1, Fails, "typeCountMismatch" # "none"
  <2>5. Same(d, CopyStackSlots(d, records + 1, from, n))
    BY <2>1, <2>2, CopyStackSlotsSame
  <2>6. Good(b, CopyStackSlots(d, records + 1, from, n))
    BY <2>2, <2>5, SameGood
  <2> QED  BY <2>2, <2>3, <2>4, <2>6 DEF new
<1> QED  BY <1>1, <1>2

\* ReturnValues as a fold over the results.
ReturnNext(p, c, j) == CopyToSlot(c, IoSlots * (Len(Results) - j), Len(p.stack) - j + 1)
ReturnHolds(p, k, c) == Same(p, c)
Returning == INSTANCE Folding WITH Op <- ReturnNext, Good <- ReturnHolds

\* ReturnValues keeps the invariant.
LEMMA ReturnValuesGood ==
  ASSUME NEW b, b.in = b.scopes, NEW c, Good(b, c), NEW isBranch
  PROVE  Good(b, ReturnValues(c, isBranch))
<1> DEFINE n == Len(Results)
           s == [j \in 1..n |-> j]
           last == Returning!Folded(c, c, s)
           seen == Observe(last, TopVals(c, n), [j \in 1..n |-> Held(last, IoSlots * (j - 1), Results[j])])
           new == ReturnValues(c, isBranch)
<1>1. n \in Nat
  BY CompilerAssumption
<1>2. s \in Seq(Nat) /\ Len(s) = n
  BY <1>1, Numbers
<1>3. FoldLeft(LAMBDA x, j : CopyToSlot(x, IoSlots * (Len(Results) - j), Len(c.stack) - j + 1), c, s) = last
  BY DEF ReturnNext, FoldLeft, MapThenFoldSet, Max,
         Returning!Folded, Returning!MapThenFoldSet, Returning!Largest
<1>4. \/ new = c
      \/ new = Fail(c, "typeCountMismatch")
      \/ new = seen
      \/ new = Pops(seen, n)
      \/ new = Pops(c, n)
  BY <1>3 DEF ReturnValues
<1> HIDE DEF s
<1>5. ReturnHolds(c, 0, c) /\ DOMAIN c = CompilationFields
  BY DEF ReturnHolds, Same, Good
<1>6. ASSUME NEW k \in 1..Len(s), NEW x, ReturnHolds(c, k - 1, x)
      PROVE  ReturnHolds(c, k, ReturnNext(c, x, s[k]))
  <2>1. Same(c, x) /\ DOMAIN x = CompilationFields
    BY <1>5, <1>6 DEF ReturnHolds, Same
  <2>2. Same(x, ReturnNext(c, x, s[k]))
    BY <2>1, CopyToSlotSame DEF ReturnNext
  <2> QED  BY <2>1, <2>2, SameTrans DEF ReturnHolds
<1>7. ReturnHolds(c, Len(s), last)
  BY <1>2, <1>5, <1>6, Returning!Invariant
<1>8. Good(b, last)
  BY <1>7, SameGood DEF ReturnHolds
<1> HIDE DEF last, n
<1>9. Good(b, seen)
  BY <1>8, ObserveGood
<1> HIDE DEF seen, new
<1>10. Good(b, Pops(seen, n)) /\ Good(b, Pops(c, n))
  BY <1>1, <1>9, PopsGood
<1>11. Good(b, Fail(c, "typeCountMismatch"))
  BY <1>5, Fails, "typeCountMismatch" # "none"
<1> QED  BY <1>4, <1>9, <1>10, <1>11 DEF new

\* A jump changes where the execution is going.
LEMMA JumpGood ==
  ASSUME NEW b, b.in = b.scopes, NEW c, Good(b, c), NEW k, Failed(c) \/ k \in 1..Len(c.scopes)
  PROVE  Good(b, Jump(c, k)) /\ SamePlaces(c, Jump(c, k))
<1> DEFINE s == c.scopes[k]
           n == Len(LabelTypes(s))
           landing == [j \in 1..n |-> HeldAt(c, s.exit + j)]
           seen == Observe(Observe(c, TopVals(c, n), landing), Under(c, s.exit), Kept(c, s.exit))
           gone == [c EXCEPT !.path = Gone]
           again == [seen EXCEPT !.path = Gone]
           ended == [c EXCEPT !.path = ToEnd(k), !.carry = TopVals(c, n)]
           new == Jump(c, k)
<1>1. \/ new = c
      \/ k = 1 /\ new = gone
      \/ ~Failed(c) /\ new = again
      \/ ~Failed(c) /\ k # 1 /\ new = ended
  BY DEF Jump
<1>2. Good(b, gone) /\ SamePlaces(c, gone)
  BY TurnGood, Ways
<1>3. Good(b, seen) /\ Same(c, seen)
  <2> DEFINE x == Observe(c, TopVals(c, n), landing)
             y == Observe(x, Under(c, s.exit), Kept(c, s.exit))
  <2>1. Good(b, x) /\ Same(c, x)
    BY ObserveGood
  <2> HIDE DEF x
  <2>2. Good(b, y) /\ Same(x, y)
    BY <2>1, ObserveGood
  <2>3. seen = y
    BY DEF x
  <2> QED  BY <2>1, <2>2, <2>3, SameTrans
<1> HIDE DEF seen, gone
<1>4. Good(b, again) /\ SamePlaces(seen, again)
  BY <1>3, TurnGood, Ways
<1>5. SamePlaces(c, again)
  BY <1>3, <1>4 DEF Same, SamePlaces
<1>6. ASSUME ~Failed(c), k # 1  PROVE Good(b, ended) /\ SamePlaces(c, ended)
  <2>1. DOMAIN c = CompilationFields /\ k \in 2..MaxDepth
    <3>1. ScopesFit(c.scopes) /\ DOMAIN c = CompilationFields
      BY <1>6, GoodFacts
    <3>2. Len(c.scopes) \in 1..MaxDepth /\ MaxDepth \in Nat
      BY <3>1, Constants DEF ScopesFit
    <3> QED  BY <1>6, <3>1, <3>2
  <2>2. SamePlaces(c, ended) /\ ended.path = ToEnd(k)
    BY <2>1 DEF SamePlaces, CompilationFields
  <2>3. ended.path \in Paths
    BY <2>1, <2>2, Ways
  <2> HIDE DEF ended
  <2> QED  BY <2>2, <2>3, WayGood
<1>7. SamePlaces(c, c)
  BY DEF SamePlaces
<1> HIDE DEF again, ended, new
<1> QED  BY <1>1, <1>2, <1>4, <1>5, <1>6, <1>7 DEF new

\* The code of a branch keeps the invariant.
LEMMA BranchCodeGood ==
  ASSUME NEW b, b.in = b.scopes, NEW c, Good(b, c), NEW k, k \in 1..Len(b.scopes)
  PROVE  Good(b, BranchCode(c, k))
<1> DEFINE d == IF k = 1 THEN ReturnValues(c, TRUE) ELSE ResolveBlockResults(c, k, TRUE)
<1>1. Failed(c) \/ k \in 1..Len(c.scopes)
  BY DEF Good
<1>2. Good(b, d)
  BY <1>1, ReturnValuesGood, ResolveBlockResultsGood
<1> HIDE DEF d
<1>3. Failed(d) \/ k \in 1..Len(d.scopes)
  BY <1>2 DEF Good
<1>4. Good(b, Jump(d, k))
  BY <1>2, <1>3, JumpGood
<1>5. BranchCode(c, k) = c \/ BranchCode(c, k) = Jump(d, k)
  BY DEF BranchCode, d
<1> QED  BY <1>4, <1>5

\* So does code that is not executed.
LEMMA AsideGood ==
  ASSUME NEW b, NEW c, Good(b, c)
  PROVE  Good(b, Aside(c)) /\ SamePlaces(c, Aside(c))
<1>1. Failed(c) \/ (IF Running(c) THEN Gone ELSE c.path) \in Paths
  BY Ways
<1>2. Aside(c) = [c EXCEPT !.path = IF Running(c) THEN Gone ELSE c.path]
  BY DEF Aside
<1> QED  BY <1>1, <1>2, TurnGood

\* So does taking up the execution where it was.
LEMMA BackGood ==
  ASSUME NEW b, NEW c, Good(b, c), NEW d, Good(b, d), Failed(c) => Failed(d)
  PROVE  Good(b, Back(d, c)) /\ SamePlaces(d, Back(d, c))
<1>1. Failed(d) \/ c.path \in Paths
  BY Ways
<1> QED  BY <1>1, TurnGood DEF Back

------------------------------------------------------------------------------
(* Compilations that fit their own blocks *)

\* c has failed or has the invariant.
Sound(c) == DOMAIN c = CompilationFields /\ (~Failed(c) => Fit(c))

\* What fits its own blocks fits around them.
LEMMA SoundGood ==
  ASSUME NEW c, Sound(c)
  PROVE  /\ Good(Around(c), c) /\ Around(c).in = Around(c).scopes
         /\ Around(c).in = c.scopes /\ Around(c).scopes = c.scopes
BY DEF Sound, Good, Around, Fit

\* And the other way round.
LEMMA GoodSound ==
  ASSUME NEW b, b.in = b.scopes, NEW c, Good(b, c)
  PROVE  Sound(c)
BY DEF Sound, Good, Fit

\* d has other values, and may be on another way.
OtherValues(c, d) ==
  /\ DOMAIN d = DOMAIN c
  /\ DOMAIN d.stack = DOMAIN c.stack /\ d.stack = [i \in DOMAIN d.stack |-> d.stack[i]]
  /\ \A i \in DOMAIN c.stack :
       /\ DOMAIN d.stack[i] = DOMAIN c.stack[i]
       /\ d.stack[i].slot = c.stack[i].slot /\ d.stack[i].type = c.stack[i].type
  /\ d.count = c.count /\ d.reg = c.reg /\ d.scopes = c.scopes
  /\ d.dyn = c.dyn /\ d.first = c.first /\ d.const0 = c.const0 /\ d.maxConst = c.maxConst
  /\ d.result = c.result

\* What the invariant says does not depend on the values operands have.
LEMMA OtherValuesGood ==
  ASSUME NEW b, NEW c, Good(b, c), ~Failed(c), NEW d, OtherValues(c, d), d.path \in Paths
  PROVE  Good(b, d) /\ Len(d.stack) = Len(c.stack)
<1>1. /\ DOMAIN c = CompilationFields /\ StackFits(c.stack, c.const0) /\ IsSeq(c.stack)
      /\ RegistersFit(c.stack, c.reg, b.in) /\ c.reg \in [Registers -> Nat]
      /\ Last(b.in).base <= Len(c.stack) /\ c.const0 \in Nat /\ Len(c.stack) \in Nat
      /\ Last(b.in).base \in Nat
  BY GoodFacts
<1>2. IsSeq(d.stack) /\ Len(d.stack) = Len(c.stack) /\ DOMAIN c.stack = 1..Len(c.stack)
  BY <1>1, OnSamePlaces DEF OtherValues
<1>3. \A i \in 1..Len(c.stack) :
        /\ DOMAIN d.stack[i] = EntryFields /\ d.stack[i].type = c.stack[i].type
        /\ d.stack[i].slot = c.stack[i].slot
  BY <1>1, <1>2 DEF OtherValues, StackFits
<1>4. StackFits(d.stack, d.const0)
  <2>1. StackFits(d.stack, c.const0)
    BY <1>1, <1>2, <1>3, StackMoved
  <2> QED  BY <2>1 DEF OtherValues
<1>5. RegistersFit(d.stack, d.reg, b.in)
  <2>1. ASSUME NEW r \in Registers  PROVE StaysOrLeaves(c.reg, c.reg, r, d.stack)
    <3>1. ASSUME c.reg[r] # 0  PROVE d.stack[c.reg[r]].slot = r
      <4>1. c.reg[r] \in 1..Len(c.stack) /\ c.stack[c.reg[r]].slot = r
        BY <1>1, <3>1 DEF RegistersFit
      <4> QED  BY <1>3, <4>1
    <3> QED  BY <3>1 DEF StaysOrLeaves
  <2>2. RegistersFit(d.stack, c.reg, b.in)
    <3>1. \A i \in 1..Len(d.stack) : d.stack[i].slot = c.stack[i].slot \/ ~IsRegister(d.stack[i].slot)
      BY <1>2, <1>3
    <3> QED  BY <1>1, <1>2, <2>1, <3>1, RegistersMoved
  <2> QED  BY <2>2 DEF OtherValues
<1>6. FitIn(c, b.in) /\ c.scopes = b.scopes /\ c.dyn = b.dyn /\ c.const0 = b.const0
  BY DEF Good
<1>7. FitIn(d, b.in)
  BY <1>1, <1>2, <1>4, <1>5, <1>6 DEF OtherValues, FitIn
<1> QED  BY <1>1, <1>2, <1>6, <1>7 DEF OtherValues, Good

------------------------------------------------------------------------------
(* Blocks *)

\* The code from here to the end of the innermost block is dead.
LEMMA PolyFits ==
  ASSUME NEW scopes, ScopesFit(scopes), NEW stack, NEW reg, RegistersFit(stack, reg, scopes),
         NEW new, new = [scopes EXCEPT ![Len(scopes)].poly = TRUE]
  PROVE  ScopesFit(new) /\ RegistersFit(stack, reg, new) /\ Last(new).base = Last(scopes).base
<1> DEFINE n == Len(scopes)
<1>1. n \in Nat \ {0} /\ n \in 1..MaxDepth /\ IsSeq(scopes)
  BY ScopeFacts DEF ScopesFit
<1>2. DOMAIN scopes = 1..n
  BY <1>1 DEF IsSeq
<1>3. IsSeq(new) /\ Len(new) = n
  <2>1. DOMAIN new = DOMAIN scopes /\ new = [k \in DOMAIN new |-> new[k]]
    BY DEF IsSeq
  <2> QED  BY <1>1, <2>1, OnSamePlaces
<1>4. /\ new[n] = [scopes[n] EXCEPT !.poly = TRUE]
      /\ \A k \in 1..n : k # n => new[k] = scopes[k]
  <2>1. new = [scopes EXCEPT ![n] = [scopes[n] EXCEPT !.poly = TRUE]] /\ n \in DOMAIN scopes
    BY <1>1, <1>2
  <2> HIDE DEF n
  <2> QED  BY <1>2, <2>1
<1>5. \A k \in 1..n : DOMAIN scopes[k] = ScopeFields /\ scopes[k].poly \in BOOLEAN
  BY DEF ScopesFit
<1>6. ASSUME NEW k \in 1..n
      PROVE  /\ DOMAIN new[k] = ScopeFields /\ new[k].op = scopes[k].op
             /\ new[k].type = scopes[k].type /\ new[k].exit = scopes[k].exit
             /\ new[k].base = scopes[k].base /\ new[k].entry = scopes[k].entry
             /\ new[k].poly \in BOOLEAN /\ (scopes[k].poly => new[k].poly)
             /\ (k # n => new[k].poly = scopes[k].poly) /\ (k = n => new[k].poly)
  <2> HIDE DEF n
  <2>1. CASE k = n
    <3>1. new[k].poly
      <4>1. new[k] = [scopes[k] EXCEPT !.poly = TRUE] /\ "poly" \in DOMAIN scopes[k]
        BY <1>4, <1>5, <2>1 DEF ScopeFields
      <4> QED  BY <4>1, Zenon
    <3>2. new[k].poly \in BOOLEAN
      BY <1>4, <1>5, <2>1 DEF ScopeFields
    <3>3. /\ DOMAIN new[k] = ScopeFields /\ new[k].op = scopes[k].op
          /\ new[k].type = scopes[k].type /\ new[k].exit = scopes[k].exit
          /\ new[k].base = scopes[k].base /\ new[k].entry = scopes[k].entry
      BY <1>4, <1>5, <2>1 DEF ScopeFields
    <3> QED  BY <2>1, <3>1, <3>2, <3>3
  <2>2. CASE k # n
    BY <1>4, <1>5, <2>2
  <2> QED  BY <2>1, <2>2
<1> HIDE DEF n
<1>7. Last(new).base = Last(scopes).base
  <2>1. Last(new) = new[n] /\ Last(scopes) = scopes[n] /\ n \in 1..n
    BY <1>1, <1>3 DEF Last, n
  <2> QED  BY <1>6, <2>1
<1>8. ScopesFit(new)
  <2>1. \A k \in 1..n :
          /\ DOMAIN new[k] = ScopeFields /\ new[k].type \in Signature
          /\ new[k].exit \in Nat /\ new[k].base \in Nat /\ new[k].poly \in BOOLEAN
    BY <1>5, <1>6 DEF ScopesFit, n
  <2>2. new[1].op = "function" /\ new[1].base = NumLocals
    <3>1. 1 \in 1..n
      BY <1>1
    <3> QED  BY <1>6, <3>1 DEF ScopesFit
  <2>3. \A k \in 2..n :
          /\ new[k].type \in BlockTypes /\ new[k].entry = new[k].exit
          /\ new[k].base = new[k].exit + Len(new[k].type.results)
    <3>1. \A k \in 2..n : k \in 1..n
      BY <1>1
    <3> QED  BY <1>6, <3>1 DEF ScopesFit, n
  <2>4. \A j, k \in 1..n :
          j < k => new[j].base <= new[k].exit /\ (new[j].poly => new[k].poly)
    <3>1. \A j, k \in 1..n : j < k => j # n
      BY <1>1
    <3>2. \A j, k \in 1..n :
            j < k => scopes[j].base <= scopes[k].exit /\ (scopes[j].poly => scopes[k].poly)
      BY DEF ScopesFit, n
    <3> QED  BY <1>6, <3>1, <3>2
  <2> QED  BY <1>1, <1>3, <2>1, <2>2, <2>3, <2>4 DEF ScopesFit
<1>9. \A i : (InUse(i, new) => InUse(i, scopes)) /\ (Dead(i, scopes) => Dead(i, new))
  <2>1. \A k \in 2..n : k \in 1..n
    BY <1>1
  <2> QED  BY <1>3, <1>6, <2>1 DEF InUse, Dead, n
<1> QED  BY <1>7, <1>8, <1>9 DEF RegistersFit

\* Code may become dead at any time: dead code is asked less.
LEMMA PolySound ==
  ASSUME NEW c, Sound(c)
  PROVE  Sound([c EXCEPT !.scopes[Len(c.scopes)].poly = TRUE])
<1> DEFINE d == [c EXCEPT !.scopes[Len(c.scopes)].poly = TRUE]
<1>1. DOMAIN c = CompilationFields
  BY DEF Sound
<1>2. /\ DOMAIN d = CompilationFields /\ d.scopes = [c.scopes EXCEPT ![Len(c.scopes)].poly = TRUE]
      /\ d.stack = c.stack /\ d.count = c.count /\ d.reg = c.reg
      /\ d.dyn = c.dyn /\ d.first = c.first /\ d.const0 = c.const0 /\ d.maxConst = c.maxConst
      /\ d.path = c.path /\ d.result = c.result
  BY <1>1 DEF CompilationFields
<1> HIDE DEF d
<1>3. ASSUME ~Failed(d)  PROVE Fit(d)
  <2>1. Fit(c)
    BY <1>2, <1>3 DEF Sound, Failed
  <2>2. /\ ScopesFit(d.scopes) /\ RegistersFit(d.stack, d.reg, d.scopes)
        /\ Last(d.scopes).base = Last(c.scopes).base
    BY <1>2, <2>1, PolyFits DEF Fit, FitIn
  <2> QED  BY <1>2, <2>1, <2>2 DEF Fit, FitIn
<1> QED  BY <1>2, <1>3 DEF Sound, d

\* UnwindBlockStack keeps the invariant.
LEMMA UnwindSound ==
  ASSUME NEW c, Sound(c)
  PROVE  Sound(Unwind(c))
BY SoundGood, UnwindGood, GoodSound

\* SetStackPolymorphic keeps the invariant.
LEMMA SetPolymorphicSound ==
  ASSUME NEW c, Sound(c)
  PROVE  Sound(SetPolymorphic(c))
<1>1. Sound(Unwind([c EXCEPT !.scopes[Len(c.scopes)].poly = TRUE]))
  BY PolySound, UnwindSound
<1> QED  BY <1>1 DEF SetPolymorphic

\* The types of blocks and of called functions are sequences of value types.
LEMMA Types ==
  /\ \A t \in BlockTypes : t \in Signature /\ Len(t.params) \in Nat /\ Len(t.results) \in Nat
  /\ \A t \in CallTypes : t \in Signature /\ Len(t.params) \in Nat /\ Len(t.results) \in Nat
<1>1. BlockTypes \subseteq Signature /\ CallTypes \subseteq Signature
  BY CompilerAssumption
<1>2. \A t \in Signature : Len(t.params) \in Nat /\ Len(t.results) \in Nat
  BY DEF Signature
<1> QED  BY <1>1, <1>2

\* What is left of the stack when the innermost block is left.
LEMMA LeftFits ==
  ASSUME NEW scopes, ScopesFit(scopes), Len(scopes) # 1, NEW stack, NEW const0, NEW reg,
         StackFits(stack, const0), RegistersFit(stack, reg, scopes),
         \A r \in Registers : reg[r] = 0,
         NEW s, IsSeq(s), Len(s) = Last(scopes).exit, Len(s) <= Len(stack),
         \A i \in 1..Len(s) : s[i] = stack[i]
  PROVE  /\ ScopesFit(Front(scopes)) /\ StackFits(s, const0)
         /\ RegistersFit(s, reg, Front(scopes)) /\ Last(Front(scopes)).base <= Len(s)
<1> DEFINE n == Len(scopes)
           outer == Front(scopes)
<1>1. n \in Nat \ {0} /\ n \in 1..MaxDepth /\ IsSeq(scopes) /\ Last(scopes) = scopes[n]
  BY ScopeFacts DEF ScopesFit
<1>2. n \in 2..n /\ n - 1 \in 1..n - 1 /\ n > 0 /\ MaxDepth \in Nat
  <2>1. n # 1 /\ n \in Nat /\ n # 0
    BY <1>1
  <2>2. MaxDepth \in Nat
    BY Constants
  <2> HIDE DEF n
  <2> QED  BY <2>1, <2>2
<1>3. IsSeq(outer) /\ Len(outer) = n - 1 /\ \A k \in 1..n - 1 : outer[k] = scopes[k]
  BY <1>1, <1>2, FrontOf
<1> HIDE DEF n, outer
<1>4. \A k \in 1..n - 1 : k \in 1..n /\ k < n
  BY <1>1
<1>5. ScopesFit(outer)
  <2>1. n - 1 \in 1..MaxDepth /\ 1 \in 1..n - 1
    BY <1>1, <1>2
  <2>2. \A k \in 1..n - 1 :
          /\ DOMAIN outer[k] = ScopeFields /\ outer[k].type \in Signature
          /\ outer[k].exit \in Nat /\ outer[k].base \in Nat /\ outer[k].poly \in BOOLEAN
    BY <1>3, <1>4 DEF ScopesFit, n
  <2>3. outer[1].op = "function" /\ outer[1].base = NumLocals
    BY <1>3, <2>1 DEF ScopesFit
  <2>4. \A k \in 2..n - 1 :
          /\ outer[k].type \in BlockTypes /\ outer[k].entry = outer[k].exit
          /\ outer[k].base = outer[k].exit + Len(outer[k].type.results)
    <3>1. \A k \in 2..n - 1 : k \in 2..n /\ k \in 1..n - 1
      BY <1>1
    <3> QED  BY <1>3, <3>1 DEF ScopesFit, n
  <2>5. \A j, k \in 1..n - 1 :
          j < k => outer[j].base <= outer[k].exit /\ (outer[j].poly => outer[k].poly)
    <3>1. \A j, k \in 1..n :
            j < k => scopes[j].base <= scopes[k].exit /\ (scopes[j].poly => scopes[k].poly)
      BY DEF ScopesFit, n
    <3> QED  BY <1>3, <1>4, <3>1
  <2> QED  BY <1>3, <2>1, <2>2, <2>3, <2>4, <2>5 DEF ScopesFit
<1>6. /\ scopes[n].exit \in Nat /\ Len(s) = scopes[n].exit
      /\ \A k \in 1..n - 1 : scopes[k].base <= scopes[n].exit /\ scopes[k].base \in Nat
      /\ scopes[n].base \in Nat /\ scopes[n].exit <= scopes[n].base
  <2>1. n \in 1..n
    BY <1>1
  <2>2. scopes[n].base = scopes[n].exit + Len(scopes[n].type.results)
    BY <1>2 DEF ScopesFit, n
  <2>3. Len(scopes[n].type.results) \in Nat
    BY <2>1, ScopeTypes DEF n
  <2>4. scopes[n].exit \in Nat /\ scopes[n].base \in Nat
    BY <2>1 DEF ScopesFit, n
  <2>5. \A k \in 1..n - 1 : scopes[k].base <= scopes[n].exit /\ scopes[k].base \in Nat
    BY <1>4, <2>1 DEF ScopesFit, n
  <2> QED  BY <1>1, <2>2, <2>3, <2>4, <2>5
<1>7. Last(outer).base <= Len(s) /\ NumLocals <= Len(s)
  <2>1. Last(outer) = scopes[n - 1]
    BY <1>2, <1>3 DEF Last
  <2>2. scopes[1].base = NumLocals /\ 1 \in 1..n - 1
    BY <1>1, <1>2 DEF ScopesFit
  <2> QED  BY <1>2, <1>6, <2>1, <2>2
<1>8. StackFits(s, const0)
  BY <1>7, StackCut
<1>9. ASSUME NEW i \in 1..Len(s), IsRegister(s[i].slot), InUse(i, outer)
      PROVE  Dead(i, outer)
  <2>1. i \in Nat /\ i <= scopes[n].exit /\ i # 0 /\ i \in 1..Len(stack) /\ s[i] = stack[i]
    BY <1>6, <1>9 DEF StackFits, IsSeq
  <2>2. InUse(i, scopes)
    <3>1. ASSUME NEW k \in 2..n  PROVE ~(scopes[k].exit < i /\ i <= scopes[k].base)
      <4>1. CASE k = n
        BY <1>6, <2>1, <4>1
      <4>2. CASE k # n
        <5>1. k \in 2..n - 1 /\ k \in 1..n - 1
          BY <1>1, <4>2
        <5> QED  BY <1>3, <1>9, <5>1 DEF InUse
      <4> QED  BY <4>1, <4>2
    <3> QED  BY <3>1 DEF InUse, n
  <2>3. reg[stack[i].slot] = i \/ Dead(i, scopes)
    BY <1>9, <2>1, <2>2 DEF RegistersFit
  <2>4. stack[i].slot \in Registers
    BY <1>9, <2>1 DEF IsRegister
  <2>5. PICK k \in 1..n : scopes[k].poly /\ scopes[k].base < i
    BY <2>1, <2>3, <2>4 DEF Dead, n
  <2>6. k # n
    BY <1>6, <2>1, <2>5
  <2>7. k \in 1..n - 1
    BY <1>1, <2>6
  <2> QED  BY <1>3, <2>5, <2>7 DEF Dead
<1>10. RegistersFit(s, reg, outer)
  <2>1. reg \in [Registers -> Nat]
    BY DEF RegistersFit
  <2> QED  BY <1>9, <2>1 DEF RegistersFit
<1> QED  BY <1>5, <1>7, <1>8, <1>10 DEF outer

\* A block e is entered, and s is the stack with the records of its results.
Records(scopes, stack, reg, s, new, e) ==
  /\ ScopesFit(scopes) /\ Len(scopes) < MaxDepth
  /\ RegistersFit(stack, reg, scopes) /\ Last(scopes).base <= Len(stack)
  /\ Len(stack) \in Nat /\ \A r \in Registers : reg[r] = 0
  /\ Len(s) \in Nat /\ \A i \in 1..Len(stack) : s[i] = stack[i]
  /\ new \in [Registers -> Nat] /\ \A r \in Registers : new[r] = 0
  /\ DOMAIN e = ScopeFields /\ e.type \in BlockTypes /\ e.exit = Len(stack)
  /\ e.entry = Len(stack) /\ e.base = Len(s) /\ e.poly \in BOOLEAN
  /\ Last(scopes).poly => e.poly
  /\ Len(s) = Len(stack) + Len(e.type.results)

\* A block with its records of results fits on top of the others.
LEMMA EnteredFits ==
  ASSUME NEW scopes, NEW stack, NEW reg, NEW s, NEW new, NEW e,
         Records(scopes, stack, reg, s, new, e)
  PROVE  /\ ScopesFit(Append(scopes, e)) /\ RegistersFit(s, new, Append(scopes, e))
         /\ Last(Append(scopes, e)).base <= Len(s) /\ Len(Append(scopes, e)) # 1
         /\ Last(Append(scopes, e)) = e
<1> USE DEF Records
<1> DEFINE n == Len(scopes)
           inner == Append(scopes, e)
<1>1. n \in Nat \ {0} /\ n \in 1..MaxDepth /\ IsSeq(scopes) /\ Last(scopes) = scopes[n]
  BY ScopeFacts DEF ScopesFit
<1>2. /\ IsSeq(inner) /\ Len(inner) = n + 1 /\ inner[n + 1] = e /\ Last(inner) = e
      /\ \A k \in 1..n : inner[k] = scopes[k]
  BY <1>1, Appended
<1>3. /\ Last(scopes).base \in Nat /\ Last(scopes).poly \in BOOLEAN
      /\ \A k \in 1..n : scopes[k].base <= Last(scopes).base
      /\ MaxDepth \in Nat
  BY ScopeFacts, Constants
<1> HIDE DEF n, inner
<1>4. \A k \in 1..n + 1 : k \in 1..n \/ k = n + 1
  BY <1>1
<1>5. ScopesFit(inner)
  <2>1. n + 1 \in 1..MaxDepth /\ 1 \in 1..n /\ n \in 1..n
    BY <1>1, <1>3 DEF n
  <2>2. e.type \in Signature
    BY Types
  <2>3. \A k \in 1..n + 1 :
          /\ DOMAIN inner[k] = ScopeFields /\ inner[k].type \in Signature
          /\ inner[k].exit \in Nat /\ inner[k].base \in Nat /\ inner[k].poly \in BOOLEAN
    <3>1. \A k \in 1..n :
            /\ DOMAIN scopes[k] = ScopeFields /\ scopes[k].type \in Signature
            /\ scopes[k].exit \in Nat /\ scopes[k].base \in Nat /\ scopes[k].poly \in BOOLEAN
      BY DEF ScopesFit, n
    <3>2. \A k \in 1..n :
            /\ DOMAIN inner[k] = ScopeFields /\ inner[k].type \in Signature
            /\ inner[k].exit \in Nat /\ inner[k].base \in Nat /\ inner[k].poly \in BOOLEAN
      BY <1>2, <3>1
    <3>3. /\ DOMAIN e = ScopeFields /\ e.exit \in Nat /\ e.base \in Nat /\ e.poly \in BOOLEAN
          /\ inner[n + 1] = e
      BY <1>2
    <3> QED  BY <1>4, <2>2, <3>2, <3>3
  <2>4. inner[1].op = "function" /\ inner[1].base = NumLocals
    BY <1>2, <2>1 DEF ScopesFit
  <2>5. ASSUME NEW k \in 2..n + 1
        PROVE  /\ inner[k].type \in BlockTypes /\ inner[k].entry = inner[k].exit
               /\ inner[k].base = inner[k].exit + Len(inner[k].type.results)
    <3>1. CASE k = n + 1
      BY <1>2, <3>1
    <3>2. CASE k # n + 1
      <4>1. k \in 1..n /\ k \in 2..n
        BY <1>1, <3>2
      <4> QED  BY <1>2, <4>1 DEF ScopesFit, n
    <3> QED  BY <3>1, <3>2
  <2>6. ASSUME NEW j \in 1..n + 1, NEW k \in 1..n + 1, j < k
        PROVE  inner[j].base <= inner[k].exit /\ (inner[j].poly => inner[k].poly)
    <3>1. j \in 1..n /\ inner[j] = scopes[j]
      BY <1>1, <1>2, <2>6
    <3>2. CASE k = n + 1
      <4>1. inner[k] = e /\ scopes[j].base \in Nat
        BY <1>2, <3>1, <3>2 DEF ScopesFit, n
      <4>2. scopes[j].base <= Len(stack)
        BY <1>3, <3>1, <4>1
      <4>3. scopes[j].poly => Last(scopes).poly
        <5>1. CASE j = n
          BY <1>1, <5>1
        <5>2. CASE j # n
          <6>1. j < n /\ n \in 1..n
            BY <1>1, <3>1, <5>2
          <6> QED  BY <1>1, <3>1, <6>1 DEF ScopesFit, n
        <5> QED  BY <5>1, <5>2
      <4>4. (Last(scopes).poly => e.poly) /\ e.exit = Len(stack)
        OBVIOUS
      <4> QED  BY <3>1, <4>1, <4>2, <4>3, <4>4
    <3>3. CASE k # n + 1
      <4>1. k \in 1..n /\ inner[k] = scopes[k]
        BY <1>2, <1>4, <3>3
      <4> QED  BY <2>6, <3>1, <4>1 DEF ScopesFit, n
    <3> QED  BY <3>2, <3>3
  <2> QED  BY <1>2, <2>1, <2>3, <2>4, <2>5, <2>6 DEF ScopesFit
<1>6. ASSUME NEW i \in 1..Len(s), IsRegister(s[i].slot), InUse(i, inner)
      PROVE  Dead(i, inner)
  <2>1. ~(e.exit < i /\ i <= e.base)
    <3>1. n + 1 \in 2..Len(inner)
      BY <1>1, <1>2
    <3> QED  BY <1>2, <1>6, <3>1 DEF InUse
  <2>2. i \in 1..Len(stack) /\ s[i] = stack[i] /\ i # 0
    BY <2>1
  <2>3. InUse(i, scopes)
    <3>1. \A k \in 2..n : k \in 1..n /\ k \in 2..n + 1
      BY <1>1
    <3> QED  BY <1>2, <1>6, <3>1 DEF InUse, n
  <2>4. stack[i].slot \in Registers
    BY <1>6, <2>2 DEF IsRegister
  <2>5. Dead(i, scopes)
    BY <1>6, <2>2, <2>3, <2>4 DEF RegistersFit
  <2> QED  BY <1>2, <1>1, <2>5 DEF Dead, n
<1>7. RegistersFit(s, new, inner)
  BY <1>6 DEF RegistersFit
<1> QED  BY <1>1, <1>2, <1>5, <1>7 DEF inner

\* The parameters of a block are popped.
ParamNext(p, x, y) == PopType(x, y)
ParamHolds(p, k, x) == x = p
ParamsPopped == INSTANCE Folding WITH Op <- ParamNext, Good <- ParamHolds

\* Reverse of the empty sequence.
LEMMA NoneReversed ==
  Reverse(<<>>) \in Seq(Nat) /\ Len(Reverse(<<>>)) = 0
<1>1. Len(<<>>) = 0
  OBVIOUS
<1> DEFINE none == Reverse(<<>>)
<1>2. none = [i \in 1..Len(<<>>) |-> <<>>[(Len(<<>>) - i) + 1]]
  BY DEF Reverse
<1>3. DOMAIN none = 1..0 /\ none = [i \in DOMAIN none |-> none[i]]
  BY <1>1, <1>2
<1> HIDE DEF none
<1>4. \A i \in 1..0 : none[i] \in Nat
  OBVIOUS
<1>5. none \in [1..0 -> Nat]
  BY <1>3, <1>4
<1>6. none \in Seq(Nat) /\ Len(none) = 0
  BY <1>5
<1> QED  BY <1>6 DEF none

\* A block without parameters pops none.
LEMMA NoParamsPopped ==
  ASSUME NEW c
  PROVE  FoldLeft(LAMBDA x, y : PopType(x, y), c, Reverse(<<>>)) = c
<1> DEFINE s == Reverse(<<>>)
           last == ParamsPopped!Folded(c, c, s)
<1>1. FoldLeft(LAMBDA x, y : PopType(x, y), c, s) = last
  BY DEF ParamNext, FoldLeft, MapThenFoldSet, Max, ParamsPopped!Folded,
         ParamsPopped!MapThenFoldSet, ParamsPopped!Largest
<1>2. s \in Seq(Nat) /\ Len(s) = 0
  BY NoneReversed
<1> HIDE DEF s
<1>3. ParamHolds(c, 0, c)
  BY DEF ParamHolds
<1>4. \A k \in 1..Len(s) : \A x : ParamHolds(c, k - 1, x) => ParamHolds(c, k, ParamNext(c, x, s[k]))
  BY <1>2
<1>5. ParamHolds(c, Len(s), last)
  BY <1>2, <1>3, <1>4, ParamsPopped!Invariant
<1> QED  BY <1>1, <1>5 DEF ParamHolds, s

\* The parameters of a block are pushed again inside.
RecordNext(p, x, j) ==
  LET e == IF p.exit + j \in DOMAIN x.stack THEN x.stack[p.exit + j] ELSE [slot |-> Unused, val |-> Junk]
      d == Push(x, p.t.params[j], e.slot, e.val)
  IN IF e.slot >= p.c.dyn THEN Mark(d, e.slot, p.t.params[j]) ELSE d
RecordHolds(p, k, x) == x = p.base
Recorded == INSTANCE Folding WITH Op <- RecordNext, Good <- RecordHolds

\* A block without parameters pushes none.
LEMMA NothingRecorded ==
  ASSUME NEW p, NEW n, n = 0
  PROVE  Recorded!Folded(p, p.base, [j \in 1..n |-> j]) = p.base
<1> DEFINE s == [j \in 1..n |-> j]
           last == Recorded!Folded(p, p.base, s)
<1>1. s \in Seq(Nat) /\ Len(s) = 0
  BY Numbers
<1> HIDE DEF s
<1>2. RecordHolds(p, 0, p.base)
  BY DEF RecordHolds
<1>3. \A k \in 1..Len(s) : \A x : RecordHolds(p, k - 1, x) => RecordHolds(p, k, RecordNext(p, x, s[k]))
  BY <1>1
<1>4. RecordHolds(p, Len(s), last)
  BY <1>1, <1>2, <1>3, Recorded!Invariant
<1> QED  BY <1>4 DEF RecordHolds, s

\* Enter, for a block without parameters.
Begun(c, t, op, results, exit) ==
  [Pops(results, Len(t.results)) EXCEPT
     !.stack = results.stack,
     !.scopes = Append(@, [op |-> op, type |-> t, exit |-> exit, base |-> Len(results.stack),
                           entry |-> Len(c.stack), poly |-> Block(c).poly])]

\* What CompileBlock does when it opens a block without parameters.
LEMMA Entering ==
  ASSUME NoParams, NEW c, ~Failed(c), NEW t \in BlockTypes, NEW op
  PROVE  \E p : /\ p = c \/ p = [c EXCEPT !.stack = SubSeq(@, 1, Len(@) - 0)]
                /\ Enter(c, t, op) =
                     IF Failed(p) THEN p
                     ELSE LET results == PushBlockResults([p EXCEPT !.stack = c.stack], t)
                          IN IF Failed(results) THEN Fail(c, "wild")
                             ELSE Begun(c, t, op, results, Len(p.stack))
<1>1. t.params = <<>> /\ Len(t.params) = 0
  BY DEF NoParams
<1> DEFINE n == Len(t.params)
           popped == IF op = "else" THEN [c EXCEPT !.stack = SubSeq(@, 1, Len(@) - n)]
                     ELSE FoldLeft(LAMBDA x, y : PopType(x, y), c, Reverse(t.params))
           results == PushBlockResults([popped EXCEPT !.stack = c.stack], t)
           exit == Len(popped.stack)
           begun == Begun(c, t, op, results, exit)
           p == [base |-> begun, c |-> c, t |-> t, exit |-> exit]
           Param(x, j) ==
             LET e == IF exit + j \in DOMAIN x.stack THEN x.stack[exit + j]
                      ELSE [slot |-> Unused, val |-> Junk]
                 d == Push(x, t.params[j], e.slot, e.val)
             IN IF e.slot >= c.dyn THEN Mark(d, e.slot, t.params[j]) ELSE d
<1>2. popped = c \/ popped = [c EXCEPT !.stack = SubSeq(@, 1, Len(@) - 0)]
  BY <1>1, NoParamsPopped
<1>3. FoldLeft(LAMBDA x, j : Param(x, j), begun, [j \in 1..n |-> j]) = begun
  <2>1. p.base = begun /\ p.c = c /\ p.t = t /\ p.exit = exit
    OBVIOUS
  <2> HIDE DEF p, begun, exit
  <2>2. FoldLeft(LAMBDA x, j : Param(x, j), p.base, [j \in 1..n |-> j])
          = Recorded!Folded(p, p.base, [j \in 1..n |-> j])
    BY <2>1 DEF RecordNext, FoldLeft, MapThenFoldSet, Max, Recorded!Folded,
                Recorded!MapThenFoldSet, Recorded!Largest
  <2> QED  BY <1>1, <2>1, <2>2, NothingRecorded
<1>4. Enter(c, t, op) = IF Failed(popped) THEN popped
                        ELSE IF Failed(results) THEN Fail(c, "wild")
                        ELSE FoldLeft(LAMBDA x, j : Param(x, j), begun, [j \in 1..n |-> j])
  BY DEF Enter, Begun
<1>5. Enter(c, t, op) = IF Failed(popped) THEN popped
                        ELSE IF Failed(results) THEN Fail(c, "wild") ELSE begun
  BY <1>3, <1>4
<1> HIDE DEF popped
<1> QED  BY <1>2, <1>5

\* Opening a block keeps the invariant when both registers are free.
LEMMA EnterSound ==
  ASSUME NoParams, NEW c, Sound(c), NEW t \in BlockTypes, NEW op,
         Failed(c) \/ (Len(c.scopes) < MaxDepth /\ \A r \in Registers : c.reg[r] = 0)
  PROVE  /\ Sound(Enter(c, t, op))
         /\ \/ Failed(Enter(c, t, op))
            \/ Len(Enter(c, t, op).scopes) # 1 /\ Last(Enter(c, t, op).scopes).op = op
<1> DEFINE new == Enter(c, t, op)
           b == Around(c)
<1>1. CASE Failed(c)
  BY <1>1 DEF Enter
<1>2. CASE ~Failed(c)
  <2>1. PICK p : /\ p = c \/ p = [c EXCEPT !.stack = SubSeq(@, 1, Len(@) - 0)]
                 /\ new = IF Failed(p) THEN p
                          ELSE LET results == PushBlockResults([p EXCEPT !.stack = c.stack], t)
                               IN IF Failed(results) THEN Fail(c, "wild")
                                  ELSE Begun(c, t, op, results, Len(p.stack))
    BY <1>2, Entering
  <2> DEFINE x == [p EXCEPT !.stack = c.stack]
             results == PushBlockResults(x, t)
             q == Pops(results, Len(t.results))
             e == [op |-> op, type |-> t, exit |-> Len(p.stack), base |-> Len(results.stack),
                   entry |-> Len(c.stack), poly |-> Block(c).poly]
             d == [q EXCEPT !.stack = results.stack, !.scopes = Append(@, e)]
  <2>2. new = IF Failed(p) THEN p ELSE IF Failed(results) THEN Fail(c, "wild") ELSE d
    BY <2>1 DEF Begun
  <2> HIDE DEF new
  <2>3. /\ Good(b, c) /\ b.in = b.scopes /\ b.in = c.scopes /\ DOMAIN c = CompilationFields
        /\ Len(c.stack) \in Nat /\ IsSeq(c.stack) /\ ScopesFit(c.scopes)
        /\ RegistersFit(c.stack, c.reg, c.scopes) /\ Last(c.scopes).base <= Len(c.stack)
        /\ Last(c.scopes).base \in Nat /\ b.const0 = c.const0
    BY <1>2, SoundGood, GoodFacts DEF Around
  <2>4. Len(t.results) \in Nat
    BY Types
  <2>5. DOMAIN p = CompilationFields /\ ~Failed(p) /\ Len(p.stack) = Len(c.stack) /\ Same(c, x)
    <3>1. CASE p = c
      <4>1. DOMAIN x = CompilationFields /\ Same(c, x)
        BY <2>3, <3>1 DEF Same, CompilationFields
      <4> QED  BY <1>2, <2>3, <3>1, <4>1
    <3>2. CASE p = [c EXCEPT !.stack = SubSeq(@, 1, Len(@) - 0)]
      <4>1. Len(SubSeq(c.stack, 1, Len(c.stack) - 0)) = Len(c.stack)
        BY <2>3, Cut, Len(c.stack) - 0 = Len(c.stack)
      <4>2. /\ DOMAIN p = CompilationFields /\ p.stack = SubSeq(c.stack, 1, Len(c.stack) - 0)
            /\ p.result = c.result
        BY <2>3, <3>2 DEF CompilationFields
      <4>3. Same(c, x)
        BY <2>3, <3>2 DEF Same, CompilationFields
      <4> QED  BY <1>2, <4>1, <4>2, <4>3 DEF Failed
    <3> QED  BY <2>1, <3>1, <3>2
  <2> HIDE DEF x
  <2>6. Good(b, x) /\ x.stack = c.stack /\ x.reg = c.reg
    BY <2>3, <2>5, SameGood DEF Same
  <2>7. Free(b, x, "f64")
    BY <1>2, <2>6, Widths DEF Free
  <2>8. Good(b, results) /\ Pushed(x, results, Len(t.results))
    BY <2>4, <2>6, <2>7, PushBlockResultsGood
  <2>9. Good(b, q) /\ Popped(b, results, q, Len(t.results))
    BY <2>3, <2>4, <2>8, PopsGood
  <2> HIDE DEF b
  <2>10. CASE Failed(results)
    <3>1. new = Fail(c, "wild") /\ "wild" # "none"
      BY <2>2, <2>5, <2>10
    <3>2. Good(b, new) /\ Failed(new)
      BY <2>3, <3>1, Fails
    <3> QED  BY <2>3, <3>2, GoodSound DEF new
  <2>11. CASE ~Failed(results)
    <3> HIDE DEF results
    <3>1. new = d /\ DOMAIN q = CompilationFields
      BY <2>2, <2>5, <2>9, <2>11 DEF Good
    <3> DEFINE inner == Append(c.scopes, e)
    <3> HIDE DEF q, e
    <3>2. /\ DOMAIN d = CompilationFields /\ d.stack = results.stack /\ d.scopes = Append(q.scopes, e)
          /\ d.reg = q.reg /\ d.count = q.count /\ d.result = q.result /\ d.dyn = q.dyn
          /\ d.first = q.first /\ d.const0 = q.const0 /\ d.maxConst = q.maxConst /\ d.path = q.path
      BY <3>1 DEF CompilationFields
    <3> HIDE DEF d
    <3>3. CASE Failed(d)
      BY <3>1, <3>2, <3>3 DEF Sound, new
    <3>4. CASE ~Failed(d)
      <4>1. ~Failed(q)
        BY <3>2, <3>4 DEF Failed
      <4>2. /\ q.scopes = c.scopes /\ q.const0 = c.const0 /\ q.reg \in [Registers -> Nat]
            /\ RegistersFit(q.stack, q.reg, c.scopes)
        BY <2>3, <2>9, <4>1, GoodFacts
      <4>3. /\ StackFits(results.stack, c.const0) /\ Len(results.stack) \in Nat
        BY <2>3, <2>8, <2>11, GoodFacts
      <4>4. /\ Len(results.stack) = Len(c.stack) + Len(t.results)
            /\ \A i \in 1..Len(c.stack) : results.stack[i] = c.stack[i]
            /\ \A r \in Registers : results.reg[r] = 0 \/ results.reg[r] > Len(c.stack)
        BY <1>2, <2>6, <2>8, <2>11 DEF Pushed
      <4>5. Len(q.stack) = Len(c.stack)
        <5>1. Len(results.stack) - Len(t.results) = Len(c.stack)
          BY <2>3, <2>4, <4>4
        <5> QED  BY <2>3, <2>9, <4>1, <5>1 DEF Popped
      <4>6. ASSUME NEW r \in Registers  PROVE q.reg[r] = 0
        <5>1. q.reg[r] = results.reg[r] \/ q.reg[r] = 0
          BY <2>9, <4>1 DEF Popped
        <5>2. q.reg[r] \in Nat /\ (q.reg[r] # 0 => q.reg[r] <= Len(c.stack))
          BY <4>2, <4>5 DEF RegistersFit
        <5> QED  BY <2>3, <4>4, <5>1, <5>2
      <4>7. /\ DOMAIN e = ScopeFields /\ e.type = t /\ e.exit = Len(c.stack)
            /\ e.entry = Len(c.stack) /\ e.base = Len(results.stack)
            /\ e.poly \in BOOLEAN /\ (Last(c.scopes).poly => e.poly)
            /\ e.op = op
        <5>1. Block(c) = Last(c.scopes) /\ Last(c.scopes).poly \in BOOLEAN
          BY <2>3, ScopeFacts DEF Block
        <5>2. /\ DOMAIN e = ScopeFields /\ e.type = t /\ e.exit = Len(p.stack)
              /\ e.entry = Len(c.stack) /\ e.base = Len(results.stack)
              /\ e.poly = Block(c).poly /\ e.op = op
          BY DEF e, ScopeFields
        <5> QED  BY <2>5, <5>1, <5>2
      <4>8. /\ ScopesFit(inner) /\ RegistersFit(results.stack, q.reg, inner)
            /\ Last(inner).base <= Len(results.stack) /\ Len(inner) # 1
            /\ Last(inner) = e
        <5>1. \A r \in Registers : c.reg[r] = 0
          BY <1>2
        <5>2. Len(c.scopes) < MaxDepth
          BY <1>2
        <5>3. /\ ScopesFit(c.scopes) /\ RegistersFit(c.stack, c.reg, c.scopes)
              /\ Last(c.scopes).base <= Len(c.stack) /\ Len(c.stack) \in Nat
              /\ Len(results.stack) \in Nat
              /\ \A i \in 1..Len(c.stack) : results.stack[i] = c.stack[i]
              /\ q.reg \in [Registers -> Nat] /\ \A r \in Registers : q.reg[r] = 0
          BY <2>3, <4>2, <4>3, <4>4, <4>6
        <5>4. /\ e.type \in BlockTypes
              /\ Len(results.stack) = Len(c.stack) + Len(e.type.results)
          BY <4>4, <4>7
        <5>5. Records(c.scopes, c.stack, c.reg, results.stack, q.reg, e)
          BY <4>7, <5>1, <5>2, <5>3, <5>4 DEF Records
        <5> QED  BY <5>5, EnteredFits
      <4>9. d.scopes = inner
        BY <3>2, <4>2
      <4> HIDE DEF inner
      <4>10. FitIn(q, c.scopes)
        BY <2>3, <2>9, <4>1 DEF Good
      <4>11. Fit(d)
        BY <3>2, <4>2, <4>3, <4>8, <4>9, <4>10 DEF Fit, FitIn
      <4> QED  BY <3>1, <3>2, <4>7, <4>8, <4>9, <4>11 DEF Sound, new
    <3> QED  BY <3>3, <3>4
  <2> QED  BY <2>10, <2>11
<1> QED  BY <1>1, <1>2

\* What the invariant says of the innermost block.
LEMMA Innermost ==
  ASSUME NEW scopes, ScopesFit(scopes), Len(scopes) # 1, NEW s, s = Last(scopes)
  PROVE  /\ IsSeq(scopes) /\ MaxDepth \in Nat
         /\ Len(scopes) \in 2..MaxDepth /\ Len(scopes) \in 1..Len(scopes)
         /\ s.exit \in Nat /\ s.entry = s.exit /\ s.base = s.exit + Len(s.type.results)
         /\ Len(s.type.results) \in Nat /\ s.exit <= s.base /\ s.type \in BlockTypes
<1> DEFINE n == Len(scopes)
<1>1. n \in 1..MaxDepth /\ IsSeq(scopes)
  BY DEF ScopesFit
<1>2. MaxDepth \in Nat
  BY Constants
<1>3. n # 1 /\ s = scopes[n]
  BY ScopeFacts
<1> HIDE DEF n
<1>4. n \in 2..MaxDepth /\ n \in 1..n /\ n \in 2..n
  BY <1>1, <1>2, <1>3
<1>5. /\ s.base = s.exit + Len(s.type.results) /\ s.type \in BlockTypes
      /\ s.exit \in Nat /\ s.entry = s.exit
  BY <1>3, <1>4 DEF ScopesFit, n
<1>6. Len(s.type.results) \in Nat
  BY <1>3, <1>4, ScopeTypes DEF n
<1>7. s.exit <= s.base
  BY <1>5, <1>6
<1> QED  BY <1>1, <1>2, <1>4, <1>5, <1>6, <1>7 DEF n

\* What a block leaves for the block around it; its scope is closed.
Landing(c, next, u) ==
  IF Block(c).op = "if" \/ next = "else" THEN u
  ELSE PushBlockResults([u EXCEPT !.stack = SubSeq(@, 1, Block(c).exit)], Block(c).type)
Closing(v) == IF Failed(v) THEN v ELSE [v EXCEPT !.scopes = Front(@)]

\* What a block leaves behind before its results are pushed.
UnwoundIn(c, u) ==
  /\ Good(Around(c), u)
  /\ ~Failed(u) => Len(u.stack) = Last(c.scopes).base /\ \A r \in Registers : u.reg[r] = 0

\* What CompileBlock does when a block ends.
LEMMA Leaving ==
  ASSUME NEW c, Sound(c), ~Failed(c), Len(c.scopes) # 1, NEW next
  PROVE  \E u : UnwoundIn(c, u) /\ Leave(c, next) = Closing(Landing(c, next, u))
<1> DEFINE k == Len(c.scopes)
           s == Block(c)
           b == Around(c)
           x == IF s.poly THEN c ELSE ResolveBlockResults(c, k, FALSE)
           carried == [x EXCEPT !.path = ToEnd(k), !.carry = TopVals(c, Len(s.type.results))]
           y == IF ~Running(x) THEN x ELSE carried
           u == Unwind(y)
<1>1. /\ Good(b, c) /\ b.in = b.scopes /\ b.in = c.scopes /\ ScopesFit(c.scopes)
      /\ k \in 1..Len(c.scopes) /\ k \in 2..MaxDepth
  <2>1. Good(b, c) /\ b.in = b.scopes /\ b.in = c.scopes /\ ScopesFit(c.scopes)
    BY SoundGood, GoodFacts
  <2> QED  BY <2>1, Innermost
<1>2. Good(b, x)
  <2>1. Good(b, ResolveBlockResults(c, k, FALSE))
    BY <1>1, ResolveBlockResultsGood
  <2> QED  BY <1>1, <2>1
<1> HIDE DEF x, k
<1>3. Good(b, carried)
  <2>1. DOMAIN x = CompilationFields
    BY <1>2 DEF Good
  <2>2. SamePlaces(x, carried) /\ carried.path = ToEnd(k)
    BY <2>1 DEF SamePlaces, CompilationFields
  <2>3. carried.path \in Paths
    BY <1>1, <2>2, Ways
  <2> HIDE DEF carried
  <2> QED  BY <1>2, <2>2, <2>3, WayGood
<1>4. Good(b, y)
  BY <1>2, <1>3
<1>5. Leave(c, next) = Closing(Landing(c, next, u))
  BY DEF Leave, Landing, Closing, x, k
<1> HIDE DEF y, b
<1>6. UnwoundIn(c, u)
  <2>1. Good(b, u)
    BY <1>1, <1>4, UnwindGood
  <2>2. b.in = b.scopes /\ Last(b.in) = Last(c.scopes)
    BY <1>1
  <2>3. ~Failed(u) => Len(u.stack) = Last(b.in).base /\ \A r \in Registers : u.reg[r] = 0
    BY <2>2, <1>4, UnwindGood
  <2>4. ~Failed(u) => Len(u.stack) = Last(c.scopes).base /\ \A r \in Registers : u.reg[r] = 0
    BY <2>2, <2>3
  <2> QED  BY <2>1, <2>4 DEF UnwoundIn, b
<1> QED  BY <1>5, <1>6

\* The compilation outside the innermost block, which it is still in.
Outside(c) == [scopes |-> c.scopes, in |-> Front(c.scopes), dyn |-> c.dyn, const0 |-> c.const0]

\* d is u with the stack of the block around.
LeftTo(u, d, n) ==
  /\ DOMAIN d = CompilationFields
  /\ IsSeq(d.stack) /\ Len(d.stack) = n /\ \A i \in 1..n : d.stack[i] = u.stack[i]
  /\ d.count = u.count /\ d.reg = u.reg /\ d.scopes = u.scopes
  /\ d.dyn = u.dyn /\ d.first = u.first /\ d.const0 = u.const0 /\ d.maxConst = u.maxConst
  /\ d.path \in Paths /\ d.result = u.result

\* The stack of a block that ends fits the blocks around it.
LEMMA LeftGood ==
  ASSUME NEW c, Sound(c), ~Failed(c), Len(c.scopes) # 1, NEW u, UnwoundIn(c, u), ~Failed(u),
         NEW d, LeftTo(u, d, Last(c.scopes).exit)
  PROVE  Good(Outside(c), d) /\ \A r \in Registers : d.reg[r] = 0
<1>1. /\ ScopesFit(c.scopes) /\ FitIn(u, c.scopes) /\ u.scopes = c.scopes /\ u.dyn = c.dyn
      /\ u.const0 = c.const0
  BY SoundGood DEF UnwoundIn, Good, Around, FitIn
<1>2. /\ Len(u.stack) = Last(c.scopes).base /\ \A r \in Registers : u.reg[r] = 0
  BY DEF UnwoundIn
<1>3. Last(c.scopes).exit <= Last(c.scopes).base /\ Last(c.scopes).exit \in Nat
  BY <1>1, Innermost
<1>4. /\ StackFits(u.stack, u.const0) /\ RegistersFit(u.stack, u.reg, c.scopes)
  BY <1>1 DEF FitIn
<1>5. /\ IsSeq(d.stack) /\ Len(d.stack) = Last(c.scopes).exit /\ Len(d.stack) <= Len(u.stack)
      /\ \A i \in 1..Len(d.stack) : d.stack[i] = u.stack[i]
  BY <1>2, <1>3 DEF LeftTo
<1>6. /\ ScopesFit(Front(c.scopes)) /\ StackFits(d.stack, u.const0)
      /\ RegistersFit(d.stack, u.reg, Front(c.scopes)) /\ Last(Front(c.scopes)).base <= Len(d.stack)
  BY <1>1, <1>2, <1>4, <1>5, LeftFits
<1>7. FitIn(d, Front(c.scopes))
  BY <1>1, <1>6 DEF FitIn, LeftTo
<1> QED  BY <1>1, <1>2, <1>7 DEF Good, Outside, LeftTo

\* Closing the scope keeps the invariant.
LEMMA ClosingSound ==
  ASSUME NEW c, NEW v, Good(Outside(c), v)
  PROVE  /\ Sound(Closing(v))
         /\ ~Failed(Closing(v)) => /\ ~Failed(v) /\ Closing(v).scopes = Front(c.scopes)
                                   /\ Closing(v).reg = v.reg
<1>1. CASE Failed(v)
  BY <1>1 DEF Closing, Sound, Good
<1>2. CASE ~Failed(v)
  <2> DEFINE d == [v EXCEPT !.scopes = Front(@)]
  <2>1. DOMAIN v = CompilationFields /\ FitIn(v, Front(c.scopes)) /\ v.scopes = c.scopes
    BY <1>2 DEF Good, Outside
  <2>2. /\ DOMAIN d = CompilationFields /\ d.scopes = Front(v.scopes)
        /\ d.stack = v.stack /\ d.count = v.count /\ d.reg = v.reg
        /\ d.dyn = v.dyn /\ d.first = v.first /\ d.const0 = v.const0 /\ d.maxConst = v.maxConst
        /\ d.path = v.path /\ d.result = v.result
    BY <2>1 DEF CompilationFields
  <2>3. Closing(v) = d
    BY <1>2 DEF Closing
  <2> HIDE DEF d
  <2>4. Fit(d)
    BY <2>1, <2>2 DEF Fit, FitIn
  <2> QED  BY <1>2, <2>1, <2>2, <2>3, <2>4 DEF Sound
<1> QED  BY <1>1, <1>2

\* Leaving a block keeps the invariant.
LEMMA LeaveSound ==
  ASSUME NEW c, Sound(c),
         Failed(c) \/ (/\ Len(c.scopes) # 1
                       /\ Block(c).op = "if" => Len(Block(c).type.results) = 0)
  PROVE  Sound(Leave(c, "end"))
<1>1. CASE Failed(c)
  BY <1>1 DEF Leave
<1>2. CASE ~Failed(c)
  <2> DEFINE s == Last(c.scopes)
  <2>1. PICK u : UnwoundIn(c, u) /\ Leave(c, "end") = Closing(Landing(c, "end", u))
    BY <1>2, Leaving
  <2>2. DOMAIN u = CompilationFields
    BY <2>1 DEF UnwoundIn, Good
  <2>3. ScopesFit(c.scopes)
    BY <1>2 DEF Sound, Fit, FitIn
  <2>4. /\ s.base = s.exit + Len(s.type.results) /\ s.exit \in Nat
        /\ Len(s.type.results) \in Nat
    BY <1>2, <2>3, Innermost
  <2>5. CASE s.op = "if"
    <3>1. Landing(c, "end", u) = u /\ Len(s.type.results) = 0
      BY <1>2, <2>5 DEF Landing, Block
    <3>2. CASE Failed(u)
      BY <2>1, <2>2, <3>1, <3>2 DEF Closing, Sound
    <3>3. CASE ~Failed(u)
      <4>1. Len(u.stack) = s.base /\ s.base = s.exit /\ FitIn(u, c.scopes)
        BY <2>1, <2>4, <3>1, <3>3 DEF UnwoundIn, Good, Around
      <4>2. LeftTo(u, u, s.exit)
        BY <2>2, <4>1 DEF LeftTo, FitIn, StackFits
      <4>3. Good(Outside(c), u)
        BY <1>2, <2>1, <3>3, <4>2, LeftGood
      <4> QED  BY <2>1, <3>1, <4>3, ClosingSound
    <3> QED  BY <3>2, <3>3
  <2>6. CASE s.op # "if"
    <3> DEFINE v == [u EXCEPT !.stack = SubSeq(@, 1, s.exit)]
               w == PushBlockResults(v, s.type)
    <3>1. Landing(c, "end", u) = w
      BY <2>6, "end" # "else" DEF Landing, Block
    <3>2. /\ DOMAIN v = CompilationFields /\ v.stack = SubSeq(u.stack, 1, s.exit)
          /\ v.count = u.count /\ v.reg = u.reg /\ v.scopes = u.scopes
          /\ v.dyn = u.dyn /\ v.first = u.first /\ v.const0 = u.const0 /\ v.maxConst = u.maxConst
          /\ v.path = u.path /\ v.result = u.result
      BY <2>2 DEF CompilationFields
    <3> HIDE DEF v
    <3>3. Good(Outside(c), v) /\ (~Failed(v) => \A r \in Registers : v.reg[r] = 0)
      <4>1. CASE Failed(u)
        BY <3>2, <4>1 DEF Good, Failed
      <4>2. CASE ~Failed(u)
        <5>1. Len(u.stack) = s.base /\ FitIn(u, c.scopes)
          BY <2>1, <4>2 DEF UnwoundIn, Good, Around
        <5>2. IsSeq(u.stack) /\ s.exit <= Len(u.stack)
          BY <2>4, <5>1 DEF FitIn, StackFits
        <5>3. /\ IsSeq(v.stack) /\ Len(v.stack) = s.exit
              /\ \A i \in 1..s.exit : v.stack[i] = u.stack[i]
          BY <2>4, <3>2, <5>2, Cut
        <5>4. LeftTo(u, v, s.exit)
          BY <3>2, <5>1, <5>3 DEF LeftTo, FitIn
        <5> QED  BY <1>2, <2>1, <4>2, <5>4, LeftGood
      <4> QED  BY <4>1, <4>2
    <3>4. Free(Outside(c), v, "f64")
      BY <3>3, Widths DEF Free
    <3>5. Good(Outside(c), w)
      BY <2>4, <3>3, <3>4, PushBlockResultsGood
    <3> QED  BY <2>1, <3>1, <3>5, ClosingSound
  <2> QED  BY <2>5, <2>6
<1> QED  BY <1>1, <1>2

\* The stack the else block is entered from.
Again(c, a) ==
  [a EXCEPT !.stack = SubSeq(@, 1, Block(c).entry),
            !.path = IF @ = ToElse(Len(c.scopes)) THEN Here ELSE @]

\* The stack of an else is that of its if.
LEMMA AgainSound ==
  ASSUME NEW c, Sound(c), ~Failed(c), Len(c.scopes) # 1
  PROVE  LET d == Again(c, Leave(c, "else"))
         IN Sound(d) /\ (Failed(d) \/ (Len(d.scopes) < MaxDepth /\ \A r \in Registers : d.reg[r] = 0))
<1> DEFINE s == Last(c.scopes)
           n == Len(c.scopes)
<1>1. PICK u : UnwoundIn(c, u) /\ Leave(c, "else") = Closing(Landing(c, "else", u))
  BY Leaving
<1>2. Leave(c, "else") = Closing(u) /\ DOMAIN u = CompilationFields
  BY <1>1 DEF Landing, UnwoundIn, Good
<1>3. ScopesFit(c.scopes)
  BY DEF Sound, Fit, FitIn
<1>4. /\ s.entry = s.exit /\ s.exit \in Nat /\ s.exit <= s.base /\ Block(c) = s
      /\ n \in 2..MaxDepth /\ MaxDepth \in Nat /\ IsSeq(c.scopes)
  BY <1>3, Innermost DEF Block
<1> DEFINE path == IF u.path = ToElse(n) THEN Here ELSE u.path
           v == [u EXCEPT !.stack = SubSeq(@, 1, s.exit), !.path = path]
           a == Closing(u)
           d == Again(c, a)
<1>5. /\ DOMAIN v = CompilationFields /\ v.stack = SubSeq(u.stack, 1, s.exit)
      /\ v.count = u.count /\ v.reg = u.reg /\ v.scopes = u.scopes
      /\ v.dyn = u.dyn /\ v.first = u.first /\ v.const0 = u.const0 /\ v.maxConst = u.maxConst
      /\ v.path = path /\ v.result = u.result
  BY <1>2 DEF CompilationFields
<1>6. CASE Failed(u)
  <2>1. a = u
    BY <1>6 DEF Closing
  <2>2. DOMAIN d = CompilationFields /\ d.result = u.result
    BY <1>2, <2>1 DEF Again, CompilationFields
  <2> QED  BY <1>2, <1>6, <2>2 DEF Sound, Failed
<1>7. CASE ~Failed(u)
  <2>1. a = [u EXCEPT !.scopes = Front(@)]
    BY <1>7 DEF Closing
  <2>2. /\ DOMAIN a = CompilationFields /\ a.scopes = Front(u.scopes) /\ a.stack = u.stack
        /\ a.path = u.path
        /\ a.count = u.count /\ a.reg = u.reg /\ a.dyn = u.dyn /\ a.first = u.first
        /\ a.const0 = u.const0 /\ a.maxConst = u.maxConst /\ a.result = u.result
    BY <1>2, <2>1 DEF CompilationFields
  <2> HIDE DEF a
  <2>3. /\ DOMAIN d = CompilationFields /\ d.scopes = Front(u.scopes)
        /\ d.stack = SubSeq(u.stack, 1, s.exit) /\ d.path = path
        /\ d.count = u.count /\ d.reg = u.reg /\ d.dyn = u.dyn /\ d.first = u.first
        /\ d.const0 = u.const0 /\ d.maxConst = u.maxConst /\ d.result = u.result
    BY <1>4, <2>2 DEF Again, CompilationFields
  <2> HIDE DEF d
  <2>4. Len(u.stack) = s.base /\ FitIn(u, c.scopes) /\ u.scopes = c.scopes
    BY <1>1, <1>7 DEF UnwoundIn, Good, Around
  <2>5. IsSeq(u.stack) /\ s.exit <= Len(u.stack)
    BY <1>4, <2>4 DEF FitIn, StackFits
  <2>6. /\ IsSeq(v.stack) /\ Len(v.stack) = s.exit
        /\ \A i \in 1..s.exit : v.stack[i] = u.stack[i]
    BY <1>4, <1>5, <2>5, Cut
  <2>7. path \in Paths
    BY <2>4, Ways DEF FitIn
  <2> HIDE DEF v, path
  <2>8. LeftTo(u, v, s.exit)
    BY <1>5, <2>6, <2>7 DEF LeftTo
  <2>9. Good(Outside(c), v) /\ \A r \in Registers : v.reg[r] = 0
    BY <1>1, <1>7, <2>8, LeftGood
  <2>10. FitIn(v, Front(c.scopes))
    BY <1>5, <1>7, <2>9 DEF Good, Outside, Failed
  <2>11. Fit(d)
    BY <1>5, <2>3, <2>4, <2>10 DEF Fit, FitIn
  <2>12. Len(d.scopes) < MaxDepth
    <3>1. Len(Front(c.scopes)) = n - 1
      BY <1>4, FrontOf
    <3> QED  BY <1>4, <2>3, <2>4, <3>1
  <2> QED  BY <1>2, <1>5, <2>3, <2>9, <2>11, <2>12 DEF Sound, d, a
<1> QED  BY <1>6, <1>7

\* Else keeps the invariant.
LEMMA ElseSound ==
  ASSUME NoParams, NEW c, Sound(c), ~Failed(c), Len(c.scopes) # 1
  PROVE  /\ Sound(Else(c))
         /\ Failed(Else(c)) \/ (Len(Else(c).scopes) # 1 /\ Last(Else(c).scopes).op = "else")
<1> DEFINE d == Again(c, Leave(c, "else"))
           t == Block(c).type
<1>1. Sound(d) /\ (Failed(d) \/ (Len(d.scopes) < MaxDepth /\ \A r \in Registers : d.reg[r] = 0))
  BY AgainSound
<1>2. t \in BlockTypes
  BY Innermost DEF Sound, Fit, FitIn, Block
<1>3. Else(c) = Enter(d, t, "else")
  BY DEF Else, Again
<1> HIDE DEF d, t
<1> QED  BY <1>1, <1>2, <1>3, EnterSound

\* So does an execution that arrives at the end of a block.
LEMMA ArriveSound ==
  ASSUME NEW c, Sound(c), NEW k
  PROVE  Sound(Arrive(c, k))
<1> DEFINE n == Len(c.carry)
           stack == [i \in DOMAIN c.stack |-> IF i > Len(c.stack) - n
                                              THEN [c.stack[i] EXCEPT !.val = c.carry[i - (Len(c.stack) - n)]]
                                              ELSE c.stack[i]]
           d == [c EXCEPT !.path = Here, !.carry = <<>>, !.stack = stack]
<1>1. Arrive(c, k) = IF c.path # ToEnd(k) \/ Failed(c) THEN c ELSE d
  BY DEF Arrive
<1>2. ASSUME ~Failed(c)  PROVE Sound(d)
  <2>1. /\ DOMAIN c = CompilationFields /\ IsSeq(c.stack) /\ Len(c.stack) \in Nat
        /\ \A i \in 1..Len(c.stack) : DOMAIN c.stack[i] = EntryFields
        /\ Good(Around(c), c) /\ Around(c).in = Around(c).scopes
    BY <1>2, SoundGood, GoodFacts
  <2>2. DOMAIN c.stack = 1..Len(c.stack)
    BY <2>1 DEF IsSeq
  <2>3. /\ DOMAIN d = CompilationFields /\ d.stack = stack /\ d.count = c.count /\ d.reg = c.reg
        /\ d.scopes = c.scopes /\ d.dyn = c.dyn /\ d.first = c.first /\ d.const0 = c.const0
        /\ d.maxConst = c.maxConst /\ d.path = Here /\ d.result = c.result
    BY <2>1 DEF CompilationFields
  <2>4. DOMAIN stack = DOMAIN c.stack /\ stack = [i \in DOMAIN stack |-> stack[i]]
    OBVIOUS
  <2>5. \A i \in DOMAIN c.stack : \/ stack[i] = c.stack[i]
                                  \/ stack[i] = [c.stack[i] EXCEPT !.val = c.carry[i - (Len(c.stack) - n)]]
    OBVIOUS
  <2> HIDE DEF stack, d, n
  <2>6. ASSUME NEW i \in DOMAIN c.stack
        PROVE  /\ DOMAIN stack[i] = DOMAIN c.stack[i]
               /\ stack[i].slot = c.stack[i].slot /\ stack[i].type = c.stack[i].type
    <3>1. DOMAIN c.stack[i] = EntryFields
      BY <2>1, <2>2
    <3> QED  BY <2>5, <3>1 DEF EntryFields
  <2>7. OtherValues(c, d)
    BY <2>1, <2>3, <2>4, <2>6 DEF OtherValues
  <2> QED  BY <1>2, <2>1, <2>3, <2>7, OtherValuesGood, Ways, GoodSound
<1> QED  BY <1>1, <1>2

\* So does an execution that turns elsewhere.
LEMMA PathSound ==
  ASSUME NEW c, Sound(c), NEW path, Failed(c) \/ path \in Paths
  PROVE  Sound([c EXCEPT !.path = path])
BY SoundGood, TurnGood, GoodSound

\* End of a block keeps the invariant.
LEMMA EndSound ==
  ASSUME NoParams, NEW c, Sound(c), ~Failed(c), Len(c.scopes) # 1
  PROVE  Sound(End(c))
<1> DEFINE k == Len(c.scopes)
           s == Block(c)
           d == IF s.op = "if" /\ s.type.results # <<>> THEN Else(c) ELSE c
           e == Leave(d, "end")
           path == IF e.path = ToElse(k) THEN Here ELSE e.path
           f == [e EXCEPT !.path = path]
<1>1. End(c) = Arrive(f, k)
  BY DEF End
<1>2. Sound(d) /\ (Failed(d) \/ (/\ Len(d.scopes) # 1
                                 /\ Block(d).op = "if" => Len(Block(d).type.results) = 0))
  <2>1. CASE s.op = "if" /\ s.type.results # <<>>
    BY <2>1, ElseSound, "if" # "else" DEF Block
  <2>2. CASE s.op = "if" /\ s.type.results = <<>>
    BY <2>2
  <2>3. CASE s.op # "if"
    BY <2>3
  <2> QED  BY <2>1, <2>2, <2>3
<1> HIDE DEF d
<1>3. Sound(e)
  BY <1>2, LeaveSound
<1> HIDE DEF e
<1>4. Failed(e) \/ path \in Paths
  BY <1>3, SoundGood, Ways
<1>5. Sound(f)
  BY <1>3, <1>4, PathSound
<1> HIDE DEF f
<1> QED  BY <1>1, <1>5, ArriveSound

------------------------------------------------------------------------------
(* Branches *)

\* Compile_Branch keeps the invariant.
LEMMA BrSound ==
  ASSUME NEW c, Sound(c), ~Failed(c), NEW k \in 1..Len(c.scopes)
  PROVE  Sound(Br(c, k))
<1> DEFINE b == Around(c)
           d == Jump(c, k)
<1>1. Good(b, c) /\ b.in = b.scopes /\ b.scopes = c.scopes
  BY SoundGood
<1> HIDE DEF b
<1>2. Good(b, d) /\ SamePlaces(c, d)
  BY <1>1, JumpGood
<1>3. Sound(d) /\ d.scopes = c.scopes
  BY <1>1, <1>2, GoodSound DEF SamePlaces
<1>4. Sound([d EXCEPT !.scopes[Len(c.scopes)].poly = TRUE])
  BY <1>3, PolySound
<1>5. Sound(SetPolymorphic(BranchCode(c, k)))
  BY <1>1, BranchCodeGood, GoodSound, SetPolymorphicSound
<1> QED  BY <1>4, <1>5 DEF Br

\* PopType keeps the invariant.
LEMMA PopTypeGood ==
  ASSUME NEW b, b.in = b.scopes, NEW c, Good(b, c), NEW t
  PROVE  Good(b, PopType(c, t))
<1>1. Good(b, Fail(c, "typeMismatch"))
  BY Fails, "typeMismatch" # "none" DEF Good
<1>2. Good(b, Pop(c))
  BY PopGood
<1> QED  BY <1>1, <1>2 DEF PopType

\* So does reading a condition.
LEMMA ConditionGood ==
  ASSUME NEW b, NEW c, NEW d, Good(b, d)
  PROVE  Good(b, Condition(c, d)) /\ Same(d, Condition(c, d))
BY ObserveGood DEF Condition

\* No code is compiled after a failure.
LEMMA BranchCodeFails ==
  ASSUME NEW c, Failed(c), NEW k
  PROVE  BranchCode(c, k) = c
<1>1. ReturnValues(c, TRUE) = c /\ ResolveBlockResults(c, k, TRUE) = c
  BY DEF ReturnValues, ResolveBlockResults
<1>2. Jump(c, k) = c
  BY DEF Jump
<1> QED  BY <1>1, <1>2 DEF BranchCode

\* The code of a branch not taken keeps the invariant.
LEMMA AsideBackGood ==
  ASSUME NEW b, b.in = b.scopes, NEW c, Good(b, c), NEW k \in 1..Len(b.scopes)
  PROVE  Good(b, Back(BranchCode(Aside(c), k), c))
<1> DEFINE x == Aside(c)
           y == BranchCode(x, k)
<1>1. Good(b, x) /\ SamePlaces(c, x)
  BY AsideGood
<1> HIDE DEF x
<1>2. Good(b, y)
  BY <1>1, BranchCodeGood
<1>3. Failed(c) => Failed(y)
  BY <1>1, BranchCodeFails DEF SamePlaces, Failed
<1> QED  BY <1>2, <1>3, BackGood DEF x

\* Compile_BranchIf keeps the invariant.
LEMMA BrIfSound ==
  ASSUME NEW c, Sound(c), ~Failed(c), NEW k \in 1..Len(c.scopes), NEW taken
  PROVE  Sound(BrIf(c, k, taken))
<1> DEFINE b == Around(c)
           s == c.scopes[k]
           plain == LabelTypes(s) = <<>> /\ k # 1
           a == IF s.op = "loop" /\ plain THEN PopType(Condition(c, CopyTopToRegister(c)), "i32")
                ELSE Pop(Used(c, 1))
           new == IF plain THEN IF taken THEN Jump(a, k) ELSE a
                  ELSE IF taken THEN BranchCode(a, k) ELSE Back(BranchCode(Aside(a), k), a)
<1>1. BrIf(c, k, taken) = new
  BY DEF BrIf
<1>2. Good(b, c) /\ b.in = b.scopes /\ b.scopes = c.scopes
  BY SoundGood
<1> HIDE DEF b
<1>3. Good(b, a)
  <2>1. Good(b, PopType(Condition(c, CopyTopToRegister(c)), "i32"))
    BY <1>2, CopyTopToRegisterGood, ConditionGood, PopTypeGood
  <2>2. Good(b, Pop(Used(c, 1)))
    BY <1>2, UsedGood, PopGood
  <2> QED  BY <2>1, <2>2
<1> HIDE DEF a
<1>4. Good(b, Jump(a, k))
  <2>1. Failed(a) \/ k \in 1..Len(a.scopes)
    BY <1>2, <1>3 DEF Good
  <2> QED  BY <1>2, <1>3, <2>1, JumpGood
<1>5. Good(b, BranchCode(a, k))
  BY <1>2, <1>3, BranchCodeGood
<1>6. Good(b, Back(BranchCode(Aside(a), k), a))
  BY <1>2, <1>3, AsideBackGood
<1>7. Good(b, new)
  BY <1>3, <1>4, <1>5, <1>6
<1> QED  BY <1>1, <1>2, <1>7, GoodSound

\* Compile_BranchTable as a fold over the labels.
TargetNext(p, x, j) ==
  IF j = p.taken THEN BranchCode(x, p.targets[j])
  ELSE Back(BranchCode(Aside(x), p.targets[j]), x)
TargetHolds(p, k, x) == Good(p.b, x)
Targets == INSTANCE Folding WITH Op <- TargetNext, Good <- TargetHolds

\* Compile_BranchTable keeps the invariant.
LEMMA BrTableSound ==
  ASSUME NEW c, Sound(c), ~Failed(c), NEW k \in 1..Len(c.scopes), NEW l \in 1..Len(c.scopes),
         NEW taken
  PROVE  Sound(BrTable(c, <<k, l>>, taken))
<1> DEFINE b == Around(c)
           targets == <<k, l>>
           p == [b |-> b, targets |-> targets, taken |-> taken]
           s == [j \in DOMAIN p.targets |-> j]
           a == Pop(Used(PreserveRegister(c, "i64"), 1))
           last == Targets!Folded(p, a, s)
<1>1. BrTable(c, p.targets, p.taken) = SetPolymorphic(last)
  BY DEF BrTable, TargetNext, FoldLeft, MapThenFoldSet, Max,
         Targets!Folded, Targets!MapThenFoldSet, Targets!Largest
<1>2. Good(b, c) /\ b.in = b.scopes /\ b.scopes = c.scopes
  BY SoundGood
<1>3. p.b = b /\ p.targets = targets /\ p.taken = taken
  OBVIOUS
<1>4. s \in Seq(Nat) /\ Len(s) = 2 /\ s[1] = 1 /\ s[2] = 2
  <2>1. DOMAIN p.targets = 1..2
    OBVIOUS
  <2> QED  BY <2>1, Numbers
<1> HIDE DEF b
<1>5. Good(b, a)
  BY <1>2, PreserveRegisterGood, UsedGood, PopGood
<1>6. targets[1] \in 1..Len(b.scopes) /\ targets[2] \in 1..Len(b.scopes)
  BY <1>2
<1>7. BrTable(c, <<k, l>>, taken) = BrTable(c, p.targets, p.taken)
  BY <1>3
<1> HIDE DEF p, s, targets, a
<1>9. TargetHolds(p, 0, a)
  BY <1>3, <1>5 DEF TargetHolds
<1>10. ASSUME NEW m \in 1..Len(s), NEW x, TargetHolds(p, m - 1, x)
       PROVE  TargetHolds(p, m, TargetNext(p, x, s[m]))
  <2>1. Good(b, x) /\ targets[s[m]] \in 1..Len(b.scopes)
    BY <1>3, <1>4, <1>6, <1>10 DEF TargetHolds
  <2>2. Good(b, BranchCode(x, targets[s[m]]))
    BY <1>2, <2>1, BranchCodeGood
  <2>3. Good(b, Back(BranchCode(Aside(x), targets[s[m]]), x))
    BY <1>2, <2>1, AsideBackGood
  <2> QED  BY <1>3, <2>2, <2>3 DEF TargetHolds, TargetNext
<1>11. TargetHolds(p, Len(s), last)
  BY <1>4, <1>9, <1>10, Targets!Invariant
<1> HIDE DEF last
<1>12. Sound(last)
  BY <1>2, <1>3, <1>11, GoodSound DEF TargetHolds
<1> QED  BY <1>1, <1>7, <1>12, SetPolymorphicSound

\* Compile_Return keeps the invariant.
LEMMA ReturnSound ==
  ASSUME NEW c, Sound(c), ~Failed(c)
  PROVE  Sound(Return(c))
<1> DEFINE b == Around(c)
           d == ReturnValues(c, TRUE)
<1>1. Good(b, c) /\ b.in = b.scopes /\ b.scopes = c.scopes /\ 1 \in 1..Len(c.scopes)
  <2>1. ScopesFit(c.scopes)
    BY DEF Sound, Fit, FitIn
  <2> QED  BY <2>1, SoundGood, ScopeFacts
<1> HIDE DEF b
<1>2. Good(b, d)
  BY <1>1, ReturnValuesGood
<1>3. Failed(d) \/ 1 \in 1..Len(d.scopes)
  BY <1>1, <1>2 DEF Good
<1> HIDE DEF d
<1>4. Good(b, Jump(d, 1))
  BY <1>1, <1>2, <1>3, JumpGood
<1>5. Sound(SetPolymorphic(Jump(d, 1)))
  BY <1>1, <1>4, GoodSound, SetPolymorphicSound
<1> QED  BY <1>5 DEF Return, d

\* Compile_Unreachable keeps the invariant.
LEMMA UnreachableSound ==
  ASSUME NEW c, Sound(c), ~Failed(c)
  PROVE  Sound(Unreachable(c))
<1> DEFINE path == IF Running(c) THEN Gone ELSE c.path
<1>1. path \in Paths
  BY Ways DEF Sound, Fit, FitIn
<1>2. Sound([c EXCEPT !.path = path])
  BY <1>1, PathSound
<1>3. Unreachable(c) = SetPolymorphic([c EXCEPT !.path = path])
  BY DEF Unreachable
<1> QED  BY <1>2, <1>3, SetPolymorphicSound

\* A function that is compiled has a result.
LEMMA FunctionEndSound ==
  ASSUME NEW c, Sound(c), ~Failed(c), NEW d,
         d = [ReturnValues(c, FALSE) EXCEPT !.path = Gone,
                                            !.result = IF @ = "none" THEN "compiled" ELSE @]
  PROVE  DOMAIN d = CompilationFields /\ Failed(d)
<1>1. DOMAIN ReturnValues(c, FALSE) = CompilationFields
  <2> DEFINE b == Around(c)
  <2>1. Good(b, c) /\ b.in = b.scopes
    BY SoundGood
  <2> HIDE DEF b
  <2>2. Good(b, ReturnValues(c, FALSE))
    BY <2>1, ReturnValuesGood
  <2> QED  BY <2>2 DEF Good
<1> DEFINE e == ReturnValues(c, FALSE)
<1> HIDE DEF e
<1>2. /\ DOMAIN d = CompilationFields
      /\ d.result = IF e.result = "none" THEN "compiled" ELSE e.result
  BY <1>1 DEF CompilationFields, e
<1> QED  BY <1>2, "compiled" # "none" DEF Failed

------------------------------------------------------------------------------
(* Constants, locals and globals *)

\* Max of two numbers.
LEMMA GreaterOf ==
  ASSUME NEW m \in Nat, NEW n \in Nat
  PROVE  Max({m, n}) \in {m, n} /\ m <= Max({m, n}) /\ n <= Max({m, n})
<1>1. {m, n} \in SUBSET Nat /\ {m, n} # {} /\ m + n \in Nat /\ \A x \in {m, n} : x <= m + n
  OBVIOUS
<1> QED  BY <1>1, MaxIn

\* Min of two numbers.
LEMMA LesserOf ==
  ASSUME NEW m \in Nat, NEW n \in Nat
  PROVE  Min({m, n}) \in {m, n} /\ Min({m, n}) <= m /\ Min({m, n}) <= n
<1>1. {m, n} \in SUBSET Nat /\ {m, n} # {}
  OBVIOUS
<1> QED  BY <1>1, MinIn

\* c with another table.
Tabled(c, d, m) ==
  /\ DOMAIN d = CompilationFields /\ d.stack = c.stack /\ d.count = c.count /\ d.reg = c.reg
  /\ d.scopes = c.scopes /\ d.dyn = c.dyn /\ d.first = c.first /\ d.const0 = c.const0
  /\ d.maxConst = m /\ d.path = c.path /\ d.result = c.result

\* The table of constants grows, within what is set aside for it.
LEMMA TableGrown ==
  ASSUME NEW b, NEW c, Good(b, c), ~Failed(c), NEW end \in Nat, end <= c.dyn,
         NEW d, Tabled(c, d, Max({c.maxConst, end}))
  PROVE  Good(b, d) /\ ~Failed(d) /\ d.stack = c.stack /\ d.const0 = c.const0
<1>1. /\ DOMAIN c = CompilationFields /\ FitIn(c, b.in) /\ c.scopes = b.scopes
      /\ c.dyn = b.dyn /\ c.const0 = b.const0
  BY DEF Good
<1>2. c.maxConst \in Nat /\ c.const0 \in Nat /\ c.const0 <= c.maxConst /\ c.maxConst <= c.dyn
  BY <1>1 DEF FitIn
<1> DEFINE m == Max({c.maxConst, end})
<1>3. m \in Nat /\ c.const0 <= m /\ m <= c.dyn
  <2>1. m \in {c.maxConst, end} /\ c.maxConst <= m
    BY <1>2, GreaterOf
  <2>2. c.dyn \in Nat
    BY <1>1, Constants DEF FitIn
  <2> HIDE DEF m
  <2> QED  BY <1>2, <2>1, <2>2
<1>4. Tabled(c, d, m)
  OBVIOUS
<1> HIDE DEF m
<1> QED  BY <1>1, <1>3, <1>4 DEF Good, FitIn, Failed, Tabled

\* PushConst keeps the invariant, with the constant in a table or a slot.
LEMMA PushConstSound ==
  ASSUME NEW c, Sound(c), ~Failed(c), NEW k
  PROVE  Sound(PushConst(c, k))
<1> DEFINE b == Around(c)
           t == k.type
           w == Width(t)
           same == {s \in c.const0 .. c.maxConst - w :
                      /\ (s - Align(c.const0, t)) % w = 0 /\ s >= Align(c.const0, t)
                      /\ \A x \in Cells(s, t) : c.count[x] > 0 /\ c.consts[x] = k.id}
           end == Min({c.dyn, c.const0 + MaxConstantTableSize})
           free == FreeSlots(c, t, c.const0, end)
           s == Min(free)
           d == Mark(c, s, t)
           x == [d EXCEPT !.consts = Filled(c.consts, Cells(s, t), k.id),
                          !.mem = Filled(c.mem, Cells(s, t), k.id),
                          !.maxConst = Max({@, s + w})]
<1>1. PushConst(c, k) = IF same # {} THEN Push(c, t, Min(same), k.id)
                        ELSE IF free = {} THEN PushAllocatedSlotAndEmit(c, t, k.id)
                        ELSE Push(x, t, s, k.id)
  BY DEF PushConst
<1>2. Good(b, c) /\ b.in = b.scopes
  BY SoundGood
<1> HIDE DEF b
<1>3. /\ c.const0 \in Nat /\ c.maxConst \in Nat /\ c.dyn \in Slots /\ c.dyn \in Nat
      /\ c.maxConst <= c.dyn /\ c.const0 <= c.dyn /\ w \in {1, 2}
      /\ MaxFunctionSlots \in Nat /\ Slots = 0 .. MaxFunctionSlots - 1
  BY <1>2, GoodFacts, Constants, Widths DEF Sound, Fit, FitIn
<1>4. CASE same # {}
  <2>1. same \in SUBSET Nat
    BY <1>3
  <2>2. Min(same) \in same
    BY <1>4, <2>1, MinIn
  <2>3. Min(same) \in Nat /\ c.const0 <= Min(same) /\ Min(same) <= c.maxConst - w
    BY <1>3, <2>2
  <2> DEFINE m == Min(same)
  <2> HIDE DEF same
  <2>4. InFrame(m, t)
    <3> HIDE DEF m
    <3> QED  BY <1>3, <2>3 DEF InFrame, m
  <2>5. Suits(b, c, m, t)
    BY <1>2, <2>3, <2>4, NewSlotSuits
  <2> QED  BY <1>1, <1>2, <1>4, <2>5, PushGood, GoodSound
<1>5. CASE same = {} /\ free = {}
  BY <1>1, <1>2, <1>5, PushAllocatedSlotAndEmitGood, GoodSound
<1>6. CASE same = {} /\ free # {}
  <2>1. end \in Nat /\ end <= c.dyn /\ end <= MaxFunctionSlots
    <3>2. c.const0 + MaxConstantTableSize \in Nat
      BY <1>3, TableSize
    <3>3. end \in {c.dyn, c.const0 + MaxConstantTableSize} /\ end <= c.dyn
      BY <1>3, <3>2, LesserOf
    <3> HIDE DEF end
    <3> QED  BY <1>3, <3>2, <3>3
  <2> HIDE DEF end
  <2>2. s \in Nat /\ c.const0 <= s /\ InFrame(s, t) /\ s + w <= end
    BY <1>3, <1>6, <2>1, SlotFound
  <2> HIDE DEF s, same, free
  <2>3. Good(b, d) /\ OrFailed(c, d) /\ ~Failed(d)
    BY <1>2, <2>2, MarkGood
  <2>4. d.dyn = c.dyn /\ d.const0 = c.const0
    BY <1>2, <2>3 DEF Good
  <2> DEFINE top == s + w
  <2>5. top \in Nat /\ top <= d.dyn
    BY <1>3, <2>1, <2>2, <2>4
  <2> HIDE DEF top, d
  <2>6. Tabled(d, x, Max({d.maxConst, top}))
    <3>1. DOMAIN d = CompilationFields
      BY <2>3 DEF Good
    <3> QED  BY <3>1 DEF Tabled, CompilationFields, top
  <2> HIDE DEF x
  <2>7. Good(b, x) /\ ~Failed(x) /\ x.const0 = d.const0
    BY <2>3, <2>5, <2>6, TableGrown
  <2>8. Suits(b, x, s, t)
    BY <2>2, <2>4, <2>7, NewSlotSuits
  <2>9. Good(b, Push(x, t, s, k.id))
    BY <2>7, <2>8, PushGood
  <2> QED  BY <1>1, <1>2, <1>6, <2>9, GoodSound
<1> QED  BY <1>4, <1>5, <1>6

\* Compile_GetLocal keeps the invariant.
LEMMA GetLocalSound ==
  ASSUME NEW c, Sound(c), ~Failed(c), NEW i \in 1..NumLocals
  PROVE  Sound(GetLocal(c, i))
<1> DEFINE b == Around(c)
           e == c.stack[i]
<1>1. Good(b, c) /\ b.in = b.scopes
  BY SoundGood
<1> HIDE DEF b
<1>2. StackFits(c.stack, c.const0) /\ NumLocals \in Nat
  BY <1>1, GoodFacts
<1>3. i \in 1..Len(c.stack) /\ e.slot \in Slots
  BY <1>2 DEF StackFits, IsSeq
<1>4. ~IsRegister(e.slot)
  BY <1>3, Constants
<1>5. InFrame(e.slot, e.type)
  BY <1>2, <1>3, <1>4 DEF StackFits
<1>6. \A j \in 1..NumLocals : c.stack[j].slot = e.slot => c.stack[j].type = e.type
  BY <1>2, <1>3 DEF StackFits
<1>7. Suits(b, c, e.slot, e.type)
  BY <1>4, <1>5, <1>6 DEF Suits, PlaceFits
<1> QED  BY <1>1, <1>7, PushGood, GoodSound DEF GetLocal

\* An entry of the stack has another value.
LEMMA ValueSetGood ==
  ASSUME NEW b, NEW c, Good(b, c), NEW i \in 1..NumLocals, NEW v
  PROVE  Good(b, [c EXCEPT !.stack[i].val = v])
<1> DEFINE stack == [c.stack EXCEPT ![i].val = v]
           d == [c EXCEPT !.stack[i].val = v]
<1>1. DOMAIN c = CompilationFields
  BY DEF Good
<1>2. /\ DOMAIN d = CompilationFields /\ d.stack = stack /\ d.count = c.count /\ d.reg = c.reg
      /\ d.scopes = c.scopes /\ d.dyn = c.dyn /\ d.first = c.first /\ d.const0 = c.const0
      /\ d.maxConst = c.maxConst /\ d.path = c.path /\ d.result = c.result
  BY <1>1 DEF CompilationFields
<1>3. CASE Failed(c)
  BY <1>2, <1>3 DEF Good, Failed
<1>4. CASE ~Failed(c)
  <2>1. /\ IsSeq(c.stack) /\ Len(c.stack) \in Nat
        /\ \A k \in 1..Len(c.stack) : DOMAIN c.stack[k] = EntryFields
    BY <1>4, GoodFacts
  <2>2. DOMAIN c.stack = 1..Len(c.stack)
    BY <2>1 DEF IsSeq
  <2>3. DOMAIN stack = DOMAIN c.stack /\ stack = [k \in DOMAIN stack |-> stack[k]]
    OBVIOUS
  <2>4. \A k \in DOMAIN c.stack : stack[k] = c.stack[k] \/ stack[k] = [c.stack[k] EXCEPT !.val = v]
    OBVIOUS
  <2> HIDE DEF stack, d
  <2>5. ASSUME NEW k \in DOMAIN c.stack
        PROVE  /\ DOMAIN stack[k] = DOMAIN c.stack[k]
               /\ stack[k].slot = c.stack[k].slot /\ stack[k].type = c.stack[k].type
    <3>1. DOMAIN c.stack[k] = EntryFields
      BY <2>1, <2>2
    <3> QED  BY <2>4, <3>1 DEF EntryFields
  <2>6. OtherValues(c, d)
    BY <1>1, <1>2, <2>3, <2>5 DEF OtherValues
  <2>7. d.path \in Paths
    BY <1>2, <1>4, Ways
  <2> QED  BY <1>4, <2>6, <2>7, OtherValuesGood DEF d
<1> QED  BY <1>3, <1>4

\* Compile_SetLocal and tee keep the invariant.
LEMMA SetLocalSound ==
  ASSUME NEW c, Sound(c), ~Failed(c), NEW i \in 1..NumLocals, NEW tee
  PROVE  Sound(SetLocal(c, i, tee))
<1> DEFINE b == Around(c)
           p == Preserve(c, i)
           d == CopyToSlot(p, c.stack[i].slot, Len(p.stack))
           e == IF Running(c) THEN [d EXCEPT !.stack[i].val = Last(c.stack).val] ELSE d
<1>1. SetLocal(c, i, tee) = IF tee THEN e ELSE Pop(e)
  BY DEF SetLocal
<1>2. Good(b, c) /\ b.in = b.scopes
  BY SoundGood
<1> HIDE DEF b
<1>3. Good(b, p)
  BY <1>2, PreserveGood
<1> HIDE DEF p
<1>4. Good(b, d)
  BY <1>3, CopyToSlotSame, SameGood DEF Good
<1> HIDE DEF d
<1>5. Good(b, e)
  BY <1>4, ValueSetGood
<1> HIDE DEF e
<1> QED  BY <1>1, <1>2, <1>5, PopGood, GoodSound

\* Compile_GetGlobal keeps the invariant.
LEMMA GetGlobalSound ==
  ASSUME NEW c, Sound(c), NEW t
  PROVE  Sound(GetGlobal(c, t))
BY SoundGood, PushAllocatedSlotAndEmitGood, GoodSound DEF GetGlobal

\* Compile_SetGlobal and Compile_Drop keep the invariant.
LEMMA SetGlobalSound ==
  ASSUME NEW c, Sound(c)
  PROVE  Sound(SetGlobal(c)) /\ Sound(Pop(c))
BY SoundGood, UsedGood, PopGood, GoodSound DEF SetGlobal

------------------------------------------------------------------------------
(* Operations: the register of the result is free once the operands are gone *)

\* The operands are what the code needs, or the code is dead.
LEMMA OperandTypes ==
  ASSUME NEW c, Sound(c), ~Failed(c), NEW ts, ts \in Seq(ValueType), Has(c, ts),
         ~Block(c).poly, NEW j \in 1..Len(ts), NEW i, i = Len(c.stack) - Len(ts) + j
  PROVE  /\ i \in Nat /\ Last(c.scopes).base < i /\ i <= Len(c.stack)
         /\ c.stack[i].type = ts[j]
<1>1. DOMAIN ts = 1..Len(ts) /\ Len(ts) \in Nat
  OBVIOUS
<1>2. Len(c.stack) \in Nat /\ Last(c.scopes).base \in Nat
  BY SoundGood, GoodFacts
<1>3. i > Last(c.scopes).base /\ c.stack[i].type = ts[j]
  BY <1>1 DEF Has, Block
<1> QED  BY <1>1, <1>2, <1>3

\* GetStackTypeFromTop sees operands of the innermost block.
LEMMA TypeSeen ==
  ASSUME NEW c, Sound(c), ~Failed(c), NEW k \in Nat, Last(c.scopes).base < Len(c.stack) - k
  PROVE  TypeFromTop(c, k) = c.stack[Len(c.stack) - k].type
<1>1. /\ Len(c.stack) \in Nat /\ Last(c.scopes).base \in Nat /\ NumLocals \in Nat
      /\ NumLocals <= Last(c.scopes).base /\ c.first = NumLocals
  BY SoundGood, GoodFacts
<1>2. Len(c.stack) - k > c.first
  BY <1>1
<1> QED  BY <1>2 DEF TypeFromTop

\* n operands are popped, one of them in the register for t.
FreedBy(b, c, i, n, t) ==
  /\ i \in Nat /\ Last(b.in).base < i /\ Len(c.stack) - n < i /\ i <= Len(c.stack)
  /\ IsRegister(c.stack[i].slot) /\ RegisterFor(c.stack[i].type) = RegisterFor(t)

\* The register of an operand that is popped is free.
LEMMA PoppedFree ==
  ASSUME NEW b, NEW c, Good(b, c), ~Failed(c), NEW d, Good(b, d), NEW n \in Nat,
         Popped(b, c, d, n), NEW t, NEW i, FreedBy(b, c, i, n, t)
  PROVE  Free(b, d, t)
<1> DEFINE r == RegisterFor(t)
<1>1. SUFFICES ASSUME ~Failed(d), ~Last(b.in).poly  PROVE d.reg[r] = 0
  BY DEF Free
<1>2. /\ ScopesFit(b.in) /\ RegistersFit(c.stack, c.reg, b.in) /\ StackFits(c.stack, c.const0)
      /\ Len(c.stack) \in Nat /\ c.reg \in [Registers -> Nat] /\ Last(b.in).base \in Nat
  BY GoodFacts
<1>3. /\ RegistersFit(d.stack, d.reg, b.in) /\ Len(d.stack) \in Nat /\ d.reg \in [Registers -> Nat]
  BY <1>1, GoodFacts
<1>4. i \in 1..Len(c.stack) /\ InUse(i, b.in) /\ ~Dead(i, b.in)
  BY <1>1, <1>2, ScopeFacts DEF FreedBy
<1>5. c.stack[i].slot = r /\ r \in Registers
  <2>1. IsRegister(c.stack[i].slot) /\ RegisterFor(c.stack[i].type) = r
    BY DEF FreedBy
  <2>2. c.stack[i].slot = RegisterFor(c.stack[i].type) \/ InFrame(c.stack[i].slot, c.stack[i].type)
    BY <1>2, <1>4 DEF StackFits
  <2>3. c.stack[i].slot \notin Slots
    BY <2>1, Constants
  <2> QED  BY <2>1, <2>2, <2>3 DEF InFrame, IsRegister
<1>6. c.reg[r] = i
  BY <1>2, <1>4, <1>5 DEF RegistersFit, IsRegister
<1>7. Len(d.stack) = Len(c.stack) - n
  BY <1>1 DEF Popped
<1>8. d.reg[r] = c.reg[r] \/ d.reg[r] = 0
  BY <1>1, <1>5 DEF Popped
<1>9. d.reg[r] # 0 => d.reg[r] <= Len(d.stack)
  BY <1>3, <1>5 DEF RegistersFit
<1> HIDE DEF r
<1>10. ~(i <= Len(d.stack))
  BY <1>2, <1>7 DEF FreedBy
<1> QED  BY <1>6, <1>8, <1>9, <1>10

\* A free register is free after operands were popped.
LEMMA StaysFreePopped ==
  ASSUME NEW b, NEW c, NEW d, NEW n, Popped(b, c, d, n), NEW t, Free(b, c, t)
  PROVE  Free(b, d, t)
BY Widths DEF Popped, Free

\* And while the execution goes on.
LEMMA SameFree ==
  ASSUME NEW b, NEW c, NEW d, Same(c, d), NEW t, Free(b, c, t)
  PROVE  Free(b, d, t)
BY DEF Same, Free, Failed

\* In dead code a register may be taken again.
LEMMA DeadFree ==
  ASSUME NEW c, Block(c).poly, NEW d, NEW t
  PROVE  Free(Around(c), d, t)
BY DEF Around, Free, Block

\* Whatever the register for t holds, it is among the operands, or it has been freed.
FreedOrTaken(b, a, n, t) ==
  \/ Free(b, a, t)
  \/ ~Failed(a) /\ \E i \in Nat : FreedBy(b, a, i, n, t)

\* The register of a result is free after the operands were popped.
LEMMA ResultFree ==
  ASSUME NEW b, b.in = b.scopes, NEW a, Good(b, a), NEW n \in Nat, NEW t, FreedOrTaken(b, a, n, t)
  PROVE  Good(b, Pops(a, n)) /\ Free(b, Pops(a, n), t)
<1>1. Good(b, Pops(a, n)) /\ Popped(b, a, Pops(a, n), n)
  BY PopsGood
<1>2. CASE Free(b, a, t)
  BY <1>1, <1>2, StaysFreePopped
<1>3. ASSUME ~Failed(a), NEW i \in Nat, FreedBy(b, a, i, n, t)
      PROVE  Free(b, Pops(a, n), t)
  BY <1>1, <1>3, PoppedFree
<1> QED  BY <1>1, <1>2, <1>3 DEF FreedOrTaken

\* What is asked of an operator.
OperatorFits(ins, out) ==
  /\ ins \in Seq(ValueType) /\ Len(ins) \in 1..2
  /\ out # "none" => /\ out \in ValueType
                     /\ \A j \in 1..Len(ins) : IsFp(ins[j]) <=> IsFp(Last(ins))

\* Arithmetic of a height and a count.
LEMMA Cancelled ==
  ASSUME NEW x \in Nat, NEW y \in Nat
  PROVE  x - y + y = x - 0 /\ (y # 0 => y \in 1..y)
OBVIOUS

\* An operation whose operands are integers leaves a float only if fp0 is free.
LEMMA OperatorSound ==
  ASSUME NEW c, Sound(c), NEW ins, NEW out, OperatorFits(ins, out), Failed(c) \/ Has(c, ins),
         out # "none" /\ IsFp(out) /\ ~IsFp(Last(ins)) => Free(Around(c), c, out)
  PROVE  Sound(Operator(c, ins, out))
<1> DEFINE b == Around(c)
           n == Len(ins)
           d == IF IsFp(TopType(c)) /\ out \in {"i32", "i64"} THEN PreserveRegister(c, out) ELSE c
           inReg == TopInRegister(d, 0) \/ (n = 2 /\ TopInRegister(d, 1))
           a == IF inReg THEN d ELSE PreserveRegister(d, out)
<1>1. Operator(c, ins, out) = IF out = "none" THEN Pops(Used(a, n), n)
                              ELSE ResultInRegister(Pops(a, n), out, Result(a, n))
  BY DEF Operator
<1>2. Good(b, c) /\ b.in = b.scopes /\ b.in = c.scopes
  BY SoundGood
<1>3. n \in 1..2 /\ n \in Nat /\ n # 0
  BY DEF OperatorFits
<1>4. Good(b, d) /\ Moved(c, d) /\ (d = c \/ Free(b, d, out))
  <2>1. Good(b, PreserveRegister(c, out)) /\ Moved(c, PreserveRegister(c, out))
        /\ Free(b, PreserveRegister(c, out), out)
    BY <1>2, PreserveRegisterGood
  <2>2. Moved(c, c)
    BY SameMoved DEF Same
  <2> QED  BY <1>2, <2>1, <2>2
<1>5. Good(b, a)
  BY <1>4, PreserveRegisterGood
<1>6. ASSUME out # "none"  PROVE FreedOrTaken(b, a, n, out)
  <2>1. CASE ~inReg
    BY <1>4, <2>1, PreserveRegisterGood DEF FreedOrTaken
  <2>2. CASE Failed(d)
    BY <2>2, PreserveRegisterGood, <1>4 DEF FreedOrTaken, Free
  <2>3. CASE Block(c).poly
    BY <2>3, DeadFree DEF FreedOrTaken
  <2>4. CASE inReg /\ ~Failed(d) /\ ~Block(c).poly
    <3>1. a = d /\ ~Failed(c) /\ Len(d.stack) = Len(c.stack) /\ Len(c.stack) \in Nat
      BY <1>2, <1>4, <2>4, GoodFacts DEF Moved
    <3>2. PICK j \in 1..n : InRegister(d, Len(c.stack) - n + j)
      <4>1. CASE TopInRegister(d, 0)
        <5>1. Len(c.stack) - n + n = Len(c.stack) - 0 /\ n \in 1..n
          BY <1>3, <3>1, Cancelled
        <5>2. InRegister(d, Len(c.stack) - 0)
          BY <3>1, <4>1 DEF TopInRegister
        <5> QED  BY <5>1, <5>2
      <4>2. CASE n = 2 /\ TopInRegister(d, 1)
        <5>1. Len(c.stack) - n + 1 = Len(c.stack) - 1 /\ 1 \in 1..n
          BY <1>3, <3>1, <4>2
        <5>2. InRegister(d, Len(c.stack) - 1)
          BY <3>1, <4>2 DEF TopInRegister
        <5> QED  BY <5>1, <5>2
      <4> QED  BY <2>4, <4>1, <4>2
    <3> DEFINE i == Len(c.stack) - n + j
    <3>3. /\ i \in Nat /\ Last(c.scopes).base < i /\ i <= Len(c.stack)
          /\ c.stack[i].type = ins[j]
      BY <2>4, <3>1, OperandTypes DEF OperatorFits
    <3>4. IsRegister(d.stack[i].slot) /\ d.stack[i].type = ins[j] /\ Len(d.stack) - n < i
      <4>1. i \in 1..Len(c.stack)
        <5>1. Last(c.scopes).base \in Nat
          BY <1>2, <3>1, GoodFacts
        <5> HIDE DEF i
        <5> QED  BY <3>1, <3>3, <5>1
      <4>2. d.stack[i].type = c.stack[i].type
        BY <1>4, <2>4, <4>1 DEF Moved
      <4>3. IsRegister(d.stack[i].slot)
        BY <3>2 DEF InRegister
      <4> QED  BY <1>3, <3>1, <3>3, <4>2, <4>3
    <3> HIDE DEF i
    <3>5. CASE IsFp(ins[j]) <=> IsFp(out)
      <4>1. RegisterFor(ins[j]) = RegisterFor(out)
        BY <3>5 DEF RegisterFor
      <4>2. FreedBy(b, d, i, n, out)
        BY <1>2, <3>1, <3>3, <3>4, <4>1 DEF FreedBy
      <4> QED  BY <2>4, <3>1, <3>3, <4>2 DEF FreedOrTaken
    <3>6. CASE IsFp(out) /\ ~IsFp(ins[j])
      <4>1. ~IsFp(Last(ins))
        BY <1>6, <3>6 DEF OperatorFits
      <4>2. Free(b, c, out)
        BY <1>6, <3>6, <4>1
      <4>3. Free(b, d, out)
        BY <1>4, <4>2, StaysFree
      <4> QED  BY <3>1, <4>3 DEF FreedOrTaken
    <3>7. CASE ~IsFp(out) /\ IsFp(ins[j])
      <4>1. IsFp(Last(ins)) /\ Last(ins) = ins[n] /\ n \in 1..Len(ins)
        BY <1>3, <1>6, <3>7 DEF OperatorFits, Last
      <4>2. /\ Len(c.stack) - n + n = Len(c.stack) /\ Last(c.scopes).base < Len(c.stack) - n + n
            /\ c.stack[Len(c.stack) - n + n].type = ins[n]
        BY <2>4, <3>1, <4>1, OperandTypes DEF OperatorFits
      <4>3. TopType(c) = Last(ins)
        <5>1. Len(c.stack) - 0 = Len(c.stack) /\ 0 \in Nat
          BY <3>1
        <5>2. TypeFromTop(c, 0) = c.stack[Len(c.stack) - 0].type
          BY <3>1, <4>2, <5>1, TypeSeen
        <5> QED  BY <4>1, <4>2, <5>1, <5>2 DEF TopType
      <4>4. out \in {"i32", "i64"}
        BY <1>6, <3>7 DEF OperatorFits, ValueType, IsFp
      <4>5. d = PreserveRegister(c, out)
        BY <4>1, <4>3, <4>4
      <4>6. Free(b, d, out)
        BY <1>2, <4>5, PreserveRegisterGood
      <4> QED  BY <3>1, <4>6 DEF FreedOrTaken
    <3> QED  BY <3>5, <3>6, <3>7
  <2> QED  BY <2>1, <2>2, <2>3, <2>4
<1> HIDE DEF b, d, a, n
<1>7. Good(b, Pops(Used(a, n), n))
  BY <1>2, <1>3, <1>5, UsedGood, PopsGood
<1>8. ASSUME out # "none"
      PROVE  Good(b, ResultInRegister(Pops(a, n), out, Result(a, n)))
  <2>1. FreedOrTaken(b, a, n, out)
    BY <1>6, <1>8
  <2>2. Good(b, Pops(a, n)) /\ Free(b, Pops(a, n), out)
    BY <1>2, <1>3, <1>5, <2>1, ResultFree
  <2> QED  BY <2>2, ResultInRegisterGood
<1> QED  BY <1>1, <1>2, <1>7, <1>8, GoodSound

\* Compile_Load_Store keeps the invariant for a load.
LEMMA LoadSound ==
  ASSUME NEW c, Sound(c), ~Failed(c), NEW t \in ValueType, Has(c, <<"i32">>)
  PROVE  Sound(Load(c, t))
<1> DEFINE b == Around(c)
           d == IF IsFp(t) THEN PreserveRegister(c, "f64") ELSE c
           ins == <<"i32">>
<1>1. Load(c, t) = Operator(d, ins, t)
  BY DEF Load
<1>2. Good(b, c) /\ b.in = b.scopes /\ b.in = c.scopes /\ b.scopes = c.scopes
  BY SoundGood
<1>3. Good(b, PreserveRegister(c, "f64")) /\ Moved(c, PreserveRegister(c, "f64"))
      /\ Free(b, PreserveRegister(c, "f64"), "f64")
  BY <1>2, PreserveRegisterGood
<1>4. ins \in Seq(ValueType) /\ Len(ins) = 1 /\ ins[1] = "i32" /\ DOMAIN ins = {1} /\ Last(ins) = "i32"
  BY DEF ValueType, Last
<1>5. OperatorFits(ins, t)
  BY <1>4 DEF OperatorFits
<1>6. Sound(d) /\ (Failed(d) \/ (Has(d, ins) /\ Around(d).in = b.in))
  <2>1. CASE ~IsFp(t)
    BY <2>1
  <2>2. CASE IsFp(t)
    <3>1. Sound(d)
      BY <1>2, <1>3, <2>2, GoodSound
    <3>2. ASSUME ~Failed(d)  PROVE Has(d, ins) /\ Around(d).in = b.in
      <4>1. /\ Len(d.stack) = Len(c.stack) /\ d.scopes = c.scopes /\ Len(c.stack) \in Nat
            /\ \A i \in 1..Len(c.stack) : d.stack[i].type = c.stack[i].type
            /\ Last(c.scopes).base \in Nat
        BY <1>2, <1>3, <2>2, <3>2, GoodFacts DEF Moved
      <4>2. Len(c.stack) - 1 + 1 = Len(c.stack)
        BY <4>1
      <4>3. Len(c.stack) > Last(c.scopes).base => Len(c.stack) \in 1..Len(c.stack)
        BY <4>1
      <4>4. Has(d, ins)
        <5>1. \/ Len(c.stack) > Last(c.scopes).base /\ c.stack[Len(c.stack)].type = "i32"
              \/ ~(Len(c.stack) > Last(c.scopes).base) /\ Last(c.scopes).poly
          BY <1>4, <4>2 DEF Has, Block
        <5>2. \/ Len(d.stack) > Last(d.scopes).base /\ d.stack[Len(d.stack)].type = "i32"
              \/ ~(Len(d.stack) > Last(d.scopes).base) /\ Last(d.scopes).poly
          BY <4>1, <4>3, <5>1
        <5>3. Len(d.stack) - Len(ins) + 1 = Len(d.stack)
          BY <1>4, <4>1, <4>2
        <5> HIDE DEF d, ins
        <5> QED  BY <1>4, <5>2, <5>3 DEF Has, Block
      <4> QED  BY <1>2, <4>1, <4>4, SoundGood, <3>1
    <3> QED  BY <3>1, <3>2
  <2> QED  BY <2>1, <2>2
<1>7. IsFp(t) => Free(Around(d), d, t)
  <2>1. SUFFICES ASSUME IsFp(t)  PROVE Free(Around(d), d, t)
    OBVIOUS
  <2>2. RegisterFor(t) = RegisterFor("f64") /\ d = PreserveRegister(c, "f64")
    BY <2>1 DEF RegisterFor, IsFp
  <2> QED  BY <1>3, <1>6, <2>2 DEF Free
<1> HIDE DEF d, ins
<1> QED  BY <1>1, <1>5, <1>6, <1>7, OperatorSound

\* Compile_Convert_Reinterpret keeps the invariant.
LEMMA ConvertSound ==
  ASSUME NEW c, Sound(c), ~Failed(c), NEW to
  PROVE  Sound(Convert(c, to))
<1> DEFINE b == Around(c)
           d == Pop(c)
<1>1. Good(b, c) /\ b.in = b.scopes
  BY SoundGood
<1> HIDE DEF b
<1>2. Good(b, d) /\ Popped(b, c, d, 1)
  BY <1>1, PopGood
<1> HIDE DEF d
<1>3. CASE c.reg[RegisterFor(to)] # 0
  BY <1>1, <1>2, <1>3, PushAllocatedSlotAndEmitGood, GoodSound DEF Convert, d
<1>4. CASE c.reg[RegisterFor(to)] = 0
  <2>1. Free(b, d, to)
    BY <1>2, <1>4, StaysFreePopped DEF Free
  <2>2. Good(b, ResultInRegister(d, to, Result(c, 1)))
    BY <1>2, <2>1, ResultInRegisterGood
  <2> QED  BY <1>1, <1>4, <2>2, GoodSound DEF Convert, d
<1> QED  BY <1>3, <1>4

\* Compile_Select keeps the invariant.
LEMMA SelectSound ==
  ASSUME NEW c, Sound(c), ~Failed(c), NEW u \in ValueType, Has(c, <<u, u, "i32">>)
  PROVE  Sound(Select(c))
<1> DEFINE b == Around(c)
           t == TypeFromTop(c, 1)
           kept == IF IsFp(t) THEN {1, 2} ELSE {0, 1, 2}
           inReg == \E k \in kept : TopInRegister(c, k)
           a == IF t = "none" \/ inReg THEN c ELSE PreserveRegister(c, t)
           ts == <<u, u, "i32">>
           L == Len(c.stack)
<1>1. Select(c) = ResultInRegister(IF t = "none" THEN a ELSE Pops(a, 3), t, Result(a, 3))
  BY DEF Select
<1>2. Good(b, c) /\ b.in = b.scopes /\ b.in = c.scopes
  BY SoundGood
<1>3. Good(b, a) /\ Moved(c, a) /\ (a = c \/ Free(b, a, t))
  <2>1. Moved(c, c)
    BY SameMoved DEF Same
  <2> QED  BY <1>2, <2>1, PreserveRegisterGood
<1>4. CASE Block(c).poly
  <2>1. Good(b, IF t = "none" THEN a ELSE Pops(a, 3))
    <3> HIDE DEF a, b, t
    <3> QED  BY <1>2, <1>3, PopsGood
  <2>2. Free(b, IF t = "none" THEN a ELSE Pops(a, 3), t)
    BY <1>4, DeadFree
  <2> HIDE DEF a, b, t
  <2>3. Good(b, ResultInRegister(IF t = "none" THEN a ELSE Pops(a, 3), t, Result(a, 3)))
    BY <2>1, <2>2, ResultInRegisterGood
  <2> QED  BY <1>1, <1>2, <2>3, GoodSound
<1>5. CASE ~Block(c).poly
  <2>1. ts \in Seq(ValueType) /\ Len(ts) = 3 /\ ts[1] = u /\ ts[2] = u /\ ts[3] = "i32"
    BY DEF ValueType
  <2>0. Has(c, ts) /\ 1 \in 1..3 /\ 2 \in 1..3 /\ 3 \in 1..3
    OBVIOUS
  <2>2. L \in Nat /\ Last(c.scopes).base \in Nat
    BY <1>2, GoodFacts
  <2>3. L - 3 + 1 = L - 2 /\ L - 3 + 2 = L - 1 /\ L - 3 + 3 = L - 0 /\ 3 \in Nat
    BY <2>2
  <2> HIDE DEF ts
  <2>4. ASSUME NEW k \in {0, 1, 2}
        PROVE  /\ L - k \in Nat /\ Last(c.scopes).base < L - k /\ L - k <= L
               /\ c.stack[L - k].type = IF k = 0 THEN "i32" ELSE u
    <3>a. Has(c, ts) /\ ts \in Seq(ValueType)
      BY <2>0, <2>1
    <3>0. ASSUME NEW j \in 1..Len(ts), NEW i, i = Len(c.stack) - Len(ts) + j
          PROVE  /\ i \in Nat /\ Last(c.scopes).base < i
                 /\ i <= Len(c.stack) /\ c.stack[i].type = ts[j]
      <4>1. DOMAIN ts = 1..Len(ts) /\ Len(ts) \in Nat
        BY <3>a
      <4>2. i > Last(c.scopes).base /\ c.stack[i].type = ts[j]
        BY <1>5, <3>a, <3>0, <4>1 DEF Has, Block
      <4> QED  BY <2>2, <3>0, <4>1, <4>2
    <3>1. /\ L - Len(ts) + 1 \in Nat /\ Last(c.scopes).base < L - Len(ts) + 1
          /\ L - Len(ts) + 1 <= L /\ c.stack[L - Len(ts) + 1].type = ts[1]
      BY <2>0, <2>1, <3>0
    <3>2. /\ L - Len(ts) + 2 \in Nat /\ Last(c.scopes).base < L - Len(ts) + 2
          /\ L - Len(ts) + 2 <= L /\ c.stack[L - Len(ts) + 2].type = ts[2]
      BY <2>0, <2>1, <3>0
    <3>3. /\ L - Len(ts) + 3 \in Nat /\ Last(c.scopes).base < L - Len(ts) + 3
          /\ L - Len(ts) + 3 <= L /\ c.stack[L - Len(ts) + 3].type = ts[3]
      BY <2>0, <2>1, <3>0
    <3> HIDE DEF L
    <3> QED  BY <2>1, <2>3, <3>1, <3>2, <3>3
  <2>5. t = u /\ t # "none"
    BY <2>4, TypeSeen DEF ValueType
  <2>6. FreedOrTaken(b, a, 3, t)
    <3>1. CASE inReg
      <4>1. PICK k \in kept : TopInRegister(c, k)
        BY <3>1
      <4> DEFINE i == L - k
      <4>2. k \in {0, 1, 2} /\ IsRegister(c.stack[i].slot)
        BY <4>1 DEF TopInRegister, InRegister
      <4>3. i \in Nat /\ Last(c.scopes).base < i /\ i <= L /\ L - 3 < i
        <5>1. L - 3 < L - k
          <6> HIDE DEF L
          <6> QED  BY <2>2, <4>2
        <5> QED  BY <2>4, <4>2, <5>1
      <4>4. RegisterFor(c.stack[i].type) = RegisterFor(t)
        <5>1. CASE k = 0
          <6>1. ~IsFp(t)
            BY <4>1, <5>1
          <6>2. c.stack[i].type = "i32" /\ ~IsFp("i32")
            BY <2>4, <5>1 DEF IsFp
          <6> QED  BY <6>1, <6>2 DEF RegisterFor
        <5>2. CASE k # 0
          <6>1. c.stack[i].type = t
            BY <2>4, <2>5, <4>2, <5>2
          <6> QED  BY <6>1
        <5> QED  BY <5>1, <5>2
      <4>5. a = c
        BY <3>1
      <4> HIDE DEF i
      <4>6. FreedBy(b, a, i, 3, t)
        BY <1>2, <4>2, <4>3, <4>4, <4>5 DEF FreedBy
      <4> QED  BY <4>3, <4>5, <4>6 DEF FreedOrTaken
    <3>2. CASE ~inReg
      BY <1>2, <2>5, <3>2, PreserveRegisterGood DEF FreedOrTaken
    <3> QED  BY <3>1, <3>2
  <2> HIDE DEF a, b, t
  <2>7. Good(b, Pops(a, 3)) /\ Free(b, Pops(a, 3), t)
    BY <1>2, <1>3, <2>6, ResultFree
  <2>8. Good(b, ResultInRegister(Pops(a, 3), t, Result(a, 3)))
    BY <2>7, ResultInRegisterGood
  <2> QED  BY <1>1, <1>2, <2>5, <2>8, GoodSound
<1> QED  BY <1>4, <1>5

\* Compile_Memory_Size keeps the invariant.
LEMMA MemorySizeSound ==
  ASSUME NEW c, Sound(c)
  PROVE  Sound(MemorySize(c))
<1> DEFINE b == Around(c)
           d == PreserveRegister(c, "i32")
<1>1. Good(b, c) /\ b.in = b.scopes
  BY SoundGood
<1> HIDE DEF b
<1>2. Good(b, d) /\ Free(b, d, "i32")
  BY <1>1, PreserveRegisterGood
<1> HIDE DEF d
<1>3. Good(b, ResultInRegister(d, "i32", New(d)))
  BY <1>2, ResultInRegisterGood
<1> QED  BY <1>1, <1>3, GoodSound DEF MemorySize, Grown, d

\* PopType pops an operand.
LEMMA PopTypePopped ==
  ASSUME NEW b, b.in = b.scopes, NEW c, Good(b, c), NEW t
  PROVE  Popped(b, c, PopType(c, t), 1)
<1>1. Failed(Fail(c, "typeMismatch"))
  BY Fails, "typeMismatch" # "none" DEF Good
<1>2. Popped(b, c, Pop(c), 1)
  BY PopGood
<1>3. Failed(c) => PopType(c, t) = c
  BY DEF PopType
<1> QED  BY <1>1, <1>2, <1>3 DEF PopType, Popped

\* Once the top of the stack was brought to r0, r0 is free or the top is in it.
LEMMA TopBrought ==
  ASSUME NEW c, Sound(c), ~Failed(c), Has(c, <<"i32">>), NEW d, d = CopyTopToRegister(c)
  PROVE  FreedOrTaken(Around(c), d, 1, "i32")
<1> DEFINE b == Around(c)
           p == PreserveRegister(c, TopType(c))
           L == Len(c.stack)
           ts == <<"i32">>
<1>1. CASE Block(c).poly
  BY <1>1, DeadFree DEF FreedOrTaken
<1>2. CASE ~Block(c).poly
  <2>1. Good(b, c) /\ b.in = b.scopes /\ b.in = c.scopes
    BY SoundGood
  <2>2. L \in Nat /\ Last(c.scopes).base \in Nat
    BY <2>1, GoodFacts
  <2>3. ts \in Seq(ValueType) /\ Len(ts) = 1 /\ ts[1] = "i32"
    BY DEF ValueType
  <2>0. Has(c, ts) /\ 1 \in 1..1
    OBVIOUS
  <2>4. L - 1 + 1 = L - 0 /\ L - 0 = L /\ 0 \in Nat /\ L - 1 < L
    BY <2>2
  <2> HIDE DEF ts
  <2>5. Last(c.scopes).base < L - 0 /\ c.stack[L - 0].type = "i32"
    <3>1. Last(c.scopes).base < L - Len(ts) + 1 /\ c.stack[L - Len(ts) + 1].type = ts[1]
      BY <1>2, <2>0, <2>3, OperandTypes
    <3> HIDE DEF L
    <3> QED  BY <2>3, <2>4, <3>1
  <2>6. TopType(c) = "i32"
    BY <2>5, <2>4, TypeSeen DEF TopType
  <2>7. CASE TopInRegister(c, 0)
    <3>1. d = c /\ IsRegister(c.stack[L].slot)
      BY <2>4, <2>7 DEF CopyTopToRegister, TopInRegister, InRegister
    <3>2. FreedBy(b, d, L, 1, "i32")
      BY <2>1, <2>2, <2>4, <2>5, <3>1 DEF FreedBy
    <3> QED  BY <2>2, <3>1, <3>2 DEF FreedOrTaken
  <2>8. CASE ~TopInRegister(c, 0)
    <3>1. d = LoadTop(p, TopType(c))
      BY <2>8 DEF CopyTopToRegister
    <3>2. Good(b, p) /\ Free(b, p, "i32")
      BY <2>1, <2>6, PreserveRegisterGood
    <3> HIDE DEF p, b
    <3>3. Same(p, d)
      BY <3>1, <3>2, LoadTopSame DEF Good
    <3>4. Free(b, d, "i32")
      BY <3>2, <3>3, SameFree
    <3> QED  BY <3>4 DEF FreedOrTaken, b
  <2> QED  BY <2>7, <2>8
<1> QED  BY <1>1, <1>2

\* A register that will be free stays so while the execution goes on.
LEMMA SameFreedOrTaken ==
  ASSUME NEW b, NEW c, NEW d, Same(c, d), NEW n, NEW t, FreedOrTaken(b, c, n, t)
  PROVE  FreedOrTaken(b, d, n, t)
BY SameFree DEF Same, FreedOrTaken, FreedBy, Failed

\* Compile_Memory_Grow keeps the invariant.
LEMMA MemoryGrowSound ==
  ASSUME NEW c, Sound(c), ~Failed(c), Has(c, <<"i32">>)
  PROVE  Sound(MemoryGrow(c))
<1> DEFINE b == Around(c)
           d == CopyTopToRegister(c)
           e == Condition(c, d)
           f == PopType(e, "i32")
<1>1. Good(b, c) /\ b.in = b.scopes
  BY SoundGood
<1>2. Good(b, d) /\ FreedOrTaken(b, d, 1, "i32")
  BY <1>1, CopyTopToRegisterGood, TopBrought
<1> HIDE DEF b, d
<1>3. Good(b, e) /\ Same(d, e)
  BY <1>2, ConditionGood
<1> HIDE DEF e
<1>4. FreedOrTaken(b, e, 1, "i32")
  BY <1>2, <1>3, SameFreedOrTaken
<1>5. Good(b, f) /\ Popped(b, e, f, 1)
  BY <1>1, <1>3, PopTypeGood, PopTypePopped
<1> HIDE DEF f
<1>6. Free(b, f, "i32")
  <2>1. CASE Free(b, e, "i32")
    BY <1>5, <2>1, StaysFreePopped
  <2>2. ASSUME ~Failed(e), NEW i \in Nat, FreedBy(b, e, i, 1, "i32")
        PROVE  Free(b, f, "i32")
    BY <1>3, <1>5, <2>2, PoppedFree
  <2> QED  BY <1>4, <2>1, <2>2 DEF FreedOrTaken
<1>7. Good(b, ResultInRegister(f, "i32", New(f)))
  BY <1>5, <1>6, ResultInRegisterGood
<1> QED  BY <1>1, <1>7, GoodSound DEF MemoryGrow, Grown, f, e, d

\* Compile_Memory_CopyFill keeps the invariant.
LEMMA MemoryCopyFillSound ==
  ASSUME NEW c, Sound(c)
  PROVE  Sound(MemoryCopyFill(c))
<1> DEFINE b == Around(c)
           d == CopyTopToRegister(c)
           e == Condition(c, d)
           f == Used(e, 3)
           g == PopType(f, "i32")
<1>1. Good(b, c) /\ b.in = b.scopes
  BY SoundGood
<1> HIDE DEF b
<1>2. Good(b, d)
  BY <1>1, CopyTopToRegisterGood
<1> HIDE DEF d
<1>3. Good(b, e)
  BY <1>2, ConditionGood
<1> HIDE DEF e
<1>4. Good(b, f)
  BY <1>3, UsedGood
<1> HIDE DEF f
<1>5. Good(b, g)
  BY <1>1, <1>4, PopTypeGood
<1> HIDE DEF g
<1>6. Good(b, Pops(g, 2))
  BY <1>1, <1>5, PopsGood
<1> QED  BY <1>1, <1>6, GoodSound DEF MemoryCopyFill, g, f, e, d

------------------------------------------------------------------------------
(* Calls *)

\* The parts of Compile_Call: where it begins, where the frame of the callee does, ...
CallFrom(p) == IF p.indirect /\ TopInRegister(p.c, 0) THEN PreserveRegister(p.c, "i32") ELSE p.c
CallTop(p) == Align(Max({1, MaxUsedSlotPlusOne(CallFrom(p))}), "i64")
CallArgs(p) == IF p.indirect THEN Pop(CallFrom(p)) ELSE CallFrom(p)
\* ... what is called, ...
CallIndex(p) ==
  IF CallFrom(p).stack = <<>> THEN [slot |-> Unused, val |-> Junk] ELSE Last(CallFrom(p).stack)

\* ... its arguments in a fold, ...
ArgNext(p, x, j) ==
  Pop(CopyToSlot(x, CallTop(p) + IoSlots * (Len(p.t.results) + Len(p.t.params) - j), Len(x.stack)))
\* Nothing goes on once it has failed.
After(b, a, x) == Good(b, x) /\ (Failed(a) => Failed(x))
ArgHolds(p, k, x) == After(Around(p.c), CallFrom(p), x)
Passing == INSTANCE Folding WITH Op <- ArgNext, Good <- ArgHolds

Passed(p) == Passing!Folded(p, CallArgs(p), [j \in 1..Len(p.t.params) |-> j])
\* ... what the callee is given, ...
Checked(p) ==
  LET at(j) == Held(Passed(p), CallTop(p) + IoSlots * (Len(p.t.results) + j - 1), p.t.params[j])
  IN Observe(Observe(Passed(p), TopVals(CallArgs(p), Len(p.t.params)), [j \in 1..Len(p.t.params) |-> at(j)]),
             IF p.indirect THEN CallIndex(p).val ELSE Junk,
             IF p.indirect THEN Held(Passed(p), CallIndex(p).slot, "i32") ELSE Junk)
Called(p) ==
  IF Running(Checked(p))
  THEN [Checked(p) EXCEPT
          !.mem = Filled(Checked(p).mem, CallTop(p) .. MaxFunctionSlots + Frame - 1, Junk)]
  ELSE Checked(p)

\* ... and its results in a fold.
Put(x, t, s, v) == Store(Mark(Push(x, t, s, v), s, t), s, t, v)
PutNext(p, x, j) == Put(x, p.t.results[j], CallTop(p) + IoSlots * (j - 1), New(x))
PutHolds(p, k, x) == After(Around(p.c), CallFrom(p), x)
Answering == INSTANCE Folding WITH Op <- PutNext, Good <- PutHolds

\* Compile_Call as a fold over the results of the function.
LEMMA Calling ==
  ASSUME NEW p
  PROVE  Call(p.c, p.t, p.indirect)
           = Answering!Folded(p, Called(p), [j \in 1..Len(p.t.results) |-> j])
BY DEF Call, CallFrom, CallTop, CallArgs, CallIndex, ArgNext, Passed, Checked, Called, Put, PutNext,
       FoldLeft, MapThenFoldSet, Max, Passing!Folded, Passing!MapThenFoldSet, Passing!Largest, Answering!Folded, Answering!MapThenFoldSet, Answering!Largest

\* The callee's frame starts above the slots in use.
LEMMA AboveSlots ==
  ASSUME NEW b, NEW c, Good(b, c), ~Failed(c)
  PROVE  LET top == Align(Max({1, MaxUsedSlotPlusOne(c)}), "i64")
         IN top \in Nat /\ b.const0 <= top
<1> DEFINE used == {s + 1 : s \in {x \in c.dyn .. MaxFunctionSlots - 1 : c.count[x] > 0}}
           m == Max({c.dyn} \cup used)
           n == Max({1, m})
<1>1. /\ c.dyn \in Nat /\ c.const0 <= c.dyn /\ c.const0 \in Nat /\ b.const0 = c.const0
      /\ MaxFunctionSlots \in Nat /\ c.dyn \in 0 .. MaxFunctionSlots - 1
  BY GoodFacts, Constants
<1>2. {c.dyn} \cup used \in SUBSET Nat /\ \A x \in {c.dyn} \cup used : x <= MaxFunctionSlots
  BY <1>1
<1>3. m \in Nat /\ c.dyn <= m
  <2> HIDE DEF used
  <2> QED  BY <1>1, <1>2, MaxIn
<1> HIDE DEF m
<1>4. n \in Nat /\ m <= n
  BY <1>3, GreaterOf
<1> HIDE DEF n
<1>5. Align(n, "i64") \in Nat /\ n <= Align(n, "i64")
  BY <1>4, Widths
<1>6. MaxUsedSlotPlusOne(c) = m
  BY DEF MaxUsedSlotPlusOne, m
<1> QED  BY <1>1, <1>3, <1>4, <1>5, <1>6 DEF n

\* Pushing a result of a call in its slot keeps the invariant.
LEMMA PutGood ==
  ASSUME NEW b, NEW c, Good(b, c), NEW t, NEW s, NEW v,
         Failed(c) \/ (s \in Nat /\ b.const0 <= s)
  PROVE  Good(b, Put(c, t, s, v)) /\ (Failed(c) => Failed(Put(c, t, s, v)))
<1> DEFINE d == Push(c, t, s, v)
           e == Mark(d, s, t)
<1>1. DOMAIN d = CompilationFields /\ (Failed(c) => d = c)
  BY PushFields DEF Good
<1>2. Good(b, e) /\ (Failed(d) => Failed(e))
  <2>1. CASE Failed(d)
    <3>1. Good(b, d) /\ e = d
      BY <1>1, <2>1 DEF Good, Mark
    <3> QED  BY <2>1, <3>1
  <2>2. CASE ~Failed(d) /\ InFrame(s, t)
    <3>1. ~Failed(c)
      BY <1>1, <2>2
    <3>2. Suits(b, c, s, t)
      BY <2>2, <3>1, NewSlotSuits, GoodFacts
    <3>3. Good(b, d)
      BY <3>2, PushGood
    <3> HIDE DEF d
    <3> QED  BY <2>2, <3>3, MarkGood
  <2>3. CASE ~Failed(d) /\ ~InFrame(s, t)
    <3>1. ~Failed(c)
      BY <1>1, <2>3
    <3>2. ~(Cells(s, t) \subseteq Slots)
      BY <2>3, <3>1, Widths
    <3>3. e = Fail(d, "wild")
      BY <2>3, <3>2 DEF Mark
    <3> HIDE DEF d, e
    <3> QED  BY <1>1, <2>3, <3>3, Fails, "wild" # "none"
  <2> QED  BY <2>1, <2>2, <2>3
<1> HIDE DEF d, e
<1>3. Good(b, Store(e, s, t, v)) /\ Same(e, Store(e, s, t, v))
  BY <1>2, EmitGood
<1> QED  BY <1>1, <1>2, <1>3 DEF Put, Same, Failed, d, e

\* Compile_Call and Compile_CallIndirect keep the invariant.
LEMMA CallSound ==
  ASSUME NEW c, Sound(c), NEW t \in Signature, NEW indirect \in BOOLEAN,
         Len(t.params) \in Nat, Len(t.results) \in Nat
  PROVE  Sound(Call(c, t, indirect))
<1> DEFINE p == [c |-> c, t |-> t, indirect |-> indirect]
           b == Around(c)
           ns == [j \in 1..Len(p.t.params) |-> j]
           rs == [j \in 1..Len(p.t.results) |-> j]
           a == CallFrom(p)
           new == Answering!Folded(p, Called(p), rs)
<1>1. p.c = c /\ p.t = t /\ p.indirect = indirect
  OBVIOUS
<1>2. Call(c, t, indirect) = new
  <2>1. Call(p.c, p.t, p.indirect) = new
    BY Calling
  <2> HIDE DEF new
  <2> QED  BY <1>1, <2>1
<1>3. Good(b, c) /\ b.in = b.scopes /\ b = Around(p.c)
  BY <1>1, SoundGood
<1>4. /\ ns \in Seq(Nat) /\ Len(ns) = Len(t.params) /\ rs \in Seq(Nat) /\ Len(rs) = Len(t.results)
      /\ \A j \in 1..Len(rs) : rs[j] = j
  BY <1>1, Numbers
<1> HIDE DEF b, p, ns, rs
<1>5. Good(b, a)
  BY <1>1, <1>3, PreserveRegisterGood DEF CallFrom
<1> HIDE DEF a
<1>6. After(b, a, CallArgs(p))
  <2>1. Failed(a) => Failed(Pop(a))
    BY DEF Pop
  <2> QED  BY <1>3, <1>5, <2>1, PopGood DEF CallArgs, After, a
<1>7. After(b, a, Passed(p))
  <2>1. ArgHolds(p, 0, CallArgs(p))
    BY <1>3, <1>6 DEF ArgHolds, a
  <2>2. ASSUME NEW k \in 1..Len(ns), NEW x, ArgHolds(p, k - 1, x)
        PROVE  ArgHolds(p, k, ArgNext(p, x, ns[k]))
    <3> DEFINE slot == CallTop(p) + IoSlots * (Len(p.t.results) + Len(p.t.params) - ns[k])
               y == CopyToSlot(x, slot, Len(x.stack))
    <3>1. Good(b, x) /\ (Failed(a) => Failed(x))
      BY <1>3, <2>2 DEF ArgHolds, After, a
    <3>2. Good(b, y) /\ Same(x, y)
      BY <3>1, CopyToSlotSame, SameGood DEF Good
    <3>3. ArgNext(p, x, ns[k]) = Pop(y)
      BY DEF ArgNext
    <3> HIDE DEF slot, y
    <3>4. Good(b, Pop(y)) /\ (Failed(y) => Failed(Pop(y)))
      <4>1. Good(b, Pop(y))
        BY <1>3, <3>2, PopGood
      <4>2. Failed(y) => Pop(y) = y
        BY DEF Pop
      <4> QED  BY <4>1, <4>2
    <3>5. Failed(a) => Failed(Pop(y))
      BY <3>1, <3>2, <3>4 DEF Same, Failed
    <3> QED  BY <1>3, <3>3, <3>4, <3>5 DEF ArgHolds, After, a
  <2> DEFINE last == Passing!Folded(p, CallArgs(p), ns)
  <2>3. ArgHolds(p, Len(ns), last)
    BY <1>4, <2>1, <2>2, Passing!Invariant
  <2>4. last = Passed(p)
    BY DEF Passed, ns
  <2> HIDE DEF last
  <2> QED  BY <1>3, <2>3, <2>4 DEF ArgHolds, a
<1>8. After(b, a, Called(p))
  <2>1. After(b, a, Checked(p))
    <3> DEFINE x == Passed(p)
    <3> HIDE DEF x
    <3>1. Good(b, x) /\ (Failed(a) => Failed(x))
      BY <1>7 DEF After, x
    <3>2. ASSUME NEW y, Good(b, y), Failed(a) => Failed(y), NEW u, NEW v
          PROVE  Good(b, Observe(y, u, v)) /\ (Failed(a) => Failed(Observe(y, u, v)))
      BY <3>2, ObserveGood DEF Same, Failed
    <3> QED  BY <3>1, <3>2 DEF Checked, After, x
  <2> DEFINE x == Checked(p)
             mem == Filled(x.mem, CallTop(p) .. MaxFunctionSlots + Frame - 1, Junk)
  <2>2. Called(p) = IF Running(x) THEN [x EXCEPT !.mem = mem] ELSE x
    BY DEF Called
  <2> HIDE DEF x, mem
  <2>3. DOMAIN x = CompilationFields
    BY <2>1 DEF x, After, Good
  <2>4. Same(x, [x EXCEPT !.mem = mem])
    BY <2>3 DEF Same, CompilationFields
  <2>5. Good(b, [x EXCEPT !.mem = mem]) /\ (Failed(x) => Failed([x EXCEPT !.mem = mem]))
    BY <2>1, <2>4, SameGood DEF x, After, Same, Failed
  <2> QED  BY <2>1, <2>2, <2>5 DEF x, After
<1>9. PutHolds(p, 0, Called(p))
  BY <1>3, <1>8 DEF PutHolds, a
<1>10. ASSUME NEW k \in 1..Len(rs), NEW x, PutHolds(p, k - 1, x)
       PROVE  PutHolds(p, k, PutNext(p, x, rs[k]))
  <2> DEFINE top == CallTop(p)
             s == top + IoSlots * (k - 1)
             new1 == Put(x, p.t.results[k], s, New(x))
  <2>1. Good(b, x) /\ (Failed(a) => Failed(x)) /\ k \in Nat \ {0} /\ rs[k] = k
    BY <1>3, <1>4, <1>10 DEF PutHolds, After, a
  <2>2. PutNext(p, x, rs[k]) = new1
    BY <2>1 DEF PutNext
  <2>3. Failed(x) \/ (s \in Nat /\ b.const0 <= s)
    <3>1. SUFFICES ASSUME ~Failed(x)  PROVE s \in Nat /\ b.const0 <= s
      OBVIOUS
    <3>2. top \in Nat /\ b.const0 <= top /\ b.const0 \in Nat
      <4>1. ~Failed(a)
        BY <2>1, <3>1
      <4>2. top \in Nat /\ b.const0 <= top
        BY <1>5, <4>1, AboveSlots DEF CallTop, a
      <4> QED  BY <1>5, <4>1, <4>2, GoodFacts
    <3> HIDE DEF top
    <3> QED  BY <2>1, <3>2 DEF IoSlots
  <2> HIDE DEF s
  <2>4. Good(b, new1) /\ (Failed(x) => Failed(new1))
    BY <2>1, <2>3, PutGood
  <2> QED  BY <1>3, <2>1, <2>2, <2>4 DEF PutHolds, After, a
<1>11. PutHolds(p, Len(rs), new)
  BY <1>4, <1>9, <1>10, Answering!Invariant
<1> HIDE DEF new
<1> QED  BY <1>2, <1>3, <1>11, GoodSound DEF PutHolds, After

------------------------------------------------------------------------------
(* Blocks *)

\* What comes before a block is compiled.
ParamReady(p, x, j) ==
  LET a == PreserveArgsAndLocals(PreserveRegisters(p.c))
      i == Len(a.stack) - Len(p.t.params) + j
      ToSlot(y, k, s) == [CopyToSlot(Mark(y, s, y.stack[k].type), s, k) EXCEPT !.stack[k].slot = s]
      e == x.stack[i]
  IN IF Failed(x) \/ i <= Block(x).base \/ ~(x.const0 <= e.slot /\ e.slot < x.maxConst) THEN x
     ELSE IF HasSlot(x, e.type) THEN ToSlot(x, i, SlotFor(x, e.type))
     ELSE Fail(x, "functionStackOverflow")
ParamReadyHolds(p, k, x) == x = PreserveArgsAndLocals(PreserveRegisters(p.c))
Instantiating == INSTANCE Folding WITH Op <- ParamReady, Good <- ParamReadyHolds

\* Compile_LoopOrBlock and Compile_If preserve registers and locals before the block.
LEMMA Opening ==
  ASSUME NoParams, NEW c, NEW t \in BlockTypes, NEW op
  PROVE  Open(c, t, op) = Enter(PreserveArgsAndLocals(PreserveRegisters(c)), t, op)
<1> DEFINE p == [c |-> c, t |-> t]
           a == PreserveArgsAndLocals(PreserveRegisters(p.c))
           s == [j \in 1..Len(p.t.params) |-> j]
           last == Instantiating!Folded(p, a, s)
<1>1. p.c = c /\ p.t = t /\ Len(p.t.params) = 0
  BY DEF NoParams
<1>2. Open(p.c, p.t, op) = Enter(IF op = "loop" THEN last ELSE a, p.t, op)
  BY DEF Open, ParamReady, FoldLeft, MapThenFoldSet, Max, Instantiating!Folded,
         Instantiating!MapThenFoldSet, Instantiating!Largest
<1> HIDE DEF p
<1>3. s \in Seq(Nat) /\ Len(s) = 0
  BY <1>1, Numbers
<1> HIDE DEF s
<1>4. ParamReadyHolds(p, 0, a)
  BY DEF ParamReadyHolds
<1>6. \A k \in 1..Len(s) : \A x :
        ParamReadyHolds(p, k - 1, x) => ParamReadyHolds(p, k, ParamReady(p, x, s[k]))
  BY <1>3
<1> HIDE DEF a
<1>7. ParamReadyHolds(p, Len(s), last)
  BY <1>3, <1>4, <1>6, Instantiating!Invariant
<1>8. last = a
  BY <1>7 DEF ParamReadyHolds, a
<1> HIDE DEF last
<1> QED  BY <1>1, <1>2, <1>8 DEF a

\* Compile_LoopOrBlock keeps the invariant.
LEMMA OpenSound ==
  ASSUME NoParams, NEW c, Sound(c), ~Failed(c), NEW t \in BlockTypes, NEW op,
         Len(c.scopes) < MaxDepth
  PROVE  Sound(Open(c, t, op))
<1> DEFINE b == Around(c)
           d == PreserveRegisters(c)
           e == PreserveArgsAndLocals(d)
<1>1. Good(b, c) /\ b.in = b.scopes /\ b.scopes = c.scopes
  BY SoundGood
<1> HIDE DEF b
<1>2. Good(b, d) /\ (~Failed(d) => \A r \in Registers : d.reg[r] = 0)
  BY <1>1, PreserveRegistersGood
<1> HIDE DEF d
<1>3. Good(b, e) /\ Moved(d, e)
  BY <1>1, <1>2, PreserveArgsAndLocalsGood
<1> HIDE DEF e
<1>4. Failed(e) \/ (Len(e.scopes) < MaxDepth /\ \A r \in Registers : e.reg[r] = 0)
  BY <1>1, <1>2, <1>3 DEF Moved, Good
<1>5. Sound(Enter(e, t, op))
  BY <1>1, <1>3, <1>4, GoodSound, EnterSound
<1> QED  BY <1>5, Opening DEF e, d

\* Once the top of the stack is popped, the registers below it being free, both are.
LEMMA RegistersLeft ==
  ASSUME NEW b, NEW c, Good(b, c), ~Failed(c), NEW d, Good(b, d), Popped(b, c, d, 1), ~Failed(d),
         \A r \in Registers : c.reg[r] \in {0, Len(c.stack)}, NEW r \in Registers
  PROVE  d.reg[r] = 0
<1>1. Len(c.stack) \in Nat /\ Len(d.stack) \in Nat /\ Last(b.in).base \in Nat
      /\ d.reg \in [Registers -> Nat] /\ RegistersFit(d.stack, d.reg, b.in)
  BY GoodFacts
<1>2. /\ d.reg[r] = c.reg[r] \/ d.reg[r] = 0
      /\ c.reg[r] \in {0, Len(c.stack)}
      /\ Last(b.in).base <= Len(c.stack) - 1 => Len(d.stack) = Len(c.stack) - 1
      /\ Len(d.stack) <= Len(c.stack)
  BY DEF Popped
<1>3. SUFFICES ASSUME d.reg[r] # 0  PROVE FALSE
  OBVIOUS
<1>4. d.reg[r] = Len(c.stack)
  BY <1>2, <1>3
<1>5. Last(b.in).base < d.reg[r] /\ d.reg[r] <= Len(d.stack)
  BY <1>1, <1>3 DEF RegistersFit
<1>6. Last(b.in).base <= Len(c.stack) - 1
  BY <1>1, <1>4, <1>5
<1> QED  BY <1>1, <1>2, <1>4, <1>5, <1>6

\* Compile_If keeps the invariant.
LEMMA IfSound ==
  ASSUME NoParams, NEW c, Sound(c), ~Failed(c), NEW t \in BlockTypes, NEW then,
         Len(c.scopes) < MaxDepth
  PROVE  Sound(If(c, t, then))
<1> DEFINE b == Around(c)
           d == PreserveNonTopRegisters(c)
           e == PreserveArgsAndLocals(d)
           f == Used(e, 1)
           g == Pop(f)
           h == IF then \/ ~Running(g) THEN g ELSE [g EXCEPT !.path = ToElse(Len(g.scopes) + 1)]
<1>1. If(c, t, then) = Enter(h, t, "if")
  BY DEF If
<1>2. Good(b, c) /\ b.in = b.scopes /\ b.scopes = c.scopes 
  BY SoundGood
<1>0. Len(c.scopes) \in 1..MaxDepth
  BY DEF Sound, Fit, FitIn, ScopesFit
<1> HIDE DEF b
<1>3. /\ Good(b, d) /\ Moved(c, d)
      /\ ~Failed(d) => \A r \in Registers : d.reg[r] \in {0, Len(c.stack)}
  <2>1. Good(b, c)
    BY <1>2
  <2> QED  BY <2>1, PreserveNonTopRegistersGood, Zenon
<1> HIDE DEF d
<1>4. Good(b, e) /\ Moved(d, e)
  BY <1>2, <1>3, PreserveArgsAndLocalsGood
<1> HIDE DEF e
<1>5. Good(b, f) /\ Same(e, f)
  BY <1>4, UsedGood
<1> HIDE DEF f
<1>6. ~Failed(f) => \A r \in Registers : f.reg[r] \in {0, Len(f.stack)}
  <2>1. SUFFICES ASSUME ~Failed(f), NEW r \in Registers  PROVE f.reg[r] \in {0, Len(f.stack)}
    OBVIOUS
  <2>2. ~Failed(e) /\ f.stack = e.stack /\ f.reg = e.reg
    BY <1>5, <2>1 DEF Same, Failed
  <2>3. ~Failed(d) /\ Len(e.stack) = Len(d.stack) /\ (e.reg[r] = d.reg[r] \/ e.reg[r] = 0)
    BY <1>4, <2>1, <2>2 DEF Moved
  <2>4. Len(d.stack) = Len(c.stack) /\ d.reg[r] \in {0, Len(c.stack)}
    BY <1>3, <2>1, <2>3 DEF Moved
  <2> QED  BY <2>2, <2>3, <2>4
<1>7. Good(b, g) /\ Popped(b, f, g, 1)
  BY <1>2, <1>5, PopGood
<1> HIDE DEF g
<1>8. ~Failed(g) => \A r \in Registers : g.reg[r] = 0
  <2>1. SUFFICES ASSUME ~Failed(g), NEW r \in Registers  PROVE g.reg[r] = 0
    OBVIOUS
  <2>2. ~Failed(f)
    BY <1>7, <2>1 DEF Popped
  <2> QED  BY <1>5, <1>6, <1>7, <2>1, <2>2, RegistersLeft
<1>9. Sound(h) /\ (Failed(h) \/ (Len(h.scopes) < MaxDepth /\ \A r \in Registers : h.reg[r] = 0))
  <2>1. Sound(g) /\ (Failed(g) \/ (g.scopes = c.scopes /\ \A r \in Registers : g.reg[r] = 0))
    BY <1>2, <1>7, <1>8, GoodSound DEF Good
  <2> DEFINE path == ToElse(Len(g.scopes) + 1)
             i == [g EXCEPT !.path = path]
  <2>2. Failed(g) \/ path \in Paths
    <3>1. SUFFICES ASSUME ~Failed(g)  PROVE path \in Paths
      OBVIOUS
    <3>2. Len(g.scopes) + 1 \in 2..MaxDepth
      BY <1>0, <2>1, <3>1, Constants
    <3> QED  BY <3>2, Ways
  <2>3. Sound(i)
    BY <2>1, <2>2, PathSound
  <2>4. DOMAIN g = CompilationFields
    BY <2>1 DEF Sound
  <2>5. i.scopes = g.scopes /\ i.reg = g.reg /\ i.result = g.result
    BY <2>4 DEF CompilationFields
  <2> HIDE DEF path, i
  <2> QED  BY <2>1, <2>3, <2>5 DEF Failed, i, path
<1> HIDE DEF h
<1> QED  BY <1>1, <1>9, EnterSound

------------------------------------------------------------------------------
(* The followed values are tidied and renumbered *)

\* A stack whose entries are those of another, with other values.
Revalued(c, d) ==
  /\ DOMAIN d = DOMAIN c
  /\ DOMAIN d.stack = DOMAIN c.stack /\ d.stack = [i \in DOMAIN d.stack |-> d.stack[i]]
  /\ \A i \in DOMAIN c.stack :
       DOMAIN c.stack[i] = EntryFields =>
         /\ DOMAIN d.stack[i] = EntryFields
         /\ d.stack[i].slot = c.stack[i].slot /\ d.stack[i].type = c.stack[i].type
  /\ d.count = c.count /\ d.reg = c.reg /\ d.scopes = c.scopes
  /\ d.dyn = c.dyn /\ d.first = c.first /\ d.const0 = c.const0 /\ d.maxConst = c.maxConst
  /\ d.path = c.path /\ d.result = c.result

\* The invariant does not name values.
LEMMA RevaluedSound ==
  ASSUME NEW c, Sound(c), ~Failed(c), NEW d, Revalued(c, d)
  PROVE  Sound(d) /\ ~Failed(d)
<1> DEFINE b == Around(c)
<1>1. Good(b, c) /\ b.in = b.scopes
  BY SoundGood
<1> HIDE DEF b
<1>2. /\ IsSeq(c.stack) /\ Len(c.stack) \in Nat
      /\ \A i \in 1..Len(c.stack) : DOMAIN c.stack[i] = EntryFields
  BY <1>1, GoodFacts
<1>3. DOMAIN c.stack = 1..Len(c.stack)
  BY <1>2 DEF IsSeq
<1>4. ASSUME NEW i \in DOMAIN c.stack
      PROVE  /\ DOMAIN d.stack[i] = DOMAIN c.stack[i]
             /\ d.stack[i].slot = c.stack[i].slot /\ d.stack[i].type = c.stack[i].type
  <2>1. DOMAIN c.stack[i] = EntryFields
    BY <1>2, <1>3
  <2> QED  BY <2>1 DEF Revalued
<1>5. OtherValues(c, d)
  BY <1>4 DEF Revalued, OtherValues
<1>6. d.path \in Paths
  BY <1>1, Ways DEF Revalued
<1>7. Good(b, d)
  BY <1>1, <1>5, <1>6, OtherValuesGood
<1> QED  BY <1>1, <1>7, GoodSound DEF Revalued, Failed

\* Forgetting values nobody has keeps the invariant.
LEMMA TidySound ==
  ASSUME NEW c, Sound(c), ~Failed(c)
  PROVE  Sound(Tidy(c)) /\ ~Failed(Tidy(c))
<1> DEFINE live == CASE Running(c) -> Operands(c)
                     [] c.path = Gone -> {}
                     [] OTHER -> LET s == c.scopes[c.path[2]]
                                 IN {i \in 1..s.base : i > s.exit \/ i \in Operands(c)}
           places == {c.stack[i].slot : i \in live}
           cells == UNION {Cells(c.stack[i].slot, c.stack[i].type) : i \in live}
                      \cup {s \in c.const0 .. c.maxConst - 1 : c.count[s] > 0}
           stack == [i \in DOMAIN c.stack |-> IF i \in live THEN c.stack[i] ELSE [c.stack[i] EXCEPT !.val = Junk]]
           d == [c EXCEPT !.mem = [s \in Memory |-> IF s \in cells THEN @[s] ELSE Junk],
                          !.regs = [r \in Registers |-> IF r \in places THEN @[r] ELSE Junk],
                          !.stack = stack]
<1>1. Tidy(c) = d
  BY DEF Tidy
<1>2. DOMAIN c = CompilationFields
  BY DEF Sound
<1> HIDE DEF live, places, cells
<1>3. /\ DOMAIN stack = DOMAIN c.stack /\ stack = [i \in DOMAIN stack |-> stack[i]]
      /\ \A i \in DOMAIN c.stack :
           stack[i] = c.stack[i] \/ stack[i] = [c.stack[i] EXCEPT !.val = Junk]
  OBVIOUS
<1> HIDE DEF stack
<1>4. Revalued(c, d)
  <2>1. /\ DOMAIN d = DOMAIN c /\ d.stack = stack
        /\ d.count = c.count /\ d.reg = c.reg /\ d.scopes = c.scopes
        /\ d.dyn = c.dyn /\ d.first = c.first /\ d.const0 = c.const0 /\ d.maxConst = c.maxConst
        /\ d.path = c.path /\ d.result = c.result
    BY <1>2 DEF CompilationFields
  <2>2. ASSUME NEW i \in DOMAIN c.stack, DOMAIN c.stack[i] = EntryFields
        PROVE  /\ DOMAIN stack[i] = EntryFields
               /\ stack[i].slot = c.stack[i].slot /\ stack[i].type = c.stack[i].type
    BY <1>3, <2>2 DEF EntryFields
  <2> HIDE DEF d
  <2> QED  BY <1>3, <2>1, <2>2 DEF Revalued
<1> HIDE DEF d
<1> QED  BY <1>1, <1>4, RevaluedSound

\* So does renaming values.
LEMMA RenumberSound ==
  ASSUME NEW c, Sound(c), ~Failed(c)
  PROVE  Sound(Renumber(c)) /\ ~Failed(Renumber(c))
<1> DEFINE met == [i \in DOMAIN c.stack |-> c.stack[i].val] \o c.carry
                    \o [s \in 1..MaxFunctionSlots |-> c.mem[s - 1]] \o <<c.regs[R0], c.regs[Fp0]>>
           first == {i \in DOMAIN met : met[i] > Cardinality(Consts) /\ \A j \in 1 .. i - 1 : met[j] # met[i]}
           name == [v \in {met[i] : i \in first} |->
                      Cardinality(Consts) + Cardinality({i \in first : \E k \in i..Len(met) : met[k] = v /\ k \in first})]
           Name(v) == IF v \in DOMAIN name THEN name[v] ELSE v
           d == [c EXCEPT !.stack = [i \in DOMAIN @ |-> [@[i] EXCEPT !.val = Name(@)]],
                          !.carry = [i \in DOMAIN @ |-> Name(@[i])],
                          !.mem = [s \in Memory |-> Name(@[s])],
                          !.regs = [r \in Registers |-> Name(@[r])]]
<1>1. Renumber(c) = d
  BY DEF Renumber
<1>2. DOMAIN c = CompilationFields
  BY DEF Sound
<1> HIDE DEF Name, name, first, met
<1>3. /\ DOMAIN d = DOMAIN c
      /\ d.count = c.count /\ d.reg = c.reg /\ d.scopes = c.scopes
      /\ d.dyn = c.dyn /\ d.first = c.first /\ d.const0 = c.const0 /\ d.maxConst = c.maxConst
      /\ d.path = c.path /\ d.result = c.result
  BY <1>2 DEF CompilationFields
<1>4. DOMAIN d.stack = DOMAIN c.stack /\ d.stack = [i \in DOMAIN d.stack |-> d.stack[i]]
  BY <1>2 DEF CompilationFields
<1>5. ASSUME NEW i \in DOMAIN c.stack, DOMAIN c.stack[i] = EntryFields
      PROVE  /\ DOMAIN d.stack[i] = EntryFields
             /\ d.stack[i].slot = c.stack[i].slot /\ d.stack[i].type = c.stack[i].type
  BY <1>2, <1>5 DEF CompilationFields, EntryFields
<1> HIDE DEF d
<1>6. Revalued(c, d)
  BY <1>3, <1>4, <1>5 DEF Revalued
<1> QED  BY <1>1, <1>6, RevaluedSound

------------------------------------------------------------------------------
(* The start of a function *)

\* While the locals get their slots: k are on the stack, each in a slot that is taken.
Taking(c) ==
  /\ DOMAIN c = CompilationFields
  /\ c.count \in [Slots -> 0..MaxUsage] /\ c.reg = [r \in Registers |-> 0]
  /\ c.dyn \in Nat /\ c.path = Here
  /\ c.scopes = <<[op |-> "function", type |-> [params |-> Args, results |-> Results],
                   exit |-> 0, base |-> 0, entry |-> 0, poly |-> FALSE]>>
  /\ IsSeq(c.stack) /\ Len(c.stack) <= MaxStackHeight
  /\ \A i \in 1..Len(c.stack) :
       /\ DOMAIN c.stack[i] = EntryFields /\ InFrame(c.stack[i].slot, c.stack[i].type)
       /\ c.count[c.stack[i].slot] > 0
  /\ \A i, j \in 1..Len(c.stack) :
       c.stack[i].slot = c.stack[j].slot => c.stack[i].type = c.stack[j].type
\* All that has been given a slot is on the stack.
Early(c, k) == Taking(c) /\ (~Failed(c) => Len(c.stack) = k)

\* The parameters and locals of the function are sequences of value types.
LEMMA LocalTypes ==
  /\ Args \in Seq(ValueType) /\ Locals \in Seq(ValueType) /\ Results \in Seq(ValueType)
  /\ Len(Args) \in Nat /\ Len(Locals) \in Nat /\ NumLocals = Len(Args) + Len(Locals)
  /\ ConstSlots \in Nat
BY OwnTypes, ReservedSlots DEF NumLocals

\* Before the code, a failure keeps the invariant.
LEMMA EarlyFails ==
  ASSUME NEW c, Taking(c), NEW k, NEW why, why # "none"
  PROVE  Early(Fail(c, why), k)
<1> DEFINE d == [c EXCEPT !.result = why]
<1>1. /\ DOMAIN d = CompilationFields /\ d.stack = c.stack /\ d.count = c.count /\ d.reg = c.reg
      /\ d.scopes = c.scopes /\ d.dyn = c.dyn /\ d.path = c.path /\ d.result = why
  BY DEF Early, Taking, CompilationFields
<1>2. Fail(c, why) = d
  BY DEF Fail
<1> HIDE DEF d
<1> QED  BY <1>1, <1>2 DEF Early, Taking, Failed

\* An entry in a slot that was free.
Given(c, d, s, t, e) ==
  /\ DOMAIN d = CompilationFields /\ d.stack = Append(c.stack, e)
  /\ d.count = Filled(c.count, Cells(s, t), 1) /\ d.reg = c.reg /\ d.dyn = c.dyn
  /\ d.path = c.path /\ d.scopes = c.scopes
  /\ DOMAIN e = EntryFields /\ e.slot = s /\ e.type = t
  /\ s \in Nat /\ InFrame(s, t) /\ c.count[s] = 0

\* Giving one more local its slot keeps what holds before the code.
LEMMA EarlyGiven ==
  ASSUME NEW c, NEW k \in Nat, Early(c, k), ~Failed(c), Len(c.stack) < MaxStackHeight,
         NEW d, NEW s, NEW t, NEW e, Given(c, d, s, t, e)
  PROVE  Early(d, k + 1)
<1> DEFINE n == Len(c.stack)
           stack == Append(c.stack, e)
           count == Filled(c.count, Cells(s, t), 1)
<1>1. /\ IsSeq(stack) /\ n \in Nat /\ Len(stack) = n + 1 /\ stack[n + 1] = e
      /\ \A i \in 1..n : stack[i] = c.stack[i]
  BY Appended DEF Early, Taking
<1>2. n = k /\ MaxStackHeight \in Nat
  BY Constants DEF Early, Taking
<1>3. Cells(s, t) \subseteq Slots /\ s \in Cells(s, t) /\ s \in Slots
  BY InCells, Widths DEF Given, InFrame
<1>4. count \in [Slots -> 0..MaxUsage]
  <2>1. 1 \in 0..MaxUsage
    BY Constants
  <2>2. c.count \in [Slots -> 0..MaxUsage]
    BY DEF Early, Taking
  <2> QED  BY <1>3, <2>1, <2>2, Counted
<1>5. /\ count[s] = 1
      /\ \A x \in Slots : c.count[x] > 0 => count[x] > 0
  <2>1. DOMAIN c.count = Slots
    BY DEF Early, Taking
  <2>2. \A x \in Slots : count[x] = IF x \in Cells(s, t) THEN 1 ELSE c.count[x]
    BY <1>3, <2>1 DEF Filled
  <2> HIDE DEF count
  <2> QED  BY <1>3, <2>2
<1> HIDE DEF stack, count
<1>6. \A i \in 1..n : /\ DOMAIN stack[i] = EntryFields /\ InFrame(stack[i].slot, stack[i].type)
                      /\ stack[i].slot \in Slots /\ count[stack[i].slot] > 0 /\ stack[i].slot # s
  <2>1. SUFFICES ASSUME NEW i \in 1..n
                 PROVE  /\ DOMAIN c.stack[i] = EntryFields
                        /\ InFrame(c.stack[i].slot, c.stack[i].type) /\ c.stack[i].slot \in Slots
                        /\ count[c.stack[i].slot] > 0 /\ c.stack[i].slot # s
    BY <1>1
  <2>2. /\ DOMAIN c.stack[i] = EntryFields /\ InFrame(c.stack[i].slot, c.stack[i].type)
        /\ c.count[c.stack[i].slot] > 0
    BY DEF Early, Taking
  <2>3. c.stack[i].slot \in Slots
    BY <2>2 DEF InFrame
  <2>4. c.count[s] = 0
    BY DEF Given
  <2>5. c.stack[i].slot # s
    BY <2>2, <2>4
  <2> QED  BY <1>5, <2>2, <2>3, <2>5
<1>7. /\ stack[n + 1].slot = s /\ stack[n + 1].type = t /\ DOMAIN stack[n + 1] = EntryFields
      /\ InFrame(stack[n + 1].slot, stack[n + 1].type) /\ count[stack[n + 1].slot] > 0
  BY <1>1, <1>5 DEF Given
<1>8. \A i \in 1 .. n + 1 : i \in 1..n \/ i = n + 1
  BY <1>1
<1>9. \A i \in 1..Len(stack) : /\ DOMAIN stack[i] = EntryFields
                               /\ InFrame(stack[i].slot, stack[i].type)
                               /\ count[stack[i].slot] > 0
  BY <1>1, <1>6, <1>7, <1>8
<1>10. ASSUME NEW i \in 1..Len(stack), NEW j \in 1..Len(stack), stack[i].slot = stack[j].slot
       PROVE  stack[i].type = stack[j].type
  <2>1. CASE i \in 1..n /\ j \in 1..n
    BY <1>1, <1>10, <2>1 DEF Early, Taking
  <2>2. CASE i = n + 1 /\ j = n + 1
    BY <2>2
  <2>3. CASE i \in 1..n /\ j = n + 1
    BY <1>6, <1>7, <1>10, <2>3
  <2>4. CASE i = n + 1 /\ j \in 1..n
    BY <1>6, <1>7, <1>10, <2>4
  <2> QED  BY <1>1, <1>8, <2>1, <2>2, <2>3, <2>4
<1>11. Len(stack) <= MaxStackHeight /\ Len(stack) = k + 1
  BY <1>1, <1>2
<1>12. d.stack = stack /\ d.count = count
  BY DEF Given, stack, count
<1> QED  BY <1>1, <1>4, <1>9, <1>10, <1>11, <1>12 DEF Early, Taking, Given

\* So does pushing it in a free slot.
LEMMA EarlyPushed ==
  ASSUME NEW c, NEW k \in Nat, Early(c, k), NEW t, NEW v
  PROVE  Early(PushAllocatedSlot(c, t, v), k + 1)
<1> DEFINE s == SlotFor(c, t)
           m == Mark(c, s, t)
           e == [slot |-> s, type |-> t, val |-> IF Running(m) THEN v ELSE Junk]
           d == [m EXCEPT !.stack = Append(@, e)]
           new == PushAllocatedSlot(c, t, v)
<1>1. CASE Failed(c)
  <2>1. new = c
    BY <1>1 DEF PushAllocatedSlot
  <2> QED  BY <1>1, <2>1 DEF Early, Taking
<1>2. CASE ~Failed(c) /\ ~HasSlot(c, t)
  <2>1. new = Fail(c, "functionStackOverflow")
    BY <1>2 DEF PushAllocatedSlot
  <2>2. Taking(c)
    BY DEF Early
  <2> QED  BY <2>1, <2>2, EarlyFails, "functionStackOverflow" # "none"
<1>3. CASE ~Failed(c) /\ HasSlot(c, t)
  <2>1. s \in Nat /\ InFrame(s, t) /\ ~IsRegister(s) /\ c.count[s] = 0
    BY <1>3, SlotGiven DEF Early, Taking
  <2>2. Cells(s, t) \subseteq Slots
    BY <2>1, InCells
  <2>3. new = Push(m, t, s, v)
    BY <1>3 DEF PushAllocatedSlot
  <2> HIDE DEF s
  <2>4. m = [c EXCEPT !.count = Filled(c.count, Cells(s, t), 1)]
    BY <1>3, <2>2 DEF Mark
  <2>5. /\ DOMAIN m = CompilationFields /\ m.stack = c.stack /\ m.reg = c.reg
        /\ m.count = Filled(c.count, Cells(s, t), 1)
        /\ m.scopes = c.scopes /\ m.dyn = c.dyn /\ m.path = c.path /\ m.result = c.result
    BY <2>4 DEF Early, Taking, CompilationFields
  <2> HIDE DEF m
  <2>6. ~Failed(m)
    BY <1>3, <2>5 DEF Failed
  <2>7. CASE Len(c.stack) >= MaxStackHeight
    <3>1. new = Fail(m, "functionStackOverflow")
      BY <2>3, <2>5, <2>6, <2>7 DEF Push
    <3>2. DOMAIN c.count = Slots /\ \A x \in Slots : c.count[x] > 0 => m.count[x] > 0
      <4>1. DOMAIN c.count = Slots
        BY DEF Early, Taking
      <4> QED  BY <2>2, <2>5, <4>1 DEF Filled
    <3>3. m.count \in [Slots -> 0..MaxUsage]
      <4>1. 1 \in 0..MaxUsage
        BY Constants
      <4>2. c.count \in [Slots -> 0..MaxUsage]
        BY DEF Early, Taking
      <4>3. Filled(c.count, Cells(s, t), 1) \in [Slots -> 0..MaxUsage]
        BY <2>2, <4>1, <4>2, Counted
      <4> QED  BY <2>5, <4>3
    <3>4. \A i \in 1..Len(c.stack) : c.stack[i].slot \in Slots
      BY DEF Early, Taking, InFrame
    <3>5. Len(c.stack) = k
      BY <1>3 DEF Early, Taking
    <3>6. \A i \in 1..Len(c.stack) : m.count[c.stack[i].slot] > 0
      <4>1. \A i \in 1..Len(c.stack) : c.count[c.stack[i].slot] > 0
        BY DEF Early, Taking
      <4> QED  BY <3>2, <3>4, <4>1
    <3>7. Taking(m)
      <4>1. Taking(c)
        BY DEF Early, Taking
      <4> QED  BY <2>5, <3>3, <3>6, <4>1 DEF Taking
    <3> HIDE DEF new
    <3> DEFINE why == "functionStackOverflow"
    <3>8. why # "none"
      OBVIOUS
    <3> HIDE DEF why
    <3>9. Early(Fail(m, why), k + 1)
      BY <3>7, <3>8, EarlyFails
    <3> QED  BY <3>1, <3>9 DEF why, new
  <2>8. CASE ~(Len(c.stack) >= MaxStackHeight)
    <3>1. new = d
      BY <2>1, <2>3, <2>5, <2>6, <2>8 DEF Push
    <3>2. DOMAIN e = EntryFields /\ e.slot = s /\ e.type = t
      BY DEF EntryFields
    <3> HIDE DEF e
    <3>3. /\ DOMAIN d = CompilationFields /\ d.stack = Append(c.stack, e) /\ d.count = m.count
          /\ d.reg = c.reg /\ d.dyn = c.dyn /\ d.path = c.path /\ d.scopes = c.scopes
      BY <2>5 DEF CompilationFields
    <3> HIDE DEF d, new
    <3>4. Given(c, d, s, t, e)
      BY <2>1, <2>5, <3>2, <3>3 DEF Given
    <3>5. Len(c.stack) < MaxStackHeight
      <4>1. Len(c.stack) = k /\ MaxStackHeight \in Nat
        BY <1>3, Constants DEF Early, Taking
      <4> QED  BY <2>8, <4>1
    <3>6. Early(d, k + 1)
      <4>1. k \in Nat /\ Early(c, k) /\ ~Failed(c)
        BY <1>3
      <4> HIDE DEF m
      <4> QED  BY <3>4, <3>5, <4>1, EarlyGiven
    <3> QED  BY <3>1, <3>6 DEF new
  <2> QED  BY <2>7, <2>8
<1> QED  BY <1>1, <1>2, <1>3

\* The parameters and locals get their slots in a fold.
GivenNext(io, c, t) == [PushAllocatedSlotAndEmit(c, t, New(c)) EXCEPT !.dyn = @ + io]
GivenHolds(io, k, c) == Early(c, (IF io = 0 THEN Len(Args) ELSE 0) + k)
Giving == INSTANCE Folding WITH Op <- GivenNext, Good <- GivenHolds

\* So does the next parameter or local.
LEMMA EarlyNext ==
  ASSUME NEW c, NEW k \in Nat, Early(c, k), NEW t, NEW io \in Nat
  PROVE  Early(GivenNext(io, c, t), k + 1)
<1> DEFINE d == PushAllocatedSlot(c, t, New(c))
           e == EmitToTop(d, New(c))
           f == [e EXCEPT !.dyn = @ + io]
<1>1. GivenNext(io, c, t) = f
  BY DEF GivenNext, PushAllocatedSlotAndEmit
<1>2. Early(d, k + 1)
  BY EarlyPushed
<1> HIDE DEF d
<1>3. Same(d, e)
  BY <1>2, StoreSame DEF Early, Taking, EmitToTop
<1> HIDE DEF e
<1>4. Early(e, k + 1)
  BY <1>2, <1>3 DEF Early, Taking, Same, Failed
<1>5. /\ DOMAIN f = CompilationFields /\ f.stack = e.stack /\ f.count = e.count /\ f.reg = e.reg
      /\ f.scopes = e.scopes /\ f.dyn = e.dyn + io /\ f.path = e.path /\ f.result = e.result
  BY <1>4 DEF Early, Taking, CompilationFields
<1>6. f.dyn \in Nat
  BY <1>4, <1>5 DEF Early, Taking
<1> HIDE DEF f
<1>7. Taking(f)
  BY <1>4, <1>5, <1>6 DEF Early, Taking
<1>8. Failed(f) <=> Failed(e)
  BY <1>5 DEF Failed
<1> QED  BY <1>1, <1>4, <1>5, <1>7, <1>8 DEF Early

\* So do all of them.
LEMMA EarlyFolded ==
  ASSUME NEW io \in Nat, NEW n, n = (IF io = 0 THEN Len(Args) ELSE 0), NEW ts \in Seq(ValueType),
         NEW c, Early(c, n)
  PROVE  Early(Giving!Folded(io, c, ts), n + Len(ts))
<1>0. n \in Nat
  <2>1. Len(Args) \in Nat
    BY LocalTypes
  <2> QED  BY <2>1
<1>1. GivenHolds(io, 0, c)
  BY <1>0 DEF GivenHolds
<1>2. ASSUME NEW k \in 1..Len(ts), NEW x, GivenHolds(io, k - 1, x)
      PROVE  GivenHolds(io, k, GivenNext(io, x, ts[k]))
  <2>1. n + (k - 1) \in Nat /\ n + (k - 1) + 1 = n + k
    BY <1>0
  <2>2. Early(GivenNext(io, x, ts[k]), n + (k - 1) + 1)
    BY <1>2, <2>1, EarlyNext DEF GivenHolds
  <2> QED  BY <2>1, <2>2 DEF GivenHolds
<1> DEFINE last == Giving!Folded(io, c, ts)
<1>3. GivenHolds(io, Len(ts), last)
  BY <1>1, <1>2, Giving!Invariant
<1> HIDE DEF last
<1> QED  BY <1>3 DEF GivenHolds, last

\* The parts of Start.
Nothing ==
  [stack |-> <<>>, count |-> [s \in Slots |-> IF s < IoSlots * Len(Results) THEN 1 ELSE 0],
   reg |-> [r \in Registers |-> 0],
   scopes |-> <<[op |-> "function", type |-> [params |-> Args, results |-> Results],
                 exit |-> 0, base |-> 0, entry |-> 0, poly |-> FALSE]>>,
   dyn |-> IoSlots * Len(Results), first |-> 0, const0 |-> 0, maxConst |-> 0,
   consts |-> [s \in Slots |-> Junk], mem |-> [s \in Memory |-> Junk],
   regs |-> [r \in Registers |-> Junk], path |-> Here, carry |-> <<>>,
   wrong |-> FALSE, result |-> "none"]
LocalsGiven == Giving!Folded(0, Giving!Folded(IoSlots, Nothing, Args), Locals)
MadeReady(c, top) ==
  [c EXCEPT !.const0 = top, !.maxConst = top, !.dyn = top + Align(ConstSlots, "i64"),
            !.first = Len(c.stack), !.scopes[1].base = Len(c.stack)]
StartOf(c) ==
  IF Failed(c) \/ c.dyn < MaxFunctionSlots THEN c ELSE Fail(c, "functionStackOverflow")

\* The start of a function in three steps: slots of the locals, of the constants, the rest.
LEMMA Starting ==
  Start = StartOf(MadeReady(LocalsGiven, MaxUsedSlotPlusOne(LocalsGiven)))
BY DEF Start, Nothing, LocalsGiven, MadeReady, StartOf, GivenNext, FoldLeft, MapThenFoldSet, Max,
       Giving!Folded, Giving!MapThenFoldSet, Giving!Largest

\* Before the first parameter nothing is pushed.
LEMMA NothingEarly == Early(Nothing, 0)
<1>1. Len(Results) \in Nat
  BY LocalTypes
<1>2. IoSlots * Len(Results) \in Nat
  BY <1>1 DEF IoSlots
<1>3. Nothing.count \in [Slots -> 0..MaxUsage]
  <2>1. 0 \in 0..MaxUsage /\ 1 \in 0..MaxUsage
    BY Constants
  <2> QED  BY <2>1 DEF Nothing
<1>4. IsSeq(<<>>) /\ Len(<<>>) = 0 /\ 0 <= MaxStackHeight
  BY Constants DEF IsSeq
<1>5. /\ DOMAIN Nothing = CompilationFields /\ Nothing.stack = <<>> /\ Nothing.path = Here
      /\ Nothing.reg = [r \in Registers |-> 0] /\ Nothing.dyn = IoSlots * Len(Results)
      /\ Nothing.result = "none"
      /\ Nothing.scopes = <<[op |-> "function", type |-> [params |-> Args, results |-> Results],
                             exit |-> 0, base |-> 0, entry |-> 0, poly |-> FALSE]>>
  BY DEF Nothing, CompilationFields
<1>6. \A i \in 1..Len(<<>>) : FALSE
  OBVIOUS
<1> QED  BY <1>2, <1>3, <1>4, <1>5, <1>6 DEF Early, Taking

\* Then every parameter and local has a slot.
LEMMA GivenEarly == Early(LocalsGiven, NumLocals)
<1> DEFINE c == Giving!Folded(IoSlots, Nothing, Args)
           d == Giving!Folded(0, c, Locals)
<1>1. IoSlots \in Nat /\ IoSlots # 0 /\ 0 \in Nat
  BY DEF IoSlots
<1>2. 0 = (IF IoSlots = 0 THEN Len(Args) ELSE 0) /\ Len(Args) = (IF 0 = 0 THEN Len(Args) ELSE 0)
  BY <1>1
<1>3. /\ Args \in Seq(ValueType) /\ Locals \in Seq(ValueType)
      /\ 0 + Len(Args) = Len(Args) /\ Len(Args) + Len(Locals) = NumLocals
  BY LocalTypes
<1>4. Early(c, 0 + Len(Args))
  BY <1>1, <1>2, <1>3, NothingEarly, EarlyFolded
<1> HIDE DEF c
<1>5. Early(c, Len(Args))
  BY <1>3, <1>4
<1>6. Early(d, Len(Args) + Len(Locals))
  BY <1>1, <1>2, <1>3, <1>5, EarlyFolded
<1> HIDE DEF d
<1> QED  BY <1>3, <1>6 DEF LocalsGiven, c, d

\* The slots of the locals are all below the first slot for constants.
LEMMA BelowTop ==
  ASSUME NEW c, c.dyn \in Nat
  PROVE  /\ MaxUsedSlotPlusOne(c) \in Nat
         /\ \A s \in Slots : c.count[s] > 0 => s < MaxUsedSlotPlusOne(c)
<1> DEFINE used == {s + 1 : s \in {x \in c.dyn .. MaxFunctionSlots - 1 : c.count[x] > 0}}
           m == Max({c.dyn} \cup used)
           bound == c.dyn + MaxFunctionSlots
<1>1. MaxFunctionSlots \in Nat /\ Slots = 0 .. MaxFunctionSlots - 1
  BY Constants
<1>2. /\ {c.dyn} \cup used \in SUBSET Nat /\ bound \in Nat
      /\ \A x \in {c.dyn} \cup used : x <= bound
  BY <1>1
<1>3. m \in Nat /\ \A x \in {c.dyn} \cup used : x <= m
  <2> HIDE DEF used, bound
  <2>1. m \in {c.dyn} \cup used /\ \A x \in {c.dyn} \cup used : x <= m
    BY <1>2, MaxIn
  <2> HIDE DEF m
  <2> QED  BY <1>2, <2>1
<1>4. ASSUME NEW s \in Slots, c.count[s] > 0  PROVE s < m
  <2>1. CASE s < c.dyn
    <3>1. c.dyn <= m
      BY <1>3
    <3> HIDE DEF m
    <3> QED  BY <1>1, <1>3, <2>1, <3>1
  <2>2. CASE ~(s < c.dyn)
    <3>1. s + 1 \in used
      BY <1>1, <1>4, <2>2
    <3>2. s + 1 <= m
      BY <1>3, <3>1
    <3> HIDE DEF m
    <3> QED  BY <1>1, <1>3, <3>2
  <2> QED  BY <2>1, <2>2
<1>5. MaxUsedSlotPlusOne(c) = m
  BY DEF MaxUsedSlotPlusOne
<1> HIDE DEF m
<1> QED  BY <1>3, <1>4, <1>5

\* The base of the one block there is.
LEMMA OneScope ==
  ASSUME NEW f, DOMAIN f = ScopeFields, NEW n, NEW g, g = [f EXCEPT !.base = n]
  PROVE  [<<f>> EXCEPT ![1].base = n] = <<g>>
<1>1. DOMAIN <<f>> = {1} /\ DOMAIN <<g>> = {1} /\ <<f>>[1] = f /\ <<g>>[1] = g
  OBVIOUS
<1>2. <<g>> = [i \in {1} |-> g]
  BY <1>1
<1>3. [<<f>> EXCEPT ![1].base = n] = [i \in {1} |-> g]
  BY <1>1
<1> QED  BY <1>2, <1>3

\* The compilation of a function starts with the invariant.
LEMMA StartFacts ==
  /\ DOMAIN Start = CompilationFields
  /\ \A i \in DOMAIN Start.stack : Start.stack[i].slot \in Slots
  /\ Start.count \in [Slots -> 0..MaxUsage] /\ Len(Start.stack) <= MaxStackHeight
  /\ Start.path = Here
  /\ ~Failed(Start) => Fit(Start)
<1> DEFINE c == LocalsGiven
           top == MaxUsedSlotPlusOne(c)
           d == MadeReady(c, top)
           function == [op |-> "function", type |-> [params |-> Args, results |-> Results],
                        exit |-> 0, base |-> 0, entry |-> 0, poly |-> FALSE]
<1>1. Start = StartOf(d)
  BY Starting
<1>2. Early(c, NumLocals) /\ Taking(c)
  BY GivenEarly DEF Early
<1> HIDE DEF c
<1>3. top \in Nat /\ \A s \in Slots : c.count[s] > 0 => s < top
  BY <1>2, BelowTop DEF Taking
<1> HIDE DEF top
<1>4. /\ DOMAIN d = CompilationFields /\ d.stack = c.stack /\ d.count = c.count /\ d.reg = c.reg
      /\ d.scopes = [c.scopes EXCEPT ![1].base = Len(c.stack)]
      /\ d.dyn = top + Align(ConstSlots, "i64") /\ d.first = Len(c.stack) /\ d.const0 = top
      /\ d.maxConst = top /\ d.path = Here /\ d.result = c.result
  BY <1>2 DEF MadeReady, Taking, CompilationFields
<1> HIDE DEF d
<1>5. DOMAIN c.stack = 1..Len(c.stack) /\ Len(c.stack) \in Nat /\ IsSeq(c.stack)
  BY <1>2 DEF Taking, IsSeq
<1>6. \A i \in DOMAIN c.stack : c.stack[i].slot \in Slots
  BY <1>2, <1>5 DEF Taking, InFrame
<1>7. /\ DOMAIN StartOf(d) = CompilationFields /\ StartOf(d).stack = c.stack
      /\ StartOf(d).count = c.count /\ StartOf(d).path = Here
  <2>1. /\ DOMAIN Fail(d, "functionStackOverflow") = CompilationFields
        /\ Fail(d, "functionStackOverflow").stack = d.stack
        /\ Fail(d, "functionStackOverflow").count = d.count
        /\ Fail(d, "functionStackOverflow").path = d.path
    BY <1>4 DEF Fail, CompilationFields
  <2> QED  BY <1>4, <2>1 DEF StartOf
<1>8. ASSUME ~Failed(StartOf(d))  PROVE Fit(StartOf(d))
  <2>1. Failed(Fail(d, "functionStackOverflow"))
    BY <1>4, Fails, "functionStackOverflow" # "none"
  <2>2. StartOf(d) = d /\ ~Failed(d) /\ d.dyn < MaxFunctionSlots
    BY <1>8, <2>1 DEF StartOf
  <2>3. Len(c.stack) = NumLocals
    BY <1>2, <1>4, <2>2 DEF Early, Failed
  <2>4. d.dyn \in Slots /\ d.const0 \in Nat /\ d.const0 <= d.dyn
    <3>1. ConstSlots \in Nat
      BY LocalTypes
    <3>2. Align(ConstSlots, "i64") \in Nat
      BY <3>1, Widths
    <3> QED  BY <1>3, <1>4, <2>2, <3>2, Constants
  <2>5. StackFits(d.stack, d.const0)
    <3>1. /\ \A i \in 1..Len(c.stack) : /\ DOMAIN c.stack[i] = EntryFields
                                        /\ InFrame(c.stack[i].slot, c.stack[i].type)
          /\ Len(c.stack) <= MaxStackHeight
          /\ \A i, j \in 1..Len(c.stack) :
               c.stack[i].slot = c.stack[j].slot => c.stack[i].type = c.stack[j].type
      BY <1>2 DEF Taking
    <3>2. \A i \in 1..Len(c.stack) : c.stack[i].slot < top
      BY <1>2, <1>3, <1>5, <1>6 DEF Taking
    <3> QED  BY <1>4, <1>5, <1>6, <2>3, <3>1, <3>2 DEF StackFits
  <2> DEFINE s == [function EXCEPT !.base = NumLocals]
  <2>6. d.scopes = <<s>>
    <3>1. c.scopes = <<function>> /\ d.scopes = [c.scopes EXCEPT ![1].base = NumLocals]
      BY <1>2, <1>4, <2>3 DEF Taking
    <3>2. DOMAIN function = ScopeFields
      BY DEF ScopeFields
    <3> HIDE DEF function
    <3> QED  BY <3>1, <3>2, OneScope
  <2>7. /\ DOMAIN s = ScopeFields /\ s.op = "function" /\ s.exit = 0 /\ s.base = NumLocals
        /\ s.poly \in BOOLEAN /\ s.type = [params |-> Args, results |-> Results]
    BY DEF ScopeFields
  <2>8. s.type \in Signature /\ NumLocals \in Nat /\ MaxDepth \in Nat \ {0}
    BY <2>7, LocalTypes, Constants DEF Signature
  <2> HIDE DEF s
  <2>9. /\ IsSeq(d.scopes) /\ Len(d.scopes) = 1 /\ d.scopes[1] = s /\ Last(d.scopes) = s
    <3>1. <<s>> \in Seq({s}) /\ Len(<<s>>) = 1 /\ <<s>>[1] = s
      OBVIOUS
    <3>2. IsSeq(<<s>>)
      BY <3>1 DEF IsSeq
    <3>3. Last(<<s>>) = s
      BY <3>1 DEF Last
    <3> QED  BY <2>6, <3>1, <3>2, <3>3
  <2>10. ScopesFit(d.scopes)
    <3>1. s.poly \in BOOLEAN /\ s.exit \in Nat /\ s.base \in Nat
      BY <2>7, <2>8
    <3> QED  BY <2>7, <2>8, <2>9, <3>1 DEF ScopesFit
  <2>11. RegistersFit(d.stack, d.reg, d.scopes)
    <3>1. d.reg = [r \in Registers |-> 0]
      BY <1>2, <1>4 DEF Taking
    <3>2. \A i \in 1..Len(d.stack) : ~IsRegister(d.stack[i].slot)
      BY <1>4, <1>5, <1>6, Constants
    <3> QED  BY <3>1, <3>2 DEF RegistersFit
  <2>12. Last(d.scopes).base <= Len(d.stack) /\ d.first = NumLocals
    BY <1>4, <2>3, <2>7, <2>8, <2>9
  <2>13. d.count \in [Slots -> 0..MaxUsage] /\ d.path \in Paths
    BY <1>2, <1>4, Ways DEF Taking
  <2>14. d.maxConst = d.const0
    BY <1>4
  <2> QED  BY <2>2, <2>4, <2>5, <2>10, <2>11, <2>12, <2>13, <2>14 DEF Fit, FitIn
<1>9. c.count \in [Slots -> 0..MaxUsage] /\ Len(c.stack) <= MaxStackHeight
  BY <1>2 DEF Taking
<1> QED  BY <1>1, <1>6, <1>7, <1>8, <1>9

------------------------------------------------------------------------------
(* The invariant *)

\* The parts of TypeOK, of any compilation.
Typed(c) ==
  /\ \A i \in DOMAIN c.stack : c.stack[i].slot \in Slots \cup Registers \cup {Unused}
  /\ c.count \in [Slots -> 0..MaxUsage]
  /\ Len(c.stack) <= MaxStackHeight
  /\ c.path \in {Here, Gone} \cup {<<w, k>> : w \in {"end", "else"}, k \in 2..MaxDepth}

\* What fits has its types.
LEMMA FitTyped ==
  ASSUME NEW c, Fit(c)
  PROVE  Typed(c)
<1>1. /\ StackFits(c.stack, c.const0) /\ c.count \in [Slots -> 0..MaxUsage] /\ c.path \in Paths
  BY DEF Fit, FitIn
<1>2. DOMAIN c.stack = 1..Len(c.stack)
  BY <1>1 DEF StackFits, IsSeq
<1>3. ASSUME NEW i \in DOMAIN c.stack
      PROVE  c.stack[i].slot \in Slots \cup Registers \cup {Unused}
  <2>1. IsRegister(c.stack[i].slot) \/ InFrame(c.stack[i].slot, c.stack[i].type)
    BY <1>1, <1>2 DEF StackFits
  <2> QED  BY <2>1 DEF IsRegister, InFrame
<1>4. Len(c.stack) <= MaxStackHeight
  BY <1>1 DEF StackFits
<1> QED  BY <1>1, <1>3, <1>4 DEF Typed, Paths

\* The invariant of any compilation.
Ok(c) == Typed(c) /\ DOMAIN c = CompilationFields /\ (~Failed(c) => Fit(c))

\* So it does for all the invariant says.
LEMMA StartOk == Ok(Start)
<1>1. Typed(Start)
  BY StartFacts DEF Typed
<1> QED  BY <1>1, StartFacts DEF Ok

\* A failed compilation is dropped: the next function starts afresh.
LEMMA FailedOk ==
  ASSUME NEW c, Failed(c), NEW wrong
  PROVE  Ok([Start EXCEPT !.result = c.result, !.wrong = wrong])
<1> DEFINE d == [Start EXCEPT !.result = c.result, !.wrong = wrong]
<1>1. /\ DOMAIN d = CompilationFields /\ d.stack = Start.stack /\ d.count = Start.count
      /\ d.path = Start.path /\ d.result = c.result
  BY StartFacts DEF CompilationFields
<1> HIDE DEF d
<1>2. Failed(d) /\ Typed(d)
  BY <1>1, StartOk DEF Failed, Ok, Typed
<1> QED  BY <1>1, <1>2 DEF Ok, d

\* What is kept after an instruction has the invariant.
LEMMA SoundOk ==
  ASSUME NEW c, Sound(c), ~Failed(c)
  PROVE  Ok(Renumber(Tidy(c)))
<1> DEFINE d == Tidy(c)
           e == Renumber(d)
<1>1. Sound(d) /\ ~Failed(d)
  BY TidySound
<1> HIDE DEF d
<1>2. Sound(e)
  BY <1>1, RenumberSound
<1>3. ~Failed(e)
  BY <1>1, RenumberSound
<1> HIDE DEF e
<1>4. Fit(e)
  BY <1>2, <1>3 DEF Sound
<1> QED  BY <1>2, <1>4, FitTyped DEF Ok, Sound, d, e

\* What Compile may do to the state.
LEMMA CompileOk ==
  ASSUME NEW c, Sound(c) \/ Failed(c), Compile(c)
  PROVE  Ok(o')
<1>1. CASE Failed(c)
  <2>1. o' = [Start EXCEPT !.result = c.result, !.wrong = c.wrong]
    BY <1>1 DEF Compile
  <2> QED  BY <1>1, <2>1, FailedOk
<1>2. CASE Sound(c) /\ ~Failed(c)
  <2>1. o' = Renumber(Tidy(c))
    BY <1>2 DEF Compile
  <2> QED  BY <1>2, <2>1, SoundOk
<1> QED  BY <1>1, <1>2

\* The invariant of the state is that of the compilation in it.
LEMMA IInvOk == IInv <=> Ok(o)
BY DEF IInv, Ok, Typed, TypeOK

\* One or two operands have a first.
LEMMA FirstOf ==
  ASSUME NEW n \in 1..2
  PROVE  1 \in 1..n
OBVIOUS

\* More than one is not one.
LEMMA NotOne ==
  ASSUME NEW n, n > 1
  PROVE  n # 1
OBVIOUS

\* An else is not in the outermost block.
LEMMA ElseInside ==
  ASSUME NEW c, Sound(c), ~Failed(c), Block(c).op = "if"
  PROVE  Len(c.scopes) # 1
<1>1. ScopesFit(c.scopes)
  BY DEF Sound, Fit, FitIn
<1>2. c.scopes[1].op = "function" /\ Last(c.scopes) = c.scopes[Len(c.scopes)]
  BY <1>1, ScopeFacts DEF ScopesFit
<1> QED  BY <1>2 DEF Block

\* Compile_Operator keeps the invariant for every operator.
LEMMA OperatorsSound ==
  ASSUME OperatorsFit, NEW c, Sound(c), NEW f \in Operators, Has(c, f.ins)
  PROVE  Sound(Operator(c, f.ins, f.out))
<1>0. Len(f.ins) \in 1..2
  BY DEF OperatorsFit
<1>1. /\ f.ins \in Seq(ValueType) /\ Len(f.ins) \in 1..2
      /\ f.out # "none" => /\ f.out \in ValueType
                           /\ \A j \in 1..Len(f.ins) : /\ IsFp(f.ins[j]) <=> IsFp(Last(f.ins))
                                                       /\ IsFp(f.out) => IsFp(f.ins[j])
  BY DEF OperatorsFit
<1>2. OperatorFits(f.ins, f.out)
  BY <1>1 DEF OperatorFits
<1>3. 1 \in 1..Len(f.ins)
  BY <1>0, FirstOf
<1>4. f.out # "none" /\ IsFp(f.out) => IsFp(Last(f.ins))
  BY <1>1, <1>3
<1> QED  BY <1>2, <1>4, OperatorSound

\* Whatever instruction is compiled, what is right before it is right after it.
LEMMA NextOk ==
  ASSUME NoParams, OperatorsFit, IInv, Next
  PROVE  Ok(o')
<1>1. PICK c : c = o
  OBVIOUS
<1>2. Sound(c)
  BY <1>1 DEF IInv, Sound
<1>3. ASSUME NEW d, Compile(d)  PROVE ~Failed(c)
  BY <1>1, <1>3 DEF Compile
<1>4. CASE Compile_Const
  <2>1. PICK k \in Consts : Compile(PushConst(c, k))
    BY <1>1, <1>4 DEF Compile_Const
  <2> QED  BY <1>2, <1>3, <2>1, PushConstSound, CompileOk
<1>5. CASE Compile_GetLocal
  <2>1. PICK i \in 1..NumLocals : Compile(GetLocal(c, i))
    BY <1>1, <1>5 DEF Compile_GetLocal
  <2> QED  BY <1>2, <1>3, <2>1, GetLocalSound, CompileOk
<1>6. CASE Compile_SetLocal
  <2>1. PICK i \in 1..NumLocals, tee \in BOOLEAN : Compile(SetLocal(c, i, tee))
    BY <1>1, <1>6 DEF Compile_SetLocal
  <2> QED  BY <1>2, <1>3, <2>1, SetLocalSound, CompileOk
<1>7. CASE Compile_GetGlobal
  <2>1. PICK t \in Globals : Compile(GetGlobal(c, t))
    BY <1>1, <1>7 DEF Compile_GetGlobal
  <2> QED  BY <1>2, <2>1, GetGlobalSound, CompileOk
<1>8. CASE Compile_SetGlobal
  <2>1. Compile(SetGlobal(c))
    BY <1>1, <1>8 DEF Compile_SetGlobal
  <2> QED  BY <1>2, <2>1, SetGlobalSound, CompileOk
<1>9. CASE Compile_Drop
  <2>1. Compile(Pop(c))
    BY <1>1, <1>9 DEF Compile_Drop
  <2> QED  BY <1>2, <2>1, SetGlobalSound, CompileOk
<1>10. CASE Compile_Operator
  <2>1. PICK f \in Operators : Has(c, f.ins) /\ Compile(Operator(c, f.ins, f.out))
    BY <1>1, <1>10 DEF Compile_Operator
  <2> QED  BY <1>2, <2>1, OperatorsSound, CompileOk
<1>11. CASE Compile_Load
  <2>1. PICK t \in Globals : Has(c, <<"i32">>) /\ Compile(Load(c, t))
    BY <1>1, <1>11 DEF Compile_Load
  <2> QED  BY <1>2, <1>3, <2>1, GlobalTypes, LoadSound, CompileOk
<1>12. CASE Compile_Convert
  <2>1. PICK f \in Conversions : Compile(Convert(c, f.to))
    BY <1>1, <1>12 DEF Compile_Convert
  <2> QED  BY <1>2, <1>3, <2>1, ConvertSound, CompileOk
<1>13. CASE Compile_Select
  <2>1. PICK t \in Globals : Has(c, <<t, t, "i32">>) /\ Compile(Select(c))
    BY <1>1, <1>13 DEF Compile_Select
  <2> QED  BY <1>2, <1>3, <2>1, GlobalTypes, SelectSound, CompileOk
<1>14. CASE Compile_Memory_Size
  <2>1. Compile(MemorySize(c))
    BY <1>1, <1>14 DEF Compile_Memory_Size
  <2> QED  BY <1>2, <2>1, MemorySizeSound, CompileOk
<1>15. CASE Compile_Memory_Grow
  <2>1. Has(c, <<"i32">>) /\ Compile(MemoryGrow(c))
    BY <1>1, <1>15 DEF Compile_Memory_Grow
  <2> QED  BY <1>2, <1>3, <2>1, MemoryGrowSound, CompileOk
<1>16. CASE Compile_Memory_CopyFill
  <2>1. Compile(MemoryCopyFill(c))
    BY <1>1, <1>16 DEF Compile_Memory_CopyFill
  <2> QED  BY <1>2, <2>1, MemoryCopyFillSound, CompileOk
<1>17. CASE Compile_Call \/ Compile_CallIndirect
  <2>1. PICK t \in CallTypes, indirect \in BOOLEAN : Compile(Call(c, t, indirect))
    BY <1>1, <1>17 DEF Compile_Call, Compile_CallIndirect
  <2>2. t \in Signature /\ Len(t.params) \in Nat /\ Len(t.results) \in Nat
    BY Types
  <2> QED  BY <1>2, <2>1, <2>2, CallSound, CompileOk
<1>18. CASE Compile_LoopOrBlock
  <2>1. PICK t \in BlockTypes, op \in {"loop", "block"} :
          Len(c.scopes) < MaxDepth /\ Compile(Open(c, t, op))
    BY <1>1, <1>18 DEF Compile_LoopOrBlock, CanOpen
  <2> QED  BY <1>2, <1>3, <2>1, OpenSound, CompileOk
<1>19. CASE Compile_If
  <2>1. PICK t \in BlockTypes, then \in BOOLEAN :
          Len(c.scopes) < MaxDepth /\ Compile(If(c, t, then))
    BY <1>1, <1>19 DEF Compile_If, CanOpen
  <2> QED  BY <1>2, <1>3, <2>1, IfSound, CompileOk
<1>20. CASE Compile_Else
  <2>1. Block(c).op = "if" /\ Compile(Else(c))
    BY <1>1, <1>20 DEF Compile_Else
  <2> QED  BY <1>2, <1>3, <2>1, ElseInside, ElseSound, CompileOk
<1>21. CASE Compile_End
  <2>1. Len(c.scopes) > 1 /\ Compile(End(c))
    BY <1>1, <1>21 DEF Compile_End
  <2>2. Len(c.scopes) > 1
    BY <2>1, Zenon
  <2>3. Len(c.scopes) # 1
    BY <2>2, NotOne, Zenon
  <2> QED  BY <1>2, <1>3, <2>1, <2>3, EndSound, CompileOk
<1>22. CASE Compile_FunctionEnd
  <2> DEFINE d == [ReturnValues(c, FALSE) EXCEPT !.path = Gone,
                                                 !.result = IF @ = "none" THEN "compiled" ELSE @]
  <2>1. Compile(d)
    BY <1>1, <1>22 DEF Compile_FunctionEnd
  <2>2. ~Failed(c)
    BY <1>3, <2>1
  <2>3. \A e : e = d => Failed(e)
    BY <1>2, <2>2, FunctionEndSound
  <2> HIDE DEF d
  <2>4. Failed(d)
    BY <2>3
  <2> QED  BY <2>1, <2>4, CompileOk
<1>23. CASE Compile_Branch
  <2>1. PICK k \in 1..Len(c.scopes) : Compile(Br(c, k))
    BY <1>1, <1>23 DEF Compile_Branch, Scopes
  <2> QED  BY <1>2, <1>3, <2>1, BrSound, CompileOk
<1>24. CASE Compile_BranchIf
  <2>1. PICK k \in 1..Len(c.scopes), taken \in BOOLEAN : Compile(BrIf(c, k, taken))
    BY <1>1, <1>24 DEF Compile_BranchIf, Scopes
  <2> QED  BY <1>2, <1>3, <2>1, BrIfSound, CompileOk
<1>25. CASE Compile_BranchTable
  <2>1. PICK k \in 1..Len(c.scopes), l \in 1..Len(c.scopes), taken \in {1, 2} :
          Compile(BrTable(c, <<k, l>>, taken))
    BY <1>1, <1>25 DEF Compile_BranchTable, Scopes
  <2> QED  BY <1>2, <1>3, <2>1, BrTableSound, CompileOk
<1>26. CASE Compile_Return
  <2>1. Compile(Return(c))
    BY <1>1, <1>26 DEF Compile_Return
  <2> QED  BY <1>2, <1>3, <2>1, ReturnSound, CompileOk
<1>27. CASE Compile_Unreachable
  <2>1. Compile(Unreachable(c))
    BY <1>1, <1>27 DEF Compile_Unreachable
  <2> QED  BY <1>2, <1>3, <2>1, UnreachableSound, CompileOk
<1> QED
  BY <1>4, <1>5, <1>6, <1>7, <1>8, <1>9, <1>10, <1>11, <1>12, <1>13, <1>14, <1>15, <1>16, <1>17,
     <1>18, <1>19, <1>20, <1>21, <1>22, <1>23, <1>24, <1>25, <1>26, <1>27 DEF Next

\* The invariant holds of every compilation, at every instruction.
LEMMA Invariance ==
  ASSUME NoParams, OperatorsFit
  PROVE  Spec => []IInv
<1>1. Init => IInv
  BY StartOk, IInvOk DEF Init
<1>2. IInv /\ [Next]_o => IInv'
  <2>1. SUFFICES ASSUME IInv, [Next]_o  PROVE IInv'
    OBVIOUS
  <2>2. CASE o' = o
    BY <2>1, <2>2 DEF IInv, TypeOK, Failed, Fit
  <2>3. CASE Next
    <3>1. Ok(o')
      BY <2>1, <2>3, NextOk
    <3> QED  BY <3>1 DEF IInv, TypeOK, Ok, Typed
  <2> QED  BY <2>1, <2>2, <2>3
<1> QED  BY <1>1, <1>2, PTL DEF Spec

\* While what is there of a compilation fits its blocks, no two operands are in one register.
LEMMA HeldOnce ==
  ASSUME NEW c, Sound(c), ~Failed(c), ~Block(c).poly, NEW r \in Registers
  PROVE  {i \in Operands(c) : c.stack[i].slot = r} = IF c.reg[r] = 0 THEN {} ELSE {c.reg[r]}
<1>1. ScopesFit(c.scopes) /\ RegistersFit(c.stack, c.reg, c.scopes) /\ IsRegister(r)
  BY DEF Sound, Fit, FitIn, IsRegister
<1>2. Last(c.scopes) = Block(c) /\ Block(c).base \in Nat /\ \A i : ~Dead(i, c.scopes)
  BY <1>1, ScopeFacts DEF Block
<1>3. Operands(c) = {i \in 1..Len(c.stack) : InUse(i, c.scopes)}
  BY DEF Operands, InUse
<1>4. c.reg[r] \in Nat /\ Len(c.stack) \in Nat
  BY <1>1, GoodFacts, SoundGood DEF RegistersFit
<1>5. ASSUME NEW i \in Operands(c), c.stack[i].slot = r
      PROVE  c.reg[r] = i /\ i # 0
  <2>1. i \in 1..Len(c.stack) /\ InUse(i, c.scopes)
    BY <1>3
  <2>2. c.reg[c.stack[i].slot] = i
    BY <1>1, <1>2, <1>5, <2>1 DEF RegistersFit
  <2> QED  BY <1>5, <2>1, <2>2
<1>6. ASSUME c.reg[r] # 0
      PROVE  c.reg[r] \in Operands(c) /\ c.stack[c.reg[r]].slot = r
  <2>1. Block(c).base < c.reg[r] /\ c.reg[r] <= Len(c.stack) /\ c.stack[c.reg[r]].slot = r
    BY <1>1, <1>2, <1>6 DEF RegistersFit
  <2>2. InUse(c.reg[r], c.scopes)
    BY <1>1, <1>2, <1>4, <2>1, ScopeFacts
  <2>3. c.reg[r] \in 1..Len(c.stack)
    BY <1>4, <1>6, <2>1
  <2> QED  BY <1>3, <2>1, <2>2, <2>3
<1> QED  BY <1>5, <1>6

\* While it fits them, no register is taken from outside the innermost block.
LEMMA TakenInside ==
  ASSUME NEW c, Sound(c), ~Failed(c), NEW r \in Registers, NEW k \in 2..Len(c.scopes),
         c.reg[r] # 0
  PROVE  c.reg[r] > c.scopes[k].base
<1>1. ScopesFit(c.scopes) /\ RegistersFit(c.stack, c.reg, c.scopes)
  BY DEF Sound, Fit, FitIn
<1>2. Last(c.scopes).base < c.reg[r] /\ c.reg[r] \in Nat
  BY <1>1 DEF RegistersFit
<1>3. Len(c.scopes) \in Nat
  BY <1>1, ScopeFacts
<1>4. k \in 1..Len(c.scopes)
  BY <1>3
<1>5. c.scopes[k].base <= Last(c.scopes).base /\ Last(c.scopes).base \in Nat
  BY <1>1, <1>4, ScopeFacts
<1>6. c.scopes[k].base \in Nat
  BY <1>1, <1>4 DEF ScopesFit
<1> QED  BY <1>2, <1>5, <1>6

\* Every operand is in the frame or in a register, the uses of a slot are counted in a byte that
\* does not overflow, and M3Compilation.wasmStack is never written past its end, for frames,
\* stacks and functions of any size.
THEOREM Typing ==
  ASSUME NoParams, OperatorsFit
  PROVE  Spec => []TypeOK
<1>1. IInv => TypeOK
  BY DEF IInv
<1> QED  BY <1>1, Invariance, PTL

\* Reached code never has two operands in one register, and a register that is taken is taken by
\* an operand that is in it: PreserveRegisterIfOccupied, Pop and UnwindBlockStack keep
\* regStackIndexPlusOne and the stack together through every instruction.
THEOREM RegistersNeverShared ==
  ASSUME NoParams, OperatorsFit
  PROVE  Spec => []RegistersHeld
<1>1. ASSUME IInv  PROVE RegistersHeld
  <2>1. PICK c : c = o
    OBVIOUS
  <2>2. Sound(c)
    BY <1>1, <2>1 DEF IInv, Sound
  <2>3. ~Failed(c) /\ ~Block(c).poly =>
          \A r \in Registers :
            {i \in Operands(c) : c.stack[i].slot = r} = IF c.reg[r] = 0 THEN {} ELSE {c.reg[r]}
    BY <2>2, HeldOnce
  <2> QED  BY <2>1, <2>3 DEF RegistersHeld
<1>2. IInv => RegistersHeld
  BY <1>1
<1> QED  BY <1>2, Invariance, PTL

\* While a block is compiled, what was on the stack when it was opened is in slots: the copies
\* that end the block, go back to a loop or leave by a branch meet no register from outside it.
THEOREM OutsideInSlots ==
  ASSUME NoParams, OperatorsFit
  PROVE  Spec => []BlocksStartInSlots
<1>1. ASSUME IInv  PROVE BlocksStartInSlots
  <2>1. PICK c : c = o
    OBVIOUS
  <2>2. Sound(c)
    BY <1>1, <2>1 DEF IInv, Sound
  <2>3. ~Failed(c) => \A r \in Registers, k \in 2..Len(c.scopes) :
                        c.reg[r] # 0 => c.reg[r] > c.scopes[k].base
    BY <2>2, TakenInside
  <2> QED  BY <2>1, <2>3 DEF BlocksStartInSlots
<1>2. IInv => BlocksStartInSlots
  BY <1>1
<1> QED  BY <1>2, Invariance, PTL
=============================================================================
