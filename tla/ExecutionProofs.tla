--------------------------- MODULE ExecutionProofs -------------------------
(***************************************************************************)
(* Proofs about Execution, for every module: any functions, imports, call  *)
(* sites, start function and stack.  The argument has three parts: what    *)
(* stands at the call sites, how the frames follow each other and where    *)
(* runtime->stack is, and what is known of the start function.             *)
(***************************************************************************)
EXTENDS Execution, TLAPS

Operation == {"none", "op_Compile", "op_Call", "op_Call of M3Function"}
Entrance == {"call", "find"}

\* b is the last "host" among the first n frames of s, or 0.
IsBase(s, n, b) ==
  \/ b = 0 /\ \A k \in 1..n : s[k].kind # "host"
  \/ b \in 1..n /\ s[b].kind = "host" /\ \A k \in b + 1..n : s[k].kind # "host"

\* A stack s, with runtime->stack at b, of functions c: m3_Call and m3_FindFunction
\* start at the bottom or in imported functions only, and these know where to put
\* runtime->stack back to.
Good(s, b, c) ==
  /\ s \in Seq(Frame) /\ Len(s) <= MaxDepth
  /\ \A k \in 1..Len(s) : (k = 1 \/ s[k - 1].kind = "host") <=> s[k].kind \in Entrance
  /\ \A k \in 1..Len(s) : s[k].fn \in c
  /\ \A k \in 1..Len(s) : s[k].kind = "host" => IsBase(s, k - 1, s[k].saved)
  /\ IsBase(s, Len(s), b)

StackOK ==
  /\ Good(stack, base, compiled)
  /\ Runs({"find"}) => Depth < MaxDepth

\* op_Call stands where the callee has code, or where op_Compile has failed.
SitesOK(sites, c, failed) ==
  /\ sites \in [Func -> [Func -> Operation]]
  /\ \A f, g \in Func :
       /\ sites[f][g] = "op_Call" => g \in c
       /\ sites[f][g] = "op_Call of M3Function" => failed

CodeOK ==
  /\ loaded \in BOOLEAN /\ table \subseteq Elements /\ linked \subseteq Import
  /\ compiled \subseteq Func /\ constants \subseteq compiled \ Import
  /\ wild \in BOOLEAN /\ lazyFailed \in BOOLEAN
  /\ SitesOK(site, compiled, lazyFailed)
  /\ found \subseteq compiled
  /\ wild => lazyFailed

Finds(s) == {k \in 1..Len(s) : s[k].kind = "find"}

StartOK ==
  /\ pending \in BOOLEAN /\ completed \in 0..2
  /\ pending \/ Finds(stack) # {} => Start # NoFunc
  /\ Start # NoFunc /\ Start # First =>
       (pending \/ completed > 0) /\ (found # {} => completed > 0)
  /\ reentered \in BOOLEAN
  /\ ~reentered =>
       /\ Finds(stack) # {} => pending
       /\ completed > 0 => ~pending
       /\ completed <= 1
       /\ \A j, k \in Finds(stack) : j = k

IInv == CodeOK /\ StackOK /\ StartOK

------------------------------------------------------------------------------
(* Stacks *)

LEMMA FrameType ==
  ASSUME NEW f \in Frame
  PROVE  /\ f.kind \in {"call", "find", "guest", "host"} /\ f.fn \in Func
         /\ f.saved \in 0..MaxDepth
BY DEF Frame

LEMMA MoreCode ==
  ASSUME NEW s, NEW b, NEW c, NEW d, Good(s, b, c), c \subseteq d
  PROVE  Good(s, b, d)
BY DEF Good

\* Where runtime->stack may be.
LEMMA BaseType ==
  ASSUME NEW s, NEW b, NEW c, Good(s, b, c)
  PROVE  b \in 0..MaxDepth
<1>1. Len(s) \in Nat /\ Len(s) <= MaxDepth /\ MaxDepth \in Nat
  BY ExecutionAssumption DEF Good
<1> QED BY <1>1 DEF Good, IsBase

LEMMA PushGood ==
  ASSUME NEW s, NEW b, NEW c, Good(s, b, c), Len(s) < MaxDepth,
         NEW f \in Frame, f.fn \in c,
         (s = <<>> \/ s[Len(s)].kind = "host") <=> f.kind \in Entrance,
         f.kind = "host" => f.saved = b
  PROVE  Good(Append(s, f), IF f.kind = "host" THEN Len(s) + 1 ELSE b, c)
<1> DEFINE t == Append(s, f)
           n == Len(s)
           d == IF f.kind = "host" THEN n + 1 ELSE b
<1>1. s \in Seq(Frame) /\ n \in Nat /\ (s = <<>> <=> n = 0) /\ MaxDepth \in Nat
  BY ExecutionAssumption DEF Good
<1>2. /\ t \in Seq(Frame) /\ Len(t) = n + 1 /\ t[n + 1] = f
      /\ \A k \in 1..n : t[k] = s[k]
  BY <1>1
<1> HIDE DEF t
<1>3. \A m \in 0..n : \A x : IsBase(s, m, x) => IsBase(t, m, x)
  <2> SUFFICES ASSUME NEW m \in 0..n, NEW x, IsBase(s, m, x) PROVE IsBase(t, m, x)
    OBVIOUS
  <2>1. \A k \in 1..m : t[k] = s[k]
    BY <1>1, <1>2
  <2>2. CASE x = 0 /\ \A k \in 1..m : s[k].kind # "host"
    BY <2>1, <2>2 DEF IsBase
  <2>3. CASE x \in 1..m /\ s[x].kind = "host" /\ \A k \in x + 1..m : s[k].kind # "host"
    <3>1. m \in Nat /\ \A k \in x + 1..m : k \in 1..m
      BY <1>1, <2>3
    <3>2. \A k \in x + 1..m : t[k].kind # "host"
      BY <2>1, <2>3, <3>1
    <3> QED BY <2>1, <2>3, <3>2 DEF IsBase
  <2> QED BY <2>2, <2>3 DEF IsBase
<1>4. ASSUME NEW k \in 1..n + 1
      PROVE  (k = 1 \/ t[k - 1].kind = "host") <=> t[k].kind \in Entrance
  <2>1. CASE k \in 1..n
    <3>1. k # 1 => k - 1 \in 1..n
      BY <2>1, <1>1
    <3> QED BY <3>1, <2>1, <1>2 DEF Good
  <2>2. CASE k = n + 1
    <3>1. n # 0 => t[k - 1] = s[n] /\ k # 1
      BY <2>2, <1>1, <1>2
    <3> QED BY <3>1, <2>2, <1>1, <1>2
  <2> QED BY <2>1, <2>2, <1>1
<1>5. \A k \in 1..n + 1 : t[k].fn \in c
  BY <1>1, <1>2 DEF Good
<1>6. ASSUME NEW k \in 1..n + 1, t[k].kind = "host"
      PROVE  IsBase(t, k - 1, t[k].saved)
  <2>1. CASE k \in 1..n
    BY <2>1, <1>1, <1>2, <1>3, <1>6 DEF Good
  <2>2. CASE k = n + 1
    BY <2>2, <1>1, <1>2, <1>3, <1>6 DEF Good
  <2> QED BY <2>1, <2>2, <1>1
<1>7. IsBase(t, n + 1, d)
  <2>1. CASE f.kind = "host"
    BY <2>1, <1>1, <1>2 DEF IsBase
  <2>2. CASE f.kind # "host"
    <3>1. IsBase(t, n, b)
      BY <1>1, <1>3 DEF Good
    <3> QED BY <3>1, <2>2, <1>1, <1>2 DEF IsBase
  <2> QED BY <2>1, <2>2
<1>8. Len(t) <= MaxDepth
  BY <1>1, <1>2
<1> QED BY <1>2, <1>4, <1>5, <1>6, <1>7, <1>8 DEF Good, t

LEMMA KeepGood ==
  ASSUME NEW s, NEW b, NEW c, Good(s, b, c), NEW n \in 0..Len(s), NEW d, IsBase(s, n, d)
  PROVE  Good(SubSeq(s, 1, n), d, c)
<1> DEFINE t == SubSeq(s, 1, n)
<1>1. s \in Seq(Frame) /\ n \in Nat /\ Len(s) \in Nat /\ n <= Len(s) /\ MaxDepth \in Nat
  BY ExecutionAssumption DEF Good
<1>2. t \in Seq(Frame) /\ Len(t) = n /\ \A k \in 1..n : t[k] = s[k]
  BY <1>1
<1> HIDE DEF t
<1>3. \A m \in 0..n : \A x : IsBase(s, m, x) => IsBase(t, m, x)
  <2> SUFFICES ASSUME NEW m \in 0..n, NEW x, IsBase(s, m, x) PROVE IsBase(t, m, x)
    OBVIOUS
  <2>1. \A k \in 1..m : t[k] = s[k]
    BY <1>1, <1>2
  <2>2. CASE x = 0 /\ \A k \in 1..m : s[k].kind # "host"
    BY <2>1, <2>2 DEF IsBase
  <2>3. CASE x \in 1..m /\ s[x].kind = "host" /\ \A k \in x + 1..m : s[k].kind # "host"
    <3>1. m \in Nat /\ \A k \in x + 1..m : k \in 1..m
      BY <1>1, <2>3
    <3>2. \A k \in x + 1..m : t[k].kind # "host"
      BY <2>1, <2>3, <3>1
    <3> QED BY <2>1, <2>3, <3>2 DEF IsBase
  <2> QED BY <2>2, <2>3 DEF IsBase
<1>4. ASSUME NEW k \in 1..n
      PROVE  /\ (k = 1 \/ t[k - 1].kind = "host") <=> t[k].kind \in Entrance
             /\ t[k].fn \in c
             /\ t[k].kind = "host" => IsBase(t, k - 1, t[k].saved)
  <2>1. k \in 1..Len(s) /\ (k # 1 => k - 1 \in 1..n) /\ k - 1 \in 0..n
    BY <1>1
  <2> QED BY <2>1, <1>2, <1>3 DEF Good
<1>5. IsBase(t, n, d) /\ Len(t) <= MaxDepth
  <2>1. n \in 0..n
    BY <1>1
  <2> QED BY <2>1, <1>1, <1>2, <1>3 DEF Good
<1> QED BY <1>2, <1>4, <1>5 DEF Good, t

LEMMA BaseBelow ==
  ASSUME NEW s, NEW m \in Nat, NEW n \in 0..m, NEW b, IsBase(s, m, b),
         \A k \in n + 1..m : s[k].kind # "host"
  PROVE  IsBase(s, n, b)
<1>1. CASE b = 0 /\ \A k \in 1..m : s[k].kind # "host"
  BY <1>1 DEF IsBase
<1>2. CASE b \in 1..m /\ s[b].kind = "host" /\ \A k \in b + 1..m : s[k].kind # "host"
  <2>1. b \in 1..n
    BY <1>2
  <2> QED BY <2>1, <1>2 DEF IsBase
<1> QED BY <1>1, <1>2 DEF IsBase

\* The end of calls: none of the frames that are left without putting runtime->stack
\* back had moved it.
LEMMA LeaveGood ==
  ASSUME StackOK, stack # <<>>, NEW n \in 0..Depth - 1, LeaveTo(n),
         \A k \in n + 1..Depth - 1 : stack[k].kind # "host",
         n = 0 \/ stack[n].kind # "find", compiled \subseteq compiled'
  PROVE  StackOK' /\ Finds(stack') \subseteq Finds(stack)
<1>1. stack \in Seq(Frame) /\ Depth \in Nat /\ Depth # 0 /\ Depth = Len(stack)
  BY DEF StackOK, Good, Depth
<1>2. n \in Nat /\ n <= Depth /\ stack' = SubSeq(stack, 1, n)
  BY <1>1 DEF LeaveTo, Keep
<1>3. stack' \in Seq(Frame) /\ Len(stack') = n /\ \A k \in 1..n : stack'[k] = stack[k]
  BY <1>1, <1>2
<1>4. IsBase(stack, n, base')
  <2>1. CASE Top.kind = "host"
    <3>1. base' = Top.saved
      BY <2>1 DEF LeaveTo, Runs
    <3>2. IsBase(stack, Depth - 1, Top.saved)
      BY <2>1, <1>1 DEF StackOK, Good, Top
    <3>3. Depth - 1 \in Nat /\ n \in 0..Depth - 1
      BY <1>1, <1>2
    <3> QED BY <3>1, <3>2, <3>3, BaseBelow
  <2>2. CASE Top.kind # "host"
    <3>1. base' = base
      BY <2>2 DEF LeaveTo, Runs
    <3>2. \A k \in n + 1..Depth : stack[k].kind # "host"
      BY <2>2, <1>1 DEF Top
    <3>3. IsBase(stack, Depth, base) /\ n \in 0..Depth
      BY <1>1, <1>2 DEF StackOK, Good
    <3> QED BY <3>1, <3>2, <3>3, <1>1, BaseBelow
  <2> QED BY <2>1, <2>2
<1>5. Good(stack', base', compiled')
  <2>1. Good(stack, base, compiled') /\ n \in 0..Len(stack)
    BY <1>1, <1>2, MoreCode DEF StackOK
  <2> QED BY <2>1, <1>2, <1>4, KeepGood
<1>6. Runs({"find"})' => Depth' < MaxDepth
  BY <1>3 DEF Runs, Top, Depth
<1>7. Finds(stack') \subseteq Finds(stack)
  BY <1>1, <1>2, <1>3 DEF Finds
<1> QED BY <1>5, <1>6, <1>7 DEF StackOK

\* A trap leaves guests, and the imported function that trapped.
LEMMA UnwindGood ==
  ASSUME StackOK, Unwind, compiled \subseteq compiled'
  PROVE  StackOK' /\ Finds(stack') \subseteq Finds(stack)
<1>1. PICK k \in 1..Depth : Innermost(k) /\ LeaveTo(k - 1)
  BY DEF Unwind
<1>2. stack \in Seq(Frame) /\ Depth \in Nat /\ Depth = Len(stack) /\ stack # <<>>
  BY <1>1 DEF StackOK, Good, Depth
<1>3. \A j \in k..Depth - 1 : stack[j].kind # "host"
  <2> SUFFICES ASSUME NEW j \in k..Depth - 1, stack[j].kind = "host" PROVE FALSE
    OBVIOUS
  <2>1. j + 1 \in k + 1..Depth /\ j + 1 \in 1..Len(stack) /\ (j + 1) - 1 = j
    BY <1>2
  <2>2. stack[j + 1].kind \in Entrance
    BY <2>1 DEF StackOK, Good
  <2> QED BY <2>1, <2>2, <1>1 DEF Innermost, Entrance
<1>4. k - 1 \in 0..Depth - 1 /\ k - 1 \in Nat
  BY <1>2
<1>5. k - 1 = 0 \/ stack[k - 1].kind # "find"
  BY <1>1, <1>2 DEF StackOK, Good, Innermost, Entrance
<1>6. \A j \in (k - 1) + 1..Depth - 1 : stack[j].kind # "host"
  BY <1>3, <1>4
<1> QED BY <1>1, <1>2, <1>4, <1>5, <1>6, LeaveGood

\* A function is entered, on top of the frames below.
LEMMA EnterGood ==
  ASSUME NEW below, Good(below, base, compiled'), below # <<>>,
         below[Len(below)].kind # "host", Len(below) < MaxDepth,
         NEW f \in Func, f \in compiled', Enter(f, below)
  PROVE  StackOK' /\ Finds(stack') = Finds(below)
<1> DEFINE kind == IF f \in Import THEN "host" ELSE "guest"
           frame == [kind |-> kind, fn |-> f, saved |-> base]
<1>1. frame \in Frame /\ frame.kind = kind /\ frame.saved = base /\ frame.fn = f
  BY BaseType DEF Frame
<1>2. below \in Seq(Frame) /\ Len(below) \in Nat
  BY DEF Good
<1>3. /\ stack' = Append(below, frame)
      /\ base' = IF kind = "host" THEN Len(below) + 1 ELSE base
  BY DEF Enter
<1>4. kind \notin Entrance /\ kind # "find"
  BY DEF Entrance
<1>5. /\ Len(stack') = Len(below) + 1 /\ stack'[Len(below) + 1] = frame
      /\ \A k \in 1..Len(below) : stack'[k] = below[k]
  BY <1>1, <1>2, <1>3
<1> HIDE DEF kind, frame
<1>6. Good(Append(below, frame), IF frame.kind = "host" THEN Len(below) + 1 ELSE base,
           compiled')
  BY <1>1, <1>4, PushGood
<1>7. ~Runs({"find"})'
  BY <1>1, <1>4, <1>5 DEF Runs, Top, Depth
<1>8. Finds(stack') = Finds(below)
  BY <1>1, <1>2, <1>4, <1>5 DEF Finds
<1> QED BY <1>1, <1>3, <1>6, <1>7, <1>8 DEF StackOK

\* m3_Call or m3_FindFunction is entered.
LEMMA ApiGood ==
  ASSUME StackOK, MayUse, NEW f \in compiled', f \in Func, compiled \subseteq compiled',
         NEW kind \in Entrance
  PROVE  /\ Good(Append(stack, Api(kind, f)), base, compiled')
         /\ Len(Append(stack, Api(kind, f))) = Depth + 1
         /\ Append(stack, Api(kind, f))[Depth + 1].kind = kind
         /\ Depth + 1 < MaxDepth /\ Depth \in Nat /\ Append(stack, Api(kind, f)) # <<>>
         /\ Finds(Append(stack, Api(kind, f)))
              = IF kind = "find" THEN Finds(stack) \cup {Depth + 1} ELSE Finds(stack)
<1> DEFINE frame == Api(kind, f)
           t == Append(stack, frame)
<1>1. frame \in Frame /\ frame.kind = kind /\ frame.fn = f
  BY ExecutionAssumption DEF Api, Frame, Entrance
<1>2. stack \in Seq(Frame) /\ Depth \in Nat /\ Depth = Len(stack) /\ MaxDepth \in Nat
  BY ExecutionAssumption DEF StackOK, Good, Depth
<1>3. Depth + 1 < MaxDepth /\ (stack = <<>> \/ stack[Depth].kind = "host")
  BY DEF MayUse, Runs, Top
<1> HIDE DEF frame
<1>4. Good(stack, base, compiled')
  BY MoreCode DEF StackOK
<1>5. Good(t, IF frame.kind = "host" THEN Len(stack) + 1 ELSE base, compiled')
  BY <1>1, <1>2, <1>3, <1>4, PushGood DEF Entrance
<1>6. Good(t, base, compiled')
  BY <1>1, <1>5 DEF Entrance
<1>7. /\ Len(t) = Depth + 1 /\ t[Depth + 1] = frame /\ t # <<>>
      /\ \A k \in 1..Depth : t[k] = stack[k]
  BY <1>1, <1>2
<1>8. Finds(t) = IF kind = "find" THEN Finds(stack) \cup {Depth + 1} ELSE Finds(stack)
  BY <1>1, <1>2, <1>7 DEF Finds
<1> QED BY <1>1, <1>2, <1>3, <1>6, <1>7, <1>8 DEF frame

------------------------------------------------------------------------------
(* Compilation *)

\* if (not function->compiled) CompileFunction (function);
LEMMA CompilesOK ==
  ASSUME CodeOK, NEW f \in Func, NEW ok, Compiles(f, ok)
  PROVE  /\ compiled \subseteq compiled' /\ compiled' \subseteq Func
         /\ constants' \subseteq compiled' \ Import
         /\ ok => f \in compiled'
         /\ SitesOK(SitesAfter(f), compiled', lazyFailed)
<1>1. CASE f \in compiled /\ ok /\ UNCHANGED <<compiled, constants>>
  <2>1. SitesAfter(f) = site
    BY <1>1 DEF SitesAfter
  <2> QED BY <1>1, <2>1 DEF CodeOK
<1>2. CASE /\ f \notin compiled
           /\ \E outcome \in Outcome(f) :
                CompileFunction(f, outcome) /\ ok = (outcome = "done")
  <2>1. PICK outcome \in Outcome(f) :
               CompileFunction(f, outcome) /\ ok = (outcome = "done")
    BY <1>2
  <2>2. outcome # "error" => f \notin Import
    BY DEF Outcome, Compilable
  <2>3. compiled \subseteq compiled' /\ compiled' \subseteq Func /\ (ok => f \in compiled')
    BY <2>1 DEF CompileFunction, CodeOK
  <2>4. constants' \subseteq compiled' \ Import
    BY <2>1, <2>2 DEF CompileFunction, CodeOK
  <2>5. /\ Sites(f) \in [Func -> Operation]
        /\ \A g \in Func : /\ Sites(f)[g] = "op_Call" => g \in compiled'
                           /\ Sites(f)[g] # "op_Call of M3Function"
    BY <2>3 DEF Sites, Operation
  <2>6. SitesOK(SitesAfter(f), compiled', lazyFailed)
    <3>1. SitesOK(site, compiled', lazyFailed)
      BY <2>3 DEF SitesOK, CodeOK
    <3>2. CASE SitesAfter(f) = site
      BY <3>1, <3>2
    <3>3. CASE SitesAfter(f) = [site EXCEPT ![f] = Sites(f)]
      <4> DEFINE sites == SitesAfter(f)
      <4>1. /\ sites \in [Func -> [Func -> Operation]] /\ sites[f] = Sites(f)
            /\ \A h \in Func : h # f => sites[h] = site[h]
        BY <3>1, <3>3, <2>5 DEF SitesOK
      <4> HIDE DEF sites
      <4>2. \A h, g \in Func : /\ sites[h][g] = "op_Call" => g \in compiled'
                               /\ sites[h][g] = "op_Call of M3Function" => lazyFailed
        <5>1. \A h, g \in Func : /\ site[h][g] = "op_Call" => g \in compiled'
                                 /\ site[h][g] = "op_Call of M3Function" => lazyFailed
          BY <3>1, Zenon DEF SitesOK
        <5> QED BY <5>1, <4>1, <2>5
      <4>3. SitesOK(sites, compiled', lazyFailed)
        BY <4>1, <4>2 DEF SitesOK
      <4> QED BY <4>3 DEF sites
    <3> QED BY <3>2, <3>3 DEF SitesAfter
  <2> QED BY <2>3, <2>4, <2>6
<1> QED BY <1>1, <1>2 DEF Compiles

\* A step that compiles a function and changes no more of the code than that.
LEMMA CodeKept ==
  ASSUME CodeOK, NEW f \in Func, NEW ok, Compiles(f, ok), site' = SitesAfter(f),
         UNCHANGED <<loaded, table, linked, wild, lazyFailed>>, found' \subseteq compiled'
  PROVE  CodeOK'
BY CompilesOK DEF CodeOK

\* A step that compiles nothing.
LEMMA CodeSame ==
  ASSUME CodeOK, UNCHANGED <<loaded, table, linked, compiled, constants, site, lazyFailed>>,
         wild' = wild \/ lazyFailed, wild' \in BOOLEAN, found' \subseteq compiled
  PROVE  CodeOK'
BY DEF CodeOK

\* What is known of the start function does not change when calls are made and end.
LEMMA StartSame ==
  ASSUME StartOK, UNCHANGED <<pending, completed, reentered>>, found' = found,
         Finds(stack') \subseteq Finds(stack)
  PROVE  StartOK'
<1>1. pending' = pending /\ completed' = completed /\ found' = found
  OBVIOUS
<1>2. ~reentered =>
        /\ Finds(stack') # {} => pending
        /\ \A j, k \in Finds(stack') : j = k
  BY DEF StartOK
<1>3. pending \in BOOLEAN /\ completed \in 0..2
  BY DEF StartOK
<1> QED BY <1>1, <1>2, <1>3 DEF StartOK

------------------------------------------------------------------------------
(* The steps *)

LEMMA InitIInv == Init => IInv
<1>1. SUFFICES ASSUME Init PROVE IInv
  OBVIOUS
<1>2. CodeOK
  BY <1>1, ExecutionAssumption DEF Init, CodeOK, SitesOK, Operation
<1>3. StackOK
  <2>1. stack = <<>> /\ Len(stack) = 0 /\ stack \in Seq(Frame) /\ 0 <= MaxDepth /\ base = 0
    BY <1>1, ExecutionAssumption DEF Init
  <2> QED BY <2>1 DEF StackOK, Good, IsBase, Runs
<1>4. StartOK
  <2>1. Finds(stack) = {}
    BY <1>1 DEF Init, Finds
  <2>2. pending = (Start # NoFunc) /\ found = {} /\ completed = 0 /\ reentered = FALSE
    BY <1>1 DEF Init
  <2>3. pending \in BOOLEAN /\ (Start # NoFunc <=> pending)
    BY <2>2
  <2>4. reentered \in BOOLEAN
    BY <2>2
  <2> QED BY <2>1, <2>2, <2>3, <2>4 DEF StartOK
<1> QED BY <1>2, <1>3, <1>4 DEF IInv

LEMMA LoadIInv == IInv /\ (Load \/ LoadFails) => IInv'
<1>1. SUFFICES ASSUME IInv, Load \/ LoadFails PROVE IInv'
  OBVIOUS
<1>2. UNCHANGED <<linked, code, pending, found, stack, base, wild, history>>
  BY <1>1 DEF Load, LoadFails
<1>3. loaded' \in BOOLEAN /\ table' \subseteq Elements
  BY <1>1 DEF Load, LoadFails, IInv, CodeOK
<1>4. CodeOK'
  BY <1>1, <1>2, <1>3 DEF IInv, CodeOK, code, history
<1>5. StackOK'
  BY <1>1, <1>2 DEF IInv, StackOK, code, Runs, Top, Depth
<1>6. StartOK'
  BY <1>1, <1>2, StartSame DEF IInv, history
<1> QED BY <1>4, <1>5, <1>6 DEF IInv

LEMMA LinkIInv == IInv /\ (\E f \in Func : Link(f)) => IInv'
<1>1. SUFFICES ASSUME IInv, NEW f \in Func, Link(f) PROVE IInv'
  OBVIOUS
<1>2. /\ f \in Import /\ linked' = linked \cup {f} /\ compiled' = compiled \cup {f}
      /\ UNCHANGED <<loaded, table, constants, site, pending, found, stack, base, wild,
                     history>>
  BY <1>1 DEF Link
<1>3. CodeOK'
  BY <1>1, <1>2 DEF IInv, CodeOK, SitesOK, history
<1>4. StackOK'
  <2>1. Good(stack, base, compiled')
    BY <1>1, <1>2, MoreCode DEF IInv, StackOK
  <2> QED BY <2>1, <1>1, <1>2 DEF IInv, StackOK, Runs, Top, Depth
<1>5. StartOK'
  BY <1>1, <1>2, StartSame DEF IInv, history
<1> QED BY <1>3, <1>4, <1>5 DEF IInv

LEMMA FindFunctionIInv == IInv /\ (\E f \in Func : FindFunction(f)) => IInv'
<1>1. SUFFICES ASSUME IInv, NEW f \in Func, FindFunction(f) PROVE IInv'
  OBVIOUS
<1>2. PICK ok \in BOOLEAN :
        /\ Compiles(f, ok)
        /\ stack' = IF ok /\ StartDue THEN Append(stack, Api("find", f)) ELSE stack
        /\ found' = IF ok /\ ~StartDue THEN found \cup {f} ELSE found
        /\ reentered' = IF ok /\ StartDue /\ InStart THEN TRUE ELSE reentered
  BY <1>1 DEF FindFunction
<1>3. /\ MayUse /\ site' = SitesAfter(f)
      /\ UNCHANGED <<module, pending, base, wild, lazyFailed, completed>>
  BY <1>1 DEF FindFunction
<1>4. CodeOK /\ StackOK /\ StartOK
  BY <1>1 DEF IInv
<1>5. compiled \subseteq compiled' /\ (ok => f \in compiled')
  BY <1>2, <1>4, CompilesOK
<1>6. CodeOK'
  <2>1. found' \subseteq compiled'
    BY <1>2, <1>4, <1>5 DEF CodeOK
  <2> QED BY <2>1, <1>2, <1>3, <1>4, CodeKept DEF module, history
<1>7. CASE ok /\ StartDue
  <2> DEFINE t == Append(stack, Api("find", f))
  <2>1. /\ Good(t, base, compiled') /\ Len(t) = Depth + 1 /\ Depth + 1 < MaxDepth
        /\ Finds(t) = Finds(stack) \cup {Depth + 1}
    BY <1>3, <1>4, <1>5, <1>7, ApiGood DEF Entrance
  <2>2. stack' = t /\ base' = base /\ found' = found
    BY <1>2, <1>3, <1>7
  <2> HIDE DEF t
  <2>3. StackOK'
    BY <2>1, <2>2 DEF StackOK, Depth
  <2>4. /\ reentered' \in BOOLEAN /\ (~reentered' => ~reentered)
        /\ ~reentered' => Finds(stack) = {}
    BY <1>2, <1>4, <1>7 DEF InStart, Finds, Depth, StartOK
  <2>5. pending /\ pending' = pending /\ completed' = completed
    BY <1>3, <1>7 DEF StartDue
  <2>6. StartOK'
    BY <2>1, <2>2, <2>4, <2>5, <1>4 DEF StartOK
  <2> QED BY <2>3, <2>6, <1>6 DEF IInv
<1>8. CASE ~(ok /\ StartDue)
  <2>1. stack' = stack /\ base' = base
    BY <1>2, <1>3, <1>8
  <2>2. StackOK'
    <3>1. Good(stack, base, compiled')
      BY <1>4, <1>5, MoreCode DEF StackOK
    <3> QED BY <3>1, <2>1, <1>4 DEF StackOK, Runs, Top, Depth
  <2>3. /\ pending' = pending /\ completed' = completed
        /\ reentered' \in BOOLEAN /\ reentered' = reentered
    BY <1>2, <1>3, <1>4, <1>8 DEF history, StartOK
  <2>4. ~StartDue \/ found' = found
    BY <1>2, <1>8
  <2>5. StartOK'
    BY <2>1, <2>3, <2>4, <1>4 DEF StartOK, StartDue
  <2> QED BY <2>2, <2>5, <1>6 DEF IInv
<1> QED BY <1>7, <1>8

LEMMA RunStartIInv == IInv /\ RunStart => IInv'
<1>1. SUFFICES ASSUME IInv, RunStart PROVE IInv'
  OBVIOUS
<1>2. PICK ok \in BOOLEAN :
        Compiles(Start, ok) /\ IF ok THEN Enter(Start, stack) ELSE LeaveTo(Depth - 1)
  BY <1>1 DEF RunStart
<1>3. /\ Runs({"find"}) /\ site' = SitesAfter(Start)
      /\ UNCHANGED <<module, pending, found, wild, history>>
  BY <1>1 DEF RunStart
<1>4. CodeOK /\ StackOK /\ StartOK
  BY <1>1 DEF IInv
<1>5. Start \in Func
  <2>1. Depth \in Finds(stack)
    BY <1>3, <1>4 DEF Finds, Runs, Top, StackOK, Good, Depth
  <2> QED BY <2>1, <1>4, ExecutionAssumption DEF StartOK
<1>6. compiled \subseteq compiled' /\ (ok => Start \in compiled')
  BY <1>2, <1>4, <1>5, CompilesOK
<1>7. CodeOK'
  BY <1>2, <1>3, <1>4, <1>5, <1>6, CodeKept DEF module, history, CodeOK
<1>8. StackOK' /\ Finds(stack') \subseteq Finds(stack)
  <2>1. /\ stack # <<>> /\ stack[Depth].kind = "find" /\ Depth < MaxDepth
        /\ Depth = Len(stack) /\ Depth \in Nat /\ stack \in Seq(Frame)
    BY <1>3, <1>4 DEF Runs, Top, StackOK, Good, Depth
  <2>2. CASE ok /\ Enter(Start, stack)
    <3>1. Good(stack, base, compiled')
      BY <1>4, <1>6, MoreCode DEF StackOK
    <3> QED BY <3>1, <2>1, <2>2, <1>5, <1>6, EnterGood
  <2>3. CASE LeaveTo(Depth - 1)
    <3>1. Depth - 1 \in 0..Depth - 1 /\ (Depth - 1 # 0 => Depth - 1 \in 1..Len(stack))
      BY <2>1
    <3>2. Depth - 1 # 0 => stack[Depth - 1].kind = "host"
      BY <2>1, <3>1, <1>4 DEF StackOK, Good, Entrance
    <3> QED BY <3>1, <3>2, <2>1, <2>3, <1>4, <1>6, LeaveGood
  <2> QED BY <2>2, <2>3, <1>2
<1>9. StartOK'
  BY <1>3, <1>4, <1>8, StartSame DEF history
<1> QED BY <1>7, <1>8, <1>9 DEF IInv

LEMMA CallFoundIInv == IInv /\ (\E f \in Func : CallFound(f)) => IInv'
<1>1. SUFFICES ASSUME IInv, NEW f \in Func, CallFound(f) PROVE IInv'
  OBVIOUS
<1> DEFINE t == Append(stack, Api("call", f))
<1>2. /\ MayUse /\ f \in compiled /\ compiled' = compiled /\ Enter(f, t)
      /\ UNCHANGED <<module, code, pending, found, wild, history>>
  BY <1>1 DEF CallFound, code
<1>3. CodeOK /\ StackOK /\ StartOK
  BY <1>1 DEF IInv
<1>4. CodeOK'
  BY <1>2, <1>3 DEF CodeOK, module, code, history
<1>5. /\ Good(t, base, compiled') /\ Len(t) = Depth + 1 /\ t[Depth + 1].kind = "call"
      /\ Depth + 1 < MaxDepth /\ t # <<>> /\ Finds(t) = Finds(stack)
  BY <1>2, <1>3, ApiGood DEF Entrance
<1> HIDE DEF t
<1>6. StackOK' /\ Finds(stack') = Finds(t)
  BY <1>2, <1>5, EnterGood
<1>7. StartOK'
  BY <1>2, <1>3, <1>5, <1>6, StartSame DEF history
<1> QED BY <1>4, <1>6, <1>7 DEF IInv

\* The code of a function enters a function with code.
LEMMA GuestEnters ==
  ASSUME StackOK, MayCall, NEW g \in Func, Enter(g, stack),
         compiled \subseteq compiled', g \in compiled'
  PROVE  StackOK' /\ Finds(stack') \subseteq Finds(stack)
<1>1. Good(stack, base, compiled')
  BY MoreCode DEF StackOK
<1>2. stack # <<>> /\ stack[Len(stack)].kind # "host" /\ Len(stack) < MaxDepth
  BY DEF MayCall, Runs, Top, Depth
<1> QED BY <1>1, <1>2, EnterGood

LEMMA TopType ==
  ASSUME StackOK, MayCall
  PROVE  Top.fn \in Func
<1>1. stack \in Seq(Frame) /\ stack # <<>>
  BY DEF MayCall, Runs, StackOK, Good
<1>2. Depth \in 1..Len(stack)
  BY <1>1 DEF Depth
<1> QED BY <1>1, <1>2, FrameType DEF Top

LEMMA OpCallIInv == IInv /\ (\E g \in Func : OpCall(g)) => IInv'
<1>1. SUFFICES ASSUME IInv, NEW g \in Func, OpCall(g) PROVE IInv'
  OBVIOUS
<1>2. /\ MayCall /\ site[Top.fn][g] = "op_Call" /\ Enter(g, stack) /\ compiled' = compiled
      /\ UNCHANGED <<module, code, pending, found, wild, history>>
  BY <1>1 DEF OpCall, code
<1>3. CodeOK /\ StackOK /\ StartOK
  BY <1>1 DEF IInv
<1>4. Top.fn \in Func
  BY <1>2, <1>3, TopType
<1>5. g \in compiled'
  BY <1>2, <1>3, <1>4 DEF CodeOK, SitesOK
<1>6. CodeOK'
  BY <1>2, <1>3 DEF CodeOK, module, code, history
<1>7. StackOK' /\ Finds(stack') \subseteq Finds(stack)
  BY <1>2, <1>3, <1>5, GuestEnters
<1>8. StartOK'
  BY <1>2, <1>3, <1>7, StartSame DEF history
<1> QED BY <1>6, <1>7, <1>8 DEF IInv

LEMMA OpCompileIInv == IInv /\ (\E g \in Func : OpCompile(g)) => IInv'
<1>1. SUFFICES ASSUME IInv, NEW g \in Func, OpCompile(g) PROVE IInv'
  OBVIOUS
<1>2. PICK ok \in BOOLEAN :
        /\ Compiles(g, ok)
        /\ site' = [SitesAfter(g) EXCEPT ![Top.fn][g] =
                      IF ok THEN "op_Call" ELSE "op_Call of M3Function"]
        /\ lazyFailed' = (lazyFailed \/ ~ok)
        /\ IF ok THEN Enter(g, stack) ELSE Unwind
  BY <1>1 DEF OpCompile
<1>3. MayCall /\ UNCHANGED <<module, pending, found, wild, completed, reentered>>
  BY <1>1 DEF OpCompile
<1>4. CodeOK /\ StackOK /\ StartOK
  BY <1>1 DEF IInv
<1>5. Top.fn \in Func
  BY <1>3, <1>4, TopType
<1>6. /\ compiled \subseteq compiled' /\ compiled' \subseteq Func
      /\ constants' \subseteq compiled' \ Import
      /\ ok => g \in compiled'
      /\ SitesOK(SitesAfter(g), compiled', lazyFailed)
  BY <1>2, <1>4, CompilesOK
<1>7. lazyFailed' \in BOOLEAN /\ (lazyFailed => lazyFailed') /\ (~ok => lazyFailed')
  BY <1>2, <1>4 DEF CodeOK
<1>8. SitesOK(site', compiled', lazyFailed')
  <2> DEFINE old == SitesAfter(g)
             op == IF ok THEN "op_Call" ELSE "op_Call of M3Function"
  <2>1. op \in Operation /\ (op = "op_Call" => ok) /\ (op = "op_Call of M3Function" => ~ok)
    BY DEF Operation
  <2>2. old \in [Func -> [Func -> Operation]] /\ site' = [old EXCEPT ![Top.fn][g] = op]
    BY <1>2, <1>6 DEF SitesOK
  <2>3. \A f, h \in Func : /\ old[f][h] = "op_Call" => h \in compiled'
                           /\ old[f][h] = "op_Call of M3Function" => lazyFailed'
    BY <1>6, <1>7 DEF SitesOK
  <2> HIDE DEF old, op
  <2>4. site' \in [Func -> [Func -> Operation]]
    BY <2>1, <2>2, <1>5
  <2>5. \A f, h \in Func : site'[f][h] = IF f = Top.fn /\ h = g THEN op ELSE old[f][h]
    BY <2>2, <1>5
  <2>6. \A f, h \in Func : /\ site'[f][h] = "op_Call" => h \in compiled'
                           /\ site'[f][h] = "op_Call of M3Function" => lazyFailed'
    BY <2>1, <2>3, <2>5, <1>6, <1>7
  <2> QED BY <2>4, <2>6 DEF SitesOK
<1>9. CodeOK'
  BY <1>3, <1>4, <1>6, <1>7, <1>8 DEF CodeOK, module
<1>10. StackOK' /\ Finds(stack') \subseteq Finds(stack)
  BY <1>2, <1>3, <1>4, <1>6, GuestEnters, UnwindGood
<1>11. StartOK'
  BY <1>3, <1>4, <1>10, StartSame
<1> QED BY <1>9, <1>10, <1>11 DEF IInv

LEMMA OpCallOfFunctionIInv == IInv /\ (\E g \in Func : OpCallOfFunction(g)) => IInv'
<1>1. SUFFICES ASSUME IInv, NEW g \in Func, OpCallOfFunction(g) PROVE IInv'
  OBVIOUS
<1>2. /\ MayCall /\ site[Top.fn][g] = "op_Call of M3Function" /\ wild' = TRUE
      /\ UNCHANGED <<module, code, pending, found, stack, base, history>>
  BY <1>1 DEF OpCallOfFunction
<1>3. CodeOK /\ StackOK /\ StartOK
  BY <1>1 DEF IInv
<1>4. Top.fn \in Func
  BY <1>2, <1>3, TopType
<1>5. lazyFailed
  BY <1>2, <1>3, <1>4 DEF CodeOK, SitesOK
<1>6. CodeOK'
  BY <1>2, <1>3, <1>5 DEF CodeOK, module, code, history
<1>7. StackOK'
  BY <1>2, <1>3 DEF StackOK, code, Runs, Top, Depth
<1>8. StartOK'
  BY <1>2, <1>3, StartSame DEF history
<1> QED BY <1>6, <1>7, <1>8 DEF IInv

LEMMA OpCallIndirectIInv == IInv /\ (\E g \in Func : OpCallIndirect(g)) => IInv'
<1>1. SUFFICES ASSUME IInv, NEW g \in Func, OpCallIndirect(g) PROVE IInv'
  OBVIOUS
<1>2. PICK ok \in BOOLEAN : Compiles(g, ok) /\ IF ok THEN Enter(g, stack) ELSE Unwind
  BY <1>1 DEF OpCallIndirect
<1>3. /\ MayCall /\ site' = SitesAfter(g)
      /\ UNCHANGED <<module, pending, found, wild, history>>
  BY <1>1 DEF OpCallIndirect
<1>4. CodeOK /\ StackOK /\ StartOK
  BY <1>1 DEF IInv
<1>5. compiled \subseteq compiled' /\ (ok => g \in compiled')
  BY <1>2, <1>4, CompilesOK
<1>6. CodeOK'
  BY <1>2, <1>3, <1>4, <1>5, CodeKept DEF module, history, CodeOK
<1>7. StackOK' /\ Finds(stack') \subseteq Finds(stack)
  BY <1>2, <1>3, <1>4, <1>5, GuestEnters, UnwindGood
<1>8. StartOK'
  BY <1>3, <1>4, <1>7, StartSame DEF history
<1> QED BY <1>6, <1>7, <1>8 DEF IInv

LEMMA TrapIInv == IInv /\ Trap => IInv'
<1>1. SUFFICES ASSUME IInv, Trap PROVE IInv'
  OBVIOUS
<1>2. /\ Unwind /\ compiled' = compiled
      /\ UNCHANGED <<module, code, pending, found, wild, history>>
  BY <1>1 DEF Trap, code
<1>3. CodeOK'
  BY <1>1, <1>2 DEF IInv, CodeOK, module, code, history
<1>4. StackOK' /\ Finds(stack') \subseteq Finds(stack)
  BY <1>1, <1>2, UnwindGood DEF IInv
<1>5. StartOK'
  BY <1>1, <1>2, <1>4, StartSame DEF IInv, history
<1> QED BY <1>3, <1>4, <1>5 DEF IInv

LEMMA ReturnIInv == IInv /\ Return => IInv'
<1>1. SUFFICES ASSUME IInv, Return PROVE IInv'
  OBVIOUS
<1> DEFINE below == stack[Depth - 1]
           n == IF below.kind \in Entrance THEN Depth - 2 ELSE Depth - 1
<1>2. /\ Runs({"guest", "host"}) /\ LeaveTo(n) /\ compiled' = compiled
      /\ UNCHANGED <<module, code, wild, lazyFailed, reentered>>
  BY <1>1 DEF Return, code, Entrance
<1>3. CodeOK /\ StackOK /\ StartOK
  BY <1>1 DEF IInv
<1>4. /\ stack # <<>> /\ stack \in Seq(Frame) /\ Depth = Len(stack) /\ Depth \in Nat
      /\ Depth # 0 /\ stack[Depth].kind \in {"guest", "host"}
  BY <1>2, <1>3 DEF Runs, Top, StackOK, Good, Depth
<1>5. Depth # 1 /\ Depth - 1 \in 1..Len(stack) /\ below.kind # "host"
  <2>1. ~(Depth = 1 \/ stack[Depth - 1].kind = "host")
    BY <1>3, <1>4 DEF StackOK, Good, Entrance
  <2> QED BY <2>1, <1>4
<1>6. StackOK' /\ Finds(stack') \subseteq Finds(stack)
      /\ (below.kind = "find" => Depth - 1 \notin Finds(stack'))
  <2>1. n \in 0..Depth - 1 /\ \A k \in n + 1..Depth - 1 : k = Depth - 1
    BY <1>4, <1>5
  <2>2. n = 0 \/ stack[n].kind # "find"
    <3>1. CASE below.kind \in Entrance
      <4>1. Depth - 1 = 1 \/ stack[(Depth - 1) - 1].kind = "host"
        BY <3>1, <1>3, <1>5 DEF StackOK, Good
      <4> QED BY <4>1, <3>1, <1>4
    <3>2. CASE below.kind \notin Entrance
      BY <3>2 DEF Entrance
    <3> QED BY <3>1, <3>2
  <2>3. StackOK' /\ Finds(stack') \subseteq Finds(stack)
    BY <2>1, <2>2, <1>2, <1>3, <1>4, <1>5, LeaveGood
  <2>4. below.kind = "find" => Len(stack') = Depth - 2
    BY <1>2, <1>4, <1>5 DEF LeaveTo, Keep, Entrance
  <2> QED BY <2>3, <2>4, <1>4 DEF Finds
<1>7. CASE below.kind = "find"
  <2>1. /\ found' = found \cup {below.fn} /\ pending' = FALSE
        /\ completed' = IF completed < 2 THEN completed + 1 ELSE completed
    BY <1>1, <1>7 DEF Return
  <2>2. below.fn \in compiled
    BY <1>3, <1>5 DEF StackOK, Good
  <2>3. CodeOK'
    BY <2>1, <2>2, <1>2, <1>3 DEF CodeOK, module, code
  <2>4. Depth - 1 \in Finds(stack)
    BY <1>5, <1>7 DEF Finds
  <2>5. completed \in 0..2 /\ completed' \in 0..2 /\ completed' > 0
    BY <2>1, <1>3 DEF StartOK
  <2>6. ~reentered => completed' <= 1 /\ Finds(stack') = {}
    <3>1. ~reentered => completed = 0
      BY <2>4, <2>5, <1>3 DEF StartOK
    <3>2. ~reentered => \A k \in Finds(stack') : k = Depth - 1
      BY <2>4, <1>3, <1>6 DEF StartOK
    <3> QED BY <3>1, <3>2, <2>1, <1>6, <1>7
  <2>7. Start # NoFunc
    BY <2>4, <1>3 DEF StartOK
  <2>8. StartOK'
    BY <2>1, <2>5, <2>6, <2>7, <1>2, <1>3 DEF StartOK
  <2> QED BY <2>3, <2>8, <1>6 DEF IInv
<1>8. CASE below.kind # "find"
  <2>1. UNCHANGED <<found, pending, completed>> /\ reentered' = reentered
    BY <1>1, <1>8 DEF Return
  <2>2. CodeOK'
    BY <2>1, <1>2, <1>3 DEF CodeOK, module, code
  <2>3. StartOK'
    BY <2>1, <1>3, <1>6, StartSame
  <2> QED BY <2>2, <2>3, <1>6 DEF IInv
<1> QED BY <1>7, <1>8

LEMMA NextIInv == IInv /\ [Next]_vars => IInv'
<1>1. SUFFICES ASSUME IInv, [Next]_vars PROVE IInv'
  OBVIOUS
<1>2. CASE UNCHANGED vars
  <2>1. /\ UNCHANGED <<loaded, table, linked, compiled, constants, site, pending, found>>
        /\ UNCHANGED <<stack, base, wild, lazyFailed, completed, reentered>>
    BY <1>2 DEF vars, module, code, history
  <2>2. CodeOK'
    BY <2>1, <1>1 DEF IInv, CodeOK
  <2>3. StackOK'
    BY <2>1, <1>1 DEF IInv, StackOK, Runs, Top, Depth
  <2>4. StartOK'
    BY <2>1, <1>1, StartSame DEF IInv
  <2> QED BY <2>2, <2>3, <2>4 DEF IInv
<1>3. CASE Execute
  BY <1>1, <1>3, LoadIInv, LinkIInv, FindFunctionIInv, RunStartIInv, CallFoundIInv, OpCallIInv,
     OpCompileIInv, OpCallOfFunctionIInv, OpCallIndirectIInv, TrapIInv, ReturnIInv DEF Execute
<1> QED BY <1>1, <1>2, <1>3 DEF Next

------------------------------------------------------------------------------
(* The theorems *)

LEMMA Implied ==
  IInv => TypeOK /\ EntriesHaveCode /\ BaseRestored /\ WildOnlyAfterFailure
<1>1. SUFFICES ASSUME IInv
               PROVE  TypeOK /\ EntriesHaveCode /\ BaseRestored /\ WildOnlyAfterFailure
  OBVIOUS
<1>2. /\ stack \in Seq(Frame) /\ Depth = Len(stack) /\ Depth \in Nat /\ Depth <= MaxDepth
      /\ \A k \in 1..Depth : stack[k].fn \in compiled
      /\ IsBase(stack, Depth, base)
  BY <1>1 DEF IInv, StackOK, Good, Depth
<1>3. base \in 0..MaxDepth
  BY <1>1, BaseType DEF IInv, StackOK
<1>4. TypeOK
  BY <1>1, <1>2, <1>3 DEF TypeOK, IInv, CodeOK, StartOK, SitesOK, Operation
<1>5. EntriesHaveCode
  BY <1>1, <1>2 DEF EntriesHaveCode, IInv, CodeOK
<1>6. BaseRestored
  <2> DEFINE hosts == {k \in 1..Depth : stack[k].kind = "host"}
  <2>1. CASE base = 0 /\ \A k \in 1..Depth : stack[k].kind # "host"
    BY <2>1 DEF BaseRestored
  <2>2. CASE base \in 1..Depth /\ stack[base].kind = "host"
             /\ \A k \in base + 1..Depth : stack[k].kind # "host"
    <3>1. base \in hosts /\ \A j \in hosts : j <= base
      BY <2>2, <1>2
    <3>2. \A k \in hosts : (\A j \in hosts : j <= k) => k = base
      BY <3>1, <1>2
    <3>3. base = CHOOSE k \in hosts : \A j \in hosts : j <= k
      BY <3>1, <3>2
    <3> QED BY <3>1, <3>3 DEF BaseRestored
  <2> QED BY <2>1, <2>2, <1>2 DEF IsBase
<1>7. WildOnlyAfterFailure
  BY <1>1 DEF WildOnlyAfterFailure, IInv, CodeOK
<1> QED BY <1>4, <1>5, <1>6, <1>7

\* The argument: the three parts of the invariant hold together.
THEOREM Invariance == Spec => []IInv
<1>1. Init => IInv
  BY InitIInv
<1>2. IInv /\ [Next]_vars => IInv'
  BY NextIInv
<1> QED BY <1>1, <1>2, PTL DEF Spec

\* The variables have their types; only functions with code have constants, and
\* imports have none.
THEOREM TypeCorrect == Spec => []TypeOK
<1>1. IInv => TypeOK
  BY Implied
<1> QED BY <1>1, Invariance, PTL

\* Nothing without code is entered, or returned by m3_FindFunction.
THEOREM EntriesCompiled == Spec => []EntriesHaveCode
<1>1. IInv => EntriesHaveCode
  BY Implied
<1> QED BY <1>1, Invariance, PTL

\* However calls, traps and imported functions are nested, runtime->stack is put back.
THEOREM StackPutBack == Spec => []BaseRestored
<1>1. IInv => BaseRestored
  BY Implied
<1> QED BY <1>1, Invariance, PTL

\* An M3Function is only taken for code where op_Compile has failed.
THEOREM WildAfterFailure == Spec => []WildOnlyAfterFailure
<1>1. IInv => WildOnlyAfterFailure
  BY Implied
<1> QED BY <1>1, Invariance, PTL

\* The start function comes first, unless it is the function with index 0, which
\* m3_FindFunction takes for none.
THEOREM StartBefore ==
  ASSUME Start # First
  PROVE  Spec => []StartFirst
<1>1. IInv => StartFirst
  BY DEF IInv, StartOK, StartFirst
<1> QED BY <1>1, Invariance, PTL

\* It completes once if no imported function that it calls looks a function up.
THEOREM StartOnlyOnce == Spec => []StartOnce
<1>1. IInv => StartOnce
  BY DEF IInv, StartOK, StartOnce
<1> QED BY <1>1, Invariance, PTL
=============================================================================
