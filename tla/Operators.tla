----------------------------- MODULE Operators -----------------------------
(***************************************************************************)
(* The integer operators of WebAssembly as m3_exec.h has them: a template  *)
(* for each place the operands may be in, a C expression over C types, and *)
(* a result that is converted to the 64-bit register _r0.  An i32 has half *)
(* of the register; what the other half holds after an operator differs,   *)
(* and after a signed sum or product that overflows, which C leaves        *)
(* undefined, it may be anything: compilers use instructions of which only *)
(* the low half is the sum.  So every operator has to cut its operands to  *)
(* their type first.  Beside them, the conversions of floats to integers.  *)
(*                                                                         *)
(* Values are natural numbers, what a word says as an unsigned one.        *)
(***************************************************************************)
EXTENDS Integers, FiniteSets

CONSTANTS
  Byte,   \* bits of an i8: 8
  Width,  \* bits of an i32: 32
  Single, \* bits of the fraction of an f32, its first one included: 24
  Double  \* bits of the fraction of an f64: 53

ASSUME OperatorsAssumption ==
  /\ Byte \in Nat \ {0} /\ 2 * Byte < Width
  /\ 1 < Single /\ Single < Width /\ Width < Double /\ Double < 2 * Width

Long == 2 * Width
Register == 0..2^Long - 1
Trapped == -1

\* A C integer type, and the value of a word cut to it.
Type(n, signed) == [bits |-> n, signed |-> signed]
Cast(t, x) ==
  LET u == x % 2^t.bits
  IN IF t.signed /\ u >= 2^(t.bits - 1) THEN u - 2^t.bits ELSE u
IsIn(t, x) == Cast(t, x) = x

\* What the register may hold after a value was assigned to it; x is of type t if the
\* expression that computes it does not overflow.
Assigned(t, x) ==
  IF t.signed /\ ~IsIn(t, x) THEN {r \in Register : (r - x) % 2^t.bits = 0}
  ELSE {Cast(t, x) % 2^Long}
Truth(c) == {IF c THEN 1 ELSE 0}

------------------------------------------------------------------------------
(* The operators of m3_exec.h and m3_math_utils.h *)

\* C divides towards zero.
Quotient(a, b) ==
  LET q == (IF a < 0 THEN -a ELSE a) \div (IF b < 0 THEN -b ELSE b)
  IN IF (a < 0) = (b < 0) THEN q ELSE -q

TypeMin(t) == -(2^(t.bits - 1))

\* Mutant of Divide: the quotient that does not fit is not refused.
DivideUnguarded(t, a, b) ==
  IF b = 0 THEN {Trapped} ELSE Assigned(t, Quotient(a, b))

\* OP_DIV_U, OP_DIV_S
Divide(t, a, b) ==
  IF b = 0 \/ (t.signed /\ b = -1 /\ a = TypeMin(t)) THEN {Trapped}
  ELSE Assigned(t, Quotient(a, b))

\* OP_REM_U, OP_REM_S
Remainder(t, a, b) ==
  IF b = 0 THEN {Trapped}
  ELSE IF t.signed /\ b = -1 /\ a = TypeMin(t) THEN {0}
  ELSE Assigned(t, a - b * Quotient(a, b))

\* rotl32, rotr32, rotl64 and rotr64 rotate by c modulo the width; for 0 both parts of
\* the or are n.
Rotl(t, n, c) ==
  LET k == c % t.bits
  IN IF k = 0 THEN {n} ELSE {((n * 2^k) % 2^t.bits) + (n \div 2^((-k) % t.bits))}
Rotr(t, n, c) ==
  LET k == c % t.bits
  IN IF k = 0 THEN {n} ELSE {(n \div 2^k) + ((n * 2^((-k) % t.bits)) % 2^t.bits)}

\* OP_SHL_32, OP_SHR_32, OP_SHL_64 and OP_SHR_64 take the count as an unsigned number.
Count(t, b) == Cast(Type(t.bits, FALSE), b) % t.bits

Binary(op, t, a, b) ==
  CASE op = "Equal" -> Truth(a = b)
    [] op = "NotEqual" -> Truth(a # b)
    [] op = "LessThan" -> Truth(a < b)
    [] op = "GreaterThan" -> Truth(a > b)
    [] op = "LessThanOrEqual" -> Truth(a <= b)
    [] op = "GreaterThanOrEqual" -> Truth(a >= b)
    [] op = "Add" -> Assigned(t, a + b)
    [] op = "Multiply" -> Assigned(t, a * b)
    [] op = "Subtract" -> Assigned(t, a - b)
    [] op = "ShiftLeft" -> Assigned(t, a * 2^Count(t, b))
    [] op = "ShiftRight" -> Assigned(t, a \div 2^Count(t, b))
    [] op = "Rotl" -> Rotl(t, a, b)
    [] op = "Rotr" -> Rotr(t, a, b)
    [] op = "Divide" -> Divide(t, a, b)
    [] op = "Remainder" -> Remainder(t, a, b)

\* __builtin_clz and __builtin_ctz, not defined for 0
BuiltinClz(n, x) == CHOOSE k \in 0..n - 1 : 2^(n - 1 - k) <= x /\ x < 2^(n - k)
BuiltinCtz(n, x) == CHOOSE k \in 0..n - 1 : x % 2^k = 0 /\ x % 2^(k + 1) # 0

\* Those of 64 bits set a bit that counts for one when there is no other.
Clz(n, x) ==
  IF n = Width THEN IF x = 0 THEN n ELSE BuiltinClz(n, x)
  ELSE BuiltinClz(n, x + 1 - (x % 2)) + (IF x = 0 THEN 1 ELSE 0)
Ctz(n, x) ==
  IF n = Width THEN IF x = 0 THEN n ELSE BuiltinCtz(n, x)
  ELSE BuiltinCtz(n, IF x < 2^(n - 1) THEN x + 2^(n - 1) ELSE x) + (IF x = 0 THEN 1 ELSE 0)

Bit(x, i) == (x \div 2^i) % 2
Popcnt(n, x) == Cardinality({i \in 0..n - 1 : Bit(x, i) = 1})

\* x is the operand, of n bits, in the register or a slot, not yet cut to its type.
Unary(op, n, x) ==
  LET u == Cast(Type(n, FALSE), x)
      extended(bits) == Cast(Type(bits, TRUE), x) % 2^Long
  IN CASE op = "eqz" -> IF u = 0 THEN 1 ELSE 0
       [] op = "clz" -> Clz(n, u)
       [] op = "ctz" -> Ctz(n, u)
       [] op = "popcnt" -> Popcnt(n, u)
       [] op = "extend8_s" -> extended(Byte)
       [] op = "extend16_s" -> extended(2 * Byte)
       [] op = "extend32_s" -> extended(Width)
       [] op = "extend_i32_s" -> Cast(Type(Width, TRUE), x) % 2^Long
       [] op = "extend_i32_u" -> Cast(Type(Width, FALSE), x) % 2^Long
       [] op = "wrap_i64" -> x % 2^Width

\* op_If, op_BranchIf, op_ContinueLoopIf and op_Select take an i32 as condition.
Condition(x) == Cast(Type(Width, TRUE), x) # 0

------------------------------------------------------------------------------
(* The table of operations, and what Compile_Operator takes from it *)

Entry(signed, op, commutative) == [signed |-> signed, op |-> op, commutative |-> commutative]

c_operations ==
  [eq |-> Entry(TRUE, "Equal", TRUE), ne |-> Entry(TRUE, "NotEqual", TRUE),
   lt_s |-> Entry(TRUE, "LessThan", FALSE), lt_u |-> Entry(FALSE, "LessThan", FALSE),
   gt_s |-> Entry(TRUE, "GreaterThan", FALSE), gt_u |-> Entry(FALSE, "GreaterThan", FALSE),
   le_s |-> Entry(TRUE, "LessThanOrEqual", FALSE),
   le_u |-> Entry(FALSE, "LessThanOrEqual", FALSE),
   ge_s |-> Entry(TRUE, "GreaterThanOrEqual", FALSE),
   ge_u |-> Entry(FALSE, "GreaterThanOrEqual", FALSE),
   add |-> Entry(TRUE, "Add", TRUE), sub |-> Entry(TRUE, "Subtract", FALSE),
   mul |-> Entry(TRUE, "Multiply", TRUE),
   div_s |-> Entry(TRUE, "Divide", FALSE), div_u |-> Entry(FALSE, "Divide", FALSE),
   rem_s |-> Entry(TRUE, "Remainder", FALSE), rem_u |-> Entry(FALSE, "Remainder", FALSE),
   shl |-> Entry(FALSE, "ShiftLeft", FALSE), shr_s |-> Entry(TRUE, "ShiftRight", FALSE),
   shr_u |-> Entry(FALSE, "ShiftRight", FALSE), rotl |-> Entry(FALSE, "Rotl", FALSE),
   rotr |-> Entry(FALSE, "Rotr", FALSE)]
Unaries == {"eqz", "clz", "ctz", "popcnt", "extend8_s", "extend16_s"}

\* Where the operands are: b is the top of the stack, a is below it.
Place == {"b in register", "a in register", "slots"}

\* op_*_rs, op_*_sr and op_*_ss: the operands in the order of the C expression.  The
\* slots are read in the order in which the compiler pops them.
Operands(entry, place, a, b) ==
  IF place = "a in register" /\ entry.commutative THEN <<b, a>> ELSE <<a, b>>

\* Of a and b the one in the register has the rest of the register above it.
InRegister(n, x, rest) == IF n = Long THEN x ELSE x + 2^n * rest

\* The results of an instruction on operands of n bits.
Evaluate(i, n, place, rest, a, b) ==
  LET entry == c_operations[i]
      t == Type(n, entry.signed)
      held(x, p) == IF place = p THEN InRegister(n, x, rest) ELSE x
      o == Operands(entry, place, held(a, "a in register"), held(b, "b in register"))
  IN Binary(entry.op, t, Cast(t, o[1]), Cast(t, o[2]))

------------------------------------------------------------------------------
(* Floats to integers; a float is a number of quarters, or NaN *)

NaN == 2^(Long + 8)
Large == 2^(Long + 4)

\* The floats with p bits of fraction from a quarter to far above every integer; Large
\* stands for infinity.
Floats(p) ==
  LET sizes == {m * 2^e : m \in 0..2^p - 1, e \in 0..Long + 3 - p} \cup {Large}
  IN sizes \cup {-s : s \in sizes}

\* RMIN and RMAX, in quarters: RMIN is the largest float below the smallest integer, or
\* one less than it where that is a float as well.
RMin(t, p) ==
  IF ~t.signed THEN -4
  ELSE 4 * TypeMin(t) - (IF p > t.bits THEN 4 ELSE 4 * 2^(t.bits - p))
RMax(t) == IF t.signed THEN 4 * 2^(t.bits - 1) ELSE 4 * 2^t.bits
IMin(t) == IF t.signed THEN TypeMin(t) ELSE 0
IMax(t) == IF t.signed THEN 2^(t.bits - 1) - 1 ELSE 2^t.bits - 1

Truncated(x) == Quotient(x, 4)

\* OP_TRUNC
Trunc(t, p, x) ==
  IF x = NaN \/ x <= RMin(t, p) \/ x >= RMax(t) THEN {Trapped} ELSE Assigned(t, Truncated(x))

\* OP_TRUNC_SAT
TruncSat(t, p, x) ==
  IF x = NaN THEN {0}
  ELSE IF x <= RMin(t, p) THEN Assigned(t, IMin(t))
  ELSE IF x >= RMax(t) THEN Assigned(t, IMax(t))
  ELSE Assigned(t, Truncated(x))

------------------------------------------------------------------------------
(* The same by their definition in WebAssembly, on words of n bits *)

Signed(n, x) == IF Bit(x, n - 1) = 1 THEN x - 2^n ELSE x
Boolean(c) == IF c THEN 1 ELSE 0

\* The one r of n bits with a = q * b + r, where r has the sign of a.
Rest(a, b) ==
  CHOOSE r \in -(2^Long)..2^Long :
    /\ (a - r) % (IF b < 0 THEN -b ELSE b) = 0
    /\ r * r < b * b /\ (r = 0 \/ (r < 0) = (a < 0))

FromBits(n, bit(_)) ==
  LET value[k \in 0..n] == IF k = 0 THEN 0 ELSE value[k - 1] + 2^(k - 1) * bit(k - 1)
  IN value[n]

Wasm(i, n, a, b) ==
  LET sa == Signed(n, a)  sb == Signed(n, b)
  IN CASE i = "eq" -> Boolean(a = b) [] i = "ne" -> Boolean(a # b)
       [] i = "lt_s" -> Boolean(sa < sb) [] i = "lt_u" -> Boolean(a < b)
       [] i = "gt_s" -> Boolean(sa > sb) [] i = "gt_u" -> Boolean(a > b)
       [] i = "le_s" -> Boolean(sa <= sb) [] i = "le_u" -> Boolean(a <= b)
       [] i = "ge_s" -> Boolean(sa >= sb) [] i = "ge_u" -> Boolean(a >= b)
       [] i = "add" -> (a + b) % 2^n [] i = "sub" -> (a - b) % 2^n
       [] i = "mul" -> (a * b) % 2^n
       [] i \in {"div_s", "div_u", "rem_s", "rem_u"} /\ b = 0 -> Trapped
       [] i = "div_s" /\ b # 0 ->
            LET q == (sa - Rest(sa, sb)) \div sb
            IN IF q = 2^(n - 1) THEN Trapped ELSE q % 2^n
       [] i = "div_u" /\ b # 0 -> (a - Rest(a, b)) \div b
       [] i = "rem_s" /\ b # 0 -> Rest(sa, sb) % 2^n
       [] i = "rem_u" /\ b # 0 -> Rest(a, b)
       [] i = "shl" -> FromBits(n, LAMBDA k : IF k < b % n THEN 0 ELSE Bit(a, k - (b % n)))
       [] i = "shr_u" -> FromBits(n, LAMBDA k : IF k + (b % n) >= n THEN 0 ELSE Bit(a, k + (b % n)))
       [] i = "shr_s" -> FromBits(n, LAMBDA k : Bit(a, IF k + (b % n) >= n THEN n - 1
                                                         ELSE k + (b % n)))
       [] i = "rotl" -> FromBits(n, LAMBDA k : Bit(a, (k - b) % n))
       [] i = "rotr" -> FromBits(n, LAMBDA k : Bit(a, (k + b) % n))

Leading(n, x, bit) == Cardinality({i \in 0..n - 1 : \A j \in i..n - 1 : Bit(x, j) = bit})
Extended(from, n, x) == FromBits(n, LAMBDA k : Bit(x, IF k < from THEN k ELSE from - 1))

WasmUnary(i, n, x) ==
  CASE i = "eqz" -> Boolean(x = 0)
    [] i = "clz" -> Leading(n, x, 0)
    [] i = "ctz" -> Cardinality({k \in 0..n - 1 : \A j \in 0..k : Bit(x, j) = 0})
    [] i = "popcnt" -> Cardinality({j \in 0..n - 1 : Bit(x, j) = 1})
    [] i = "extend8_s" -> Extended(Byte, n, x)
    [] i = "extend16_s" -> Extended(2 * Byte, n, x)

------------------------------------------------------------------------------
(* Properties *)

\* Whatever is in the upper half of the register and wherever the operands are, the low
\* half, or all of it for an i64, is the result WebAssembly asks for, and a trap is one
\* (m3_exec.h:117, m3_math_utils.h:156).
BinaryRight ==
  \A n \in {Width, Long}, i \in DOMAIN c_operations, place \in Place :
    \A a, b \in 0..2^n - 1 :
      \A rest \in IF n = Long \/ place = "slots" THEN {0} ELSE {0, 1, 2^Width - 1} :
        \A r \in Evaluate(i, n, place, rest, a, b) :
          LET w == Wasm(i, n, a, b)
          IN IF w = Trapped THEN r = Trapped
             ELSE r # Trapped /\ r % 2^n = w /\ (w \in {0, 1} /\ n = Width => Condition(r) = (w = 1))

UnaryRight ==
  /\ \A n \in {Width, Long}, i \in Unaries, x \in Register :
       LET u == x % 2^n
       IN Unary(i, n, x) % 2^n = WasmUnary(i, n, u)
  /\ \A x \in Register :
       LET u == x % 2^Width
       IN /\ Unary("extend_i32_s", Width, x) = Extended(Width, Long, u)
          /\ Unary("extend_i32_u", Width, x) = u
          /\ Unary("wrap_i64", Long, x) = u
          /\ Unary("extend32_s", Long, x) = Extended(Width, Long, u)

\* A float is converted if and only if what is before its point fits; the limits are
\* compared as floats of the same size, which do not have every integer.
TruncRight ==
  \A n \in {Width, Long}, signed \in BOOLEAN, p \in {Single, Double} :
    LET t == Type(n, signed)
    IN /\ Trunc(t, p, NaN) = {Trapped} /\ TruncSat(t, p, NaN) = {0}
       /\ \A x \in Floats(p) :
            LET whole == Truncated(x)
                fits == IMin(t) <= whole /\ whole <= IMax(t)
            IN /\ Trunc(t, p, x) = IF fits THEN {whole % 2^Long} ELSE {Trapped}
               /\ TruncSat(t, p, x) =
                    IF fits THEN {whole % 2^Long}
                    ELSE {(IF x < 0 THEN IMin(t) ELSE IMax(t)) % 2^Long}

\* The operators are those of WebAssembly, for every operand.
OperatorsRight == BinaryRight /\ UnaryRight /\ TruncRight
=============================================================================
