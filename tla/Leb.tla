-------------------------------- MODULE Leb --------------------------------
(***************************************************************************)
(* The readers of m3_core.c: numbers in LEB128, seven bits to a byte with  *)
(* the last of the seven as sign, numbers of a fixed size, and operation   *)
(* codes.  Each gets the bytes from where the caller stands to the end of  *)
(* what may be read, and returns a result, a value and the bytes passed.   *)
(***************************************************************************)
EXTENDS Integers, SequencesExt

CONSTANTS
  Group,    \* bits of a number in one byte: 7
  Word,     \* bits of u64 and i64: 64
  Half,     \* bits of u32 and i32: 32
  MaxBytes  \* bound: how many bytes a string may have

ASSUME LebAssumption ==
  /\ Group \in Nat \ {0} /\ Half \in Nat /\ Word \in Nat
  /\ Group < Half /\ Half < Word
  /\ MaxBytes \in Nat

Bytes == BoundedSeq(0..2^(Group + 1) - 1, MaxBytes)

Continues(byte) == byte >= 2^Group
Payload(byte) == byte % 2^Group
IsNegative(byte) == Payload(byte) >= 2^(Group - 1)

\* Mutant of LastShift: one byte more than the number can have.
LastShiftPast(shift, i_maxNumBits) == shift > i_maxNumBits

LastShift(shift, i_maxNumBits) == shift >= i_maxNumBits

\* ReadLebSigned: the bits from shift on are set if the last byte has its sign set.
SignBits(byte, shift) == IF IsNegative(byte) /\ shift < Word THEN 2^Word - 2^shift ELSE 0

\* One turn of the loop, for a byte before the end; there is none after a result.
Turn(i_maxNumBits, signed, reader, byte) ==
  LET shift == reader.shift + Group
      value == (reader.value + Payload(byte) * 2^reader.shift) % 2^Word
  IN CASE reader.result # "wasmUnderrun" -> reader
       [] reader.result = "wasmUnderrun" /\ ~Continues(byte) ->
            [result |-> "none", shift |-> shift,
             value |-> value + IF signed THEN SignBits(byte, shift) ELSE 0]
       [] reader.result = "wasmUnderrun" /\ Continues(byte) ->
            [result |-> IF LastShift(shift, i_maxNumBits) THEN "lebOverflow" ELSE "wasmUnderrun",
             value |-> value, shift |-> shift]

Read(i_maxNumBits, signed, bytes) ==
  LET reader == FoldLeft(LAMBDA r, byte : Turn(i_maxNumBits, signed, r, byte),
                         [result |-> "wasmUnderrun", value |-> 0, shift |-> 0], bytes)
  IN [result |-> reader.result, value |-> reader.value, passed |-> reader.shift \div Group]

ReadLebUnsigned(i_maxNumBits, bytes) == Read(i_maxNumBits, FALSE, bytes)
ReadLebSigned(i_maxNumBits, bytes) == Read(i_maxNumBits, TRUE, bytes)

Converted(read, n, signed) ==
  LET u == read.value % 2^n
  IN [read EXCEPT !.value = IF signed /\ u >= 2^(n - 1) THEN u - 2^n ELSE u]

ReadLEB_u32(bytes) == Converted(ReadLebUnsigned(Half, bytes), Half, FALSE)
ReadLEB_u7(bytes) == Converted(ReadLebUnsigned(Group, bytes), Group + 1, FALSE)
ReadLEB_i7(bytes) == Converted(ReadLebSigned(Group, bytes), Group + 1, TRUE)
ReadLEB_i32(bytes) == Converted(ReadLebSigned(Half, bytes), Half, TRUE)
ReadLEB_i64(bytes) == Converted(ReadLebSigned(Word, bytes), Word, TRUE)

Underrun == [result |-> "wasmUnderrun", value |-> 0, passed |-> 0]

\* Read_u32, Read_f32, Read_f64 and Read_u8: the first n bytes, the lowest first.
ReadFixed(n, bytes) ==
  IF n > Len(bytes) THEN Underrun
  ELSE [result |-> "none", passed |-> n,
        value |-> FoldRight(LAMBDA byte, v : byte + 2^(Group + 1) * v, SubSeq(bytes, 1, n), 0)]

\* One byte, whatever it is: with d_m3EnableExtendedOpcodes, which m3_config.h defines, the
\* one after 0xFC is left to Compile_ExtendedOpcode, which takes it with Read_u8.
Read_opcode(bytes) ==
  IF bytes = <<>> THEN Underrun
  ELSE [result |-> "none", value |-> Head(bytes), passed |-> 1]

------------------------------------------------------------------------------
(* Properties *)

\* The bytes a number of n bits may have, the first of them that ends it, and how
\* reading has to end.
Most(n) == (n + Group - 1) \div Group
Ends(n, bytes) == {k \in 1..Len(bytes) : k <= Most(n) /\ ~Continues(bytes[k])}
Outcome(n, bytes) ==
  IF Ends(n, bytes) # {} THEN "none"
  ELSE IF Len(bytes) < Most(n) THEN "wasmUnderrun" ELSE "lebOverflow"

\* Bit j of a number in the first k bytes.
BitOf(x, j) == (x \div 2^j) % 2
Digit(bytes, k, signed, j) ==
  IF j < k * Group THEN BitOf(bytes[j \div Group + 1], j % Group)
  ELSE IF signed /\ IsNegative(bytes[k]) THEN 1 ELSE 0

\* A reader for numbers of n bits ends as it has to, and passes no byte beyond the end or
\* beyond those n bits need.
Stops(read, bytes, n) ==
  /\ read.result = Outcome(n, bytes)
  /\ read.passed <= Len(bytes) /\ read.passed <= Most(n)
  /\ Ends(n, bytes) # {} =>
       read.passed \in Ends(n, bytes) /\ \A k \in Ends(n, bytes) : read.passed <= k

\* What it returns, kept in m bits, has the bits of the number, extended by its sign.
Returns(read, bytes, m, signed) ==
  /\ read.result = "none" =>
       \A j \in 0..m - 1 :
         BitOf(read.value % 2^m, j) = Digit(bytes, read.passed, signed, j)
  /\ IF signed THEN -(2^(m - 1)) <= read.value /\ read.value < 2^(m - 1)
     ELSE 0 <= read.value /\ read.value < 2^m

\* Every reader ends where its number, or the bytes, end.
NumbersEnd(bytes) ==
  /\ Stops(ReadLEB_u32(bytes), bytes, Half)
  /\ Stops(ReadLEB_i32(bytes), bytes, Half)
  /\ Stops(ReadLEB_i64(bytes), bytes, Word)
  /\ Stops(ReadLEB_u7(bytes), bytes, Group)
  /\ Stops(ReadLEB_i7(bytes), bytes, Group)
  /\ \A n \in 1..MaxBytes : ReadFixed(n, bytes).passed <= Len(bytes)
  /\ Read_opcode(bytes).passed <= Len(bytes)

\* Every number of a module is read for what it is: bits beyond its width are dropped,
\* a number that does not end in time is refused, and nothing behind the last byte is
\* looked at (m3_core.c:342).
LebRight ==
  \A bytes \in Bytes :
    /\ NumbersEnd(bytes)
    /\ Returns(ReadLEB_u32(bytes), bytes, Half, FALSE)
    /\ Returns(ReadLEB_i32(bytes), bytes, Half, TRUE)
    /\ Returns(ReadLEB_i64(bytes), bytes, Word, TRUE)
    /\ Returns(ReadLEB_u7(bytes), bytes, Group + 1, FALSE)
    /\ Returns(ReadLEB_i7(bytes), bytes, Group + 1, TRUE)
=============================================================================
