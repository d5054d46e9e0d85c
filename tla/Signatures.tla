----------------------------- MODULE Signatures -----------------------------
(***************************************************************************)
(* The signature with which a Swift block is registered for an import, and *)
(* what m3_bind.c makes of it.  The block was given to addImportHandler    *)
(* with the types of its arguments and its result; from them the package   *)
(* writes a string, wasm3 reads it back into a function type, compares it  *)
(* with the one the module declares, and only if they are equal the block  *)
(* is linked.  A call then hands it a stack with places for the results    *)
(* before the arguments.                                                   *)
(***************************************************************************)
EXTENDS Integers, SequencesExt

CONSTANTS
  MaxArgs,      \* bound: arguments of a block, eight in the package
  MaxSaneTypes, \* d_m3MaxSaneFunctionArgRetCount
  SignatureChar, \* the characters of the strings that are read
  MaxLength     \* bound: characters of a string

ASSUME SignaturesAssumption ==
  /\ MaxArgs \in Nat /\ MaxLength \in Nat
  /\ MaxSaneTypes \in Nat \ {0} /\ 2 * MaxArgs <= MaxSaneTypes

ValueType == {"i32", "i64", "f32", "f64"}

------------------------------------------------------------------------------
(* m3_bind.c *)

ConvertTypeCharToTypeId(i_code) ==
  CASE i_code = "v" -> "none"
    [] i_code \in {"i", "*"} -> "i32"
    [] i_code = "I" -> "i64"
    [] i_code = "f" -> "f32"
    [] i_code = "F" -> "f64"
    [] i_code \notin {"v", "i", "*", "I", "f", "F"} -> "unknown"

FuncType(numRets, list) == [result |-> "none", numRets |-> numRets, types |-> list]
Refused(result) == [result |-> result, numRets |-> 0, types |-> <<>>]

\* Mutant of Full: the places for results and for arguments are counted each on its own.
FullEach(reader) ==
  (IF reader.parsingRets THEN reader.numRets ELSE Len(reader.types) - reader.numRets)
    >= reader.maxNumTypes

Full(reader) ==
  (IF reader.parsingRets THEN reader.numRets ELSE Len(reader.types)) >= reader.maxNumTypes

AddType(reader, type) ==
  [reader EXCEPT !.types = Append(@, type), !.numRets = IF reader.parsingRets THEN @ + 1 ELSE @]

\* One turn of the loop; after an error or a closing bracket there is none.
ReadChar(reader, typeChar) ==
  LET type == ConvertTypeCharToTypeId(typeChar)
  IN CASE reader.at = "end" \/ typeChar = " " -> reader
       [] reader.at # "end" /\ typeChar = "(" -> [reader EXCEPT !.parsingRets = FALSE]
       [] reader.at # "end" /\ typeChar = ")" -> [reader EXCEPT !.at = "end"]
       [] reader.at # "end" /\ typeChar \notin {" ", "(", ")"} ->
            CASE type = "none" -> reader
              [] type = "unknown" ->
                   [reader EXCEPT !.at = "end", !.result = "unknown argument type char"]
              [] type \in ValueType /\ Full(reader) ->
                   [reader EXCEPT !.at = "end", !.result = "count overflow"]
              [] type \in ValueType /\ ~Full(reader) -> AddType(reader, type)

\* All that is written behind the allocated type, the error included.
ReadSignature(i_signature) ==
  FoldLeft(ReadChar,
           [at |-> "types", parsingRets |-> TRUE, result |-> "none", numRets |-> 0, types |-> <<>>,
            maxNumTypes |-> Len(i_signature) - 2], i_signature)

SignatureToFuncType(i_signature) ==
  LET reader == ReadSignature(i_signature)
  IN CASE Len(i_signature) < 2 -> Refused("malformedFunctionSignature")
       [] Len(i_signature) - 2 > MaxSaneTypes -> Refused("tooManyArgsRets")
       [] Len(i_signature) - 2 \in 0..MaxSaneTypes ->
            IF reader.result = "none" THEN FuncType(reader.numRets, reader.types)
            ELSE Refused(reader.result)

AreFuncTypesEqual(a, b) ==
  /\ a.numRets = b.numRets /\ Len(a.types) - a.numRets = Len(b.types) - b.numRets
  /\ \A k \in 1..Len(a.types) : a.types[k] = b.types[k]

ValidateSignature(funcType, i_linkingSignature) ==
  LET linking == SignatureToFuncType(i_linkingSignature)
  IN linking.result = "none" /\ AreFuncTypesEqual(linking, funcType)

------------------------------------------------------------------------------
(* The Swift package; rets has one type or none *)

identifier(type) ==
  CASE type = "i32" -> "i" [] type = "i64" -> "I" [] type = "f32" -> "f" [] type = "f64" -> "F"

signature(args, rets) ==
  (IF rets = <<>> THEN <<"v">> ELSE <<identifier(rets[1])>>)
    \o <<"(">>
    \o [k \in 1..(IF args = <<>> THEN 0 ELSE 2 * Len(args) - 1) |->
          IF k % 2 = 1 THEN identifier(args[(k + 1) \div 2]) ELSE " "]
    \o <<")">>

\* The place from which addImportHandler takes the k-th argument.
ArgumentPlace(k, rets) == IF rets = <<>> THEN k - 1 ELSE k

------------------------------------------------------------------------------
(* Where wasm3 puts it *)

StackPointerForArgs(funcType) == funcType.numRets
StackPlace(k, funcType) == StackPointerForArgs(funcType) + k - 1

------------------------------------------------------------------------------
(* Properties *)

Results == {<<>>} \cup {<<t>> : t \in ValueType}
Arguments == BoundedSeq(ValueType, MaxArgs)

\* A block is linked to a declared function if and only if it has its arguments and its
\* result, and it takes every argument from where wasm3 puts it
\* (Interpreter.ImportHandler.swift:7, m3_bind.c:102).
BlocksLinked ==
  \A args \in Arguments, rets \in Results :
    LET funcType == FuncType(Len(rets), rets \o args)
    IN /\ \A others \in Arguments, other \in Results :
            ValidateSignature(FuncType(Len(other), other \o others), signature(args, rets))
              <=> others = args /\ other = rets
       /\ \A k \in 1..Len(args) : ArgumentPlace(k, rets) = StackPlace(k, funcType)

\* What a string says: the letters before the first closing bracket, the results before
\* the first opening one.
Letters(s) ==
  LET closing == {k \in 1..Len(s) : s[k] = ")"}
  IN {k \in 1..Len(s) : s[k] \notin {"v", " ", "("} /\ \A c \in closing : k < c}
ResultLetters(s) == {k \in Letters(s) : \A j \in 1..k : s[j] # "("}
TypesOf(s, letters) ==
  LET nth(n) == CHOOSE k \in letters : Cardinality({j \in letters : j <= k}) = n
  IN [n \in 1..Cardinality(letters) |-> ConvertTypeCharToTypeId(s[nth(n)])]
WellFormed(s) ==
  /\ Len(s) >= 2 /\ Len(s) - 2 <= MaxSaneTypes
  /\ \A k \in Letters(s) : ConvertTypeCharToTypeId(s[k]) # "unknown"
  /\ Cardinality(Letters(s)) <= Len(s) - 2

\* Any string at all is read as what it says or refused, and no more types are written
\* than the two characters less for which there is memory (m3_bind.c:52).
StringsRead ==
  \A s \in BoundedSeq(SignatureChar, MaxLength) :
    /\ Len(s) >= 2 => Len(ReadSignature(s).types) <= Len(s) - 2
    /\ LET read == SignatureToFuncType(s)
       IN IF WellFormed(s)
          THEN read = FuncType(Cardinality(ResultLetters(s)), TypesOf(s, Letters(s)))
          ELSE read.result # "none"

\* Both ends of a signature agree.
SignaturesAgree == BlocksLinked /\ StringsRead
=============================================================================
