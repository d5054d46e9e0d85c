----------------------------- MODULE FuncTypes -----------------------------
(***************************************************************************)
(* Function types of an environment.  call_indirect compares the type that *)
(* it expects with the type of the function by comparing two pointers, so  *)
(* every M3FuncType that a module of the environment uses must be the only *)
(* one of its structure.  Environment_AddFuncType takes care of this: the  *)
(* type section of a module is parsed into structures of its own, which    *)
(* are replaced by those that other modules, or the same, have made.       *)
(***************************************************************************)
EXTENDS Integers, Sequences, FiniteSets

CONSTANTS
  Structure,  \* argument and result types; what AreFuncTypesEqual compares
  Simple,     \* the types without arguments and with one result or none, in a sequence
  Address,    \* where an M3FuncType may be
  Module,     \* modules of the environment
  Unused,     \* of an address: nothing is allocated there
  NoAddress,
  MaxTypes    \* bound: types of a module

ASSUME FuncTypesAssumption ==
  /\ Unused \notin Structure /\ NoAddress \notin Address
  /\ Simple \in Seq(Structure)
  /\ \A j, k \in 1..Len(Simple) : Simple[j] = Simple[k] => j = k
  /\ MaxTypes \in Nat

VARIABLES
  heap,         \* the structure at an address
  made,         \* there is an environment
  retFuncTypes, \* its types for simple blocks
  funcTypes,    \* its list, the front first
  ftype,        \* the type that ParseSection_Type has allocated and not yet handed over
  types,        \* module->funcTypes
  parsing       \* the modules whose type section is parsed, at most one

environment == <<made, retFuncTypes>>
vars == <<heap, environment, funcTypes, ftype, types, parsing>>

Listed == {funcTypes[k] : k \in 1..Len(funcTypes)}

------------------------------------------------------------------------------
(* m3_NewEnvironment; one that fails frees what it has allocated *)

NewEnvironment ==
  /\ ~made
  /\ \E at \in [1..Len(Simple) -> Address] :
       /\ \A k \in 1..Len(Simple) : heap[at[k]] = Unused
       /\ \A j, k \in 1..Len(Simple) : at[j] = at[k] => j = k
       /\ heap' = [a \in Address |->
                     IF \E k \in 1..Len(Simple) : at[k] = a
                     THEN Simple[CHOOSE k \in 1..Len(Simple) : at[k] = a] ELSE heap[a]]
       /\ retFuncTypes' = at
       /\ funcTypes' = [k \in 1..Len(Simple) |-> at[Len(Simple) + 1 - k]]
  /\ made' = TRUE
  /\ UNCHANGED <<ftype, types, parsing>>

------------------------------------------------------------------------------
(* ParseSection_Type *)

BeginTypes(m) ==
  /\ made /\ parsing = {} /\ types[m] = <<>>
  /\ parsing' = {m}
  /\ UNCHANGED <<heap, environment, funcTypes, ftype, types>>

\* AllocFuncType, and the types are read into it.
AllocFuncType(m, s) ==
  /\ m \in parsing /\ ftype = NoAddress /\ Len(types[m]) < MaxTypes
  /\ \E a \in Address :
       /\ heap[a] = Unused
       /\ heap' = [heap EXCEPT ![a] = s] /\ ftype' = a
  /\ UNCHANGED <<environment, funcTypes, types, parsing>>

\* Mutant of AddFuncType: only the front of the list is compared.
AddFrontOnly(m) ==
  LET equal == {k \in 1..Len(funcTypes) : k = 1 /\ heap[funcTypes[k]] = heap[ftype]}
  IN /\ m \in parsing /\ ftype # NoAddress
     /\ \/ /\ equal = {}
           /\ funcTypes' = <<ftype>> \o funcTypes
           /\ types' = [types EXCEPT ![m] = Append(@, ftype)]
           /\ UNCHANGED heap
        \/ \E k \in equal :
           /\ types' = [types EXCEPT ![m] = Append(@, funcTypes[k])]
           /\ heap' = [heap EXCEPT ![ftype] = Unused]
           /\ UNCHANGED funcTypes
     /\ ftype' = NoAddress
     /\ UNCHANGED <<environment, parsing>>

\* Mutant of AddFuncType: the new type replaces an equal one, which is freed.
AddReplaces(m) ==
  LET equal == {k \in 1..Len(funcTypes) : heap[funcTypes[k]] = heap[ftype]}
  IN /\ m \in parsing /\ ftype # NoAddress
     /\ types' = [types EXCEPT ![m] = Append(@, ftype)]
     /\ \/ equal = {} /\ funcTypes' = <<ftype>> \o funcTypes /\ UNCHANGED heap
        \/ \E k \in equal :
           /\ funcTypes' = [funcTypes EXCEPT ![k] = ftype]
           /\ heap' = [heap EXCEPT ![funcTypes[k]] = Unused]
     /\ ftype' = NoAddress
     /\ UNCHANGED <<environment, parsing>>

\* Environment_AddFuncType: the new type is freed if the list has an equal one.
AddFuncType(m) ==
  LET equal == {k \in 1..Len(funcTypes) : heap[funcTypes[k]] = heap[ftype]}
  IN /\ m \in parsing /\ ftype # NoAddress
     /\ \/ /\ equal = {}
           /\ funcTypes' = <<ftype>> \o funcTypes
           /\ types' = [types EXCEPT ![m] = Append(@, ftype)]
           /\ UNCHANGED heap
        \/ \E k \in equal :
           /\ \A j \in equal : k <= j
           /\ types' = [types EXCEPT ![m] = Append(@, funcTypes[k])]
           /\ heap' = [heap EXCEPT ![ftype] = Unused]
           /\ UNCHANGED funcTypes
     /\ ftype' = NoAddress
     /\ UNCHANGED <<environment, parsing>>

\* Mutant of EndTypes: the section ends while its last type has not been handed over.
EndTypesEarly(m) ==
  /\ m \in parsing
  /\ parsing' = {}
  /\ UNCHANGED <<heap, environment, funcTypes, ftype, types>>

EndTypes(m) ==
  /\ m \in parsing /\ ftype = NoAddress
  /\ parsing' = {}
  /\ UNCHANGED <<heap, environment, funcTypes, ftype, types>>

\* Mutant of TypesFail: the catch does not free the type that is being read.
TypesFailLeak(m) ==
  /\ m \in parsing
  /\ ftype' = NoAddress
  /\ types' = [types EXCEPT ![m] = <<>>] /\ parsing' = {}
  /\ UNCHANGED <<heap, environment, funcTypes>>

\* Something is malformed, or allocation fails, also after the first types.
TypesFail(m) ==
  /\ m \in parsing
  /\ heap' = [a \in Address |-> IF a = ftype THEN Unused ELSE heap[a]]
  /\ ftype' = NoAddress
  /\ types' = [types EXCEPT ![m] = <<>>] /\ parsing' = {}
  /\ UNCHANGED <<environment, funcTypes>>

------------------------------------------------------------------------------
(* m3_FreeModule and m3_FreeEnvironment *)

\* The types stay in the environment.
FreeModule(m) ==
  /\ m \notin parsing /\ types[m] # <<>>
  /\ types' = [types EXCEPT ![m] = <<>>]
  /\ UNCHANGED <<heap, environment, funcTypes, ftype, parsing>>

\* After its modules; another environment may then be made.
FreeEnvironment ==
  /\ made /\ parsing = {} /\ \A m \in Module : types[m] = <<>>
  /\ heap' = [a \in Address |-> IF a \in Listed THEN Unused ELSE heap[a]]
  /\ made' = FALSE /\ retFuncTypes' = <<>> /\ funcTypes' = <<>>
  /\ UNCHANGED <<ftype, types, parsing>>

------------------------------------------------------------------------------
Init ==
  /\ heap = [a \in Address |-> Unused]
  /\ made = FALSE /\ retFuncTypes = <<>>
  /\ funcTypes = <<>> /\ ftype = NoAddress
  /\ types = [m \in Module |-> <<>>]
  /\ parsing = {}

Next ==
  \/ NewEnvironment \/ FreeEnvironment
  \/ \E m \in Module :
       \/ BeginTypes(m) \/ AddFuncType(m) \/ EndTypes(m) \/ TypesFail(m) \/ FreeModule(m)
       \/ \E s \in Structure : AllocFuncType(m, s)

Spec == Init /\ [][Next]_vars

------------------------------------------------------------------------------
(* Properties *)

\* The types of the variables; a type is only being read while a section is parsed.
TypeOK ==
  /\ heap \in [Address -> Structure \cup {Unused}]
  /\ made \in BOOLEAN /\ retFuncTypes \in Seq(Address) /\ funcTypes \in Seq(Address)
  /\ ftype \in Address \cup {NoAddress}
  /\ types \in [Module -> Seq(Address)]
  /\ parsing \subseteq Module
  /\ ftype # NoAddress => parsing # {}

\* The types that modules and their blocks use.
Used ==
  {retFuncTypes[k] : k \in 1..Len(retFuncTypes)} \cup
  UNION {{types[m][k] : k \in 1..Len(types[m])} : m \in Module}

\* "unique M3FuncType structs that can be compared using pointer-equivalence"
\* (m3_env.h:136): two types that modules of the environment use, in whichever order
\* the modules came and failed, are the same pointer if and only if they are equal.
PointerEquivalence ==
  \A a, b \in Used : heap[a] = heap[b] => a = b

\* No module has a type that was freed: a duplicate, or one that a module that is gone
\* or failed had made first (m3_env.c:94).
NoDangling == \A a \in Used : heap[a] # Unused

\* Every M3FuncType is on the list of the environment, which frees it in the end, or
\* is the one being read (m3_parse.c:106).
NoLeak == \A a \in Address : heap[a] # Unused => a \in Listed \/ a = ftype

\* Both together: no type is freed too early, and none is never freed.
TypesKept == NoDangling /\ NoLeak

\* To a module its types are those of its type section, in their order and unchanged
\* whatever other modules do, and the pointers that op_CallIndirect compares
\* (m3_exec.h:569) are equal exactly when the types are.
Uses == UNION {{m} \X (1..Len(types[m])) : m \in Module}
TypeAt(u) == types[u[1]][u[2]]
Table == INSTANCE TypeTable WITH
  types <- [m \in Module |-> [k \in 1..Len(types[m]) |-> heap[types[m][k]]]],
  open <- parsing,
  matches <- {p \in Uses \X Uses : TypeAt(p[1]) = TypeAt(p[2])}
ImplementsTable == Table!Spec
=============================================================================
