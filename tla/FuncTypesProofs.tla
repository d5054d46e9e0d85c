-------------------------- MODULE FuncTypesProofs --------------------------
(***************************************************************************)
(* Proofs about FuncTypes, for every set of addresses, structures and      *)
(* modules: equal types in use are the same pointer, none was freed and    *)
(* none is lost.  The argument is about the list of the environment: its   *)
(* types differ, they are allocated, and it has all that modules use.  To  *)
(* modules, pointers on such a list are the types of TypeTable.            *)
(*                                                                         *)
(* The second half is about Signatures: both ends of a signature agree,    *)
(* for blocks with any number of arguments and strings of any length and   *)
(* characters.                                                             *)
(***************************************************************************)
EXTENDS MCFuncTypes, SequenceTheorems, FiniteSetTheorems, TLAPS

ListDiffers ==
  \A j, k \in 1..Len(funcTypes) : heap[funcTypes[j]] = heap[funcTypes[k]] => j = k

ListLive == \A k \in 1..Len(funcTypes) : heap[funcTypes[k]] # Unused

\* The type being read is not handed over yet.
ReadApart == ftype # NoAddress => heap[ftype] # Unused /\ ftype \notin Listed

UsedListed == Used \subseteq Listed

NothingYet ==
  ~made => funcTypes = <<>> /\ retFuncTypes = <<>> /\ parsing = {}

IInv ==
  /\ TypeOK /\ ListDiffers /\ ListLive /\ ReadApart /\ UsedListed /\ NothingYet /\ NoLeak

------------------------------------------------------------------------------
(* The invariant implies the properties *)

LEMMA Implied == IInv => PointerEquivalence /\ NoDangling
<1>1. SUFFICES ASSUME IInv PROVE PointerEquivalence /\ NoDangling
  OBVIOUS
<1>2. \A a \in Used : \E k \in 1..Len(funcTypes) : a = funcTypes[k]
  BY <1>1 DEF IInv, UsedListed, Listed
<1>3. PointerEquivalence
  BY <1>1, <1>2 DEF PointerEquivalence, IInv, ListDiffers
<1>4. NoDangling
  BY <1>1, <1>2 DEF NoDangling, IInv, ListLive
<1> QED BY <1>3, <1>4

------------------------------------------------------------------------------
(* The invariant is inductive *)

LEMMA InitIInv == Init => IInv
<1>1. SUFFICES ASSUME Init PROVE IInv
  OBVIOUS
<1>2. TypeOK
  <2>1. retFuncTypes \in Seq(Address) /\ funcTypes \in Seq(Address)
    BY <1>1 DEF Init
  <2>2. types \in [Module -> Seq(Address)]
    BY <1>1 DEF Init
  <2>3. heap \in [Address -> Structure \cup {Unused}]
    BY <1>1 DEF Init
  <2> QED BY <2>1, <2>2, <2>3, <1>1 DEF Init, TypeOK
<1>3. ListDiffers /\ ListLive /\ ReadApart /\ NothingYet /\ NoLeak
  BY <1>1 DEF Init, ListDiffers, ListLive, ReadApart, NothingYet, NoLeak
<1>4. UsedListed
  BY <1>1 DEF Init, UsedListed, Used
<1> QED BY <1>2, <1>3, <1>4 DEF IInv

\* What a failure, the end of the module or of its section keep: the list and all that
\* is on it.
LEMMA ListKept ==
  ASSUME IInv, UNCHANGED funcTypes, heap' \in [Address -> Structure \cup {Unused}],
         \A a \in Listed : heap'[a] = heap[a]
  PROVE  ListDiffers' /\ ListLive' /\ Listed' = Listed
<1>1. \A k \in 1..Len(funcTypes) : heap'[funcTypes[k]] = heap[funcTypes[k]]
  BY DEF Listed
<1>2. ListDiffers' /\ ListLive'
  BY <1>1 DEF IInv, ListDiffers, ListLive
<1>3. Listed' = Listed
  BY DEF Listed
<1> QED BY <1>2, <1>3

\* A module that gives its types up uses no others.
LEMMA UsedShrinks ==
  ASSUME IInv, NEW m \in Module, types' = [types EXCEPT ![m] = <<>>],
         UNCHANGED retFuncTypes
  PROVE  Used' \subseteq Used
<1>1. types \in [Module -> Seq(Address)]
  BY DEF IInv, TypeOK
<1>2. \A n \in Module : \A k \in 1..Len(types'[n]) :
        k \in 1..Len(types[n]) /\ types'[n][k] = types[n][k]
  <2> SUFFICES ASSUME NEW n \in Module, NEW k \in 1..Len(types'[n])
               PROVE  k \in 1..Len(types[n]) /\ types'[n][k] = types[n][k]
    OBVIOUS
  <2>1. CASE n = m
    BY <2>1, <1>1
  <2>2. CASE n # m
    BY <2>2, <1>1
  <2> QED BY <2>1, <2>2
<1> QED BY <1>2 DEF Used

LEMMA NewEnvironmentIInv == IInv /\ NewEnvironment => IInv'
<1>1. SUFFICES ASSUME IInv, NewEnvironment PROVE IInv'
  OBVIOUS
<1> USE FuncTypesAssumption
<1>2. PICK at \in [1..Len(Simple) -> Address] :
        /\ \A k \in 1..Len(Simple) : heap[at[k]] = Unused
        /\ \A j, k \in 1..Len(Simple) : at[j] = at[k] => j = k
        /\ heap' = [a \in Address |->
                      IF \E k \in 1..Len(Simple) : at[k] = a
                      THEN Simple[CHOOSE k \in 1..Len(Simple) : at[k] = a] ELSE heap[a]]
        /\ retFuncTypes' = at
        /\ funcTypes' = [k \in 1..Len(Simple) |-> at[Len(Simple) + 1 - k]]
  BY <1>1 DEF NewEnvironment
<1>3. funcTypes = <<>> /\ retFuncTypes = <<>> /\ parsing = {} /\ made' = TRUE
      /\ UNCHANGED <<ftype, types, parsing>>
  BY <1>1 DEF NewEnvironment, IInv, NothingYet
<1>4. /\ heap \in [Address -> Structure \cup {Unused}]
      /\ types \in [Module -> Seq(Address)]
      /\ ftype \in Address \cup {NoAddress}
      /\ ftype = NoAddress
  BY <1>1, <1>3 DEF IInv, TypeOK
<1>5. \A k \in 1..Len(Simple) : heap'[at[k]] = Simple[k] /\ Simple[k] \in Structure
  <2> SUFFICES ASSUME NEW k \in 1..Len(Simple)
               PROVE  heap'[at[k]] = Simple[k] /\ Simple[k] \in Structure
    OBVIOUS
  <2>1. at[k] \in Address
    OBVIOUS
  <2>2. (CHOOSE j \in 1..Len(Simple) : at[j] = at[k]) = k
    BY <1>2
  <2> QED BY <2>1, <2>2, <1>2
<1>6. Len(Simple) \in Nat /\ funcTypes' \in Seq(Address) /\ Len(funcTypes') = Len(Simple)
  <2>1. Len(Simple) \in Nat
    OBVIOUS
  <2>2. \A k \in 1..Len(Simple) : at[Len(Simple) + 1 - k] \in Address
    BY <2>1
  <2> QED BY <2>1, <2>2, <1>2
<1>7. retFuncTypes' \in Seq(Address) /\ Len(retFuncTypes') = Len(Simple)
  BY <1>2, <1>6
<1>8. heap' \in [Address -> Structure \cup {Unused}]
  <2>1. \A a \in Address : heap'[a] \in Structure \cup {Unused}
    <3> SUFFICES ASSUME NEW a \in Address PROVE heap'[a] \in Structure \cup {Unused}
      OBVIOUS
    <3>1. CASE \E k \in 1..Len(Simple) : at[k] = a
      BY <3>1, <1>5
    <3>2. CASE ~\E k \in 1..Len(Simple) : at[k] = a
      BY <3>2, <1>2, <1>4
    <3> QED BY <3>1, <3>2
  <2> QED BY <2>1, <1>2
<1>9. TypeOK'
  BY <1>1, <1>3, <1>6, <1>7, <1>8 DEF IInv, TypeOK
<1>10. \A k \in 1..Len(Simple) : /\ Len(Simple) + 1 - k \in 1..Len(Simple)
                                 /\ funcTypes'[k] = at[Len(Simple) + 1 - k]
  BY <1>2, <1>6
<1>11. \A a \in Listed' : \E k \in 1..Len(Simple) : a = at[k]
  <2>1. Len(funcTypes') = Len(Simple)
    BY <1>6
  <2>2. \A a \in Listed' : \E k \in 1..Len(funcTypes') : a = funcTypes'[k]
    BY DEF Listed
  <2> QED  BY <1>10, <2>1, <2>2
<1>12. \A k \in 1..Len(Simple) : at[k] \in Listed'
  <2> SUFFICES ASSUME NEW k \in 1..Len(Simple) PROVE at[k] \in Listed'
    OBVIOUS
  <2>1. /\ Len(Simple) + 1 - k \in 1..Len(funcTypes')
        /\ Len(Simple) + 1 - (Len(Simple) + 1 - k) = k
    BY <1>6
  <2>2. funcTypes'[Len(Simple) + 1 - k] = at[k]
    BY <2>1, <1>6, <1>2
  <2> QED BY <2>1, <2>2 DEF Listed
<1>13. ListDiffers'
  <2> SUFFICES ASSUME NEW j \in 1..Len(Simple), NEW k \in 1..Len(Simple),
                      heap'[funcTypes'[j]] = heap'[funcTypes'[k]]
               PROVE  j = k
    BY <1>6 DEF ListDiffers
  <2>1. Simple[Len(Simple) + 1 - j] = Simple[Len(Simple) + 1 - k]
    BY <1>5, <1>10
  <2>2. Len(Simple) + 1 - j = Len(Simple) + 1 - k
    BY <2>1, <1>10
  <2> QED BY <2>2, <1>6
<1>14. ListLive'
  BY <1>5, <1>6, <1>10 DEF ListLive
<1>15. ReadApart' /\ NothingYet'
  BY <1>3, <1>4 DEF ReadApart, NothingYet
<1>16. UsedListed'
  <2>1. \A n \in Module : \A k \in 1..Len(types[n]) : FALSE
    <3> SUFFICES ASSUME NEW n \in Module, NEW k \in 1..Len(types[n]) PROVE FALSE
      OBVIOUS
    <3>1. types[n][k] \in Used
      BY DEF Used
    <3>2. Listed = {}
      BY <1>3 DEF Listed
    <3> QED BY <3>1, <3>2, <1>1 DEF IInv, UsedListed
  <2>2. \A a \in Used' : \E k \in 1..Len(Simple) : a = at[k]
    BY <2>1, <1>2, <1>3, <1>7 DEF Used
  <2> QED BY <2>2, <1>12 DEF UsedListed
<1>17. NoLeak'
  <2> SUFFICES ASSUME NEW a \in Address, heap'[a] # Unused PROVE a \in Listed'
    BY DEF NoLeak
  <2>1. CASE \E k \in 1..Len(Simple) : at[k] = a
    BY <2>1, <1>12
  <2>2. CASE ~\E k \in 1..Len(Simple) : at[k] = a
    <3>1. heap[a] # Unused
      BY <2>2, <1>2
    <3>2. a \in Listed
      BY <3>1, <1>1, <1>4 DEF IInv, NoLeak
    <3> QED BY <3>2, <1>3 DEF Listed
  <2> QED BY <2>1, <2>2
<1> QED BY <1>9, <1>13, <1>14, <1>15, <1>16, <1>17 DEF IInv

LEMMA BeginTypesIInv == IInv /\ (\E m \in Module : BeginTypes(m)) => IInv'
<1>1. SUFFICES ASSUME IInv, NEW m \in Module, BeginTypes(m) PROVE IInv'
  OBVIOUS
<1>2. made /\ parsing' = {m} /\ UNCHANGED <<heap, environment, funcTypes, ftype, types>>
  BY <1>1 DEF BeginTypes
<1>3. TypeOK'
  BY <1>1, <1>2 DEF IInv, TypeOK, environment
<1>4. ListDiffers' /\ ListLive' /\ ReadApart' /\ Listed' = Listed
  BY <1>1, <1>2 DEF IInv, environment, ListDiffers, ListLive, ReadApart, Listed
<1>5. UsedListed' /\ NothingYet' /\ NoLeak'
  BY <1>1, <1>2, <1>4 DEF IInv, environment, UsedListed, NothingYet, NoLeak, Used
<1> QED BY <1>3, <1>4, <1>5 DEF IInv

LEMMA AllocFuncTypeIInv ==
  IInv /\ (\E m \in Module, s \in Structure : AllocFuncType(m, s)) => IInv'
<1>1. SUFFICES ASSUME IInv, NEW m \in Module, NEW s \in Structure, AllocFuncType(m, s)
               PROVE  IInv'
  OBVIOUS
<1>2. PICK a \in Address :
        heap[a] = Unused /\ heap' = [heap EXCEPT ![a] = s] /\ ftype' = a
  BY <1>1 DEF AllocFuncType
<1>3. m \in parsing /\ ftype = NoAddress
      /\ UNCHANGED <<environment, funcTypes, types, parsing>>
  BY <1>1 DEF AllocFuncType
<1>4. s # Unused /\ heap'[a] = s
      /\ \A b \in Address : b # a => heap'[b] = heap[b]
  BY <1>1, <1>2, FuncTypesAssumption DEF IInv, TypeOK
<1>5. a \notin Listed
  BY <1>1, <1>2 DEF Listed, IInv, ListLive
<1>6. Listed \subseteq Address
  BY <1>1 DEF IInv, TypeOK, Listed
<1>7. TypeOK'
  BY <1>1, <1>2, <1>3 DEF IInv, TypeOK, environment
<1>8. ListDiffers' /\ ListLive' /\ Listed' = Listed
  BY <1>1, <1>3, <1>4, <1>5, <1>6, <1>7, ListKept DEF TypeOK
<1>9. ReadApart'
  BY <1>2, <1>4, <1>5, <1>8 DEF ReadApart
<1>10. UsedListed' /\ NothingYet'
  BY <1>1, <1>3, <1>8 DEF IInv, UsedListed, NothingYet, Used, environment
<1>11. NoLeak'
  BY <1>1, <1>2, <1>3, <1>4, <1>8, FuncTypesAssumption DEF IInv, NoLeak
<1> QED BY <1>7, <1>8, <1>9, <1>10, <1>11 DEF IInv

\* A type that is used is one that was, or the one now handed over.
LEMMA UsedGrows ==
  ASSUME IInv, NEW m \in Module, NEW a \in Address,
         types' = [types EXCEPT ![m] = Append(@, a)], UNCHANGED retFuncTypes
  PROVE  Used' \subseteq Used \cup {a}
<1>1. types \in [Module -> Seq(Address)]
  BY DEF IInv, TypeOK
<1>2. \A n \in Module : \A k \in 1..Len(types'[n]) :
        \/ k \in 1..Len(types[n]) /\ types'[n][k] = types[n][k]
        \/ types'[n][k] = a
  <2> SUFFICES ASSUME NEW n \in Module, NEW k \in 1..Len(types'[n])
               PROVE  \/ k \in 1..Len(types[n]) /\ types'[n][k] = types[n][k]
                      \/ types'[n][k] = a
    OBVIOUS
  <2>1. CASE n = m
    <3>1. types'[n] = Append(types[n], a) /\ types[n] \in Seq(Address)
      BY <2>1, <1>1
    <3>2. CASE k = Len(types[n]) + 1
      BY <3>1, <3>2
    <3>3. CASE k # Len(types[n]) + 1
      BY <3>1, <3>3
    <3> QED BY <3>2, <3>3
  <2>2. CASE n # m
    BY <2>2, <1>1
  <2> QED BY <2>1, <2>2
<1> QED BY <1>2 DEF Used

LEMMA AddFuncTypeIInv == IInv /\ (\E m \in Module : AddFuncType(m)) => IInv'
<1>1. SUFFICES ASSUME IInv, NEW m \in Module, AddFuncType(m) PROVE IInv'
  OBVIOUS
<1> DEFINE equal == {k \in 1..Len(funcTypes) : heap[funcTypes[k]] = heap[ftype]}
<1>2. m \in parsing /\ ftype \in Address /\ ftype # NoAddress /\ ftype' = NoAddress
      /\ UNCHANGED <<environment, parsing>>
  BY <1>1 DEF AddFuncType, IInv, TypeOK
<1>3. heap[ftype] # Unused /\ ftype \notin Listed
  BY <1>1, <1>2 DEF IInv, ReadApart
<1>4. /\ heap \in [Address -> Structure \cup {Unused}]
      /\ funcTypes \in Seq(Address) /\ types \in [Module -> Seq(Address)]
      /\ Listed \subseteq Address
  BY <1>1 DEF IInv, TypeOK, Listed
<1>5. made
  BY <1>1, <1>2 DEF IInv, NothingYet
<1>6. CASE /\ equal = {}
           /\ funcTypes' = <<ftype>> \o funcTypes
           /\ types' = [types EXCEPT ![m] = Append(@, ftype)]
           /\ UNCHANGED heap
  <2>1. /\ funcTypes' \in Seq(Address) /\ Len(funcTypes') = Len(funcTypes) + 1
        /\ funcTypes'[1] = ftype
        /\ \A k \in 1..Len(funcTypes') : k # 1 =>
             k - 1 \in 1..Len(funcTypes) /\ funcTypes'[k] = funcTypes[k - 1]
        /\ \A k \in 1..Len(funcTypes) :
             k + 1 \in 1..Len(funcTypes') /\ funcTypes'[k + 1] = funcTypes[k]
    BY <1>2, <1>4, <1>6
  <2>2. ListLive'
    BY <2>1, <1>1, <1>3, <1>6 DEF IInv, ListLive
  <2>3. ListDiffers'
    <3>1. \A k \in 1..Len(funcTypes) : heap[funcTypes[k]] # heap[ftype]
      BY <1>6
    <3>2. SUFFICES ASSUME NEW j \in 1..Len(funcTypes'), NEW k \in 1..Len(funcTypes'),
                          heap[funcTypes'[j]] = heap[funcTypes'[k]]
                   PROVE  j = k
      BY <1>6 DEF ListDiffers
    <3>3. CASE j = 1
      BY <3>1, <3>2, <3>3, <2>1
    <3>4. CASE k = 1
      BY <3>1, <3>2, <3>4, <2>1
    <3>5. CASE j # 1 /\ k # 1
      <4>1. j - 1 = k - 1
        BY <3>2, <3>5, <2>1, <1>1 DEF IInv, ListDiffers
      <4> QED BY <4>1, <1>4, <2>1
    <3> QED BY <3>3, <3>4, <3>5
  <2>4. Listed' = Listed \cup {ftype}
    <3>1. \A k \in 1..Len(funcTypes') : funcTypes'[k] \in Listed \cup {ftype}
      BY <2>1 DEF Listed
    <3>2. \A k \in 1..Len(funcTypes) : funcTypes[k] \in Listed'
      BY <2>1 DEF Listed
    <3>3. ftype \in Listed'
      <4>1. 1 \in 1..Len(funcTypes')
        BY <2>1, <1>4
      <4> QED BY <4>1, <2>1 DEF Listed
    <3> QED BY <3>1, <3>2, <3>3 DEF Listed
  <2>5. UsedListed'
    <3>1. Used' \subseteq Used \cup {ftype}
      BY <1>1, <1>2, <1>6, UsedGrows DEF environment
    <3> QED BY <3>1, <2>4, <1>1 DEF IInv, UsedListed
  <2>6. ReadApart' /\ NothingYet'
    BY <1>2, <1>5 DEF ReadApart, NothingYet, environment
  <2>7. NoLeak'
    BY <2>4, <1>1, <1>6 DEF IInv, NoLeak
  <2>8. TypeOK'
    <3>1. types' \in [Module -> Seq(Address)]
      BY <1>2, <1>4, <1>6
    <3> QED BY <3>1, <2>1, <1>1, <1>2, <1>6 DEF IInv, TypeOK, environment
  <2> QED BY <2>2, <2>3, <2>5, <2>6, <2>7, <2>8 DEF IInv
<1>7. CASE \E k \in equal :
             /\ \A j \in equal : k <= j
             /\ types' = [types EXCEPT ![m] = Append(@, funcTypes[k])]
             /\ heap' = [heap EXCEPT ![ftype] = Unused]
             /\ UNCHANGED funcTypes
  <2>1. PICK k \in equal :
          /\ types' = [types EXCEPT ![m] = Append(@, funcTypes[k])]
          /\ heap' = [heap EXCEPT ![ftype] = Unused]
          /\ UNCHANGED funcTypes
    BY <1>7
  <2>2. funcTypes[k] \in Address /\ funcTypes[k] \in Listed
    BY <2>1, <1>4 DEF Listed
  <2>3. heap' \in [Address -> Structure \cup {Unused}]
    BY <2>1, <1>2, <1>4
  <2>4. \A a \in Listed : heap'[a] = heap[a]
    BY <2>1, <1>3, <1>4
  <2>5. ListDiffers' /\ ListLive' /\ Listed' = Listed
    BY <1>1, <2>1, <2>3, <2>4, ListKept
  <2>6. UsedListed'
    <3>1. Used' \subseteq Used \cup {funcTypes[k]}
      BY <1>1, <1>2, <2>1, <2>2, UsedGrows DEF environment
    <3> QED BY <3>1, <2>2, <2>5, <1>1 DEF IInv, UsedListed
  <2>7. ReadApart' /\ NothingYet'
    BY <1>2, <1>5 DEF ReadApart, NothingYet, environment
  <2>8. NoLeak'
    BY <2>1, <2>5, <1>1, <1>2, <1>4 DEF IInv, NoLeak
  <2>9. TypeOK'
    <3>1. types' \in [Module -> Seq(Address)]
      BY <2>1, <2>2, <1>4
    <3> QED BY <3>1, <2>1, <2>3, <1>1, <1>2 DEF IInv, TypeOK, environment
  <2> QED BY <2>5, <2>6, <2>7, <2>8, <2>9 DEF IInv
<1> QED BY <1>1, <1>6, <1>7 DEF AddFuncType

LEMMA EndTypesIInv == IInv /\ (\E m \in Module : EndTypes(m)) => IInv'
<1>1. SUFFICES ASSUME IInv, NEW m \in Module, EndTypes(m) PROVE IInv'
  OBVIOUS
<1>2. /\ made /\ ftype = NoAddress /\ parsing' = {}
      /\ UNCHANGED <<heap, environment, funcTypes, ftype, types>>
  BY <1>1 DEF EndTypes, IInv, NothingYet
<1>3. TypeOK'
  BY <1>1, <1>2 DEF IInv, TypeOK, environment
<1>4. ListDiffers' /\ ListLive' /\ ReadApart' /\ Listed' = Listed
  BY <1>1, <1>2 DEF IInv, environment, ListDiffers, ListLive, ReadApart, Listed
<1>5. UsedListed' /\ NothingYet' /\ NoLeak'
  BY <1>1, <1>2, <1>4 DEF IInv, environment, UsedListed, NothingYet, NoLeak, Used
<1> QED BY <1>3, <1>4, <1>5 DEF IInv

LEMMA TypesFailIInv == IInv /\ (\E m \in Module : TypesFail(m)) => IInv'
<1>1. SUFFICES ASSUME IInv, NEW m \in Module, TypesFail(m) PROVE IInv'
  OBVIOUS
<1>2. /\ heap' = [a \in Address |-> IF a = ftype THEN Unused ELSE heap[a]]
      /\ ftype' = NoAddress /\ parsing' = {}
      /\ types' = [types EXCEPT ![m] = <<>>]
      /\ UNCHANGED <<environment, funcTypes>>
  BY <1>1 DEF TypesFail
<1>3. made /\ heap \in [Address -> Structure \cup {Unused}] /\ Listed \subseteq Address
  BY <1>1 DEF TypesFail, IInv, NothingYet, TypeOK, Listed
<1>4. heap' \in [Address -> Structure \cup {Unused}]
  BY <1>2, <1>3
<1>5. ftype \notin Listed
  BY <1>1, <1>3, FuncTypesAssumption DEF IInv, ReadApart
<1>6. ListDiffers' /\ ListLive' /\ Listed' = Listed
  <2>1. \A a \in Listed : heap'[a] = heap[a]
    BY <1>2, <1>3, <1>5
  <2> QED BY <2>1, <1>1, <1>2, <1>4, ListKept
<1>7. UsedListed'
  <2>1. Used' \subseteq Used
    BY <1>1, <1>2, UsedShrinks DEF environment
  <2> QED BY <2>1, <1>1, <1>6 DEF IInv, UsedListed
<1>8. ReadApart' /\ NothingYet'
  BY <1>2, <1>3 DEF ReadApart, NothingYet, environment
<1>9. NoLeak'
  BY <1>1, <1>2, <1>3, <1>6 DEF IInv, NoLeak
<1>10. TypeOK'
  <2>1. types' \in [Module -> Seq(Address)]
    BY <1>1, <1>2 DEF IInv, TypeOK
  <2> QED BY <2>1, <1>1, <1>2, <1>4 DEF IInv, TypeOK, environment
<1> QED BY <1>6, <1>7, <1>8, <1>9, <1>10 DEF IInv

LEMMA FreeModuleIInv == IInv /\ (\E m \in Module : FreeModule(m)) => IInv'
<1>1. SUFFICES ASSUME IInv, NEW m \in Module, FreeModule(m) PROVE IInv'
  OBVIOUS
<1>2. /\ types' = [types EXCEPT ![m] = <<>>]
      /\ UNCHANGED <<heap, environment, funcTypes, ftype, parsing>>
  BY <1>1 DEF FreeModule
<1>3. ListDiffers' /\ ListLive' /\ ReadApart' /\ NothingYet' /\ NoLeak' /\ Listed' = Listed
  BY <1>1, <1>2 DEF IInv, environment, ListDiffers, ListLive, ReadApart, NothingYet,
                    NoLeak, Listed
<1>4. UsedListed'
  <2>1. Used' \subseteq Used
    BY <1>1, <1>2, UsedShrinks DEF environment
  <2> QED BY <2>1, <1>1, <1>3 DEF IInv, UsedListed
<1>5. TypeOK'
  <2>1. types' \in [Module -> Seq(Address)]
    BY <1>1, <1>2 DEF IInv, TypeOK
  <2> QED BY <2>1, <1>1, <1>2 DEF IInv, TypeOK, environment
<1> QED BY <1>3, <1>4, <1>5 DEF IInv

LEMMA FreeEnvironmentIInv == IInv /\ FreeEnvironment => IInv'
<1>1. SUFFICES ASSUME IInv, FreeEnvironment PROVE IInv'
  OBVIOUS
<1>2. /\ parsing = {} /\ \A m \in Module : types[m] = <<>>
      /\ heap' = [a \in Address |-> IF a \in Listed THEN Unused ELSE heap[a]]
      /\ made' = FALSE /\ retFuncTypes' = <<>> /\ funcTypes' = <<>>
      /\ UNCHANGED <<ftype, types, parsing>>
  BY <1>1 DEF FreeEnvironment
<1>3. ftype = NoAddress /\ heap \in [Address -> Structure \cup {Unused}]
  BY <1>1, <1>2 DEF IInv, TypeOK
<1>4. TypeOK'
  <2>1. heap' \in [Address -> Structure \cup {Unused}]
    BY <1>2, <1>3
  <2>2. retFuncTypes' \in Seq(Address) /\ funcTypes' \in Seq(Address)
    BY <1>2
  <2> QED BY <2>1, <2>2, <1>1, <1>2, <1>3 DEF IInv, TypeOK
<1>5. ListDiffers' /\ ListLive' /\ ReadApart' /\ NothingYet'
  BY <1>2, <1>3 DEF ListDiffers, ListLive, ReadApart, NothingYet
<1>6. UsedListed'
  BY <1>2 DEF UsedListed, Used
<1>7. NoLeak'
  BY <1>1, <1>2, <1>3 DEF IInv, NoLeak
<1> QED BY <1>4, <1>5, <1>6, <1>7 DEF IInv

LEMMA NextIInv == IInv /\ [Next]_vars => IInv'
<1>1. SUFFICES ASSUME IInv, [Next]_vars PROVE IInv'
  OBVIOUS
<1>2. CASE UNCHANGED vars
  <2>1. UNCHANGED <<heap, made, retFuncTypes, funcTypes, ftype, types, parsing>>
    BY <1>2 DEF vars, environment
  <2>2. Listed' = Listed /\ Used' = Used /\ TypeOK'
    BY <2>1, <1>1 DEF Listed, Used, IInv, TypeOK
  <2> QED BY <2>1, <2>2, <1>1 DEF IInv, ListDiffers, ListLive, ReadApart, UsedListed,
                                  NothingYet, NoLeak
<1>3. CASE Next
  BY <1>1, <1>3, NewEnvironmentIInv, FreeEnvironmentIInv, BeginTypesIInv, AddFuncTypeIInv,
     EndTypesIInv, TypesFailIInv, FreeModuleIInv, AllocFuncTypeIInv DEF Next
<1> QED BY <1>1, <1>2, <1>3

------------------------------------------------------------------------------
(* The theorems *)

\* The argument: every step keeps the list different, live and complete.
THEOREM Invariance == Spec => []IInv
<1>1. Init => IInv
  BY InitIInv
<1>2. IInv /\ [Next]_vars => IInv'
  BY NextIInv
<1> QED BY <1>1, <1>2, PTL DEF Spec

\* The variables have their types, and a type is only being read during the section.
THEOREM TypeCorrect == Spec => []TypeOK
<1>1. IInv => TypeOK
  BY DEF IInv
<1> QED BY <1>1, Invariance, PTL

\* Comparing pointers to the types of modules, as call_indirect does (m3_exec.h:568),
\* compares the types.
THEOREM PointersCompare == Spec => []PointerEquivalence
<1>1. IInv => PointerEquivalence
  BY Implied
<1> QED BY <1>1, Invariance, PTL

\* No module keeps a type that Environment_AddFuncType, a failing section or the end
\* of another module has freed; and what was allocated for types is on the list that
\* m3_FreeEnvironment frees, or being read: also after a section failed with some of its
\* types handed over.
THEOREM NothingLost == Spec => []TypesKept
<1>1. IInv => TypesKept
  BY Implied DEF IInv, TypesKept
<1> QED BY <1>1, Invariance, PTL

------------------------------------------------------------------------------
(* FuncTypes implements TypeTable *)

\* The types that modules have with pointers ts into a heap h.
StructuresOf(h, ts) == [m \in Module |-> [k \in 1..Len(ts[m]) |-> h[ts[m][k]]]]

\* The pointers that they have.
Pointers(ts) == UNION {{ts[m][k] : k \in 1..Len(ts[m])} : m \in Module}

\* One module at a time is parsed.
OneParses == \A m, n \in parsing : m = n

LEMMA TypesOfTypes ==
  ASSUME NEW h, NEW ts \in [Module -> Seq(Address)], NEW m \in Module
  PROVE  /\ Len(StructuresOf(h, ts)[m]) = Len(ts[m]) /\ Len(ts[m]) \in Nat
         /\ \A k \in 1..Len(ts[m]) : StructuresOf(h, ts)[m][k] = h[ts[m][k]]
<1>1. ts[m] \in Seq(Address) /\ Len(ts[m]) \in Nat
  OBVIOUS
<1>2. StructuresOf(h, ts)[m] = [k \in 1..Len(ts[m]) |-> h[ts[m][k]]]
  BY DEF StructuresOf
<1> QED BY <1>1, <1>2

\* Pointers that are equal exactly when the types are make the pairs that TypeTable has.
LEMMA SamePointers ==
  ASSUME NEW h, NEW ts \in [Module -> Seq(Address)],
         \A a, b \in Pointers(ts) : h[a] = h[b] => a = b
  PROVE  Table!Same(ts) = Table!Same(StructuresOf(h, ts))
<1> DEFINE rs == StructuresOf(h, ts)
<1>1. \A m \in Module : Len(rs[m]) = Len(ts[m])
  BY TypesOfTypes
<1>2. Table!Uses(rs) = Table!Uses(ts)
  BY <1>1 DEF Table!Uses
<1>3. ASSUME NEW u \in Table!Uses(ts)
      PROVE  ts[u[1]][u[2]] \in Pointers(ts) /\ rs[u[1]][u[2]] = h[ts[u[1]][u[2]]]
  <2>1. PICK m \in Module : u \in {m} \X (1..Len(ts[m]))
    BY DEF Table!Uses
  <2>2. u[1] = m /\ u[2] \in 1..Len(ts[m])
    BY <2>1
  <2> QED BY <2>2, TypesOfTypes DEF Pointers
<1>4. \A u, v \in Table!Uses(ts) :
        ts[u[1]][u[2]] = ts[v[1]][v[2]] <=> rs[u[1]][u[2]] = rs[v[1]][v[2]]
  BY <1>3
<1>5. \A p \in Table!Uses(ts) \X Table!Uses(ts) : p[1] \in Table!Uses(ts) /\ p[2] \in Table!Uses(ts)
  OBVIOUS
<1>6. \A p \in Table!Uses(ts) \X Table!Uses(ts) :
        ts[p[1][1]][p[1][2]] = ts[p[2][1]][p[2][2]] <=> rs[p[1][1]][p[1][2]] = rs[p[2][1]][p[2][2]]
  BY <1>4, <1>5
<1> HIDE DEF rs
<1>7. Table!Same(ts) = Table!Same(rs)
  BY <1>2, <1>6 DEF Table!Same
<1> QED BY <1>7 DEF rs

\* The pointers of modules are on the list.
LEMMA PointersUsed ==
  ASSUME IInv
  PROVE  /\ types \in [Module -> Seq(Address)]
         /\ \A a, b \in Pointers(types) : heap[a] = heap[b] => a = b
         /\ \A a \in Pointers(types) : a \in Address /\ heap[a] # Unused /\ a # ftype
<1>1. Pointers(types) \subseteq Used
  BY DEF Pointers, Used
<1>2. Used \subseteq Listed /\ Listed \subseteq Address
  BY DEF IInv, UsedListed, TypeOK, Listed
<1>3. \A a \in Listed : heap[a] # Unused
  BY DEF IInv, ListLive, Listed
<1>4. ftype \notin Listed
  BY <1>2, FuncTypesAssumption DEF IInv, ReadApart
<1> QED BY <1>1, <1>2, <1>3, <1>4, Implied DEF PointerEquivalence, IInv, TypeOK

\* Types whose pointers stay and are not written to stay.
LEMMA TypesStay ==
  ASSUME NEW h, NEW g, NEW ts \in [Module -> Seq(Address)],
         \A a \in Pointers(ts) : g[a] = h[a]
  PROVE  StructuresOf(g, ts) = StructuresOf(h, ts)
<1>1. \A m \in Module : \A k \in 1..Len(ts[m]) : g[ts[m][k]] = h[ts[m][k]]
  BY DEF Pointers
<1> QED BY <1>1 DEF StructuresOf

LEMMA TypesDropped ==
  ASSUME NEW h, NEW g, NEW ts \in [Module -> Seq(Address)], NEW m \in Module,
         \A a \in Pointers(ts) : g[a] = h[a],
         NEW us, us[m] = <<>>, \A n \in Module : n # m => us[n] = ts[n]
  PROVE  StructuresOf(g, us) = [StructuresOf(h, ts) EXCEPT ![m] = <<>>]
<1> DEFINE rs == [StructuresOf(h, ts) EXCEPT ![m] = <<>>]
<1>1. rs[m] = <<>> /\ \A n \in Module : n # m => rs[n] = [k \in 1..Len(ts[n]) |-> h[ts[n][k]]]
  BY DEF StructuresOf
<1>2. \A n \in Module : \A k \in 1..Len(ts[n]) : g[ts[n][k]] = h[ts[n][k]]
  BY DEF Pointers
<1>3. [k \in 1..Len(us[m]) |-> g[us[m][k]]] = <<>>
  OBVIOUS
<1>4. \A n \in Module : n # m =>
        [k \in 1..Len(us[n]) |-> g[us[n][k]]] = [k \in 1..Len(ts[n]) |-> h[ts[n][k]]]
  BY <1>2
<1>5. StructuresOf(g, us) = [n \in Module |-> [k \in 1..Len(us[n]) |-> g[us[n][k]]]]
  BY DEF StructuresOf
<1>6. rs = [n \in Module |-> rs[n]]
  BY DEF StructuresOf
<1> HIDE DEF rs
<1>7. \A n \in Module : [k \in 1..Len(us[n]) |-> g[us[n][k]]] = rs[n]
  BY <1>1, <1>3, <1>4
<1>8. StructuresOf(g, us) = rs
  BY <1>5, <1>6, <1>7
<1> QED BY <1>8 DEF rs

LEMMA TypesAdded ==
  ASSUME types \in [Module -> Seq(Address)], NEW m \in Module, NEW a \in Address,
         \A b \in Pointers(types) : heap'[b] = heap[b],
         types'[m] = Append(types[m], a), \A n \in Module : n # m => types'[n] = types[n]
  PROVE  /\ StructuresOf(heap', types')[m] = Append(StructuresOf(heap, types)[m], heap'[a])
         /\ \A n \in Module : n # m => StructuresOf(heap', types')[n] = StructuresOf(heap, types)[n]
<1> DEFINE old == [k \in 1..Len(types[m]) |-> heap[types[m][k]]]
<1>1. \A n \in Module : \A k \in 1..Len(types[n]) : heap'[types[n][k]] = heap[types[n][k]]
  BY DEF Pointers
<1>2. [k \in 1..Len(types'[m]) |-> heap'[types'[m][k]]] = Append(old, heap'[a])
  <2>1. /\ types[m] \in Seq(Address) /\ Len(types[m]) \in Nat /\ Len(types'[m]) = Len(types[m]) + 1
        /\ types'[m][Len(types[m]) + 1] = a
        /\ \A k \in 1..Len(types[m]) : types'[m][k] = types[m][k]
    OBVIOUS
  <2>2. Append(old, heap'[a]) = [k \in 1..Len(types[m]) + 1 |-> IF k = Len(types[m]) + 1 THEN heap'[a] ELSE old[k]]
    BY <2>1
  <2>3. \A k \in 1..Len(types[m]) + 1 :
          heap'[types'[m][k]] = IF k = Len(types[m]) + 1 THEN heap'[a] ELSE old[k]
    BY <2>1, <1>1
  <2> HIDE DEF old
  <2> QED BY <2>1, <2>2, <2>3
<1>3. \A n \in Module : n # m =>
        [k \in 1..Len(types'[n]) |-> heap'[types'[n][k]]] = [k \in 1..Len(types[n]) |-> heap[types[n][k]]]
  BY <1>1
<1> QED BY <1>2, <1>3 DEF StructuresOf

\* What op_CallIndirect takes for the same is what TypeTable says, before and after a step.
Matched == {p \in Uses \X Uses : TypeAt(p[1]) = TypeAt(p[2])}

LEMMA MatchedPointers == Matched = Table!Same(types) /\ Matched' = Table!Same(types')
BY DEF Matched, Uses, TypeAt, Table!Same, Table!Uses

LEMMA MatchedTypes ==
  ASSUME IInv
  PROVE  Matched = Table!Same(StructuresOf(heap, types))
BY MatchedPointers, PointersUsed, SamePointers

LEMMA MatchedNext ==
  ASSUME IInv'
  PROVE  Matched' = Table!Same(StructuresOf(heap', types'))
<1>1. Used' \subseteq Listed' /\ \A a \in Listed' : \E k \in 1..Len(funcTypes') : a = funcTypes'[k]
  BY DEF IInv, UsedListed, Listed
<1>2. Pointers(types') \subseteq Used'
  BY DEF Pointers, Used
<1>3. \A a, b \in Pointers(types') : heap'[a] = heap'[b] => a = b
  BY <1>1, <1>2 DEF IInv, ListDiffers
<1>4. types' \in [Module -> Seq(Address)]
  BY DEF IInv, TypeOK
<1> QED BY <1>3, <1>4, MatchedPointers, SamePointers

LEMMA InitImplements == Init => Table!Init
<1>1. SUFFICES ASSUME Init PROVE Table!Init
  OBVIOUS
<1>2. types = [m \in Module |-> <<>>] /\ parsing = {}
  BY <1>1 DEF Init
<1>3. [m \in Module |-> [k \in 1..Len(types[m]) |-> heap[types[m][k]]]] = [m \in Module |-> <<>>]
  <2>1. \A m \in Module : [k \in 1..Len(types[m]) |-> heap[types[m][k]]] = <<>>
    BY <1>2
  <2> QED BY <2>1
<1>4. Uses = {}
  BY <1>2 DEF Uses
<1> QED BY <1>2, <1>3, <1>4 DEF Table!Init

\* Steps that give no type to a module and take none from it.
LEMMA TypesUnseen ==
  ASSUME IInv, UNCHANGED types, \A a \in Pointers(types) : heap'[a] = heap[a]
  PROVE  StructuresOf(heap', types') = StructuresOf(heap, types) /\ Matched' = Matched
<1>1. StructuresOf(heap', types) = StructuresOf(heap, types)
  BY PointersUsed, TypesStay
<1> QED BY <1>1 DEF Matched, Uses, TypeAt

LEMMA EnvironmentsUnseen ==
  ASSUME IInv, NewEnvironment \/ FreeEnvironment
  PROVE  UNCHANGED Table!vars
<1>1. UNCHANGED <<types, parsing>>
  BY DEF NewEnvironment, FreeEnvironment
<1>2. \A a \in Pointers(types) : heap'[a] = heap[a]
  <2>1. CASE NewEnvironment
    <3>1. PICK at \in [1..Len(Simple) -> Address] :
            /\ \A k \in 1..Len(Simple) : heap[at[k]] = Unused
            /\ heap' = [a \in Address |->
                          IF \E k \in 1..Len(Simple) : at[k] = a
                          THEN Simple[CHOOSE k \in 1..Len(Simple) : at[k] = a] ELSE heap[a]]
      BY <2>1 DEF NewEnvironment
    <3> QED BY <3>1, PointersUsed
  <2>2. CASE FreeEnvironment
    <3>1. \A m \in Module : types[m] = <<>>
      BY <2>2 DEF FreeEnvironment
    <3> QED BY <3>1 DEF Pointers
  <2> QED BY <2>1, <2>2
<1> QED BY <1>1, <1>2, TypesUnseen DEF Table!vars, StructuresOf, Matched

LEMMA AllocUnseen ==
  ASSUME IInv, NEW m \in Module, NEW s \in Structure, AllocFuncType(m, s)
  PROVE  UNCHANGED Table!vars
<1>1. UNCHANGED <<types, parsing>>
  BY DEF AllocFuncType
<1>2. \A a \in Pointers(types) : heap'[a] = heap[a]
  BY PointersUsed DEF AllocFuncType, IInv, TypeOK
<1> QED BY <1>1, <1>2, TypesUnseen DEF Table!vars, StructuresOf, Matched

LEMMA BeginImplements ==
  ASSUME IInv, NEW m \in Module, BeginTypes(m)
  PROVE  Table!Begin(m)
<1>1. /\ parsing = {} /\ types[m] = <<>> /\ parsing' = {m}
      /\ UNCHANGED <<heap, types>>
  BY DEF BeginTypes
<1>2. StructuresOf(heap, types)[m] = <<>>
  BY <1>1 DEF StructuresOf
<1> QED BY <1>1, <1>2 DEF Table!Begin, StructuresOf, Uses, TypeAt

LEMMA EndImplements ==
  ASSUME IInv, NEW m \in Module, EndTypes(m)
  PROVE  Table!End(m)
BY DEF EndTypes, Table!End, Uses, TypeAt

\* The pointer that the module gets is to a type like the one that was read.
LEMMA AddImplements ==
  ASSUME IInv, IInv', NEW m \in Module, AddFuncType(m)
  PROVE  \E s \in Structure : Table!Add(m, s)
<1>1. /\ m \in parsing /\ UNCHANGED parsing
      /\ ftype \in Address /\ heap[ftype] \in Structure
  BY DEF AddFuncType, IInv, TypeOK, ReadApart
<1>2. PICK a \in Address : /\ types' = [types EXCEPT ![m] = Append(@, a)]
                           /\ heap'[a] = heap[ftype]
  <2>1. CASE types' = [types EXCEPT ![m] = Append(@, ftype)] /\ UNCHANGED heap
    BY <1>1, <2>1
  <2>2. CASE \E k \in 1..Len(funcTypes) :
               /\ heap[funcTypes[k]] = heap[ftype]
               /\ types' = [types EXCEPT ![m] = Append(@, funcTypes[k])]
               /\ heap' = [heap EXCEPT ![ftype] = Unused]
    <3>1. \A k \in 1..Len(funcTypes) : funcTypes[k] \in Address /\ funcTypes[k] # ftype
      BY <1>1, FuncTypesAssumption DEF IInv, TypeOK, ReadApart, Listed
    <3> QED BY <2>2, <3>1 DEF IInv, TypeOK
  <2> QED BY <2>1, <2>2 DEF AddFuncType
<1>3. \A b \in Pointers(types) : heap'[b] = heap[b]
  BY <1>1, PointersUsed DEF AddFuncType, IInv, TypeOK
<1> DEFINE rs == StructuresOf(heap, types)
           us == [rs EXCEPT ![m] = Append(rs[m], heap[ftype])]
<1>4. StructuresOf(heap', types') = us
  <2>1. types \in [Module -> Seq(Address)]
    BY PointersUsed
  <2>2. types'[m] = Append(types[m], a) /\ \A n \in Module : n # m => types'[n] = types[n]
    BY <2>1, <1>2
  <2>3. /\ StructuresOf(heap', types')[m] = Append(StructuresOf(heap, types)[m], heap'[a])
        /\ \A n \in Module : n # m => StructuresOf(heap', types')[n] = StructuresOf(heap, types)[n]
    BY <2>1, <2>2, <1>3, TypesAdded
  <2>4. StructuresOf(heap', types') = [n \in Module |-> StructuresOf(heap', types')[n]]
    BY DEF StructuresOf
  <2>5. us = [n \in Module |-> IF n = m THEN Append(rs[m], heap[ftype]) ELSE rs[n]]
    BY DEF StructuresOf
  <2> QED BY <2>3, <2>4, <2>5, <1>2
<1>5. Table!Become(us)
  <2> HIDE DEF us
  <2> QED BY <1>4, MatchedNext DEF Table!Become, StructuresOf, Matched
<1>6. \A s : s = heap[ftype] => Table!Add(m, s)
  BY <1>1, <1>5 DEF Table!Add, Table!Become, StructuresOf
<1> QED BY <1>1, <1>6

LEMMA DropImplements ==
  ASSUME IInv, IInv', OneParses, NEW m \in Module, TypesFail(m) \/ FreeModule(m)
  PROVE  Table!Drop(m)
<1>1. types' = [types EXCEPT ![m] = <<>>] /\ parsing' = parsing \ {m}
  BY DEF TypesFail, FreeModule, OneParses
<1>2. \A a \in Pointers(types) : heap'[a] = heap[a]
  BY PointersUsed DEF TypesFail, FreeModule
<1> DEFINE rs == StructuresOf(heap, types)
           us == [rs EXCEPT ![m] = <<>>]
<1>3. StructuresOf(heap', types') = us
  <2>1. types \in [Module -> Seq(Address)]
    BY PointersUsed
  <2>2. types'[m] = <<>> /\ \A n \in Module : n # m => types'[n] = types[n]
    BY <2>1, <1>1
  <2> QED BY <2>1, <2>2, <1>2, TypesDropped
<1>4. Table!Become(us)
  <2> HIDE DEF us
  <2> QED BY <1>3, MatchedNext DEF Table!Become, StructuresOf, Matched
<1> QED BY <1>1, <1>4 DEF Table!Drop, StructuresOf

LEMMA NextImplements ==
  ASSUME IInv, IInv', OneParses, [Next]_vars
  PROVE  OneParses' /\ [Table!Next]_(Table!vars)
<1>1. OneParses'
  BY DEF OneParses, Next, vars, NewEnvironment, FreeEnvironment, BeginTypes, AllocFuncType,
         AddFuncType, EndTypes, TypesFail, FreeModule
<1>2. SUFFICES [Table!Next]_(Table!vars)
  BY <1>1
<1>3. CASE UNCHANGED vars
  BY <1>3 DEF vars, Table!vars, Uses, TypeAt
<1>4. CASE NewEnvironment \/ FreeEnvironment
  BY <1>4, EnvironmentsUnseen
<1>5. CASE \E m \in Module, s \in Structure : AllocFuncType(m, s)
  BY <1>5, AllocUnseen
<1>6. CASE \E m \in Module :
             BeginTypes(m) \/ EndTypes(m) \/ AddFuncType(m) \/ TypesFail(m) \/ FreeModule(m)
  BY <1>6, BeginImplements, EndImplements, AddImplements, DropImplements DEF Table!Next
<1> QED BY <1>3, <1>4, <1>5, <1>6 DEF Next

\* To the modules of an environment, pointers to types are the types themselves, of which
\* each module keeps its own for as long as it lives: no other module's section, failure
\* or end changes them or what call_indirect makes of them (m3_env.c:83, m3_exec.h:568).
THEOREM Implements == Spec => ImplementsTable
<1>1. Init => OneParses /\ Table!Init
  BY InitImplements DEF Init, OneParses
<1>2. IInv /\ IInv' /\ OneParses /\ [Next]_vars => OneParses' /\ [Table!Next]_(Table!vars)
  BY NextImplements
<1> QED BY <1>1, <1>2, Invariance, PTL DEF Spec, ImplementsTable, Table!Spec

------------------------------------------------------------------------------
(* The loop of SignatureToFuncType *)

Started(n) ==
  [at |-> "types", parsingRets |-> TRUE, result |-> "none", numRets |-> 0, types |-> <<>>,
   maxNumTypes |-> n - 2]

Opened(s, k) == \E j \in 1..k : s[j] = "("
Closed(s, k) == \E j \in 1..k : s[j] = ")"

LEMMA LetterAt ==
  ASSUME NEW C, NEW s \in Seq(C), NEW k \in 1..Len(s)
  PROVE  /\ k \in Letters(s) <=> ~Closed(s, k - 1) /\ s[k] \notin {"v", " ", "(", ")"}
         /\ k \in ResultLetters(s) <=> k \in Letters(s) /\ ~Opened(s, k - 1)
         /\ Opened(s, k) <=> Opened(s, k - 1) \/ s[k] = "("
         /\ Closed(s, k) <=> Closed(s, k - 1) \/ s[k] = ")"
         /\ ~Opened(s, 0) /\ ~Closed(s, 0)
<1>1. Len(s) \in Nat /\ k \in Nat
  OBVIOUS
<1>2. \A j : j \in 1..k <=> j \in 1..(k - 1) \/ j = k
  BY <1>1
<1>3. Opened(s, k) <=> Opened(s, k - 1) \/ s[k] = "("
  BY <1>2 DEF Opened
<1>4. Closed(s, k) <=> Closed(s, k - 1) \/ s[k] = ")"
  BY <1>2 DEF Closed
<1>5. (\A c \in {j \in 1..Len(s) : s[j] = ")"} : k < c) <=> ~Closed(s, k)
  <2>1. \A c \in 1..Len(s) : k < c <=> c \notin 1..k
    BY <1>1
  <2>2. \A c \in 1..k : c \in 1..Len(s)
    BY <1>1
  <2> QED  BY <2>1, <2>2 DEF Closed
<1>6. k \in Letters(s) <=> ~Closed(s, k - 1) /\ s[k] \notin {"v", " ", "(", ")"}
  BY <1>4, <1>5 DEF Letters
<1>7. k \in ResultLetters(s) <=> k \in Letters(s) /\ ~Opened(s, k)
  BY DEF ResultLetters, Opened
<1>8. ~Opened(s, 0) /\ ~Closed(s, 0)
  BY 1..0 = {} DEF Opened, Closed
<1> QED  BY <1>3, <1>4, <1>6, <1>7, <1>8

LEMMA LettersInside ==
  ASSUME NEW s
  PROVE  Letters(s) \in SUBSET (1..Len(s)) /\ ResultLetters(s) \in SUBSET (1..Len(s))
  BY DEF Letters, ResultLetters

LEMMA TypeOfChar ==
  ASSUME NEW c
  PROVE  /\ ConvertTypeCharToTypeId(c) \in ValueType \cup {"none", "unknown"}
         /\ ConvertTypeCharToTypeId(c) = "none" <=> c = "v"
         /\ c \in {"(", ")", " "} => ConvertTypeCharToTypeId(c) = "unknown"
  BY DEF ConvertTypeCharToTypeId, ValueType

------------------------------------------------------------------------------
(* What has been read after k characters *)

Count(places, k) == Cardinality(places \cap (1..k))

\* No more types than there is memory for.
Fits(s, x) == x.types \in Seq(ValueType) /\ Len(x.types) <= Len(s) - 2

\* Nothing was wrong so far, and every letter has added its type.
IsReader(s, x) ==
  x = [at |-> x.at, parsingRets |-> x.parsingRets, result |-> x.result, numRets |-> x.numRets,
       types |-> x.types, maxNumTypes |-> Len(s) - 2]
HasRead(s, read, k) ==
  /\ Len(read) = Count(Letters(s), k)
  /\ \A j \in Letters(s) : j <= k =>
       /\ read[Count(Letters(s), j)] = ConvertTypeCharToTypeId(s[j])
       /\ ConvertTypeCharToTypeId(s[j]) # "unknown"
Sound(s, x, k) ==
  /\ IsReader(s, x) /\ x.result = "none" /\ Fits(s, x) /\ HasRead(s, x.types, k)
  /\ x.at \in {"types", "end"} /\ (x.at = "end" <=> Closed(s, k))
  /\ x.numRets = Count(ResultLetters(s), k)
  /\ ~Closed(s, k) => (IF Opened(s, k) THEN x.parsingRets = FALSE
                       ELSE x.parsingRets = TRUE /\ x.numRets = Len(x.types))

\* Something was, and the loop has ended.
Broken(s, x, k) ==
  /\ x.at = "end" /\ x.result # "none" /\ Fits(s, x)
  /\ \/ \E j \in Letters(s) : ConvertTypeCharToTypeId(s[j]) = "unknown"
     \/ Count(Letters(s), k) > Len(s) - 2

\* ReadSignature folds ReadChar over the string.
CharRead(s, x, char) == ReadChar(x, char)
SoundOrBroken(s, k, x) == Sound(s, x, k) \/ Broken(s, x, k)
Chars == INSTANCE Folding WITH Op <- CharRead, Good <- SoundOrBroken

LEMMA ReadsChars ==
  ASSUME NEW s
  PROVE  ReadSignature(s) = Chars!Folded(s, Started(Len(s)), s)
  BY DEF ReadSignature, Started, CharRead, FoldLeft, MapThenFoldSet, Max,
         Chars!Folded, Chars!MapThenFoldSet, Chars!Largest

------------------------------------------------------------------------------
(* Letters, counted *)

LEMMA Counted ==
  ASSUME NEW n \in Nat, NEW places \in SUBSET (1..n)
  PROVE  /\ Count(places, 0) = 0 /\ Count(places, n) = Cardinality(places)
         /\ \A k \in 0..n : Count(places, k) \in Nat
         /\ \A k \in 1..n :
              Count(places, k) = Count(places, k - 1) + (IF k \in places THEN 1 ELSE 0)
<1>1. \A k \in 0..n : IsFiniteSet(places \cap (1..k))
  <2>1. TAKE k \in 0..n
  <2>2. IsFiniteSet(1..k)
    BY FS_Interval
  <2> QED  BY <2>2, FS_Subset, places \cap (1..k) \subseteq 1..k
<1>2. \A k \in 0..n : Count(places, k) \in Nat
  BY <1>1, FS_CardinalityType DEF Count
<1>3. Count(places, 0) = 0
  BY FS_EmptySet, places \cap (1..0) = {} DEF Count
<1>4. ASSUME NEW k \in 1..n
      PROVE  Count(places, k) = Count(places, k - 1) + (IF k \in places THEN 1 ELSE 0)
  <2>1. k - 1 \in 0..n
    OBVIOUS
  <2>2. CASE k \in places
    <3>1. places \cap (1..k) = (places \cap (1..(k - 1))) \cup {k}
      BY <2>2
    <3>2. k \notin places \cap (1..(k - 1))
      OBVIOUS
    <3> QED  BY <1>1, <2>1, <2>2, <3>1, <3>2, FS_AddElement DEF Count
  <2>3. CASE k \notin places
    <3>1. places \cap (1..k) = places \cap (1..(k - 1))
      BY <2>3
    <3> QED  BY <1>2, <2>1, <2>3, <3>1 DEF Count
  <2> QED  BY <2>2, <2>3
<1>5. Count(places, n) = Cardinality(places)
  BY places \cap (1..n) = places DEF Count
<1> QED  BY <1>2, <1>3, <1>4, <1>5

\* There is a first, a second, ... and a last of the places.
LEMMA Nth ==
  ASSUME NEW n \in Nat, NEW places \in SUBSET (1..n)
  PROVE  \A m \in 1..Cardinality(places) : \E k \in places : Count(places, k) = m
<1> DEFINE T == {k \in Nat : \A m \in 1..Count(places, k) : \E j \in places : Count(places, j) = m}
<1>1. 0 \in T
  BY Counted
<1>2. \A k \in 1..n : Count(places, k) = Count(places, k - 1) + (IF k \in places THEN 1 ELSE 0)
  BY Counted
<1>3. ASSUME NEW k \in 1..n, k - 1 \in T  PROVE k \in T
  <2>1. ASSUME NEW m \in 1..Count(places, k)  PROVE \E j \in places : Count(places, j) = m
    <3>1. Count(places, k) = Count(places, k - 1) + (IF k \in places THEN 1 ELSE 0)
      BY <1>2
    <3>2. Count(places, k) \in Nat /\ Count(places, k - 1) \in Nat
      BY Counted, k - 1 \in 0..n, k \in 0..n
    <3>3. CASE m <= Count(places, k - 1)
      BY <1>3, <3>2, <3>3
    <3>4. CASE ~(m <= Count(places, k - 1))
      <4>1. k \in places /\ m = Count(places, k)
        BY <3>1, <3>2, <3>4
      <4> QED  BY <4>1
    <3> QED  BY <3>3, <3>4
  <2> QED  BY <2>1
<1> HIDE DEF T
<1>4. n \in T
  BY <1>1, <1>3, Chars!UpTo, n \in 0..n
<1> QED  BY <1>4, Counted DEF T

\* Each of the places adds to the count.
LEMMA CountGrows ==
  ASSUME NEW n \in Nat, NEW places \in SUBSET (1..n), NEW j \in places, NEW k \in j..n
  PROVE  Count(places, j) \in 1..Count(places, k)
<1> DEFINE T == {i \in Nat : i >= j /\ i <= n => Count(places, j) <= Count(places, i)}
<1>1. \A i \in 1..n : Count(places, i) = Count(places, i - 1) + (IF i \in places THEN 1 ELSE 0)
  BY Counted
<1>2. \A i \in 0..n : Count(places, i) \in Nat
  BY Counted
<1>3. j \in 1..n /\ j - 1 \in 0..n
  OBVIOUS
<1>4. 0 \in T
  BY <1>3
<1>5. ASSUME NEW i \in 1..n, i - 1 \in T  PROVE i \in T
  <2>1. CASE i <= j
    BY <1>2, <1>3, <2>1
  <2>2. CASE i > j
    <3>1. Count(places, j) <= Count(places, i - 1)
      BY <1>3, <1>5, <2>2
    <3> QED  BY <1>1, <1>2, <1>3, <3>1, i - 1 \in 0..n, i \in 0..n
  <2> QED  BY <2>1, <2>2, <1>3
<1> HIDE DEF T
<1>6. k \in T
  BY <1>3, <1>4, <1>5, Chars!UpTo, k \in 0..n
<1>7. Count(places, j) <= Count(places, k)
  BY <1>3, <1>6 DEF T
<1>8. Count(places, j) > 0
  BY <1>1, <1>2, <1>3
<1> QED  BY <1>2, <1>3, <1>7, <1>8, j \in 0..n, k \in 0..n

LEMMA LettersCounted ==
  ASSUME NEW C, NEW s \in Seq(C), NEW k \in 1..Len(s)
  PROVE  /\ Len(s) \in Nat /\ k \in Nat
         /\ Count(Letters(s), k - 1) \in Nat /\ Count(ResultLetters(s), k - 1) \in Nat
         /\ Count(Letters(s), k) = Count(Letters(s), k - 1) + (IF k \in Letters(s) THEN 1 ELSE 0)
         /\ Count(ResultLetters(s), k)
              = Count(ResultLetters(s), k - 1) + (IF k \in ResultLetters(s) THEN 1 ELSE 0)
<1>1. Len(s) \in Nat /\ k \in Nat /\ k - 1 \in 0..Len(s)
  OBVIOUS
<1>2. \A places \in SUBSET (1..Len(s)) :
        /\ Count(places, k - 1) \in Nat
        /\ Count(places, k) = Count(places, k - 1) + (IF k \in places THEN 1 ELSE 0)
  BY <1>1, Counted
<1> QED  BY <1>1, <1>2, LettersInside

LEMMA SoundStart ==
  ASSUME NEW C, NEW s \in Seq(C), Len(s) >= 2
  PROVE  Sound(s, Started(Len(s)), 0)
<1>1. ~Opened(s, 0) /\ ~Closed(s, 0)
  BY 1..0 = {} DEF Opened, Closed
<1>2. Count(Letters(s), 0) = 0 /\ Count(ResultLetters(s), 0) = 0
  BY LettersInside, Counted, Len(s) \in Nat
<1>3. ~ \E j \in Letters(s) : j <= 0
  BY LettersInside
<1>4. Fits(s, Started(Len(s))) /\ HasRead(s, Started(Len(s)).types, 0)
  BY <1>2, <1>3 DEF Fits, HasRead, Started
<1> QED  BY <1>1, <1>2, <1>4 DEF Sound, IsReader, Started

LEMMA Switched ==
  ASSUME NEW s, NEW x, IsReader(s, x), NEW to
  PROVE  [x EXCEPT !.parsingRets = to]
           = [at |-> x.at, parsingRets |-> to, result |-> x.result,
              numRets |-> x.numRets, types |-> x.types, maxNumTypes |-> Len(s) - 2]
  BY DEF IsReader

\* A character that is no letter.
LEMMA SoundPasses ==
  ASSUME NEW C, NEW s \in Seq(C), NEW k \in 1..Len(s), NEW x,
         Sound(s, x, k - 1), k \notin Letters(s)
  PROVE  Sound(s, ReadChar(x, s[k]), k)
<1> DEFINE y == ReadChar(x, s[k])
<1>1. k \notin ResultLetters(s)
  BY DEF ResultLetters
<1>2. Count(Letters(s), k) = Count(Letters(s), k - 1)
      /\ Count(ResultLetters(s), k) = Count(ResultLetters(s), k - 1)
  BY <1>1, LettersCounted
<1>3. HasRead(s, x.types, k)
  <2>1. \A j \in Letters(s) : j <= k => j <= k - 1
    BY LettersCounted, LettersInside
  <2> QED  BY <1>2, <2>1 DEF Sound, HasRead
<1>4. CASE Closed(s, k - 1)
  <2>1. Closed(s, k)
    BY <1>4, LetterAt
  <2>2. y = x
    BY <1>4 DEF ReadChar, Sound
  <2> QED  BY <1>2, <1>3, <1>4, <2>1, <2>2 DEF Sound
<1>5. CASE ~Closed(s, k - 1)
  <2>1. s[k] \in {"v", " ", "(", ")"}
    BY <1>5, LetterAt
  <2>2. x.at = "types"
    BY <1>5 DEF Sound
  <2>3. CASE s[k] \in {" ", "v"}
    <3>1. y = x
      <4>1. CASE s[k] = " "
        BY <2>2, <4>1 DEF ReadChar
      <4>2. CASE s[k] = "v"
        <5>1. ConvertTypeCharToTypeId(s[k]) = "none"
          BY <4>2 DEF ConvertTypeCharToTypeId
        <5> QED  BY <2>2, <4>2, <5>1 DEF ReadChar, ValueType
      <4> QED  BY <2>3, <4>1, <4>2
    <3>2. ~Closed(s, k) /\ (Opened(s, k) <=> Opened(s, k - 1))
      BY <1>5, <2>3, LetterAt
    <3> QED  BY <1>2, <1>3, <1>5, <3>1, <3>2 DEF Sound
  <2>4. CASE s[k] = "("
    <3>1. y = [x EXCEPT !.parsingRets = FALSE]
      BY <2>2, <2>4 DEF ReadChar
    <3>2. ~Closed(s, k) /\ Opened(s, k)
      BY <1>5, <2>4, LetterAt
    <3>3. /\ IsReader(s, y) /\ y.parsingRets = FALSE /\ y.at = x.at /\ y.result = x.result
          /\ y.numRets = x.numRets /\ y.types = x.types
      <4>1. IsReader(s, x)
        BY DEF Sound
      <4>2. y = [at |-> x.at, parsingRets |-> FALSE, result |-> x.result,
                 numRets |-> x.numRets, types |-> x.types, maxNumTypes |-> Len(s) - 2]
        BY <3>1, <4>1, Switched
      <4> QED  BY <4>2 DEF IsReader
    <3> QED  BY <1>2, <1>3, <1>5, <3>2, <3>3 DEF Sound, Fits
  <2>5. CASE s[k] = ")"
    <3>1. y = [x EXCEPT !.at = "end"]
      BY <2>2, <2>5 DEF ReadChar
    <3>2. Closed(s, k)
      BY <2>5, LetterAt
    <3>3. /\ IsReader(s, y) /\ y.at = "end" /\ y.result = x.result
          /\ y.numRets = x.numRets /\ y.types = x.types
      BY <3>1 DEF Sound, IsReader
    <3> QED  BY <1>2, <1>3, <1>5, <3>2, <3>3 DEF Sound, Fits
  <2> QED  BY <2>1, <2>3, <2>4, <2>5
<1> QED  BY <1>4, <1>5

\* A letter.
LEMMA SoundReads ==
  ASSUME NEW C, NEW s \in Seq(C), NEW k \in 1..Len(s), NEW x,
         Sound(s, x, k - 1), k \in Letters(s)
  PROVE  Sound(s, ReadChar(x, s[k]), k) \/ Broken(s, ReadChar(x, s[k]), k)
<1> DEFINE y == ReadChar(x, s[k])
           type == ConvertTypeCharToTypeId(s[k])
           c == Count(Letters(s), k - 1)
<1>1. Len(s) \in Nat /\ k \in Nat /\ c \in Nat /\ Count(Letters(s), k) = c + 1
  BY LettersCounted
<1>2. ~Closed(s, k - 1) /\ s[k] \notin {"v", " ", "(", ")"}
  BY LetterAt
<1>3. ~Closed(s, k) /\ (Opened(s, k) <=> Opened(s, k - 1))
  BY <1>2, LetterAt
<1>4. x.at = "types" /\ x.maxNumTypes = Len(s) - 2 /\ Len(x.types) = c
      /\ x.types \in Seq(ValueType) /\ c <= Len(s) - 2
  <2>1. x.maxNumTypes = Len(s) - 2
    BY DEF Sound, IsReader
  <2>2. x.at = "types"
    BY <1>2 DEF Sound
  <2> QED  BY <2>1, <2>2 DEF Sound, Fits, HasRead
<1>5. type \in ValueType \cup {"unknown"}
  BY <1>2, TypeOfChar
<1>6. "unknown" \notin ValueType /\ "none" \notin ValueType
  BY DEF ValueType
<1>7. CASE type = "unknown"
  <2>1. y = [x EXCEPT !.at = "end", !.result = "unknown argument type char"]
    BY <1>2, <1>4, <1>6, <1>7 DEF ReadChar
  <2>2. y.at = "end" /\ y.result # "none" /\ y.types = x.types
    BY <2>1 DEF Sound, IsReader
  <2> QED  BY <1>4, <1>7, <2>2 DEF Broken, Fits
<1>8. CASE type # "unknown" /\ Full(x)
  <2>1. y = [x EXCEPT !.at = "end", !.result = "count overflow"]
    BY <1>2, <1>4, <1>5, <1>6, <1>8 DEF ReadChar
  <2>2. y.at = "end" /\ y.result # "none" /\ y.types = x.types
    BY <2>1 DEF Sound, IsReader
  <2>3. c >= Len(s) - 2
    <3>1. CASE Opened(s, k - 1)
      <4>1. x.parsingRets = FALSE
        BY <1>2, <3>1 DEF Sound
      <4> QED  BY <1>4, <1>8, <4>1 DEF Full
    <3>2. CASE ~Opened(s, k - 1)
      <4>1. x.parsingRets = TRUE /\ x.numRets = c
        BY <1>2, <1>4, <3>2 DEF Sound
      <4> QED  BY <1>4, <1>8, <4>1 DEF Full
    <3> QED  BY <3>1, <3>2
  <2>4. c + 1 > Len(s) - 2
    BY <1>1, <2>3
  <2> QED  BY <1>1, <1>4, <2>2, <2>4 DEF Broken, Fits
<1>9. CASE type # "unknown" /\ ~Full(x)
  <2>1. y = AddType(x, type)
    BY <1>2, <1>4, <1>5, <1>6, <1>9 DEF ReadChar
  <2>2. /\ IsReader(s, y) /\ y.at = "types" /\ y.result = "none"
        /\ y.types = Append(x.types, type) /\ y.parsingRets = x.parsingRets
        /\ x.parsingRets = TRUE => y.numRets = x.numRets + 1
        /\ x.parsingRets = FALSE => y.numRets = x.numRets
    BY <1>4, <2>1 DEF AddType, Sound, IsReader
  <2>3. /\ y.types \in Seq(ValueType) /\ Len(y.types) = c + 1 /\ y.types[c + 1] = type
        /\ \A i \in 1..c : y.types[i] = x.types[i]
    BY <1>4, <1>5, <1>9, <2>2
  <2>4. HasRead(s, y.types, k)
    <3>1. ASSUME NEW j \in Letters(s), j <= k
          PROVE  /\ y.types[Count(Letters(s), j)] = ConvertTypeCharToTypeId(s[j])
                 /\ ConvertTypeCharToTypeId(s[j]) # "unknown"
      <4>1. CASE j = k
        BY <1>1, <1>9, <2>3, <4>1
      <4>2. CASE j # k
        <5>1. j \in 1..Len(s) /\ k - 1 \in j..Len(s) /\ j <= k - 1
          BY <1>1, <3>1, <4>2, LettersInside
        <5>2. x.types[Count(Letters(s), j)] = ConvertTypeCharToTypeId(s[j])
              /\ ConvertTypeCharToTypeId(s[j]) # "unknown"
          BY <5>1 DEF Sound, HasRead
        <5>3. Count(Letters(s), j) \in 1..c
          BY <1>1, <5>1, LettersInside, CountGrows
        <5> QED  BY <2>3, <5>2, <5>3
      <4> QED  BY <4>1, <4>2
    <3> QED  BY <1>1, <2>3, <3>1 DEF HasRead
  <2>5. CASE Opened(s, k - 1)
    <3>1. x.parsingRets = FALSE /\ c < Len(s) - 2
      <4>1. x.parsingRets = FALSE
        BY <1>2, <2>5 DEF Sound
      <4> QED  BY <1>1, <1>4, <1>9, <4>1 DEF Full
    <3>2. y.numRets = Count(ResultLetters(s), k)
      <4>1. k \notin ResultLetters(s)
        BY <2>5, LetterAt
      <4>2. Count(ResultLetters(s), k) = Count(ResultLetters(s), k - 1)
        BY <4>1, LettersCounted
      <4> QED  BY <2>2, <3>1, <4>2 DEF Sound
    <3>3. Fits(s, y)
      BY <1>1, <2>3, <3>1 DEF Fits
    <3> QED  BY <1>3, <2>2, <2>4, <2>5, <3>1, <3>2, <3>3 DEF Sound
  <2>6. CASE ~Opened(s, k - 1)
    <3>1. x.parsingRets = TRUE /\ x.numRets = c /\ c < Len(s) - 2
      <4>1. x.parsingRets = TRUE /\ x.numRets = c
        BY <1>2, <1>4, <2>6 DEF Sound
      <4> QED  BY <1>1, <1>4, <1>9, <4>1 DEF Full
    <3>2. y.numRets = Count(ResultLetters(s), k)
      <4>1. k \in ResultLetters(s)
        BY <2>6, LetterAt
      <4>2. Count(ResultLetters(s), k) = Count(ResultLetters(s), k - 1) + 1
        BY <4>1, LettersCounted
      <4> QED  BY <2>2, <3>1, <4>2 DEF Sound
    <3>3. Fits(s, y)
      BY <1>1, <2>3, <3>1 DEF Fits
    <3> QED  BY <1>3, <2>2, <2>3, <2>4, <2>6, <3>1, <3>2, <3>3 DEF Sound
  <2> QED  BY <2>5, <2>6
<1> QED  BY <1>7, <1>8, <1>9

\* After an error nothing changes.
LEMMA BrokenStays ==
  ASSUME NEW C, NEW s \in Seq(C), NEW k \in 1..Len(s), NEW x, Broken(s, x, k - 1)
  PROVE  Broken(s, ReadChar(x, s[k]), k)
<1>1. ReadChar(x, s[k]) = x
  BY DEF Broken, ReadChar
<1>2. /\ Count(Letters(s), k) = Count(Letters(s), k - 1) + (IF k \in Letters(s) THEN 1 ELSE 0)
      /\ Count(Letters(s), k - 1) \in Nat /\ Len(s) \in Nat
  BY LettersCounted
<1> QED  BY <1>1, <1>2 DEF Broken

LEMMA ReaderEnds ==
  ASSUME NEW C, NEW s \in Seq(C), Len(s) >= 2
  PROVE  Sound(s, ReadSignature(s), Len(s)) \/ Broken(s, ReadSignature(s), Len(s))
<1>1. SoundOrBroken(s, 0, Started(Len(s)))
  BY SoundStart DEF SoundOrBroken
<1>2. ASSUME NEW k \in 1..Len(s), NEW x, SoundOrBroken(s, k - 1, x)
      PROVE  SoundOrBroken(s, k, CharRead(s, x, s[k]))
  <2>1. CASE Broken(s, x, k - 1)
    BY <2>1, BrokenStays DEF SoundOrBroken, CharRead
  <2>2. CASE Sound(s, x, k - 1)
    BY <2>2, SoundPasses, SoundReads DEF SoundOrBroken, CharRead
  <2> QED  BY <1>2, <2>1, <2>2 DEF SoundOrBroken
<1>3. SoundOrBroken(s, Len(s), Chars!Folded(s, Started(Len(s)), s))
  BY <1>1, <1>2, Chars!Invariant
<1> QED  BY <1>3, ReadsChars DEF SoundOrBroken

\* The types that were read are those of the letters, in order.
LEMMA TypesRead ==
  ASSUME NEW C, NEW s \in Seq(C), NEW x, Sound(s, x, Len(s))
  PROVE  x.types = TypesOf(s, Letters(s)) /\ x.numRets = Cardinality(ResultLetters(s))
<1> DEFINE L == Letters(s)
           nth(n) == CHOOSE k \in L : Cardinality({j \in L : j <= k}) = n
<1>1. Len(s) \in Nat /\ L \in SUBSET (1..Len(s))
  BY LettersInside
<1>2. Count(L, Len(s)) = Cardinality(L)
      /\ Count(ResultLetters(s), Len(s)) = Cardinality(ResultLetters(s))
  BY <1>1, LettersInside, Counted
<1>3. x.types \in Seq(ValueType) /\ Len(x.types) = Cardinality(L)
  BY <1>2 DEF Sound, Fits, HasRead
<1>4. ASSUME NEW n \in 1..Cardinality(L)
      PROVE  x.types[n] = ConvertTypeCharToTypeId(s[nth(n)])
  <2>1. \A k \in L : {j \in L : j <= k} = L \cap (1..k)
    BY <1>1
  <2>2. \E k \in L : Cardinality({j \in L : j <= k}) = n
    <3>1. PICK k \in L : Count(L, k) = n
      BY <1>1, Nth
    <3>2. {j \in L : j <= k} = L \cap (1..k)
      BY <2>1
    <3>3. Cardinality({j \in L : j <= k}) = n
      BY <3>1, <3>2 DEF Count
    <3> QED  BY <3>3
  <2>3. nth(n) \in L /\ Cardinality({j \in L : j <= nth(n)}) = n
    BY <2>2
  <2> HIDE DEF nth
  <2>4. Count(L, nth(n)) = n /\ nth(n) <= Len(s)
    <3>1. {j \in L : j <= nth(n)} = L \cap (1..nth(n))
      BY <2>1, <2>3
    <3>2. Cardinality(L \cap (1..nth(n))) = n
      BY <2>3, <3>1
    <3> QED  BY <1>1, <2>3, <3>2 DEF Count
  <2> QED  BY <2>3, <2>4 DEF Sound, HasRead
<1>5. TypesOf(s, L) = [n \in 1..Cardinality(L) |-> ConvertTypeCharToTypeId(s[nth(n)])]
  BY DEF TypesOf
<1> HIDE DEF nth, L
<1>6. x.types = [n \in 1..Cardinality(L) |-> x.types[n]]
  BY <1>3
<1>7. x.types = TypesOf(s, L)
  BY <1>4, <1>5, <1>6
<1> QED  BY <1>2, <1>7 DEF Sound, L

LEMMA StringRead ==
  ASSUME NEW C, NEW s \in Seq(C)
  PROVE  /\ Len(s) >= 2 => Len(ReadSignature(s).types) <= Len(s) - 2
         /\ IF WellFormed(s)
            THEN SignatureToFuncType(s)
                   = FuncType(Cardinality(ResultLetters(s)), TypesOf(s, Letters(s)))
            ELSE SignatureToFuncType(s).result # "none"
<1> DEFINE x == ReadSignature(s)
<1>1. Len(s) \in Nat /\ MaxSaneTypes \in Nat
  BY SignaturesAssumption
<1>2. Count(Letters(s), Len(s)) = Cardinality(Letters(s))
      /\ \A j \in Letters(s) : j \in Nat /\ j <= Len(s)
  BY <1>1, LettersInside, Counted
<1>3. CASE Len(s) < 2
  <2>1. SignatureToFuncType(s) = Refused("malformedFunctionSignature")
    BY <1>1, <1>3 DEF SignatureToFuncType
  <2> QED  BY <1>1, <1>3, <2>1 DEF WellFormed, Refused
<1>4. CASE Len(s) >= 2 /\ Sound(s, x, Len(s))
  <2>1. Len(x.types) <= Len(s) - 2 /\ x.result = "none" /\ Len(x.types) = Cardinality(Letters(s))
    BY <1>2, <1>4 DEF Sound, Fits, HasRead
  <2>2. \A j \in Letters(s) : ConvertTypeCharToTypeId(s[j]) # "unknown"
    BY <1>2, <1>4 DEF Sound, HasRead
  <2>3. CASE Len(s) - 2 > MaxSaneTypes
    <3>1. SignatureToFuncType(s) = Refused("tooManyArgsRets")
      BY <1>1, <1>4, <2>3 DEF SignatureToFuncType
    <3> QED  BY <1>1, <2>1, <2>3, <3>1 DEF WellFormed, Refused
  <2>4. CASE Len(s) - 2 <= MaxSaneTypes
    <3>1. SignatureToFuncType(s) = FuncType(x.numRets, x.types)
      BY <1>1, <1>4, <2>1, <2>4 DEF SignatureToFuncType
    <3>2. WellFormed(s)
      BY <1>4, <2>1, <2>2, <2>4 DEF WellFormed
    <3> QED  BY <1>4, <2>1, <3>1, <3>2, TypesRead
  <2> QED  BY <1>1, <2>3, <2>4
<1>5. CASE Len(s) >= 2 /\ Broken(s, x, Len(s))
  <2>1. Len(x.types) <= Len(s) - 2 /\ x.result # "none"
    BY <1>5 DEF Broken, Fits
  <2>2. ~WellFormed(s)
    BY <1>1, <1>2, <1>5, FS_CardinalityType, LettersInside, Counted DEF WellFormed, Broken
  <2>3. SignatureToFuncType(s)
          \in {Refused("tooManyArgsRets"), Refused(x.result)}
    BY <1>1, <1>5, <2>1 DEF SignatureToFuncType
  <2> QED  BY <2>1, <2>2, <2>3 DEF Refused
<1> QED  BY <1>1, <1>3, <1>4, <1>5, ReaderEnds

------------------------------------------------------------------------------
(* The string the package writes *)

Char == {"v", "i", "I", "f", "F", "(", ")", " "}

LEMMA Identified ==
  ASSUME NEW type \in ValueType
  PROVE  /\ identifier(type) \in {"i", "I", "f", "F"}
         /\ ConvertTypeCharToTypeId(identifier(type)) = type
  BY DEF ValueType, identifier, ConvertTypeCharToTypeId

\* Characters between the brackets.
Between(n) == IF n = 0 THEN 0 ELSE 2 * n - 1

ResultChar(rets) == IF rets = <<>> THEN "v" ELSE identifier(rets[1])
ArgumentChar(args, i) == IF i % 2 = 1 THEN identifier(args[(i + 1) \div 2]) ELSE " "

LEMMA CharsOfArguments ==
  ASSUME NEW args \in Seq(ValueType), NEW i \in 1..Between(Len(args))
  PROVE  /\ ArgumentChar(args, i) \in Char
         /\ i % 2 = 1 =>
              /\ (i + 1) \div 2 \in 1..Len(args) /\ args[(i + 1) \div 2] \in ValueType
              /\ ArgumentChar(args, i) = identifier(args[(i + 1) \div 2])
         /\ i % 2 # 1 => ArgumentChar(args, i) = " "
<1>1. CASE i % 2 = 1
  <2>1. (i + 1) \div 2 \in 1..Len(args)
    BY <1>1 DEF Between
  <2>2. args[(i + 1) \div 2] \in ValueType
    BY <2>1
  <2>3. ArgumentChar(args, i) = identifier(args[(i + 1) \div 2])
    BY <1>1 DEF ArgumentChar
  <2> QED  BY <1>1, <2>1, <2>2, <2>3, Identified DEF Char
<1>2. CASE i % 2 # 1
  BY <1>2 DEF ArgumentChar, Char
<1> QED  BY <1>1, <1>2

LEMMA Joined ==
  ASSUME NEW S, NEW u \in Seq(S), NEW c \in S
  PROVE  /\ u \o <<c>> \in Seq(S) /\ Len(u \o <<c>>) = Len(u) + 1
         /\ (u \o <<c>>)[Len(u) + 1] = c /\ \A j \in 1..Len(u) : (u \o <<c>>)[j] = u[j]
<1>1. <<c>> \in Seq(S) /\ Len(<<c>>) = 1 /\ <<c>>[1] = c /\ Len(u) \in Nat
  OBVIOUS
<1> QED  BY <1>1, ConcatProperties

LEMMA Written ==
  ASSUME NEW args \in Seq(ValueType), NEW rets \in Results,
         NEW s, s = signature(args, rets), NEW n, n = Between(Len(args))
  PROVE  /\ s \in Seq(Char) /\ Len(s) = n + 3 /\ n \in Nat
         /\ s[1] = ResultChar(rets) /\ s[2] = "(" /\ s[n + 3] = ")"
         /\ \A i \in 1..n : s[i + 2] = ArgumentChar(args, i)
<1> DEFINE body == [i \in 1..n |-> ArgumentChar(args, i)]
           front == <<ResultChar(rets)>> \o <<"(">>
           middle == front \o body
<1>1. Len(args) \in Nat /\ (args = <<>> <=> Len(args) = 0) /\ n \in Nat
  BY DEF Between
<1>2. s = middle \o <<")">>
  <2>1. (IF rets = <<>> THEN <<"v">> ELSE <<identifier(rets[1])>>) = <<ResultChar(rets)>>
    BY DEF ResultChar
  <2>2. (IF args = <<>> THEN 0 ELSE 2 * Len(args) - 1) = n
    BY <1>1 DEF Between
  <2> QED  BY <2>1, <2>2 DEF signature, ArgumentChar
<1>3. ResultChar(rets) \in Char /\ "(" \in Char /\ ")" \in Char
  <2>1. CASE rets = <<>>
    BY <2>1 DEF ResultChar, Char
  <2>2. CASE rets # <<>>
    <3>1. rets[1] \in ValueType
      BY <2>2 DEF Results
    <3> QED  BY <2>2, <3>1, Identified DEF ResultChar, Char
  <2> QED  BY <2>1, <2>2 DEF Char
<1>4. body \in Seq(Char) /\ Len(body) = n /\ \A i \in 1..n : body[i] = ArgumentChar(args, i)
  <2>1. \A i \in 1..n : ArgumentChar(args, i) \in Char
    BY CharsOfArguments
  <2>2. body \in [1..n -> Char]
    BY <2>1
  <2>3. \A i \in 1..n : body[i] = ArgumentChar(args, i)
    OBVIOUS
  <2> HIDE DEF body
  <2> QED  BY <1>1, <2>2, <2>3
<1> HIDE DEF body
<1>5. front \in Seq(Char) /\ Len(front) = 2 /\ front[1] = ResultChar(rets) /\ front[2] = "("
  <2>1. <<ResultChar(rets)>> \in Seq(Char) /\ Len(<<ResultChar(rets)>>) = 1
        /\ <<ResultChar(rets)>>[1] = ResultChar(rets)
    BY <1>3
  <2> QED  BY <1>3, <2>1, Joined
<1> HIDE DEF front
<1>6. /\ middle \in Seq(Char) /\ Len(middle) = n + 2
      /\ middle[1] = ResultChar(rets) /\ middle[2] = "("
      /\ \A i \in 1..n : middle[i + 2] = body[i]
  <2>1. /\ middle \in Seq(Char) /\ Len(middle) = 2 + n
        /\ \A i \in 1..2 + n : middle[i] = IF i <= 2 THEN front[i] ELSE body[i - 2]
    <3>1. /\ middle \in Seq(Char) /\ Len(middle) = Len(front) + Len(body)
          /\ \A i \in 1..Len(front) + Len(body) :
               middle[i] = IF i <= Len(front) THEN front[i] ELSE body[i - Len(front)]
      BY <1>4, <1>5, ConcatProperties
    <3> HIDE DEF middle
    <3> QED  BY <1>4, <1>5, <3>1
  <2> HIDE DEF middle
  <2>2. \A i \in 1..n : i + 2 \in 1..2 + n /\ ~(i + 2 <= 2) /\ (i + 2) - 2 = i
    BY <1>1
  <2>3. 1 \in 1..2 + n /\ 2 \in 1..2 + n
    BY <1>1
  <2> QED  BY <1>1, <1>5, <2>1, <2>2, <2>3
<1> HIDE DEF middle
<1>7. /\ s \in Seq(Char) /\ Len(s) = n + 3 /\ s[n + 3] = ")"
      /\ \A i \in 1..n + 2 : s[i] = middle[i]
  <2>1. Len(middle) + 1 = n + 3
    BY <1>1, <1>6
  <2> QED  BY <1>2, <1>3, <1>6, <2>1, Joined
<1>8. \A i \in 1..n : s[i + 2] = ArgumentChar(args, i)
  <2>1. \A i \in 1..n : i + 2 \in 1..n + 2
    BY <1>1
  <2> QED  BY <1>4, <1>6, <1>7, <2>1
<1>9. 1 \in 1..n + 2 /\ 2 \in 1..n + 2
  BY <1>1
<1> QED  BY <1>1, <1>6, <1>7, <1>8, <1>9

\* The first c types of the list have been read.
Begun(s, x, list, c) ==
  /\ IsReader(s, x) /\ x.at = "types" /\ x.result = "none"
  /\ x.types \in Seq(ValueType) /\ Len(x.types) = c
  /\ \A j \in 1..c : x.types[j] = list[j]

\* Results are counted as they are read, arguments are not.
CountsResults(x, c) == (x.parsingRets = TRUE /\ x.numRets = c) \/ x.parsingRets = FALSE
ResultsAfter(x, y) ==
  /\ y.parsingRets = x.parsingRets
  /\ x.parsingRets = TRUE => y.numRets = x.numRets + 1
  /\ x.parsingRets = FALSE => y.numRets = x.numRets

LEMMA ReadsType ==
  ASSUME NEW s, NEW x, NEW list, NEW c \in Nat, NEW char \in {"i", "I", "f", "F"},
         Begun(s, x, list, c), Len(s) \in Nat, c < Len(s) - 2,
         list[c + 1] = ConvertTypeCharToTypeId(char),
         CountsResults(x, c), NEW y, y = ReadChar(x, char)
  PROVE  Begun(s, y, list, c + 1) /\ ResultsAfter(x, y)
<1> DEFINE type == ConvertTypeCharToTypeId(char)
<1>1. type \in ValueType /\ type # "unknown" /\ type # "none"
  BY DEF ConvertTypeCharToTypeId, ValueType
<1>2. x.maxNumTypes = Len(s) - 2 /\ Len(x.types) = c /\ x.at = "types"
  BY DEF Begun, IsReader
<1>3. ~Full(x)
  BY <1>2 DEF Full, CountsResults
<1>4. y = AddType(x, type)
  BY <1>1, <1>2, <1>3 DEF ReadChar
<1>5. /\ IsReader(s, y) /\ y.at = "types" /\ y.result = "none"
      /\ y.types = Append(x.types, type) /\ y.parsingRets = x.parsingRets
      /\ x.parsingRets = TRUE => y.numRets = x.numRets + 1
      /\ x.parsingRets = FALSE => y.numRets = x.numRets
  <2>1. IsReader(s, x) /\ x.result = "none"
    BY DEF Begun
  <2> QED  BY <1>2, <1>4, <2>1 DEF AddType, IsReader
<1>6. /\ y.types \in Seq(ValueType) /\ Len(y.types) = c + 1 /\ y.types[c + 1] = type
      /\ \A i \in 1..c : y.types[i] = x.types[i]
  BY <1>1, <1>5 DEF Begun
<1>7. \A j \in 1..c + 1 : y.types[j] = list[j]
  BY <1>6 DEF Begun
<1> QED  BY <1>5, <1>6, <1>7 DEF Begun, ResultsAfter

LEMMA ResultLists ==
  ASSUME NEW rets \in Results
  PROVE  rets \in Seq(ValueType) /\ Len(rets) \in 0..1 /\ (rets = <<>> <=> Len(rets) = 0)
<1>1. CASE rets = <<>>
  BY <1>1
<1>2. CASE rets # <<>>
  <2>1. PICK t \in ValueType : rets = <<t>>
    BY <1>2 DEF Results
  <2> QED  BY <2>1
<1> QED  BY <1>1, <1>2

SameItems(u, v) == \A k \in 1..Len(u) : u[k] = v[k]

LEMMA SameParts ==
  ASSUME NEW S, NEW a \in Seq(S), NEW b \in Seq(S), NEW c \in Seq(S), NEW d \in Seq(S),
         Len(a) = Len(c), Len(a \o b) - Len(a) = Len(c \o d) - Len(c),
         SameItems(a \o b, c \o d)
  PROVE  a = c /\ b = d
<1>1. Len(a) \in Nat /\ Len(b) \in Nat /\ Len(c) \in Nat /\ Len(d) \in Nat
  OBVIOUS
<1>2. Len(a \o b) = Len(a) + Len(b) /\ Len(c \o d) = Len(c) + Len(d)
  BY ConcatProperties
<1>3. Len(b) = Len(d)
  BY <1>1, <1>2
<1>4. ASSUME NEW k \in 1..Len(a)  PROVE a[k] = c[k]
  <2>1. k \in 1..Len(a) + Len(b) /\ k \in 1..Len(c) + Len(d) /\ k <= Len(a) /\ k <= Len(c)
    BY <1>1, <1>3
  <2>2. (a \o b)[k] = a[k] /\ (c \o d)[k] = c[k]
    BY <2>1, ConcatProperties
  <2> QED  BY <1>2, <2>1, <2>2 DEF SameItems
<1>5. ASSUME NEW k \in 1..Len(b)  PROVE b[k] = d[k]
  <2> DEFINE j == Len(a) + k
  <2>1. j \in 1..Len(a) + Len(b) /\ j \in 1..Len(c) + Len(d) /\ ~(j <= Len(a)) /\ ~(j <= Len(c))
        /\ j - Len(a) = k /\ j - Len(c) = k
    BY <1>1, <1>3
  <2> HIDE DEF j
  <2>2. (a \o b)[j] = b[k] /\ (c \o d)[j] = d[k]
    BY <2>1, ConcatProperties
  <2> QED  BY <1>2, <2>1, <2>2 DEF SameItems
<1> QED  BY <1>3, <1>4, <1>5, SeqEqual

LEMMA ReadBack ==
  ASSUME NEW args \in Seq(ValueType), NEW rets \in Results,
         2 * Len(args) <= MaxSaneTypes, MaxSaneTypes > 0
  PROVE  SignatureToFuncType(signature(args, rets)) = FuncType(Len(rets), rets \o args)
<1>1. SUFFICES ASSUME NEW s, s = signature(args, rets), NEW list, list = rets \o args,
                      NEW n, n = Between(Len(args))
               PROVE  SignatureToFuncType(s) = FuncType(Len(rets), list)
  OBVIOUS
<1> DEFINE c(i) == Len(rets) + ((i + 1) \div 2)
<1>2. n \in Nat /\ (n + 1) \div 2 = Len(args) /\ n < MaxSaneTypes /\ Len(args) \in Nat
      /\ (n > 0 => n = 2 * Len(args) - 1)
  <2>1. Len(args) \in Nat /\ MaxSaneTypes \in Nat
    BY SignaturesAssumption
  <2>2. CASE Len(args) = 0
    BY <1>1, <2>1, <2>2 DEF Between
  <2>3. CASE Len(args) # 0
    <3>1. n = 2 * Len(args) - 1
      BY <1>1, <2>3 DEF Between
    <3> QED  BY <2>1, <2>3, <3>1
  <2> QED  BY <2>2, <2>3
<1>3. s \in Seq(Char) /\ Len(s) = n + 3 /\ s[1] = ResultChar(rets) /\ s[2] = "(" /\ s[n + 3] = ")"
  BY <1>1, Written
<1>4. \A i \in 1..n : s[i + 2] = ArgumentChar(args, i)
  BY <1>1, Written
<1>5. rets \in Seq(ValueType) /\ Len(rets) \in 0..1 /\ (rets = <<>> <=> Len(rets) = 0)
  BY ResultLists
<1>6. /\ list \in Seq(ValueType) /\ Len(list) = Len(rets) + Len(args)
      /\ \A j \in 1..Len(rets) : list[j] = rets[j]
      /\ \A j \in 1..Len(args) : list[Len(rets) + j] = args[j]
  BY <1>1, <1>2, <1>5, ConcatProperties
<1>7. PICK r : Chars!Unfolds(r, s, Started(Len(s)), s)
  BY <1>3, Chars!Unfolded
<1>8. r[0] = Started(n + 3) /\ ReadSignature(s) = r[n + 3]
      /\ \A k \in 1..n + 3 : r[k] = ReadChar(r[k - 1], s[k])
  BY <1>3, <1>7, ReadsChars DEF Chars!Unfolds, CharRead
<1>9. r[1] = ReadChar(r[0], ResultChar(rets)) /\ r[2] = ReadChar(r[1], "(")
      /\ r[n + 3] = ReadChar(r[n + 2], ")")
  <2>1. 1 \in 1..n + 3 /\ 2 \in 1..n + 3 /\ n + 3 \in 1..n + 3
        /\ 1 - 1 = 0 /\ 2 - 1 = 1 /\ (n + 3) - 1 = n + 2
    BY <1>2
  <2> QED  BY <1>3, <1>8, <2>1
<1>10. Begun(s, r[0], list, 0) /\ r[0].parsingRets = TRUE /\ r[0].numRets = 0
  BY <1>2, <1>3, <1>8 DEF Begun, IsReader, Started
<1>11. /\ Begun(s, r[1], list, Len(rets)) /\ r[1].parsingRets = TRUE
       /\ r[1].numRets = Len(rets)
  <2>1. CASE rets = <<>>
    <3>1. ResultChar(rets) = "v" /\ ConvertTypeCharToTypeId("v") = "none"
      BY <2>1 DEF ConvertTypeCharToTypeId, ResultChar
    <3>2. r[1] = r[0]
      BY <1>9, <1>10, <3>1 DEF ReadChar, Begun, ValueType
    <3> QED  BY <1>5, <1>10, <2>1, <3>2
  <2>2. CASE rets # <<>>
    <3>1. Len(rets) = 1 /\ rets[1] \in ValueType /\ list[1] = rets[1]
      BY <1>5, <1>6, <2>2
    <3>2. ResultChar(rets) \in {"i", "I", "f", "F"}
          /\ ConvertTypeCharToTypeId(ResultChar(rets)) = list[1]
      BY <2>2, <3>1, Identified DEF ResultChar
    <3>3. 0 < Len(s) - 2 /\ Len(s) \in Nat
      BY <1>2, <1>3
    <3>4. list[0 + 1] = ConvertTypeCharToTypeId(ResultChar(rets))
      BY <3>2, 0 + 1 = 1
    <3>5. CountsResults(r[0], 0)
      BY <1>10 DEF CountsResults
    <3>6. Begun(s, r[1], list, 0 + 1) /\ ResultsAfter(r[0], r[1])
      BY <1>9, <1>10, <3>2, <3>3, <3>4, <3>5, ReadsType
    <3>7. 0 + 1 = Len(rets)
      BY <3>1
    <3> QED  BY <1>10, <3>6, <3>7 DEF ResultsAfter
  <2> QED  BY <2>1, <2>2
<1>12. /\ Begun(s, r[2], list, Len(rets)) /\ r[2].parsingRets = FALSE
       /\ r[2].numRets = Len(rets)
  <2>1. r[2] = [r[1] EXCEPT !.parsingRets = FALSE]
    BY <1>9, <1>11 DEF ReadChar, Begun
  <2>2. IsReader(s, r[1])
    BY <1>11 DEF Begun
  <2>3. r[2] = [at |-> r[1].at, parsingRets |-> FALSE, result |-> r[1].result,
                numRets |-> r[1].numRets, types |-> r[1].types, maxNumTypes |-> Len(s) - 2]
    BY <2>1, <2>2, Switched
  <2> QED  BY <1>11, <2>3 DEF Begun, IsReader
<1> DEFINE T == {i \in Nat : /\ Begun(s, r[i + 2], list, c(i)) /\ r[i + 2].parsingRets = FALSE
                            /\ r[i + 2].numRets = Len(rets)}
<1>13. 0 \in T
  <2>1. c(0) = Len(rets) /\ 0 + 2 = 2
    BY <1>5
  <2> HIDE DEF c
  <2> QED  BY <1>12, <2>1
<1>14. ASSUME NEW i \in 1..n, i - 1 \in T  PROVE i \in T
  <2>1. /\ Begun(s, r[i + 1], list, c(i - 1)) /\ r[i + 1].parsingRets = FALSE
        /\ r[i + 1].numRets = Len(rets)
    BY <1>14, (i - 1) + 2 = i + 1
  <2>2. r[i + 2] = ReadChar(r[i + 1], ArgumentChar(args, i))
    <3>1. i + 2 \in 1..n + 3 /\ (i + 2) - 1 = i + 1
      BY <1>2
    <3> QED  BY <1>4, <1>8, <3>1
  <2>3. CASE i % 2 = 1
    <3> DEFINE m == (i + 1) \div 2
    <3>1. m \in 1..Len(args) /\ args[m] \in ValueType /\ ArgumentChar(args, i) = identifier(args[m])
      BY <1>1, <2>3, CharsOfArguments
    <3>2. c(i - 1) + 1 = c(i) /\ c(i) = Len(rets) + m /\ c(i - 1) \in Nat /\ c(i - 1) <= Len(args)
      <4>1. i + 1 = 2 * m /\ i = 2 * (m - 1) + 1
        BY <1>2, <2>3
      <4>2. ((i - 1) + 1) \div 2 = m - 1 /\ m \in Nat
        BY <1>2, <3>1, <4>1
      <4>3. c(i) = Len(rets) + m /\ c(i - 1) = Len(rets) + (m - 1)
        BY <4>2
      <4>4. Len(rets) \in 0..1 /\ m \in 1..Len(args) /\ Len(args) \in Nat
        BY <1>2, <1>5, <3>1
      <4> HIDE DEF c, m
      <4>5. \A a, b \in Nat : a \in 0..1 /\ b \in 1..Len(args) =>
              (a + (b - 1)) + 1 = a + b /\ a + (b - 1) \in Nat /\ a + (b - 1) <= Len(args)
        BY <4>4
      <4>6. Len(rets) \in Nat /\ m \in Nat
        BY <4>4
      <4>7. /\ (Len(rets) + (m - 1)) + 1 = Len(rets) + m
            /\ Len(rets) + (m - 1) \in Nat /\ Len(rets) + (m - 1) <= Len(args)
        BY <4>4, <4>5, <4>6
      <4> QED  BY <4>3, <4>7
    <3>3. c(i - 1) < Len(s) - 2 /\ Len(s) \in Nat
      BY <1>2, <1>3, <1>5, <2>3, <3>1, <3>2
    <3> HIDE DEF c, m
    <3>4. ArgumentChar(args, i) \in {"i", "I", "f", "F"}
          /\ ConvertTypeCharToTypeId(ArgumentChar(args, i)) = list[c(i - 1) + 1]
      BY <1>6, <3>1, <3>2, Identified
    <3>5. c(i - 1) \in Nat /\ CountsResults(r[i + 1], c(i - 1))
      BY <2>1, <3>2 DEF CountsResults
    <3>6. Begun(s, r[i + 2], list, c(i - 1) + 1) /\ ResultsAfter(r[i + 1], r[i + 2])
      BY <2>1, <2>2, <3>3, <3>4, <3>5, ReadsType
    <3> QED  BY <2>1, <3>2, <3>6 DEF ResultsAfter
  <2>4. CASE i % 2 # 1
    <3>1. c(i) = c(i - 1)
      BY <1>2, <1>5, <2>4
    <3>2. ArgumentChar(args, i) = " "
      BY <1>1, <2>4, CharsOfArguments
    <3>3. r[i + 2] = r[i + 1]
      BY <2>2, <3>2 DEF ReadChar
    <3> HIDE DEF c
    <3> QED  BY <2>1, <3>1, <3>3
  <2> QED  BY <2>3, <2>4
<1> HIDE DEF T
<1>15. n \in T
  BY <1>2, <1>13, <1>14, Chars!UpTo, n \in 0..n
<1>16. Begun(s, r[n + 2], list, Len(list)) /\ r[n + 2].numRets = Len(rets)
  <2>1. c(n) = Len(list)
    BY <1>2, <1>6
  <2> HIDE DEF c
  <2> QED  BY <1>15, <2>1 DEF T
<1>17. r[n + 3] = [r[n + 2] EXCEPT !.at = "end"]
  BY <1>9, <1>16 DEF ReadChar, Begun
<1>18. /\ ReadSignature(s).result = "none" /\ ReadSignature(s).types = r[n + 2].types
       /\ ReadSignature(s).numRets = Len(rets)
  BY <1>8, <1>16, <1>17 DEF Begun, IsReader
<1>19. r[n + 2].types = list
  BY <1>6, <1>16, SeqEqual DEF Begun
<1>20. SignatureToFuncType(s) = FuncType(ReadSignature(s).numRets, ReadSignature(s).types)
  <2>1. ~(Len(s) < 2) /\ ~(Len(s) - 2 > MaxSaneTypes) /\ Len(s) - 2 \in 0..MaxSaneTypes
    BY <1>2, <1>3, SignaturesAssumption
  <2> QED  BY <1>18, <2>1 DEF SignatureToFuncType
<1> QED  BY <1>18, <1>19, <1>20

------------------------------------------------------------------------------
(* The theorem *)

LEMMA Lists ==
  ASSUME NEW args \in Arguments
  PROVE  args \in Seq(ValueType) /\ Len(args) <= MaxArgs
<1>1. PICK m \in 0..MaxArgs : args \in [1..m -> ValueType]
  BY DEF Arguments, BoundedSeq, SeqOf
<1> QED  BY <1>1, SignaturesAssumption

LEMMA Linked == BlocksLinked
<1>1. SUFFICES ASSUME NEW args \in Arguments, NEW rets \in Results
               PROVE  /\ \A others \in Arguments, other \in Results :
                           ValidateSignature(FuncType(Len(other), other \o others),
                                             signature(args, rets))
                             <=> others = args /\ other = rets
                      /\ \A k \in 1..Len(args) :
                           ArgumentPlace(k, rets) = StackPlace(k, FuncType(Len(rets), rets \o args))
  BY DEF BlocksLinked
<1>2. \A l \in Results :
        l \in Seq(ValueType) /\ Len(l) \in 0..1 /\ (l = <<>> <=> Len(l) = 0)
  BY ResultLists
<1>3. SignatureToFuncType(signature(args, rets)) = FuncType(Len(rets), rets \o args)
  <2>1. args \in Seq(ValueType) /\ 2 * Len(args) <= MaxSaneTypes /\ MaxSaneTypes > 0
    BY Lists, SignaturesAssumption
  <2> QED  BY <2>1, ReadBack
<1>4. ASSUME NEW others \in Arguments, NEW other \in Results
      PROVE  AreFuncTypesEqual(FuncType(Len(rets), rets \o args),
                               FuncType(Len(other), other \o others))
               <=> others = args /\ other = rets
  <2>1. /\ args \in Seq(ValueType) /\ others \in Seq(ValueType)
        /\ rets \in Seq(ValueType) /\ other \in Seq(ValueType)
    BY <1>2, Lists
  <2>2. CASE others = args /\ other = rets
    BY <2>2 DEF AreFuncTypesEqual, FuncType
  <2>3. ASSUME AreFuncTypesEqual(FuncType(Len(rets), rets \o args),
                                 FuncType(Len(other), other \o others))
        PROVE  others = args /\ other = rets
    <3>1. /\ Len(rets) = Len(other)
          /\ Len(rets \o args) - Len(rets) = Len(other \o others) - Len(other)
          /\ SameItems(rets \o args, other \o others)
      BY <2>3 DEF AreFuncTypesEqual, FuncType, SameItems
    <3>2. rets = other /\ args = others
      BY <2>1, <3>1, SameParts
    <3> QED  BY <3>2
  <2> QED  BY <2>2, <2>3
<1>5. ASSUME NEW k \in 1..Len(args)
      PROVE  ArgumentPlace(k, rets) = StackPlace(k, FuncType(Len(rets), rets \o args))
  <2>1. k \in Nat
    BY Lists
  <2>2. FuncType(Len(rets), rets \o args).numRets = Len(rets)
    BY DEF FuncType
  <2>3. CASE rets = <<>>
    BY <1>2, <2>1, <2>2, <2>3 DEF ArgumentPlace, StackPlace, StackPointerForArgs
  <2>4. CASE rets # <<>>
    <3>1. Len(rets) = 1
      BY <1>2, <2>4
    <3> QED  BY <2>1, <2>2, <2>4, <3>1 DEF ArgumentPlace, StackPlace, StackPointerForArgs
  <2> QED  BY <2>3, <2>4
<1>6. FuncType(Len(rets), rets \o args).result = "none"
  BY DEF FuncType
<1>7. ASSUME NEW others \in Arguments, NEW other \in Results
      PROVE  ValidateSignature(FuncType(Len(other), other \o others), signature(args, rets))
               <=> others = args /\ other = rets
  BY <1>3, <1>4, <1>6 DEF ValidateSignature
<1> QED  BY <1>5, <1>7

\* Both ends of a signature agree: a block is linked to a declared function if and only if it
\* has its arguments and its result, it takes every argument from where wasm3 puts it, and any
\* string at all is read as what it says or refused, without writing past the memory there is
\* for the types (m3_bind.c:28).
THEOREM Agreement == SignaturesAgree
<1>1. StringsRead
  <2>1. \A s \in BoundedSeq(SignatureChar, MaxLength) : s \in Seq(SignatureChar)
    BY SignaturesAssumption DEF BoundedSeq, SeqOf
  <2> QED  BY <2>1, StringRead DEF StringsRead
<1> QED  BY <1>1, Linked DEF SignaturesAgree

\* The same as the run of FuncTypes looks at it, in its initial state (m3_bind.c:28).
THEOREM Agree == SignaturesHold
BY Agreement DEF SignaturesHold
=============================================================================
