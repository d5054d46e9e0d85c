--------------------------- MODULE CodePagesProofs ---------------------------
(***************************************************************************)
(* Proofs about CodePages, for any pages, functions, page size, operations *)
(* and br_table sizes.                                                     *)
(***************************************************************************)
EXTENDS CodePages, FiniteSetTheorems, TLAPS

\* Where the compilation stands determines what it holds.
Shape ==
  /\ pc = "idle" <=> page = NoPage
  /\ pc # "idle" => alive
  /\ pc \in {"idle", "entry", "expression"} => saved = <<>>
  /\ pc \in {"elseEnd", "target"} => saved # <<>>
  /\ pc \in {"table", "row", "target"} <=> targets > 0
  /\ pc \in {"idle", "expression"} => function = NoFunc /\ entry = NoPc
  /\ pc \notin {"idle", "expression"} => function \in Func /\ entry \in Pc
  /\ pc # "expression" => Listed("temp") = {}
  /\ pc = "expression" => entry = NoPc
  /\ ~alive => compiled = [f \in Func \cup Import |-> NoPc]
  /\ function # NoFunc => compiled[function] = NoPc

\* A page somebody points to has been allocated, one that is not is blank.
Allocated ==
  /\ \A p \in Held \cup Listed("main") \cup Listed("temp") \cup pagesReleased :
       numLines[p] > 0
  /\ \A p \in Unallocated : lineIndex[p] = 0

\* What the compilation holds is active, whatever was lost before.
HeldActive ==
  pc # "idle" => numActiveCodePages[rt] >= Len(saved) + 1

\* EnsureCodePageNumLines has made room for all of the table.
TableRoom ==
  ~ignored /\ pc = "table" => Free(page) >= targets + 3 + BridgeWords

\* The code a pc points to has been written, to a page that stays, and the function
\* in compilation does not start where another one does.
EntryKept ==
  /\ entry # NoPc =>
       /\ numLines[entry[1]] > 0
       /\ entry[1] \notin pagesReleased \cup Listed("temp")
       /\ pc = "entry" => entry = <<page, lineIndex[page]>>
       /\ pc # "entry" => entry[2] < lineIndex[entry[1]]
       /\ \A g \in Func \cup Import : compiled[g] # entry

IInv ==
  /\ TypeOK
  /\ Shape
  /\ PagesUnshared
  /\ Allocated
  /\ HeldActive
  /\ PagesCounted
  /\ EntryKept
  /\ CompiledCodeKept
  /\ RoomForBridge
  /\ TableRoom

------------------------------------------------------------------------------
(* Pages that are acquired *)

\* What is held or listed are pages.
LEMMA AllPages ==
  ASSUME TypeOK
  PROVE  /\ Held \subseteq Page /\ Listed("main") \subseteq Page
         /\ Listed("temp") \subseteq Page /\ pagesReleased \subseteq Page
         /\ Held \cup Listed("main") \cup Listed("temp") \cup pagesReleased \subseteq Page
<1>1. Held \subseteq Page
  <2>1. \A i \in 1..Len(saved) : saved[i] \in Page
    BY DEF TypeOK
  <2>2. {page} \ {NoPage} \subseteq Page
    BY DEF TypeOK
  <2> QED
    BY <2>1, <2>2 DEF Held
<1>2. Listed("main") \subseteq Page /\ Listed("temp") \subseteq Page
  BY DEF Listed, TypeOK, Runtime
<1>3. pagesReleased \subseteq Page
  BY DEF TypeOK
<1> QED
  BY <1>1, <1>2, <1>3

\* A new page holds at least the words it was asked for.
LEMMA NewPageLinesFits ==
  ASSUME NEW n \in Nat
  PROVE  NewPageLines(n) \in Nat /\ NewPageLines(n) >= n
<1> DEFINE total == HeaderLines + n + (AlignLines - 1)
           blocks == total \div AlignLines
<1>1. total \in Nat /\ AlignLines \in Nat \ {0} /\ HeaderLines \in Nat
  BY LinesAssumption
<1>2. blocks \in Nat /\ total = AlignLines * blocks + (total % AlignLines)
      /\ total % AlignLines \in 0..(AlignLines - 1)
  BY <1>1, Z3
<1>3. AlignLines * blocks \in Nat /\ AlignLines * blocks = blocks * AlignLines
  BY <1>1, <1>2, Z3
<1>4. blocks * AlignLines >= HeaderLines + n
  BY <1>1, <1>2, <1>3, Z3
<1> QED
  BY <1>1, <1>3, <1>4 DEF NewPageLines

\* The page AcquireCodePageWithCapacity returns is nobody's yet.
LEMMA AcquirableUnused ==
  ASSUME TypeOK, PagesUnshared, Allocated,
         NEW r \in Runtime, NEW n \in Nat, NEW p \in Acquirable(r, n)
  PROVE  /\ p \in Page /\ p \notin Held
         /\ p \notin pagesFull["main"] /\ p \notin pagesFull["temp"]
         /\ \A s \in Runtime \ {r} : p \notin pagesOpen[s]
         /\ p \in Unallocated \/ (numLines[p] > 0 /\ Free(p) >= n)
         /\ p \in pagesOpen[r] \cup pagesReleased \cup Unallocated
<1>1. p \in pagesOpen[r] \cup pagesReleased \cup Unallocated
  BY DEF Acquirable, Fitting
<1>2. p \in Page
  BY <1>1 DEF TypeOK, Unallocated
<1>3. p \in Unallocated => p \notin Held \cup Listed("main") \cup Listed("temp") \cup pagesReleased
  BY DEF Allocated, Unallocated
<1>4. p \notin Held
  BY <1>1, <1>3 DEF PagesUnshared, ListsDisjoint, Listed, Runtime
<1>5. p \notin pagesFull["main"] /\ p \notin pagesFull["temp"]
  BY <1>1, <1>3 DEF PagesUnshared, ListsDisjoint, Listed, Runtime
<1>6. \A s \in Runtime \ {r} : p \notin pagesOpen[s]
  BY <1>1, <1>3 DEF PagesUnshared, ListsDisjoint, Listed, Runtime
<1>7. p \in Unallocated \/ (numLines[p] > 0 /\ Free(p) >= n)
  BY <1>1, <1>2 DEF Acquirable, Fitting, TypeOK, Unallocated
<1> QED
  BY <1>1, <1>2, <1>4, <1>5, <1>6, <1>7

\* After it is taken the page has the room that was asked for, and no other page
\* has changed its size.
LEMMA TakenFits ==
  ASSUME TypeOK, PagesUnshared, Allocated,
         NEW r \in Runtime, NEW n \in Nat \ {0}, NEW p \in Acquirable(r, n),
         Take(r, p, n)
  PROVE  /\ numLines' \in [Page -> Nat]
         /\ numLines'[p] > 0
         /\ numLines'[p] - lineIndex[p] >= n
         /\ \A q \in Page \ {p} : numLines'[q] = numLines[q]
         /\ pagesReleased' = pagesReleased \ {p}
         /\ numCodePages' \in [Runtime -> Nat]
<1>1. p \in Page /\ (p \in Unallocated \/ (numLines[p] > 0 /\ Free(p) >= n))
  BY AcquirableUnused
<1>2. NewPageLines(n) \in Nat /\ NewPageLines(n) >= n
  BY NewPageLinesFits
<1>3. CASE p \in Unallocated
  <2>1. lineIndex[p] = 0
    BY <1>3 DEF Allocated
  <2> QED
    BY <1>1, <1>2, <1>3, <2>1 DEF Take, TypeOK
<1>4. CASE p \notin Unallocated
  BY <1>1, <1>4 DEF Take, TypeOK, Free
<1> QED
  BY <1>3, <1>4

------------------------------------------------------------------------------
(* The four movements of pages: acquired, released, bridged, and linked *)

\* Acquiring a page that is then held keeps the lists apart and counted.
LEMMA AcquireKeeps ==
  ASSUME IInv, NEW r \in Runtime, NEW n \in Nat \ {0}, NEW p \in Page,
         Acquire(r, p, n), UNCHANGED lineIndex, Held' = Held \cup {p}
  PROVE  /\ numLines' \in [Page -> Nat] /\ pagesReleased' \in SUBSET Page
         /\ pagesOpen' \in [Runtime -> SUBSET Page]
         /\ pagesFull' \in [Runtime -> SUBSET Page]
         /\ numCodePages' \in [Runtime -> Nat]
         /\ numActiveCodePages' \in [Runtime -> Nat]
         /\ ListsDisjoint' /\ Allocated'
<1> USE DEF IInv
<1>1. p \in Acquirable(r, n) /\ Take(r, p, n)
  BY DEF Acquire
<1>2. /\ p \notin Held
      /\ p \notin pagesFull["main"] /\ p \notin pagesFull["temp"]
      /\ \A s \in Runtime \ {r} : p \notin pagesOpen[s]
  BY <1>1, AcquirableUnused
<1>3. /\ numLines' \in [Page -> Nat] /\ numLines'[p] > 0
      /\ \A q \in Page \ {p} : numLines'[q] = numLines[q]
      /\ pagesReleased' = pagesReleased \ {p}
      /\ numCodePages' \in [Runtime -> Nat]
  BY <1>1, TakenFits
<1>4. /\ pagesOpen' = [pagesOpen EXCEPT ![r] = @ \ {p}] /\ pagesFull' = pagesFull
      /\ numActiveCodePages' = [numActiveCodePages EXCEPT ![r] = @ + 1]
  BY DEF Acquire
<1>5. ListsDisjoint'
  <2>1. /\ pagesOpen \in [Runtime -> SUBSET Page] /\ pagesFull \in [Runtime -> SUBSET Page]
        /\ ListsDisjoint /\ r \in {"main", "temp"}
    BY DEF TypeOK, PagesUnshared, Runtime
  <2> HIDE DEF IInv
  <2>2. CASE r = "main"
    BY <1>2, <1>3, <1>4, <2>1, <2>2 DEF Runtime, ListsDisjoint, Listed
  <2>3. CASE r = "temp"
    BY <1>2, <1>3, <1>4, <2>1, <2>3 DEF Runtime, ListsDisjoint, Listed
  <2> QED
    BY <2>1, <2>2, <2>3
<1>6. Allocated'
  <2>1. \A q \in Page : numLines'[q] = 0 => numLines[q] = 0
    BY <1>3
  <2>2. \A q \in (Held \cup Listed("main") \cup Listed("temp") \cup pagesReleased)' :
          q = p \/ q \in Held \cup Listed("main") \cup Listed("temp") \cup pagesReleased
    BY <1>3, <1>4 DEF Listed, TypeOK, Runtime
  <2>3. \A q \in Page : numLines[q] > 0 => numLines'[q] > 0
    BY <1>3
  <2>4. Held \cup Listed("main") \cup Listed("temp") \cup pagesReleased \subseteq Page
    BY AllPages
  <2> QED
    BY <1>3, <2>1, <2>2, <2>3, <2>4 DEF Allocated, Unallocated
<1>7. pagesOpen' \in [Runtime -> SUBSET Page] /\ numActiveCodePages' \in [Runtime -> Nat]
  <2>1. /\ pagesOpen \in [Runtime -> SUBSET Page] /\ numActiveCodePages \in [Runtime -> Nat]
        /\ pagesOpen[r] \ {p} \in SUBSET Page /\ numActiveCodePages[r] + 1 \in Nat
    BY DEF TypeOK
  <2> QED
    BY <1>4, <2>1
<1>8. pagesFull' \in [Runtime -> SUBSET Page] /\ pagesReleased' \in SUBSET Page
  BY <1>3, <1>4 DEF TypeOK
<1> QED
  BY <1>3, <1>5, <1>6, <1>7, <1>8

\* Releasing the page written to, when it is held no more, does too.
LEMMA ReleaseKeeps ==
  ASSUME IInv, pc # "idle", pc # "expression", Release("main", page),
         lineIndex' \in [Page -> Nat], \A q \in Unallocated : lineIndex'[q] = 0,
         Held' \subseteq Held \ {page}
  PROVE  /\ numLines' \in [Page -> Nat] /\ pagesReleased' \in SUBSET Page
         /\ pagesOpen' \in [Runtime -> SUBSET Page]
         /\ pagesFull' \in [Runtime -> SUBSET Page]
         /\ numCodePages' \in [Runtime -> Nat]
         /\ numActiveCodePages' \in [Runtime -> Nat]
         /\ ListsDisjoint' /\ Allocated'
<1> USE DEF IInv
<1>1. page \in Page /\ page \in Held
  BY DEF Shape, TypeOK, Held
<1>2. /\ numLines' = numLines /\ pagesReleased' = pagesReleased
      /\ numCodePages' = numCodePages
      /\ numActiveCodePages' = [numActiveCodePages EXCEPT !["main"] = @ - 1]
      /\ \/ /\ pagesOpen' = [pagesOpen EXCEPT !["main"] = @ \cup {page}]
            /\ pagesFull' = pagesFull
         \/ /\ pagesFull' = [pagesFull EXCEPT !["main"] = @ \cup {page}]
            /\ pagesOpen' = pagesOpen
  BY DEF Release, PutBack, TypeOK, Runtime
<1>3. numActiveCodePages["main"] >= 1
  BY DEF HeldActive, rt, TypeOK, Runtime
<1>4. page \notin Listed("main") \cup Listed("temp") \cup pagesReleased
  BY <1>1 DEF PagesUnshared, ListsDisjoint
<1>5. ListsDisjoint'
  BY <1>1, <1>2, <1>4 DEF PagesUnshared, ListsDisjoint, Listed, Runtime, TypeOK
<1>6. Allocated'
  <2>1. (Held \cup Listed("main") \cup Listed("temp") \cup pagesReleased)'
          \subseteq Held \cup Listed("main") \cup Listed("temp") \cup pagesReleased
    BY <1>1, <1>2 DEF Listed, TypeOK, Runtime
  <2> QED
    BY <1>2, <2>1 DEF Allocated, Unallocated
<1> QED
  BY <1>1, <1>2, <1>3, <1>5, <1>6 DEF TypeOK, Runtime

\* What EnsureCodePageNumLines and the writes after it do to the page written to.
LEMMA EmitPage ==
  ASSUME IInv, pc # "idle", NEW need \in Nat, NEW words \in Nat, Emit(need, words)
  PROVE  /\ page' \in Page /\ rt \in Runtime
         /\ \/ /\ page' = page /\ Free(page) >= need + BridgeWords
               /\ lineIndex' = [lineIndex EXCEPT ![page] = @ + words]
               /\ UNCHANGED <<numLines, lists, numActiveCodePages>>
            \/ /\ page' # page /\ page' \notin Held
               /\ page' \in Acquirable(rt, need + BridgeWords)
               /\ Take(rt, page', need + BridgeWords)
               /\ lineIndex' = [lineIndex EXCEPT ![page] = @ + BridgeWords,
                                                 ![page'] = @ + words]
               /\ PutBack(rt, page, {page'})
               /\ UNCHANGED numActiveCodePages
<1> USE DEF IInv
<1>1. page \in Page /\ page \in Held /\ rt \in Runtime
  BY DEF Shape, TypeOK, Held, rt, Runtime
<1>2. \A q \in Acquirable(rt, need + BridgeWords) : q \in Page /\ q \notin Held
  <2>1. need + BridgeWords \in Nat
    BY DEF BridgeWords
  <2> QED
    BY <1>1, <2>1, AcquirableUnused
<1>3. Free(page) \in Int /\ need + BridgeWords \in Int
  BY <1>1 DEF Free, TypeOK, BridgeWords
<1>4. CASE Free(page) >= need + BridgeWords
  BY <1>1, <1>3, <1>4 DEF Emit
<1>5. CASE Free(page) < need + BridgeWords
  <2>1. PICK q \in Acquirable(rt, need + BridgeWords) :
          /\ Take(rt, q, need + BridgeWords)
          /\ lineIndex' = [lineIndex EXCEPT ![page] = @ + BridgeWords, ![q] = @ + words]
          /\ PutBack(rt, page, {q})
          /\ page' = q
          /\ UNCHANGED numActiveCodePages
    <3>1. ~(Free(page) >= need + BridgeWords)
      BY <1>3, <1>5
    <3> HIDE DEF IInv
    <3> QED
      BY <3>1 DEF Emit
  <2> QED
    BY <1>1, <1>2, <2>1
<1> QED
  BY <1>3, <1>4, <1>5

\* Writing, with or without a bridge, keeps the lists apart.
LEMMA EmitKeeps ==
  ASSUME IInv, pc # "idle", NEW need \in Nat, NEW words \in Nat,
         Emit(need, words), UNCHANGED saved
  PROVE  /\ numLines' \in [Page -> Nat] /\ pagesReleased' \in SUBSET Page
         /\ lineIndex' \in [Page -> Nat]
         /\ pagesOpen' \in [Runtime -> SUBSET Page]
         /\ pagesFull' \in [Runtime -> SUBSET Page]
         /\ numCodePages' \in [Runtime -> Nat]
         /\ ListsDisjoint' /\ SavedDistinct' /\ Allocated'
<1> USE DEF IInv
<1>1. page \in Page /\ page \in Held /\ page' \in Page /\ rt \in Runtime
      /\ NoPage \notin Page
  BY EmitPage, PageAssumption DEF Shape, TypeOK, Held
<1>2. Held' = (Held \ {page}) \cup {page'}
  BY <1>1 DEF Held, PagesUnshared, SavedDistinct
<1>3. CASE UNCHANGED <<numLines, lists, page>>
           /\ lineIndex' = [lineIndex EXCEPT ![page] = @ + words]
  <2>1. Held' = Held
    BY <1>1, <1>2, <1>3
  <2>2. lineIndex' \in [Page -> Nat]
    BY <1>1, <1>3 DEF TypeOK
  <2>3. ListsDisjoint' /\ SavedDistinct'
    BY <1>3, <2>1 DEF PagesUnshared, ListsDisjoint, SavedDistinct, Listed, lists
  <2>4. Allocated'
    <3>1. numLines[page] > 0
      BY <1>1 DEF Allocated
    <3> QED
      BY <1>1, <1>3, <2>1, <3>1 DEF Allocated, Unallocated, Listed, lists, TypeOK
  <2> QED
    BY <1>3, <2>2, <2>3, <2>4 DEF TypeOK, lists
<1>4. CASE /\ page' # page /\ page' \notin Held
           /\ page' \in Acquirable(rt, need + BridgeWords)
           /\ Take(rt, page', need + BridgeWords)
           /\ lineIndex' = [lineIndex EXCEPT ![page] = @ + BridgeWords,
                                             ![page'] = @ + words]
           /\ PutBack(rt, page, {page'})
  <2>0. PICK q \in Page : q = page'
    BY <1>1
  <2>1. need + BridgeWords \in Nat \ {0} /\ BridgeWords \in Nat
    BY DEF BridgeWords
  <2>a. /\ q # page /\ q \notin Held /\ q \in Acquirable(rt, need + BridgeWords)
        /\ Take(rt, q, need + BridgeWords)
        /\ lineIndex' = [lineIndex EXCEPT ![page] = @ + BridgeWords, ![q] = @ + words]
        /\ PutBack(rt, page, {q})
    BY <1>4, <2>0
  <2>2. /\ q \notin pagesFull["main"] /\ q \notin pagesFull["temp"]
        /\ \A s \in Runtime \ {rt} : q \notin pagesOpen[s]
    BY <1>1, <2>0, <2>a, <2>1, AcquirableUnused
  <2>3. /\ numLines' \in [Page -> Nat] /\ numLines'[q] > 0
        /\ \A x \in Page \ {q} : numLines'[x] = numLines[x]
        /\ pagesReleased' = pagesReleased \ {q}
        /\ numCodePages' \in [Runtime -> Nat]
    BY <1>1, <2>0, <2>a, <2>1, TakenFits
  <2>4. \/ /\ pagesOpen' = [pagesOpen EXCEPT ![rt] = (@ \ {q}) \cup {page}]
           /\ pagesFull' = pagesFull
        \/ /\ pagesOpen' = [pagesOpen EXCEPT ![rt] = @ \ {q}]
           /\ pagesFull' = [pagesFull EXCEPT ![rt] = @ \cup {page}]
    BY <1>1, <2>0, <2>a DEF PutBack, TypeOK
  <2>5. page \notin Listed("main") \cup Listed("temp") \cup pagesReleased
    BY <1>1 DEF PagesUnshared, ListsDisjoint
  <2>6. lineIndex' \in [Page -> Nat] /\ \A x \in Page \ {page, q} : lineIndex'[x] = lineIndex[x]
    <3>1. lineIndex \in [Page -> Nat] /\ lineIndex[page] + BridgeWords \in Nat
          /\ lineIndex[q] + words \in Nat
      BY <1>1, <2>0, <2>1 DEF TypeOK
    <3> QED
      BY <1>1, <2>0, <2>a, <3>1
  <2>7. ListsDisjoint'
    <3>0. Held' = (Held \ {page}) \cup {q}
      BY <1>2, <2>0
    <3>1. ListsDisjoint /\ TypeOK /\ page \notin Held' /\ rt \in {"main", "temp"}
      BY <1>1, <2>a, <3>0 DEF PagesUnshared, Runtime
    <3> USE DEF ListsDisjoint, Listed, TypeOK, Runtime
    <3>2. CASE /\ pagesOpen' = [pagesOpen EXCEPT ![rt] = (@ \ {q}) \cup {page}]
               /\ pagesFull' = pagesFull
      <4>1. CASE rt = "main"
        BY <2>a, <2>2, <2>3, <2>5, <3>0, <3>1, <3>2, <4>1
      <4>2. CASE rt = "temp"
        BY <2>a, <2>2, <2>3, <2>5, <3>0, <3>1, <3>2, <4>2
      <4> QED
        BY <3>1, <4>1, <4>2
    <3>3. CASE /\ pagesOpen' = [pagesOpen EXCEPT ![rt] = @ \ {q}]
               /\ pagesFull' = [pagesFull EXCEPT ![rt] = @ \cup {page}]
      <4>1. CASE rt = "main"
        BY <2>a, <2>2, <2>3, <2>5, <3>0, <3>1, <3>3, <4>1
      <4>2. CASE rt = "temp"
        BY <2>a, <2>2, <2>3, <2>5, <3>0, <3>1, <3>3, <4>2
      <4> QED
        BY <3>1, <4>1, <4>2
    <3> QED
      BY <2>4, <3>2, <3>3
  <2>8. SavedDistinct'
    BY <2>0, <2>a DEF PagesUnshared, SavedDistinct, Held
  <2>10. pagesOpen' \in [Runtime -> SUBSET Page] /\ pagesFull' \in [Runtime -> SUBSET Page]
    <3>1. /\ pagesOpen \in [Runtime -> SUBSET Page] /\ pagesFull \in [Runtime -> SUBSET Page]
          /\ {page} \in SUBSET Page
      BY <1>1 DEF TypeOK
    <3>2. \A S \in SUBSET Page : S \ {q} \in SUBSET Page /\ S \cup {page} \in SUBSET Page
      BY <3>1
    <3>3. pagesOpen[rt] \ {q} \in SUBSET Page /\ pagesFull[rt] \cup {page} \in SUBSET Page
          /\ (pagesOpen[rt] \ {q}) \cup {page} \in SUBSET Page
      BY <1>1, <3>1, <3>2
    <3> QED
      BY <2>4, <3>1, <3>3
  <2>9. Allocated'
    <3>0. Listed("main")' \cup Listed("temp")' \subseteq Listed("main") \cup Listed("temp") \cup {page}
      <4>1. \A s \in Runtime : pagesOpen'[s] \subseteq pagesOpen[s] \cup {page}
                               /\ pagesFull'[s] \subseteq pagesFull[s] \cup {page}
        <5>1. pagesOpen \in [Runtime -> SUBSET Page] /\ pagesFull \in [Runtime -> SUBSET Page]
          BY DEF TypeOK
        <5> QED
          BY <1>1, <2>4, <5>1
      <4> QED
        BY <4>1 DEF Listed, Runtime
    <3>1. \A x \in (Held \cup Listed("main") \cup Listed("temp") \cup pagesReleased)' :
            x = q \/ x \in Held \cup Listed("main") \cup Listed("temp") \cup pagesReleased
      BY <1>1, <1>2, <2>0, <2>3, <3>0
    <3>2. Held \cup Listed("main") \cup Listed("temp") \cup pagesReleased \subseteq Page
      BY AllPages
    <3>3. numLines[page] > 0 /\ numLines'[page] > 0
      BY <1>1, <2>0, <2>a, <2>3 DEF Allocated
    <3>4. \A x \in (Held \cup Listed("main") \cup Listed("temp") \cup pagesReleased)' :
            numLines'[x] > 0
      BY <2>3, <3>1, <3>2 DEF Allocated
    <3>5. \A x \in Unallocated' : x \in Unallocated /\ x # page /\ x # q
      BY <2>3, <3>3 DEF Unallocated
    <3> QED
      BY <2>6, <3>4, <3>5 DEF Allocated, Unallocated
  <2>11. pagesReleased' \in SUBSET Page
    BY <2>3 DEF TypeOK
  <2> QED
    BY <2>3, <2>6, <2>7, <2>8, <2>9, <2>10, <2>11
<1> QED
  BY <1>3, <1>4, EmitPage

------------------------------------------------------------------------------
(* Counting *)

\* The sizes of finite sets of pages when one page comes or goes.
LEMMA PageSets ==
  ASSUME NEW S \in SUBSET Page, NEW p
  PROVE  /\ Cardinality(S) \in Nat
         /\ Cardinality(S \cup {p}) = IF p \in S THEN Cardinality(S) ELSE Cardinality(S) + 1
         /\ Cardinality(S \ {p}) = IF p \in S THEN Cardinality(S) - 1 ELSE Cardinality(S)
<1>1. IsFiniteSet(S)
  BY PageAssumption, FS_Subset
<1>2. Cardinality(S) \in Nat
  BY <1>1, FS_CardinalityType
<1>3. Cardinality(S \cup {p}) = IF p \in S THEN Cardinality(S) ELSE Cardinality(S) + 1
  BY <1>1, FS_AddElement
<1>4. Cardinality(S \ {p}) = IF p \in S THEN Cardinality(S) - 1 ELSE Cardinality(S)
  BY <1>1, FS_RemoveElement
<1> QED
  BY <1>2, <1>3, <1>4

\* A page acquired moves from the open pages, or from outside, to the active ones.
LEMMA AcquireCounts ==
  ASSUME IInv, NEW r \in Runtime, NEW n, NEW p, Acquire(r, p, n)
  PROVE  PagesCounted'
<1> SUFFICES ASSUME NEW s \in Runtime
             PROVE (Cardinality(pagesOpen[s]) + Cardinality(pagesFull[s])
                      + numActiveCodePages[s] = numCodePages[s])'
  BY DEF PagesCounted
<1> USE DEF IInv, TypeOK
<1>1. Cardinality(pagesOpen[s]) + Cardinality(pagesFull[s]) + numActiveCodePages[s]
        = numCodePages[s]
  BY DEF PagesCounted
<1>2. CASE s # r
  BY <1>1, <1>2 DEF Acquire, Take
<1>3. CASE s = r
  <2>1. /\ pagesOpen'[r] = pagesOpen[r] \ {p} /\ pagesFull'[r] = pagesFull[r]
        /\ numActiveCodePages'[r] = numActiveCodePages[r] + 1
        /\ numCodePages'[r] = numCodePages[r] + (IF p \in pagesOpen[r] THEN 0 ELSE 1)
    BY DEF Acquire, Take
  <2>2. /\ Cardinality(pagesOpen[r]) \in Nat /\ Cardinality(pagesFull[r]) \in Nat
        /\ Cardinality(pagesOpen[r] \ {p})
             = IF p \in pagesOpen[r] THEN Cardinality(pagesOpen[r]) - 1
                                     ELSE Cardinality(pagesOpen[r])
    BY PageSets
  <2> QED
    BY <1>1, <1>3, <2>1, <2>2
<1> QED
  BY <1>2, <1>3

\* PutBack adds one page to one of the two lists.
LEMMA PutBackCounts ==
  ASSUME TypeOK, NEW r \in Runtime, NEW p \in Page, NEW q, PutBack(r, p, {q}),
         p \notin Listed(r), p # q
  PROVE  /\ \A s \in Runtime \ {r} : pagesOpen'[s] = pagesOpen[s] /\ pagesFull'[s] = pagesFull[s]
         /\ Cardinality(pagesOpen'[r]) + Cardinality(pagesFull'[r])
              = Cardinality(pagesOpen[r]) + Cardinality(pagesFull[r])
                  + (IF q \in pagesOpen[r] THEN 0 ELSE 1)
<1> USE DEF TypeOK
<1> DEFINE rest == pagesOpen[r] \ {q}
<1>1. rest \in SUBSET Page /\ pagesOpen[r] \in SUBSET Page /\ pagesFull[r] \in SUBSET Page
  OBVIOUS
<1>2. p \notin rest /\ p \notin pagesFull[r]
  BY DEF Listed
<1>3. /\ Cardinality(rest) \in Nat /\ Cardinality(pagesFull[r]) \in Nat
      /\ Cardinality(pagesOpen[r]) \in Nat
      /\ Cardinality(rest \cup {p}) = Cardinality(rest) + 1
      /\ Cardinality(pagesFull[r] \cup {p}) = Cardinality(pagesFull[r]) + 1
      /\ Cardinality(rest) = IF q \in pagesOpen[r] THEN Cardinality(pagesOpen[r]) - 1
                                                   ELSE Cardinality(pagesOpen[r])
  BY <1>1, <1>2, PageSets
<1>4. /\ \A s \in Runtime \ {r} : pagesOpen'[s] = pagesOpen[s] /\ pagesFull'[s] = pagesFull[s]
      /\ \/ pagesOpen'[r] = rest \cup {p} /\ pagesFull'[r] = pagesFull[r]
         \/ pagesOpen'[r] = rest /\ pagesFull'[r] = pagesFull[r] \cup {p}
  BY DEF PutBack
<1>5. CASE pagesOpen'[r] = rest \cup {p} /\ pagesFull'[r] = pagesFull[r]
  <2>1. Cardinality(pagesOpen'[r]) = Cardinality(rest) + 1
        /\ Cardinality(pagesFull'[r]) = Cardinality(pagesFull[r])
    BY <1>3, <1>5
  <2> QED
    BY <1>3, <1>4, <2>1
<1>6. CASE pagesOpen'[r] = rest /\ pagesFull'[r] = pagesFull[r] \cup {p}
  <2>1. PICK a \in Nat, b \in Nat : a = Cardinality(rest) /\ b = Cardinality(pagesFull[r])
    BY <1>3
  <2>2. Cardinality(pagesOpen'[r]) = a /\ Cardinality(pagesFull'[r]) = b + 1
    BY <1>3, <1>6, <2>1
  <2>3. Cardinality(pagesOpen'[r]) + Cardinality(pagesFull'[r]) = a + b + 1
    BY <2>2
  <2>4. PICK c \in Nat : c = Cardinality(pagesOpen[r])
    BY <1>3
  <2>5. a = IF q \in pagesOpen[r] THEN c - 1 ELSE c
    BY <1>3, <2>1, <2>4
  <2>6. a + b + 1 = c + b + (IF q \in pagesOpen[r] THEN 0 ELSE 1)
    BY <2>5
  <2> QED
    BY <1>4, <2>1, <2>3, <2>4, <2>6
<1> QED
  BY <1>4, <1>5, <1>6

\* A page released moves from the active pages to the lists.
LEMMA ReleaseCounts ==
  ASSUME IInv, NEW r \in Runtime, NEW p \in Held, p \in Page, Release(r, p)
  PROVE  PagesCounted'
<1> SUFFICES ASSUME NEW s \in Runtime
             PROVE (Cardinality(pagesOpen[s]) + Cardinality(pagesFull[s])
                      + numActiveCodePages[s] = numCodePages[s])'
  BY DEF PagesCounted
<1> USE DEF IInv
<1>1. Cardinality(pagesOpen[s]) + Cardinality(pagesFull[s]) + numActiveCodePages[s]
        = numCodePages[s]
  BY DEF PagesCounted
<1>2. p \notin Listed(r)
  BY DEF PagesUnshared, ListsDisjoint, Runtime
<1>3. PutBack(r, p, {NoPage}) /\ NoPage # p /\ NoPage \notin pagesOpen[r]
  <2>1. NoPage # p /\ NoPage \notin pagesOpen[r]
    BY PageAssumption DEF TypeOK
  <2>2. pagesOpen[r] \ {} = pagesOpen[r] \ {NoPage}
    BY <2>1
  <2> QED
    BY <2>1, <2>2 DEF Release, PutBack
<1>4. /\ \A t \in Runtime \ {r} : pagesOpen'[t] = pagesOpen[t] /\ pagesFull'[t] = pagesFull[t]
      /\ Cardinality(pagesOpen'[r]) + Cardinality(pagesFull'[r])
           = Cardinality(pagesOpen[r]) + Cardinality(pagesFull[r]) + 1
  BY <1>2, <1>3, PutBackCounts
<1>5. /\ Cardinality(pagesOpen[r]) \in Nat /\ Cardinality(pagesFull[r]) \in Nat
  BY PageSets DEF TypeOK
<1>6. /\ numActiveCodePages' = [numActiveCodePages EXCEPT ![r] = @ - 1]
      /\ numCodePages' = numCodePages
  BY DEF Release
<1>7. CASE s # r
  BY <1>1, <1>4, <1>6, <1>7 DEF TypeOK
<1>8. CASE s = r
  BY <1>1, <1>4, <1>5, <1>6, <1>8 DEF TypeOK
<1> QED
  BY <1>7, <1>8

\* A bridge releases one page for the one it acquires.
LEMMA EmitCounts ==
  ASSUME IInv, pc # "idle", NEW need \in Nat, NEW words \in Nat, Emit(need, words)
  PROVE  PagesCounted'
<1> SUFFICES ASSUME NEW s \in Runtime
             PROVE (Cardinality(pagesOpen[s]) + Cardinality(pagesFull[s])
                      + numActiveCodePages[s] = numCodePages[s])'
  BY DEF PagesCounted
<1> USE DEF IInv
<1>1. Cardinality(pagesOpen[s]) + Cardinality(pagesFull[s]) + numActiveCodePages[s]
        = numCodePages[s]
  BY DEF PagesCounted
<1>2. page \in Page /\ page \in Held /\ rt \in Runtime
  BY EmitPage DEF Shape, TypeOK, Held
<1>3. CASE UNCHANGED <<lists, numActiveCodePages>>
  BY <1>1, <1>3 DEF lists
<1>4. CASE /\ page' # page
           /\ Take(rt, page', need + BridgeWords)
           /\ PutBack(rt, page, {page'})
           /\ UNCHANGED numActiveCodePages
  <2>1. PICK q : q = page' /\ q # page
    BY <1>4
  <2>2. page \notin Listed(rt)
    BY <1>2 DEF PagesUnshared, ListsDisjoint, Runtime
  <2>3. /\ \A t \in Runtime \ {rt} : pagesOpen'[t] = pagesOpen[t] /\ pagesFull'[t] = pagesFull[t]
        /\ Cardinality(pagesOpen'[rt]) + Cardinality(pagesFull'[rt])
             = Cardinality(pagesOpen[rt]) + Cardinality(pagesFull[rt])
                 + (IF q \in pagesOpen[rt] THEN 0 ELSE 1)
    BY <1>2, <1>4, <2>1, <2>2, PutBackCounts
  <2>4. numCodePages' = IF q \in pagesOpen[rt] THEN numCodePages
                        ELSE [numCodePages EXCEPT ![rt] = @ + 1]
    BY <1>4, <2>1 DEF Take
  <2>5. Cardinality(pagesOpen[rt]) \in Nat /\ Cardinality(pagesFull[rt]) \in Nat
    BY <1>2, PageSets DEF TypeOK
  <2>6. CASE s # rt
    BY <1>1, <1>2, <1>4, <2>3, <2>4, <2>6 DEF TypeOK
  <2>7. CASE s = rt
    BY <1>1, <1>2, <1>4, <2>3, <2>4, <2>5, <2>7 DEF TypeOK
  <2> QED
    BY <2>6, <2>7
<1> QED
  BY <1>3, <1>4, EmitPage

------------------------------------------------------------------------------
(* The steps that acquire a page *)

\* What all of them leave intact: the code that is compiled, the room in the pages.
LEMMA AcquireKeepsCode ==
  ASSUME IInv, NEW r \in Runtime, NEW n \in Nat, n >= 3, NEW p \in Page,
         Acquire(r, p, n), UNCHANGED lineIndex
  PROVE  /\ \A q \in Page : numLines[q] > 0 => numLines'[q] = numLines[q]
         /\ \A s \in Runtime : Listed(s)' \subseteq Listed(s)
         /\ pagesReleased' \subseteq pagesReleased
         /\ p \notin Held
         /\ ~ignored => /\ numLines'[p] - lineIndex'[p] >= n
                        /\ \A q \in Page : lineIndex'[q] <= numLines'[q]
<1> USE DEF IInv
<1>1. p \in Acquirable(r, n) /\ Take(r, p, n) /\ n \in Nat \ {0}
  BY DEF Acquire
<1>2. /\ numLines'[p] - lineIndex[p] >= n
      /\ \A q \in Page \ {p} : numLines'[q] = numLines[q]
      /\ pagesReleased' = pagesReleased \ {p}
      /\ numLines' \in [Page -> Nat]
  BY <1>1, TakenFits
<1>3. \A q \in Page : numLines[q] > 0 => numLines'[q] = numLines[q]
  BY <1>1 DEF Take, Unallocated, TypeOK
<1>4. p \notin Held
  BY <1>1, AcquirableUnused
<1>5. \A s \in Runtime : Listed(s)' \subseteq Listed(s)
  BY DEF Acquire, Listed, TypeOK
<1>6. ~ignored => \A q \in Page : lineIndex'[q] <= numLines'[q]
  <2>1. ~ignored => \A q \in Page : lineIndex[q] <= numLines[q]
    BY DEF RoomForBridge
  <2>2. lineIndex[p] <= numLines'[p]
    BY <1>2 DEF TypeOK
  <2> QED
    BY <1>2, <2>1, <2>2
<1> QED
  BY <1>2, <1>3, <1>4, <1>5, <1>6

\* A compilation begins on a page that is nobody else's, at a place where no function
\* starts.
LEMMA BeginFunctionInv ==
  ASSUME IInv, NEW f \in Func, BeginFunction(f)
  PROVE  IInv'
<1> USE DEF IInv
<1>1. PICK p \in Acquirable("main", Threshold) :
        /\ Acquire("main", p, Threshold)
        /\ page' = p
        /\ entry' = <<p, lineIndex[p]>>
  BY DEF BeginFunction
<1>2. /\ alive /\ pc = "idle" /\ compiled[f] = NoPc
      /\ pc' = "entry" /\ function' = f
      /\ UNCHANGED <<lineIndex, alive, saved, targets, compiled, ignored>>
  BY DEF BeginFunction
<1>3. Threshold \in Nat /\ Threshold >= 3 /\ "main" \in Runtime /\ NoPage \notin Page
  BY LinesAssumption, OperandsAssumption, PageAssumption DEF Runtime
<1>4. p \in Page /\ p \in pagesOpen["main"] \cup pagesReleased \cup Unallocated
  BY <1>1, <1>3, AcquirableUnused
<1>5. page = NoPage /\ saved = <<>> /\ targets = 0 /\ Held = {} /\ Held' = {p}
  BY <1>1, <1>2, <1>3, <1>4 DEF Shape, Held, TypeOK
<1>6. /\ \A q \in Page : numLines[q] > 0 => numLines'[q] = numLines[q]
      /\ \A s \in Runtime : Listed(s)' \subseteq Listed(s)
      /\ pagesReleased' \subseteq pagesReleased
      /\ ~ignored => /\ numLines'[p] - lineIndex'[p] >= Threshold
                     /\ \A q \in Page : lineIndex'[q] <= numLines'[q]
  BY <1>1, <1>2, <1>3, <1>4, AcquireKeepsCode
<1>7. /\ numLines' \in [Page -> Nat] /\ pagesReleased' \in SUBSET Page
      /\ pagesOpen' \in [Runtime -> SUBSET Page]
      /\ pagesFull' \in [Runtime -> SUBSET Page]
      /\ numCodePages' \in [Runtime -> Nat]
      /\ numActiveCodePages' \in [Runtime -> Nat]
      /\ ListsDisjoint' /\ Allocated'
  BY <1>1, <1>2, <1>3, <1>4, <1>5, AcquireKeeps
<1>8. TypeOK'
  BY <1>1, <1>2, <1>4, <1>7 DEF TypeOK, Pc
<1>9. Shape'
  BY <1>1, <1>2, <1>3, <1>4, <1>5, <1>6, <1>8 DEF Shape, TypeOK, Runtime, Pc
<1>10. PagesUnshared'
  BY <1>2, <1>5, <1>7 DEF PagesUnshared, SavedDistinct
<1>11. HeldActive'
  BY <1>1, <1>2, <1>3, <1>5 DEF HeldActive, rt, Acquire, TypeOK, Runtime
<1>12. PagesCounted'
  BY <1>1, <1>3, AcquireCounts
<1>13. EntryKept'
  <2>1. ASSUME NEW g \in Func \cup Import, compiled[g] = <<p, lineIndex[p]>>
        PROVE FALSE
    <3>1. compiled[g] # NoPc
      BY <1>4, <2>1, PageAssumption DEF TypeOK
    <3>2. compiled[g][2] < lineIndex[compiled[g][1]]
      BY <3>1 DEF CompiledCodeKept
    <3> QED
      BY <1>4, <2>1, <3>2 DEF TypeOK
  <2>2. p \notin pagesReleased' /\ p \notin Listed("temp")' /\ numLines'[p] > 0
    BY <1>1, <1>2, <1>5, <1>7 DEF ListsDisjoint, Allocated
  <2> QED
    BY <1>1, <1>2, <2>1, <2>2 DEF EntryKept
<1>14. CompiledCodeKept'
  BY <1>2, <1>6 DEF CompiledCodeKept, TypeOK, Pc, Runtime
<1>15. RoomForBridge' /\ TableRoom'
  <2>1. targets' = 0 /\ pc' # "table" /\ ignored' = ignored
    BY <1>2, <1>5
  <2>2. ~ignored => numLines'[p] - lineIndex'[p] >= BridgeWords
    BY <1>3, <1>4, <1>6, <1>8 DEF BridgeWords, TypeOK
  <2>3. ~ignored => \A q \in Held' : Free(q)' >= BridgeWords
    BY <1>5, <2>2 DEF Free
  <2> QED
    BY <1>6, <2>1, <2>3 DEF RoomForBridge, TableRoom, BridgeWords
<1> QED
  BY <1>7, <1>8, <1>9, <1>10, <1>11, <1>12, <1>13, <1>14, <1>15

\* Saving the page written to and going on with another one.
LEMMA SavedPage ==
  ASSUME TypeOK, SavedDistinct, page \in Page, NEW p \in Page, p \notin Held,
         page' = p, saved' = Append(saved, page)
  PROVE  /\ saved' \in Seq(Page) /\ Len(saved') = Len(saved) + 1
         /\ saved'[Len(saved')] = page /\ saved' # <<>>
         /\ Held' = Held \cup {p} /\ SavedDistinct'
<1>1. /\ saved' \in Seq(Page) /\ Len(saved') = Len(saved) + 1
      /\ saved'[Len(saved) + 1] = page
      /\ \A i \in 1..Len(saved) : saved'[i] = saved[i]
      /\ Len(saved) \in Nat
  BY DEF TypeOK
<1>2. 1..Len(saved') = 1..Len(saved) \cup {Len(saved) + 1}
  BY <1>1
<1>3. {saved'[i] : i \in 1..Len(saved')} = {saved[i] : i \in 1..Len(saved)} \cup {page}
  BY <1>1, <1>2
<1>4. Held' = Held \cup {p}
  BY <1>3, PageAssumption DEF Held
<1>5. \A i \in 1..Len(saved) : saved[i] # p /\ saved[i] # page
  BY DEF Held, SavedDistinct
<1>6. \A i \in 1..Len(saved') : saved'[i] # p
  <2>1. page # p
    BY PageAssumption DEF Held
  <2> QED
    BY <1>1, <1>2, <1>5, <2>1
<1>7. ASSUME NEW i \in 1..Len(saved'), NEW j \in 1..Len(saved'), saved'[i] = saved'[j]
      PROVE  i = j
  BY <1>1, <1>2, <1>5, <1>7 DEF SavedDistinct
<1>8. SavedDistinct'
  BY <1>6, <1>7 DEF SavedDistinct
<1> QED
  BY <1>1, <1>4, <1>8

\* An else block goes to a page of its own while the page before it is saved.
LEMMA BeginElseInv ==
  ASSUME IInv, BeginElse
  PROVE  IInv'
<1> USE DEF IInv
<1>1. PICK p \in Acquirable("main", Threshold) :
        Acquire("main", p, Threshold) /\ page' = p
  BY DEF BeginElse
<1>2. /\ pc = "body" /\ saved' = Append(saved, page)
      /\ UNCHANGED <<lineIndex, alive, pc, targets, function, entry, compiled, ignored>>
  BY DEF BeginElse
<1>3. Threshold \in Nat /\ Threshold >= 3 /\ "main" \in Runtime
  BY LinesAssumption, OperandsAssumption DEF Runtime
<1>4. p \in Page
  BY <1>1, <1>3, AcquirableUnused
<1>5. /\ \A q \in Page : numLines[q] > 0 => numLines'[q] = numLines[q]
      /\ \A s \in Runtime : Listed(s)' \subseteq Listed(s)
      /\ pagesReleased' \subseteq pagesReleased
      /\ p \notin Held
      /\ ~ignored => /\ numLines'[p] - lineIndex'[p] >= Threshold
                     /\ \A q \in Page : lineIndex'[q] <= numLines'[q]
  BY <1>1, <1>2, <1>3, <1>4, AcquireKeepsCode
<1>6. page \in Page /\ page \in Held /\ targets = 0 /\ alive
  BY <1>2, PageAssumption DEF Shape, Held, TypeOK
<1>7. /\ saved' \in Seq(Page) /\ Len(saved') = Len(saved) + 1
      /\ saved'[Len(saved')] = page /\ saved' # <<>>
      /\ Held' = Held \cup {p} /\ SavedDistinct'
  BY <1>1, <1>2, <1>4, <1>5, <1>6, SavedPage DEF PagesUnshared
<1>8. /\ numLines' \in [Page -> Nat] /\ pagesReleased' \in SUBSET Page
      /\ pagesOpen' \in [Runtime -> SUBSET Page]
      /\ pagesFull' \in [Runtime -> SUBSET Page]
      /\ numCodePages' \in [Runtime -> Nat]
      /\ numActiveCodePages' \in [Runtime -> Nat]
      /\ ListsDisjoint' /\ Allocated'
  BY <1>1, <1>2, <1>3, <1>4, <1>7, AcquireKeeps
<1>9. TypeOK'
  BY <1>1, <1>2, <1>4, <1>7, <1>8 DEF TypeOK
<1>10. Shape'
  BY <1>1, <1>2, <1>4, <1>5, <1>6, <1>7, PageAssumption DEF Shape, Runtime
<1>11. PagesUnshared'
  BY <1>7, <1>8 DEF PagesUnshared
<1>12. HeldActive'
  BY <1>1, <1>2, <1>3, <1>7 DEF HeldActive, rt, Acquire, TypeOK, Runtime
<1>13. PagesCounted'
  BY <1>1, <1>3, AcquireCounts
<1>14. EntryKept'
  BY <1>2, <1>5 DEF EntryKept, Runtime, TypeOK, Pc
<1>15. CompiledCodeKept'
  BY <1>2, <1>5 DEF CompiledCodeKept, TypeOK, Pc, Runtime
<1>16. RoomForBridge' /\ TableRoom'
  <2>1. ~ignored => \A q \in Held : Free(q)' = Free(q) /\ Free(q) >= BridgeWords
    <3>1. \A q \in Held : numLines'[q] = numLines[q]
      BY <1>5 DEF Allocated, Held, TypeOK
    <3> QED
      BY <1>2, <1>6, <3>1 DEF RoomForBridge, Free, BridgeWords, TypeOK
  <2>2. ~ignored => Free(p)' >= BridgeWords
    BY <1>3, <1>4, <1>5, <1>9 DEF BridgeWords, TypeOK, Free
  <2>3. ~ignored => \A q \in Held' : Free(q)' >= BridgeWords
    BY <1>7, <2>1, <2>2
  <2> QED
    BY <1>2, <1>5, <1>6, <2>3 DEF RoomForBridge, TableRoom, BridgeWords
<1> QED
  BY <1>8, <1>9, <1>10, <1>11, <1>12, <1>13, <1>14, <1>15, <1>16

\* So does the code of a br_table target; the saved page keeps the room of the table.
LEMMA BeginTargetInv ==
  ASSUME IInv, BeginTarget
  PROVE  IInv'
<1> USE DEF IInv
<1>1. PICK p \in Acquirable("main", Threshold) :
        Acquire("main", p, Threshold) /\ page' = p
  BY DEF BeginTarget
<1>2. /\ pc = "row" /\ pc' = "target" /\ saved' = Append(saved, page)
      /\ UNCHANGED <<lineIndex, alive, targets, function, entry, compiled, ignored>>
  BY DEF BeginTarget
<1>3. Threshold \in Nat /\ Threshold >= 3 /\ "main" \in Runtime
  BY LinesAssumption, OperandsAssumption DEF Runtime
<1>4. p \in Page
  BY <1>1, <1>3, AcquirableUnused
<1>5. /\ \A q \in Page : numLines[q] > 0 => numLines'[q] = numLines[q]
      /\ \A s \in Runtime : Listed(s)' \subseteq Listed(s)
      /\ pagesReleased' \subseteq pagesReleased
      /\ p \notin Held
      /\ ~ignored => /\ numLines'[p] - lineIndex'[p] >= Threshold
                     /\ \A q \in Page : lineIndex'[q] <= numLines'[q]
  BY <1>1, <1>2, <1>3, <1>4, AcquireKeepsCode
<1>6. page \in Page /\ page \in Held /\ targets > 0 /\ alive
  BY <1>2, PageAssumption DEF Shape, Held, TypeOK
<1>7. /\ saved' \in Seq(Page) /\ Len(saved') = Len(saved) + 1
      /\ saved'[Len(saved')] = page /\ saved' # <<>>
      /\ Held' = Held \cup {p} /\ SavedDistinct'
  BY <1>1, <1>2, <1>4, <1>5, <1>6, SavedPage DEF PagesUnshared
<1>8. /\ numLines' \in [Page -> Nat] /\ pagesReleased' \in SUBSET Page
      /\ pagesOpen' \in [Runtime -> SUBSET Page]
      /\ pagesFull' \in [Runtime -> SUBSET Page]
      /\ numCodePages' \in [Runtime -> Nat]
      /\ numActiveCodePages' \in [Runtime -> Nat]
      /\ ListsDisjoint' /\ Allocated'
  BY <1>1, <1>2, <1>3, <1>4, <1>7, AcquireKeeps
<1>9. TypeOK'
  BY <1>1, <1>2, <1>4, <1>7, <1>8 DEF TypeOK
<1>10. Shape'
  BY <1>1, <1>2, <1>4, <1>5, <1>6, <1>7, PageAssumption DEF Shape, Runtime
<1>11. PagesUnshared'
  BY <1>7, <1>8 DEF PagesUnshared
<1>12. HeldActive'
  BY <1>1, <1>2, <1>3, <1>7 DEF HeldActive, rt, Acquire, TypeOK, Runtime
<1>13. PagesCounted'
  BY <1>1, <1>3, AcquireCounts
<1>14. EntryKept'
  BY <1>2, <1>5 DEF EntryKept, Runtime, TypeOK, Pc
<1>15. CompiledCodeKept'
  BY <1>2, <1>5 DEF CompiledCodeKept, TypeOK, Pc, Runtime
<1>16. RoomForBridge' /\ TableRoom'
  <2>1. ~ignored => \A q \in Held :
          /\ Free(q)' = Free(q) /\ Free(q) >= BridgeWords
          /\ q = page => Free(q) >= BridgeWords + targets
    <3>1. \A q \in Held : numLines'[q] = numLines[q]
      BY <1>5 DEF Allocated, Held, TypeOK
    <3> QED
      BY <1>2, <1>6, <3>1 DEF RoomForBridge, Free, BridgeWords, TypeOK
  <2>2. ~ignored => Free(p)' >= BridgeWords
    BY <1>3, <1>4, <1>5, <1>9 DEF BridgeWords, TypeOK, Free
  <2>3. p # page
    BY <1>5, <1>6
  <2>4. ~ignored => \A q \in Held' :
          Free(q)' >= BridgeWords + (IF q = page THEN targets ELSE 0)
    BY <1>7, <2>1, <2>2, <2>3 DEF BridgeWords
  <2> QED
    BY <1>2, <1>5, <1>6, <1>7, <2>4 DEF RoomForBridge, TableRoom, BridgeWords
<1> QED
  BY <1>8, <1>9, <1>10, <1>11, <1>12, <1>13, <1>14, <1>15, <1>16

\* An expression is compiled to a page no function has its code on.
LEMMA BeginExpressionInv ==
  ASSUME IInv, BeginExpression
  PROVE  IInv'
<1> USE DEF IInv
<1>1. PICK p \in Acquirable("temp", Threshold) :
        Acquire("temp", p, Threshold) /\ page' = p
  BY DEF BeginExpression
<1>2. /\ alive /\ pc = "idle" /\ pc' = "expression"
      /\ UNCHANGED <<lineIndex, alive, saved, targets, function, entry, compiled, ignored>>
  BY DEF BeginExpression, frame
<1>3. Threshold \in Nat /\ Threshold >= 3 /\ "temp" \in Runtime
  BY LinesAssumption, OperandsAssumption DEF Runtime
<1>4. p \in Page /\ p \in pagesOpen["temp"] \cup pagesReleased \cup Unallocated
  BY <1>1, <1>3, AcquirableUnused
<1>5. /\ \A q \in Page : numLines[q] > 0 => numLines'[q] = numLines[q]
      /\ \A s \in Runtime : Listed(s)' \subseteq Listed(s)
      /\ pagesReleased' \subseteq pagesReleased
      /\ ~ignored => /\ numLines'[p] - lineIndex'[p] >= Threshold
                     /\ \A q \in Page : lineIndex'[q] <= numLines'[q]
  BY <1>1, <1>2, <1>3, <1>4, AcquireKeepsCode
<1>6. page = NoPage /\ saved = <<>> /\ targets = 0 /\ Held = {} /\ Held' = {p}
      /\ entry = NoPc /\ function = NoFunc
  BY <1>1, <1>2, <1>4, PageAssumption DEF Shape, Held, TypeOK
<1>7. /\ numLines' \in [Page -> Nat] /\ pagesReleased' \in SUBSET Page
      /\ pagesOpen' \in [Runtime -> SUBSET Page]
      /\ pagesFull' \in [Runtime -> SUBSET Page]
      /\ numCodePages' \in [Runtime -> Nat]
      /\ numActiveCodePages' \in [Runtime -> Nat]
      /\ ListsDisjoint' /\ Allocated'
  BY <1>1, <1>2, <1>3, <1>4, <1>6, AcquireKeeps
<1>8. TypeOK'
  BY <1>1, <1>2, <1>4, <1>7 DEF TypeOK
<1>9. Shape'
  BY <1>1, <1>2, <1>4, <1>6, PageAssumption DEF Shape
<1>10. PagesUnshared'
  BY <1>2, <1>6, <1>7 DEF PagesUnshared, SavedDistinct
<1>11. HeldActive'
  BY <1>1, <1>2, <1>3, <1>6 DEF HeldActive, rt, Acquire, TypeOK, Runtime
<1>12. PagesCounted'
  BY <1>1, <1>3, AcquireCounts
<1>13. EntryKept'
  BY <1>2, <1>6 DEF EntryKept
<1>14. CompiledCodeKept'
  <2>1. p \in pagesReleased \cup Unallocated
    BY <1>2, <1>4 DEF Shape, Listed
  <2>2. ASSUME NEW g \in Func \cup Import, compiled[g] # NoPc
        PROVE  compiled[g][1] # p
    BY <2>1, <2>2 DEF CompiledCodeKept, Unallocated
  <2> QED
    BY <1>1, <1>2, <1>5, <2>2 DEF CompiledCodeKept, TypeOK, Pc, Runtime
<1>15. RoomForBridge' /\ TableRoom'
  <2>1. targets' = 0 /\ pc' # "table" /\ ignored' = ignored
    BY <1>2, <1>6
  <2>2. ~ignored => numLines'[p] - lineIndex'[p] >= BridgeWords
    BY <1>3, <1>4, <1>5, <1>8 DEF BridgeWords, TypeOK
  <2>3. ~ignored => \A q \in Held' : Free(q)' >= BridgeWords
    BY <1>6, <2>2 DEF Free
  <2> QED
    BY <1>5, <2>1, <2>3 DEF RoomForBridge, TableRoom, BridgeWords
<1> QED
  BY <1>7, <1>8, <1>9, <1>10, <1>11, <1>12, <1>13, <1>14, <1>15

------------------------------------------------------------------------------
(* The steps that write *)

\* The pages in use keep room for a bridge.
LEMMA HeldRoom ==
  ASSUME IInv, ~ignored, NEW p \in Held
  PROVE  Free(p) >= BridgeWords
<1>1. p \in Page /\ Free(p) \in Int
  BY DEF IInv, TypeOK, Held, Free
<1>2. \E t \in Nat : Free(p) >= BridgeWords + t
  <2>1. targets \in Nat /\ 0 \in Nat
    BY DEF IInv, TypeOK
  <2> QED
    BY <2>1 DEF IInv, RoomForBridge
<1> QED
  BY <1>1, <1>2 DEF BridgeWords

\* A write adds words to the page written to or, over a bridge, to a new one; the
\* page it leaves with is held, and has what is left of the room that was made.
LEMMA EmitKeepsCode ==
  ASSUME IInv, pc # "idle", NEW need \in Nat, NEW words \in Nat,
         words <= need, Emit(need, words), UNCHANGED saved
  PROVE  /\ \A q \in Page : numLines[q] > 0 =>
              numLines'[q] = numLines[q] /\ lineIndex'[q] >= lineIndex[q]
         /\ \A s \in Runtime : Listed(s)' \subseteq Listed(s) \cup {page}
         /\ \A s \in Runtime \ {rt} : Listed(s)' = Listed(s)
         /\ pagesReleased' \subseteq pagesReleased
         /\ \A i \in 1..Len(saved) : Free(saved[i])' = Free(saved[i])
         /\ ~ignored => /\ numLines'[page'] - lineIndex'[page'] >= need - words + BridgeWords
                        /\ \A q \in Page : lineIndex'[q] <= numLines'[q]
         /\ words > 0 => lineIndex'[page] > lineIndex[page]
         /\ page' = page \/ page' \in pagesOpen[rt] \cup pagesReleased \cup Unallocated
<1> USE DEF IInv
<1>1. page \in Page /\ page \in Held /\ page' \in Page /\ rt \in Runtime
  BY EmitPage DEF Shape, TypeOK, Held
<1>2. /\ ~ignored => Free(page) >= BridgeWords /\ \A q \in Page : lineIndex[q] <= numLines[q]
      /\ numLines[page] > 0 /\ page \notin {saved[i] : i \in 1..Len(saved)}
  <2>1. ~ignored => Free(page) >= BridgeWords
    BY <1>1, HeldRoom
  <2>2. ~ignored => \A q \in Page : lineIndex[q] <= numLines[q]
    BY DEF RoomForBridge
  <2>3. numLines[page] > 0 /\ page \notin {saved[i] : i \in 1..Len(saved)}
    BY <1>1 DEF Allocated, PagesUnshared, SavedDistinct
  <2> QED
    BY <2>1, <2>2, <2>3
<1>3. CASE /\ page' = page /\ Free(page) >= need + BridgeWords
           /\ lineIndex' = [lineIndex EXCEPT ![page] = @ + words]
           /\ UNCHANGED <<numLines, lists, numActiveCodePages>>
  <2> USE <1>1, <1>2, <1>3 DEF lists, BridgeWords
  <2>1. \A q \in Page : lineIndex'[q] = IF q = page THEN lineIndex[q] + words ELSE lineIndex[q]
    BY DEF TypeOK
  <2>2. \A q \in Page : numLines[q] > 0 =>
          numLines'[q] = numLines[q] /\ lineIndex'[q] >= lineIndex[q]
    BY <2>1 DEF TypeOK
  <2>3. \A i \in 1..Len(saved) : Free(saved[i])' = Free(saved[i])
    <3>0. saved \in Seq(Page)
      BY DEF TypeOK
    <3>1. \A i \in 1..Len(saved) : saved[i] \in Page /\ saved[i] # page
      BY <1>2, <3>0
    <3> QED
      BY <2>1, <3>1 DEF Free
  <2>4. ~ignored => /\ numLines'[page'] - lineIndex'[page'] >= need - words + BridgeWords
                    /\ \A q \in Page : lineIndex'[q] <= numLines'[q]
    BY <2>1 DEF Free, TypeOK
  <2>5. words > 0 => lineIndex'[page] > lineIndex[page]
    BY <2>1 DEF TypeOK
  <2>6. /\ \A s \in Runtime : Listed(s)' = Listed(s)
        /\ pagesReleased' \subseteq pagesReleased
    BY DEF Listed
  <2> QED
    BY <2>2, <2>3, <2>4, <2>5, <2>6
<1>4. CASE /\ page' # page /\ page' \notin Held
           /\ page' \in Acquirable(rt, need + BridgeWords)
           /\ Take(rt, page', need + BridgeWords)
           /\ lineIndex' = [lineIndex EXCEPT ![page] = @ + BridgeWords,
                                             ![page'] = @ + words]
           /\ PutBack(rt, page, {page'})
           /\ UNCHANGED numActiveCodePages
  <2>1. PICK q \in Page : q = page'
    BY <1>1
  <2>2. /\ q # page /\ q \notin Held /\ q \in Acquirable(rt, need + BridgeWords)
        /\ Take(rt, q, need + BridgeWords)
        /\ lineIndex' = [lineIndex EXCEPT ![page] = @ + BridgeWords, ![q] = @ + words]
        /\ PutBack(rt, page, {q})
    BY <1>4, <2>1
  <2>3. need + BridgeWords \in Nat \ {0} /\ BridgeWords = 2
    BY DEF BridgeWords
  <2>4. /\ numLines' \in [Page -> Nat] /\ numLines'[q] - lineIndex[q] >= need + BridgeWords
        /\ \A x \in Page \ {q} : numLines'[x] = numLines[x]
        /\ pagesReleased' = pagesReleased \ {q}
    BY <1>1, <2>1, <2>2, <2>3, TakenFits
  <2>5. q \in pagesOpen[rt] \cup pagesReleased \cup Unallocated
    BY <1>1, <2>2, <2>3, AcquirableUnused
  <2>6. \A x \in Page : numLines[x] > 0 => numLines'[x] = numLines[x]
    BY <2>2 DEF Take, Unallocated, TypeOK
  <2>7. \A x \in Page : lineIndex'[x] = IF x = page THEN lineIndex[x] + BridgeWords
                                        ELSE IF x = q THEN lineIndex[x] + words ELSE lineIndex[x]
    BY <1>1, <2>1, <2>2, <2>3 DEF TypeOK
  <2>8. \A x \in Page : numLines[x] > 0 =>
          numLines'[x] = numLines[x] /\ lineIndex'[x] >= lineIndex[x]
    <3>1. \A x \in Page : lineIndex'[x] >= lineIndex[x]
      <4> SUFFICES ASSUME NEW x \in Page PROVE lineIndex'[x] >= lineIndex[x]
        OBVIOUS
      <4>1. lineIndex[x] \in Nat
        BY DEF TypeOK
      <4> QED
        BY <2>3, <2>7, <4>1
    <3> QED
      BY <2>6, <3>1
  <2>9. \A i \in 1..Len(saved) : Free(saved[i])' = Free(saved[i])
    <3>1. \A i \in 1..Len(saved) : saved[i] \in Page /\ saved[i] # page /\ saved[i] # q
      BY <1>2, <2>2 DEF TypeOK, Held
    <3> QED
      BY <2>4, <2>7, <3>1 DEF Free
  <2>10. ~ignored => /\ numLines'[q] - lineIndex'[q] >= need - words + BridgeWords
                     /\ \A x \in Page : lineIndex'[x] <= numLines'[x]
    <3>1. numLines'[q] - lineIndex'[q] >= need - words + BridgeWords /\ lineIndex'[q] <= numLines'[q]
      <4>1. numLines'[q] \in Nat /\ lineIndex[q] \in Nat /\ lineIndex'[q] = lineIndex[q] + words
        BY <2>1, <2>2, <2>4, <2>7 DEF TypeOK
      <4> QED
        BY <2>3, <2>4, <4>1
    <3>2. ~ignored => lineIndex'[page] <= numLines'[page]
      <4>1. numLines[page] \in Nat /\ lineIndex[page] \in Nat /\ numLines'[page] = numLines[page]
            /\ lineIndex'[page] = lineIndex[page] + BridgeWords
        BY <1>1, <2>2, <2>4, <2>7 DEF TypeOK
      <4> QED
        BY <1>2, <2>3, <4>1 DEF Free
    <3>3. ~ignored => \A x \in Page \ {page, q} : lineIndex'[x] <= numLines'[x]
      BY <1>2, <2>4, <2>7
    <3> QED
      BY <3>1, <3>2, <3>3
  <2>11. lineIndex'[page] > lineIndex[page]
    BY <1>1, <2>3, <2>7 DEF TypeOK
  <2>12. /\ \A s \in Runtime : Listed(s)' \subseteq Listed(s) \cup {page}
         /\ \A s \in Runtime \ {rt} : Listed(s)' = Listed(s)
    BY <1>1, <2>2 DEF PutBack, Listed, TypeOK
  <2> QED
    BY <2>1, <2>4, <2>5, <2>8, <2>9, <2>10, <2>11, <2>12
<1> QED
  BY <1>3, <1>4, EmitPage

\* What any step that writes, and moves on within the compilation, preserves.
LEMMA EmitInv ==
  ASSUME IInv, pc # "idle", NEW need \in Nat, NEW words \in Nat,
         words <= need, Emit(need, words), pc' \in {"body", "elseEnd", "table", "row", "target", "expression"},
         pc = "expression" <=> pc' = "expression", targets' \in Nat,
         UNCHANGED <<alive, saved, function, entry, compiled, ignored>>,
         pc = "entry" => words > 0
  PROVE  /\ TypeOK' /\ PagesUnshared' /\ Allocated' /\ HeldActive' /\ PagesCounted'
         /\ EntryKept' /\ CompiledCodeKept' /\ Held' = (Held \ {page}) \cup {page'}
         /\ page' \in Page /\ (pc' # "expression" => Listed("temp")' = {})
<1> USE DEF IInv
<1>1. /\ \A q \in Page : numLines[q] > 0 =>
           numLines'[q] = numLines[q] /\ lineIndex'[q] >= lineIndex[q]
      /\ \A s \in Runtime : Listed(s)' \subseteq Listed(s) \cup {page}
      /\ \A s \in Runtime \ {rt} : Listed(s)' = Listed(s)
      /\ pagesReleased' \subseteq pagesReleased
      /\ words > 0 => lineIndex'[page] > lineIndex[page]
      /\ page' = page \/ page' \in pagesOpen[rt] \cup pagesReleased \cup Unallocated
  BY EmitKeepsCode
<1>2. /\ numLines' \in [Page -> Nat] /\ pagesReleased' \in SUBSET Page
      /\ lineIndex' \in [Page -> Nat]
      /\ pagesOpen' \in [Runtime -> SUBSET Page]
      /\ pagesFull' \in [Runtime -> SUBSET Page]
      /\ numCodePages' \in [Runtime -> Nat]
      /\ ListsDisjoint' /\ SavedDistinct' /\ Allocated'
  BY EmitKeeps
<1>3. page' \in Page /\ page \in Page /\ page \in Held /\ rt' = rt /\ rt \in Runtime
      /\ numActiveCodePages' = numActiveCodePages
  BY EmitPage DEF rt, Shape, TypeOK, Held
<1>4. Held' = (Held \ {page}) \cup {page'}
  BY <1>3, PageAssumption DEF Held, PagesUnshared, SavedDistinct
<1>5. TypeOK'
  BY <1>2, <1>3 DEF TypeOK
<1>6. HeldActive'
  BY <1>3 DEF HeldActive
<1>7. PagesCounted'
  BY EmitCounts
<1>8. Listed("temp")' \subseteq Listed("temp") \cup (IF pc = "expression" THEN {page} ELSE {})
  BY <1>1 DEF rt, Runtime
<1>9. EntryKept'
  <2>1. CASE pc = "expression"
    BY <2>1 DEF Shape, EntryKept
  <2>2. CASE pc # "expression" /\ entry # NoPc
    <3>1. /\ numLines[entry[1]] > 0 /\ entry[1] \in Page /\ entry[2] \in Nat
          /\ entry[1] \notin pagesReleased \cup Listed("temp")
          /\ pc = "entry" => entry = <<page, lineIndex[page]>>
          /\ pc # "entry" => entry[2] < lineIndex[entry[1]]
          /\ \A g \in Func \cup Import : compiled[g] # entry
      BY <2>2 DEF EntryKept, TypeOK, Pc
    <3>2. entry[2] < lineIndex'[entry[1]]
      <4>1. lineIndex[entry[1]] \in Nat /\ lineIndex'[entry[1]] \in Nat
            /\ lineIndex'[entry[1]] >= lineIndex[entry[1]]
        BY <1>1, <1>2, <3>1 DEF TypeOK
      <4>2. CASE pc = "entry"
        BY <1>1, <3>1, <4>1, <4>2
      <4>3. CASE pc # "entry"
        BY <3>1, <4>1, <4>3
      <4> QED
        BY <4>2, <4>3
    <3> QED
      BY <1>1, <1>8, <2>2, <3>1, <3>2 DEF EntryKept
  <2> QED
    BY <2>1, <2>2 DEF EntryKept
<1>10. CompiledCodeKept'
  <2> SUFFICES ASSUME NEW g \in Func \cup Import, compiled[g] # NoPc
               PROVE  /\ numLines'[compiled[g][1]] > 0
                      /\ compiled[g][1] \notin pagesReleased' \cup Listed("temp")'
                      /\ pc' = "expression" => page' # compiled[g][1]
                      /\ compiled[g][2] < lineIndex'[compiled[g][1]]
                      /\ \A h \in (Func \cup Import) \ {g} : compiled[h] # compiled[g]
    BY DEF CompiledCodeKept
  <2>1. /\ numLines[compiled[g][1]] > 0
        /\ compiled[g][1] \notin pagesReleased \cup Listed("temp")
        /\ pc = "expression" => page # compiled[g][1]
        /\ compiled[g][2] < lineIndex[compiled[g][1]]
        /\ \A h \in (Func \cup Import) \ {g} : compiled[h] # compiled[g]
        /\ compiled[g][1] \in Page /\ compiled[g][2] \in Nat
    BY DEF CompiledCodeKept, TypeOK, Pc
  <2>2. compiled[g][2] < lineIndex'[compiled[g][1]]
    BY <1>1, <1>2, <2>1 DEF TypeOK
  <2>3. pc' = "expression" => page' # compiled[g][1]
    BY <1>1, <2>1 DEF Unallocated, Listed, rt
  <2> QED
    BY <1>1, <1>8, <2>1, <2>2, <2>3
<1>11. pc' # "expression" => Listed("temp")' = {}
  BY <1>8 DEF Shape
<1> QED
  BY <1>2, <1>3, <1>4, <1>5, <1>6, <1>7, <1>9, <1>10, <1>11 DEF PagesUnshared

\* An operation with up to Threshold words leaves a bridge's room in every page held,
\* and takes nothing from the pages that are saved.
LEMMA EmitRoom ==
  ASSUME IInv, ~ignored, pc # "idle", NEW need \in Nat, NEW words \in Nat,
         words <= need, Emit(need, words), UNCHANGED saved
  PROVE  /\ \A q \in Page : lineIndex'[q] <= numLines'[q]
         /\ \A i \in 1..Len(saved) : Free(saved[i])' = Free(saved[i])
         /\ numLines'[page'] - lineIndex'[page'] >= need - words + BridgeWords
         /\ \A q \in Held' : Free(q)' >= BridgeWords
<1> USE DEF IInv
<1>1. /\ \A i \in 1..Len(saved) : Free(saved[i])' = Free(saved[i])
      /\ numLines'[page'] - lineIndex'[page'] >= need - words + BridgeWords
      /\ \A q \in Page : lineIndex'[q] <= numLines'[q]
  BY EmitKeepsCode
<1>2. Free(page)' >= BridgeWords
  <2>1. page' \in Page /\ numLines' \in [Page -> Nat] /\ lineIndex' \in [Page -> Nat]
    BY EmitPage, EmitKeeps
  <2>2. PICK left \in Int : left = numLines'[page'] - lineIndex'[page']
    BY <2>1
  <2>3. left >= need - words + BridgeWords
    BY <1>1, <2>2
  <2>4. left >= BridgeWords
    BY <2>3 DEF BridgeWords
  <2> QED
    BY <2>2, <2>4 DEF Free
<1>3. \A i \in 1..Len(saved) : Free(saved[i])' >= BridgeWords
  <2>1. \A i \in 1..Len(saved) : saved[i] \in Held
    BY DEF Held
  <2> QED
    BY <1>1, <2>1, HeldRoom
<1>4. \A q \in Held' : q = page' \/ \E i \in 1..Len(saved) : q = saved[i]
  BY DEF Held
<1>5. \A q \in Held' : Free(q)' >= BridgeWords
  BY <1>2, <1>3, <1>4 DEF Free
<1> QED
  BY <1>1, <1>5

\* The first operation is written at the entry, which is a function's place from then on.
LEMMA EmitEntryInv ==
  ASSUME IInv, EmitEntry
  PROVE  IInv'
<1> USE DEF IInv
<1>1. /\ pc = "entry" /\ pc' = "body" /\ Emit(Threshold, 2)
      /\ UNCHANGED <<alive, saved, targets, function, entry, compiled, ignored>>
  BY DEF EmitEntry, EmitOp, frame
<1>2. Threshold \in Nat /\ 2 <= Threshold /\ targets \in Nat
  BY LinesAssumption, OperandsAssumption DEF TypeOK
<1>3. /\ TypeOK' /\ PagesUnshared' /\ Allocated' /\ HeldActive' /\ PagesCounted'
      /\ EntryKept' /\ CompiledCodeKept' /\ page' \in Page /\ Listed("temp")' = {}
  BY <1>1, <1>2, EmitInv
<1>4. Shape'
  BY <1>1, <1>3, PageAssumption DEF Shape
<1>5. RoomForBridge' /\ TableRoom'
  <2>1. targets = 0
    BY <1>1, <1>2 DEF Shape
  <2>2. ~ignored => /\ \A q \in Page : lineIndex'[q] <= numLines'[q]
                    /\ \A q \in Held' : Free(q)' >= BridgeWords
    BY <1>1, <1>2, EmitRoom
  <2> QED
    BY <1>1, <2>1, <2>2 DEF RoomForBridge, TableRoom, BridgeWords
<1> QED
  BY <1>3, <1>4, <1>5

\* An operation leaves the room of a bridge, and the table its room, as it found them.
LEMMA EmitOperationInv ==
  ASSUME IInv, EmitOperation
  PROVE  IInv'
<1> USE DEF IInv
<1>1. PICK n \in Operands : Emit(Threshold, 1 + n)
  BY DEF EmitOperation, EmitOp
<1>2. /\ pc \in {"body", "target", "expression"}
      /\ UNCHANGED <<alive, pc, saved, targets, function, entry, compiled, ignored>>
  BY DEF EmitOperation, frame
<1>3. Threshold \in Nat /\ 1 + n \in Nat /\ 1 + n <= Threshold /\ targets \in Nat
  BY LinesAssumption, OperandsAssumption DEF TypeOK
<1>4. /\ TypeOK' /\ PagesUnshared' /\ Allocated' /\ HeldActive' /\ PagesCounted'
      /\ EntryKept' /\ CompiledCodeKept' /\ page' \in Page
      /\ Held' = (Held \ {page}) \cup {page'}
      /\ pc' # "expression" => Listed("temp")' = {}
  BY <1>1, <1>2, <1>3, EmitInv
<1>5. Shape'
  BY <1>2, <1>4, PageAssumption DEF Shape
<1>6. RoomForBridge' /\ TableRoom'
  <2>1. CASE pc \in {"body", "expression"}
    <3>1. targets = 0
      BY <1>3, <2>1 DEF Shape
    <3>2. ~ignored => /\ \A q \in Page : lineIndex'[q] <= numLines'[q]
                      /\ \A q \in Held' : Free(q)' >= BridgeWords
      BY <1>1, <1>2, <1>3, <2>1, EmitRoom
    <3> QED
      BY <1>2, <2>1, <3>1, <3>2 DEF RoomForBridge, TableRoom, BridgeWords
  <2>2. CASE pc = "target"
    <3> DEFINE table == saved[Len(saved)]
    <3>1. targets > 0 /\ saved # <<>> /\ Len(saved) \in 1..Len(saved) /\ table \in Held
      BY <2>2 DEF Shape, Held, TypeOK
    <3>2. ~ignored => /\ \A q \in Page : lineIndex'[q] <= numLines'[q]
                      /\ \A q \in Held' : Free(q)' >= BridgeWords
                      /\ Free(table)' = Free(table)
      BY <1>1, <1>2, <1>3, <2>2, <3>1, EmitRoom
    <3>3. ~ignored => Free(table) >= BridgeWords + targets
      BY <2>2, <3>1 DEF RoomForBridge
    <3> QED
      BY <1>2, <2>2, <3>1, <3>2, <3>3 DEF RoomForBridge, TableRoom, BridgeWords
  <2> QED
    BY <1>2, <2>1, <2>2
<1> QED
  BY <1>4, <1>5, <1>6

\* So does the branch at the end of an else block.
LEMMA EmitElseBranchInv ==
  ASSUME IInv, EmitElseBranch
  PROVE  IInv'
<1> USE DEF IInv
<1>1. /\ pc = "body" /\ pc' = "elseEnd" /\ saved # <<>> /\ Emit(Threshold, 2)
      /\ UNCHANGED <<alive, saved, targets, function, entry, compiled, ignored>>
  BY DEF EmitElseBranch, EmitOp, frame
<1>2. Threshold \in Nat /\ 2 <= Threshold /\ targets \in Nat
  BY LinesAssumption, OperandsAssumption DEF TypeOK
<1>3. /\ TypeOK' /\ PagesUnshared' /\ Allocated' /\ HeldActive' /\ PagesCounted'
      /\ EntryKept' /\ CompiledCodeKept' /\ page' \in Page /\ Listed("temp")' = {}
  BY <1>1, <1>2, EmitInv
<1>4. Shape'
  BY <1>1, <1>3, PageAssumption DEF Shape
<1>5. RoomForBridge' /\ TableRoom'
  <2>1. targets = 0
    BY <1>1, <1>2 DEF Shape
  <2>2. ~ignored => /\ \A q \in Page : lineIndex'[q] <= numLines'[q]
                    /\ \A q \in Held' : Free(q)' >= BridgeWords
    BY <1>1, <1>2, EmitRoom
  <2> QED
    BY <1>1, <2>1, <2>2 DEF RoomForBridge, TableRoom, BridgeWords
<1> QED
  BY <1>3, <1>4, <1>5

\* The room of the whole table is there before its first word is written.
LEMMA BeginTableInv ==
  ASSUME IInv, BeginTable
  PROVE  IInv'
<1> USE DEF IInv
<1>1. PICK n \in Targets : Emit(n + 4, 0) /\ targets' = n + 1
  BY DEF BeginTable
<1>2. /\ pc = "body" /\ pc' = "table"
      /\ UNCHANGED <<alive, saved, function, entry, compiled, ignored>>
  BY DEF BeginTable
<1>3. n \in Nat /\ n + 4 \in Nat /\ 0 \in Nat /\ targets' \in Nat
  BY <1>1, OperandsAssumption
<1>4. /\ TypeOK' /\ PagesUnshared' /\ Allocated' /\ HeldActive' /\ PagesCounted'
      /\ EntryKept' /\ CompiledCodeKept' /\ page' \in Page /\ Listed("temp")' = {}
  BY <1>1, <1>2, <1>3, EmitInv
<1>5. Shape'
  BY <1>1, <1>2, <1>3, <1>4, PageAssumption DEF Shape
<1>6. ~ignored => /\ \A q \in Page : lineIndex'[q] <= numLines'[q]
                  /\ \A q \in Held' : Free(q)' >= BridgeWords
                  /\ numLines'[page'] - lineIndex'[page'] >= n + 4 - 0 + BridgeWords
  BY <1>1, <1>2, <1>3, EmitRoom
<1>7. TableRoom'
  <2>1. numLines'[page'] \in Nat /\ lineIndex'[page'] \in Nat
    BY <1>4 DEF TypeOK
  <2> QED
    BY <1>1, <1>2, <1>3, <1>6, <2>1 DEF TableRoom, Free, BridgeWords
<1>8. RoomForBridge'
  BY <1>2, <1>6 DEF RoomForBridge, BridgeWords
<1> QED
  BY <1>4, <1>5, <1>7, <1>8

\* The three words before the pointers leave room for them, bridged or not.
LEMMA EmitTableInv ==
  ASSUME IInv, EmitTable
  PROVE  IInv'
<1> USE DEF IInv
<1>1. /\ pc = "table" /\ pc' = "row" /\ Emit(Threshold, 3)
      /\ UNCHANGED <<alive, saved, targets, function, entry, compiled, ignored>>
  BY DEF EmitTable, EmitOp, frame
<1>2. Threshold \in Nat /\ 3 <= Threshold /\ targets \in Nat
  BY LinesAssumption, OperandsAssumption DEF TypeOK
<1>3. /\ TypeOK' /\ PagesUnshared' /\ Allocated' /\ HeldActive' /\ PagesCounted'
      /\ EntryKept' /\ CompiledCodeKept' /\ page' \in Page /\ Listed("temp")' = {}
  BY <1>1, <1>2, EmitInv
<1>4. Shape'
  BY <1>1, <1>3, PageAssumption DEF Shape
<1>5. ~ignored => /\ \A q \in Page : lineIndex'[q] <= numLines'[q]
                  /\ \A q \in Held' : Free(q)' >= BridgeWords
                  /\ numLines'[page'] - lineIndex'[page'] >= Threshold - 3 + BridgeWords
  BY <1>1, <1>2, EmitRoom
<1>6. ~ignored => Free(page)' >= BridgeWords + targets
  <2>1. PICK room \in Int : room = Free(page)
    BY <1>1 DEF Free, TypeOK, Shape
  <2>2. ~ignored => room >= targets + 5
    BY <1>1, <1>2, <2>1 DEF TableRoom, BridgeWords
  <2>3. page \in Page /\ numLines[page] \in Nat /\ lineIndex[page] \in Nat
    BY <1>1 DEF Shape, TypeOK
  <2>4. PICK left \in Int : left = numLines'[page'] - lineIndex'[page'] /\ left = Free(page)'
    BY <1>3 DEF TypeOK, Free
  <2>5. CASE room >= Threshold + BridgeWords
    <3>1. ~(room < Threshold + BridgeWords)
      BY <1>2, <2>1, <2>5 DEF BridgeWords
    <3>2. lineIndex' = [lineIndex EXCEPT ![page] = @ + 3] /\ numLines' = numLines /\ page' = page
      BY <1>1, <2>1, <3>1 DEF Emit
    <3>3. lineIndex'[page] = lineIndex[page] + 3
      BY <2>3, <3>2 DEF TypeOK
    <3>4. left = room - 3
      BY <2>1, <2>3, <2>4, <3>2, <3>3 DEF Free
    <3> QED
      BY <1>2, <2>2, <2>4, <3>4 DEF BridgeWords
  <2>6. CASE room < Threshold + BridgeWords
    BY <1>2, <1>5, <2>2, <2>4, <2>6 DEF BridgeWords
  <2> QED
    BY <1>2, <2>5, <2>6 DEF BridgeWords
<1>7. RoomForBridge'
  BY <1>1, <1>5, <1>6 DEF RoomForBridge, BridgeWords
<1>8. TableRoom'
  BY <1>1 DEF TableRoom
<1> QED
  BY <1>3, <1>4, <1>7, <1>8

\* A write without its opcode may leave the page, but moves no page.
LEMMA EmitWithoutOpInv ==
  ASSUME IInv, EmitWithoutOp
  PROVE  IInv'
<1> USE DEF IInv
<1>1. PICK n \in Operands \ {0} : lineIndex' = [lineIndex EXCEPT ![page] = @ + n]
  BY DEF EmitWithoutOp
<1>2. /\ pc = "body" /\ ignored' = TRUE
      /\ UNCHANGED <<numLines, pagesOpen, pagesFull, pagesReleased, numCodePages,
                     numActiveCodePages, alive, pc, page, saved, targets, function,
                     entry, compiled>>
  BY DEF EmitWithoutOp, lists, frame
<1>3. page \in Page /\ page \in Held /\ n \in Nat
  BY <1>2, PageAssumption, OperandsAssumption DEF Shape, TypeOK, Held
<1>4. lineIndex' \in [Page -> Nat] /\ \A q \in Page : lineIndex'[q] >= lineIndex[q]
  BY <1>1, <1>3 DEF TypeOK
<1>5. TypeOK'
  BY <1>2, <1>4 DEF TypeOK
<1>6. Shape' /\ HeldActive' /\ PagesUnshared' /\ PagesCounted'
  BY <1>2 DEF Shape, HeldActive, PagesUnshared, ListsDisjoint, SavedDistinct, PagesCounted,
              Listed, Held, rt
<1>7. Allocated'
  <2>1. page \notin Unallocated
    BY <1>3 DEF Allocated, Unallocated
  <2> QED
    BY <1>1, <1>2, <1>3, <2>1 DEF Allocated, Unallocated, Listed, Held, TypeOK
<1>8. EntryKept'
  <2>1. SUFFICES ASSUME entry # NoPc PROVE entry[2] < lineIndex'[entry[1]]
    BY <1>2 DEF EntryKept, Listed
  <2>2. entry[1] \in Page /\ entry[2] \in Nat /\ entry[2] < lineIndex[entry[1]]
    BY <1>2, <2>1 DEF EntryKept, TypeOK, Pc
  <2> QED
    BY <1>4, <2>2 DEF TypeOK
<1>9. CompiledCodeKept'
  <2>1. \A g \in Func \cup Import : compiled[g] # NoPc =>
          compiled[g][1] \in Page /\ compiled[g][2] \in Nat
    BY DEF TypeOK, Pc
  <2>2. \A g \in Func \cup Import : compiled[g] # NoPc =>
          compiled[g][2] < lineIndex'[compiled[g][1]]
    <3> SUFFICES ASSUME NEW g \in Func \cup Import, compiled[g] # NoPc
                 PROVE  compiled[g][2] < lineIndex'[compiled[g][1]]
      OBVIOUS
    <3>1. compiled[g][2] < lineIndex[compiled[g][1]]
      BY DEF CompiledCodeKept
    <3> QED
      BY <1>4, <2>1, <3>1 DEF TypeOK
  <2> QED
    BY <1>2, <2>2 DEF CompiledCodeKept, Listed
<1>10. RoomForBridge' /\ TableRoom'
  BY <1>2 DEF RoomForBridge, TableRoom
<1> QED
  BY <1>5, <1>6, <1>7, <1>8, <1>9, <1>10

------------------------------------------------------------------------------
(* The steps that release a page *)

\* Going back to the page saved last.
LEMMA SavedPopped ==
  ASSUME TypeOK, SavedDistinct, page \in Page, saved # <<>>,
         page' = saved[Len(saved)], saved' = SubSeq(saved, 1, Len(saved) - 1)
  PROVE  /\ saved' \in Seq(Page) /\ Len(saved') = Len(saved) - 1
         /\ page' \in Page /\ page' \in Held /\ page' # page
         /\ Held' = Held \ {page} /\ SavedDistinct'
<1>1. Len(saved) \in Nat \ {0} /\ saved \in Seq(Page)
  BY DEF TypeOK
<1>2. PICK n \in Nat : Len(saved) = n + 1
  <2>1. Len(saved) - 1 \in Nat /\ Len(saved) = (Len(saved) - 1) + 1
    BY <1>1
  <2> QED
    BY <2>1
<1>3. /\ saved' \in Seq(Page) /\ Len(saved') = n
      /\ \A i \in 1..n : saved'[i] = saved[i]
  BY <1>1, <1>2
<1>4. 1..Len(saved) = 1..n \cup {n + 1} /\ n + 1 \in 1..Len(saved)
  BY <1>2
<1>5. page' = saved[n + 1] /\ page' \in Page
  BY <1>1, <1>2, <1>4
<1>6. {saved[i] : i \in 1..Len(saved)} = {saved'[i] : i \in 1..Len(saved')} \cup {page'}
  BY <1>3, <1>4, <1>5
<1>7. page \notin {saved[i] : i \in 1..Len(saved)} /\ page' # page
  BY <1>4, <1>5 DEF SavedDistinct
<1>8. Held' = Held \ {page}
  BY <1>5, <1>6, <1>7, PageAssumption DEF Held
<1>9. \A i \in 1..n : i # n + 1 /\ i \in 1..Len(saved)
  BY <1>2
<1>10. SavedDistinct'
  BY <1>3, <1>4, <1>5, <1>9 DEF SavedDistinct
<1>11. Len(saved') = Len(saved) - 1
  BY <1>2, <1>3
<1>12. page' \in Held
  BY <1>4, <1>5 DEF Held
<1> QED
  BY <1>3, <1>5, <1>7, <1>8, <1>10, <1>11, <1>12

\* What a release, with at most more words written, preserves of the pages and of
\* the code that is compiled.
LEMMA ReleaseInv ==
  ASSUME IInv, pc # "idle", pc # "expression", Release("main", page),
         lineIndex' \in [Page -> Nat], \A q \in Page : lineIndex'[q] >= lineIndex[q],
         \A q \in Unallocated : lineIndex'[q] = 0,
         Held' \subseteq Held \ {page}, pc' # "expression"
  PROVE  /\ numLines' = numLines /\ pagesReleased' = pagesReleased
         /\ pagesOpen' \in [Runtime -> SUBSET Page]
         /\ pagesFull' \in [Runtime -> SUBSET Page]
         /\ numCodePages' \in [Runtime -> Nat]
         /\ numActiveCodePages' \in [Runtime -> Nat]
         /\ numActiveCodePages'["main"] >= Len(saved)
         /\ Listed("temp")' = {} /\ ListsDisjoint' /\ Allocated' /\ PagesCounted'
         /\ UNCHANGED compiled => CompiledCodeKept'
         /\ pc # "entry" /\ pc' # "entry" /\ UNCHANGED <<entry, compiled>> => EntryKept'
<1> USE DEF IInv
<1>1. /\ pagesOpen' \in [Runtime -> SUBSET Page]
      /\ pagesFull' \in [Runtime -> SUBSET Page]
      /\ numCodePages' \in [Runtime -> Nat]
      /\ numActiveCodePages' \in [Runtime -> Nat]
      /\ ListsDisjoint' /\ Allocated'
  BY ReleaseKeeps
<1>2. /\ numLines' = numLines /\ pagesReleased' = pagesReleased
      /\ numActiveCodePages'["main"] = numActiveCodePages["main"] - 1
  BY DEF Release, TypeOK, Runtime
<1>3. page \in Page /\ page \in Held /\ rt = "main" /\ "main" \in Runtime
  BY DEF Shape, TypeOK, Held, rt, Runtime
<1>4. PagesCounted'
  BY <1>3, ReleaseCounts
<1>5. numActiveCodePages'["main"] >= Len(saved)
  BY <1>2, <1>3 DEF HeldActive, TypeOK
<1>6. Listed("temp")' = {}
  BY DEF Release, PutBack, Listed, Shape, TypeOK, Runtime
<1>7. UNCHANGED compiled => CompiledCodeKept'
  <2> SUFFICES ASSUME UNCHANGED compiled, NEW g \in Func \cup Import, compiled[g] # NoPc
               PROVE  /\ numLines'[compiled[g][1]] > 0
                      /\ compiled[g][1] \notin pagesReleased' \cup Listed("temp")'
                      /\ compiled[g][2] < lineIndex'[compiled[g][1]]
                      /\ \A h \in (Func \cup Import) \ {g} : compiled[h] # compiled[g]
    BY DEF CompiledCodeKept
  <2>1. /\ numLines[compiled[g][1]] > 0
        /\ compiled[g][1] \notin pagesReleased
        /\ compiled[g][2] < lineIndex[compiled[g][1]]
        /\ \A h \in (Func \cup Import) \ {g} : compiled[h] # compiled[g]
        /\ compiled[g][1] \in Page /\ compiled[g][2] \in Nat
    BY DEF CompiledCodeKept, TypeOK, Pc
  <2>2. compiled[g][2] < lineIndex'[compiled[g][1]]
    BY <2>1 DEF TypeOK
  <2> QED
    BY <1>2, <1>6, <2>1, <2>2
<1>8. pc # "entry" /\ pc' # "entry" /\ UNCHANGED <<entry, compiled>> => EntryKept'
  <2> SUFFICES ASSUME pc # "entry", pc' # "entry", UNCHANGED <<entry, compiled>>, entry # NoPc
               PROVE  EntryKept'
    BY DEF EntryKept
  <2>1. /\ numLines[entry[1]] > 0 /\ entry[1] \in Page /\ entry[2] \in Nat
        /\ entry[1] \notin pagesReleased
        /\ entry[2] < lineIndex[entry[1]]
        /\ \A g \in Func \cup Import : compiled[g] # entry
    BY DEF EntryKept, TypeOK, Pc
  <2>2. entry[2] < lineIndex'[entry[1]]
    BY <2>1 DEF TypeOK
  <2> QED
    BY <1>2, <1>6, <2>1, <2>2 DEF EntryKept
<1> QED
  BY <1>1, <1>2, <1>4, <1>5, <1>6, <1>7, <1>8

\* The end of an else block goes back to the page saved before it.
LEMMA EndElseInv ==
  ASSUME IInv, EndElse
  PROVE  IInv'
<1> USE DEF IInv
<1>1. /\ pc = "elseEnd" /\ pc' = "body" /\ Release("main", page)
      /\ page' = saved[Len(saved)] /\ saved' = SubSeq(saved, 1, Len(saved) - 1)
      /\ UNCHANGED <<lineIndex, alive, targets, function, entry, compiled, ignored>>
  BY DEF EndElse
<1>2. saved # <<>> /\ page \in Page /\ targets = 0 /\ alive
  BY <1>1 DEF Shape, TypeOK
<1>3. /\ saved' \in Seq(Page) /\ Len(saved') = Len(saved) - 1
      /\ page' \in Page /\ page' \in Held /\ page' # page
      /\ Held' = Held \ {page} /\ SavedDistinct'
  BY <1>1, <1>2, SavedPopped DEF PagesUnshared
<1>4. lineIndex' \in [Page -> Nat] /\ \A q \in Page : lineIndex'[q] >= lineIndex[q]
  BY <1>1 DEF TypeOK
<1>5. /\ numLines' = numLines /\ pagesReleased' = pagesReleased
      /\ pagesOpen' \in [Runtime -> SUBSET Page]
      /\ pagesFull' \in [Runtime -> SUBSET Page]
      /\ numCodePages' \in [Runtime -> Nat]
      /\ numActiveCodePages' \in [Runtime -> Nat]
      /\ numActiveCodePages'["main"] >= Len(saved)
      /\ Listed("temp")' = {} /\ ListsDisjoint' /\ Allocated' /\ PagesCounted'
      /\ CompiledCodeKept' /\ EntryKept'
  BY <1>1, <1>3, <1>4, ReleaseInv DEF Allocated
<1>6. TypeOK'
  BY <1>1, <1>3, <1>4, <1>5 DEF TypeOK
<1>7. Shape'
  BY <1>1, <1>2, <1>3, <1>5, PageAssumption DEF Shape
<1>8. PagesUnshared'
  BY <1>3, <1>5 DEF PagesUnshared
<1>9. HeldActive'
  <2>1. Len(saved) \in Nat /\ rt' = "main"
    BY <1>1 DEF TypeOK, rt
  <2>2. numActiveCodePages'[rt'] >= Len(saved') + 1
    BY <1>3, <1>5, <2>1
  <2> QED
    BY <2>2 DEF HeldActive
<1>10. RoomForBridge' /\ TableRoom'
  BY <1>1, <1>2, <1>3, <1>5 DEF RoomForBridge, TableRoom, Free, BridgeWords
<1> QED
  BY <1>5, <1>6, <1>7, <1>8, <1>9, <1>10

\* The end of a br_table target writes a pointer to the table and goes back to it.
LEMMA EndTargetInv ==
  ASSUME IInv, EndTarget
  PROVE  IInv'
<1> USE DEF IInv
<1> DEFINE table == saved[Len(saved)]
<1>1. /\ pc = "target" /\ pc' = (IF targets = 1 THEN "body" ELSE "row")
      /\ Release("main", page)
      /\ page' = table /\ saved' = SubSeq(saved, 1, Len(saved) - 1)
      /\ lineIndex' = [lineIndex EXCEPT ![table] = @ + 1] /\ targets' = targets - 1
      /\ UNCHANGED <<alive, function, entry, compiled, ignored>>
  BY DEF EndTarget
<1>2. saved # <<>> /\ page \in Page /\ targets \in Nat /\ targets > 0 /\ alive
  BY <1>1 DEF Shape, TypeOK
<1>3. /\ saved' \in Seq(Page) /\ Len(saved') = Len(saved) - 1
      /\ page' \in Page /\ page' \in Held /\ page' # page
      /\ Held' = Held \ {page} /\ SavedDistinct'
  BY <1>1, <1>2, SavedPopped DEF PagesUnshared
<1>4. table \in Page /\ table \in Held /\ numLines[table] > 0 /\ page' = table
  BY <1>1, <1>3 DEF Allocated
<1>5. /\ lineIndex' \in [Page -> Nat] /\ \A q \in Page : lineIndex'[q] >= lineIndex[q]
      /\ lineIndex'[table] = lineIndex[table] + 1
      /\ \A q \in Page \ {table} : lineIndex'[q] = lineIndex[q]
  BY <1>1, <1>4 DEF TypeOK
<1>6. \A q \in Unallocated : lineIndex'[q] = 0
  BY <1>4, <1>5 DEF Allocated, Unallocated
<1>7. /\ numLines' = numLines /\ pagesReleased' = pagesReleased
      /\ pagesOpen' \in [Runtime -> SUBSET Page]
      /\ pagesFull' \in [Runtime -> SUBSET Page]
      /\ numCodePages' \in [Runtime -> Nat]
      /\ numActiveCodePages' \in [Runtime -> Nat]
      /\ numActiveCodePages'["main"] >= Len(saved)
      /\ Listed("temp")' = {} /\ ListsDisjoint' /\ Allocated' /\ PagesCounted'
      /\ CompiledCodeKept' /\ EntryKept'
  BY <1>1, <1>3, <1>5, <1>6, ReleaseInv
<1>8. TypeOK'
  <2>1. targets' \in Nat
    BY <1>1, <1>2
  <2>2. pc' \in {"body", "row"}
    BY <1>1
  <2> QED
    BY <1>1, <1>3, <1>5, <1>7, <2>1, <2>2 DEF TypeOK
<1>9. Shape'
  BY <1>1, <1>2, <1>3, <1>7, PageAssumption DEF Shape
<1>10. PagesUnshared'
  BY <1>3, <1>7 DEF PagesUnshared
<1>11. HeldActive'
  <2>1. Len(saved) \in Nat /\ rt' = "main"
    BY <1>1 DEF TypeOK, rt
  <2>2. numActiveCodePages'[rt'] >= Len(saved') + 1
    BY <1>3, <1>7, <2>1
  <2> QED
    BY <2>2 DEF HeldActive
<1>12. RoomForBridge'
  <2> SUFFICES ASSUME ~ignored
               PROVE  /\ \A q \in Page : lineIndex'[q] <= numLines'[q]
                      /\ Free(page)' >= BridgeWords + (targets - 1)
                      /\ \A q \in Held' : Free(q)' >= BridgeWords
    BY <1>1, <1>2 DEF RoomForBridge, BridgeWords
  <2>1. Free(table) >= BridgeWords + targets
    BY <1>1, <1>2, <1>4 DEF RoomForBridge
  <2>2. numLines[table] \in Nat /\ lineIndex[table] \in Nat
    BY <1>4 DEF TypeOK
  <2>3. Free(page)' >= BridgeWords + (targets - 1)
    BY <1>2, <1>4, <1>5, <1>7, <2>1, <2>2 DEF Free, BridgeWords
  <2>4. \A q \in Held' : Free(q)' >= BridgeWords
    <3> SUFFICES ASSUME NEW q \in Held' PROVE numLines'[q] - lineIndex'[q] >= BridgeWords
      BY DEF Free
    <3>0. Held \subseteq Page
      BY AllPages
    <3>1. q \in Held /\ q \in Page
      BY <1>3, <3>0
    <3>2. CASE q = table
      BY <1>2, <1>4, <2>3, <3>2, <2>2, <1>5, <1>7 DEF Free, BridgeWords
    <3>3. CASE q # table
      <4>1. Free(q) >= BridgeWords
        BY <3>1, HeldRoom
      <4> QED
        BY <1>5, <1>7, <3>1, <3>3, <4>1 DEF Free
    <3> QED
      BY <3>2, <3>3
  <2>5. \A q \in Page : lineIndex'[q] <= numLines'[q]
    <3>1. \A q \in Page : lineIndex[q] <= numLines[q]
      BY DEF RoomForBridge
    <3>2. lineIndex'[table] <= numLines'[table]
      BY <1>2, <1>5, <1>7, <2>1, <2>2 DEF Free, BridgeWords
    <3> QED
      BY <1>5, <1>7, <3>1, <3>2
  <2> QED
    BY <2>3, <2>4, <2>5
<1>13. TableRoom'
  BY <1>1 DEF TableRoom
<1> QED
  BY <1>7, <1>8, <1>9, <1>10, <1>11, <1>12, <1>13

\* A compilation that ends, well or not, holds nothing any more.
LEMMA StopInv ==
  ASSUME IInv, pc \notin {"idle", "expression"}, Release("main", page), Stop,
         UNCHANGED <<lineIndex, alive, ignored>>
  PROVE  /\ numLines' = numLines /\ pagesReleased' = pagesReleased
         /\ pagesOpen' \in [Runtime -> SUBSET Page]
         /\ pagesFull' \in [Runtime -> SUBSET Page]
         /\ numCodePages' \in [Runtime -> Nat]
         /\ numActiveCodePages' \in [Runtime -> Nat]
         /\ Listed("temp")' = {} /\ PagesUnshared' /\ Allocated' /\ PagesCounted'
         /\ UNCHANGED compiled => CompiledCodeKept'
         /\ HeldActive' /\ EntryKept' /\ RoomForBridge' /\ TableRoom'
<1> USE DEF IInv
<1>1. /\ page' = NoPage /\ saved' = <<>> /\ targets' = 0
      /\ entry' = NoPc /\ pc' = "idle"
  BY DEF Stop
<1>2. Held' = {}
  BY <1>1 DEF Held
<1>3. /\ lineIndex' \in [Page -> Nat] /\ \A q \in Page : lineIndex'[q] >= lineIndex[q]
      /\ \A q \in Unallocated : lineIndex'[q] = 0
  BY DEF TypeOK, Allocated
<1>4. /\ numLines' = numLines /\ pagesReleased' = pagesReleased
      /\ pagesOpen' \in [Runtime -> SUBSET Page]
      /\ pagesFull' \in [Runtime -> SUBSET Page]
      /\ numCodePages' \in [Runtime -> Nat]
      /\ numActiveCodePages' \in [Runtime -> Nat]
      /\ Listed("temp")' = {} /\ ListsDisjoint' /\ Allocated' /\ PagesCounted'
      /\ UNCHANGED compiled => CompiledCodeKept'
  BY <1>1, <1>2, <1>3, ReleaseInv
<1>5. PagesUnshared'
  BY <1>1, <1>4 DEF PagesUnshared, SavedDistinct
<1>6. HeldActive' /\ EntryKept' /\ TableRoom'
  BY <1>1 DEF HeldActive, EntryKept, TableRoom
<1>7. RoomForBridge'
  BY <1>2, <1>4 DEF RoomForBridge
<1> QED
  BY <1>4, <1>5, <1>6, <1>7

\* The function compiled starts at its entry, which has been written.
LEMMA EndFunctionInv ==
  ASSUME IInv, EndFunction
  PROVE  IInv'
<1> USE DEF IInv
<1>1. /\ pc = "body" /\ saved = <<>> /\ Release("main", page) /\ Stop
      /\ compiled' = [compiled EXCEPT ![function] = entry]
      /\ UNCHANGED <<lineIndex, alive, ignored>>
  BY DEF EndFunction
<1>2. /\ function \in Func /\ entry \in Pc /\ entry # NoPc /\ alive
  BY <1>1, PageAssumption DEF Shape, Pc
<1>3. /\ numLines' = numLines /\ pagesReleased' = pagesReleased
      /\ pagesOpen' \in [Runtime -> SUBSET Page]
      /\ pagesFull' \in [Runtime -> SUBSET Page]
      /\ numCodePages' \in [Runtime -> Nat]
      /\ numActiveCodePages' \in [Runtime -> Nat]
      /\ Listed("temp")' = {} /\ PagesUnshared' /\ Allocated' /\ PagesCounted'
      /\ HeldActive' /\ EntryKept' /\ RoomForBridge' /\ TableRoom'
  BY <1>1, StopInv
<1>4. compiled' \in [Func \cup Import -> Pc \cup {NoPc}]
      /\ compiled'[function] = entry
      /\ \A g \in (Func \cup Import) \ {function} : compiled'[g] = compiled[g]
  BY <1>1, <1>2 DEF TypeOK
<1>5. TypeOK'
  BY <1>1, <1>3, <1>4 DEF TypeOK, Stop
<1>6. Shape'
  BY <1>1, <1>2, <1>3 DEF Shape, Stop
<1>7. CompiledCodeKept'
  <2> SUFFICES ASSUME NEW g \in Func \cup Import, compiled'[g] # NoPc
               PROVE  /\ numLines'[compiled'[g][1]] > 0
                      /\ compiled'[g][1] \notin pagesReleased' \cup Listed("temp")'
                      /\ compiled'[g][2] < lineIndex'[compiled'[g][1]]
                      /\ \A h \in (Func \cup Import) \ {g} : compiled'[h] # compiled'[g]
    BY <1>1 DEF CompiledCodeKept, Stop
  <2>1. /\ numLines[entry[1]] > 0 /\ entry[1] \notin pagesReleased
        /\ entry[2] < lineIndex[entry[1]]
        /\ \A h \in Func \cup Import : compiled[h] # entry
    BY <1>1, <1>2 DEF EntryKept
  <2>2. CASE g = function
    BY <1>1, <1>2, <1>3, <1>4, <2>1, <2>2
  <2>3. CASE g # function
    <3>1. /\ compiled'[g] = compiled[g] /\ numLines[compiled[g][1]] > 0
          /\ compiled[g][1] \notin pagesReleased
          /\ compiled[g][2] < lineIndex[compiled[g][1]]
          /\ \A h \in (Func \cup Import) \ {g} : compiled[h] # compiled[g]
      BY <1>4, <2>3 DEF CompiledCodeKept
    <3> QED
      BY <1>1, <1>2, <1>3, <1>4, <2>1, <2>3, <3>1
  <2> QED
    BY <2>2, <2>3
<1> QED
  BY <1>3, <1>5, <1>6, <1>7

\* A compilation that fails changes no compiled function.
LEMMA ThrowInv ==
  ASSUME IInv, Throw
  PROVE  IInv'
<1> USE DEF IInv
<1>1. /\ pc \notin {"idle", "expression"} /\ Release("main", page) /\ Stop
      /\ UNCHANGED <<lineIndex, alive, compiled, ignored>>
  BY DEF Throw
<1>2. /\ numLines' = numLines /\ pagesReleased' = pagesReleased
      /\ pagesOpen' \in [Runtime -> SUBSET Page]
      /\ pagesFull' \in [Runtime -> SUBSET Page]
      /\ numCodePages' \in [Runtime -> Nat]
      /\ numActiveCodePages' \in [Runtime -> Nat]
      /\ Listed("temp")' = {} /\ PagesUnshared' /\ Allocated' /\ PagesCounted'
      /\ CompiledCodeKept'
      /\ HeldActive' /\ EntryKept' /\ RoomForBridge' /\ TableRoom'
  BY <1>1, StopInv
<1>3. TypeOK'
  BY <1>1, <1>2 DEF TypeOK, Stop
<1>4. Shape'
  BY <1>1, <1>2 DEF Shape, Stop
<1> QED
  BY <1>2, <1>3, <1>4

------------------------------------------------------------------------------
(* The steps outside of a compilation *)

\* Linking an import writes four words to a page that goes straight back to a list.
LEMMA LinkRawFunctionInv ==
  ASSUME IInv, NEW f \in Import, LinkRawFunction(f)
  PROVE  IInv'
<1> USE DEF IInv
<1>1. PICK p \in Acquirable("main", RawWords) :
        /\ compiled' = [compiled EXCEPT ![f] = <<p, lineIndex[p]>>]
        /\ Take("main", p, RawWords)
        /\ lineIndex' = [lineIndex EXCEPT ![p] = @ + RawWords]
        /\ PutBack("main", p, {p})
  BY DEF LinkRawFunction
<1>2. /\ alive /\ pc = "idle"
      /\ UNCHANGED <<numActiveCodePages, alive, pc, page, saved, targets, function, entry, ignored>>
  BY DEF LinkRawFunction, frame
<1>3. RawWords = 4 /\ RawWords \in Nat \ {0} /\ "main" \in Runtime
  BY DEF RawWords, Runtime
<1>4. /\ p \in Page /\ p \notin pagesFull["main"] /\ p \notin pagesFull["temp"]
      /\ \A s \in Runtime \ {"main"} : p \notin pagesOpen[s]
      /\ p \in pagesOpen["main"] \cup pagesReleased \cup Unallocated
  BY <1>1, <1>3, AcquirableUnused
<1>5. page = NoPage /\ saved = <<>> /\ targets = 0 /\ Held = {} /\ Held' = {}
      /\ entry = NoPc /\ function = NoFunc /\ Listed("temp") = {}
  BY <1>2 DEF Shape, Held, TypeOK
<1>6. /\ numLines' \in [Page -> Nat] /\ numLines'[p] > 0
      /\ numLines'[p] - lineIndex[p] >= RawWords
      /\ \A q \in Page \ {p} : numLines'[q] = numLines[q]
      /\ pagesReleased' = pagesReleased \ {p}
      /\ numCodePages' \in [Runtime -> Nat]
  BY <1>1, <1>3, TakenFits
<1>7. /\ \A q \in Page : numLines[q] > 0 => numLines'[q] = numLines[q]
      /\ numCodePages' = IF p \in pagesOpen["main"] THEN numCodePages
                         ELSE [numCodePages EXCEPT !["main"] = @ + 1]
  BY <1>1 DEF Take, Unallocated, TypeOK
<1>8. /\ lineIndex' \in [Page -> Nat] /\ lineIndex'[p] = lineIndex[p] + 4
      /\ \A q \in Page \ {p} : lineIndex'[q] = lineIndex[q]
  BY <1>1, <1>3, <1>4 DEF TypeOK
<1>9. \/ /\ pagesOpen' = [pagesOpen EXCEPT !["main"] = (@ \ {p}) \cup {p}]
         /\ pagesFull' = pagesFull
      \/ /\ pagesOpen' = [pagesOpen EXCEPT !["main"] = @ \ {p}]
         /\ pagesFull' = [pagesFull EXCEPT !["main"] = @ \cup {p}]
  BY <1>1, <1>3 DEF PutBack, TypeOK
<1>10. /\ pagesOpen' \in [Runtime -> SUBSET Page] /\ pagesFull' \in [Runtime -> SUBSET Page]
       /\ Listed("temp")' = {}
  BY <1>3, <1>4, <1>5, <1>9 DEF TypeOK, Listed, Runtime
<1>11. compiled' \in [Func \cup Import -> Pc \cup {NoPc}]
       /\ compiled'[f] = <<p, lineIndex[p]>>
       /\ \A g \in (Func \cup Import) \ {f} : compiled'[g] = compiled[g]
  BY <1>1, <1>4 DEF TypeOK, Pc
<1>12. TypeOK'
  BY <1>2, <1>6, <1>8, <1>10, <1>11 DEF TypeOK
<1>13. Shape'
  BY <1>2, <1>5, <1>10 DEF Shape
<1>14. PagesUnshared'
  <2>1. ListsDisjoint'
    BY <1>3, <1>4, <1>5, <1>6, <1>9 DEF PagesUnshared, ListsDisjoint, Listed, TypeOK, Runtime
  <2> QED
    BY <1>2, <1>5, <2>1 DEF PagesUnshared, SavedDistinct
<1>15. Allocated'
  <2>1. \A x \in (Listed("main") \cup Listed("temp") \cup pagesReleased)' :
          x = p \/ x \in Listed("main") \cup Listed("temp") \cup pagesReleased
    BY <1>3, <1>5, <1>6, <1>9, <1>10 DEF Listed, TypeOK, Runtime
  <2>2. Listed("main") \cup Listed("temp") \cup pagesReleased \subseteq Page
    BY AllPages
  <2>3. \A x \in (Listed("main") \cup Listed("temp") \cup pagesReleased)' : numLines'[x] > 0
    BY <1>6, <2>1, <2>2 DEF Allocated
  <2>4. \A x \in Unallocated' : x \in Unallocated /\ x # p
    BY <1>6 DEF Unallocated
  <2> QED
    BY <1>5, <1>8, <2>3, <2>4 DEF Allocated, Unallocated
<1>16. PagesCounted'
  <2> DEFINE rest == pagesOpen["main"] \ {p}
  <2>1. /\ Cardinality(pagesOpen["temp"]) + Cardinality(pagesFull["temp"])
             + numActiveCodePages["temp"] = numCodePages["temp"]
        /\ Cardinality(pagesOpen["main"]) + Cardinality(pagesFull["main"])
             + numActiveCodePages["main"] = numCodePages["main"]
    BY DEF PagesCounted, Runtime
  <2>2. /\ rest \in SUBSET Page /\ pagesFull["main"] \in SUBSET Page
        /\ pagesOpen["main"] \in SUBSET Page
    BY <1>3 DEF TypeOK
  <2>3. PICK o \in Nat, u \in Nat, w \in Nat :
          o = Cardinality(pagesOpen["main"]) /\ u = Cardinality(pagesFull["main"])
          /\ w = Cardinality(rest)
    BY <2>2, PageSets
  <2>4. /\ w = IF p \in pagesOpen["main"] THEN o - 1 ELSE o
        /\ Cardinality(rest \cup {p}) = w + 1
        /\ Cardinality(pagesFull["main"] \cup {p}) = u + 1
    <3>1. p \notin rest
      OBVIOUS
    <3> QED
      BY <1>4, <2>2, <2>3, <3>1, PageSets
  <2>5. Cardinality(pagesOpen'["main"]) + Cardinality(pagesFull'["main"]) = w + u + 1
    <3>1. \/ pagesOpen'["main"] = rest \cup {p} /\ pagesFull'["main"] = pagesFull["main"]
          \/ pagesOpen'["main"] = rest /\ pagesFull'["main"] = pagesFull["main"] \cup {p}
      BY <1>3, <1>9 DEF TypeOK
    <3>2. CASE pagesOpen'["main"] = rest \cup {p} /\ pagesFull'["main"] = pagesFull["main"]
      <4>1. Cardinality(pagesOpen'["main"]) = w + 1 /\ Cardinality(pagesFull'["main"]) = u
        BY <2>3, <2>4, <3>2
      <4> QED
        BY <4>1
    <3>3. CASE pagesOpen'["main"] = rest /\ pagesFull'["main"] = pagesFull["main"] \cup {p}
      <4>1. Cardinality(pagesOpen'["main"]) = w /\ Cardinality(pagesFull'["main"]) = u + 1
        BY <2>3, <2>4, <3>3
      <4> QED
        BY <4>1
    <3> QED
      BY <3>1, <3>2, <3>3
  <2>6. numCodePages'["main"] = numCodePages["main"] + (IF p \in pagesOpen["main"] THEN 0 ELSE 1)
        /\ numCodePages["main"] \in Nat /\ numActiveCodePages["main"] \in Nat
        /\ numCodePages'["temp"] = numCodePages["temp"]
    BY <1>3, <1>7 DEF TypeOK, Runtime
  <2>7. Cardinality(pagesOpen'["main"]) + Cardinality(pagesFull'["main"])
          + numActiveCodePages'["main"] = numCodePages'["main"]
    <3>1. o + u + numActiveCodePages["main"] = numCodePages["main"]
      BY <2>1, <2>3
    <3>2. w + u + 1 + numActiveCodePages["main"] = numCodePages'["main"]
      BY <2>4, <2>6, <3>1
    <3> QED
      BY <1>2, <2>5, <3>2
  <2>8. pagesOpen'["temp"] = pagesOpen["temp"] /\ pagesFull'["temp"] = pagesFull["temp"]
    BY <1>9 DEF TypeOK, Runtime
  <2> QED
    BY <1>2, <2>1, <2>6, <2>7, <2>8 DEF PagesCounted, Runtime
<1>17. CompiledCodeKept'
  <2>1. \A g \in Func \cup Import : compiled[g] # NoPc =>
          /\ compiled[g][1] \in Page /\ compiled[g][2] \in Nat
          /\ numLines[compiled[g][1]] > 0
          /\ compiled[g][1] \notin pagesReleased
          /\ compiled[g][2] < lineIndex[compiled[g][1]]
          /\ \A h \in (Func \cup Import) \ {g} : compiled[h] # compiled[g]
    BY DEF CompiledCodeKept, TypeOK, Pc
  <2>2. \A g \in Func \cup Import : compiled[g] # <<p, lineIndex[p]>>
    <3> SUFFICES ASSUME NEW g \in Func \cup Import, compiled[g] = <<p, lineIndex[p]>>
                 PROVE  FALSE
      OBVIOUS
    <3>1. compiled[g] # NoPc
      BY <1>4, PageAssumption DEF TypeOK
    <3>2. lineIndex[p] \in Nat /\ compiled[g][1] = p /\ compiled[g][2] = lineIndex[p]
      BY <1>4 DEF TypeOK
    <3> QED
      BY <2>1, <3>1, <3>2
  <2> SUFFICES ASSUME NEW g \in Func \cup Import, compiled'[g] # NoPc
               PROVE  /\ numLines'[compiled'[g][1]] > 0
                      /\ compiled'[g][1] \notin pagesReleased' \cup Listed("temp")'
                      /\ compiled'[g][2] < lineIndex'[compiled'[g][1]]
                      /\ \A h \in (Func \cup Import) \ {g} : compiled'[h] # compiled'[g]
    BY <1>2 DEF CompiledCodeKept
  <2>3. CASE g = f
    <3>1. lineIndex[p] < lineIndex'[p]
      BY <1>4, <1>8 DEF TypeOK
    <3> QED
      BY <1>6, <1>10, <1>11, <2>2, <2>3, <3>1
  <2>4. CASE g # f
    <3>1. compiled'[g] = compiled[g]
      BY <1>11, <2>4
    <3>2. compiled[g][2] < lineIndex'[compiled[g][1]]
      <4>1. \A q \in Page : lineIndex[q] \in Nat /\ lineIndex'[q] \in Nat /\ lineIndex'[q] >= lineIndex[q]
        <5>1. \A q \in Page : lineIndex[q] \in Nat /\ lineIndex'[q] \in Nat
          BY <1>8 DEF TypeOK
        <5>2. lineIndex'[p] >= lineIndex[p]
          BY <1>4, <1>8, <5>1
        <5> QED
          BY <1>8, <5>1, <5>2
      <4> QED
        BY <2>1, <3>1, <4>1
    <3> QED
      BY <1>6, <1>7, <1>10, <1>11, <2>1, <2>2, <2>4, <3>1, <3>2
  <2> QED
    BY <2>3, <2>4
<1>18. RoomForBridge'
  <2> SUFFICES ASSUME ~ignored PROVE \A q \in Page : lineIndex'[q] <= numLines'[q]
    BY <1>2, <1>5 DEF RoomForBridge
  <2>1. \A q \in Page : lineIndex[q] <= numLines[q]
    BY DEF RoomForBridge
  <2>2. lineIndex'[p] <= numLines'[p]
    <3>1. lineIndex[p] \in Nat /\ numLines'[p] \in Nat
      BY <1>4, <1>6 DEF TypeOK
    <3> QED
      BY <1>3, <1>6, <1>8, <3>1
  <2> QED
    BY <1>6, <1>8, <2>1, <2>2
<1>19. HeldActive' /\ EntryKept' /\ TableRoom'
  BY <1>2, <1>5 DEF HeldActive, EntryKept, TableRoom
<1> QED
  BY <1>12, <1>13, <1>14, <1>15, <1>16, <1>17, <1>18, <1>19

\* The pages of an expression go to the environment; no function is compiled to them.
LEMMA EndExpressionInv ==
  ASSUME IInv, EndExpression
  PROVE  IInv'
<1> USE DEF IInv
<1> DEFINE own == pagesOpen["temp"] \cup pagesFull["temp"] \cup {page}
<1>1. /\ pc = "expression" /\ pc' = "idle" /\ page' = NoPage
      /\ pagesReleased' = pagesReleased \cup own
      /\ lineIndex' = [p \in Page |-> IF p \in own THEN 0 ELSE lineIndex[p]]
      /\ pagesOpen' = [pagesOpen EXCEPT !["temp"] = {}]
      /\ pagesFull' = [pagesFull EXCEPT !["temp"] = {}]
      /\ numCodePages' = [numCodePages EXCEPT !["temp"] = 0]
      /\ numActiveCodePages' = [numActiveCodePages EXCEPT !["temp"] = 0]
      /\ UNCHANGED <<numLines, alive, saved, targets, function, entry, compiled, ignored>>
  BY DEF EndExpression, frame
<1>2. /\ page \in Page /\ page \in Held /\ saved = <<>> /\ targets = 0 /\ Held' = {}
      /\ entry = NoPc /\ function = NoFunc /\ alive /\ own \subseteq Page
  BY <1>1 DEF Shape, Held, TypeOK, Runtime
<1>3. Listed("main")' = Listed("main") /\ Listed("temp")' = {}
  BY <1>1 DEF Listed, TypeOK, Runtime
<1>4. TypeOK'
  BY <1>1, <1>2 DEF TypeOK, Runtime
<1>5. Shape'
  BY <1>1, <1>2, <1>3 DEF Shape
<1>6. PagesUnshared'
  BY <1>1, <1>2, <1>3 DEF PagesUnshared, ListsDisjoint, SavedDistinct, Listed, TypeOK, Runtime
<1>7. Allocated'
  BY <1>1, <1>2, <1>3 DEF Allocated, Listed, Unallocated
<1>8. PagesCounted'
  BY <1>1, FS_EmptySet DEF PagesCounted, Runtime, TypeOK
<1>9. CompiledCodeKept'
  <2>1. \A g \in Func \cup Import : compiled[g] # NoPc =>
          compiled[g][1] \in Page /\ compiled[g][1] \notin own
    BY <1>1 DEF CompiledCodeKept, Listed, TypeOK, Pc
  <2> QED
    BY <1>1, <1>3, <2>1 DEF CompiledCodeKept
<1>10. RoomForBridge'
  <2> SUFFICES ASSUME ~ignored PROVE \A q \in Page : lineIndex'[q] <= numLines'[q]
    BY <1>1, <1>2 DEF RoomForBridge
  <2> QED
    BY <1>1 DEF RoomForBridge, TypeOK
<1>11. HeldActive' /\ EntryKept' /\ TableRoom'
  BY <1>1, <1>2 DEF HeldActive, EntryKept, TableRoom
<1> QED
  BY <1>4, <1>5, <1>6, <1>7, <1>8, <1>9, <1>10, <1>11

\* The pages of the runtime go to the environment together with every compiled
\* pointer; the pages lost before stay lost.
LEMMA FreeRuntimeInv ==
  ASSUME IInv, FreeRuntime
  PROVE  IInv'
<1> USE DEF IInv
<1> DEFINE own == pagesOpen["main"] \cup pagesFull["main"]
<1>1. /\ pc = "idle" /\ alive' = FALSE
      /\ compiled' = [f \in Func \cup Import |-> NoPc]
      /\ pagesReleased' = pagesReleased \cup own
      /\ lineIndex' = [p \in Page |-> IF p \in own THEN 0 ELSE lineIndex[p]]
      /\ pagesOpen' = [pagesOpen EXCEPT !["main"] = {}]
      /\ pagesFull' = [pagesFull EXCEPT !["main"] = {}]
      /\ numCodePages' = [numCodePages EXCEPT !["main"] = 0]
      /\ numActiveCodePages' = [numActiveCodePages EXCEPT !["main"] = 0]
      /\ UNCHANGED <<numLines, pc, page, saved, targets, function, entry, ignored>>
  BY DEF FreeRuntime, frame
<1>2. /\ page = NoPage /\ saved = <<>> /\ targets = 0 /\ Held = {} /\ Held' = {}
      /\ entry = NoPc /\ function = NoFunc /\ own \subseteq Page /\ Listed("temp") = {}
  BY <1>1 DEF Shape, Held, TypeOK, Runtime
<1>3. Listed("main")' = {} /\ Listed("temp")' = {}
  BY <1>1, <1>2 DEF Listed, TypeOK, Runtime
<1>4. TypeOK'
  BY <1>1, <1>2 DEF TypeOK, Runtime
<1>5. Shape'
  BY <1>1, <1>2, <1>3 DEF Shape
<1>6. PagesUnshared'
  BY <1>1, <1>2, <1>3 DEF PagesUnshared, ListsDisjoint, SavedDistinct, Listed, TypeOK, Runtime
<1>7. Allocated'
  BY <1>1, <1>2, <1>3 DEF Allocated, Listed, Unallocated
<1>8. PagesCounted'
  BY <1>1, FS_EmptySet DEF PagesCounted, Runtime, TypeOK
<1>9. CompiledCodeKept'
  BY <1>1 DEF CompiledCodeKept
<1>10. RoomForBridge'
  <2> SUFFICES ASSUME ~ignored PROVE \A q \in Page : lineIndex'[q] <= numLines'[q]
    BY <1>1, <1>2 DEF RoomForBridge
  <2> QED
    BY <1>1 DEF RoomForBridge, TypeOK
<1>11. HeldActive' /\ EntryKept' /\ TableRoom'
  BY <1>1, <1>2 DEF HeldActive, EntryKept, TableRoom
<1> QED
  BY <1>4, <1>5, <1>6, <1>7, <1>8, <1>9, <1>10, <1>11

\* A new runtime finds nothing of the old one.
LEMMA NewRuntimeInv ==
  ASSUME IInv, NewRuntime
  PROVE  IInv'
<1>1. /\ ~alive /\ alive' = TRUE
      /\ UNCHANGED <<numLines, lineIndex, pagesOpen, pagesFull, pagesReleased, numCodePages,
                     numActiveCodePages, pc, page, saved, targets, function, entry,
                     compiled, ignored>>
  BY DEF NewRuntime, pool, lists, frame
<1> QED
  BY <1>1 DEF IInv, TypeOK, Shape, PagesUnshared, ListsDisjoint, SavedDistinct, Allocated,
     HeldActive, PagesCounted, EntryKept, CompiledCodeKept, RoomForBridge, TableRoom,
     Listed, Held, Unallocated, Free, rt

\* The environment frees the pages that are with it: no function is compiled to them.
LEMMA FreeEnvironmentInv ==
  ASSUME IInv, FreeEnvironment
  PROVE  IInv'
<1> USE DEF IInv
<1>1. /\ ~alive /\ pagesReleased' = {}
      /\ numLines' = [p \in Page |-> IF p \in pagesReleased THEN 0 ELSE numLines[p]]
      /\ lineIndex' = [p \in Page |-> IF p \in pagesReleased THEN 0 ELSE lineIndex[p]]
      /\ UNCHANGED <<pagesOpen, pagesFull, numCodePages, numActiveCodePages, alive, pc, page,
                     saved, targets, function, entry, compiled, ignored>>
  BY DEF FreeEnvironment, frame
<1>2. /\ pc = "idle" /\ page = NoPage /\ saved = <<>> /\ targets = 0 /\ Held = {} /\ Held' = {}
      /\ entry = NoPc /\ compiled = [f \in Func \cup Import |-> NoPc] /\ compiled' = compiled
  BY <1>1 DEF Shape, Held, TypeOK
<1>3. Listed("main")' = Listed("main") /\ Listed("temp")' = Listed("temp")
  BY <1>1 DEF Listed
<1>4. TypeOK'
  BY <1>1 DEF TypeOK
<1>5. Shape' /\ PagesUnshared' /\ PagesCounted' /\ HeldActive'
  BY <1>1, <1>2, <1>3 DEF Shape, PagesUnshared, ListsDisjoint, SavedDistinct, PagesCounted,
                          HeldActive
<1>6. Allocated'
  <2>1. Listed("main") \cup Listed("temp") \subseteq Page
    BY AllPages
  <2> QED
    BY <1>1, <1>2, <1>3, <2>1 DEF Allocated, Unallocated, PagesUnshared, ListsDisjoint
<1>7. CompiledCodeKept' /\ EntryKept' /\ TableRoom'
  BY <1>1, <1>2 DEF CompiledCodeKept, EntryKept, TableRoom
<1>8. RoomForBridge'
  <2> SUFFICES ASSUME ~ignored PROVE \A q \in Page : lineIndex'[q] <= numLines'[q]
    BY <1>1, <1>2 DEF RoomForBridge
  <2> QED
    BY <1>1 DEF RoomForBridge, TypeOK
<1> QED
  BY <1>4, <1>5, <1>6, <1>7, <1>8

------------------------------------------------------------------------------
(* The invariant *)

\* Before anything is compiled the invariant holds.
LEMMA InitInv == Init => IInv
<1> SUFFICES ASSUME Init PROVE IInv
  OBVIOUS
<1> USE DEF Init
<1>1. TypeOK
  <2>1. saved \in Seq(Page) /\ targets \in Nat
    OBVIOUS
  <2>2. pagesOpen \in [Runtime -> SUBSET Page] /\ pagesFull \in [Runtime -> SUBSET Page]
    OBVIOUS
  <2> QED
    BY <2>1, <2>2 DEF TypeOK
<1>2. Held = {} /\ Listed("main") = {} /\ Listed("temp") = {}
  BY DEF Held, Listed, Runtime
<1>3. Shape /\ HeldActive
  BY <1>2 DEF Shape, HeldActive
<1>6. PagesUnshared
  BY <1>2 DEF PagesUnshared, ListsDisjoint, SavedDistinct, Runtime
<1>7. Allocated
  BY <1>2 DEF Allocated, Unallocated
<1>4. PagesCounted
  BY FS_EmptySet DEF PagesCounted
<1>5. EntryKept /\ CompiledCodeKept /\ RoomForBridge /\ TableRoom
  BY <1>2 DEF EntryKept, CompiledCodeKept, RoomForBridge, TableRoom
<1> QED
  BY <1>1, <1>3, <1>4, <1>5, <1>6, <1>7 DEF IInv

\* Every step preserves it.
LEMMA NextInv == IInv /\ [Next]_vars => IInv'
<1> SUFFICES ASSUME IInv, [Next]_vars PROVE IInv'
  OBVIOUS
<1>1. CASE \E f \in Func : BeginFunction(f)
  BY <1>1, BeginFunctionInv
<1>2. CASE EmitEntry
  BY <1>2, EmitEntryInv
<1>3. CASE EmitOperation
  BY <1>3, EmitOperationInv
<1>4. CASE EmitWithoutOp
  BY <1>4, EmitWithoutOpInv
<1>5. CASE BeginElse
  BY <1>5, BeginElseInv
<1>6. CASE EmitElseBranch
  BY <1>6, EmitElseBranchInv
<1>7. CASE EndElse
  BY <1>7, EndElseInv
<1>8. CASE BeginTable
  BY <1>8, BeginTableInv
<1>9. CASE EmitTable
  BY <1>9, EmitTableInv
<1>10. CASE BeginTarget
  BY <1>10, BeginTargetInv
<1>11. CASE EndTarget
  BY <1>11, EndTargetInv
<1>12. CASE EndFunction
  BY <1>12, EndFunctionInv
<1>13. CASE Throw
  BY <1>13, ThrowInv
<1>14. CASE \E f \in Import : LinkRawFunction(f)
  BY <1>14, LinkRawFunctionInv
<1>15. CASE BeginExpression
  BY <1>15, BeginExpressionInv
<1>16. CASE EndExpression
  BY <1>16, EndExpressionInv
<1>17. CASE FreeRuntime
  BY <1>17, FreeRuntimeInv
<1>18. CASE NewRuntime
  BY <1>18, NewRuntimeInv
<1>19. CASE FreeEnvironment
  BY <1>19, FreeEnvironmentInv
<1>20. CASE UNCHANGED vars
  BY <1>20 DEF IInv, TypeOK, Shape, PagesUnshared, ListsDisjoint, SavedDistinct, Allocated,
     HeldActive, PagesCounted, EntryKept, CompiledCodeKept, RoomForBridge, TableRoom,
     Listed, Held, Unallocated, Free, rt, vars, pool, lists, frame
<1> QED
  BY <1>1, <1>2, <1>3, <1>4, <1>5, <1>6, <1>7, <1>8, <1>9, <1>10, <1>11, <1>12, <1>13,
     <1>14, <1>15, <1>16, <1>17, <1>18, <1>19, <1>20 DEF Next

\* The inductive invariant of the code pages.
THEOREM Invariance == Spec => []IInv
<1> QED
  BY InitInv, NextInv, PTL DEF Spec

\* The state of pages and compiler has its type in every reachable state.
THEOREM TypeCorrect == Spec => []TypeOK
<1>1. IInv => TypeOK
  BY DEF IInv
<1> QED
  BY <1>1, Invariance, PTL

\* No page is ever on two lists, or on a list while a block is written to it, or
\* written to by two blocks (AcquireCodePageWithCapacity, ReleaseCodePage, savedPage).
THEOREM Unshared == Spec => []PagesUnshared
<1>1. IInv => PagesUnshared
  BY DEF IInv
<1> QED
  BY <1>1, Invariance, PTL

\* The assertion of ReleaseCodePage on the page counters holds always, whatever
\* compilations failed before (m3_env.c:1062).
THEOREM Counted == Spec => []PagesCounted
<1>1. IInv => PagesCounted
  BY DEF IInv
<1> QED
  BY <1>1, Invariance, PTL

\* As long as a function is compiled its code stays where it is, on a page that is
\* neither freed nor used for anything but the runtime's own code.
THEOREM CodeKept == Spec => []CompiledCodeKept
<1>1. IInv => CompiledCodeKept
  BY DEF IInv
<1> QED
  BY <1>1, Invariance, PTL

\* Until the result of an EmitOp is ignored, what EnsureCodePageNumLines asks for is
\* enough for every write, for the bridge behind it and for a br_table's pointers.
THEOREM RoomEnough == Spec => []RoomForBridge
<1>1. IInv => RoomForBridge
  BY DEF IInv
<1> QED
  BY <1>1, Invariance, PTL

------------------------------------------------------------------------------
(* No page is lost but by a throw *)

\* Everything that points to a page.
Pointed == Held \cup Listed("main") \cup Listed("temp") \cup pagesReleased
KeepsPages ==
  \A q \in Page : numLines'[q] > 0 /\ q \notin Pointed' => numLines[q] > 0 /\ q \notin Pointed

LEMMA KeptMeans == KeepsPages => LosesPages
  BY DEF KeepsPages, LosesPages, Lost, Pointed

\* A page that is taken is held or listed afterwards.
LEMMA TakenKept ==
  ASSUME NEW r, NEW n, NEW p \in Page, numLines \in [Page -> Nat], Take(r, p, n),
         p \in Pointed', Pointed \subseteq Pointed' \cup {p}
  PROVE  KeepsPages
  BY DEF KeepsPages, Take

LEMMA AcquireLoses ==
  ASSUME IInv, NEW r \in Runtime, NEW n, NEW p \in Page, Acquire(r, p, n),
         p \in Held', Held \subseteq Held'
  PROVE  KeepsPages
<1>1. \A s \in Runtime : Listed(s) \subseteq Listed(s)' \cup {p}
  BY DEF Acquire, Listed, IInv, TypeOK
<1>2. pagesReleased \subseteq pagesReleased' \cup {p} /\ Take(r, p, n)
  BY DEF Acquire, Take
<1>3. Pointed \subseteq Pointed' \cup {p} /\ p \in Pointed'
  BY <1>1, <1>2 DEF Pointed, Runtime
<1> QED
  BY <1>2, <1>3, TakenKept DEF IInv, TypeOK

LEMMA PutBackListed ==
  ASSUME IInv, NEW r \in Runtime, NEW p, NEW taken, PutBack(r, p, taken)
  PROVE  /\ p \in Listed(r)'
         /\ \A s \in Runtime : Listed(s) \subseteq Listed(s)' \cup taken
<1>1. pagesOpen \in [Runtime -> SUBSET Page] /\ pagesFull \in [Runtime -> SUBSET Page]
  BY DEF IInv, TypeOK
<1>2. \/ /\ pagesOpen' = [pagesOpen EXCEPT ![r] = pagesOpen[r] \ taken]
         /\ pagesFull' = [pagesFull EXCEPT ![r] = pagesFull[r] \cup {p}]
      \/ /\ pagesOpen' = [pagesOpen EXCEPT ![r] = (pagesOpen[r] \ taken) \cup {p}]
         /\ pagesFull' = pagesFull
  BY <1>1 DEF PutBack
<1> QED
  BY <1>1, <1>2 DEF Listed

LEMMA ReleaseLoses ==
  ASSUME IInv, Release("main", page), Held \subseteq Held' \cup {page}
  PROVE  KeepsPages
<1>1. /\ page \in Listed("main")'
      /\ \A s \in Runtime : Listed(s) \subseteq Listed(s)'
  BY PutBackListed DEF Release, Runtime
<1>2. numLines' = numLines /\ pagesReleased' = pagesReleased
  BY DEF Release
<1>3. Pointed \subseteq Pointed'
  BY <1>1, <1>2 DEF Pointed, Runtime
<1> QED
  BY <1>2, <1>3 DEF KeepsPages

LEMMA EmitLoses ==
  ASSUME IInv, pc # "idle", NEW need \in Nat, NEW words \in Nat,
         Emit(need, words), UNCHANGED saved
  PROVE  KeepsPages
<1>1. /\ page' \in Page /\ rt \in Runtime
      /\ \/ page' = page /\ UNCHANGED <<numLines, lists>>
         \/ /\ Take(rt, page', need + BridgeWords)
            /\ PutBack(rt, page, {page'})
  BY EmitPage
<1>2. Held \subseteq Held' \cup {page} /\ page' \in Held'
  BY <1>1, PageAssumption DEF Held
<1>3. CASE page' = page /\ UNCHANGED <<numLines, lists>>
  BY <1>2, <1>3 DEF KeepsPages, Pointed, Listed, lists
<1>4. CASE Take(rt, page', need + BridgeWords) /\ PutBack(rt, page, {page'})
  <2>0. PICK r, p, q : r = rt /\ p = page /\ q = page'
    OBVIOUS
  <2>1. /\ r \in Runtime /\ page \in Listed(r)'
        /\ \A s \in Runtime : Listed(s) \subseteq Listed(s)' \cup {page'}
    <3>1. r \in Runtime /\ PutBack(r, p, {q})
      BY <1>1, <1>4, <2>0
    <3>2. p \in Listed(r)' /\ \A s \in Runtime : Listed(s) \subseteq Listed(s)' \cup {q}
      BY <3>1, PutBackListed
    <3> QED
      BY <2>0, <3>1, <3>2
  <2>2. pagesReleased \subseteq pagesReleased' \cup {page'}
    BY <1>4 DEF Take
  <2>3. Pointed \subseteq Pointed' \cup {page'} /\ page' \in Pointed'
    BY <1>1, <1>2, <2>1, <2>2 DEF Pointed, Runtime
  <2> QED
    BY <1>1, <1>4, <2>3, TakenKept DEF IInv, TypeOK
<1> QED
  BY <1>1, <1>3, <1>4

LEMMA LinkLoses ==
  ASSUME IInv, NEW f \in Import, LinkRawFunction(f)
  PROVE  KeepsPages
<1>1. PICK p \in Acquirable("main", RawWords) :
        Take("main", p, RawWords) /\ PutBack("main", p, {p})
  BY DEF LinkRawFunction
<1>2. UNCHANGED <<page, saved>> /\ p \in Page
  <2>1. RawWords \in Nat /\ "main" \in Runtime
    BY DEF RawWords, Runtime
  <2> QED
    BY <1>1, <2>1, AcquirableUnused DEF LinkRawFunction, frame, IInv
<1>3. Held' = Held
  BY <1>2 DEF Held
<1>4. /\ p \in Listed("main")'
      /\ \A s \in Runtime : Listed(s) \subseteq Listed(s)' \cup {p}
  BY <1>1, PutBackListed DEF Runtime
<1>5. pagesReleased \subseteq pagesReleased' \cup {p}
  BY <1>1 DEF Take
<1>6. Pointed \subseteq Pointed' \cup {p} /\ p \in Pointed'
  BY <1>3, <1>4, <1>5 DEF Pointed, Runtime
<1> QED
  BY <1>1, <1>2, <1>6, TakenKept DEF IInv, TypeOK

\* What goes to the environment is the runtime's lists and, of an expression, its page.
LEMMA RuntimeLoses ==
  ASSUME IInv, EndExpression \/ FreeRuntime \/ NewRuntime \/ FreeEnvironment
  PROVE  KeepsPages
<1>1. CASE EndExpression
  <2>1. saved = <<>> /\ Held \subseteq {page}
    BY <1>1 DEF EndExpression, IInv, Shape, Held
  <2>2. /\ numLines' = numLines
        /\ pagesReleased' = pagesReleased \cup (Listed("temp") \cup {page})
        /\ pagesOpen' = [pagesOpen EXCEPT !["temp"] = {}]
        /\ pagesFull' = [pagesFull EXCEPT !["temp"] = {}]
    BY <1>1 DEF EndExpression, Listed
  <2>3. Listed("main") \subseteq Listed("main")'
    BY <2>2 DEF Listed, IInv, TypeOK, Runtime
  <2> QED
    BY <2>1, <2>2, <2>3 DEF KeepsPages, Pointed
<1>2. CASE FreeRuntime
  <2>1. UNCHANGED <<page, saved>>
    BY <1>2 DEF FreeRuntime, frame
  <2>2. /\ numLines' = numLines
        /\ pagesReleased' = pagesReleased \cup Listed("main")
        /\ pagesOpen' = [pagesOpen EXCEPT !["main"] = {}]
        /\ pagesFull' = [pagesFull EXCEPT !["main"] = {}]
    BY <1>2 DEF FreeRuntime, Listed
  <2>3. Listed("temp") \subseteq Listed("temp")'
    BY <2>2 DEF Listed, IInv, TypeOK, Runtime
  <2> QED
    BY <2>1, <2>2, <2>3 DEF KeepsPages, Pointed, Held
<1>3. CASE NewRuntime
  BY <1>3 DEF NewRuntime, pool, lists, frame, KeepsPages, Pointed, Held, Listed
<1>4. CASE FreeEnvironment
  <2>1. /\ numLines' = [p \in Page |-> IF p \in pagesReleased THEN 0 ELSE numLines[p]]
        /\ UNCHANGED <<pagesOpen, pagesFull, page, saved>>
    BY <1>4 DEF FreeEnvironment, frame
  <2>2. Held' = Held /\ Listed("main")' = Listed("main") /\ Listed("temp")' = Listed("temp")
    BY <2>1 DEF Held, Listed
  <2> QED
    BY <2>1, <2>2 DEF KeepsPages, Pointed
<1> QED
  BY <1>1, <1>2, <1>3, <1>4

LEMMA NextLoses ==
  ASSUME IInv, [Next]_vars
  PROVE  [LosesPages]_vars
<1> USE DEF IInv
<1>a. ASSUME NEW r \in Runtime, NEW n, NEW p \in Page, Acquire(r, p, n), page' = p,
             \/ saved' = saved /\ page = NoPage
             \/ saved' = Append(saved, page) /\ page \in Page,
             p \notin Held
      PROVE  LosesPages
  <2>1. p \in Held' /\ Held \subseteq Held'
    <3>1. CASE saved' = saved /\ page = NoPage
      BY <1>a, <3>1, PageAssumption DEF Held
    <3>2. CASE saved' = Append(saved, page) /\ page \in Page
      BY <1>a, <3>2, SavedPage, PageAssumption DEF PagesUnshared, Held
    <3> QED
      BY <1>a, <3>1, <3>2
  <2> QED
    BY <1>a, <2>1, AcquireLoses, KeptMeans
<1>u. \A r \in Runtime : \A n \in Nat : \A p \in Acquirable(r, n) : p \in Page /\ p \notin Held
  BY AcquirableUnused
<1>n. Threshold \in Nat /\ BridgeWords \in Nat /\ Runtime = {"main", "temp"}
  BY LinesAssumption DEF BridgeWords, Runtime
<1>1. ASSUME NEW f \in Func, BeginFunction(f)  PROVE LosesPages
  <2>1. PICK p \in Acquirable("main", Threshold) : Acquire("main", p, Threshold) /\ page' = p
    BY <1>1 DEF BeginFunction
  <2>2. saved' = saved /\ page = NoPage
    BY <1>1 DEF BeginFunction, Shape
  <2>3. p \in Page /\ p \notin Held /\ "main" \in Runtime
    BY <1>n, <1>u
  <2> QED
    BY <1>a, <2>1, <2>2, <2>3
<1>2. CASE BeginExpression
  <2>1. PICK p \in Acquirable("temp", Threshold) : Acquire("temp", p, Threshold) /\ page' = p
    BY <1>2 DEF BeginExpression
  <2>2. saved' = saved /\ page = NoPage
    BY <1>2 DEF BeginExpression, Shape, frame
  <2>3. p \in Page /\ p \notin Held /\ "temp" \in Runtime
    BY <1>n, <1>u
  <2> QED
    BY <1>a, <2>1, <2>2, <2>3
<1>3. CASE BeginElse \/ BeginTarget
  <2>1. PICK p \in Acquirable("main", Threshold) : Acquire("main", p, Threshold) /\ page' = p
    BY <1>3 DEF BeginElse, BeginTarget
  <2>2. saved' = Append(saved, page) /\ page \in Page
    BY <1>3 DEF BeginElse, BeginTarget, Shape, TypeOK
  <2>3. p \in Page /\ p \notin Held /\ "main" \in Runtime
    BY <1>n, <1>u
  <2> QED
    BY <1>a, <2>1, <2>2, <2>3
<1>4. CASE EmitEntry \/ EmitOperation \/ EmitElseBranch \/ BeginTable \/ EmitTable
  <2>1. PICK need \in Nat, words \in Nat : Emit(need, words)
    <3>1. CASE EmitEntry \/ EmitElseBranch \/ EmitTable
      BY <1>n, <3>1 DEF EmitEntry, EmitElseBranch, EmitTable, EmitOp
    <3>2. CASE EmitOperation
      <4>1. PICK n \in Operands : Emit(Threshold, 1 + n)
        BY <3>2 DEF EmitOperation, EmitOp
      <4>2. 1 + n \in Nat
        BY OperandsAssumption
      <4> QED
        BY <1>n, <4>1, <4>2
    <3>3. CASE BeginTable
      <4>1. PICK n \in Targets : Emit(n + 4, 0)
        BY <3>3 DEF BeginTable
      <4>2. n + 4 \in Nat
        BY OperandsAssumption
      <4> QED
        BY <4>1, <4>2
    <3> QED
      BY <1>4, <3>1, <3>2, <3>3
  <2>2. pc # "idle" /\ saved' = saved
    BY <1>4 DEF EmitEntry, EmitOperation, EmitElseBranch, BeginTable, EmitTable, frame
  <2> QED
    BY <2>1, <2>2, EmitLoses, KeptMeans
<1>5. CASE EmitWithoutOp
  BY <1>5 DEF EmitWithoutOp, lists, frame, LosesPages, Lost, Held, Listed
<1>6. CASE EndElse \/ EndTarget
  <2>1. /\ Release("main", page) /\ page \in Page /\ saved # <<>>
        /\ page' = saved[Len(saved)] /\ saved' = SubSeq(saved, 1, Len(saved) - 1)
    BY <1>6 DEF EndElse, EndTarget, Shape, TypeOK
  <2>2. Held' = Held \ {page}
    BY <2>1, SavedPopped DEF PagesUnshared
  <2> QED
    BY <2>1, <2>2, ReleaseLoses, KeptMeans
<1>7. CASE EndFunction \/ (Throw /\ saved = <<>>)
  <2>1. Release("main", page) /\ saved = <<>>
    BY <1>7 DEF EndFunction, Throw
  <2>2. Held \subseteq {page}
    BY <2>1 DEF Held
  <2> QED
    BY <2>1, <2>2, ReleaseLoses, KeptMeans
<1>8. CASE Throw /\ saved # <<>>
  BY <1>8 DEF LosesPages
<1>9. CASE UNCHANGED vars
  BY <1>9
<1> QED
  BY <1>1, <1>2, <1>3, <1>4, <1>5, <1>6, <1>7, <1>8, <1>9, LinkLoses, RuntimeLoses, KeptMeans
  DEF Next

\* A page is lost only when a compilation throws while it has saved a page, that of an else
\* block or of a br_table (m3_compile.c:1507).
THEOREM OnlyThrowLoses == Spec => OnlyThrowLosesPages
<1>1. IInv /\ [Next]_vars => [LosesPages]_vars
  BY NextLoses
<1> QED
  BY <1>1, Invariance, PTL DEF Spec, OnlyThrowLosesPages
=============================================================================
