---------------------------- MODULE ParserProofs ----------------------------
(***************************************************************************)
(* Proofs about Parser, for every number of strings, functions, globals    *)
(* and entries.  The argument has two halves.  One is about order: the     *)
(* history variable reached is the index that m3_ParseModule keeps, so the *)
(* section that is parsed says how far functions and their counts have     *)
(* come.  The other is about owners: every action hands strings over from  *)
(* one owner to one other, makes one for an owner that had none, or frees  *)
(* those of the owners that it does away with.                             *)
(*                                                                         *)
(* At the end is what can be proved about Leb: that reading a number ends  *)
(* where the number ends.                                                  *)
(***************************************************************************)
EXTENDS Parser, Leb, SequenceTheorems, WellFoundedInduction, TLAPS

Parsing == at \in {"next", "parse"}
Alive == at \in {"next", "parse", "parsed"}

\* The section that is parsed is the one at the index.  Nothing is read of a section before
\* it begins.
Ordered ==
  /\ Parsing => expected = reached
  /\ at = "next" => left = Unread
  /\ at = "parse" /\ section # 0 => expected \in 1..12 /\ SectionsOrder[expected] = section

\* Names are held while a section is parsed and no longer.
HeldInSection == at \notin {"parse", "crashed"} => held = <<>>

\* An array is lost and a name is null only when memory has run out, and with the array the
\* parser gives up.
Shortage ==
  /\ noArray # {} \/ at = "crashed" => short
  /\ noArray # {} => at \in {"failed", "crashed"}
  /\ ~short => Null \notin Held

\* Until the function section every function is an import; from then on the bodies that are
\* still to come are those of the last functions.
Counts ==
  Alive =>
    /\ numFuncImports \in 0..Len(functions)
    /\ Parsing /\ reached <= 2 => numFuncImports = Len(functions)
    /\ In(10) /\ left # Unread => left <= Len(functions) - numFuncImports
Bodies ==
  Alive => \A k \in 1..Len(functions) :
             /\ functions[k].body => k > numFuncImports
             /\ ~short => (IsImported(k) <=> k <= numFuncImports)
Start == Alive /\ startFunction # NoStart => startFunction \in 0..Len(functions) - 1

\* An export that was read names its function, or the function had names enough.
NamesFew == \A k \in 1..Len(functions) : Len(functions[k].names) <= MaxNames
Named ==
  Alive /\ ~short =>
    \A e \in exported :
      /\ e[1] \in Text /\ e[2] \in 1..Len(functions)
      /\ IsImported(e[2]) \/ HasName(e[2], e[1]) \/ Len(functions[e[2]].names) = MaxNames

\* The owner <<p, k, j>>, which is the parser, or of a function, or of a global, has the
\* string s.
HasHeld(p, k, j, s) == p = "parser" /\ k = 1 /\ j \in 1..Len(held) /\ s = held[j]
HasFunction(p, k, j, s) ==
  /\ k \in 1..Len(functions)
  /\ \/ p = "module" /\ j = 1 /\ s = functions[k].module
     \/ p = "field" /\ j = 1 /\ s = functions[k].field
     \/ /\ p = "names" /\ j \in 1..Len(functions[k].names)
        /\ s = functions[k].names[j] /\ s # functions[k].field
HasGlobal(p, k, j, s) ==
  /\ k \in 1..Len(globals) /\ j = 1
  /\ \/ p = "global module" /\ s = globals[k].module
     \/ p = "global field" /\ s = globals[k].field
     \/ p = "global name" /\ s = globals[k].name
Has(p, k, j, s) == HasHeld(p, k, j, s) \/ HasFunction(p, k, j, s) \/ HasGlobal(p, k, j, s)

Unique ==
  \A s \in Str : \A p, q, k, l, i, j :
    Has(p, k, i, s) /\ Has(q, l, j, s) => p = q /\ k = l /\ i = j
Covered == \A s \in Str : heap[s] # Null <=> \E p, k, j : Has(p, k, j, s)
OwnedOnce == noArray = {} => Unique /\ Covered

IInv ==
  /\ TypeOK
  /\ Ordered /\ HeldInSection /\ Shortage
  /\ Counts /\ Bodies /\ Start
  /\ NamesFew /\ Named
  /\ OwnedOnce

------------------------------------------------------------------------------
(* Order *)

\* Every section that may be parsed has one place.
LEMMA Places ==
  /\ \A k, l \in 1..12 : SectionsOrder[k] = SectionsOrder[l] => k = l
  /\ \A k \in 1..12 : SectionsOrder[k] \in 1..12 /\ Place(SectionsOrder[k]) = k
<1>1. \A k, l \in 1..13 : SectionsOrder[k] = SectionsOrder[l] => k = l
  <2>1. SUFFICES ASSUME NEW k \in 1..13, NEW l \in 1..13, SectionsOrder[k] = SectionsOrder[l]
                 PROVE  k = l
    OBVIOUS
  <2>2. \A n \in 1..13 : n \in {1, 2, 3, 4, 5, 6, 7, 8, 9, 10, 11, 12, 13}
    OBVIOUS
  <2> QED  BY <2>1, <2>2 DEF SectionsOrder
<1>2. \A k \in 1..12 : SectionsOrder[k] \in 1..12
  BY DEF SectionsOrder
<1>3. ASSUME NEW k \in 1..12  PROVE Place(SectionsOrder[k]) = k
  <2>1. k \in 1..13 /\ SectionsOrder[k] = SectionsOrder[k]
    OBVIOUS
  <2>2. Place(SectionsOrder[k]) \in 1..13
        /\ SectionsOrder[Place(SectionsOrder[k])] = SectionsOrder[k]
    BY <2>1 DEF Place
  <2> QED  BY <2>1, <2>2, <1>1
<1> QED  BY <1>1, <1>2, <1>3

\* The steps that read something of a section and stay in it.
Inside ==
  \/ \E n \in 0..MaxEntries : BeginEntries(n) \/ BeginCustom(n)
  \/ ReadOthers \/ ReadTypes \/ ReadName
  \/ ImportFunction \/ ImportGlobal \/ ImportOther \/ DeclareFunction \/ DeclareGlobal
  \/ ExportOther \/ BeginCode \/ ReadBody \/ NameNothing
  \/ \E k \in 1..MaxFunctions : ExportFunction(k) \/ ReadStart(k) \/ NameFunction(k)
  \/ \E k \in 1..MaxGlobals : ExportGlobal(k)
\* Those that give up.
Failing == Throw \/ AddUntyped \/ AddNothing

LEMMA NextIs ==
  Next <=> \/ \E s \in SectionBytes : ReadSection(s)
           \/ EndSection \/ EndModule \/ Failing \/ Inside
           \/ CompareNull \/ FreeModule \/ Done
  BY Zenon DEF Next, Failing, Inside

LEMMA InsideStays ==
  Inside => /\ at = "parse" /\ at' = "parse" /\ noArray' = noArray
            /\ UNCHANGED <<section, expected, reached, customs>>
<1>1. ASSUME NEW n \in 0..MaxEntries, BeginEntries(n) \/ BeginCustom(n)
      PROVE  /\ at = "parse" /\ at' = "parse" /\ noArray' = noArray
             /\ UNCHANGED <<section, expected, reached, customs>>
  BY <1>1 DEF BeginEntries, BeginCustom, In, tables, history
<1>2. ASSUME NEW k \in 1..MaxFunctions, ExportFunction(k) \/ ReadStart(k) \/ NameFunction(k)
      PROVE  /\ at = "parse" /\ at' = "parse" /\ noArray' = noArray
             /\ UNCHANGED <<section, expected, reached, customs>>
  BY <1>2 DEF ExportFunction, ReadStart, NameFunction, In, InEntry, NextEntry, tables, history
<1>3. ASSUME NEW k \in 1..MaxGlobals, ExportGlobal(k)
      PROVE  /\ at = "parse" /\ at' = "parse" /\ noArray' = noArray
             /\ UNCHANGED <<section, expected, reached, customs>>
  BY <1>3 DEF ExportGlobal, In, InEntry, NextEntry, tables, history
<1>4. ReadOthers \/ ReadTypes \/ ReadName \/ ImportOther \/ ExportOther \/ BeginCode \/ NameNothing
      => /\ at = "parse" /\ at' = "parse" /\ noArray' = noArray
         /\ UNCHANGED <<section, expected, reached, customs>>
  BY DEF ReadOthers, ReadTypes, ReadName, ImportOther, ExportOther, BeginCode, NameNothing,
         In, InEntry, NextEntry, tables, history
<1>5. ImportFunction \/ ImportGlobal \/ DeclareFunction \/ DeclareGlobal \/ ReadBody
      => /\ at = "parse" /\ at' = "parse" /\ noArray' = noArray
         /\ UNCHANGED <<section, expected, reached, customs>>
  BY DEF ImportFunction, ImportGlobal, DeclareFunction, DeclareGlobal, ReadBody,
         In, InEntry, NextEntry, tables, history
<1> QED  BY <1>1, <1>2, <1>3, <1>4, <1>5, Zenon DEF Inside

LEMMA FailingLeaves ==
  Failing => /\ Parsing /\ at' = "failed" /\ held' = <<>> /\ left' = Unread
             /\ heap' = Free(Held) /\ (short => short') /\ (~short' => noArray' = noArray)
             /\ UNCHANGED <<globals, reached, exported, numFuncImports, startFunction>>
<1>1. Throw => /\ Parsing /\ at' = "failed" /\ held' = <<>> /\ left' = Unread
             /\ heap' = Free(Held) /\ (short => short') /\ (~short' => noArray' = noArray)
             /\ UNCHANGED <<globals, reached, exported, numFuncImports, startFunction>>
  BY DEF Throw, Fails, Parsing, tables, history
<1>2. AddUntyped => /\ Parsing /\ at' = "failed" /\ held' = <<>> /\ left' = Unread
             /\ heap' = Free(Held) /\ (short => short') /\ (~short' => noArray' = noArray)
             /\ UNCHANGED <<globals, reached, exported, numFuncImports, startFunction>>
  BY DEF AddUntyped, Fails, Parsing, InEntry, In, tables, history
<1>3. AddNothing => /\ Parsing /\ at' = "failed" /\ held' = <<>> /\ left' = Unread
             /\ heap' = Free(Held) /\ (short => short') /\ (~short' => noArray' = noArray)
             /\ UNCHANGED <<globals, reached, exported, numFuncImports, startFunction>>
  BY DEF AddNothing, Fails, Parsing, InEntry, In, tables, history
<1> QED  BY <1>1, <1>2, <1>3 DEF Failing

LEMMA OrderInit == Init => Ordered /\ HeldInSection /\ Shortage
  BY DEF Init, Ordered, HeldInSection, Shortage, Parsing, Held, Unread

LEMMA OrderStep ==
  ASSUME TypeOK, Ordered, [Next]_vars
  PROVE  Ordered'
<1>1. CASE UNCHANGED vars \/ Done
  BY <1>1 DEF Ordered, Parsing, vars, Done, history
<1>2. CASE \E s \in SectionBytes : ReadSection(s)
  <2>1. PICK s \in SectionBytes : ReadSection(s)
    BY <1>2
  <2>2. CASE s = 0 /\ at' = "parse" /\ section' = s /\ UNCHANGED <<expected, reached>>
    BY <2>1, <2>2 DEF Ordered, Parsing, ReadSection
  <2>3. CASE \E k \in expected + 1..12 :
               /\ SectionsOrder[k] = s /\ expected' = k /\ reached' = k
               /\ at' = "parse" /\ section' = s
    <3> PICK k \in expected + 1..12 : /\ SectionsOrder[k] = s /\ expected' = k /\ reached' = k
                                     /\ at' = "parse" /\ section' = s
      BY <2>3
    <3> k \in 1..12
      BY DEF TypeOK
    <3> QED  BY DEF Ordered, Parsing
  <2>4. CASE Fails
    BY <2>4 DEF Ordered, Parsing, Fails
  <2> QED  BY <2>1, <2>2, <2>3, <2>4, Zenon DEF ReadSection
<1>3. CASE Inside
  BY <1>3, InsideStays DEF Ordered, Parsing
<1>4. CASE Failing
  BY <1>4, FailingLeaves DEF Ordered, Parsing
<1>5. CASE EndSection
  BY <1>5 DEF Ordered, Parsing, EndSection, history
<1>6. CASE EndModule \/ CompareNull \/ FreeModule
  BY <1>6 DEF Ordered, Parsing, EndModule, CompareNull, FreeModule
<1> QED  BY <1>1, <1>2, <1>3, <1>4, <1>5, <1>6, NextIs

\* What an action inside a section makes of the names that are held.
LEMMA InsideHeld ==
  Inside => /\ held' = held \/ held' = <<>> \/ ReadName
            /\ short => short'
<1>1. ASSUME NEW n \in 0..MaxEntries, BeginEntries(n) \/ BeginCustom(n)
      PROVE  held' = held /\ short' = short
  BY <1>1 DEF BeginEntries, BeginCustom
<1>2. ASSUME NEW k \in 1..MaxFunctions, ExportFunction(k) \/ ReadStart(k) \/ NameFunction(k)
      PROVE  (held' = <<>> \/ held' = held) /\ (short => short')
  BY <1>2 DEF ExportFunction, ReadStart, NameFunction, NextEntry
<1>3. ASSUME NEW k \in 1..MaxGlobals, ExportGlobal(k)
      PROVE  held' = <<>> /\ short' = short
  BY <1>3 DEF ExportGlobal, NextEntry
<1>4. ReadOthers \/ ReadTypes \/ ImportOther \/ ExportOther \/ BeginCode \/ NameNothing
      => (held' = <<>> \/ held' = held) /\ short' = short
  BY DEF ReadOthers, ReadTypes, ImportOther, ExportOther, BeginCode, NameNothing, NextEntry
<1>5. ImportFunction \/ ImportGlobal \/ DeclareFunction \/ DeclareGlobal \/ ReadBody
      => held' = <<>> /\ short' = short
  BY DEF ImportFunction, ImportGlobal, DeclareFunction, DeclareGlobal, ReadBody, NextEntry
<1>6. ReadName => (short => short')
  BY DEF ReadName
<1> QED  BY <1>1, <1>2, <1>3, <1>4, <1>5, <1>6, Zenon DEF Inside

LEMMA HeldStep ==
  ASSUME HeldInSection, [Next]_vars
  PROVE  HeldInSection'
<1>1. CASE UNCHANGED vars \/ Done
  BY <1>1 DEF HeldInSection, vars, Done
<1>2. CASE \E s \in SectionBytes : ReadSection(s)
  BY <1>2 DEF HeldInSection, ReadSection, Fails
<1>3. CASE Inside \/ Failing
  BY <1>3, InsideStays, FailingLeaves DEF HeldInSection
<1>4. CASE EndSection \/ EndModule \/ CompareNull \/ FreeModule
  BY <1>4 DEF HeldInSection, EndSection, EndModule, CompareNull, FreeModule
<1> QED  BY <1>1, <1>2, <1>3, <1>4, NextIs

\* A name that is appended is one more, and the others stay.
LEMMA Appended ==
  ASSUME NEW S, NEW q \in Seq(S), NEW x \in S
  PROVE  /\ Append(q, x) \in Seq(S) /\ Len(Append(q, x)) = Len(q) + 1
         /\ \A k \in 1..Len(q) : Append(q, x)[k] = q[k]
         /\ Append(q, x)[Len(q) + 1] = x
  OBVIOUS

LEMMA ShortageStep ==
  ASSUME TypeOK, Shortage, [Next]_vars
  PROVE  Shortage'
<1>1. CASE UNCHANGED vars \/ Done
  BY <1>1 DEF Shortage, Held, vars, Done, tables
<1>2. CASE \E s \in SectionBytes : ReadSection(s)
  <2>1. UNCHANGED <<noArray, short>> /\ at = "next" /\ at' \in {"parse", "failed"}
        /\ (held' = held \/ held' = <<>>)
    BY <1>2 DEF ReadSection, Fails, tables
  <2> QED  BY <2>1 DEF Shortage, Held
<1>3. CASE Inside
  <2>1. CASE ~ReadName
    BY <1>3, <2>1, InsideStays, InsideHeld DEF Shortage, Held
  <2>2. CASE ReadName
    <3>1. at = "parse" /\ at' = "parse" /\ noArray' = noArray /\ (short => short')
      BY <1>3, InsideStays, InsideHeld
    <3>2. CASE short'
      BY <3>1, <3>2 DEF Shortage
    <3>3. CASE ~short'
      <4>1. PICK s \in Str : held' = Append(held, s)
        BY <2>2, <3>3 DEF ReadName
      <4>2. s # Null /\ Null \notin Held
        BY <3>1, <3>3, ParserAssumption DEF Shortage
      <4>3. /\ Len(held') = Len(held) + 1 /\ held'[Len(held) + 1] = s
            /\ \A k \in 1..Len(held) : held'[k] = held[k]
        BY <4>1, Appended DEF TypeOK
      <4>4. ASSUME NEW k \in 1..Len(held')  PROVE held'[k] # Null
        <5>1. CASE k = Len(held) + 1
          BY <4>2, <4>3, <5>1
        <5>2. CASE k # Len(held) + 1
          <6>1. Len(held) \in Nat
            BY DEF TypeOK
          <6>2. k \in 1..Len(held)
            BY <4>3, <5>2, <6>1
          <6>3. held[k] \in Held
            BY <6>2 DEF Held
          <6> QED  BY <4>2, <4>3, <6>2, <6>3
        <5> QED  BY <5>1, <5>2
      <4>5. Null \notin Held'
        BY <4>4 DEF Held
      <4> QED  BY <3>1, <3>3, <4>5 DEF Shortage
    <3> QED  BY <3>2, <3>3
  <2> QED  BY <2>1, <2>2
<1>4. CASE Failing
  <2>1. noArray' # {} => short'
    BY <1>4, FailingLeaves DEF Shortage, Parsing
  <2> QED  BY <2>1, <1>4, FailingLeaves DEF Shortage, Parsing, Held
<1>5. CASE EndSection \/ EndModule \/ CompareNull
  BY <1>5 DEF EndSection, EndModule, CompareNull, Shortage, tables, Held, In
<1>6. CASE FreeModule
  BY <1>6 DEF FreeModule, Shortage, tables, Held
<1> QED  BY <1>1, <1>2, <1>3, <1>4, <1>5, <1>6, NextIs

\* Reading and freeing a module crashes only when memory has run out: Shortage says why an
\* array that is not there is walked (m3_module.c:12), CompareNull is the other way
\* (m3_parse.c:486).
LEMMA ShortageMeans == Shortage => CrashOnlyShort
  BY DEF Shortage, CrashOnlyShort

------------------------------------------------------------------------------
(* What the actions do to the owners of one kind *)

LEMMA OneReplaced ==
  ASSUME NEW S, NEW q \in Seq(S), NEW n \in 1..Len(q), NEW x \in S, NEW r,
         r = [q EXCEPT ![n] = x]
  PROVE  /\ r \in Seq(S) /\ Len(r) = Len(q) /\ r[n] = x
         /\ \A k \in 1..Len(q) : k # n => r[k] = q[k]
  OBVIOUS

LEMMA RowReplaced ==
  ASSUME functions \in Seq(Function), NEW n \in 1..Len(functions), NEW row \in Function,
         functions' = [functions EXCEPT ![n] = row]
  PROVE  /\ functions' \in Seq(Function) /\ Len(functions') = Len(functions)
         /\ functions'[n] = row
         /\ \A k \in 1..Len(functions) : k # n => functions'[k] = functions[k]
  BY OneReplaced

\* Module_AddFunction adds the owners of its function, of a name that is not the field name
\* none.
LEMMA FunctionAdded ==
  ASSUME functions \in Seq(Function), NEW f \in Function, functions' = Append(functions, f),
         f.names = <<>> \/ f.names = <<f.field>>
  PROVE  /\ functions' \in Seq(Function) /\ Len(functions') = Len(functions) + 1
         /\ \A k \in 1..Len(functions) : functions'[k] = functions[k]
         /\ functions'[Len(functions) + 1] = f
         /\ \A p, k, j, s :
              HasFunction(p, k, j, s)' <=>
                \/ HasFunction(p, k, j, s)
                \/ k = Len(functions) + 1 /\ j = 1
                   /\ ((p = "module" /\ s = f.module) \/ (p = "field" /\ s = f.field))
<1>1. /\ functions' \in Seq(Function) /\ Len(functions') = Len(functions) + 1
      /\ \A k \in 1..Len(functions) : functions'[k] = functions[k]
      /\ functions'[Len(functions) + 1] = f
  BY Appended
<1>2. ASSUME NEW p, NEW k, NEW j, NEW s
      PROVE  HasFunction(p, k, j, s)' <=>
                \/ HasFunction(p, k, j, s)
                \/ k = Len(functions) + 1 /\ j = 1
                   /\ ((p = "module" /\ s = f.module) \/ (p = "field" /\ s = f.field))
  <2>1. CASE k \in 1..Len(functions)
    <3>1. functions'[k] = functions[k] /\ k \in 1..Len(functions') /\ k # Len(functions) + 1
      BY <1>1, <2>1
    <3> QED  BY <2>1, <3>1, Zenon DEF HasFunction
  <2>2. CASE k = Len(functions) + 1
    <3>1. functions'[k] = f /\ k \in 1..Len(functions') /\ k \notin 1..Len(functions)
      BY <1>1, <2>2
    <3>2. HasFunction(p, k, j, s)' <=>
            j = 1 /\ ((p = "module" /\ s = f.module) \/ (p = "field" /\ s = f.field))
      <4>1. ~(j \in 1..Len(f.names) /\ s = f.names[j] /\ s # f.field)
        OBVIOUS
      <4> QED  BY <3>1, <4>1, Zenon DEF HasFunction
    <3> QED  BY <2>2, <3>1, <3>2, Zenon DEF HasFunction
  <2>3. CASE k \notin 1..Len(functions) + 1
    <3>1. k \notin 1..Len(functions') /\ k \notin 1..Len(functions) /\ k # Len(functions) + 1
      BY <1>1, <2>3
    <3> QED  BY <3>1 DEF HasFunction
  <2>4. k \in 1..Len(functions) \/ k = Len(functions) + 1 \/ k \notin 1..Len(functions) + 1
    OBVIOUS
  <2> QED  BY <2>1, <2>2, <2>3, <2>4
<1> QED  BY <1>1, <1>2

\* An export or the name section adds one owner, unless the name is the field name.
GetsName(n, x) == functions' = [functions EXCEPT ![n].names = Append(functions[n].names, x)]

LEMMA FunctionNamed ==
  ASSUME functions \in Seq(Function), NEW n \in 1..Len(functions), NEW x \in Str \cup {Null},
         GetsName(n, x)
  PROVE  /\ functions' \in Seq(Function) /\ Len(functions') = Len(functions)
         /\ \A k \in 1..Len(functions) :
              /\ functions'[k].module = functions[k].module
              /\ functions'[k].field = functions[k].field
              /\ functions'[k].body = functions[k].body
              /\ k # n => functions'[k].names = functions[k].names
         /\ Len(functions'[n].names) = Len(functions[n].names) + 1
         /\ \A j \in 1..Len(functions[n].names) : functions'[n].names[j] = functions[n].names[j]
         /\ functions'[n].names[Len(functions[n].names) + 1] = x
         /\ \A p, k, j, s :
              HasFunction(p, k, j, s)' <=>
                \/ HasFunction(p, k, j, s)
                \/ p = "names" /\ k = n /\ j = Len(functions[n].names) + 1
                   /\ s = x /\ s # functions[n].field
<1> DEFINE names == Append(functions[n].names, x)
<1>1. functions[n] \in Function /\ functions[n].names \in Seq(Str \cup {Null})
  <2>1. functions[n] \in Function
    OBVIOUS
  <2> QED  BY <2>1 DEF Function
<1>2. /\ names \in Seq(Str \cup {Null}) /\ Len(names) = Len(functions[n].names) + 1
      /\ \A k \in 1..Len(functions[n].names) : names[k] = functions[n].names[k]
      /\ names[Len(functions[n].names) + 1] = x
  BY <1>1, Appended
<1>3. PICK row : row = [functions[n] EXCEPT !.names = names]
  OBVIOUS
<1>4. functions' = [functions EXCEPT ![n] = row]
  BY <1>3, Zenon DEF GetsName
<1> HIDE DEF names
<1>r. /\ row \in Function /\ row.module = functions[n].module /\ row.field = functions[n].field
      /\ row.body = functions[n].body /\ row.names = names
  BY <1>1, <1>2, <1>3 DEF Function
<1>5. /\ functions' \in Seq(Function) /\ Len(functions') = Len(functions)
      /\ functions'[n] = row
      /\ \A k \in 1..Len(functions) : k # n => functions'[k] = functions[k]
  BY <1>r, <1>4, RowReplaced, Zenon
<1>6. ASSUME NEW p, NEW k, NEW j, NEW s
      PROVE  HasFunction(p, k, j, s)' <=>
                \/ HasFunction(p, k, j, s)
                \/ p = "names" /\ k = n /\ j = Len(functions[n].names) + 1
                   /\ s = x /\ s # functions[n].field
  <2>1. CASE k # n
    <3>1. k \in 1..Len(functions') => functions'[k] = functions[k]
      BY <1>5, <2>1
    <3> QED  BY <2>1, <3>1, <1>5, Zenon DEF HasFunction
  <2>2. CASE k = n
    <3>1. j \in 1..Len(names) /\ s = names[j] <=>
            \/ j \in 1..Len(functions[n].names) /\ s = functions[n].names[j]
            \/ j = Len(functions[n].names) + 1 /\ s = x
      <4>1. Len(functions[n].names) \in Nat
        BY <1>1
      <4>2. /\ j \in 1..Len(names) <=>
                 j \in 1..Len(functions[n].names) \/ j = Len(functions[n].names) + 1
            /\ ~(Len(functions[n].names) + 1 \in 1..Len(functions[n].names))
        BY <1>2, <4>1
      <4> QED  BY <1>2, <4>2
    <3>2. k \in 1..Len(functions') /\ functions'[k] = row /\ k \in 1..Len(functions)
      BY <1>5, <2>2
    <3>3. HasFunction(p, k, j, s)' <=>
            \/ p = "module" /\ j = 1 /\ s = functions[n].module
            \/ p = "field" /\ j = 1 /\ s = functions[n].field
            \/ p = "names" /\ j \in 1..Len(names) /\ s = names[j] /\ s # functions[n].field
      BY <3>2, <1>r, Zenon DEF HasFunction
    <3>4. HasFunction(p, k, j, s) <=>
            \/ p = "module" /\ j = 1 /\ s = functions[n].module
            \/ p = "field" /\ j = 1 /\ s = functions[n].field
            \/ p = "names" /\ j \in 1..Len(functions[n].names)
               /\ s = functions[n].names[j] /\ s # functions[n].field
      BY <3>2, <2>2, Zenon DEF HasFunction
    <3> QED  BY <2>2, <3>1, <3>3, <3>4, Zenon
  <2> QED  BY <2>1, <2>2
<1> QED  BY <1>1, <1>2, <1>r, <1>5, <1>6

\* ParseSection_Code adds none.
LEMMA BodyRead ==
  ASSUME functions \in Seq(Function), NEW n \in 1..Len(functions), NEW body \in BOOLEAN,
         functions' = [functions EXCEPT ![n].body = body]
  PROVE  /\ functions' \in Seq(Function) /\ Len(functions') = Len(functions)
         /\ \A k \in 1..Len(functions) :
              /\ functions'[k].module = functions[k].module
              /\ functions'[k].field = functions[k].field
              /\ functions'[k].names = functions[k].names
              /\ k # n => functions'[k].body = functions[k].body
         /\ \A p, k, j, s : HasFunction(p, k, j, s)' <=> HasFunction(p, k, j, s)
<1> DEFINE row == [functions[n] EXCEPT !.body = body]
<1>1. functions[n] \in Function
  OBVIOUS
<1>2. /\ row \in Function /\ row.module = functions[n].module /\ row.field = functions[n].field
      /\ row.names = functions[n].names
  BY <1>1 DEF Function
<1>3. functions' = [functions EXCEPT ![n] = row]
  OBVIOUS
<1> HIDE DEF row
<1>4. /\ functions' \in Seq(Function) /\ Len(functions') = Len(functions)
      /\ functions'[n] = row
      /\ \A k \in 1..Len(functions) : k # n => functions'[k] = functions[k]
  <2>1. row \in Function
    BY <1>2
  <2> QED  BY <2>1, <1>3, RowReplaced, Zenon
<1>5. \A k \in 1..Len(functions) :
              /\ functions'[k].module = functions[k].module
              /\ functions'[k].field = functions[k].field
              /\ functions'[k].names = functions[k].names
              /\ k # n => functions'[k].body = functions[k].body
  BY <1>2, <1>4
<1>6. ASSUME NEW p, NEW k, NEW j, NEW s
      PROVE  HasFunction(p, k, j, s)' <=> HasFunction(p, k, j, s)
  <2>1. CASE k \in 1..Len(functions)
    <3>1. k \in 1..Len(functions') /\ functions'[k].module = functions[k].module
          /\ functions'[k].field = functions[k].field /\ functions'[k].names = functions[k].names
      BY <1>4, <1>5, <2>1
    <3> QED  BY <2>1, <3>1 DEF HasFunction
  <2>2. CASE k \notin 1..Len(functions)
    BY <1>4, <2>2 DEF HasFunction
  <2> QED  BY <2>1, <2>2
<1> QED  BY <1>4, <1>5, <1>6

\* Module_AddGlobal, and the export of a global, which takes the place of another one.
LEMMA GlobalAdded ==
  ASSUME globals \in Seq(Global), NEW g \in Global, globals' = Append(globals, g)
  PROVE  /\ globals' \in Seq(Global)
         /\ \A p, k, j, s :
              HasGlobal(p, k, j, s)' <=>
                \/ HasGlobal(p, k, j, s)
                \/ /\ k = Len(globals) + 1 /\ j = 1
                   /\ \/ p = "global module" /\ s = g.module
                      \/ p = "global field" /\ s = g.field
                      \/ p = "global name" /\ s = g.name
<1>1. /\ globals' \in Seq(Global) /\ Len(globals') = Len(globals) + 1
      /\ \A k \in 1..Len(globals) : globals'[k] = globals[k]
      /\ globals'[Len(globals) + 1] = g
  BY Appended
<1>2. ASSUME NEW p, NEW k, NEW j, NEW s
      PROVE  HasGlobal(p, k, j, s)' <=>
                \/ HasGlobal(p, k, j, s)
                \/ /\ k = Len(globals) + 1 /\ j = 1
                   /\ \/ p = "global module" /\ s = g.module
                      \/ p = "global field" /\ s = g.field
                      \/ p = "global name" /\ s = g.name
  <2>1. CASE k \in 1..Len(globals)
    <3>1. globals'[k] = globals[k] /\ k \in 1..Len(globals') /\ k # Len(globals) + 1
      BY <1>1, <2>1
    <3> QED  BY <2>1, <3>1, Zenon DEF HasGlobal
  <2>2. CASE k = Len(globals) + 1
    <3>1. globals'[k] = g /\ k \in 1..Len(globals') /\ k \notin 1..Len(globals)
      BY <1>1, <2>2
    <3> QED  BY <2>2, <3>1, Zenon DEF HasGlobal
  <2>3. CASE k \notin 1..Len(globals) + 1
    <3>1. k \notin 1..Len(globals') /\ k \notin 1..Len(globals) /\ k # Len(globals) + 1
      BY <1>1, <2>3
    <3> QED  BY <3>1 DEF HasGlobal
  <2>4. k \in 1..Len(globals) \/ k = Len(globals) + 1 \/ k \notin 1..Len(globals) + 1
    OBVIOUS
  <2> QED  BY <2>1, <2>2, <2>3, <2>4
<1> QED  BY <1>1, <1>2

RenamedTo(n, x) == globals' = [globals EXCEPT ![n].name = x]

LEMMA GlobalNamed ==
  ASSUME globals \in Seq(Global), NEW n \in 1..Len(globals), NEW x \in Str \cup {Null},
         RenamedTo(n, x)
  PROVE  /\ globals' \in Seq(Global)
         /\ \A p, k, j, s :
              HasGlobal(p, k, j, s)' <=>
                IF p = "global name" /\ k = n THEN j = 1 /\ s = x ELSE HasGlobal(p, k, j, s)
<1>1. globals[n] \in Global
  OBVIOUS
<1>2. PICK row : row = [globals[n] EXCEPT !.name = x]
  OBVIOUS
<1>3. globals' = [globals EXCEPT ![n] = row]
  BY <1>2, Zenon DEF RenamedTo
<1>4. /\ row \in Global /\ row.module = globals[n].module /\ row.field = globals[n].field
      /\ row.name = x
  BY <1>1, <1>2 DEF Global
<1>5. /\ globals' \in Seq(Global) /\ Len(globals') = Len(globals) /\ globals'[n] = row
      /\ \A k \in 1..Len(globals) : k # n => globals'[k] = globals[k]
  BY <1>3, <1>4, OneReplaced
<1>6. ASSUME NEW p, NEW k, NEW j, NEW s
      PROVE  HasGlobal(p, k, j, s)' <=>
                IF p = "global name" /\ k = n THEN j = 1 /\ s = x ELSE HasGlobal(p, k, j, s)
  <2>1. CASE k # n
    <3>1. k \in 1..Len(globals') => globals'[k] = globals[k]
      BY <1>5, <2>1
    <3> QED  BY <2>1, <3>1, <1>5, Zenon DEF HasGlobal
  <2>2. CASE k = n
    <3>1. k \in 1..Len(globals') /\ globals'[k] = row /\ k \in 1..Len(globals)
      BY <1>5, <2>2
    <3> QED  BY <3>1, <2>2, <1>4 DEF HasGlobal
  <2> QED  BY <2>1, <2>2
<1> QED  BY <1>5, <1>6

\* Read_utf8: the parser owns one more.
LEMMA NameHeld ==
  ASSUME held \in Seq(Str \cup {Null}), NEW x \in Str \cup {Null}, held' = Append(held, x)
  PROVE  \A p, k, j, s :
           HasHeld(p, k, j, s)' <=>
             HasHeld(p, k, j, s) \/ (p = "parser" /\ k = 1 /\ j = Len(held) + 1 /\ s = x)
<1>1. /\ Len(held') = Len(held) + 1 /\ held'[Len(held) + 1] = x
      /\ \A k \in 1..Len(held) : held'[k] = held[k]
  BY Appended
<1>2. ASSUME NEW p, NEW k, NEW j, NEW s
      PROVE  HasHeld(p, k, j, s)' <=>
             HasHeld(p, k, j, s) \/ (p = "parser" /\ k = 1 /\ j = Len(held) + 1 /\ s = x)
  BY <1>1 DEF HasHeld
<1> QED  BY <1>2

\* Nothing is owned by two kinds of owners.
LEMMA Kinds ==
  \A p, k, j, s :
    /\ HasHeld(p, k, j, s) => p = "parser" /\ k = 1
    /\ HasFunction(p, k, j, s) => p \in {"module", "field", "names"} /\ k \in 1..Len(functions)
    /\ HasGlobal(p, k, j, s) => /\ p \in {"global module", "global field", "global name"}
                                /\ k \in 1..Len(globals)
<1> SUFFICES ASSUME NEW p, NEW k, NEW j, NEW s
    PROVE  /\ HasHeld(p, k, j, s) => p = "parser" /\ k = 1
           /\ HasFunction(p, k, j, s) => p \in {"module", "field", "names"} /\ k \in 1..Len(functions)
           /\ HasGlobal(p, k, j, s) => /\ p \in {"global module", "global field", "global name"}
                                       /\ k \in 1..Len(globals)
  OBVIOUS
<1>1. HasHeld(p, k, j, s) => p = "parser" /\ k = 1
  BY DEF HasHeld
<1>2. HasFunction(p, k, j, s) => p \in {"module", "field", "names"} /\ k \in 1..Len(functions)
  BY Zenon DEF HasFunction
<1>3. HasGlobal(p, k, j, s) => /\ p \in {"global module", "global field", "global name"}
                               /\ k \in 1..Len(globals)
  BY Zenon DEF HasGlobal
<1> QED  BY <1>1, <1>2, <1>3

LEMMA HeldHas ==
  \A s \in Str : s \in Held <=> \E j : HasHeld("parser", 1, j, s)
  BY DEF Held, HasHeld

------------------------------------------------------------------------------
(* Strings keep one owner *)

\* Nothing changes hands, ...
LEMMA OwnersKept ==
  ASSUME Unique, Covered, heap' = heap,
         \A s \in Str : \A p, k, j : Has(p, k, j, s)' <=> Has(p, k, j, s)
  PROVE  Unique' /\ Covered'
<1>1. Unique'
  <2> SUFFICES ASSUME NEW s \in Str, NEW p1, NEW k1, NEW j1, NEW p2, NEW k2, NEW j2,
                      Has(p1, k1, j1, s)', Has(p2, k2, j2, s)'
               PROVE  p1 = p2 /\ k1 = k2 /\ j1 = j2
    BY DEF Unique
  <2>1. Has(p1, k1, j1, s) /\ Has(p2, k2, j2, s)
    OBVIOUS
  <2> QED  BY <2>1 DEF Unique
<1>2. Covered'
  BY DEF Covered
<1> QED  BY <1>1, <1>2

\* ... the names that were held are freed, ...
LEMMA HeldFreed ==
  ASSUME Unique, Covered, heap' = Free(Held),
         \A s \in Str : \A p, k, j : Has(p, k, j, s)' <=> Has(p, k, j, s) /\ p # "parser"
  PROVE  Unique' /\ Covered'
<1>1. Unique'
  <2> SUFFICES ASSUME NEW s \in Str, NEW p1, NEW k1, NEW j1, NEW p2, NEW k2, NEW j2,
                      Has(p1, k1, j1, s)', Has(p2, k2, j2, s)'
               PROVE  p1 = p2 /\ k1 = k2 /\ j1 = j2
    BY DEF Unique
  <2>1. Has(p1, k1, j1, s) /\ Has(p2, k2, j2, s)
    OBVIOUS
  <2> QED  BY <2>1 DEF Unique
<1>2. ASSUME NEW s \in Str
      PROVE  heap'[s] # Null <=> \E p, k, j : Has(p, k, j, s)'
  <2>1. heap'[s] = IF s \in Held THEN Null ELSE heap[s]
    BY DEF Free
  <2>2. CASE s \in Held
    <3>1. PICK j : Has("parser", 1, j, s)
      BY <2>2, HeldHas DEF Has
    <3>2. \A p, k, i : Has(p, k, i, s) => p = "parser"
      BY <3>1 DEF Unique
    <3> QED  BY <2>1, <2>2, <3>2
  <2>3. CASE s \notin Held
    <3>1. \A p, k, j : Has(p, k, j, s) => p # "parser"
      <4>1. ASSUME NEW k, NEW j, Has("parser", k, j, s)  PROVE FALSE
        <5>1. HasHeld("parser", k, j, s)
          BY <4>1, Kinds DEF Has
        <5> QED  BY <5>1, <2>3, HeldHas, Kinds
      <4> QED  BY <4>1
    <3>2. heap[s] # Null <=> \E p, k, j : Has(p, k, j, s)
      BY DEF Covered
    <3> QED  BY <2>1, <2>3, <3>1, <3>2
  <2> QED  BY <2>2, <2>3
<1> QED  BY <1>1, <1>2, Zenon DEF Covered

\* ... they are handed over, q says to which owners, ...
Handed(q, l, i) ==
  \A s \in Str : \A p, k, j :
    Has(p, k, j, s)' <=>
      \/ Has(p, k, j, s) /\ p # "parser"
      \/ k = l /\ j = i /\ \E h \in 1..Len(held) : p = q[h] /\ s = held[h]

LEMMA HeldMoved ==
  ASSUME Unique, Covered, heap' = heap, NEW q, NEW l, NEW i, Handed(q, l, i)
  PROVE  Unique' /\ Covered'
<1> USE DEF Handed
<1>1. \A s \in Str : \A h \in 1..Len(held) : s = held[h] => Has("parser", 1, h, s)
  BY DEF Has, HasHeld
<1>2. ASSUME NEW s \in Str, NEW p1, NEW k1, NEW j1, NEW p2, NEW k2, NEW j2,
             Has(p1, k1, j1, s)', Has(p2, k2, j2, s)'
      PROVE  p1 = p2 /\ k1 = k2 /\ j1 = j2
  <2>1. \A p, k, j : Has(p, k, j, s) /\ p # "parser" =>
          \A h \in 1..Len(held) : s # held[h]
    BY <1>1 DEF Unique
  <2>2. \A g, h \in 1..Len(held) : s = held[g] /\ s = held[h] => g = h
    <3> SUFFICES ASSUME NEW g \in 1..Len(held), NEW h \in 1..Len(held), s = held[g], s = held[h]
                 PROVE  g = h
      OBVIOUS
    <3>1. Has("parser", 1, g, s) /\ Has("parser", 1, h, s)
      BY <1>1
    <3> QED  BY <3>1 DEF Unique
  <2>3. CASE Has(p1, k1, j1, s) /\ p1 # "parser"
    <3>1. Has(p2, k2, j2, s)
      BY <1>2, <2>1, <2>3
    <3> QED  BY <2>3, <3>1 DEF Unique
  <2>4. CASE ~(Has(p1, k1, j1, s) /\ p1 # "parser")
    <3>1. k1 = l /\ j1 = i /\ \E h \in 1..Len(held) : p1 = q[h] /\ s = held[h]
      BY <1>2, <2>4
    <3>2. ~(Has(p2, k2, j2, s) /\ p2 # "parser")
      BY <3>1, <2>1
    <3>3. k2 = l /\ j2 = i /\ \E h \in 1..Len(held) : p2 = q[h] /\ s = held[h]
      BY <1>2, <3>2
    <3> QED  BY <3>1, <3>3, <2>2
  <2> QED  BY <2>3, <2>4
<1>3. ASSUME NEW s \in Str
      PROVE  (\E p, k, j : Has(p, k, j, s)) <=> (\E p, k, j : Has(p, k, j, s)')
  <2>1. ASSUME NEW k, NEW j, Has("parser", k, j, s)
        PROVE  j \in 1..Len(held) /\ s = held[j]
    BY <2>1, Kinds DEF Has, HasHeld
  <2>2. ASSUME NEW p, NEW k, NEW j, Has(p, k, j, s)
        PROVE  \E p1, k1, j1 : Has(p1, k1, j1, s)'
    <3>1. CASE p # "parser"
      BY <2>2, <3>1
    <3>2. CASE p = "parser"
      BY <2>1, <2>2, <3>2
    <3> QED  BY <3>1, <3>2
  <2>3. ASSUME NEW p, NEW k, NEW j, Has(p, k, j, s)'
        PROVE  \E p1, k1, j1 : Has(p1, k1, j1, s)
    BY <2>3, <1>1
  <2> QED  BY <2>2, <2>3
<1>4. Covered'
  BY <1>3, Zenon DEF Covered
<1>5. Unique'
  BY <1>2, Zenon DEF Unique
<1> QED  BY <1>4, <1>5

\* ... or a string is made for an owner.
Made(n, q, l, i) ==
  \A s \in Str : \A p, k, j :
    Has(p, k, j, s)' <=> Has(p, k, j, s) \/ (p = q /\ k = l /\ j = i /\ s = n)

LEMMA NameMade ==
  ASSUME Unique, Covered, heap \in [Str -> Text \cup {Null}], NEW n \in Str, NEW t \in Text,
         heap[n] = Null, heap' = [heap EXCEPT ![n] = t], NEW q, NEW l, NEW i,
         Made(n, q, l, i)
  PROVE  Unique' /\ Covered'
<1> USE DEF Made
<1>1. \A p, k, j : ~Has(p, k, j, n)
  BY DEF Covered
<1>2. Unique'
  <2>1. ASSUME NEW s \in Str, NEW p1, NEW k1, NEW j1, NEW p2, NEW k2, NEW j2,
               Has(p1, k1, j1, s)', Has(p2, k2, j2, s)'
        PROVE  p1 = p2 /\ k1 = k2 /\ j1 = j2
    <3>1. CASE s = n
      BY <1>1, <2>1, <3>1
    <3>2. CASE s # n
      <4>1. Has(p1, k1, j1, s) /\ Has(p2, k2, j2, s)
        BY <2>1, <3>2
      <4> QED  BY <4>1 DEF Unique
    <3> QED  BY <3>1, <3>2
  <2> QED  BY <2>1, Zenon DEF Unique
<1>3. ASSUME NEW s \in Str
      PROVE  heap'[s] # Null <=> \E p, k, j : Has(p, k, j, s)'
  <2>1. CASE s = n
    <3>1. heap'[s] = t /\ t # Null
      BY <2>1, ParserAssumption
    <3>2. Has(q, l, i, s)'
      BY <2>1
    <3> QED  BY <3>1, <3>2
  <2>2. CASE s # n
    <3>1. heap'[s] = heap[s]
      BY <2>2
    <3>2. heap[s] # Null <=> \E p, k, j : Has(p, k, j, s)
      BY DEF Covered
    <3> QED  BY <2>2, <3>1, <3>2
  <2> QED  BY <2>1, <2>2
<1> QED  BY <1>2, <1>3, Zenon DEF Covered

\* A global gives up its name and gets the one that is held.
LEMMA GlobalRenamed ==
  ASSUME Unique, Covered, NEW n \in 1..Len(globals), 1..Len(held) = {1},
         heap' = Free({globals[n].name}),
         \A s \in Str : \A p, k, j :
           Has(p, k, j, s)' <=>
             \/ Has(p, k, j, s) /\ p # "parser" /\ ~(p = "global name" /\ k = n)
             \/ p = "global name" /\ k = n /\ j = 1 /\ s = held[1]
  PROVE  Unique' /\ Covered'
<1>1. \A s \in Str : s = held[1] => Has("parser", 1, 1, s)
  <2>1. 1 \in 1..Len(held)
    OBVIOUS
  <2> QED  BY <2>1 DEF Has, HasHeld
<1>2. \A s \in Str : s = globals[n].name => Has("global name", n, 1, s)
  BY DEF Has, HasGlobal
<1>3. ASSUME NEW s \in Str, NEW p1, NEW k1, NEW j1, NEW p2, NEW k2, NEW j2,
             Has(p1, k1, j1, s)', Has(p2, k2, j2, s)'
      PROVE  p1 = p2 /\ k1 = k2 /\ j1 = j2
  <2>1. CASE s = held[1]
    <3>1. Has("parser", 1, 1, s)
      BY <1>1, <2>1
    <3>2. \A p, k, j : Has(p, k, j, s) => p = "parser"
      BY <3>1 DEF Unique
    <3>3. \A p, k, j : Has(p, k, j, s)' => p = "global name" /\ k = n /\ j = 1
      BY <3>2
    <3>4. (p1 = "global name" /\ k1 = n /\ j1 = 1) /\ (p2 = "global name" /\ k2 = n /\ j2 = 1)
      BY <1>3, <3>3
    <3> QED  BY <3>4
  <2>2. CASE s # held[1]
    <3>1. Has(p1, k1, j1, s) /\ Has(p2, k2, j2, s)
      BY <1>3, <2>2
    <3>2. \A p, q, k, l, i, j : Has(p, k, i, s) /\ Has(q, l, j, s) => p = q /\ k = l /\ i = j
      BY Zenon DEF Unique
    <3> QED  BY <3>1, <3>2, Zenon
  <2> QED  BY <2>1, <2>2
<1>4. ASSUME NEW s \in Str
      PROVE  heap'[s] # Null <=> \E p, k, j : Has(p, k, j, s)'
  <2>1. heap[s] # Null <=> \E p, k, j : Has(p, k, j, s)
    BY DEF Covered
  <2>2. CASE s = globals[n].name
    <3>1. heap'[s] = Null
      BY <2>2 DEF Free
    <3>2. \A p, k, j : Has(p, k, j, s) => p = "global name" /\ k = n
      BY <1>2, <2>2 DEF Unique
    <3>3. s # held[1]
      BY <1>1, <3>2
    <3> QED  BY <3>1, <3>2, <3>3
  <2>3. CASE s # globals[n].name
    <3>1. heap'[s] = heap[s]
      BY <2>3 DEF Free
    <3>2. ASSUME NEW p, NEW k, NEW j, Has(p, k, j, s)
          PROVE  \E p1, k1, j1 : Has(p1, k1, j1, s)'
      <4>1. CASE p = "parser"
        <5>1. HasHeld(p, k, j, s)
          BY <3>2, <4>1, Kinds DEF Has
        <5>2. j \in 1..Len(held) /\ s = held[j]
          BY <5>1, Zenon DEF HasHeld
        <5>4. s = held[1]
          BY <5>2
        <5>3. Has("global name", n, 1, s)'
          BY <5>4
        <5> QED  BY <5>3
      <4>2. CASE p = "global name" /\ k = n
        <5>1. HasGlobal(p, k, j, s)
          BY <3>2, <4>2, Kinds DEF Has
        <5> QED  BY <5>1, <4>2, <2>3 DEF HasGlobal
      <4>3. CASE p # "parser" /\ ~(p = "global name" /\ k = n)
        <5>1. Has(p, k, j, s)'
          BY <3>2, <4>3
        <5> QED  BY <5>1
      <4> QED  BY <4>1, <4>2, <4>3
    <3>3. ASSUME NEW p, NEW k, NEW j, Has(p, k, j, s)'
          PROVE  \E p1, k1, j1 : Has(p1, k1, j1, s)
      BY <3>3, <1>1
    <3> QED  BY <2>1, <3>1, <3>2, <3>3
  <2> QED  BY <2>2, <2>3
<1>5. Covered'
  BY <1>4, Zenon DEF Covered
<1>6. Unique'
  BY <1>3, Zenon DEF Unique
<1> QED  BY <1>5, <1>6

\* The owners of a kind that an action does not touch.
LEMMA OwnersSame ==
  /\ held' = held => \A p, k, j, s : HasHeld(p, k, j, s)' <=> HasHeld(p, k, j, s)
  /\ held' = <<>> => \A p, k, j, s : ~HasHeld(p, k, j, s)'
  /\ functions' = functions => \A p, k, j, s : HasFunction(p, k, j, s)' <=> HasFunction(p, k, j, s)
  /\ globals' = globals => \A p, k, j, s : HasGlobal(p, k, j, s)' <=> HasGlobal(p, k, j, s)
<1>1. held' = held => \A p, k, j, s : HasHeld(p, k, j, s)' <=> HasHeld(p, k, j, s)
  BY Zenon DEF HasHeld
<1>2. held' = <<>> => \A p, k, j, s : ~HasHeld(p, k, j, s)'
  BY DEF HasHeld
<1>3. functions' = functions =>
        \A p, k, j, s : HasFunction(p, k, j, s)' <=> HasFunction(p, k, j, s)
  BY DEF HasFunction
<1>4. globals' = globals => \A p, k, j, s : HasGlobal(p, k, j, s)' <=> HasGlobal(p, k, j, s)
  BY Zenon DEF HasGlobal
<1> QED  BY <1>1, <1>2, <1>3, <1>4

LEMMA NoneHeld ==
  Len(held) = 0 => \A p, k, j, s : ~HasHeld(p, k, j, s)
  BY DEF HasHeld

\* An element that has nothing yet owns nothing.
LEMMA NewOwnsNothing ==
  ASSUME TypeOK
  PROVE  /\ NewFunction \in Function /\ NewFunction.names = <<>> /\ NewGlobal \in Global
         /\ functions' = Append(functions, NewFunction) =>
              \A s \in Str : \A p, k, j : HasFunction(p, k, j, s)' <=> HasFunction(p, k, j, s)
         /\ globals' = Append(globals, NewGlobal) =>
              \A s \in Str : \A p, k, j : HasGlobal(p, k, j, s)' <=> HasGlobal(p, k, j, s)
<1>1. /\ NewFunction \in Function /\ NewFunction.names = <<>>
      /\ NewFunction.module = Null /\ NewFunction.field = Null
  BY DEF NewFunction, Function
<1>2. /\ NewGlobal \in Global /\ NewGlobal.name = Null
      /\ NewGlobal.module = Null /\ NewGlobal.field = Null
  BY DEF NewGlobal, Global
<1>3. ASSUME functions' = Append(functions, NewFunction), NEW s \in Str, NEW p, NEW k, NEW j
      PROVE  HasFunction(p, k, j, s)' <=> HasFunction(p, k, j, s)
  <2>1. functions \in Seq(Function) /\ s # Null
    BY ParserAssumption DEF TypeOK
  <2> HIDE DEF NewFunction
  <2> QED  BY <1>1, <1>3, <2>1, FunctionAdded
<1>4. ASSUME globals' = Append(globals, NewGlobal), NEW s \in Str, NEW p, NEW k, NEW j
      PROVE  HasGlobal(p, k, j, s)' <=> HasGlobal(p, k, j, s)
  <2>1. globals \in Seq(Global) /\ s # Null
    BY ParserAssumption DEF TypeOK
  <2> QED  BY <1>2, <1>4, <2>1, GlobalAdded
<1> QED  BY <1>1, <1>2, <1>3, <1>4

\* The function that a body is of was declared, and is not an import.
LEMMA BodyIndex ==
  ASSUME TypeOK, Counts, ReadBody
  PROVE  /\ Len(functions) - left + 1 \in 1..Len(functions)
         /\ Len(functions) - left + 1 > numFuncImports
<1>1. In(10) /\ left > 0 /\ left # Unread /\ Alive
  BY DEF ReadBody, InEntry, In, Alive, Unread
<1>2. left \in Nat /\ numFuncImports \in Nat /\ left <= Len(functions) - numFuncImports
      /\ Len(functions) \in Nat
  BY <1>1 DEF Counts, TypeOK, Unread
<1>3. \A l, m, n \in Nat : l > 0 /\ l <= n - m => n - l + 1 \in 1..n /\ n - l + 1 > m
  OBVIOUS
<1> QED  BY <1>1, <1>2, <1>3

LEMMA HeldElements ==
  ASSUME NEW S, NEW q \in Seq(S)
  PROVE  /\ Len(q) = 1 => q[1] \in S /\ 1..Len(q) = {1}
         /\ Len(q) = 2 => q[1] \in S /\ q[2] \in S /\ 1..Len(q) = {1, 2}
<1>1. ASSUME Len(q) = 1  PROVE q[1] \in S /\ 1..Len(q) = {1}
  <2>1. 1..1 = {1} /\ 1 \in 1..1
    OBVIOUS
  <2> QED  BY <1>1, <2>1, ElementOfSeq
<1>2. ASSUME Len(q) = 2  PROVE q[1] \in S /\ q[2] \in S /\ 1..Len(q) = {1, 2}
  <2>1. 1..2 = {1, 2} /\ 1 \in 1..2 /\ 2 \in 1..2
    OBVIOUS
  <2> QED  BY <1>2, <2>1, ElementOfSeq
<1> QED  BY <1>1, <1>2

LEMMA OwnersImportFunction ==
  ASSUME TypeOK, Unique, Covered, ImportFunction
  PROVE  Unique' /\ Covered'
<1>1. UNCHANGED <<heap, globals>> /\ held' = <<>> /\ Len(held) = 2
  BY DEF ImportFunction, NextEntry, InEntry
<1>2. /\ held[1] \in Str \cup {Null} /\ held[2] \in Str \cup {Null}
      /\ 1..Len(held) = {1, 2}
  BY <1>1, HeldElements DEF TypeOK
<1>3. PICK f : f = [NewFunction EXCEPT !.module = held[1], !.field = held[2],
                                       !.names = <<held[2]>>]
  OBVIOUS
<1>4. functions' = Append(functions, f)
  BY <1>3, Zenon DEF ImportFunction, AddFunction
<1>5. /\ f \in Function /\ f.module = held[1] /\ f.field = held[2]
      /\ f.names = <<f.field>>
  <2>1. f = [module |-> held[1], field |-> held[2], names |-> <<held[2]>>, body |-> FALSE]
    BY <1>3 DEF NewFunction
  <2>2. <<held[2]>> \in Seq(Str \cup {Null})
    BY <1>2
  <2> QED  BY <1>2, <2>1, <2>2 DEF Function
<1>6. PICK q : q = <<"module", "field">>
  OBVIOUS
<1>7. ASSUME NEW s \in Str, NEW p, NEW k, NEW j
      PROVE  Has(p, k, j, s)' <=>
               \/ Has(p, k, j, s) /\ p # "parser"
               \/ /\ k = Len(functions) + 1 /\ j = 1
                  /\ \E h \in 1..Len(held) : p = q[h] /\ s = held[h]
  <2>1. HasFunction(p, k, j, s)' <=>
            \/ HasFunction(p, k, j, s)
            \/ /\ k = Len(functions) + 1 /\ j = 1
               /\ (p = "module" /\ s = f.module) \/ (p = "field" /\ s = f.field)
    BY <1>4, <1>5, FunctionAdded DEF TypeOK
  <2>2. ~HasHeld(p, k, j, s)' /\ (HasGlobal(p, k, j, s)' <=> HasGlobal(p, k, j, s))
    BY <1>1, OwnersSame
  <2>3. (\E h \in 1..Len(held) : p = q[h] /\ s = held[h])
        <=> (p = "module" /\ s = held[1]) \/ (p = "field" /\ s = held[2])
    BY <1>2, <1>6
  <2>4. Has(p, k, j, s) /\ p # "parser" <=> HasFunction(p, k, j, s) \/ HasGlobal(p, k, j, s)
    BY Kinds DEF Has
  <2> QED  BY <1>5, <2>1, <2>2, <2>3, <2>4, Zenon DEF Has
<1>8. Handed(q, Len(functions) + 1, 1)
  BY <1>7 DEF Handed
<1> QED  BY <1>1, <1>8, HeldMoved

LEMMA OwnersImportGlobal ==
  ASSUME TypeOK, Unique, Covered, ImportGlobal
  PROVE  Unique' /\ Covered'
<1>1. UNCHANGED <<heap, functions>> /\ held' = <<>> /\ Len(held) = 2
  BY DEF ImportGlobal, NextEntry, InEntry
<1>2. /\ held[1] \in Str \cup {Null} /\ held[2] \in Str \cup {Null}
      /\ 1..Len(held) = {1, 2}
  BY <1>1, HeldElements DEF TypeOK
<1>3. PICK g : g = [NewGlobal EXCEPT !.module = held[1], !.field = held[2]]
  OBVIOUS
<1>4. globals' = Append(globals, g)
  BY <1>3, Zenon DEF ImportGlobal
<1>5. g \in Global /\ g.module = held[1] /\ g.field = held[2] /\ g.name = Null
  BY <1>2, <1>3 DEF NewGlobal, Global
<1>6. PICK q : q = <<"global module", "global field">>
  OBVIOUS
<1>7. ASSUME NEW s \in Str, NEW p, NEW k, NEW j
      PROVE  Has(p, k, j, s)' <=>
               \/ Has(p, k, j, s) /\ p # "parser"
               \/ /\ k = Len(globals) + 1 /\ j = 1
                  /\ \E h \in 1..Len(held) : p = q[h] /\ s = held[h]
  <2>1. HasGlobal(p, k, j, s)' <=>
            \/ HasGlobal(p, k, j, s)
            \/ /\ k = Len(globals) + 1 /\ j = 1
               /\ \/ p = "global module" /\ s = g.module
                  \/ p = "global field" /\ s = g.field
                  \/ p = "global name" /\ s = g.name
    BY <1>4, <1>5, GlobalAdded DEF TypeOK
  <2>2. ~HasHeld(p, k, j, s)' /\ (HasFunction(p, k, j, s)' <=> HasFunction(p, k, j, s))
    BY <1>1, OwnersSame
  <2>3. (\E h \in 1..Len(held) : p = q[h] /\ s = held[h])
        <=> (p = "global module" /\ s = held[1]) \/ (p = "global field" /\ s = held[2])
    <3>1. q[1] = "global module" /\ q[2] = "global field"
      BY <1>6
    <3> QED  BY <1>2, <3>1
  <2>4. Has(p, k, j, s) /\ p # "parser" <=> HasFunction(p, k, j, s) \/ HasGlobal(p, k, j, s)
    BY Kinds DEF Has
  <2>5. s # g.name
    BY <1>5, ParserAssumption
  <2> QED  BY <1>5, <2>1, <2>2, <2>3, <2>4, <2>5, Zenon DEF Has
<1>8. Handed(q, Len(globals) + 1, 1)
  BY <1>7 DEF Handed
<1> QED  BY <1>1, <1>8, HeldMoved

\* The name of an export is not the field name of the function, which has another owner.
LEMMA OwnersExportFunction ==
  ASSUME TypeOK, Unique, Covered,
         NEW n \in 1..MaxFunctions, ExportFunction(n), Len(functions[n].names) < MaxNames
  PROVE  Unique' /\ Covered'
<1>1. /\ UNCHANGED <<heap, globals>> /\ held' = <<>> /\ Len(held) = 1
      /\ GetsName(n, held[1])
  BY DEF ExportFunction, NextEntry, InEntry, GetsName
<1>2. held[1] \in Str \cup {Null} /\ 1..Len(held) = {1} /\ n \in 1..Len(functions)
  <2>1. n <= Len(functions)
    BY DEF ExportFunction
  <2> QED  BY <2>1, <1>1, HeldElements DEF TypeOK
<1>3. held[1] \in Str => held[1] # functions[n].field
  <2>1. held[1] \in Str => Has("parser", 1, 1, held[1])
    BY <1>2 DEF Has, HasHeld
  <2>2. held[1] = functions[n].field => Has("field", n, 1, held[1])
    BY <1>2 DEF Has, HasFunction
  <2> QED  BY <2>1, <2>2 DEF Unique
<1>4. PICK q : q = <<"names">>
  OBVIOUS
<1>5. ASSUME NEW s \in Str, NEW p, NEW k, NEW j
      PROVE  Has(p, k, j, s)' <=>
               \/ Has(p, k, j, s) /\ p # "parser"
               \/ /\ k = n /\ j = Len(functions[n].names) + 1
                  /\ \E h \in 1..Len(held) : p = q[h] /\ s = held[h]
  <2>1. HasFunction(p, k, j, s)' <=>
            \/ HasFunction(p, k, j, s)
            \/ p = "names" /\ k = n /\ j = Len(functions[n].names) + 1
               /\ s = held[1] /\ s # functions[n].field
    <3>1. functions \in Seq(Function)
      BY DEF TypeOK
    <3> QED  BY <1>1, <1>2, <3>1, FunctionNamed
  <2>2. ~HasHeld(p, k, j, s)' /\ (HasGlobal(p, k, j, s)' <=> HasGlobal(p, k, j, s))
    BY <1>1, OwnersSame
  <2>3. (\E h \in 1..Len(held) : p = q[h] /\ s = held[h]) <=> p = "names" /\ s = held[1]
    BY <1>2, <1>4
  <2>4. Has(p, k, j, s) /\ p # "parser" <=> HasFunction(p, k, j, s) \/ HasGlobal(p, k, j, s)
    BY Kinds DEF Has
  <2>5. s = held[1] => s # functions[n].field
    BY <1>3
  <2> QED  BY <2>1, <2>2, <2>3, <2>4, <2>5, Zenon DEF Has
<1>6. Handed(q, n, Len(functions[n].names) + 1)
  BY <1>5 DEF Handed
<1> QED  BY <1>1, <1>6, HeldMoved

LEMMA OwnersExportGlobal ==
  ASSUME TypeOK, Unique, Covered, NEW n \in 1..MaxGlobals, ExportGlobal(n)
  PROVE  Unique' /\ Covered'
<1>1. /\ UNCHANGED functions /\ held' = <<>> /\ Len(held) = 1
      /\ heap' = Free({globals[n].name}) /\ RenamedTo(n, held[1])
  BY DEF ExportGlobal, NextEntry, InEntry, RenamedTo
<1>2. held[1] \in Str \cup {Null} /\ 1..Len(held) = {1} /\ n \in 1..Len(globals)
  <2>1. n <= Len(globals)
    BY DEF ExportGlobal
  <2> QED  BY <2>1, <1>1, HeldElements DEF TypeOK
<1>3. ASSUME NEW s \in Str, NEW p, NEW k, NEW j
      PROVE  Has(p, k, j, s)' <=>
               \/ Has(p, k, j, s) /\ p # "parser" /\ ~(p = "global name" /\ k = n)
               \/ p = "global name" /\ k = n /\ j = 1 /\ s = held[1]
  <2>1. HasGlobal(p, k, j, s)' <=>
            IF p = "global name" /\ k = n THEN j = 1 /\ s = held[1] ELSE HasGlobal(p, k, j, s)
    <3>1. globals \in Seq(Global)
      BY DEF TypeOK
    <3> QED  BY <1>1, <1>2, <3>1, GlobalNamed
  <2>2. ~HasHeld(p, k, j, s)' /\ (HasFunction(p, k, j, s)' <=> HasFunction(p, k, j, s))
    BY <1>1, OwnersSame
  <2>3. Has(p, k, j, s) /\ p # "parser" <=> HasFunction(p, k, j, s) \/ HasGlobal(p, k, j, s)
    BY Kinds DEF Has
  <2>4. HasFunction(p, k, j, s) => p # "global name"
    BY Kinds
  <2> QED  BY <2>1, <2>2, <2>3, <2>4 DEF Has
<1> QED  BY <1>1, <1>2, <1>3, GlobalRenamed

LEMMA OwnersNameFunction ==
  ASSUME TypeOK, Unique, Covered, NEW n \in 1..MaxFunctions, NameFunction(n)
  PROVE  Unique' /\ Covered'
<1>1. /\ UNCHANGED globals /\ held' = <<>> /\ Len(held) = 0 /\ n <= Len(functions)
      /\ functions[n].names = <<>>
  BY DEF NameFunction, NextEntry, InEntry
<1>2. n \in 1..Len(functions) /\ functions \in Seq(Function) /\ heap \in [Str -> Text \cup {Null}]
  BY <1>1 DEF TypeOK
<1>3. \A x : Append(functions[n].names, x) = <<x>>
  BY <1>1
<1>4. ASSUME NEW x \in Str \cup {Null}, functions' = [functions EXCEPT ![n].names = <<x>>]
      PROVE  \A s \in Str : \A p, k, j :
               Has(p, k, j, s)' <=>
                 \/ Has(p, k, j, s)
                 \/ /\ p = "names" /\ k = n /\ j = Len(functions[n].names) + 1
                    /\ s = x /\ s # functions[n].field
  <2>1. GetsName(n, x)
    BY <1>3, <1>4, Zenon DEF GetsName
  <2>2. ASSUME NEW s \in Str, NEW p, NEW k, NEW j
        PROVE  Has(p, k, j, s)' <=>
                 \/ Has(p, k, j, s)
                 \/ /\ p = "names" /\ k = n /\ j = Len(functions[n].names) + 1
                    /\ s = x /\ s # functions[n].field
    <3>1. HasFunction(p, k, j, s)' <=>
            \/ HasFunction(p, k, j, s)
            \/ p = "names" /\ k = n /\ j = Len(functions[n].names) + 1
               /\ s = x /\ s # functions[n].field
      BY <1>2, <1>4, <2>1, FunctionNamed
    <3>2. /\ ~HasHeld(p, k, j, s)' /\ ~HasHeld(p, k, j, s)
          /\ HasGlobal(p, k, j, s)' <=> HasGlobal(p, k, j, s)
      BY <1>1, OwnersSame, NoneHeld
    <3> QED  BY <3>1, <3>2, Zenon DEF Has
  <2> QED  BY <2>2
<1>5. CASE \E s \in Str, t \in Text :
             /\ heap[s] = Null /\ heap' = [heap EXCEPT ![s] = t]
             /\ functions' = [functions EXCEPT ![n].names = <<s>>]
  <2>1. PICK s \in Str, t \in Text :
             /\ heap[s] = Null /\ heap' = [heap EXCEPT ![s] = t]
             /\ functions' = [functions EXCEPT ![n].names = <<s>>]
    BY <1>5
  <2>2. s # functions[n].field
    <3>1. s = functions[n].field => Has("field", n, 1, s)
      BY <1>2 DEF Has, HasFunction
    <3> QED  BY <2>1, <3>1 DEF Covered
  <2>3. Made(s, "names", n, Len(functions[n].names) + 1)
    BY <1>4, <2>1, <2>2 DEF Made
  <2> QED  BY <1>2, <2>1, <2>3, NameMade
<1>6. CASE heap' = heap /\ functions' = [functions EXCEPT ![n].names = <<Null>>]
  <2>1. \A s \in Str : \A p, k, j : Has(p, k, j, s)' <=> Has(p, k, j, s)
    BY <1>4, <1>6, ParserAssumption
  <2> QED  BY <1>6, <2>1, OwnersKept
<1> QED  BY <1>5, <1>6 DEF NameFunction

LEMMA OwnersReadName ==
  ASSUME TypeOK, Unique, Covered, ReadName
  PROVE  Unique' /\ Covered'
<1>1. UNCHANGED <<functions, globals>>
  BY DEF ReadName, tables
<1>2. ASSUME NEW x \in Str \cup {Null}, held' = Append(held, x)
      PROVE  \A s \in Str : \A p, k, j :
               Has(p, k, j, s)' <=>
                 Has(p, k, j, s) \/ (p = "parser" /\ k = 1 /\ j = Len(held) + 1 /\ s = x)
  <2>1. ASSUME NEW s \in Str, NEW p, NEW k, NEW j
        PROVE  Has(p, k, j, s)' <=>
                 Has(p, k, j, s) \/ (p = "parser" /\ k = 1 /\ j = Len(held) + 1 /\ s = x)
    <3>1. HasHeld(p, k, j, s)' <=>
             HasHeld(p, k, j, s) \/ (p = "parser" /\ k = 1 /\ j = Len(held) + 1 /\ s = x)
      BY <1>2, NameHeld DEF TypeOK
    <3>2. /\ HasFunction(p, k, j, s)' <=> HasFunction(p, k, j, s)
          /\ HasGlobal(p, k, j, s)' <=> HasGlobal(p, k, j, s)
      BY <1>1, OwnersSame
    <3> QED  BY <3>1, <3>2, Zenon DEF Has
  <2> QED  BY <2>1
<1>3. CASE \E s \in Str, t \in Text :
             heap[s] = Null /\ heap' = [heap EXCEPT ![s] = t] /\ held' = Append(held, s)
  <2>1. PICK s \in Str, t \in Text :
             heap[s] = Null /\ heap' = [heap EXCEPT ![s] = t] /\ held' = Append(held, s)
    BY <1>3
  <2>2. Made(s, "parser", 1, Len(held) + 1)
    BY <1>2, <2>1 DEF Made
  <2> QED  BY <2>1, <2>2, NameMade DEF TypeOK
<1>4. CASE held' = Append(held, Null) /\ heap' = heap
  <2>1. \A s \in Str : \A p, k, j : Has(p, k, j, s)' <=> Has(p, k, j, s)
    BY <1>2, <1>4, ParserAssumption
  <2> QED  BY <1>4, <2>1, OwnersKept
<1> QED  BY <1>3, <1>4 DEF ReadName

\* What is left when the parser lets go of the names.
LEMMA FreedHas ==
  ASSUME UNCHANGED <<functions, globals>>, held' = <<>>, NEW s, NEW p, NEW k, NEW j
  PROVE  Has(p, k, j, s)' <=> Has(p, k, j, s) /\ p # "parser"
<1>1. /\ ~HasHeld(p, k, j, s)'
      /\ HasFunction(p, k, j, s)' <=> HasFunction(p, k, j, s)
      /\ HasGlobal(p, k, j, s)' <=> HasGlobal(p, k, j, s)
  BY OwnersSame
<1>2. Has(p, k, j, s) /\ p # "parser" <=> HasFunction(p, k, j, s) \/ HasGlobal(p, k, j, s)
  BY Kinds DEF Has
<1> QED  BY <1>1, <1>2, Zenon DEF Has

\* The other actions inside a section.
LEMMA OwnersInside ==
  ASSUME TypeOK, Counts, Unique, Covered, Inside
  PROVE  Unique' /\ Covered'
<1>1. ASSUME heap' = heap,
             \A s \in Str : \A p, k, j :
               /\ HasHeld(p, k, j, s)' <=> HasHeld(p, k, j, s)
               /\ HasFunction(p, k, j, s)' <=> HasFunction(p, k, j, s)
               /\ HasGlobal(p, k, j, s)' <=> HasGlobal(p, k, j, s)
      PROVE  Unique' /\ Covered'
  <2>1. \A s \in Str : \A p, k, j : Has(p, k, j, s)' <=> Has(p, k, j, s)
    BY <1>1 DEF Has
  <2> QED  BY <1>1, <2>1, OwnersKept
<1>2. CASE (\E n \in 0..MaxEntries : BeginEntries(n) \/ BeginCustom(n))
           \/ ReadOthers \/ ReadTypes \/ BeginCode \/ \E k \in 1..MaxFunctions : ReadStart(k)
  <2>1. UNCHANGED <<heap, held, functions, globals>>
    BY <1>2 DEF BeginEntries, BeginCustom, ReadOthers, ReadTypes, BeginCode, ReadStart, tables
  <2> QED  BY <1>1, <2>1, OwnersSame
<1>3. CASE NameNothing \/ ReadBody \/ DeclareFunction \/ DeclareGlobal
  <2>1. heap' = heap /\ held' = <<>> /\ Len(held) = 0
    BY <1>3 DEF NameNothing, ReadBody, DeclareFunction, DeclareGlobal, NextEntry, InEntry
  <2>2. \A s \in Str : \A p, k, j : HasHeld(p, k, j, s)' <=> HasHeld(p, k, j, s)
    BY <2>1, OwnersSame, NoneHeld
  <2>3. \A s \in Str : \A p, k, j : HasFunction(p, k, j, s)' <=> HasFunction(p, k, j, s)
    <3>1. CASE ReadBody
      <4>1. PICK body \in BOOLEAN :
              functions' = [functions EXCEPT ![Len(functions) - left + 1].body = body]
        BY <3>1 DEF ReadBody
      <4> QED  BY <3>1, <4>1, BodyIndex, BodyRead DEF TypeOK
    <3>2. CASE DeclareFunction
      BY <3>2, NewOwnsNothing DEF DeclareFunction, AddFunction
    <3>3. CASE NameNothing \/ DeclareGlobal
      BY <3>3, OwnersSame DEF NameNothing, DeclareGlobal, tables
    <3> QED  BY <1>3, <3>1, <3>2, <3>3
  <2>4. \A s \in Str : \A p, k, j : HasGlobal(p, k, j, s)' <=> HasGlobal(p, k, j, s)
    <3>1. CASE DeclareGlobal
      BY <3>1, NewOwnsNothing DEF DeclareGlobal
    <3>2. CASE NameNothing \/ ReadBody \/ DeclareFunction
      BY <3>2, OwnersSame DEF NameNothing, ReadBody, DeclareFunction, tables
    <3> QED  BY <1>3, <3>1, <3>2
  <2> QED  BY <1>1, <2>1, <2>2, <2>3, <2>4
<1>4. ASSUME ImportOther \/ ExportOther
             \/ \E k \in 1..MaxFunctions :
                  ExportFunction(k) /\ ~(Len(functions[k].names) < MaxNames)
      PROVE  Unique' /\ Covered'
  <2>1. UNCHANGED <<functions, globals>> /\ held' = <<>> /\ heap' = Free(Held)
    BY <1>4 DEF ImportOther, ExportOther, ExportFunction, NextEntry, tables
  <2>2. ASSUME NEW s \in Str, NEW p, NEW k, NEW j
        PROVE  Has(p, k, j, s)' <=> Has(p, k, j, s) /\ p # "parser"
    BY <2>1, FreedHas
  <2> QED  BY <2>1, <2>2, HeldFreed
<1>5. CASE \E k \in 1..MaxFunctions : ExportFunction(k)
  BY <1>4, <1>5, OwnersExportFunction
<1>6. CASE \E k \in 1..MaxFunctions : NameFunction(k)
  BY <1>6, OwnersNameFunction
<1>7. CASE \E k \in 1..MaxGlobals : ExportGlobal(k)
  BY <1>7, OwnersExportGlobal
<1> QED
  BY <1>2, <1>3, <1>4, <1>5, <1>6, <1>7, OwnersReadName, OwnersImportFunction,
     OwnersImportGlobal, Zenon DEF Inside

LEMMA OwnersFailing ==
  ASSUME TypeOK, Unique, Covered, Failing
  PROVE  Unique' /\ Covered'
<1>1. held' = <<>> /\ heap' = Free(Held) /\ globals' = globals
  BY FailingLeaves
<1>2. \A s \in Str : \A p, k, j : HasFunction(p, k, j, s)' <=> HasFunction(p, k, j, s)
  <2>1. CASE Throw \/ AddNothing
    BY <2>1, OwnersSame DEF Throw, AddNothing, tables
  <2>2. CASE AddUntyped
    BY <2>2, NewOwnsNothing DEF AddUntyped
  <2> QED  BY <2>1, <2>2 DEF Failing
<1>3. ASSUME NEW s \in Str, NEW p, NEW k, NEW j
      PROVE  Has(p, k, j, s)' <=> Has(p, k, j, s) /\ p # "parser"
  <2>1. /\ ~HasHeld(p, k, j, s)'
        /\ HasFunction(p, k, j, s)' <=> HasFunction(p, k, j, s)
        /\ HasGlobal(p, k, j, s)' <=> HasGlobal(p, k, j, s)
    BY <1>1, <1>2, OwnersSame
  <2>2. Has(p, k, j, s) /\ p # "parser" <=> HasFunction(p, k, j, s) \/ HasGlobal(p, k, j, s)
    BY Kinds DEF Has
  <2> QED  BY <2>1, <2>2, Zenon DEF Has
<1> QED  BY <1>1, <1>3, HeldFreed

LEMMA OwnedIs ==
  \A k, j :
    /\ Owned(<<"parser", k, j>>) = held[j]
    /\ Owned(<<"module", k, j>>) = functions[k].module
    /\ Owned(<<"field", k, j>>) = functions[k].field
    /\ Owned(<<"names", k, j>>) = functions[k].names[j]
    /\ Owned(<<"global module", k, j>>) = globals[k].module
    /\ Owned(<<"global field", k, j>>) = globals[k].field
    /\ Owned(<<"global name", k, j>>) = globals[k].name
  BY DEF Owned

\* What Owners are: those that Has speaks of, and the string that each of them has.
LEMMA OwnersAre ==
  \A o : o \in Owners <=>
           \/ \E k \in 1..Len(held) : o = <<"parser", 1, k>>
           \/ \E k \in 1..Len(functions) : o \in OfFunction(k)
           \/ \E k \in 1..Len(globals) : o \in OfGlobal(k)
<1> DEFINE A == {<<"parser", 1, k>> : k \in 1..Len(held)}
           B == UNION {OfFunction(k) : k \in 1..Len(functions)}
           C == UNION {OfGlobal(k) : k \in 1..Len(globals)}
<1>1. \A o : o \in A <=> \E k \in 1..Len(held) : o = <<"parser", 1, k>>
  OBVIOUS
<1>2. \A o : o \in B <=> \E k \in 1..Len(functions) : o \in OfFunction(k)
  OBVIOUS
<1>3. \A o : o \in C <=> \E k \in 1..Len(globals) : o \in OfGlobal(k)
  OBVIOUS
<1>4. Owners = A \cup B \cup C
  BY Zenon DEF Owners
<1> HIDE DEF A, B, C
<1>5. \A o : o \in Owners <=> o \in A \/ o \in B \/ o \in C
  BY <1>4
<1> QED  BY <1>1, <1>2, <1>3, <1>5, Zenon

LEMMA OfFunctionIs ==
  \A o, k : o \in OfFunction(k) <=>
              \/ o = <<"module", k, 1>> \/ o = <<"field", k, 1>>
              \/ \E j \in 1..Len(functions[k].names) :
                   functions[k].names[j] # functions[k].field /\ o = <<"names", k, j>>
<1> TAKE o, k
<1>1. o \in {<<"names", k, j>> : j \in {j \in 1..Len(functions[k].names) :
                                          functions[k].names[j] # functions[k].field}}
      <=> \E j \in 1..Len(functions[k].names) :
                   functions[k].names[j] # functions[k].field /\ o = <<"names", k, j>>
  OBVIOUS
<1> QED  BY <1>1, Zenon DEF OfFunction

LEMMA OwnersHave ==
  /\ \A o \in Owners : o = <<o[1], o[2], o[3]>> /\ Has(o[1], o[2], o[3], Owned(o))
  /\ \A p, k, j, s : Has(p, k, j, s) => <<p, k, j>> \in Owners /\ Owned(<<p, k, j>>) = s
<1>1. ASSUME NEW o \in Owners
      PROVE  o = <<o[1], o[2], o[3]>> /\ Has(o[1], o[2], o[3], Owned(o))
  <2>1. CASE \E k \in 1..Len(held) : o = <<"parser", 1, k>>
    <3>1. PICK k \in 1..Len(held) : o = <<"parser", 1, k>>
      BY <2>1
    <3>2. Owned(o) = held[k]
      BY <3>1, OwnedIs
    <3>3. Has("parser", 1, k, Owned(o))
      BY <3>2 DEF Has, HasHeld
    <3> QED  BY <3>1, <3>3
  <2>2. CASE \E k \in 1..Len(functions) : o \in OfFunction(k)
    <3>1. PICK k \in 1..Len(functions) : o \in OfFunction(k)
      BY <2>2
    <3>2. CASE o = <<"module", k, 1>>
      <4>1. Has("module", k, 1, Owned(o))
        BY <3>2, OwnedIs DEF Has, HasFunction
      <4> QED  BY <3>2, <4>1
    <3>3. CASE o = <<"field", k, 1>>
      <4>1. Has("field", k, 1, Owned(o))
        BY <3>3, OwnedIs DEF Has, HasFunction
      <4> QED  BY <3>3, <4>1
    <3>4. CASE \E j \in 1..Len(functions[k].names) :
                 functions[k].names[j] # functions[k].field /\ o = <<"names", k, j>>
      <4>1. PICK j \in 1..Len(functions[k].names) :
                 functions[k].names[j] # functions[k].field /\ o = <<"names", k, j>>
        BY <3>4
      <4>2. Owned(o) = functions[k].names[j]
        BY <4>1, OwnedIs
      <4>3. HasFunction("names", k, j, Owned(o))
        BY <4>1, <4>2 DEF HasFunction
      <4> QED  BY <4>1, <4>3 DEF Has
    <3> QED  BY <3>1, <3>2, <3>3, <3>4, OfFunctionIs
  <2>3. CASE \E k \in 1..Len(globals) : o \in OfGlobal(k)
    <3>1. PICK k \in 1..Len(globals) : o \in OfGlobal(k)
      BY <2>3
    <3>2. PICK p \in {"global module", "global field", "global name"} : o = <<p, k, 1>>
      BY <3>1 DEF OfGlobal
    <3>3. k \in 1..Len(globals)
      OBVIOUS
    <3>4. \/ p = "global module" /\ Owned(o) = globals[k].module
          \/ p = "global field" /\ Owned(o) = globals[k].field
          \/ p = "global name" /\ Owned(o) = globals[k].name
      <4>1. CASE p = "global module"
        BY <3>2, <4>1, OwnedIs
      <4>2. CASE p = "global field"
        BY <3>2, <4>2, OwnedIs
      <4>3. CASE p = "global name"
        BY <3>2, <4>3, OwnedIs
      <4> QED  BY <4>1, <4>2, <4>3
    <3>5. HasGlobal(p, k, 1, Owned(o))
      BY <3>3, <3>4 DEF HasGlobal
    <3> QED  BY <3>2, <3>5 DEF Has
  <2> QED  BY <2>1, <2>2, <2>3, OwnersAre
<1>2. ASSUME NEW p, NEW k, NEW j, NEW s, Has(p, k, j, s)
      PROVE  <<p, k, j>> \in Owners /\ Owned(<<p, k, j>>) = s
  <2>1. CASE HasHeld(p, k, j, s)
    <3>1. p = "parser" /\ k = 1 /\ j \in 1..Len(held) /\ s = held[j]
      BY <2>1, Zenon DEF HasHeld
    <3>2. <<"parser", 1, j>> \in Owners
      BY <3>1, OwnersAre
    <3> QED  BY <3>1, <3>2, OwnedIs
  <2>2. CASE HasFunction(p, k, j, s)
    <3>1. k \in 1..Len(functions)
      BY <2>2, Zenon DEF HasFunction
    <3>2. <<p, k, j>> \in OfFunction(k) /\ Owned(<<p, k, j>>) = s
      <4>1. CASE p = "module" /\ j = 1 /\ s = functions[k].module
        BY <4>1, OfFunctionIs, OwnedIs
      <4>2. CASE p = "field" /\ j = 1 /\ s = functions[k].field
        BY <4>2, OfFunctionIs, OwnedIs
      <4>3. CASE /\ p = "names" /\ j \in 1..Len(functions[k].names)
                 /\ s = functions[k].names[j] /\ s # functions[k].field
        BY <4>3, OfFunctionIs, OwnedIs
      <4> QED  BY <2>2, <4>1, <4>2, <4>3, Zenon DEF HasFunction
    <3> QED  BY <3>1, <3>2, OwnersAre
  <2>3. CASE HasGlobal(p, k, j, s)
    <3>1. k \in 1..Len(globals)
      BY <2>3, Zenon DEF HasGlobal
    <3>2. <<p, k, j>> \in OfGlobal(k) /\ Owned(<<p, k, j>>) = s
      <4>1. CASE p = "global module" /\ j = 1 /\ s = globals[k].module
        BY <4>1, OwnedIs DEF OfGlobal
      <4>2. CASE p = "global field" /\ j = 1 /\ s = globals[k].field
        BY <4>2, OwnedIs DEF OfGlobal
      <4>3. CASE p = "global name" /\ j = 1 /\ s = globals[k].name
        BY <4>3, OwnedIs DEF OfGlobal
      <4> QED  BY <2>3, <4>1, <4>2, <4>3, Zenon DEF HasGlobal
    <3> QED  BY <3>1, <3>2, OwnersAre
  <2> QED  BY <1>2, <2>1, <2>2, <2>3 DEF Has
<1> QED  BY <1>1, <1>2

LEMMA HasStrings ==
  ASSUME TypeOK, NEW p, NEW k, NEW j, NEW s, Has(p, k, j, s)
  PROVE  s \in Str \cup {Null}
<1>1. CASE HasHeld(p, k, j, s)
  <2>1. j \in 1..Len(held) /\ s = held[j]
    BY <1>1, Zenon DEF HasHeld
  <2> QED  BY <2>1, ElementOfSeq DEF TypeOK
<1>2. CASE HasFunction(p, k, j, s)
  <2>1. k \in 1..Len(functions)
    BY <1>2, Zenon DEF HasFunction
  <2>2. functions[k] \in Function
    BY <2>1, ElementOfSeq DEF TypeOK
  <2>3. /\ functions[k].module \in Str \cup {Null} /\ functions[k].field \in Str \cup {Null}
        /\ functions[k].names \in Seq(Str \cup {Null})
    BY <2>2 DEF Function
  <2>4. j \in 1..Len(functions[k].names) => functions[k].names[j] \in Str \cup {Null}
    BY <2>3, ElementOfSeq
  <2> QED  BY <1>2, <2>3, <2>4, Zenon DEF HasFunction
<1>3. CASE HasGlobal(p, k, j, s)
  <2>1. k \in 1..Len(globals)
    BY <1>3, Zenon DEF HasGlobal
  <2>2. globals[k] \in Global
    BY <2>1, ElementOfSeq DEF TypeOK
  <2>3. /\ globals[k].module \in Str \cup {Null} /\ globals[k].field \in Str \cup {Null}
        /\ globals[k].name \in Str \cup {Null}
    BY <2>2 DEF Global
  <2> QED  BY <1>3, <2>3, Zenon DEF HasGlobal
<1> QED  BY <1>1, <1>2, <1>3 DEF Has

LEMMA OwnedOnceMeans ==
  ASSUME TypeOK, OwnedOnce
  PROVE  StringsOwned
<1> SUFFICES ASSUME noArray = {}  PROVE
      /\ \A o, p \in Owners : Owned(o) # Null /\ Owned(o) = Owned(p) => o = p
      /\ {Owned(o) : o \in Owners} \ {Null} = {s \in Str : heap[s] # Null}
  BY Zenon DEF StringsOwned
<1>1. Unique /\ Covered
  BY DEF OwnedOnce
<1>2. ASSUME NEW o \in Owners, NEW p \in Owners, Owned(o) # Null, Owned(o) = Owned(p)
      PROVE  o = p
  <2>1. /\ o = <<o[1], o[2], o[3]>> /\ Has(o[1], o[2], o[3], Owned(o))
        /\ p = <<p[1], p[2], p[3]>> /\ Has(p[1], p[2], p[3], Owned(o))
    BY <1>2, OwnersHave
  <2>2. Owned(o) \in Str
    BY <1>2, <2>1, HasStrings
  <2>3. o[1] = p[1] /\ o[2] = p[2] /\ o[3] = p[3]
    BY <1>1, <2>1, <2>2 DEF Unique
  <2> QED  BY <2>1, <2>3
<1>3. ASSUME NEW o \in Owners, Owned(o) # Null
      PROVE  Owned(o) \in Str /\ heap[Owned(o)] # Null
  <2>1. Has(o[1], o[2], o[3], Owned(o))
    BY OwnersHave
  <2>2. Owned(o) \in Str
    BY <1>3, <2>1, HasStrings
  <2> QED  BY <1>1, <2>1, <2>2 DEF Covered
<1>4. ASSUME NEW s \in Str, heap[s] # Null
      PROVE  s # Null /\ \E o \in Owners : s = Owned(o)
  <2>1. PICK p, k, j : Has(p, k, j, s)
    BY <1>1, <1>4 DEF Covered
  <2>2. <<p, k, j>> \in Owners /\ Owned(<<p, k, j>>) = s
    BY <2>1, OwnersHave
  <2> QED  BY <2>2, ParserAssumption
<1> QED  BY <1>2, <1>3, <1>4

\* When the module is freed there is nothing that owns a string, and no string: they were
\* all owned.
LEMMA OwnersFreed ==
  ASSUME TypeOK, HeldInSection, Unique, Covered, FreeModule, noArray = {}
  PROVE  Unique' /\ Covered'
<1>1. /\ heap' = Free({Owned(o) : o \in Owners}) /\ held' = held
      /\ functions' = <<>> /\ globals' = <<>>
  BY DEF FreeModule
<1>2. held = <<>>
  BY DEF FreeModule, HeldInSection
<1>3. \A p, k, j, s : ~Has(p, k, j, s)'
  <2>1. Len(held') = 0 /\ Len(functions') = 0 /\ Len(globals') = 0
    BY <1>1, <1>2
  <2>2. \A k : k \notin 1..0
    OBVIOUS
  <2> QED  BY <2>1, <2>2, Zenon DEF Has, HasHeld, HasFunction, HasGlobal
<1>4. ASSUME NEW s \in Str  PROVE heap'[s] = Null
  <2>1. heap'[s] = IF s \in {Owned(o) : o \in Owners} THEN Null ELSE heap[s]
    BY <1>1 DEF Free
  <2>2. CASE heap[s] # Null
    <3>1. PICK p, k, j : Has(p, k, j, s)
      BY <2>2 DEF Covered
    <3>2. \E o \in Owners : s = Owned(o)
      BY <3>1, OwnersHave
    <3> QED  BY <2>1, <3>2
  <2> QED  BY <2>1, <2>2
<1>5. Covered'
  BY <1>3, <1>4, Zenon DEF Covered
<1>6. Unique'
  BY <1>3, Zenon DEF Unique
<1> QED  BY <1>5, <1>6

LEMMA OwnersStep ==
  ASSUME TypeOK, Ordered, HeldInSection, Shortage, Counts, OwnedOnce, [Next]_vars
  PROVE  OwnedOnce'
<1> SUFFICES ASSUME noArray' = {}  PROVE Unique' /\ Covered'
  BY DEF OwnedOnce
<1>1. ASSUME noArray = {} => Unique /\ Covered, UNCHANGED <<heap, held, functions, globals, noArray>>
      PROVE  Unique' /\ Covered'
  <2>1. \A s \in Str : \A p, k, j : Has(p, k, j, s)' <=> Has(p, k, j, s)
    BY <1>1, OwnersSame DEF Has
  <2> QED  BY <1>1, <2>1, OwnersKept
<1>u. noArray = {} => Unique /\ Covered
  BY DEF OwnedOnce
<1>2. CASE UNCHANGED vars \/ Done
  BY <1>u, <1>1, <1>2 DEF vars, Done, tables
<1>3. CASE \E s \in SectionBytes : ReadSection(s)
  <2>1. UNCHANGED <<heap, functions, globals, noArray>> /\ at = "next"
        /\ (held' = held \/ held' = <<>>)
    BY <1>3 DEF ReadSection, Fails, tables
  <2>2. held = <<>>
    BY <2>1 DEF HeldInSection
  <2> QED  BY <1>u, <1>1, <2>1, <2>2
<1>4. CASE EndSection \/ EndModule \/ CompareNull
  BY <1>u, <1>1, <1>4 DEF EndSection, EndModule, CompareNull, tables
<1>5. CASE Inside
  BY <1>u, <1>5, InsideStays, OwnersInside
<1>6. CASE Failing
  <2>1. noArray = {}
    BY <1>6, FailingLeaves DEF Shortage, Parsing
  <2> QED  BY <1>u, <1>6, <2>1, OwnersFailing
<1>7. CASE FreeModule
  <2>1. noArray = {}
    BY <1>7 DEF FreeModule, tables
  <2> QED  BY <1>u, <1>7, <2>1, OwnersFreed
<1> QED  BY <1>2, <1>3, <1>4, <1>5, <1>6, <1>7, NextIs

------------------------------------------------------------------------------
(* Types *)

LEMMA FreeTyped ==
  ASSUME heap \in [Str -> Text \cup {Null}], NEW F
  PROVE  Free(F) \in [Str -> Text \cup {Null}]
  BY DEF Free

LEMMA PlacesTyped ==
  /\ Unread \in {Unread} \cup Nat /\ 0 \in {Unread} \cup Nat /\ NoSection \in 0..13
  /\ 0 \in 0..13 /\ NoStart \in Int
  BY DEF Unread, NoSection, NoStart

\* What an entry leaves of the control variables.
LEMMA EntryTyped ==
  ASSUME TypeOK, NextEntry, left > 0
  PROVE  /\ left' \in {Unread} \cup Nat /\ held' \in Seq(Str \cup {Null})
         /\ at' = at /\ section' = section /\ expected' = expected
<1>1. left \in Nat
  BY DEF TypeOK, Unread
<1> QED  BY <1>1 DEF NextEntry

\* The names that are held are on the heap.
LEMMA HeldThere ==
  ASSUME TypeOK, Shortage, OwnedOnce, at = "parse"
  PROVE  \A s \in Held \ {Null} : s \in Str /\ heap[s] \in Text
<1> SUFFICES ASSUME NEW s \in Held, s # Null  PROVE s \in Str /\ heap[s] \in Text
  OBVIOUS
<1>1. PICK j \in 1..Len(held) : s = held[j]
  BY DEF Held
<1>2. s \in Str
  BY <1>1, ElementOfSeq DEF TypeOK
<1>3. Covered
  BY DEF OwnedOnce, Shortage
<1>4. Has("parser", 1, j, s)
  BY <1>1 DEF Has, HasHeld
<1> QED  BY <1>2, <1>3, <1>4 DEF Covered, TypeOK

\* The function that is imported: its first name is its field name.
LEMMA ImportedFunction ==
  ASSUME TypeOK, ImportFunction
  PROVE  /\ functions' \in Seq(Function) /\ Len(functions') = Len(functions) + 1
         /\ \A k \in 1..Len(functions) : functions'[k] = functions[k]
         /\ LET f == functions'[Len(functions) + 1]
            IN /\ f.module = held[1] /\ f.field = held[2] /\ f.body = FALSE
               /\ f.names = <<held[2]>>
<1>1. Len(held) = 2
  BY DEF ImportFunction, InEntry
<1>2. held[1] \in Str \cup {Null} /\ held[2] \in Str \cup {Null}
  BY <1>1, HeldElements DEF TypeOK
<1>3. PICK f : f = [NewFunction EXCEPT !.module = held[1], !.field = held[2],
                                       !.names = <<held[2]>>]
  OBVIOUS
<1>4. functions' = Append(functions, f)
  BY <1>3, Zenon DEF ImportFunction, AddFunction
<1>5. f = [module |-> held[1], field |-> held[2], names |-> <<held[2]>>, body |-> FALSE]
  BY <1>3 DEF NewFunction
<1>6. <<held[2]>> \in Seq(Str \cup {Null})
  BY <1>2
<1>7. f \in Function
  BY <1>2, <1>5, <1>6 DEF Function
<1> QED  BY <1>4, <1>5, <1>7, Appended DEF TypeOK

LEMMA TypeInside ==
  ASSUME TypeOK, Counts, Shortage, OwnedOnce, Inside
  PROVE  TypeOK'
<1> USE DEF TypeOK
<1>1. CASE (\E n \in 0..MaxEntries : BeginEntries(n) \/ BeginCustom(n)) \/ ReadOthers
  <2>1. MaxEntries \in Nat
    BY ParserAssumption
  <2>2. /\ left' \in {Unread} \cup Nat
        /\ UNCHANGED <<at, section, expected, held, heap, tables, history, short>>
    BY <1>1, <2>1 DEF BeginEntries, BeginCustom, ReadOthers
  <2> QED  BY <2>2 DEF tables, history
<1>2. CASE ReadTypes
  BY <1>2 DEF ReadTypes, history
<1>3. CASE BeginCode
  <2>1. left' \in Nat
    BY <1>3 DEF BeginCode, In
  <2> QED  BY <1>3, <2>1 DEF BeginCode, tables, history
<1>4. ASSUME NEW k \in 1..MaxFunctions, ReadStart(k)
      PROVE  TypeOK'
  <2>1. startFunction' \in Int /\ left' \in Nat
    BY <1>4 DEF ReadStart
  <2> QED  BY <1>4, <2>1 DEF ReadStart, history
<1>5. CASE ReadName
  <2>1. UNCHANGED <<at, section, expected, left, tables, history>>
        /\ short' \in BOOLEAN /\ held' \in Seq(Str \cup {Null})
        /\ heap' \in [Str -> Text \cup {Null}]
    <3>1. UNCHANGED <<at, section, expected, left, tables, history>>
      BY <1>5 DEF ReadName
    <3>2. CASE \E s \in Str, t \in Text :
                 /\ heap' = [heap EXCEPT ![s] = t] /\ held' = Append(held, s) /\ short' = short
      <4>1. PICK s \in Str, t \in Text :
                 /\ heap' = [heap EXCEPT ![s] = t] /\ held' = Append(held, s) /\ short' = short
        BY <3>2
      <4>2. held' \in Seq(Str \cup {Null})
        BY <4>1, Appended
      <4> QED  BY <3>1, <4>1, <4>2
    <3>3. CASE held' = Append(held, Null) /\ short' = TRUE /\ heap' = heap
      <4>1. held' \in Seq(Str \cup {Null})
        BY <3>3, Appended
      <4> QED  BY <3>1, <3>3, <4>1
    <3> QED  BY <1>5, <3>2, <3>3 DEF ReadName
  <2> QED  BY <2>1 DEF tables, history
<1>6. CASE NameNothing \/ ImportOther \/ ExportOther
  <2>1. UNCHANGED <<tables, history, short>> /\ left > 0 /\ NextEntry
        /\ heap' \in [Str -> Text \cup {Null}]
    BY <1>6, FreeTyped DEF NameNothing, ImportOther, ExportOther, InEntry
  <2> QED  BY <2>1, EntryTyped DEF tables, history
<1>7. CASE ImportFunction
  <2>1. /\ left > 0 /\ NextEntry /\ at = "parse" /\ Len(held) = 2
        /\ UNCHANGED <<heap, hasTypes, globals, startFunction, noArray, history, short>>
        /\ numFuncImports' = numFuncImports + 1
    BY <1>7 DEF ImportFunction, InEntry, In
  <2>2. functions' \in Seq(Function) /\ Len(functions') = Len(functions) + 1
    BY <1>7, ImportedFunction
  <2>3. numFuncImports' \in 0..Len(functions')
    BY <2>1, <2>2
  <2> QED  BY <2>1, <2>2, <2>3, EntryTyped DEF history
<1>8. CASE ImportGlobal \/ DeclareGlobal
  <2>1. /\ left > 0 /\ NextEntry /\ at = "parse"
        /\ UNCHANGED <<heap, hasTypes, functions, numFuncImports, startFunction, noArray,
                       history, short>>
    BY <1>8 DEF ImportGlobal, DeclareGlobal, InEntry, In
  <2>2. globals' \in Seq(Global)
    <3>1. CASE ImportGlobal
      <4>1. Len(held) = 2
        BY <3>1 DEF ImportGlobal, InEntry
      <4>2. held[1] \in Str \cup {Null} /\ held[2] \in Str \cup {Null}
        BY <4>1, HeldElements
      <4>3. [NewGlobal EXCEPT !.module = held[1], !.field = held[2]] \in Global
        BY <4>2 DEF NewGlobal, Global
      <4> QED  BY <3>1, <4>3, Appended DEF ImportGlobal
    <3>2. CASE DeclareGlobal
      BY <3>2, NewOwnsNothing, Appended DEF DeclareGlobal
    <3> QED  BY <1>8, <3>1, <3>2
  <2> QED  BY <2>1, <2>2, EntryTyped DEF history
<1>9. CASE DeclareFunction
  <2>1. /\ left > 0 /\ NextEntry /\ at = "parse" /\ functions' = Append(functions, NewFunction)
        /\ UNCHANGED <<heap, hasTypes, numFuncImports, globals, startFunction, noArray, history,
                       short>>
    BY <1>9 DEF DeclareFunction, AddFunction, InEntry, In
  <2>2. functions' \in Seq(Function) /\ Len(functions') = Len(functions) + 1
    BY <2>1, NewOwnsNothing, Appended
  <2>3. numFuncImports \in 0..Len(functions')
    BY <2>1, <2>2
  <2> QED  BY <2>1, <2>2, <2>3, EntryTyped DEF history
<1>10. CASE ReadBody
  <2>1. /\ left > 0 /\ NextEntry /\ at = "parse"
        /\ UNCHANGED <<heap, hasTypes, numFuncImports, globals, startFunction, noArray, history,
                       short>>
    BY <1>10 DEF ReadBody, InEntry, In
  <2>2. functions' \in Seq(Function) /\ Len(functions') = Len(functions)
    <3>1. PICK body \in BOOLEAN :
            functions' = [functions EXCEPT ![Len(functions) - left + 1].body = body]
      BY <1>10 DEF ReadBody
    <3> QED  BY <1>10, <3>1, BodyIndex, BodyRead
  <2> QED  BY <2>1, <2>2, EntryTyped DEF history
<1>11. ASSUME NEW k \in 1..MaxFunctions, ExportFunction(k)
       PROVE  TypeOK'
  <2>1. /\ left > 0 /\ NextEntry /\ at = "parse" /\ Len(held) = 1 /\ k \in 1..Len(functions)
        /\ UNCHANGED <<hasTypes, numFuncImports, globals, startFunction, noArray, reached,
                       customs, short>>
        /\ exported' = exported \cup {<<heap[s], k>> : s \in Held \ {Null}}
        /\ heap' = heap \/ heap' = Free(Held)
    BY <1>11 DEF ExportFunction, InEntry, In
  <2>2. heap' \in [Str -> Text \cup {Null}]
    BY <2>1, FreeTyped
  <2>3. functions' \in Seq(Function) /\ Len(functions') = Len(functions)
    <3>1. CASE Len(functions[k].names) < MaxNames
      <4>1. GetsName(k, held[1])
        BY <1>11, <3>1 DEF ExportFunction, GetsName
      <4>2. held[1] \in Str \cup {Null}
        BY <2>1, HeldElements
      <4> QED  BY <2>1, <4>1, <4>2, FunctionNamed
    <3>2. CASE ~(Len(functions[k].names) < MaxNames)
      BY <1>11, <3>2 DEF ExportFunction
    <3> QED  BY <3>1, <3>2
  <2>4. \A s \in Held \ {Null} : heap[s] \in Text
    BY <2>1, HeldThere
  <2>5. exported' \subseteq Text \X Nat
    BY <2>1, <2>4
  <2> QED  BY <2>1, <2>2, <2>3, <2>5, EntryTyped
<1>12. ASSUME NEW k \in 1..MaxFunctions, NameFunction(k)
       PROVE  TypeOK'
  <2>1. /\ left > 0 /\ NextEntry /\ at = "parse" /\ k \in 1..Len(functions)
        /\ UNCHANGED <<hasTypes, numFuncImports, globals, startFunction, noArray, history>>
        /\ functions[k].names = <<>>
        /\ heap' \in [Str -> Text \cup {Null}] /\ short' \in BOOLEAN
    <3>1. CASE \E s \in Str, t \in Text : heap' = [heap EXCEPT ![s] = t] /\ short' = short
      BY <1>12, <3>1 DEF NameFunction, InEntry, In
    <3>2. CASE heap' = heap /\ short' = TRUE
      BY <1>12, <3>2 DEF NameFunction, InEntry, In
    <3> QED  BY <1>12, <3>1, <3>2 DEF NameFunction
  <2>2. PICK x \in Str \cup {Null} : functions' = [functions EXCEPT ![k].names = <<x>>]
    BY <1>12 DEF NameFunction
  <2>3. GetsName(k, x)
    <3>1. Append(functions[k].names, x) = <<x>>
      BY <2>1
    <3> QED  BY <2>2, <3>1, Zenon DEF GetsName
  <2>4. functions' \in Seq(Function) /\ Len(functions') = Len(functions)
    BY <2>1, <2>3, FunctionNamed
  <2> QED  BY <2>1, <2>4, EntryTyped DEF history
<1>13. ASSUME NEW k \in 1..MaxGlobals, ExportGlobal(k)
       PROVE  TypeOK'
  <2>1. /\ left > 0 /\ NextEntry /\ at = "parse" /\ Len(held) = 1 /\ k \in 1..Len(globals)
        /\ UNCHANGED <<hasTypes, functions, numFuncImports, startFunction, noArray, history,
                       short>>
        /\ heap' = Free({globals[k].name}) /\ RenamedTo(k, held[1])
    BY <1>13 DEF ExportGlobal, InEntry, In, RenamedTo
  <2>2. held[1] \in Str \cup {Null}
    BY <2>1, HeldElements
  <2>3. globals' \in Seq(Global) /\ heap' \in [Str -> Text \cup {Null}]
    BY <2>1, <2>2, GlobalNamed, FreeTyped
  <2> QED  BY <2>1, <2>3, EntryTyped DEF history
<1> QED
  <2> HIDE DEF TypeOK
  <2> QED  BY <1>1, <1>2, <1>3, <1>4, <1>5, <1>6, <1>7, <1>8, <1>9, <1>10, <1>11, <1>12, <1>13,
              Zenon DEF Inside

LEMMA TypeInit == Init => TypeOK
<1> SUFFICES ASSUME Init  PROVE TypeOK
  OBVIOUS
<1>1. /\ at = "next" /\ section \in 0..13 /\ expected \in 0..13 /\ left \in {Unread} \cup Nat
      /\ held = <<>> /\ functions = <<>> /\ globals = <<>> /\ numFuncImports = 0
      /\ hasTypes = FALSE /\ noArray = {} /\ reached = 0 /\ exported = {} /\ customs = 0
      /\ short = FALSE /\ startFunction \in Int
  BY PlacesTyped DEF Init
<1>2. heap \in [Str -> Text \cup {Null}]
  BY DEF Init
<1>3. customs \in 0..MaxCustom
  BY <1>1, ParserAssumption
<1>4. /\ held \in Seq(Str \cup {Null}) /\ functions \in Seq(Function) /\ globals \in Seq(Global)
      /\ numFuncImports \in 0..Len(functions)
  BY <1>1
<1>5. noArray \subseteq {"functions", "globals"} /\ exported \subseteq Text \X Nat
  BY <1>1, Zenon
<1>6. hasTypes \in BOOLEAN /\ short \in BOOLEAN /\ reached \in 0..13
  BY <1>1, PlacesTyped, Zenon
<1> QED  BY <1>1, <1>2, <1>3, <1>4, <1>5, <1>6, Zenon DEF TypeOK

LEMMA TypeStep ==
  ASSUME TypeOK, HeldInSection, Counts, Shortage, OwnedOnce, [Next]_vars
  PROVE  TypeOK'
<1>1. CASE UNCHANGED vars \/ Done
  BY <1>1 DEF TypeOK, vars, Done, tables, history
<1>2. CASE \E s \in SectionBytes : ReadSection(s)
  <2>1. PICK s \in SectionBytes : ReadSection(s)
    BY <1>2
  <2>2. s \in 0..13 /\ MaxCustom \in Nat
    BY ParserAssumption
  <2>3. CASE /\ s = 0 /\ customs < MaxCustom
             /\ at' = "parse" /\ section' = s /\ customs' = customs + 1
             /\ UNCHANGED <<expected, left, held, reached>>
    <3>1. customs' \in 0..MaxCustom
      BY <2>2, <2>3 DEF TypeOK
    <3> QED  BY <2>1, <2>2, <2>3, <3>1 DEF TypeOK, ReadSection, tables
  <2>4. CASE /\ \E k \in expected + 1..12 : expected' = k /\ reached' = k
             /\ at' = "parse" /\ section' = s
             /\ UNCHANGED <<left, held, customs>>
    <3>1. expected' \in 0..13 /\ reached' \in 0..13
      BY <2>4 DEF TypeOK
    <3> QED  BY <2>1, <2>2, <2>4, <3>1 DEF TypeOK, ReadSection, tables
  <2>5. CASE Fails /\ UNCHANGED <<reached, customs>>
    <3>1. held' \in Seq(Str \cup {Null})
      BY <2>5 DEF Fails
    <3> QED  BY <2>1, <2>5, <3>1, PlacesTyped DEF TypeOK, ReadSection, Fails, tables
  <2> QED  BY <2>1, <2>3, <2>4, <2>5 DEF ReadSection
<1>3. CASE EndSection
  BY <1>3, PlacesTyped DEF EndSection, TypeOK, tables, history
<1>4. CASE EndModule
  BY <1>4, PlacesTyped DEF EndModule, TypeOK, tables, history
<1>5. CASE CompareNull
  BY <1>5 DEF CompareNull, TypeOK, tables, history
<1>6. CASE Failing
  <2>1. /\ at' = "failed" /\ held' \in Seq(Str \cup {Null}) /\ heap' \in [Str -> Text \cup {Null}]
        /\ UNCHANGED <<globals, reached, exported, startFunction>>
    BY <1>6, FailingLeaves, FreeTyped DEF TypeOK
  <2>2. /\ section' \in 0..13 /\ expected' \in 0..13 /\ left' \in {Unread} \cup Nat
        /\ hasTypes' = hasTypes /\ customs' = customs /\ short' \in BOOLEAN
    BY <1>6, PlacesTyped DEF Failing, Throw, AddUntyped, AddNothing, Fails, TypeOK, tables, history
  <2>3. functions' \in Seq(Function) /\ noArray' \subseteq {"functions", "globals"}
    <3>1. CASE Throw \/ AddNothing
      BY <3>1 DEF Throw, AddNothing, TypeOK, tables
    <3>2. CASE AddUntyped
      BY <3>2, NewOwnsNothing, Appended DEF AddUntyped, TypeOK
    <3> QED  BY <1>6, <3>1, <3>2 DEF Failing
  <2> QED  BY <2>1, <2>2, <2>3 DEF TypeOK
<1>7. CASE FreeModule
  <2>1. UNCHANGED <<section, expected, left, held, short>> /\ at' \in {"freed", "crashed"}
    BY <1>7, Zenon DEF FreeModule
  <2>2. CASE noArray = {}
    <3>1. heap' \in [Str -> Text \cup {Null}]
      <4>1. heap' = Free({Owned(o) : o \in Owners})
        BY <1>7, <2>2 DEF FreeModule
      <4> QED  BY <4>1, FreeTyped DEF TypeOK
    <3>2. /\ hasTypes' = FALSE /\ functions' = <<>> /\ globals' = <<>>
          /\ startFunction' = NoStart /\ reached' = 0 /\ exported' = {} /\ customs' = 0
          /\ noArray' = noArray
      BY <1>7, <2>2 DEF FreeModule
    <3>3. functions' \in Seq(Function) /\ globals' \in Seq(Global) /\ customs' \in 0..MaxCustom
      BY <3>2, ParserAssumption
    <3> QED  BY <2>1, <3>1, <3>2, <3>3, PlacesTyped DEF TypeOK
  <2>3. CASE noArray # {}
    <3>1. UNCHANGED <<heap, tables, history>>
      BY <1>7, <2>3 DEF FreeModule
    <3> QED  BY <2>1, <3>1 DEF TypeOK, tables, history
  <2> QED  BY <2>2, <2>3
<1> QED
  BY <1>1, <1>2, <1>3, <1>4, <1>5, <1>6, <1>7, NextIs, TypeInside

------------------------------------------------------------------------------
(* Counts *)

------------------------------------------------------------------------------
(* Counts *)

\* Most actions leave the functions as they are, but for their names.
SameFunctions ==
  /\ Len(functions') = Len(functions) /\ numFuncImports' = numFuncImports
  /\ \A k \in 1..Len(functions) :
       /\ functions'[k].module = functions[k].module
       /\ functions'[k].field = functions[k].field
       /\ functions'[k].body = functions[k].body

\* A function gets a name, of which there is still room for one.
Naming(n, x) ==
  /\ n \in 1..Len(functions) /\ x \in Str \cup {Null} /\ GetsName(n, x)
  /\ Len(functions[n].names) < MaxNames

LEMMA NamesGiven ==
  ASSUME TypeOK, NEW k \in 1..MaxFunctions
  PROVE  /\ ExportFunction(k) /\ Len(functions[k].names) < MaxNames =>
              Naming(k, held[1]) /\ heap' = heap
         /\ NameFunction(k) =>
              /\ functions[k].names = <<>>
              /\ \/ \E s \in Str, t \in Text :
                      heap[s] = Null /\ heap' = [heap EXCEPT ![s] = t] /\ Naming(k, s)
                 \/ short' /\ heap' = heap /\ Naming(k, Null)
<1>1. ASSUME ExportFunction(k), Len(functions[k].names) < MaxNames
      PROVE  Naming(k, held[1]) /\ heap' = heap
  <2>1. Len(held) = 1 /\ k <= Len(functions) /\ heap' = heap /\ GetsName(k, held[1])
    BY <1>1 DEF ExportFunction, InEntry, GetsName
  <2>2. held[1] \in Str \cup {Null} /\ k \in 1..Len(functions)
    BY <2>1, HeldElements DEF TypeOK
  <2> QED  BY <1>1, <2>1, <2>2 DEF Naming
<1>2. ASSUME NameFunction(k)
      PROVE  /\ functions[k].names = <<>>
             /\ \/ \E s \in Str, t \in Text :
                     heap[s] = Null /\ heap' = [heap EXCEPT ![s] = t] /\ Naming(k, s)
                \/ short' /\ heap' = heap /\ Naming(k, Null)
  <2>1. functions[k].names = <<>> /\ k \in 1..Len(functions) /\ Len(functions[k].names) < MaxNames
    <3>1. functions[k].names = <<>> /\ k <= Len(functions) /\ MaxNames \in Nat /\ MaxNames # 0
      BY <1>2, ParserAssumption DEF NameFunction
    <3> QED  BY <3>1 DEF TypeOK
  <2>2. \A x : Append(functions[k].names, x) = <<x>>
    BY <2>1
  <2>3. ASSUME NEW x, functions' = [functions EXCEPT ![k].names = <<x>>]
        PROVE  GetsName(k, x)
    BY <2>2, <2>3, Zenon DEF GetsName
  <2>4. CASE \E s \in Str, t \in Text :
               /\ heap[s] = Null /\ heap' = [heap EXCEPT ![s] = t]
               /\ functions' = [functions EXCEPT ![k].names = <<s>>]
    <3>1. PICK s \in Str, t \in Text :
               /\ heap[s] = Null /\ heap' = [heap EXCEPT ![s] = t]
               /\ functions' = [functions EXCEPT ![k].names = <<s>>]
      BY <2>4
    <3>2. Naming(k, s)
      BY <2>1, <2>3, <3>1 DEF Naming
    <3> QED  BY <2>1, <3>1, <3>2, Zenon
  <2>5. CASE heap' = heap /\ short' = TRUE /\ functions' = [functions EXCEPT ![k].names = <<Null>>]
    <3>1. Naming(k, Null)
      BY <2>1, <2>3, <2>5 DEF Naming
    <3> QED  BY <2>1, <2>5, <3>1
  <2> QED  BY <1>2, <2>4, <2>5 DEF NameFunction
<1> QED  BY <1>1, <1>2

LEMMA NamingRows ==
  ASSUME TypeOK, NEW n, NEW x, Naming(n, x)
  PROVE  /\ Len(functions') = Len(functions)
         /\ \A k \in 1..Len(functions) :
              /\ functions'[k].module = functions[k].module
              /\ functions'[k].field = functions[k].field
              /\ functions'[k].body = functions[k].body
              /\ k # n => functions'[k].names = functions[k].names
         /\ Len(functions'[n].names) = Len(functions[n].names) + 1
         /\ \A j \in 1..Len(functions[n].names) : functions'[n].names[j] = functions[n].names[j]
         /\ functions'[n].names[Len(functions[n].names) + 1] = x
  BY FunctionNamed DEF TypeOK, Naming

LEMMA InsideSame ==
  ASSUME TypeOK, Inside, ~ImportFunction, ~DeclareFunction, ~ReadBody
  PROVE  SameFunctions
<1>1. CASE UNCHANGED <<functions, numFuncImports>>
  BY <1>1 DEF SameFunctions
<1>2. ASSUME NEW k \in 1..MaxFunctions, ExportFunction(k) \/ NameFunction(k)
      PROVE  SameFunctions
  <2>1. numFuncImports' = numFuncImports
    BY <1>2 DEF ExportFunction, NameFunction
  <2>2. CASE functions' = functions
    BY <1>1, <2>1, <2>2
  <2>3. CASE functions' # functions
    <3>1. PICK x : Naming(k, x)
      <4>1. CASE ExportFunction(k)
        <5>1. Len(functions[k].names) < MaxNames
          BY <2>3, <4>1 DEF ExportFunction
        <5> QED  BY <4>1, <5>1, NamesGiven
      <4>2. CASE NameFunction(k)
        BY <4>2, NamesGiven
      <4> QED  BY <1>2, <4>1, <4>2
    <3> QED  BY <2>1, <3>1, NamingRows DEF SameFunctions
  <2> QED  BY <2>2, <2>3
<1>3. (\E n \in 0..MaxEntries : BeginEntries(n) \/ BeginCustom(n))
      \/ ReadOthers \/ ReadTypes \/ ReadName \/ ImportOther \/ ExportOther \/ BeginCode
      \/ NameNothing => UNCHANGED <<functions, numFuncImports>>
  BY DEF BeginEntries, BeginCustom, ReadOthers, ReadTypes, ReadName, ImportOther, ExportOther,
         BeginCode, NameNothing, tables
<1>4. ImportGlobal \/ DeclareGlobal \/ (\E k \in 1..MaxFunctions : ReadStart(k))
      \/ (\E k \in 1..MaxGlobals : ExportGlobal(k)) => UNCHANGED <<functions, numFuncImports>>
  BY DEF ImportGlobal, DeclareGlobal, ReadStart, ExportGlobal
<1> QED  BY <1>1, <1>2, <1>3, <1>4, Zenon DEF Inside

LEMMA DeclaredFunction ==
  ASSUME TypeOK, DeclareFunction
  PROVE  /\ Len(functions') = Len(functions) + 1
         /\ \A k \in 1..Len(functions) : functions'[k] = functions[k]
         /\ functions'[Len(functions) + 1] = NewFunction
         /\ UNCHANGED <<numFuncImports, startFunction, heap, exported, short>>
  BY NewOwnsNothing, Appended DEF DeclareFunction, AddFunction, TypeOK, history

\* The functions a section may have: in the import section they are all imported, and in the
\* function section no others come.
LEMMA WhereInOrder ==
  ASSUME TypeOK, Ordered, at = "parse"
  PROVE  /\ section = 2 => reached = 2
         /\ section = 3 => reached = 3
<1>1. section # 0 => expected \in 1..12 /\ SectionsOrder[expected] = section /\ expected = reached
  BY DEF Ordered, Parsing
<1>2. SectionsOrder[2] = 2 /\ SectionsOrder[3] = 3
  BY DEF SectionsOrder
<1> QED  BY <1>1, <1>2, Places

LEMMA CountsInside ==
  ASSUME TypeOK, Ordered, Counts, Inside
  PROVE  Counts'
<1>1. /\ at = "parse" /\ at' = "parse" /\ section' = section /\ reached' = reached
      /\ numFuncImports \in 0..Len(functions) /\ Len(functions) \in Nat
      /\ reached <= 2 => numFuncImports = Len(functions)
      /\ section = 10 /\ left # Unread => left <= Len(functions) - numFuncImports
  BY InsideStays DEF Counts, Alive, Parsing, In, TypeOK
<1>2. CASE ImportFunction
  <2>1. section = 2 /\ Len(functions') = Len(functions) + 1 /\ numFuncImports' = numFuncImports + 1
    BY <1>2, ImportedFunction DEF ImportFunction, InEntry, In
  <2>2. reached = 2
    BY <1>1, <2>1, WhereInOrder
  <2> QED  BY <1>1, <2>1, <2>2 DEF Counts, In
<1>3. CASE DeclareFunction
  <2>1. section = 3 /\ Len(functions') = Len(functions) + 1 /\ numFuncImports' = numFuncImports
    BY <1>3, DeclaredFunction DEF DeclareFunction, InEntry, In
  <2>2. reached = 3
    BY <1>1, <2>1, WhereInOrder
  <2> QED  BY <1>1, <2>1, <2>2 DEF Counts, In
<1>4. CASE ReadBody
  <2>1. /\ section = 10 /\ left > 0 /\ left' = left - 1 /\ numFuncImports' = numFuncImports
        /\ left \in Int
    BY <1>4 DEF ReadBody, InEntry, In, NextEntry, TypeOK, Unread
  <2>2. Len(functions') = Len(functions)
    <3>1. PICK body \in BOOLEAN :
            functions' = [functions EXCEPT ![Len(functions) - left + 1].body = body]
      BY <1>4 DEF ReadBody
    <3> QED  BY <1>4, <3>1, BodyIndex, BodyRead DEF TypeOK
  <2>3. left # Unread
    BY <2>1 DEF Unread
  <2> QED  BY <1>1, <2>1, <2>2, <2>3 DEF Counts, In
<1>5. CASE ~ImportFunction /\ ~DeclareFunction /\ ~ReadBody
  <2>1. Len(functions') = Len(functions) /\ numFuncImports' = numFuncImports
    BY <1>5, InsideSame DEF SameFunctions
  <2>2. section = 10 => left' = Len(functions) - numFuncImports
    <3>1. ASSUME section = 10  PROVE BeginCode
      BY <1>5, <3>1 DEF Inside, BeginEntries, BeginCustom, ReadOthers, ReadTypes, ReadName,
           ImportGlobal, ImportOther, DeclareGlobal, ExportOther, NameNothing, ExportFunction,
           ReadStart, NameFunction, ExportGlobal, InEntry, In
    <3> QED  BY <3>1 DEF BeginCode
  <2> QED  BY <1>1, <2>1, <2>2 DEF Counts, In
<1> QED  BY <1>2, <1>3, <1>4, <1>5

LEMMA CountsStep ==
  ASSUME TypeOK, Ordered, Counts, [Next]_vars
  PROVE  Counts'
<1>1. CASE UNCHANGED vars \/ Done
  BY <1>1 DEF Counts, Alive, Parsing, In, vars, Done, tables, history
<1>2. CASE \E s \in SectionBytes : ReadSection(s)
  <2>1. PICK s \in SectionBytes : ReadSection(s)
    BY <1>2
  <2>2. /\ UNCHANGED <<functions, numFuncImports>> /\ at = "next" /\ left = Unread
        /\ expected = reached
    BY <2>1 DEF ReadSection, Ordered, Parsing, tables
  <2>3. CASE at' = "parse" /\ left' = left /\ reached' = reached
    BY <2>2, <2>3 DEF Counts, Alive, Parsing, In
  <2>4. CASE at' = "parse" /\ left' = left /\ \E k \in expected + 1..12 : reached' = k
    <3>1. reached' > reached /\ reached' \in Int
      BY <2>2, <2>4 DEF TypeOK
    <3> QED  BY <2>2, <2>4, <3>1 DEF Counts, Alive, Parsing, In, TypeOK
  <2>5. CASE at' = "failed"
    BY <2>5 DEF Counts, Alive
  <2> QED  BY <2>1, <2>3, <2>4, <2>5 DEF ReadSection, Fails
<1>3. CASE EndSection \/ EndModule
  BY <1>3 DEF EndSection, EndModule, Counts, Alive, Parsing, In, tables, history
<1>4. CASE Failing \/ CompareNull \/ FreeModule
  <2>1. at' \in {"failed", "crashed", "freed"}
    BY <1>4, FailingLeaves DEF CompareNull, FreeModule
  <2> QED  BY <2>1 DEF Counts, Alive
<1> QED  BY <1>1, <1>2, <1>3, <1>4, CountsInside, NextIs

LEMMA BodiesInside ==
  ASSUME TypeOK, Ordered, Shortage, Counts, Bodies, Inside
  PROVE  Bodies'
<1>1. /\ at = "parse" /\ numFuncImports \in 0..Len(functions) /\ Len(functions) \in Nat
      /\ short => short'
      /\ \A k \in 1..Len(functions) :
           /\ functions[k].body => k > numFuncImports
           /\ ~short => (IsImported(k) <=> k <= numFuncImports)
  BY InsideStays, InsideHeld DEF Counts, Bodies, Alive, TypeOK
<1>2. CASE ImportFunction
  <2>1. /\ section = 2 /\ Len(functions') = Len(functions) + 1 /\ Len(held) = 2
        /\ numFuncImports' = numFuncImports + 1 /\ short' = short
        /\ \A k \in 1..Len(functions) : functions'[k] = functions[k]
        /\ functions'[Len(functions) + 1].body = FALSE
        /\ functions'[Len(functions) + 1].module = held[1]
    BY <1>2, ImportedFunction DEF ImportFunction, InEntry, In
  <2>2. numFuncImports = Len(functions)
    BY <1>1, <2>1, WhereInOrder DEF Counts, Alive, Parsing
  <2>3. ~short => held[1] # Null
    BY <2>1 DEF Shortage, Held
  <2>4. ASSUME NEW k \in 1..Len(functions')
        PROVE  /\ functions'[k].body => k > numFuncImports'
               /\ ~short' => (IsImported(k)' <=> k <= numFuncImports')
    <3>1. CASE k = Len(functions) + 1
      BY <1>1, <2>1, <2>2, <2>3, <3>1 DEF IsImported
    <3>2. CASE k # Len(functions) + 1
      <4>1. k \in 1..Len(functions) /\ functions'[k] = functions[k]
        BY <1>1, <2>1, <3>2
      <4> QED  BY <1>1, <2>1, <2>2, <4>1 DEF IsImported
    <3> QED  BY <3>1, <3>2
  <2> QED  BY <2>4 DEF Bodies
<1>3. CASE DeclareFunction
  <2>1. ASSUME NEW k \in 1..Len(functions')
        PROVE  /\ functions'[k].body => k > numFuncImports'
               /\ ~short' => (IsImported(k)' <=> k <= numFuncImports')
    <3>1. CASE k = Len(functions) + 1
      <4>1. functions'[k].body = FALSE /\ functions'[k].module = Null /\ functions'[k].field = Null
        BY <1>3, <3>1, DeclaredFunction DEF NewFunction
      <4> QED  BY <1>1, <1>3, <3>1, <4>1, DeclaredFunction DEF IsImported
    <3>2. CASE k # Len(functions) + 1
      <4>1. k \in 1..Len(functions) /\ functions'[k] = functions[k] /\ short' = short
            /\ numFuncImports' = numFuncImports
        BY <1>1, <1>3, <3>2, DeclaredFunction
      <4> QED  BY <1>1, <4>1 DEF IsImported
    <3> QED  BY <3>1, <3>2
  <2> QED  BY <2>1 DEF Bodies
<1>4. CASE ReadBody
  <2>1. numFuncImports' = numFuncImports /\ short' = short
    BY <1>4 DEF ReadBody
  <2>2. PICK body \in BOOLEAN :
          functions' = [functions EXCEPT ![Len(functions) - left + 1].body = body]
    BY <1>4 DEF ReadBody
  <2>3. PICK n : n = Len(functions) - left + 1
    OBVIOUS
  <2>4. n \in 1..Len(functions) /\ n > numFuncImports
    BY <1>4, <2>3, BodyIndex
  <2>5. /\ Len(functions') = Len(functions)
        /\ \A k \in 1..Len(functions) :
              /\ functions'[k].module = functions[k].module
              /\ functions'[k].field = functions[k].field
              /\ k # n => functions'[k].body = functions[k].body
    <3>1. functions' = [functions EXCEPT ![n].body = body]
      BY <2>2, <2>3
    <3> QED  BY <2>4, <3>1, BodyRead DEF TypeOK
  <2> QED  BY <1>1, <2>1, <2>4, <2>5 DEF Bodies, IsImported
<1>5. CASE ~ImportFunction /\ ~DeclareFunction /\ ~ReadBody
  BY <1>1, <1>5, InsideSame DEF SameFunctions, Bodies, IsImported
<1> QED  BY <1>2, <1>3, <1>4, <1>5

LEMMA InsideGrows ==
  ASSUME TypeOK, Counts, Inside
  PROVE  /\ Len(functions') >= Len(functions)
         /\ startFunction' = startFunction \/ startFunction' \in 0..Len(functions) - 1
<1>1. Len(functions') >= Len(functions)
  <2>0. Len(functions) \in Nat
    BY DEF TypeOK
  <2>1. CASE ImportFunction
    <3>1. Len(functions') = Len(functions) + 1
      BY <2>1, ImportedFunction
    <3> QED  BY <2>0, <3>1
  <2>2. CASE DeclareFunction
    BY <2>2, DeclaredFunction DEF TypeOK
  <2>3. CASE ReadBody
    <3>1. PICK body \in BOOLEAN :
            functions' = [functions EXCEPT ![Len(functions) - left + 1].body = body]
      BY <2>3 DEF ReadBody
    <3> QED  BY <2>3, <3>1, BodyIndex, BodyRead DEF TypeOK
  <2>4. CASE ~ImportFunction /\ ~DeclareFunction /\ ~ReadBody
    BY <2>4, InsideSame DEF SameFunctions, TypeOK
  <2> QED  BY <2>1, <2>2, <2>3, <2>4
<1>2. ASSUME NEW k \in 1..MaxFunctions, ReadStart(k)
      PROVE  startFunction' \in 0..Len(functions) - 1
  <2>1. k <= Len(functions) /\ startFunction' = k - 1 /\ Len(functions) \in Nat
    BY <1>2 DEF ReadStart, TypeOK
  <2> QED  BY <2>1
<1>3. (\E n \in 0..MaxEntries : BeginEntries(n) \/ BeginCustom(n))
      \/ ReadOthers \/ ReadTypes \/ ReadName \/ ImportOther \/ ExportOther \/ BeginCode
      \/ NameNothing \/ ImportGlobal \/ DeclareGlobal \/ ImportFunction \/ DeclareFunction
      \/ ReadBody => startFunction' = startFunction
  BY DEF BeginEntries, BeginCustom, ReadOthers, ReadTypes, ReadName, ImportOther, ExportOther,
         BeginCode, NameNothing, ImportGlobal, DeclareGlobal, ImportFunction, DeclareFunction,
         ReadBody, tables
<1>4. (\E k \in 1..MaxFunctions : ExportFunction(k) \/ NameFunction(k))
      \/ (\E k \in 1..MaxGlobals : ExportGlobal(k)) => startFunction' = startFunction
  BY DEF ExportFunction, NameFunction, ExportGlobal
<1> QED  BY <1>1, <1>2, <1>3, <1>4, Zenon DEF Inside

LEMMA BodiesStep ==
  ASSUME TypeOK, TypeOK', Ordered, Shortage, Counts, Bodies, Start, [Next]_vars
  PROVE  Bodies' /\ Start'
<1>t. Len(functions') \in Nat
  BY DEF TypeOK
<1>1. ASSUME UNCHANGED <<functions, numFuncImports, startFunction, short>>, Alive' => Alive
      PROVE  Bodies' /\ Start'
  BY <1>1 DEF Bodies, Start, IsImported
<1>2. CASE UNCHANGED vars \/ Done
  BY <1>1, <1>2 DEF vars, Done, Alive, tables
<1>3. CASE \E s \in SectionBytes : ReadSection(s)
  BY <1>1, <1>3 DEF ReadSection, Alive, tables
<1>4. CASE EndSection \/ EndModule
  BY <1>1, <1>4 DEF EndSection, EndModule, Alive, tables
<1>5. CASE Failing \/ CompareNull \/ FreeModule
  <2>1. at' \in {"failed", "crashed", "freed"}
    BY <1>5, FailingLeaves DEF CompareNull, FreeModule
  <2> QED  BY <2>1 DEF Bodies, Start, Alive
<1>6. CASE Inside
  <2>1. Alive /\ Len(functions) \in Nat /\ Len(functions') \in Nat
        /\ Len(functions') >= Len(functions)
    BY <1>6, <1>t, InsideStays, InsideGrows DEF Alive, TypeOK
  <2>2. \A l \in 0..Len(functions) - 1 : l \in 0..Len(functions') - 1
    BY <2>1
  <2> QED  BY <1>6, <2>1, <2>2, BodiesInside, InsideGrows DEF Start
<1> QED  BY <1>2, <1>3, <1>4, <1>5, <1>6, NextIs

\* The counts that the code section and the start section are compared with are those of
\* the functions.
LEMMA CountsMean ==
  ASSUME Bodies, Start
  PROVE  ImportsFirst
  BY DEF Bodies, Start, ImportsFirst, Alive

------------------------------------------------------------------------------
(* Names of functions *)

LEMMA InsideNames ==
  ASSUME TypeOK, Counts, Inside, ~ImportFunction, ~DeclareFunction
  PROVE  \/ /\ Len(functions') = Len(functions)
            /\ \A k \in 1..Len(functions) : functions'[k].names = functions[k].names
         \/ \E k \in 1..MaxFunctions : \E x :
              /\ (ExportFunction(k) /\ x = held[1]) \/ NameFunction(k)
              /\ Naming(k, x)
<1>1. CASE functions' = functions
  BY <1>1
<1>2. CASE ReadBody
  <2>1. PICK body \in BOOLEAN :
          functions' = [functions EXCEPT ![Len(functions) - left + 1].body = body]
    BY <1>2 DEF ReadBody
  <2> QED  BY <1>2, <2>1, BodyIndex, BodyRead DEF TypeOK
<1>3. ASSUME NEW k \in 1..MaxFunctions, ExportFunction(k), functions' # functions
      PROVE  Naming(k, held[1])
  <2>1. Len(functions[k].names) < MaxNames
    BY <1>3 DEF ExportFunction
  <2> QED  BY <1>3, <2>1, NamesGiven
<1>4. ASSUME NEW k \in 1..MaxFunctions, NameFunction(k)
      PROVE  \E x : Naming(k, x)
  BY <1>4, NamesGiven
<1>5. (\E n \in 0..MaxEntries : BeginEntries(n) \/ BeginCustom(n))
      \/ ReadOthers \/ ReadTypes \/ ReadName \/ ImportOther \/ ExportOther \/ BeginCode
      \/ NameNothing => functions' = functions
  BY DEF BeginEntries, BeginCustom, ReadOthers, ReadTypes, ReadName, ImportOther, ExportOther,
         BeginCode, NameNothing, tables
<1>6. ImportGlobal \/ DeclareGlobal \/ (\E k \in 1..MaxFunctions : ReadStart(k))
      \/ (\E k \in 1..MaxGlobals : ExportGlobal(k)) => functions' = functions
  BY DEF ImportGlobal, DeclareGlobal, ReadStart, ExportGlobal
<1>7. CASE \E k \in 1..MaxFunctions : ExportFunction(k) \/ NameFunction(k)
  BY <1>1, <1>3, <1>4, <1>7
<1> QED  BY <1>1, <1>2, <1>5, <1>6, <1>7, Zenon DEF Inside

\* What a function has it keeps while the sections are parsed.
Longer ==
  \A k \in 1..Len(functions) :
    /\ k \in 1..Len(functions')
    /\ functions'[k].module = functions[k].module /\ functions'[k].field = functions[k].field
    /\ Len(functions'[k].names) >= Len(functions[k].names)
    /\ \A j \in 1..Len(functions[k].names) :
         j \in 1..Len(functions'[k].names) /\ functions'[k].names[j] = functions[k].names[j]

LEMMA NamesTyped ==
  ASSUME TypeOK
  PROVE  /\ Len(functions) \in Nat
         /\ \A k \in 1..Len(functions) :
              /\ functions[k].names \in Seq(Str \cup {Null}) /\ Len(functions[k].names) \in Nat
              /\ \A j \in 1..Len(functions[k].names) : functions[k].names[j] \in Str \cup {Null}
<1>1. Len(functions) \in Nat
  BY DEF TypeOK
<1>2. ASSUME NEW k \in 1..Len(functions)
      PROVE  functions[k].names \in Seq(Str \cup {Null})
  <2>1. functions[k] \in Function
    BY ElementOfSeq DEF TypeOK
  <2> QED  BY <2>1 DEF Function
<1> QED  BY <1>1, <1>2, ElementOfSeq

LEMMA NamesInside ==
  ASSUME TypeOK, Counts, NamesFew, Inside
  PROVE  NamesFew' /\ Longer
<1>n. MaxNames \in Nat /\ MaxNames >= 1
  BY ParserAssumption
<1>a. ASSUME Len(functions') = Len(functions) + 1, NEW x,
             \A k \in 1..Len(functions) : functions'[k] = functions[k],
             Len(functions'[Len(functions) + 1].names) <= MaxNames
      PROVE  NamesFew' /\ Longer
  <2>1. \A k \in 1..Len(functions') : k \in 1..Len(functions) \/ k = Len(functions) + 1
    BY <1>a, NamesTyped
  <2>2. NamesFew'
    BY <1>a, <2>1 DEF NamesFew
  <2>3. Longer
    BY <1>a, NamesTyped DEF Longer
  <2> QED  BY <2>2, <2>3
<1>1. CASE ImportFunction
  <2>1. Len(functions'[Len(functions) + 1].names) <= MaxNames
    <3>1. functions'[Len(functions) + 1].names = <<held[2]>>
      BY <1>1, ImportedFunction
    <3> QED  BY <3>1, <1>n
  <2> QED  BY <1>1, <1>a, <2>1, ImportedFunction
<1>2. CASE DeclareFunction
  <2>1. Len(functions'[Len(functions) + 1].names) <= MaxNames
    <3>1. functions'[Len(functions) + 1].names = <<>>
      BY <1>2, DeclaredFunction DEF NewFunction
    <3> QED  BY <3>1, <1>n
  <2> QED  BY <1>2, <1>a, <2>1, DeclaredFunction
<1>3. CASE ~ImportFunction /\ ~DeclareFunction
  <2>1. \/ /\ Len(functions') = Len(functions)
           /\ \A k \in 1..Len(functions) : functions'[k].names = functions[k].names
        \/ \E k : \E x : Naming(k, x)
    BY <1>3, InsideNames
  <2>2. CASE /\ Len(functions') = Len(functions)
             /\ \A k \in 1..Len(functions) : functions'[k].names = functions[k].names
    <3>1. \A k \in 1..Len(functions) : functions'[k].module = functions[k].module
                                       /\ functions'[k].field = functions[k].field
      <4>1. CASE ReadBody
        <5>1. PICK body \in BOOLEAN :
                functions' = [functions EXCEPT ![Len(functions) - left + 1].body = body]
          BY <4>1 DEF ReadBody
        <5> QED  BY <4>1, <5>1, BodyIndex, BodyRead DEF TypeOK
      <4>2. CASE ~ReadBody
        BY <1>3, <4>2, InsideSame DEF SameFunctions
      <4> QED  BY <4>1, <4>2
    <3>2. NamesFew'
      BY <2>2 DEF NamesFew
    <3>3. Longer
      BY <2>2, <3>1, NamesTyped DEF Longer
    <3> QED  BY <3>2, <3>3
  <2>3. ASSUME NEW n, NEW x, Naming(n, x)
        PROVE  NamesFew' /\ Longer
    <3>1. n \in 1..Len(functions) /\ Len(functions[n].names) < MaxNames
      BY <2>3 DEF Naming
    <3>2. /\ Len(functions') = Len(functions)
          /\ \A k \in 1..Len(functions) :
               /\ functions'[k].module = functions[k].module
               /\ functions'[k].field = functions[k].field
               /\ k # n => functions'[k].names = functions[k].names
          /\ Len(functions'[n].names) = Len(functions[n].names) + 1
          /\ \A j \in 1..Len(functions[n].names) : functions'[n].names[j] = functions[n].names[j]
      BY <2>3, NamingRows
    <3>3. Len(functions'[n].names) <= MaxNames
      BY <1>n, <3>1, <3>2, NamesTyped
    <3>4. NamesFew'
      BY <3>2, <3>3 DEF NamesFew
    <3>5. Len(functions'[n].names) >= Len(functions[n].names)
          /\ \A j \in 1..Len(functions[n].names) : j \in 1..Len(functions'[n].names)
      BY <3>1, <3>2, NamesTyped
    <3>6. Longer
      <4> SUFFICES ASSUME NEW k \in 1..Len(functions)
                   PROVE  /\ Len(functions'[k].names) >= Len(functions[k].names)
                          /\ \A j \in 1..Len(functions[k].names) :
                               /\ j \in 1..Len(functions'[k].names)
                               /\ functions'[k].names[j] = functions[k].names[j]
        BY <3>2 DEF Longer
      <4>1. CASE k = n
        BY <3>2, <3>5, <4>1
      <4>2. CASE k # n
        <5>1. functions'[k].names = functions[k].names /\ Len(functions[k].names) \in Nat
          BY <3>2, <4>2, NamesTyped
        <5> QED  BY <5>1
      <4> QED  BY <4>1, <4>2
    <3> QED  BY <3>4, <3>6
  <2> QED  BY <2>1, <2>2, <2>3
<1> QED  BY <1>1, <1>2, <1>3

LEMMA NamesStep ==
  ASSUME TypeOK, Counts, NamesFew, [Next]_vars
  PROVE  NamesFew'
<1>1. ASSUME functions' = functions \/ functions' = <<>>
      PROVE  NamesFew'
  <2>1. CASE functions' = functions
    BY <2>1 DEF NamesFew
  <2>2. CASE functions' = <<>>
    <3>1. 1..Len(functions') = {}
      BY <2>2
    <3> QED  BY <3>1 DEF NamesFew
  <2> QED  BY <1>1, <2>1, <2>2
<1>2. CASE UNCHANGED vars \/ Done
  BY <1>1, <1>2 DEF vars, Done, tables
<1>3. CASE \E s \in SectionBytes : ReadSection(s)
  BY <1>1, <1>3 DEF ReadSection, tables
<1>4. CASE EndSection \/ EndModule \/ CompareNull \/ Throw \/ AddNothing
  BY <1>1, <1>4 DEF EndSection, EndModule, CompareNull, Throw, AddNothing, tables
<1>5. CASE FreeModule
  BY <1>1, <1>5 DEF FreeModule, tables
<1>6. CASE AddUntyped
  <2>1. /\ Len(functions') = Len(functions) + 1
        /\ \A k \in 1..Len(functions) : functions'[k] = functions[k]
        /\ functions'[Len(functions) + 1] = NewFunction
    BY <1>6, NewOwnsNothing, Appended DEF AddUntyped, TypeOK
  <2>2. Len(NewFunction.names) = 0 /\ MaxNames \in Nat
    BY ParserAssumption DEF NewFunction
  <2>3. \A k \in 1..Len(functions') : k \in 1..Len(functions) \/ k = Len(functions) + 1
    BY <2>1, NamesTyped
  <2> QED  BY <2>1, <2>2, <2>3 DEF NamesFew
<1> QED  BY <1>2, <1>3, <1>4, <1>5, <1>6, NamesInside, NextIs DEF Failing

------------------------------------------------------------------------------
(* What is exported *)

\* A function's name is on the heap, and the function has it.
LEMMA NamesThere ==
  ASSUME TypeOK, Covered, NEW k \in 1..Len(functions), NEW j \in 1..Len(functions[k].names),
         functions[k].names[j] # Null
  PROVE  /\ functions[k].names[j] \in Str /\ heap[functions[k].names[j]] # Null
         /\ \E p, i : HasFunction(p, k, i, functions[k].names[j])
<1> PICK s : s = functions[k].names[j]
  OBVIOUS
<1>1. s \in Str
  BY NamesTyped
<1>2. \E p, i : HasFunction(p, k, i, s)
  <2>1. CASE s = functions[k].field
    <3>1. HasFunction("field", k, 1, s)
      BY <2>1 DEF HasFunction
    <3> QED  BY <3>1
  <2>2. CASE s # functions[k].field
    <3>1. HasFunction("names", k, j, s)
      BY <2>2 DEF HasFunction
    <3> QED  BY <3>1
  <2> QED  BY <2>1, <2>2
<1>3. heap[s] # Null
  BY <1>1, <1>2 DEF Covered, Has
<1> QED  BY <1>1, <1>2, <1>3

\* Inside a section no string of a function is freed or written over.
LEMMA HeapKept ==
  ASSUME TypeOK, Unique, Covered, Inside,
         NEW s \in Str, NEW p, NEW k, NEW j, HasFunction(p, k, j, s)
  PROVE  heap'[s] = heap[s]
<1>1. Has(p, k, j, s) /\ heap[s] # Null
  BY DEF Has, Covered
<1>2. s \notin Held
  <2> SUFFICES ASSUME s \in Held  PROVE FALSE
    OBVIOUS
  <2>1. PICK i : HasHeld("parser", 1, i, s)
    BY HeldHas
  <2>2. Has("parser", 1, i, s)
    BY <2>1 DEF Has
  <2>3. p = "parser"
    BY <1>1, <2>2 DEF Unique
  <2> QED  BY <2>3 DEF HasFunction
<1>3. ASSUME NEW n \in 1..Len(globals)  PROVE s # globals[n].name
  <2> SUFFICES ASSUME s = globals[n].name  PROVE FALSE
    OBVIOUS
  <2>1. Has("global name", n, 1, s)
    BY <1>3 DEF Has, HasGlobal
  <2>2. p = "global name"
    BY <1>1, <2>1 DEF Unique
  <2> QED  BY <2>2 DEF HasFunction
<1>4. ASSUME NEW F, s \notin F, heap' = Free(F)  PROVE heap'[s] = heap[s]
  BY <1>4 DEF Free
<1>5. ASSUME NEW x \in Str, NEW t \in Text, heap[x] = Null, heap' = [heap EXCEPT ![x] = t]
      PROVE  heap'[s] = heap[s]
  BY <1>1, <1>5 DEF TypeOK
<1>6. CASE heap' = heap
  BY <1>6
<1>7. CASE ReadName
  BY <1>5, <1>6, <1>7 DEF ReadName
<1>8. CASE ImportOther \/ ExportOther
  BY <1>2, <1>4, <1>8 DEF ImportOther, ExportOther
<1>9. ASSUME NEW n \in 1..MaxFunctions, ExportFunction(n)  PROVE heap'[s] = heap[s]
  <2>1. heap' = heap \/ heap' = Free(Held)
    BY <1>9 DEF ExportFunction
  <2> QED  BY <1>2, <1>4, <1>6, <2>1
<1>10. ASSUME NEW n \in 1..MaxFunctions, NameFunction(n)  PROVE heap'[s] = heap[s]
  BY <1>5, <1>6, <1>10 DEF NameFunction
<1>11. ASSUME NEW n \in 1..MaxGlobals, ExportGlobal(n)  PROVE heap'[s] = heap[s]
  <2>1. n \in 1..Len(globals) /\ heap' = Free({globals[n].name})
    BY <1>11 DEF ExportGlobal, TypeOK
  <2> QED  BY <1>3, <1>4, <2>1
<1>12. (\E n \in 0..MaxEntries : BeginEntries(n) \/ BeginCustom(n))
       \/ ReadOthers \/ ReadTypes \/ ImportFunction \/ ImportGlobal \/ DeclareFunction
       \/ DeclareGlobal \/ BeginCode \/ ReadBody \/ NameNothing
       \/ (\E n \in 1..MaxFunctions : ReadStart(n)) => heap' = heap
  BY DEF BeginEntries, BeginCustom, ReadOthers, ReadTypes, ImportFunction, ImportGlobal,
         DeclareFunction, DeclareGlobal, BeginCode, ReadBody, NameNothing, ReadStart
<1> QED  BY <1>6, <1>7, <1>8, <1>9, <1>10, <1>11, <1>12, Zenon DEF Inside

\* Every function keeps the names that it is found under.
LEMMA NamesKept ==
  ASSUME TypeOK, Counts, NamesFew, Unique, Covered, Inside,
         NEW k \in 1..Len(functions), NEW t \in Text, HasName(k, t)
  PROVE  HasName(k, t)'
<1>1. PICK j \in 1..Len(functions[k].names) :
        functions[k].names[j] # Null /\ heap[functions[k].names[j]] = t
  BY DEF HasName
<1>2. PICK s : s = functions[k].names[j]
  OBVIOUS
<1>3. s \in Str /\ heap'[s] = heap[s]
  BY <1>1, <1>2, NamesThere, HeapKept
<1>4. j \in 1..Len(functions'[k].names) /\ functions'[k].names[j] = s
  BY <1>2, NamesInside DEF Longer
<1> QED  BY <1>1, <1>2, <1>3, <1>4 DEF HasName

\* The last names of the entries of the export section are what exported says.
LEMMA ExportedInside ==
  ASSUME TypeOK, Shortage, OwnedOnce, NamesFew, Inside, ~short, NEW e \in exported'
  PROVE  \/ e \in exported
         \/ /\ e[1] \in Text /\ e[2] \in 1..Len(functions)
            /\ HasName(e[2], e[1])' \/ Len(functions'[e[2]].names) = MaxNames
<1>1. ASSUME NEW k \in 1..MaxFunctions, ExportFunction(k), e \notin exported
      PROVE  /\ e[1] \in Text /\ e[2] \in 1..Len(functions)
             /\ HasName(e[2], e[1])' \/ Len(functions'[e[2]].names) = MaxNames
  <2>1. /\ at = "parse" /\ Len(held) = 1 /\ k \in 1..Len(functions)
        /\ exported' = exported \cup {<<heap[s], k>> : s \in Held \ {Null}}
    BY <1>1 DEF ExportFunction, InEntry, In, TypeOK
  <2>2. PICK s \in Held \ {Null} : e = <<heap[s], k>>
    BY <1>1, <2>1
  <2>3. s = held[1] /\ s \in Str /\ heap[s] \in Text
    <3>1. s = held[1]
      BY <2>1, <2>2 DEF Held
    <3> QED  BY <2>1, <2>2, <3>1, HeldThere
  <2>4. CASE Len(functions[k].names) < MaxNames
    <3>1. Naming(k, held[1]) /\ heap' = heap
      BY <1>1, <2>4, NamesGiven
    <3>2. /\ Len(functions'[k].names) = Len(functions[k].names) + 1
          /\ functions'[k].names[Len(functions[k].names) + 1] = s
      BY <2>3, <3>1, NamingRows
    <3>3. Len(functions[k].names) + 1 \in 1..Len(functions'[k].names)
      BY <2>1, <3>2, NamesTyped
    <3>4. HasName(k, heap[s])'
      BY <2>2, <3>1, <3>2, <3>3 DEF HasName
    <3> QED  BY <2>1, <2>2, <2>3, <3>1, <3>4
  <2>5. CASE ~(Len(functions[k].names) < MaxNames)
    <3>1. functions' = functions
      BY <1>1, <2>5 DEF ExportFunction
    <3>2. Len(functions[k].names) = MaxNames
      <4>1. Len(functions[k].names) <= MaxNames /\ MaxNames \in Nat
        BY <2>1, ParserAssumption DEF NamesFew
      <4> QED  BY <2>1, <2>5, <4>1, NamesTyped
    <3> QED  BY <2>1, <2>2, <2>3, <3>1, <3>2
  <2> QED  BY <2>4, <2>5
<1>2. (\E n \in 0..MaxEntries : BeginEntries(n) \/ BeginCustom(n))
      \/ ReadOthers \/ ReadTypes \/ ReadName \/ ImportOther \/ ExportOther \/ BeginCode
      \/ NameNothing \/ ImportGlobal \/ DeclareGlobal \/ ImportFunction \/ DeclareFunction
      \/ ReadBody => exported' = exported
  BY DEF BeginEntries, BeginCustom, ReadOthers, ReadTypes, ReadName, ImportOther, ExportOther,
         BeginCode, NameNothing, ImportGlobal, DeclareGlobal, ImportFunction, DeclareFunction,
         ReadBody, history
<1>3. (\E k \in 1..MaxFunctions : ReadStart(k) \/ NameFunction(k))
      \/ (\E k \in 1..MaxGlobals : ExportGlobal(k)) => exported' = exported
  BY DEF ReadStart, NameFunction, ExportGlobal, history
<1> QED  BY <1>1, <1>2, <1>3, Zenon DEF Inside

LEMMA NamedStep ==
  ASSUME TypeOK, TypeOK', Shortage, Counts, NamesFew, Named, OwnedOnce, [Next]_vars
  PROVE  Named'
<1>1. ASSUME UNCHANGED <<functions, heap, exported, short>>, Alive' => Alive
      PROVE  Named'
  BY <1>1 DEF Named, HasName, IsImported
<1>2. CASE UNCHANGED vars \/ Done
  BY <1>1, <1>2 DEF vars, Done, Alive, tables, history
<1>3. CASE \E s \in SectionBytes : ReadSection(s)
  BY <1>1, <1>3 DEF ReadSection, Alive, tables
<1>4. CASE EndSection \/ EndModule
  BY <1>1, <1>4 DEF EndSection, EndModule, Alive, tables, history
<1>5. CASE Failing \/ CompareNull \/ FreeModule
  <2>1. at' \in {"failed", "crashed", "freed"}
    BY <1>5, FailingLeaves DEF CompareNull, FreeModule
  <2> QED  BY <2>1 DEF Named, Alive
<1>6. CASE Inside
  <2> SUFFICES ASSUME ~short', NEW e \in exported'
               PROVE  /\ e[1] \in Text /\ e[2] \in 1..Len(functions')
                      /\ \/ IsImported(e[2])' \/ HasName(e[2], e[1])'
                         \/ Len(functions'[e[2]].names) = MaxNames
    BY DEF Named
  <2>1. ~short /\ Alive /\ Longer /\ NamesFew' /\ Unique /\ Covered
    BY <1>6, InsideHeld, InsideStays, NamesInside DEF Alive, Shortage, OwnedOnce
  <2>2. CASE e \in exported
    <3>1. PICK k, t : k = e[2] /\ t = e[1]
      OBVIOUS
    <3>2. /\ t \in Text /\ k \in 1..Len(functions)
          /\ IsImported(k) \/ HasName(k, t) \/ Len(functions[k].names) = MaxNames
      BY <2>1, <2>2, <3>1 DEF Named
    <3>3. k \in 1..Len(functions')
      BY <2>1, <3>2 DEF Longer
    <3>4. IsImported(k) => IsImported(k)'
      BY <2>1, <3>2 DEF Longer, IsImported
    <3>5. HasName(k, t) => HasName(k, t)'
      BY <1>6, <2>1, <3>2, NamesKept
    <3>6. Len(functions[k].names) = MaxNames => Len(functions'[k].names) = MaxNames
      <4>1. /\ Len(functions'[k].names) >= Len(functions[k].names)
            /\ Len(functions'[k].names) <= MaxNames
        BY <2>1, <3>2, <3>3 DEF Longer, NamesFew
      <4>2. Len(functions'[k].names) \in Nat
        <5>1. functions'[k] \in Function
          BY <3>3, ElementOfSeq DEF TypeOK
        <5> QED  BY <5>1 DEF Function
      <4> QED  BY <4>1, <4>2, ParserAssumption
    <3> QED  BY <3>1, <3>2, <3>3, <3>4, <3>5, <3>6
  <2>3. CASE e \notin exported
    <3>1. /\ e[1] \in Text /\ e[2] \in 1..Len(functions)
          /\ HasName(e[2], e[1])' \/ Len(functions'[e[2]].names) = MaxNames
      BY <1>6, <2>1, <2>3, ExportedInside
    <3> QED  BY <2>1, <3>1 DEF Longer
  <2> QED  BY <2>2, <2>3
<1> QED  BY <1>2, <1>3, <1>4, <1>5, <1>6, NextIs

\* A set of numbers that is not empty has a least one.
LEMMA Least ==
  ASSUME NEW S \in SUBSET Nat, S # {}
  PROVE  \E x \in S : \A y \in S : ~(y < x)
<1> DEFINE R == {ss \in Nat \X Nat : ss[1] < ss[2]}
<1>1. IsWellFoundedOn(R, Nat)
  BY NatLessThanWellFounded DEF OpToRel
<1>2. \A x, y \in Nat : y < x => <<y, x>> \in R
  OBVIOUS
<1> HIDE DEF R
<1>3. \E x \in S : \A y \in S : ~(<<y, x>> \in R)
  BY <1>1, WFMin
<1> QED  BY <1>2, <1>3

\* A name that some function of the module has is found: the first one that has it.
LEMMA NameFound ==
  ASSUME NEW k \in 1..Len(functions), NEW t, Len(functions) \in Nat,
         ~IsImported(k), HasName(k, t)
  PROVE  \E j \in 1..k : Finds(t, j)
<1> DEFINE S == {j \in 1..k : ~IsImported(j) /\ HasName(j, t)}
<1>1. S \in SUBSET Nat /\ S # {}
  OBVIOUS
<1>2. PICK j \in S : \A l \in S : ~(l < j)
  BY <1>1, Least
<1>3. ASSUME NEW l \in 1..j - 1, ~IsImported(l)  PROVE ~HasName(l, t)
  <2>1. l \in 1..k /\ l < j
    OBVIOUS
  <2> QED  BY <1>2, <1>3, <2>1
<1>4. Finds(t, j)
  BY <1>2, <1>3 DEF Finds
<1> QED  BY <1>4

LEMMA NamedMeans ==
  ASSUME TypeOK, Named
  PROVE  ExportsFound
<1> SUFFICES ASSUME at = "parsed", ~short, NEW e \in exported
             PROVE  \/ IsImported(e[2])
                    \/ Len(functions[e[2]].names) = MaxNames /\ ~HasName(e[2], e[1])
                    \/ \E j \in 1..e[2] : Finds(e[1], j)
  BY DEF ExportsFound
<1>1. /\ e[2] \in 1..Len(functions)
      /\ \/ IsImported(e[2]) \/ HasName(e[2], e[1])
         \/ Len(functions[e[2]].names) = MaxNames
  BY DEF Named, Alive
<1> QED  BY <1>1, NamesTyped, NameFound

------------------------------------------------------------------------------
(* Theorems *)

LEMMA InitInv == Init => IInv
<1> SUFFICES ASSUME Init  PROVE IInv
  OBVIOUS
<1>1. TypeOK /\ Ordered /\ HeldInSection /\ Shortage
  BY TypeInit, OrderInit
<1>2. /\ held = <<>> /\ functions = <<>> /\ globals = <<>> /\ numFuncImports = 0
      /\ startFunction = NoStart /\ exported = {} /\ at = "next" /\ heap = [s \in Str |-> Null]
  BY Zenon DEF Init
<1>3. Len(functions) = 0 /\ 1..Len(held) = {} /\ 1..Len(functions) = {} /\ 1..Len(globals) = {}
  BY <1>2
<1>4. Counts
  BY <1>2, <1>3 DEF Counts, In
<1>5. Bodies /\ Start /\ NamesFew /\ Named
  BY <1>2, <1>3 DEF Bodies, Start, NamesFew, Named
<1>6. \A s, p, k, j : ~Has(p, k, j, s)
  BY <1>3, Zenon DEF Has, HasHeld, HasFunction, HasGlobal
<1>7. OwnedOnce
  BY <1>2, <1>6 DEF OwnedOnce, Unique, Covered
<1> QED  BY <1>1, <1>4, <1>5, <1>7 DEF IInv

LEMMA NextInv == IInv /\ [Next]_vars => IInv'
<1> SUFFICES ASSUME IInv, [Next]_vars  PROVE IInv'
  OBVIOUS
<1> USE DEF IInv
<1>1. TypeOK'
  BY TypeStep
<1>2. Ordered' /\ HeldInSection' /\ Shortage'
  BY OrderStep, HeldStep, ShortageStep
<1>3. Counts' /\ Bodies' /\ Start'
  BY <1>1, CountsStep, BodiesStep
<1>4. NamesFew' /\ Named'
  BY <1>1, NamesStep, NamedStep
<1>5. OwnedOnce'
  BY OwnersStep
<1> QED  BY <1>1, <1>2, <1>3, <1>4, <1>5

\* What always holds while m3_ParseModule and m3_FreeModule run (m3_parse.c:596,
\* m3_module.c:22).
THEOREM Invariance == Spec => []IInv
<1> QED  BY InitInv, NextInv, PTL DEF Spec

\* Every table keeps its type: the imported functions are counted among the functions for as
\* long as the sections are parsed (m3_parse.c:182).
THEOREM TypeCorrect == Spec => []TypeOK
<1>1. IInv => TypeOK
  BY DEF IInv
<1> QED  BY <1>1, Invariance, PTL

\* The sections that are parsed are those of the order, each once (m3_parse.c:613): the
\* search goes on from the place of the last one, and a custom section does not move it.
THEOREM OrderKept == Spec => SectionsInOrder
<1>1. IInv /\ [Next]_vars => [InOrder]_vars
  <2> SUFFICES ASSUME IInv, Next, at = "next", at' = "parse", section' # 0
               PROVE  Place(section') > reached
    BY DEF InOrder
  <2>1. PICK s \in SectionBytes : ReadSection(s)
    <3>1. ~Inside /\ ~Failing
      BY InsideStays, FailingLeaves
    <3>2. ~EndSection /\ ~EndModule /\ ~CompareNull /\ ~FreeModule /\ ~Done
      BY DEF EndSection, EndModule, CompareNull, FreeModule, Done, In
    <3> QED  BY <3>1, <3>2, NextIs
  <2>2. PICK k \in expected + 1..12 : SectionsOrder[k] = s /\ section' = s
    BY <2>1 DEF ReadSection, Fails
  <2>3. expected \in Nat /\ expected = reached
    BY DEF IInv, TypeOK, Ordered, Parsing
  <2>4. k \in 1..12 /\ k > reached
    BY <2>3
  <2> QED  BY <2>2, <2>4, Places
<1> QED  BY <1>1, Invariance, PTL DEF Spec, SectionsInOrder

\* Every string on the heap has one owner and every owner a string that is there: no name is
\* freed twice, used after it was freed, or left behind (m3_parse.c:246, m3_module.c:22).
THEOREM OneOwner == Spec => []StringsOwned
<1>1. IInv => StringsOwned
  BY OwnedOnceMeans DEF IInv
<1> QED  BY <1>1, Invariance, PTL

\* The imported functions come first, none of them has a body, and the start function is
\* one of the module (m3_parse.c:331, :274).
THEOREM ImportsComeFirst == Spec => []ImportsFirst
<1>1. IInv => ImportsFirst
  BY CountsMean DEF IInv
<1> QED  BY <1>1, Invariance, PTL

\* An exported function is found under its name when the module is parsed and memory has not
\* run out, unless it has names enough or a function before it has the name
\* (m3_parse.c:243, m3_env.c:679).
THEOREM ExportsAreFound == Spec => []ExportsFound
<1>1. IInv => ExportsFound
  BY NamedMeans DEF IInv
<1> QED  BY <1>1, Invariance, PTL

\* Parsing and freeing crash only when memory has run out (m3_module.c:76, m3_parse.c:486).
THEOREM CrashesOnlyShort == Spec => []CrashOnlyShort
<1>1. IInv => CrashOnlyShort
  BY ShortageMeans DEF IInv
<1> QED  BY <1>1, Invariance, PTL

------------------------------------------------------------------------------
(* Where reading a number ends *)

NothingRead == [result |-> "wasmUnderrun", value |-> 0, shift |-> 0]

\* The bits of k bytes.
Bits(k) == k * Group

LEMMA BitsOfBytes ==
  /\ Bits(0) = 0
  /\ \A k \in Nat : /\ Bits(k) \in Nat /\ Bits(k) \div Group = k
                    /\ k # 0 => Bits(k - 1) + Group = Bits(k)
<1>1. Group \in Nat \ {0}
  BY LebAssumption
<1>2. ASSUME NEW k \in Nat
      PROVE  /\ k * Group \in Nat /\ (k * Group) \div Group = k
             /\ k # 0 => (k - 1) * Group + Group = k * Group
  BY <1>1
<1> QED  BY <1>1, <1>2 DEF Bits

\* The last byte a number of n bits may have is the first at which the bits are enough.
LEMMA LastByte ==
  ASSUME NEW n \in Nat \ {0}
  PROVE  Most(n) \in Nat \ {0} /\ \A k \in Nat : LastShift(Bits(k), n) <=> k >= Most(n)
<1>1. Group \in Nat \ {0}
  BY LebAssumption
<1>2. ASSUME NEW g \in Nat \ {0}, NEW q, q = (n + g - 1) \div g
      PROVE  q \in Nat \ {0} /\ q * g <= n + g - 1 /\ n + g - 1 < q * g + g
  <2>1. q \in Nat /\ q * g <= n + g - 1 /\ n + g - 1 < q * g + g
    BY <1>2
  <2>2. q # 0
    BY <2>1
  <2> QED  BY <2>1, <2>2
<1>3. ASSUME NEW g \in Nat \ {0}, NEW q \in Nat, NEW k \in Nat,
             q * g <= n + g - 1, n + g - 1 < q * g + g
      PROVE  k * g >= n <=> k >= q
  <2>1. CASE k >= q
    <3>1. k * g >= q * g
      BY <2>1
    <3> QED  BY <1>3, <2>1, <3>1
  <2>2. CASE k <= q - 1
    <3>1. k * g <= (q - 1) * g
      BY <2>2
    <3>2. (q - 1) * g = q * g - g
      OBVIOUS
    <3> QED  BY <1>3, <2>2, <3>1, <3>2
  <2> QED  BY <2>1, <2>2
<1>4. /\ Most(n) \in Nat \ {0} /\ Most(n) * Group <= n + Group - 1
      /\ n + Group - 1 < Most(n) * Group + Group
  BY <1>1, <1>2 DEF Most
<1>5. \A k \in Nat : k * Group >= n <=> k >= Most(n)
  BY <1>1, <1>3, <1>4
<1> QED  BY <1>4, <1>5 DEF LastShift, Bits

\* After k bytes: all of them continue and there may be more, one of them has ended the
\* number, or there were as many as there may be and none did.
Going(r, k, n, s) ==
  /\ r.result = "wasmUnderrun" /\ r.shift = Bits(k)
  /\ k < Most(n) /\ \A i \in 1..k : Continues(s[i])
Ended(r, k, n, s) ==
  /\ r.result = "none"
  /\ \E e \in 1..k : /\ r.shift = Bits(e) /\ e <= Most(n)
                     /\ ~Continues(s[e]) /\ \A i \in 1..e - 1 : Continues(s[i])
Over(r, k, n, s) ==
  /\ r.result = "lebOverflow" /\ r.shift = Bits(Most(n))
  /\ Most(n) <= k /\ \A i \in 1..Most(n) : Continues(s[i])

LEMMA TurnsOn ==
  ASSUME NEW n \in Nat \ {0}, NEW signed, NEW s, NEW k \in Nat \ {0}, NEW r,
         Going(r, k - 1, n, s) \/ Ended(r, k - 1, n, s) \/ Over(r, k - 1, n, s),
         NEW q, q = Turn(n, signed, r, s[k])
  PROVE  Going(q, k, n, s) \/ Ended(q, k, n, s) \/ Over(q, k, n, s)
<1>1. Most(n) \in Nat \ {0} /\ (LastShift(Bits(k), n) <=> k >= Most(n))
  BY LastByte
<1>2. CASE Going(r, k - 1, n, s)
  <2>1. Bits(k - 1) + Group = Bits(k)
    BY BitsOfBytes
  <2>2. r.result = "wasmUnderrun" /\ r.shift + Group = Bits(k)
    BY <1>2, <2>1 DEF Going
  <2>3. CASE Continues(s[k])
    <3>1. q.shift = Bits(k)
          /\ q.result = IF LastShift(Bits(k), n) THEN "lebOverflow" ELSE "wasmUnderrun"
      BY <2>2, <2>3 DEF Turn
    <3>2. k - 1 < Most(n) /\ \A i \in 1..k : Continues(s[i])
      BY <1>2, <2>3 DEF Going
    <3>3. CASE k >= Most(n)
      <4>1. k = Most(n)
        BY <1>1, <3>2, <3>3
      <4> QED  BY <1>1, <3>1, <3>2, <4>1 DEF Over
    <3>4. CASE k < Most(n)
      BY <1>1, <3>1, <3>2, <3>4 DEF Going
    <3> QED  BY <1>1, <3>3, <3>4
  <2>4. CASE ~Continues(s[k])
    <3>1. q.shift = Bits(k) /\ q.result = "none"
      BY <2>2, <2>4 DEF Turn
    <3>2. k <= Most(n) /\ \A i \in 1..k - 1 : Continues(s[i])
      BY <1>1, <1>2 DEF Going
    <3> QED  BY <2>4, <3>1, <3>2, k \in 1..k DEF Ended
  <2> QED  BY <2>3, <2>4
<1>3. CASE Ended(r, k - 1, n, s)
  <2>1. q = r
    BY <1>3 DEF Ended, Turn
  <2>2. \A e \in 1..k - 1 : e \in 1..k
    OBVIOUS
  <2> QED  BY <1>3, <2>1, <2>2 DEF Ended
<1>4. CASE Over(r, k - 1, n, s)
  <2>1. q = r
    BY <1>4 DEF Over, Turn
  <2>2. Most(n) <= k
    BY <1>1, <1>4 DEF Over
  <2> QED  BY <1>4, <2>1, <2>2 DEF Over
<1> QED  BY <1>2, <1>3, <1>4

\* Read folds Turn over the bytes.
ByteRead(p, x, byte) == Turn(p.n, p.signed, x, byte)
OneOfThree(p, k, x) == Going(x, k, p.n, p.s) \/ Ended(x, k, p.n, p.s) \/ Over(x, k, p.n, p.s)
Turns == INSTANCE Folding WITH Op <- ByteRead, Good <- OneOfThree

LEMMA ReadStops ==
  ASSUME NEW C, NEW s \in Seq(C), NEW n \in Nat \ {0}, NEW signed
  PROVE  Stops(Read(n, signed, s), s, n)
<1> DEFINE p == [n |-> n, signed |-> signed, s |-> s]
           last == Turns!Folded(p, NothingRead, s)
           read == Read(n, signed, s)
<1>1. p.n = n /\ p.signed = signed /\ p.s = s
  OBVIOUS
<1>2. Len(s) \in Nat /\ Most(n) \in Nat \ {0}
  BY LastByte
<1>3. last = FoldLeft(LAMBDA r, byte : Turn(n, signed, r, byte), NothingRead, s)
  BY DEF ByteRead, FoldLeft, MapThenFoldSet, Max,
         Turns!Folded, Turns!MapThenFoldSet, Turns!Largest
<1> HIDE DEF p
<1>4. OneOfThree(p, 0, NothingRead)
  <2>1. NothingRead.result = "wasmUnderrun" /\ NothingRead.shift = Bits(0)
    BY BitsOfBytes DEF NothingRead
  <2> QED  BY <1>1, <1>2, <2>1 DEF Going, OneOfThree
<1>5. ASSUME NEW k \in 1..Len(s), NEW x, OneOfThree(p, k - 1, x)
      PROVE  OneOfThree(p, k, ByteRead(p, x, s[k]))
  <2>1. Going(x, k - 1, n, s) \/ Ended(x, k - 1, n, s) \/ Over(x, k - 1, n, s)
    BY <1>1, <1>5 DEF OneOfThree
  <2>2. k \in Nat \ {0} /\ ByteRead(p, x, s[k]) = Turn(n, signed, x, s[k])
    BY <1>1 DEF ByteRead
  <2>3. \/ Going(ByteRead(p, x, s[k]), k, n, s) \/ Ended(ByteRead(p, x, s[k]), k, n, s)
        \/ Over(ByteRead(p, x, s[k]), k, n, s)
    BY <2>1, <2>2, TurnsOn
  <2> QED  BY <1>1, <2>3 DEF OneOfThree
<1>6. read.result = last.result /\ read.passed = last.shift \div Group
  BY <1>3 DEF Read, NothingRead
<1>7. Going(last, Len(s), n, s) \/ Ended(last, Len(s), n, s) \/ Over(last, Len(s), n, s)
  <2>1. OneOfThree(p, Len(s), last)
    BY <1>4, <1>5, Turns!Invariant
  <2> QED  BY <1>1, <2>1 DEF OneOfThree
<1> HIDE DEF last, read
<1>8. CASE Going(last, Len(s), n, s)
  <2>1. Ends(n, s) = {} /\ Len(s) < Most(n) /\ read.result = "wasmUnderrun"
    BY <1>6, <1>8 DEF Going, Ends
  <2>2. read.passed = Len(s)
    BY <1>2, <1>6, <1>8, BitsOfBytes DEF Going
  <2>3. Stops(read, s, n)
    BY <1>2, <2>1, <2>2 DEF Stops, Outcome
  <2> QED  BY <2>3 DEF read
<1>9. CASE Ended(last, Len(s), n, s)
  <2>1. PICK e \in 1..Len(s) : /\ last.shift = Bits(e) /\ e <= Most(n)
                               /\ ~Continues(s[e]) /\ \A i \in 1..e - 1 : Continues(s[i])
    BY <1>9 DEF Ended
  <2>2. read.passed = e /\ read.result = "none"
    BY <1>6, <1>9, <2>1, BitsOfBytes, e \in Nat DEF Ended
  <2>3. e \in Ends(n, s)
    BY <2>1 DEF Ends
  <2>4. \A k \in Ends(n, s) : e <= k
    BY <1>2, <2>1 DEF Ends
  <2>5. Stops(read, s, n)
    BY <1>2, <2>1, <2>2, <2>3, <2>4 DEF Stops, Outcome
  <2> QED  BY <2>5 DEF read
<1>10. CASE Over(last, Len(s), n, s)
  <2>1. Ends(n, s) = {} /\ ~(Len(s) < Most(n)) /\ read.result = "lebOverflow"
    BY <1>2, <1>6, <1>10 DEF Over, Ends
  <2>2. read.passed = Most(n) /\ Most(n) <= Len(s)
    BY <1>2, <1>6, <1>10, BitsOfBytes DEF Over
  <2>3. Stops(read, s, n)
    BY <1>2, <2>1, <2>2 DEF Stops, Outcome
  <2> QED  BY <2>3 DEF read
<1> QED  BY <1>7, <1>8, <1>9, <1>10

\* A conversion changes the value only.
LEMMA ConvertedStops ==
  ASSUME NEW C, NEW s \in Seq(C), NEW n \in Nat \ {0}, NEW signed, NEW m, NEW as
  PROVE  Stops(Converted(Read(n, signed, s), m, as), s, n)
<1> DEFINE read == Read(n, signed, s)
           kept == Converted(read, m, as)
<1>1. Stops(read, s, n)
  BY ReadStops
<1>2. PICK r : read = [result |-> r.result, value |-> r.value, passed |-> r.shift \div Group]
  BY DEF Read
<1>3. kept.result = read.result /\ kept.passed = read.passed
  BY <1>2 DEF Converted
<1> HIDE DEF read, kept
<1>4. Stops(kept, s, n)
  BY <1>1, <1>3 DEF Stops
<1> QED  BY <1>4 DEF read, kept

\* Whatever the bytes of a module are, every reader ends at the first byte that ends the
\* number, refuses a number that does not end in time, and passes nothing behind the last
\* byte (m3_core.c:342).
THEOREM ReadersStop ==
  ASSUME NEW C, NEW bytes \in Seq(C)
  PROVE  NumbersEnd(bytes)
<1>1. Half \in Nat \ {0} /\ Word \in Nat \ {0} /\ Group \in Nat \ {0}
  BY LebAssumption
<1>2. /\ Stops(ReadLEB_u32(bytes), bytes, Half)
      /\ Stops(ReadLEB_i32(bytes), bytes, Half)
      /\ Stops(ReadLEB_i64(bytes), bytes, Word)
      /\ Stops(ReadLEB_u7(bytes), bytes, Group)
      /\ Stops(ReadLEB_i7(bytes), bytes, Group)
  BY <1>1, ConvertedStops
     DEF ReadLEB_u32, ReadLEB_i32, ReadLEB_i64, ReadLEB_u7, ReadLEB_i7, ReadLebUnsigned, ReadLebSigned
<1>3. \A n \in 1..MaxBytes : ReadFixed(n, bytes).passed <= Len(bytes)
  <2>1. TAKE n \in 1..MaxBytes
  <2>0. Len(bytes) \in Nat /\ n \in Nat
    BY LebAssumption
  <2>2. CASE n > Len(bytes)
    <3>1. ReadFixed(n, bytes).passed = 0
      BY <2>2 DEF ReadFixed, Underrun
    <3> QED  BY <2>0, <3>1
  <2>3. CASE ~(n > Len(bytes))
    <3>1. ReadFixed(n, bytes).passed = n
      BY <2>3 DEF ReadFixed
    <3> QED  BY <2>0, <2>3, <3>1
  <2> QED  BY <2>2, <2>3
<1>4. Read_opcode(bytes).passed <= Len(bytes)
  <2>1. Len(bytes) \in Nat /\ (bytes = <<>> <=> Len(bytes) = 0)
    OBVIOUS
  <2>2. CASE bytes = <<>>
    BY <2>1, <2>2 DEF Read_opcode, Underrun
  <2>3. CASE bytes # <<>>
    BY <2>1, <2>3 DEF Read_opcode
  <2> QED  BY <2>2, <2>3
<1> QED  BY <1>2, <1>3, <1>4 DEF NumbersEnd
=============================================================================
