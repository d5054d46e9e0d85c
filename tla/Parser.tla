------------------------------- MODULE Parser -------------------------------
(***************************************************************************)
(* m3_ParseModule: the sections of a module are read in a fixed order into *)
(* the tables of an M3Module, m3_FreeModule frees these and what they own. *)
(*                                                                         *)
(* The names of imports, exports and functions are strings on the heap.    *)
(* Read_utf8 makes one, a local variable of the section's parser holds it  *)
(* until a function, a global or nobody gets it; the name of an imported   *)
(* function is its field name, the same string.  When something cannot be  *)
(* read the parser frees what it holds and the module.  When memory runs   *)
(* out a name is NULL, and so is an array that should have grown.          *)
(*                                                                         *)
(* Bytes are left out: every read may give any value or fail.              *)
(***************************************************************************)
EXTENDS Integers, Sequences, FiniteSets

CONSTANTS
  Str,           \* where strings may be on the heap
  Null,
  Text,          \* what they say
  MaxNames,      \* d_m3MaxDuplicateFunctionImpl
  SectionBytes,  \* the section bytes that occur; 13 is any one above 12
  MaxEntries,    \* bound: entries of a section
  MaxFunctions,  \* bound
  MaxGlobals,    \* bound
  MaxCustom      \* bound: custom sections

ASSUME ParserAssumption ==
  /\ Null \notin Str /\ Null \notin Text
  /\ MaxNames \in Nat \ {0} /\ SectionBytes \subseteq 0..13
  /\ {MaxEntries, MaxFunctions, MaxGlobals, MaxCustom} \subseteq Nat

VARIABLES
  at,             \* where m3_ParseModule and its caller are
  section,        \* the section that is parsed
  expected,       \* expectedSection, an index from 0
  left,           \* entries of the section that are still to be read; Unread before their number is
  held,           \* the strings in the local variables of the section's parser
  heap,           \* what the string at an address says, Null where there is none
  hasTypes,       \* numFuncTypes is not 0
  functions,
  numFuncImports,
  globals,
  startFunction,
  noArray,        \* of the arrays functions and globals: realloc has failed
  reached,        \* history: the place in the order of the last section parsed that is in it
  exported,       \* history: the function exports, by name and index
  customs,        \* history: how many custom sections were parsed
  short           \* history: memory has run out

tables == <<hasTypes, functions, numFuncImports, globals, startFunction, noArray>>
history == <<reached, exported, customs>>
vars == <<at, section, expected, left, held, heap, tables, history, short>>

Unread == -1
NoStart == -1
SectionsOrder == <<1, 2, 3, 4, 5, 6, 7, 8, 9, 12, 10, 11, 0>>
NoSection == 13
Place(s) == CHOOSE k \in 1..13 : SectionsOrder[k] = s

Function == [module : Str \cup {Null}, field : Str \cup {Null},
             names : Seq(Str \cup {Null}), body : BOOLEAN]
Global == [module : Str \cup {Null}, field : Str \cup {Null}, name : Str \cup {Null}]

NewFunction == [module |-> Null, field |-> Null, names |-> <<>>, body |-> FALSE]
NewGlobal == [module |-> Null, field |-> Null, name |-> Null]

Free(strings) == [s \in Str |-> IF s \in strings THEN Null ELSE heap[s]]
Held == {held[k] : k \in 1..Len(held)}

In(s) == at = "parse" /\ section = s
InEntry(s, names) == In(s) /\ left > 0 /\ Len(held) = names
NextEntry == left' = left - 1 /\ held' = <<>> /\ UNCHANGED <<at, section, expected>>

\* The parser is left with an error.
Fails ==
  /\ at' = "failed" /\ held' = <<>>
  /\ section' = NoSection /\ expected' = 0 /\ left' = Unread

------------------------------------------------------------------------------
(* m3_ParseModule: from section to section *)

\* Mutant of ReadSection: the search for a section starts from the first one again.
ReadSectionAgain(s) ==
  /\ at = "next" /\ s # 0
  /\ \/ /\ \E k \in 1..12 : SectionsOrder[k] = s
        /\ at' = "parse" /\ section' = s /\ expected' = Place(s) /\ reached' = Place(s)
        /\ UNCHANGED left
     \/ /\ ~\E k \in 1..12 : SectionsOrder[k] = s
        /\ Fails /\ UNCHANGED reached
  /\ UNCHANGED <<held, heap, tables, exported, customs, short>>

\* The loop "Ensure sections appear only once and in order" skips the sections that are
\* not there; it gives up when the next place is the last but one, 0-based 12.
ReadSection(s) ==
  /\ at = "next"
  /\ \/ /\ s = 0 /\ customs < MaxCustom
        /\ at' = "parse" /\ section' = s /\ customs' = customs + 1
        /\ UNCHANGED <<expected, left, held, reached>>
     \/ /\ \E k \in expected + 1..12 :
             /\ SectionsOrder[k] = s
             /\ expected' = k /\ reached' = k
        /\ at' = "parse" /\ section' = s
        /\ UNCHANGED <<left, held, customs>>
     \/ /\ s # 0 /\ \A k \in expected + 1..12 : SectionsOrder[k] # s
        /\ Fails /\ UNCHANGED <<reached, customs>>
  /\ UNCHANGED <<heap, tables, exported, short>>

EndSection ==
  /\ at = "parse" /\ left = 0 /\ held = <<>>
  /\ at' = "next" /\ left' = Unread /\ section' = NoSection
  /\ UNCHANGED <<expected, held, heap, tables, history, short>>

EndModule ==
  /\ at = "next"
  /\ at' = "parsed" /\ expected' = 0
  /\ UNCHANGED <<section, left, held, heap, tables, history, short>>

\* Mutant of Throw: the catch of ParseSection_Export does not free the name.
ThrowKeepsExport ==
  /\ at \in {"next", "parse"}
  /\ Fails /\ heap' = IF section = 7 THEN heap ELSE Free(Held)
  /\ UNCHANGED <<tables, history, short>>

\* Something is missing, malformed, out of range or insane; the catch of the section's
\* parser frees the names it holds.
Throw ==
  /\ at \in {"next", "parse"}
  /\ Fails /\ heap' = Free(Held)
  /\ UNCHANGED <<tables, history, short>>

\* The number of entries of sections 2, 3, 6 and 7.
BeginEntries(n) ==
  /\ \E s \in {2, 3, 6, 7} : In(s)
  /\ left = Unread /\ left' = n
  /\ UNCHANGED <<at, section, expected, held, heap, tables, history, short>>

\* Sections without entries that the module keeps: its memory, its table segments and
\* its data segments, of which it keeps pointers into the bytes, and those without parser.
ReadOthers ==
  /\ \E s \in {4, 5, 9, 11, 12, 13} : In(s)
  /\ left = Unread /\ left' = 0
  /\ UNCHANGED <<at, section, expected, held, heap, tables, history, short>>

------------------------------------------------------------------------------
(* What several sections do *)

\* Read_utf8, which does not say that memory has run out.
ReadName ==
  /\ InEntry(2, 0) \/ InEntry(2, 1) \/ InEntry(7, 0)
  /\ \/ \E s \in Str, t \in Text :
          /\ heap[s] = Null
          /\ heap' = [heap EXCEPT ![s] = t]
          /\ held' = Append(held, s) /\ UNCHANGED short
     \/ held' = Append(held, Null) /\ short' = TRUE /\ UNCHANGED heap
  /\ UNCHANGED <<at, section, expected, left, tables, history>>

\* Module_AddFunction of an import, whose names f has, or of a function of the module ...
AddFunction(f) ==
  /\ Len(functions) < MaxFunctions /\ hasTypes
  /\ functions' = Append(functions, f)

\* Mutant of AddUntyped: the index is checked before the array grows.
AddUntypedEarly ==
  /\ InEntry(2, 2) \/ InEntry(3, 0)
  /\ Len(functions) < MaxFunctions
  /\ functions' = Append(functions, NewFunction)
  /\ noArray' = IF functions = <<>> THEN {"functions"} ELSE noArray
  /\ Fails /\ heap' = Free(Held)
  /\ UNCHANGED <<hasTypes, numFuncImports, globals, startFunction, history, short>>

\* ... without a type of that index: the function is counted, and has no names.
AddUntyped ==
  /\ InEntry(2, 2) \/ InEntry(3, 0)
  /\ Len(functions) < MaxFunctions
  /\ functions' = Append(functions, NewFunction)
  /\ Fails /\ heap' = Free(Held)
  /\ UNCHANGED <<hasTypes, numFuncImports, globals, startFunction,
                 noArray, history, short>>

\* Module_AddFunction or Module_AddGlobal when realloc fails: the element is counted, and
\* with the array all that it has is lost.
AddNothing ==
  /\ \/ (InEntry(2, 2) \/ InEntry(3, 0)) /\ noArray' = {"functions"}
     \/ (InEntry(2, 2) \/ InEntry(6, 0)) /\ noArray' = {"globals"}
  /\ Fails /\ heap' = Free(Held) /\ short' = TRUE
  /\ UNCHANGED <<hasTypes, functions, numFuncImports, globals,
                 startFunction, history>>

------------------------------------------------------------------------------
(* Sections *)

\* ParseSection_Type, in one step; FuncTypes has the others.
ReadTypes ==
  /\ In(1) /\ left = Unread
  /\ hasTypes' \in BOOLEAN /\ left' = 0
  /\ UNCHANGED <<at, section, expected, held, heap, functions, numFuncImports, globals,
                 startFunction, noArray, history, short>>

\* The first name of an imported function is its field name.
ImportFunction ==
  /\ InEntry(2, 2)
  /\ AddFunction([NewFunction EXCEPT !.module = held[1], !.field = held[2],
                                     !.names = <<held[2]>>])
  /\ numFuncImports' = numFuncImports + 1
  /\ NextEntry
  /\ UNCHANGED <<heap, hasTypes, globals, startFunction, noArray, history, short>>

\* Mutant of ImportGlobal: it counts as a function.
ImportGlobalCounts ==
  /\ InEntry(2, 2) /\ Len(globals) < MaxGlobals
  /\ globals' = Append(globals, [NewGlobal EXCEPT !.module = held[1], !.field = held[2]])
  /\ numFuncImports' = numFuncImports + 1
  /\ NextEntry
  /\ UNCHANGED <<heap, hasTypes, functions, startFunction, noArray, history, short>>

ImportGlobal ==
  /\ InEntry(2, 2) /\ Len(globals) < MaxGlobals
  /\ globals' = Append(globals, [NewGlobal EXCEPT !.module = held[1], !.field = held[2]])
  /\ NextEntry
  /\ UNCHANGED <<heap, hasTypes, functions, numFuncImports, startFunction, noArray, history,
                 short>>

\* Imported tables and memories have no names.
ImportOther ==
  /\ InEntry(2, 2)
  /\ heap' = Free(Held) /\ NextEntry
  /\ UNCHANGED <<tables, history, short>>

DeclareFunction ==
  /\ InEntry(3, 0)
  /\ AddFunction(NewFunction) /\ NextEntry
  /\ UNCHANGED <<heap, hasTypes, numFuncImports, globals, startFunction, noArray, history,
                 short>>

\* Module_AddGlobal; the expression is skipped, which may fail in the next step.
DeclareGlobal ==
  /\ InEntry(6, 0) /\ Len(globals) < MaxGlobals
  /\ globals' = Append(globals, NewGlobal) /\ NextEntry
  /\ UNCHANGED <<heap, hasTypes, functions, numFuncImports, startFunction, noArray, history,
                 short>>

\* A function that has names enough does not get another one.
ExportFunction(k) ==
  LET room == Len(functions[k].names) < MaxNames
  IN /\ InEntry(7, 1) /\ k <= Len(functions)
     /\ functions' = IF room THEN [functions EXCEPT ![k].names = Append(@, held[1])]
                     ELSE functions
     /\ heap' = IF room THEN heap ELSE Free(Held)
     /\ exported' = exported \cup {<<heap[s], k>> : s \in Held \ {Null}}
     /\ NextEntry
     /\ UNCHANGED <<hasTypes, numFuncImports, globals, startFunction, noArray, reached,
                    customs, short>>

\* The last name stays.
ExportGlobal(k) ==
  /\ InEntry(7, 1) /\ k <= Len(globals)
  /\ heap' = Free({globals[k].name})
  /\ globals' = [globals EXCEPT ![k].name = held[1]]
  /\ NextEntry
  /\ UNCHANGED <<hasTypes, functions, numFuncImports, startFunction, noArray, history, short>>

ExportOther ==
  /\ InEntry(7, 1)
  /\ heap' = Free(Held) /\ NextEntry
  /\ UNCHANGED <<tables, history, short>>

ReadStart(k) ==
  /\ In(8) /\ left = Unread /\ k <= Len(functions)
  /\ startFunction' = k - 1 /\ left' = 0
  /\ UNCHANGED <<at, section, expected, held, heap, hasTypes, functions, numFuncImports,
                 globals, noArray, history, short>>

\* Mutant of BeginCode: the bodies are counted with the imports.
BeginCodeAll ==
  /\ In(10) /\ left = Unread
  /\ left' = Len(functions)
  /\ UNCHANGED <<at, section, expected, held, heap, tables, history, short>>

\* Another number of bodies is refused.
BeginCode ==
  /\ In(10) /\ left = Unread
  /\ left' = Len(functions) - numFuncImports
  /\ UNCHANGED <<at, section, expected, held, heap, tables, history, short>>

\* A body of size 0 is none.
ReadBody ==
  /\ InEntry(10, 0)
  /\ \E body \in BOOLEAN :
       functions' = [functions EXCEPT ![Len(functions) - left + 1].body = body]
  /\ NextEntry
  /\ UNCHANGED <<heap, hasTypes, numFuncImports, globals, startFunction, noArray, history,
                 short>>

\* ParseSection_Custom: n is not 0 when the section's name is "name".
BeginCustom(n) ==
  /\ In(0) /\ left = Unread /\ left' = n
  /\ UNCHANGED <<at, section, expected, held, heap, tables, history, short>>

\* Its own name is NULL, which strcmp reads.
CompareNull ==
  /\ In(0) /\ left = Unread
  /\ at' = "crashed" /\ short' = TRUE
  /\ UNCHANGED <<section, expected, left, held, heap, tables, history>>

\* Mutant of NameFunction: the function's first name is replaced.
NameAnyFunction(k) ==
  /\ InEntry(0, 0) /\ k <= Len(functions)
  /\ \E s \in Str, t \in Text :
       /\ heap[s] = Null
       /\ heap' = [heap EXCEPT ![s] = t]
       /\ functions' = [functions EXCEPT ![k].names =
                          IF @ = <<>> THEN <<s>> ELSE [@ EXCEPT ![1] = s]]
  /\ NextEntry
  /\ UNCHANGED <<hasTypes, numFuncImports, globals, startFunction, noArray, history, short>>

\* A function that was declared and has no name yet gets one; any other name is freed.
NameFunction(k) ==
  /\ InEntry(0, 0) /\ k <= Len(functions) /\ functions[k].names = <<>>
  /\ \/ \E s \in Str, t \in Text :
          /\ heap[s] = Null
          /\ heap' = [heap EXCEPT ![s] = t]
          /\ functions' = [functions EXCEPT ![k].names = <<s>>]
          /\ UNCHANGED short
     \/ /\ functions' = [functions EXCEPT ![k].names = <<Null>>]
        /\ short' = TRUE /\ UNCHANGED heap
  /\ NextEntry
  /\ UNCHANGED <<hasTypes, numFuncImports, globals, startFunction, noArray, history>>

NameNothing ==
  /\ InEntry(0, 0)
  /\ NextEntry
  /\ UNCHANGED <<heap, tables, history, short>>

------------------------------------------------------------------------------
(* m3_FreeModule *)

\* Everything that owns a string: the parser its local variables, a function, of which
\* Function_Release frees the names that are not the field name, and a global.
OfFunction(k) ==
  {<<"module", k, 1>>, <<"field", k, 1>>}
  \cup {<<"names", k, j>> : j \in {j \in 1..Len(functions[k].names) :
                                     functions[k].names[j] # functions[k].field}}
OfGlobal(k) == {<<"global module", k, 1>>, <<"global field", k, 1>>, <<"global name", k, 1>>}
Owners ==
  {<<"parser", 1, k>> : k \in 1..Len(held)}
  \cup (UNION {OfFunction(k) : k \in 1..Len(functions)})
  \cup (UNION {OfGlobal(k) : k \in 1..Len(globals)})

\* The string that it owns.
Owned(o) ==
  CASE o[1] = "parser" -> held[o[3]]
    [] o[1] = "module" -> functions[o[2]].module
    [] o[1] = "field" -> functions[o[2]].field
    [] o[1] = "names" -> functions[o[2]].names[o[3]]
    [] o[1] = "global module" -> globals[o[2]].module
    [] o[1] = "global field" -> globals[o[2]].field
    [] o[1] = "global name" -> globals[o[2]].name

\* An array that is not there is walked as if it was.
FreeModule ==
  /\ at \in {"parsed", "failed"}
  /\ IF noArray = {}
     THEN /\ at' = "freed"
          /\ heap' = Free({Owned(o) : o \in Owners})
          /\ hasTypes' = FALSE /\ functions' = <<>> /\ numFuncImports' = 0 /\ globals' = <<>>
          /\ startFunction' = NoStart /\ reached' = 0 /\ exported' = {} /\ customs' = 0
          /\ UNCHANGED noArray
     ELSE at' = "crashed" /\ UNCHANGED <<heap, tables, history>>
  /\ UNCHANGED <<section, expected, left, held, short>>

------------------------------------------------------------------------------
(* v_FindFunction *)

IsImported(k) == functions[k].module # Null \/ functions[k].field # Null
HasName(k, t) == \E j \in 1..Len(functions[k].names) :
                   functions[k].names[j] # Null /\ heap[functions[k].names[j]] = t

\* The function that m3_FindFunction finds under a name is the first one that has it.
Finds(t, k) ==
  /\ ~IsImported(k) /\ HasName(k, t)
  /\ \A j \in 1..k - 1 : ~IsImported(j) => ~HasName(j, t)

------------------------------------------------------------------------------
Init ==
  /\ at = "next" /\ section = NoSection /\ expected = 0 /\ left = Unread
  /\ held = <<>> /\ heap = [s \in Str |-> Null]
  /\ hasTypes = FALSE /\ functions = <<>> /\ numFuncImports = 0 /\ globals = <<>>
  /\ startFunction = NoStart /\ noArray = {}
  /\ reached = 0 /\ exported = {} /\ customs = 0 /\ short = FALSE

Done == at \in {"freed", "crashed"} /\ UNCHANGED vars

Next ==
  \/ \E s \in SectionBytes : ReadSection(s)
  \/ EndSection \/ EndModule \/ Throw
  \/ \E n \in 0..MaxEntries : BeginEntries(n) \/ BeginCustom(n)
  \/ ReadOthers \/ ReadTypes \/ ReadName \/ AddUntyped \/ AddNothing
  \/ ImportFunction \/ ImportGlobal \/ ImportOther \/ DeclareFunction \/ DeclareGlobal
  \/ ExportOther \/ BeginCode \/ ReadBody \/ CompareNull \/ NameNothing
  \/ \E k \in 1..MaxFunctions : ExportFunction(k) \/ ReadStart(k) \/ NameFunction(k)
  \/ \E k \in 1..MaxGlobals : ExportGlobal(k)
  \/ FreeModule \/ Done

Spec == Init /\ [][Next]_vars

------------------------------------------------------------------------------
(* Properties *)

TypeOK ==
  /\ at \in {"next", "parse", "parsed", "failed", "freed", "crashed"}
  /\ section \in 0..13 /\ expected \in 0..13 /\ left \in {Unread} \cup Nat
  /\ held \in Seq(Str \cup {Null}) /\ heap \in [Str -> Text \cup {Null}]
  /\ hasTypes \in BOOLEAN /\ functions \in Seq(Function) /\ globals \in Seq(Global)
  /\ numFuncImports \in 0..Len(functions) \/ at \notin {"next", "parse", "parsed"}
  /\ startFunction \in Int /\ noArray \subseteq {"functions", "globals"}
  /\ reached \in 0..13 /\ exported \subseteq Text \X Nat
  /\ customs \in 0..MaxCustom /\ short \in BOOLEAN

\* "Ensure sections appear only once and in order" (m3_parse.c:613): the sections that are
\* parsed are those of the order, each once, whatever custom ones are in between.
InOrder ==
  at = "next" /\ at' = "parse" /\ section' # 0 => Place(section') > reached
SectionsInOrder == [][InOrder]_vars

\* Every string on the heap has one owner, and every owner a string that is there, at
\* every point of the parse: so it is freed once, by whoever frees the owner, and nothing
\* is left when the module is freed ("ownership transferred to M3Function", m3_parse.c:246).  Only when
\* realloc fails are those of the array lost.
StringsOwned ==
  noArray = {} =>
    /\ \A o, p \in Owners : Owned(o) # Null /\ Owned(o) = Owned(p) => o = p
    /\ {Owned(o) : o \in Owners} \ {Null} = {s \in Str : heap[s] # Null}

\* The functions that are imported come first, none of them has a body, and the start
\* function is one of the module: the counts that the code section and the start section
\* are compared with are final by then (m3_parse.c:331, :274).  A declared function may be
\* without a body, too: its entry has size 0 (:343), or there is no code section.
ImportsFirst ==
  at \in {"next", "parsed"} =>
    /\ \A k \in 1..Len(functions) :
         /\ functions[k].body => k > numFuncImports
         /\ ~short => (IsImported(k) <=> k <= numFuncImports)
    /\ startFunction # NoStart => startFunction \in 0..Len(functions) - 1

\* A function of the module that is exported is found under that name, unless it has
\* names enough, or a function before it has the name: one that is exported under it too,
\* or that the name section calls so (m3_parse.c:243, :516, m3_env.c:679).
ExportsFound ==
  at = "parsed" /\ ~short =>
    \A e \in exported :
      LET t == e[1]  k == e[2]
      IN \/ IsImported(k)
         \/ Len(functions[k].names) = MaxNames /\ ~HasName(k, t)
         \/ \E j \in 1..k : Finds(t, j)

\* Parsing and freeing read no null pointer unless memory has run out: the counts of the
\* elements of an array are those of the array (m3_module.c:76, m3_parse.c:486).
CrashOnlyShort == at = "crashed" => short
=============================================================================
