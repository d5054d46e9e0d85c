# wasm3 and its Swift wrapper in TLA+

The repository is a Swift package that runs WebAssembly modules. Its core is a vendored
copy of the wasm3 interpreter in C (`Sources/CWasm3`, C below); `Sources/WebAssembly` is
the Swift API over it and `Sources/Locks` the locks the API uses. wasm3 compiles a
function, when it is first called, from WebAssembly bytecode into a threaded list of
operation pointers and operands ("code pages"), and runs that.

## Inventory

| component | state it keeps | operations | interacts with | what makes it correct |
|---|---|---|---|---|
| **Code pages** `m3_code.c`, `m3_emit.c`, page lists of `m3_env.c` | lists of open, full and released pages, page counters, room left in each page | acquire, release, emit with bridge, free | the compiler writes, the interpreter runs, the environment recycles | a page has one owner; compiled code stays; a bridge always fits; nothing is lost |
| **Module lifecycle** `m3_env.c`, `m3_module.c` | module's runtime, memory, globals, elements, start function | parse, load, init sections, find, free | parser, compiler, host functions called by the start function | a module is linked once, its start function runs once and before its other functions |
| **Lazy compilation and calls** `m3_exec.h` `op_Compile`, `op_Call`, `m3_Call*`, `m3_GetResults` | `function->compiled`, the instruction that calls it, `lastCalled` | find, call, results, rewrite of `op_Compile` to `op_Call` | code pages, host functions, traps | a call runs the function's code or reports an error; results are those of the last call |
| **Linear memory** `ResizeMemory`, `op_MemGrow`, Swift `Heap` | `numPages`, `maxPages`, `mallocated`, the `_mem` register of every interpreter frame | init, grow, access, `isValid` on the Swift side | host functions that hold a heap, callers up the C stack | size never above the maximum, a failed growth changes nothing, no use of a block that was moved |
| **Function types** `Environment_AddFuncType`, `op_CallIndirect` | environment's list of types, `funcType` pointers | add, compare, bind | parser, binder, indirect calls | equal pointers exactly for equal types |
| **Binding of host functions** `m3_bind.c` | type of an import from its signature string, `function->compiled` | link | Swift registration | signature checked against the import |
| **Parser** `m3_parse.c`, LEB128 of `m3_core.c` | position in the bytes, last section, module tables | one per section | module | sections in order and once; no read past the end |
| **Compiler** `m3_compile.c` | value stack, slots with use counts, two registers, block scopes, patches | one per WebAssembly instruction | code pages | slots and registers are owned by one value; block results are moved without clobbering |
| **Interpreter** Swift `Interpreter.swift` | `env`, `runtime`, `importedFunctionContexts`, its lock | init, find, call, import, deinit | `ImportFunctionCache`, `Atom`, wasm3 | a host function that is linked has its handler; locks are not taken twice |
| **Import cache** Swift `ImportFunctionCache.swift`, `Atom.swift` | global table context -> handler, its lock | add, remove, lookup | every interpreter | handlers of one interpreter are not removed by another |
| **Locks** `Sources/Locks` | one OS lock each | lock, unlock, with | the Swift API | exclusion; the unlock matches the lock that was taken |
| **Operations** `m3_exec.h`, `m3_math_utils.h` | the registers `_r0`, `_fp0`, the slots of a frame | one per operation and place of its operands | the compiler chooses them | each gives what WebAssembly asks for, whatever else the register holds |
| **Values and signatures** Swift `NativeFunction*.swift` | none | encode, decode, check | Interpreter, `m3_bind.c` | a block is linked exactly for the types it was written for, and finds its arguments |
| **WASI, libc, tracing APIs** `m3_api_*.c` | file descriptors of the host | one per import | host OS | pure I/O, not compiled into the package's default set |
| **Debug output** `m3_info.c` | none | print | - | - |

What is hard to test here: allocation failures in the middle of a compilation; traps and
re-entrant calls while wasm3 still has C frames on the stack; host functions that call
back into the interpreter; several interpreters and threads that share the global import
cache; code that is rewritten while it runs; growth of a memory whose address is held
by callers. `PROJECT.json` lists each such hazard at its line.

## Modules

Every component with state has a module of its own, `X.tla`; `MCX.tla` gives its constants
values for TLC; `XProofs.tla` holds the theorems. A mutant of a definition stands in front
of it and says in its comment which mistake it is; each property of a passing run is broken
by one. Where two components meet, each module has as much of the other as it needs:
`Execution` compiles a function in one step with any outcome, `Compiler` shows what is in
that step, `CodePages` where its words go; `LinearMemory` has the calls of `Execution` as
frames that hold a pointer to the memory; `Interpreters` has a call of wasm3 as one frame
that may call imported functions; `Parser` reads the type section in one step, `FuncTypes`
has what is in it.

| module | state | actions | code |
|---|---|---|---|
| `CodePages` | size and fill of every page, the runtime's open and full pages and their counters, the environment's released pages, `o->page`, the `savedPage`s of the C frames, where the compilation stands | one for each thing a compilation does to pages: begin, emit an operation, else block, br_table, end, throw; link an import; evaluate an expression with a runtime on the C stack; free runtime, environment | `m3_code.c`, `m3_emit.c`, page lists in `m3_env.c`, page handling in `m3_compile.c` |
| `Execution` | what is compiled, the operation at every call site, `startFunction`, the C stack of calls, `runtime->stack` | load, link, find, run start, `m3_Call`, `op_Call`, `op_Compile`, `op_CallIndirect`, return, trap | `m3_env.c`, `m3_exec.h`, `m3_bind.c` |
| `LinearMemory` | pages, maximum, block, length, `_mem` of the running operation and of the C frames | load, load an imported memory, `memory.size`, `memory.grow`, calls, loops, returns, traps, accesses from code and from Swift | `ResizeMemory`, `InitMemory`, `m3_exec.h`, `Heap.swift`, `Interpreter.Heap.swift` |
| `FuncTypes` | structure at every address, the environment's list, the types of every module, the type that is being read | new environment, begin, read, add, end or fail a type section, free module, free environment | `Environment_AddFuncType`, `ParseSection_Type`, freeing |
| `Parser` | the section and the entry that is read, `expectedSection`, the strings on the heap and in the locals of the section's parser, the tables of functions and globals, `startFunction` | a section begins, ends, fails; one for each kind of entry; memory runs out; free module | `m3_parse.c`, `m3_module.c`, `m3_FindFunction` |
| `Interpreters` | the cache, the last identifier, both kinds of locks, a stack of Swift frames for each thread, what is linked and started | init, import, call, deinit, the trampoline into blocks; each critical section of `Atom.lock` in two steps, the read and the write | `Sources/WebAssembly`, `Sources/Locks` |
| `Compiler` | the `M3Compilation`: operand stack, slot counts, registers, block scopes, and one execution of the code compiled so far | one for each class of Wasm instruction | `m3_compile.c` |

Three modules are pure: operators, each beside a definition of what it should be. They have
no state, so the run of a component they belong to looks at them once, in its initial state.

| module | what it has | reference | in run |
|---|---|---|---|
| `Leb` | the LEB128 readers as one fold over the bytes, fixed-size numbers, one-byte operation codes (`Compile_ExtendedOpcode` reads the second byte of 0xFC) | the bits of a number, one by one; where it has to end | `parser` |
| `Operators` | the integer operators by C type and place of the operands, what a register may hold after them, conversions of floats | WebAssembly's definition on bits, remainders by their equation | `execution` |
| `Signatures` | the string `NativeFunction.signature` writes, the loop of `SignatureToFuncType`, where arguments are | the same types on both sides; letters and brackets of a string | `func_types` |

Two modules say what a component promises, without the means it does it by:

- `BlockRegistry`: every interpreter has a table of blocks of its own, that its imports and
  `deinit` change at one point in time, and calls run what is in it. `Interpreters` has
  identifiers, a global table, rows that are read, changed and written back, and locks.
  `ImplementsRegistry` maps the rows to tables by the identifier of each interpreter, and
  the frames of a thread that are inside a block to the thread's `running`, each with its
  depth on the stack.
- `TypeTable`: every module keeps its types for as long as it lives, and `call_indirect` takes
  two for the same if and only if they are equal. `FuncTypes` has addresses, a list per
  environment, and compares addresses. `ImplementsTable` reads each module's types off the
  heap.

`PROJECT.json` maps each definition to its lines.

### Choices a reader should know

- *Pages are counted, not filled.* `CodePages` knows how many words a page has, not which.
  Lists of pages are sets: any page that fits may be taken.
- *A failed `EmitOp` is an event of its own.* Two callers ignore its result
  (`m3_compile.c:1753`, `:1970`); `ignored` remembers that, and `RoomForBridge` promises
  nothing afterwards. Nor does the model go on when a page has been written past its end.
- *`Execution` compiles in one step*, with the outcomes the code has: done, error, and done
  but without the constants when their allocation fails.
- *Threads.* wasm3 has no locks and nothing says that an interpreter may be shared, so
  `Users` gives each interpreter one thread. Threads share the cache, as in the code.
- *The compiler is checked by running what it compiles.* Each state of `Compiler` carries
  the values that slots and registers hold in one execution of the code, and beside every
  operand the value Wasm gives it. Values are names; an operator makes a new one. Branches
  go either way. A loop is left when it branches back: what is in the places of its label
  and under it must be what was there when it was entered, which makes further iterations
  like the first.
- *Records of block results* are entries of the stack, as in the code; copies to one that
  names a register go to a slot with the number of the register, which is above any frame,
  and are left out (`m3_compile.c:989`).
- *The parser's bytes are left out*: every read gives any value or fails, which is why the
  same sequence of sections may end in a module or in an error at any entry. Running out of
  memory is different from that: `Read_utf8` then returns NULL and no error, and an array
  that did not grow has still counted its element. `short` remembers it.
- *An operator may leave anything above its result.* A signed sum or product of C that
  overflows is undefined; what compilers do is right in the low bits only. `Assigned` gives
  every register with those bits, and `BinaryRight` shows that no other operator looks at the
  rest.
- *Scaled numbers.* A page of memory has two bytes and a u32 three bits, so that the wrap
  in `memory.grow` (`m3_exec.h:692`) happens; usage counts are bytes in the code, 0..3 here.

## What is checked

| run | states | properties | what it shows |
|---|---|---|---|
| `code_pages` | 790,343 | `TypeOK`, `PagesUnshared`, `PagesCounted`, `CompiledCodeKept`, `RoomForBridge`, `OnlyThrowLosesPages` | Three pages of 7 or 15 words, one function and one import: every interleaving of emits, bridges, else blocks, br_tables, failed allocations, failed compilations, expressions and runtime lifetimes. |
| `interpreters` | 58,691 | `TypeOK`, `RelockOnlyInStart`, `BlocksMatch`, `HandlerKept`, `ImplementsRegistry`, `LockReleased` | Two threads with an interpreter each, an import of one name in both, two blocks: imports, imports over imports, failed imports, calls, traps, calls from blocks, also under a start function, and deinit, interleaved at every entry and exit of Atom.lock, implement a registry of blocks per interpreter; `function(named:)` always gives its lock back. |
| `interpreters_relock` | violated | `NoRelock` | A block that the start function calls, and that calls or imports into the same interpreter, locks interpreter.lock a second time on the same thread. |
| `execution` | 191,566 | `TypeOK`, `EntriesHaveCode`, `StartFirst`, `StartOnce`, `BaseRestored`, `WildOnlyAfterFailure`, `OperatorsHold` | Four functions, one imported, one in the table, one the start function; failed loads, failed allocations, late links, traps, and imported functions that use the interface, nested up to eight frames. Over all words of three and six bits, the integer operators against their definition in WebAssembly. |
| `execution_wild` | violated | `NoWildCall` | A call site whose callee did not compile the first time, for want of a linked import, jumps into the M3Function the second time. |
| `linear_memory` | 658,165 | `TypeOK`, `MemoryAtHand`, `OutsideOnlyBySwift`, `GrowTold` | Pages of two bytes, at most two of them, u32 of three bits: every load, failed loads, every memory.grow also with realloc moving or failing, loops, calls, imported functions that call again, traps, up to five C frames; Swift accesses bytes and values of two bytes, also one byte before the memory. Of all accesses only those of Swift that are named touch what is not memory. |
| `linear_memory_values` | violated | `InBounds` | valuesFromHeap of values longer than a byte, at an offset from 0 on, reads past the end of the memory. |
| `func_types` | 4,691 | `TypeOK`, `PointerEquivalence`, `TypesKept`, `ImplementsTable`, `SignaturesHold` | Five addresses, three structures, two modules of up to three types: every order of parsing, failing, freeing and parsing again in one environment, and in those that follow it, all of which look to modules like `TypeTable`. Both ends of a signature, over all blocks of two arguments and all strings of five characters. |
| `parser` | 671,963 | `TypeOK`, `StringsOwned`, `ImportsFirst`, `ExportsFound`, `CrashOnlyShort`, `NumbersHold`, `SectionsInOrder` | Three strings, two texts, sections of up to two entries: every sequence of sections, every entry failing at every point, memory running out at every allocation, and freeing the module. Every LEB128 number of up to four bytes, two bits to a byte, in words of three and five bits. |
| `compiler` | 62,891 | `TypeOK`, `ValuesRight`, `UsageCounted`, `RegistersHeld`, `BlocksStartInSlots` | One i32 argument, nine slots, four operands, one block inside the function: every sequence of constants, locals, globals, operators, conversions, select, memory operations, calls, blocks, loops, ifs and branches, and each way its execution can take. |
| `compiler_usage` | violated | `StillAllocated` | An f64 argument named by two operands and then set: the second cell of their slot is free while one is left. |
| `compiler_branch` | violated | `ValuesRight` | br_if to a block with a float result: an operand moves out of fp0 in code that is jumped over when the branch is not taken. |

A run marked violated checks one property that the code does not have (see Findings). All
runs but those of `CodePages` and `Compiler` check for deadlock too. `CodePages` stops when a
page was written past its end, after a failed `EmitOp` that was ignored; `Compiler` stops
when the function is compiled or refused.

### Bounds

- `code_pages`: pages of 7 or 15 words with a threshold of 4 have room for one or three
  operations, so pages run full in the middle of everything; three pages are one to write
  to, one that is saved, one to bridge to. The pages are symmetric.
- `execution`: the call graph has a start function that calls an import, recursion, a call of
  an import and a lazily compiled callee. Eight frames are three nested uses of the
  interface. `Malformed` is empty since a missing import has the same effect and can be
  repaired.
- `linear_memory`: 0 to 2 pages, any initial and maximum size, two addresses: realloc may
  move the block or keep it (the addresses are symmetric). Offsets reach one past the largest
  memory, those of Swift also one byte before it. `linear_memory_values`: 0 to 3 pages, and no
  offset before the memory, since it is about values.
- `func_types`: 5 addresses are fewer than two modules of three types and the simple type
  need, so allocation also fails for want of space. Types not simple, modules and addresses
  are symmetric.
- `interpreters`: both interpreters import the same name, so that their handlers differ by the
  identifier only; the first may replace its block by another. Three frames: a call, a
  block, a call from the block.
- `parser`: two entries are two functions with names of their own or the same one, or a
  function and a global; three strings are the two names of an import and one of an export
  or of the name section. Two functions and one global. Section bytes are left
  out (4, 5, 9, 12) where the model does with them what it does with 11; 13 is no section. One custom section may come
  anywhere.
- `Leb` in `parser`: with two bits to a byte, a u32 of three bits ends in the middle of its
  second byte and a u64 of five in the middle of its third, as 32 and 64 bits do with seven;
  four bytes are one too many for both.
- `Operators` in `execution`: words of three and six bits, bytes of one, so that i8, i16, i32 and
  i64 are all different; an f32 of two bits is smaller than an i32 and an f64 of five is
  between i32 and i64, which is what the limits of a conversion depend on.
- `Signatures` in `func_types`: two arguments, of the same or different types, with a result or
  none; the string of a block is written in the same way for each number of arguments up
  to eight. Five characters fill the three places such a string has, before and after the
  bracket.
- `compiler`: one i32 argument, four entries on the stack, a block inside the function, nine
  slots. Operands of both register classes and both widths, results of blocks in slots and
  in `fp0`, two of three kinds of constants. The instance leaves out what is known to go
  wrong, so that the rest can be checked behind it: arguments of two cells (run
  `compiler_usage`), float results at `br_if` and `br_table` (run `compiler_branch`), and
  blocks with parameters or several results (hazards at `m3_compile.c:928` and `:1376`). In
  unreachable code a block has at most `MaxDead` operands.

### Fairness

Only `Interpreters` has a liveness property, `LockReleased`; the run `interpreters` is of
`FairSpec` for all its properties. `FairSpec` assumes that a thread
that can go on does (weak fairness of `Step`), that a thread that waits for
`Atom.lock` gets it in the end (strong: the lock is taken and given back in between), and
that functions and blocks return (strong, since they may call one another before). The
last is an assumption on the guest: wasm3 cannot interrupt a function, and an endless loop
in a start function does hold the lock for ever. Nothing is assumed of the program that
calls the interface.

## Findings

- `interpreters_relock`: `function(named:)` holds the interpreter's lock while wasm3 runs the
  start function; a block called there that uses the same interpreter locks it again, which
  `Lock.swift` makes a precondition failure. `RelockOnlyInStart` shows there is no other way.
- `execution_wild`: when the lazy compilation at a call site fails, the site is already
  `op_Call` and the operand still an `M3Function`; the next call there jumps into it.
  `WildOnlyAfterFailure` shows there is no other way.
- `linear_memory_values`: `valuesFromHeap` checks the count of values as if each was a byte.
  `OutsideOnlyBySwift` shows that nothing else reaches behind the memory.
- `compiler_usage`: the usage count of a two-cell slot is kept in one cell and counted down in
  both.
- `compiler_branch`: `br_if` to a block with a float result moves an operand out of `fp0` in
  code that is skipped when the branch is not taken.

Smaller disagreements. `m3_parse.c:112` says that types in the table leak when the section
fails: `TypesKept` shows they do not, the environment has them. A failed import also takes
away the block of an earlier, working import of the same name (`Interpreter.swift:126`):
`HandlerKept` says it is the only thing that does. An exported function may not be found by its name: the
name section, when it comes before the exports, gives it one of the places for names
(`m3_parse.c:516`), or gives the name to a function before it; `ExportsFound` says when it
is found. `memory.grow` adds in 32 bits, so a large
delta wraps and may shrink the memory; no property forbids it, and `GrowTold` and
`OutsideOnlyBySwift` hold with it. `Heap.isValid` compares only the end of an access with the
size (`Heap.swift:17`), and `byteOffset` is an `Int`: of a negative one every heap function
touches bytes before the memory instead of throwing `invalidMemoryAccess`. `InBounds` is false
then, too; `OutsideOnlyBySwift` says so and keeps everything else out.

## What is proved

tlapm proves the following for every value of the constants that satisfies the
assumptions named in the modules. The argument is the same in each: an invariant `IInv`
that holds initially, is kept by every action (a lemma for each), and implies the
properties.

- `CodePagesProofs`: `TypeOK`, `PagesUnshared`, `PagesCounted`, `CompiledCodeKept`,
  `RoomForBridge`, for any pages, sizes, functions and nesting. None of them is inductive.
  `Shape` says what a compilation holds at each point, for example that there is a saved
  page when an else block ends. `HeldActive` makes the counters survive a throw that loses
  pages: they count what was lost as active. `EntryKept` is `CompiledCodeKept` for the
  function still in compilation, `TableRoom` carries the room for the pointers of a br_table
  from the check to the last write. The one thing assumed of the operations is that their
  operands fit the threshold (`OperandsAssumption`). `OnlyThrowLosesPages` follows a page
  through each step: `Pointed` collects everything that points to it (the runtime's lists, the
  released pages, `o->page`, the saved pages of the C frames), and every action but a throw
  keeps one of them (`KeepsPages`).
- `ExecutionProofs`: `TypeOK`, `EntriesHaveCode`, `BaseRestored`, `WildOnlyAfterFailure`,
  `StartOnce`, and `StartFirst` if the start function is not the function with index 0, for
  any module. `SitesOK` says where `op_Call` may stand; `Good` says how frames alternate
  between wasm3 and its callers and that each imported function has saved the base of the
  one below it, so that leaving any number of frames puts the right one back; `StartOK` ties
  `startFunction` to the frames that run it. For index 0 the theorem would be false:
  `m3_env.c:721` reads it as no start function.
- `LinearMemoryProofs`: `TypeOK`, `MemoryAtHand`, `OutsideOnlyBySwift`, `GrowTold`, for any sizes and
  depth. `Entered` says that Swift is below every entrance to wasm3, so that a frame that is
  not one belongs to code that passes `_mem` up and down; `LoadedHasMemory` that memory stays
  once there is any. `OutsideOnlyBySwift` rests on it: code that runs has the memory itself
  (`FreshPointer`), so the length it looks at is that of the memory (`AccessInside`), and an
  access whose end is in it can only be outside before it (`TouchesEnd`). `InBounds` is false for
  a negative `byteOffset` and for values of more than one byte; `AccessesInBounds` proves it for
  the case that there is neither (`Bytes`, `Forward`).
- `FuncTypesProofs`: `TypeOK`, `PointerEquivalence`, `TypesKept`, `ImplementsTable`, for any
  number of modules and types. The list has no two of one structure (`ListDiffers`), all of it is live
  (`ListLive`), all types in use are on it (`UsedListed`), and the one being read is not yet
  (`ReadApart`). The refinement of `TypeTable` needs besides that one module at a time is
  parsed (`OneParses`). Pointers in use are on the list, whose types differ, so pairs of equal
  pointers are pairs of equal types (`SamePointers`); no step writes to a type in use
  (`TypesStay`, `TypesAdded`, `TypesDropped`), so each step of `FuncTypes` is one of
  `TypeTable` or leaves it unchanged (`NextImplements`). `SignaturesHold` is proved there too,
  for any number of arguments and any strings. Reading a signature is a fold over its
  characters, and what has been read after k of them is one of two things: the letters so far
  are the types so far and more will fit the memory for them (`Sound`), or reading has failed
  for good (`Broken`). The string Swift writes is then followed letter by letter (`ReadBack`),
  and what comes out is compared with the declared type (`Linked`).

- `InterpretersProofs`: `TypeOK` and `RelockOnlyInStart` for any threads, interpreters, calls
  and depth. Who is inside `Atom.lock` holds it, and what it has read is still there
  (`SeenCurrent`): nobody writes a row between another thread's read and its write. Who holds
  `interpreter.lock` is in `function(named:)` (`LockHeld`); `Shape` says which frame can be on
  which, whose frames they are, and that an interpreter which is made or freed has no other. The refinement of `BlockRegistry` (`RegistryImplemented`) needs no more than that:
  identifiers are given once (`IdsGiven`), so the row of an identifier is one interpreter's
  table, and each write of a row is `Add`, `Remove` or `Clear`, the trampoline's read is `Call`.
  `HandlerKept` and `BlocksMatch` are about what an interpreter has linked and what the cache
  has for it. Between `link` and the write of the row they are promised only to the thread that
  works, so both theorems assume `OneUser`: at most one thread uses an interpreter, as wasm3
  demands. `BlocksMatch` assumes `ContextsApart` besides: two imports of an interpreter whose hash
  is the same have the same name. Nothing in the code sees to that: it hashes namespace and name
  put together (`Interpreter.swift:94`), and of two imports that collide the later one answers
  for both.
- `ParserProofs`: `TypeOK`, `SectionsInOrder`, `StringsOwned`, `ImportsFirst`, `ExportsFound`,
  `CrashOnlyShort`, for any strings and number of entries. For the order, `Ordered` ties
  `expectedSection` to the sections met so far, `Counts` and `Bodies` tie the tables to the
  sections that fill them. For the owners, `OwnedOnce` says that a string on the heap has exactly
  one place (a name, an export, a field of an import or a local of the section's parser); each
  action makes a string, hands it over or frees it, and only an array that did not grow
  (`noArray`) loses one. `Named` says which names functions have while the exports are read;
  `ExportsFound` then needs that there is a least function of a name, which `Least` gets from
  the well-foundedness of the numbers. `Shortage` says what a `short` step leaves, and the only
  crash there is comes from it. `ReadersStop` is the half of `NumbersHold` that says where a
  number ends: after k bytes all of them continue, one of them has ended the number, or there
  were as many as there may be (`Going`, `Ended`, `Over`).
- `CompilerProofs`: `TypeOK`, `RegistersHeld`, `BlocksStartInSlots`, for functions, frames,
  stacks and constant tables of any size and blocks nested to any depth. `StackFits` says where
  operands may be, `ScopesFit` how blocks lie on one another, `RegistersFit` that a register
  that is taken is taken by an operand of the innermost block and that an operand in a
  register has taken it, unless it was pushed in dead code. The records of a block's results
  are exempt: they may name `fp0` without having it (`InUse`). Every step an instruction is
  made of has a lemma with what it does to the stack and the registers (`Pushed`, `Popped`,
  `Moved`, `Free`); every loop is a fold. While a block is opened or ended the stack fits
  other blocks than those on `block.outer`, hence the `in` of `Good`. Two hypotheses:
  `NoParams`, blocks have no parameters, as in the first version of WebAssembly (the hazards
  at `m3_compile.c:928` and `:1376` are about those that have), and `OperatorsFit`, which says
  of the operators what WebAssembly's have: one or two operands, both float or both integer
  when there is a result, and no float result of integers, which is a conversion
  (`MCCompiler` has TLC evaluate both).

Only model-checked:

- `LockReleased`: liveness, which is out of the prover's reach.
- `ValuesRight` of `Compiler`, which relates the stack to an execution of arbitrary code, and
  `UsageCounted`; and everything about blocks with parameters.
- The values in `Leb` and all of `Operators`: they are about bits, that is powers of two, and
  the provers know nothing of exponentiation.

Induction: the library's theorems take an operator as a parameter, which no installed prover
can instantiate. `Folding` has the operator that is folded and the invariant as CONSTANTS
instead, proves by the least counterexample that what holds at the start and is kept by each
item holds at the end (`Invariant`), and is instantiated once for each fold.

## Not modelled

- The bytes of a module, and what the parser does with the memory, table and data segments
  except keeping them.
- Values of globals: each is copied once. Floating-point arithmetic, which is the C
  compiler's; in `Compiler` each operator makes a new value.
- Conversions between Swift values and 64-bit places, which keep the bits.
- WASI, libc and tracing imports (host calls, not compiled in), debug output, the C
  extensions for building modules, `ReadWriteLock` and `RecursiveLock` (not used).
- Two threads on one interpreter: a data race on everything wasm3 has.
- Blocks with parameters or several results are in `Compiler` and left out of its passing
  instance, as said under Bounds.

## Plan

Done: `CodePages`, `Execution`, `LinearMemory`, `FuncTypes`, `Interpreters`, `Compiler`, in the
order in which a fault would hurt most; then `Parser`, `Leb`, `Operators`, `Signatures`, and the
abstract `TypeTable` and `BlockRegistry`; then the proofs of all components, `Compiler` last.
Next: the counts of the compiler's slots (`UsageCounted`).
