---------------------------- MODULE Interpreters ----------------------------
(***************************************************************************)
(* The Swift side: interpreters, the process-wide cache of the blocks that *)
(* modules import, and their locks.                                        *)
(*                                                                         *)
(* wasm3 calls an imported function through one C function pointer that is *)
(* the same for all of them.  It finds the block to run in                 *)
(* ImportFunctionCache, by the identifier of the interpreter and by a      *)
(* context, the hash of the function's namespace and name.  Atom.lock      *)
(* guards the cache and the last identifier given; every interpreter has a *)
(* lock of its own that function(named:) holds while wasm3 looks the       *)
(* function up, which is when wasm3 runs the start function of the module. *)
(*                                                                         *)
(* A thread has a stack of frames, for a block that is called by a module  *)
(* may call an interpreter again.  wasm3 has no locks: every interpreter   *)
(* is used by the threads in Users, one thread in all the runs.            *)
(***************************************************************************)
EXTENDS Integers, Sequences, FiniteSets

CONSTANTS
  Thread,
  Interp,       \* Interpreter objects
  Name,         \* what the module imports: a namespace and a name
  Context,      \* hash values
  ContextOf,    \* the hash of the concatenated namespace and name
  Handler,      \* blocks given to addImportHandler
  NoThread, NoName, NoHandler,
  Users,        \* the threads that use an interpreter
  Imports,      \* what the program imports into an interpreter: names and blocks
  MaxDepth,     \* bound: frames of a thread
  MaxId         \* bound: identifiers given

ASSUME InterpretersAssumption ==
  /\ NoThread \notin Thread /\ NoName \notin Name /\ NoHandler \notin Handler
  /\ ContextOf \in [Name -> Context]
  /\ Users \in [Interp -> SUBSET Thread]
  /\ Imports \in [Interp -> SUBSET (Name \X Handler)]
  /\ MaxDepth \in Nat /\ MaxId \in Nat

VARIABLES
  nextId,       \* Atom.id
  atom,         \* the thread that holds Atom.lock
  cache,        \* ImportFunctionCache.importedFunctionCache, a row per identifier
  seen,         \* per thread: what it has read under Atom.lock
  id,           \* interpreter.id, 0 before it is given
  life,         \* of each interpreter
  linked,       \* the imports linked in its module
  started,      \* its start function has returned
  found,        \* its functionCache has the function that is called
  lock,         \* the thread that holds interpreter.lock
  stack,        \* per thread: its calls, the innermost last
  registered,   \* history: the block last imported with success
  crashed       \* a precondition of Lock failed

shared  == <<nextId, cache>>
objects == <<id, life, linked, started, found>>
vars == <<shared, atom, seen, objects, lock, stack, registered, crashed>>

------------------------------------------------------------------------------
(* Frames *)

Op == {"init", "import", "unimport", "call", "host", "deinit"}
Place == {"enter", "inside", "load", "link", "append", "find", "compile", "start",
       "found", "run", "handler"}
Frame == [op : Op, on : Interp, name : Name \cup {NoName},
          handler : Handler \cup {NoHandler}, at : Place]
Row == [Context -> Handler \cup {NoHandler}]
EmptyRow == [c \in Context |-> NoHandler]

Top(t) == stack[t][Len(stack[t])]
Below(t) == SubSeq(stack[t], 1, Len(stack[t]) - 1)
Is(t, ops, at) == stack[t] # <<>> /\ Top(t).op \in ops /\ Top(t).at = at

Push(t, f) == stack' = [stack EXCEPT ![t] = Append(@, f)]
Pop(t) == stack' = [stack EXCEPT ![t] = Below(t)]
GoTo(t, f) == stack' = [stack EXCEPT ![t] = Append(Below(t), f)]
GoOn(t, at) == GoTo(t, [Top(t) EXCEPT !.at = at])

InStart(t) == \E k \in 1..Len(stack[t]) : stack[t][k].at = "start"

\* A thread calls the interface from its own code or from an imported block.
MayCall(t, i) ==
  /\ t \in Users[i]
  /\ \/ stack[t] = <<>>
     \/ Is(t, {"host"}, "handler") /\ Len(stack[t]) < MaxDepth

InUse(i) == \E t \in Thread : \E k \in 1..Len(stack[t]) : stack[t][k].on = i

------------------------------------------------------------------------------
(* Interpreter.init, importNativeFunction, _call and deinit begin *)

BeginInit(t, i) ==
  /\ life[i] = "new" /\ MayCall(t, i)
  /\ life' = [life EXCEPT ![i] = "loading"]
  /\ Push(t, [op |-> "init", on |-> i, name |-> NoName, handler |-> NoHandler, at |-> "enter"])
  /\ UNCHANGED <<shared, atom, seen, id, linked, started, found, lock, registered, crashed>>

BeginImport(t, i, n, h) ==
  /\ life[i] = "alive" /\ MayCall(t, i) /\ <<n, h>> \in Imports[i]
  /\ Push(t, [op |-> "import", on |-> i, name |-> n, handler |-> h, at |-> "enter"])
  /\ UNCHANGED <<shared, atom, seen, objects, lock, registered, crashed>>

BeginCall(t, i) ==
  /\ life[i] = "alive" /\ MayCall(t, i)
  /\ Push(t, [op |-> "call", on |-> i, name |-> NoName, handler |-> NoHandler, at |-> "find"])
  /\ UNCHANGED <<shared, atom, seen, objects, lock, registered, crashed>>

\* The last reference goes: m3_FreeRuntime, m3_FreeEnvironment, then the cache.
BeginDeinit(t, i) ==
  /\ life[i] = "alive" /\ MayCall(t, i) /\ ~InUse(i)
  /\ life' = [life EXCEPT ![i] = "freed"]
  /\ Push(t, [op |-> "deinit", on |-> i, name |-> NoName, handler |-> NoHandler, at |-> "enter"])
  /\ UNCHANGED <<shared, atom, seen, id, linked, started, found, lock, registered, crashed>>

------------------------------------------------------------------------------
(* What is done under Atom.lock: the lock is taken and the old value read in one
   step, the new value is written and the lock given back in another *)

NothingSeen == [id |-> 0, cache |-> [k \in 1..MaxId |-> EmptyRow]]
Leave(t) == atom' = NoThread /\ seen' = [seen EXCEPT ![t] = NothingSeen]

EnterFrom(t, ops) ==
  /\ Is(t, ops, "enter")
  /\ seen' = [seen EXCEPT ![t] = [id |-> nextId, cache |-> cache]]
  /\ GoOn(t, "inside")
  /\ UNCHANGED <<shared, objects, lock, registered, crashed>>

\* Mutant of Enter: retrieveID does not take the lock.
EnterInitUnlocked(t) ==
  \/ EnterFrom(t, {"init"}) /\ UNCHANGED atom
  \/ EnterFrom(t, Op \ {"init"}) /\ atom = NoThread /\ atom' = t

Enter(t) == EnterFrom(t, Op) /\ atom = NoThread /\ atom' = t

\* Mutant of RetrieveID: the identifier is read again after it was counted up.
RetrieveIDTwice(t) ==
  /\ Is(t, {"init"}, "inside") /\ seen[t].id < MaxId
  /\ nextId' = seen[t].id + 1
  /\ id' = [id EXCEPT ![Top(t).on] = seen[t].id + 2]
  /\ Leave(t) /\ GoOn(t, "load")
  /\ UNCHANGED <<cache, life, linked, started, found, lock, registered, crashed>>

\* Atom.retrieveID
RetrieveID(t) ==
  /\ Is(t, {"init"}, "inside") /\ seen[t].id < MaxId
  /\ nextId' = seen[t].id + 1
  /\ id' = [id EXCEPT ![Top(t).on] = seen[t].id + 1]
  /\ Leave(t) /\ GoOn(t, "load")
  /\ UNCHANGED <<cache, life, linked, started, found, lock, registered, crashed>>

SetHandler(t, h) ==
  cache' = [seen[t].cache EXCEPT ![id[Top(t).on]][ContextOf[Top(t).name]] = h]

\* Mutant of AddImportedFunction: a block that is there already stays.
AddKeepsOld(t) ==
  LET f == Top(t)
      old == seen[t].cache[id[f.on]][ContextOf[f.name]]
  IN /\ Is(t, {"import"}, "inside")
     /\ SetHandler(t, IF old = NoHandler THEN f.handler ELSE old)
     /\ Leave(t) /\ GoOn(t, "link")
     /\ UNCHANGED <<nextId, objects, lock, registered, crashed>>

\* ImportFunctionCache.addImportedFunction
AddImportedFunction(t) ==
  /\ Is(t, {"import"}, "inside")
  /\ SetHandler(t, Top(t).handler)
  /\ Leave(t) /\ GoOn(t, "link")
  /\ UNCHANGED <<nextId, objects, lock, registered, crashed>>

\* Mutant of RemoveImportedFunction: the block is removed for every identifier.
RemoveForAll(t) ==
  /\ Is(t, {"unimport"}, "inside")
  /\ cache' = [k \in 1..MaxId |->
                 [seen[t].cache[k] EXCEPT ![ContextOf[Top(t).name]] = NoHandler]]
  /\ Leave(t) /\ Pop(t)
  /\ UNCHANGED <<nextId, objects, lock, registered, crashed>>

\* ImportFunctionCache.removeImportedFunction, after which the import throws.
RemoveImportedFunction(t) ==
  LET f == Top(t)
  IN /\ Is(t, {"unimport"}, "inside")
     /\ SetHandler(t, NoHandler)
     /\ Leave(t) /\ Pop(t)
     /\ UNCHANGED <<nextId, objects, lock, registered, crashed>>

\* ImportFunctionCache.removeImportedFunctions, the end of deinit.
RemoveImportedFunctions(t) ==
  /\ Is(t, {"deinit"}, "inside")
  /\ cache' = [seen[t].cache EXCEPT ![id[Top(t).on]] = EmptyRow]
  /\ life' = [life EXCEPT ![Top(t).on] = "gone"]
  /\ Leave(t) /\ Pop(t)
  /\ UNCHANGED <<nextId, id, linked, started, found, lock, registered, crashed>>

\* ImportFunctionCache.importedFunction, the block for the context or none.
Looked(t) == seen[t].cache[id[Top(t).on]][ContextOf[Top(t).name]]

\* The block is there and is called.
Dispatch(t) ==
  LET h == Looked(t)
  IN /\ Is(t, {"host"}, "inside") /\ h # NoHandler
     /\ Leave(t)
     /\ GoTo(t, [Top(t) EXCEPT !.handler = h, !.at = "handler"])
     /\ UNCHANGED <<shared, objects, lock, registered, crashed>>

------------------------------------------------------------------------------
(* Loading, importing *)

\* m3_NewEnvironment, m3_NewRuntime, m3_ParseModule, m3_LoadModule.  When one of them
\* fails init throws, and there is no deinit of what was made before.
Load(t) ==
  /\ Is(t, {"init"}, "load")
  /\ \E result \in {"alive", "failed"} : life' = [life EXCEPT ![Top(t).on] = result]
  /\ Pop(t)
  /\ UNCHANGED <<shared, atom, seen, id, linked, started, found, lock, registered, crashed>>

\* m3_LinkRawFunctionEx
Link(t) ==
  /\ Is(t, {"import"}, "link")
  /\ linked' = [linked EXCEPT ![Top(t).on] = @ \cup {Top(t).name}]
  /\ registered' = [registered EXCEPT ![Top(t).on][Top(t).name] = Top(t).handler]
  /\ GoOn(t, "append")
  /\ UNCHANGED <<shared, atom, seen, id, life, started, found, lock, crashed>>

\* ... fails: no such import, another signature, no page.  Nothing is linked or unlinked.
LinkFails(t) ==
  /\ Is(t, {"import"}, "link")
  /\ GoTo(t, [Top(t) EXCEPT !.op = "unimport", !.at = "enter"])
  /\ UNCHANGED <<shared, atom, seen, objects, lock, registered, crashed>>

\* importedFunctionContexts.append; the array is not read by anybody.
AppendContext(t) ==
  /\ Is(t, {"import"}, "append") /\ lock[Top(t).on] = NoThread
  /\ Pop(t)
  /\ UNCHANGED <<shared, atom, seen, objects, lock, registered, crashed>>

\* pthread_mutex_lock of a lock that the thread holds fails, and with it the
\* precondition in Lock.lock.
Relock(t) ==
  /\ Is(t, {"import"}, "append") \/ Is(t, {"call"}, "find")
  /\ lock[Top(t).on] = t
  /\ crashed' = TRUE
  /\ UNCHANGED <<shared, atom, seen, objects, lock, stack, registered>>

------------------------------------------------------------------------------
(* Calling *)

\* function(named:) of a function in functionCache ...
FindCached(t) ==
  LET i == Top(t).on
  IN /\ Is(t, {"call"}, "find") /\ lock[i] = NoThread /\ found[i]
     /\ GoOn(t, "run")
     /\ UNCHANGED <<shared, atom, seen, objects, lock, registered, crashed>>

\* ... or m3_FindFunction, the lock held ...
Find(t) ==
  LET i == Top(t).on
  IN /\ Is(t, {"call"}, "find") /\ lock[i] = NoThread /\ ~found[i]
     /\ lock' = [lock EXCEPT ![i] = t]
     /\ GoOn(t, "compile")
     /\ UNCHANGED <<shared, atom, seen, objects, registered, crashed>>

\* ... which compiles the function, ...
Compile(t) ==
  /\ Is(t, {"call"}, "compile")
  /\ GoOn(t, IF started[Top(t).on] THEN "found" ELSE "start")
  /\ UNCHANGED <<shared, atom, seen, objects, lock, registered, crashed>>

\* ... runs the start function if it has not yet returned without a trap, ...
StartReturns(t) ==
  /\ Is(t, {"call"}, "start")
  /\ started' = [started EXCEPT ![Top(t).on] = TRUE]
  /\ GoOn(t, "found")
  /\ UNCHANGED <<shared, atom, seen, id, life, linked, found, lock, registered, crashed>>

\* ... and is put in functionCache.
Found(t) ==
  LET i == Top(t).on
  IN /\ Is(t, {"call"}, "found")
     /\ found' = [found EXCEPT ![i] = TRUE]
     /\ lock' = [lock EXCEPT ![i] = NoThread]
     /\ GoOn(t, "run")
     /\ UNCHANGED <<shared, atom, seen, id, life, linked, started, registered, crashed>>

\* m3_FindFunction throws, and the defer of withLock gives the lock back: ...
FindThrows(t, at) ==
  /\ Is(t, {"call"}, at)
  /\ lock' = [lock EXCEPT ![Top(t).on] = NoThread]
  /\ Pop(t)
  /\ UNCHANGED <<shared, atom, seen, objects, registered, crashed>>

\* Mutant of FindFails: the lock is given back by the callers that succeed only.
FindFailsLocked(t) ==
  /\ Is(t, {"call"}, "compile")
  /\ Pop(t)
  /\ UNCHANGED <<shared, atom, seen, objects, lock, registered, crashed>>

\* ... it does not find the function, or the function does not compile ...
FindFails(t) == FindThrows(t, "compile")

\* ... or the start function traps, or calls what does not compile.
StartTraps(t) == FindThrows(t, "start")

\* op_CallRawFunction, from the start function or from the function called.  A call
\* of an import that is not linked does not compile.
CallImport(t, n) ==
  LET i == Top(t).on
  IN /\ Is(t, {"call"}, "start") \/ Is(t, {"call"}, "run")
     /\ n \in linked[i] /\ Len(stack[t]) < MaxDepth
     /\ Push(t, [op |-> "host", on |-> i, name |-> n, handler |-> NoHandler, at |-> "enter"])
     /\ UNCHANGED <<shared, atom, seen, objects, lock, registered, crashed>>

HandlerReturns(t) ==
  /\ Is(t, {"host"}, "handler")
  /\ Pop(t)
  /\ UNCHANGED <<shared, atom, seen, objects, lock, registered, crashed>>

\* A block that throws, and an import without one, trap: m3_FindFunction or
\* wasm3_CallWithArgs returns the error, the one with the lock given back.
Trap(t) ==
  LET caller == stack[t][Len(stack[t]) - 1]
  IN /\ \/ Is(t, {"host"}, "handler") /\ UNCHANGED <<atom, seen>>
        \/ Is(t, {"host"}, "inside") /\ Looked(t) = NoHandler /\ Leave(t)
     /\ stack' = [stack EXCEPT ![t] = SubSeq(@, 1, Len(@) - 2)]
     /\ lock' = IF caller.at = "start" THEN [lock EXCEPT ![caller.on] = NoThread] ELSE lock
     /\ UNCHANGED <<shared, objects, registered, crashed>>

\* The function returns or traps.
CallReturns(t) ==
  /\ Is(t, {"call"}, "run")
  /\ Pop(t)
  /\ UNCHANGED <<shared, atom, seen, objects, lock, registered, crashed>>

------------------------------------------------------------------------------
Init ==
  /\ nextId = 0 /\ atom = NoThread
  /\ cache = [k \in 1..MaxId |-> EmptyRow]
  /\ seen = [t \in Thread |-> NothingSeen]
  /\ id = [i \in Interp |-> 0]
  /\ life = [i \in Interp |-> "new"]
  /\ linked = [i \in Interp |-> {}]
  /\ started = [i \in Interp |-> FALSE]
  /\ found = [i \in Interp |-> FALSE]
  /\ lock = [i \in Interp |-> NoThread]
  /\ stack = [t \in Thread |-> <<>>]
  /\ registered = [i \in Interp |-> [n \in Name |-> NoHandler]]
  /\ crashed = FALSE

\* A program calls the interface when it likes ...
Begin(t) ==
  \E i \in Interp :
    \/ BeginInit(t, i) \/ BeginCall(t, i) \/ BeginDeinit(t, i)
    \/ \E n \in Name, h \in Handler : BeginImport(t, i, n, h)

\* ... and then goes on,
Step(t) ==
  \/ Enter(t) \/ RetrieveID(t) \/ AddImportedFunction(t) \/ RemoveImportedFunction(t)
  \/ RemoveImportedFunctions(t) \/ Dispatch(t)
  \/ Load(t) \/ Link(t) \/ LinkFails(t) \/ AppendContext(t) \/ Relock(t)
  \/ FindCached(t) \/ Find(t) \/ Compile(t) \/ Found(t) \/ FindFails(t)
  \/ Trap(t)

\* as functions and blocks do, which may call one another before they return.
Finish(t) == StartReturns(t) \/ StartTraps(t) \/ HandlerReturns(t) \/ CallReturns(t)

\* The program may end when nothing is called, and ends when it has crashed.
Done == (crashed \/ \A t \in Thread : stack[t] = <<>>) /\ UNCHANGED vars

Next ==
  \/ /\ ~crashed
     /\ \E t \in Thread :
          Begin(t) \/ Step(t) \/ Finish(t) \/ \E n \in Name : CallImport(t, n)
  \/ Done

\* Threads run, a mutex is given in the end to a thread that waits for it, and the
\* functions of modules and the blocks they call return: wasm3 cannot interrupt them.
Fairness ==
  \A t \in Thread :
    /\ WF_vars(~crashed /\ Step(t))
    /\ SF_vars(~crashed /\ Enter(t))
    /\ SF_vars(~crashed /\ (StartReturns(t) \/ StartTraps(t)))
    /\ SF_vars(~crashed /\ (HandlerReturns(t) \/ CallReturns(t)))

Spec == Init /\ [][Next]_vars
FairSpec == Spec /\ Fairness

------------------------------------------------------------------------------
(* Properties *)

TypeOK ==
  /\ nextId \in 0..MaxId
  /\ atom \in Thread \cup {NoThread}
  /\ cache \in [1..MaxId -> Row]
  /\ seen \in [Thread -> [id : 0..MaxId, cache : [1..MaxId -> Row]]]
  /\ id \in [Interp -> 0..MaxId]
  /\ life \in [Interp -> {"new", "loading", "alive", "failed", "freed", "gone"}]
  /\ linked \in [Interp -> SUBSET Name]
  /\ started \in [Interp -> BOOLEAN]
  /\ found \in [Interp -> BOOLEAN]
  /\ lock \in [Interp -> Thread \cup {NoThread}]
  /\ stack \in [Thread -> Seq(Frame)]
  /\ registered \in [Interp -> [Name -> Handler \cup {NoHandler}]]
  /\ crashed \in BOOLEAN

\* An import that is linked has a block for as long as its interpreter lives, whatever
\* the others register, remove or free: the one step that takes the block away is that
\* of an import into the same interpreter, for the same context, that has failed
\* (Interpreter.swift:126, ImportFunctionCache.swift:31).
Bare(i) == {n \in linked[i] : cache[id[i]][ContextOf[n]] = NoHandler}
ImportFails(t, i, c) ==
  Is(t, {"unimport"}, "inside") /\ Top(t).on = i /\ ContextOf[Top(t).name] = c
BlocksStay ==
  \A i \in Interp : life'[i] = "alive" =>
    \A n \in Bare(i)' \ Bare(i) : \E t \in Thread : ImportFails(t, i, ContextOf[n])
HandlerKept == [][BlocksStay]_vars

\* Every interpreter has a registry of blocks of its own, and every critical section of
\* Atom.lock is one step of one of them: no identifier is shared (Atom.swift:18), no
\* change of a row is lost or seen by halves (ImportFunctionCache.swift:20), what runs is
\* what the row has, and deinit leaves nothing behind (Interpreter.swift:52).
Blocks == [i \in Interp |-> IF id[i] = 0 THEN EmptyRow ELSE cache[id[i]]]
RunningIn(t) ==
  {[depth |-> k, on |-> stack[t][k].on, context |-> ContextOf[stack[t][k].name],
    handler |-> stack[t][k].handler] : k \in {l \in 1..Len(stack[t]) : stack[t][l].at = "handler"}}
Registry == INSTANCE BlockRegistry WITH
  blocks <- Blocks,
  gone <- {i \in Interp : life[i] = "gone"},
  running <- [t \in Thread |-> RunningIn(t)],
  Depth <- 1..MaxDepth
ImplementsRegistry == Registry!Spec

\* The block that is called is the one that was imported last with success for that
\* namespace and name (Interpreter.swift:58).
CallsOwnBlock ==
  \A t \in Thread : Dispatch(t) => Looked(t) = registered[Top(t).on][Top(t).name]
BlocksMatch == [][CallsOwnBlock]_vars

\* A thread locks a lock that it holds only where a block that the start function has
\* called uses the interpreter again (Interpreter.swift:134): every other way through
\* function(named:) gives the lock back before the thread can come back.
RelockOnlyInStart == crashed => \E t \in Thread : InStart(t)

\* No thread locks a lock that it holds: the precondition in Lock.lock (Lock.swift:67).
NoRelock == ~crashed

\* interpreter.lock is never held for ever, however the call under it ends, unless the
\* program has crashed.
LockReleased == \A i \in Interp : lock[i] # NoThread ~> lock[i] = NoThread \/ crashed
=============================================================================
