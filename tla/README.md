# Lua 5.3 as used by self_conf: models and proofs

The repository holds configuration notes and, under `src/lua`, the sources of
Lua 5.3.5 with a few C libraries of its own: two word filters (`lua-crab.c`,
`crab.c`), a UTF-8 library and a copy of LuaFileSystem. The notes hold no
program. This directory models those sources in three groups:

- what keeps references to objects and shares them with the incremental
  collector: the collector itself, upvalues, strings, tables, tag methods;
- what runs programs: calls, errors and coroutines; the scanner, the parser, the
  code generator and the interpreter loop;
- algorithms that only compute: sorting, patterns, numbers, packed and
  precompiled data, UTF-8; and the word filters.

- `*.tla` without a prefix: one module per component, named after what it models.
- `MC*.tla` and `*.cfg`: the instances TLC checks. `tlc -config barrier.cfg MCLuaGC.tla`
- `*_proofs.tla`: theorems for every value of the constants: of the collector
  (`LuaGC_proofs`), of calls (`LuaCalls_proofs`), of upvalues (`LuaUpval_proofs`), of short strings (`LuaString_proofs`), of
  the word filters (`Crab_proofs`, and `CrabList_proofs`, which extends it), of accesses
  through metatables (`LuaMeta_proofs`). `tlapm LuaGC_proofs.tla`
- `PROJECT.json`: components, runs, the lines each definition stands for, hazards.

A definition `name_Word` before a definition `name` is a bug that `name` could
have had. No specification uses it; it documents, for each property, a mistake
in the code that the property would show.

## 1. Inventory

| Component | State | Operations | What is hard, what makes it correct |
|---|---|---|---|
| Collector (`lgc.c`) | colours, gray lists, `allgc`/`finobj`/`tobefnz`, `sweepgc`, `gcstate` | `singlestep`, `luaC_fullgc`, finalizers, barriers | interleaves with the program at every allocation. Nothing in use is freed; weak entries go when, and only when, they must; finalizers run once, on what is unreachable; garbage goes in the end |
| Closures and upvalues (`lfunc.c`, parts of `lvm.c`, `lapi.c`, `lgc.c`) | open list of a thread, `twups`, reference counts, closure cache | capture, close, `pushclosure`, `lua_upvaluejoin`, remark | variables move from the stack to the upvalue; a closure outlives its thread. Every closure sees the right variables; none dangles |
| Calls, errors, coroutines (`ldo.c`, `lcorolib.c`) | `CallInfo` list, `nny`, `nCcalls`, `errfunc`, `errorJmp`, the C stack | call, protected call, throw, resume, yield, recover | long jumps drop C frames. Errors go to the innermost protected call, yields resume where they were, counters stay right |
| States, threads (`lstate.c`) | `lua_State`, `global_State` | create, close | closing with pending finalizers |
| Strings (`lstring.c`) | string table, API cache, seeds | intern, resize, `luaS_new` | a dead string is found again and resurrected; one string per content |
| Tables (`ltable.c`) | array part, hash part, `lastfree`, `flags` | get, set, rehash, next, length | collisions move nodes; growth during insertion; traversal while clearing. A map, with a border as length |
| Tag methods (`ltm.c`) | `flags` bits of metatables | lookup, invalidate | an absent method is cached: stale cache |
| Virtual machine (`lvm.c`) | registers, `pc` | instructions | overflow, integer/float comparison, numeric loops at the limits, interrupted instructions |
| API (`lapi.c`) | the stack of a thread | push, get, set, call | barriers at every store |
| Debug (`ldebug.c`, `ldblib.c`) | hooks and counters | hook, inspect | set by signals; yields inside a hook |
| Lexer, input (`llex.c`, `lzio.c`) | one token of look-ahead, buffer | next, read | numbers and escapes at their limits |
| Parser, code generator (`lparser.c`, `lcode.c`) | blocks, labels, pending jumps, registers | statements, `goto`, patch lists | jumps into scopes, lists threaded through instructions |
| Precompiled code (`ldump.c`, `lundump.c`) | none | dump, load | what is loaded is what was dumped |
| Memory, objects (`lmem.c`, `lobject.c`) | `GCdebt` | grow, convert | growth at the limit of a size |
| Auxiliary library (`lauxlib.c`) | free list of references, buffers | `luaL_ref`, buffers | free list inside the table it manages; a buffer that moves to a userdata |
| Packages (`loadlib.c`) | `package.loaded`, C libraries | `require` | modules that require each other |
| Table, string, UTF-8, math libraries | none | sort, match, decode | algorithms: termination and result for inconsistent orders, patterns, bad bytes |
| I/O, OS, file system (`liolib.c`, `loslib.c`, `lfs.c`) | file handles, directory handles | open, close, iterate | closed twice, collected while open |
| Word filters (`lua-crab.c`, `crab.c`) | trie of hash tables; lists by first character | open, insert, filter | nodes move and tables grow in the middle of an insertion; words that begin others |
| Interpreter (`lua.c`) | `globalL` | run, stop | a signal sets a hook at any point |

How they interact. Everything runs in one system thread. The collector runs
inside allocations and calls back into the program through finalizers. Calls
and coroutines share one C stack, on which every error and yield is a long
jump. Upvalues tie closures to the stacks of threads and are counted by the one
and found by the collector through the other. Strings are interned and revived
by the same allocator path whose collector is about to free them. The word
filter is a C library with tables of its own outside the collected heap.

## 2. Plan

The order in which the models were built: the collector, as everything else
rests on it; upvalues, the one kind of memory the collector does not own; calls
and coroutines; the filters, which are the code this repository adds; the
compiler and the interpreter loop, the largest part of the code, where a mistake
is a wrong program; strings, tables and tag methods; then the algorithms of the
libraries against reference definitions.

What is left, most important first:

1. Hooks with their counters, and the fields of a hook as a signal handler
   writes them (`ldebug.c`, `lua.c`); the growth of the stack of values.
2. `luaV_finishOp` and tag methods within the loop of `LuaVM`, and its
   composition with `LuaCalls`, so that instructions are interrupted by yields.
3. References and buffers of `lauxlib.c`, `require` of `loadlib.c`.
4. The lists of `lgc.c` as linked lists with pointers to `next` fields, to show
   that the sets of `LuaGC` describe them.

A theorem worth proving next: `IsMap`, that a table is a map whatever its nodes do. Its
chains are those of `Crab`, with dead keys and relative links.

The abstract specifications: `Coroutines` for calls, `WordFilter` for the
dictionary and `StarredWords` for what both filters do with a message, `TableMap` for tables, `Metatables` for accesses through tag methods,
`LuaLang` for compiled programs, `Patterns` for matching.

## 3. The modules

### LuaGC

One action is one call of `singlestep`, one finalizer (`GCTM`), the start of
`luaC_fullgc`, or one operation of the program. Between any two of them the
program may do whatever `mutator` allows: create, push, pop, store in a table,
an upvalue of a C closure or a metatable, change `__mode`, resume and yield.

| Code | Model |
|---|---|
| `marked` bits, `currentwhite` | `color`: white is the current white, "dead" the other; black, gray, free |
| `allgc`, `finobj`, `tobefnz`, `sweepgc` | sets; `unswept` is what lies at or after `sweepgc` |
| `gray`, `grayagain`, `weak`, `ephemeron`, `allweak` | sets; `weak` and `ephemeron` are read off the colours and modes |
| `propagatemark`, `traversetable`, `traversethread` | `propagatemark`, `traverse`; the order within the gray list is free |
| `convergeephemerons` | the fixed point `Reach`, and chains in the propagation |
| `atomic` | one action with every phase of the code, in its order |
| `sweepstep`, `sweeptolive` | `sweepstep`, `SweptToLive` |
| `luaC_barrier_`, `luaC_barrierback_` | the operators of those names, used by each store as the code does |
| `luaC_checkfinalizer` | part of `setmetatable` |

Abstractions: contents of tables under a few keys; one table as registry and
globals; the mode kept with a table rather than looked up in its metatable;
strings are objects without references; the user value of userdata, Lua
closures, prototypes and fixed objects left out (closures: next module); debt
and pause replaced by a collector that may run at any point. A full collection
inside a finalizer is another `luaC_fullgc`. Only the main thread resumes
coroutines here. `SweepMax` and `StackSize` are bounds of instances.

Properties. `LiveRoots` and `LiveRefs`: nothing in use is freed or about to be.
`BlackToWhite`: the invariant of the mark phase. `GrayListed`: what is gray is in
a list that will be visited. `IInv`: the inductive invariant of the proofs.
`WhiteAfterSweep`: a cycle ends with every object white and none left dead.
`FinalizeOnlyUnreachable`, `WeakEntriesKept`, `FinalizedNoWeakValue`: what the
atomic phase may clear and resurrect (manual, 2.5.1 and 2.5.2).
`FullCollects`: a full collection that runs no finalizer (an emergency one)
leaves exactly what can be reached from the roots and the pending finalizers, strings
of weak tables, and, where a table with weak values is left, keys:
`traverseweakvalue` marks the key of every entry, also of those the atomic phase
clears a moment later, so that such a key, and what it refers to, waits for the next
collection (`Floating`). `GarbageFreed`, `Finalized`: liveness.

Fairness: `WF_vars(collector)`. A program that allocates calls
`luaC_checkGC`, whose debt only grows until `luaC_step` works it off; a program
that stops allocating collects nothing, and of that nothing is claimed. The run
`progress` has no emergency collections: a program in which every allocation
fails and recovers through one never leaves the cycle for `GCScallfin`, and its
finalizers can wait for ever. That is how the code is meant to behave.

### LuaUpval

State and operations of `lfunc.c` with the instructions and calls that use it:
`luaF_findupval`, `luaF_close`, `pushclosure` and `getcached`, `OP_SETUPVAL` and
its barrier, `lua_upvalueid`/`join`, `freeLclosure`, and of the collector:
`traverseLclosure`, `traversethread`, `remarkupvals`, the clearing of caches,
and the sweep. Stack slots are positions, so that reallocation of a stack
(`correctstack`) is the identity; frames are reduced to the level at which
variables are closed. Prototypes hang on a function that stays in use. An
upvalue is named by the smallest free number.

Properties. `Consistent` is what `lfunc.c` must keep: counts are exact and
nothing is leaked (`Counted`); the open list is in order, no two for one slot
(`OpenList`); a live thread with open upvalues is in `twups`, and no thread in it
is gone (`Twups`). `NoneLost` is what the collector must not take: what an
upvalue reaches is alive even when its thread is not (`LiveValues`), and so is a
cached closure (`LiveCache`). `RightVariables`: a cached closure is given out
only when it has the same variables.
`VariablesKept`: what a closure reads changes by assignments only, not when
its variable is closed, its block left or its thread freed.
`GarbageFreed`: no closure or coroutine stays garbage for ever. It says nothing
of one that is garbage at times: the cache of a prototype can bring it back.
Fairness is that of the collector, as above.

Captures through the variables of an enclosing function (`Desc[p][i].instack =
FALSE`) are in the model; the instances use local variables only, as the other
kind multiplies the states beyond what a run can cover.

### LuaCalls and Coroutines

`Coroutines` says what calls promise: each thread has a stack of functions, some
of which guard those above; an error goes to the innermost guard of its thread or
ends the thread and is told to who resumed it; a message handler runs where the
error is; a coroutine may yield unless a call on its stack is a wall, and goes on
from there. There are no long jumps in it, no continuations, no counters.

`LuaCalls` is the code. `C` is the one C stack, a sequence of records of what each
C frame will do when it gets control back: `luaD_call`, `luaD_pcall` (with what
it saved), `lua_resume`, `luaV_execute`, a C function. `ci` are the `CallInfo`
lists. `ctl` says what is going on: a function runs, is being called, has
returned, or an error or yield is thrown. A throw is a step to `errorJmp`, which
cuts `C`; `catchPcall` and `catchResume` do what the code after
`luaD_rawrunprotected` does, `continue` is `finishCcall` or `luaV_execute`
called by `unroll`. A finalizer (`GCTM`) is a protected call that any allocation may make:
of a function at work, or of `luaD_precall` when it makes room on the stack, so that
it interrupts a call that has been counted and has not begun. It stops the collector
(`gcrunning`), which keeps allocations from running another one, but not a full collection
that the finalizer itself asks for (`luaC_fullgc` does not look), nor a restart by
`collectgarbage`; so finalizers nest, and `CollectsHere` says when. `collectgarbage("step")` is
`lua_gc(TRUE)`, `GCTM` and `lua_gc(FALSE)` where the collector was stopped. In `Coroutines` a finalizer is a function with that role, above
what it interrupts, which goes on (`back`) when it returns and gets nothing of its errors but
their kind. When a frame's work is lost, only `ci` is left to find it
again, and that is what is checked: `Implements` maps `ci`, `C` and the saved
handlers to the stacks of `Coroutines`.

`Consistent`: the variables have their types, and `nCcalls` and `nny` equal what
the C stack holds, after any returns, errors and yields (`CallsCounted`). `YieldSafe`: where `nny` allows a yield, every C
function waiting has a continuation (the assertion of `finishCcall`).
`JumpsLand`: no `errorJmp` refers to a frame that is gone. `StatusRight`:
`coroutine.status` agrees with who waits for whom.

Abstractions: what functions compute, and arguments and results; the stack of
values and its overflow; tail calls; hooks; the protected parser; C++ exceptions;
`lua_resume` without `from`. What finalizers are called, and when, is the collector's
affair (`LuaGC`): here one may run wherever the code lets it. A new coroutine takes the place of one that is over
and is not on the C stack.
`Room` and `RoomFor` bound how deep functions call each other, thread by thread, and whether a
thread exists (`MaxFrames` is a set of such bounds, one of which has to be met). The fields
`k` and `old_errfunc` are reset when their call returns, as nobody reads them
before they are set again. An error in a thread that nobody resumed (through
`lua_getinfo` of another thread, out of memory) is not modelled.

### StarredWords, WordFilter, Crab, CrabList

`StarredWords` says what filtering is, for any set of words: the longest word at each
place is starred out, left to right. `WordFilter` is a set of words that can be added to and replaced. `Crab` is the dictionary of `src/lua/lua-crab.c` (the copy
in `src/lua/src` is an older one): a trie whose nodes are hash tables with
chained scatter, `lastfree`, and doubling in the middle of an insertion.
`TablesRight`: every table is well formed and every key is found from its main
position (`Found`). `Trie`: every table hangs below exactly one node; none is
lost when `open` fails half way. `Implements`: the trie is the set of words. Tables of a
replaced dictionary stay (`old`): `lua-crab.c` never frees them (254-255), and takes its
tables from outside the collected heap. `MaxTables` bounds them. `CrabList` is `crab.c`: lists per first
character in which longer words come first, so that the first match is the
longest. Its `_hash` folds a character in two, so that different characters
can share a list; `words` has 65535 lists, none for the hash 65535, and
`HashAssumption` keeps to characters that have one. Reading and conversion of files
are external; the file is a sequence of lines, some of which are not text.

### LuaParser, LuaCode, LuaVM and LuaLang

`LuaCode` (`lcode.c`) and `LuaParser` (`lparser.c`) turn a program into
instructions as the code does: expression descriptors are discharged into
registers, pending jumps are lists threaded through the jumps themselves,
constants are folded and numbered, gotos wait for labels and are moved out of
blocks, variables of enclosing functions become upvalues. The operators of the
two modules call each other, as the C functions do; TLA+ wants mutual recursion
declared, and `luaK`, `Parse` and `code` are the one declared operator of each
module that passes a call on by name. What the scanner delivers is given as trees
for statements; an expression is the sequence of its operators and operands, so
that precedence is decided by the parser.

`LuaVM` (`lvm.c`, parts of `ldo.c`) runs the result, one instruction a step:
registers, calls, tail calls and returns, open and closed upvalues, the results
adjusted to what the caller wants.

`LuaLang` says what a program does without any of that: environments map names to
cells, every execution of a declaration makes a new cell, and a goto goes where
the manual says. It also says which programs are legal.

`RejectsRight`: the parser rejects exactly the illegal programs, and no assertion
of the parser fails. `CodeWellFormed`: registers, constants and jumps of every
instruction are in range, and jump lists have been patched. `RunsAsWritten`:
what is emitted, returned or raised is what `LuaLang` says.

Abstractions: no floats, no bitwise operators, no metatables, tables as maps; the
limits (`MaxIndexRK` and the like) are small, so that their long forms are
used. Functions run to their end: coroutines are in `LuaCalls`.

### LuaString

The string table, with chains; the cache of `luaS_new`; strings that the program
holds; a collector that marks, exchanges the whites and sweeps one string at a
time, and runs as a whole when an allocation fails, within the growth of the
table or the creation of a string. `OneStringEach`: equal strings are one object
at any time, so that comparing addresses is right; every chain has the strings that belong
in it, each once; what is held or cached is not dead. Long strings are not interned and
left out. Which of the free objects an allocation returns, and the order in which a full
collection sweeps, are fixed, as nothing depends on them.

### LuaTable and TableMap

`TableMap` is a map with a traversal that meets every entry once, entries being
changed or cleared on the way. `LuaTable` is `ltable.c`: the array part, nodes
with relative links, `lastfree`, Brent's variation, rehashing with the count of
integer keys, floats that stand for integers, growth that fails for lack of
memory, and entries whose keys the collector kills (`removeentry`) in the middle
of a traversal. `IsMap` is that refinement, with two invariants: every key is
found from its main position, and the length is a border.

### LuaMeta and Metatables

`Metatables` says what reading and writing `t[k]` mean by the fields and the metatables
alone: where an access ends, what is read there and what the fields are afterwards.
`LuaMeta` has the flags that remember absent handlers, and where they are
dropped. `MetaAsMeant`: at any time each read gives that value, and each write, of any value,
leaves those fields or calls that handler. It is an invariant, and so speaks of every access
the program could make next, not only of those it makes. `MCLanguage` extends `LuaMeta`,
as its state is a part of that of the run.

### Algorithms

Each of these modules has the functions of the code and, at its end, what they
are meant to compute, said another way.

| Module | Code | Reference |
|---|---|---|
| `LuaSort` | `ltablib.c`: `sort` as a process with its stack of intervals; `insert`, `remove`, `move`, `concat`, `unpack` | elements are kept, and in order when the order function is honest; moves happen as if all at once. `SortEnds`: it ends, however the function answers |
| `LuaArith` | `lvm.c`, `lobject.c`, `lmathlib.c`, `lbitlib.c`: integers of a few bits that wrap around, floats of fewer digits | the numbers themselves, without a width |
| `LuaPattern` | `lstrlib.c`: matching with one array of captures, `find`, `gmatch`, `gsub`, substrings | `Patterns`: items, and the first of all the ways in which they match |
| `LuaPack` | `lstrlib.c`: `pack`, `unpack`, `packsize` | each item's own bytes, aligned; what does not fit is refused |
| `LuaDump` | `ldump.c`, `lundump.c`, `lzio.c` | what was dumped is loaded; what is cut off anywhere, or has another header, is refused |
| `LuaUtf8` | `lutf8lib.c`, `luaO_utf8esc` | the shortest encodings of the characters up to 10FFFF, whose positions are counted |
| `LuaLex` | `llex.c`, numerals of `lobject.c`, `%q` of `lstrlib.c` | texts put together from tokens whose meaning is known |

## 4. Runs

| Run | Instance | Checks | Shows |
|---|---|---|---|
| `barrier` | registry, one table, a coroutine | `TypeOK`, `LiveRefs`, `BlackToWhite`, `IInv` | every interleaving of stores, metatables and thread switches with every step of a cycle keeps the tri-colour invariant; the inductive invariant of the proofs holds |
| `finalizers` | two userdata, normal and emergency full collections | `WhiteAfterSweep`, `FinalizeOnlyUnreachable` | finalizers run for unreachable objects only, resurrection, lists that change under the sweep |
| `weak` | a weak table, a userdata and a string as keys and values | `WeakEntriesKept`, `FinalizedNoWeakValue` | entries are cleared when their object is dead, kept when not, values before and keys after resurrection; strings are values |
| `ephemeron` | two userdata and a C closure, all modes, emergency full collections | `WeakEntriesKept`, `FullCollects` | chains of keys and values converge; a full collection leaves nothing that it could have freed, however the program got to the point where it starts |
| `progress` | fair collector | `GarbageFreed`, `Finalized` | garbage is freed, finalizers are called |
| `remeta` | expected violation | `LiveRefs` | see findings |
| `upvalues` | two closures, two upvalues | `Consistent`, `NoneLost`, `RightVariables` | sharing, joining, closing, caching, counts |
| `deadthread` | a coroutine and a closure over its variable; fair | `NoneLost`, `VariablesKept`, `GarbageFreed` | threads that die before their closures, and cycles through themselves |
| `joinself` | expected violation | `NoneFreedInUse` | see findings |
| `calls` | main thread; two coroutines of two functions and of one, or one of three; one handler, 5 nested C calls and 2 in excess | `Consistent`, `YieldSafe`, `JumpsLand`, `StatusRight`, `Implements` | jumps, counters and status; the threads are stacks of guarded functions, whatever jumps have cut, with finalizers inside finalizers and inside calls that are being made |
| `words` | characters 1, 2, 3, 5, which collide in small tables; 4 tables; for `crab.c`, two first characters in one list | `TablesRight`, `Trie`, `FiltersWords`, `ListFiltersWords`, `Implements` | the trie under every order of insertion; the lists under every order of lines |
| `language` | 3316 programs; the parts of the library, each from initial states of its own | `CodeWellFormed`, `RejectsRight`, `RunsAsWritten`, `OneStringEach`, `IsMap`, `MetaAsMeant`, `ListsAsMeant`, `SortEnds`, `Arithmetic`, `MatchesAsMeant`, `ComesBack`, `LexesAsWritten` | the compiler, the loop, tables, strings, tag methods and the algorithms do what their references say |

Why the bounds are enough to be of use. Colour mistakes take two objects, one
black and one white, and a third to hide the white one in: the registry, a
table and a stack. Resurrection takes an object with a finalizer that refers to
another. Ephemerons need a chain of two. A count goes wrong with two closures
that share. For calls, one coroutine has three functions as long as there is no other: one that
protects, one that protects again and one that yields or fails, so that "innermost" and
"outermost" differ; with another one it has two, which is enough for a thread to wait for one it
resumed. Two finalizers, one inside the other, take two C calls besides those of the main
function and of the resume, and the limit itself counts as an overflow: five C calls let both
finalizers run and fail, and overflow inside the second; two in excess let a handler run during
an overflow and overflow itself. The properties of states were also found to hold with three
functions in a coroutine beside another one (1,054,805 states). Tables of 1, 2 and 4 nodes with four
characters give every kind of collision and two doublings.

For `language`: a third of the programs are expressions of three operands and
two operators of different priorities, in four contexts (a seventh of all
combinations); two thirds are blocks of three pieces out of nine (declarations,
labels, gotos, captures, breaks), in three surroundings; 29 are written for one
construction each. Three keys of the table share a main position, which is what
makes a colliding node move and its chain matter, and the hash part grows to four
nodes. The string table has four strings, one of them fixed, all in one chain in
a table of four, and shrinks from 16 and grows from 1. `LuaSort` sorts all
arrays of at most five elements of two values, and some of six, with the
imbalance that makes the pivot random brought down to their size. Integers have
five bits and floats three digits, so that most integers have no float; all pairs
of numbers are tried. Patterns are all pairs of twelve items and 19 longer ones.
Bytes of packed data have three bits, and the sizes go beyond that of an integer.

Fairness: that of the collector in `progress` and `deadthread`, and
`WF_SortVars(Lib!Sorting)` in `language`: a call of `table.sort` goes on until it
returns, as its order function does in the model.

Deadlock is not checked in `words` and `language`, where every input is taken once
and programs, files and lists end. In `LuaCalls` the end of the program is an
action that changes nothing.

## 5. Proofs

`LuaGC_proofs`, for any objects, keys, modes and metatables:

| Theorem | States |
|---|---|
| `TypeCorrect` | `TypeOK` always holds |
| `Invariance` | the inductive invariant `IInv` always holds |
| `NoDangling` | `LiveRoots` and `LiveRefs`: nothing in use is collected |
| `TriColour` | `BlackToWhite` and `GrayListed`: the invariant of `lgc.h:19-24` |
| `CleanSlate` | `WhiteAfterSweep`: a cycle leaves all objects white |

They assume what the module assumes of its constants (`KindsDisjoint`,
`ConstantsOK`): the sets of addresses are disjoint, the registry is a table,
metatables are tables. All but the first also assume that `Overtake` and
`RemetaAllWeak`, the constants that turn on two known defects (section 6), are
false.

The argument. `LiveRefs` alone is not inductive: a sweep step frees what is
dead, and that nothing live refers to it follows only from how the atomic phase
left things. `IInv` adds what each phase knows: in the mark phase no black
object refers to a white one, and every gray object is in a list (`GrayListed`),
so that an empty gray list means that marking is done; stacks and weak tables
never get black; after the flip, what is dead lies in the lists still to be
swept (`SweepInv`), each object in the list its finalizer puts it in
(`ListInv`, `PlaceInv`), and everything live refers to live objects only. The
atomic phase is the heart: `Reach` is the least set that is closed under
references, and its closure is what the proof needs of the fixed point that
`convergeephemerons` computes. The proof has one step for each action and one
lemma for each group of conjuncts.

and, under the same assumptions, of what `atomic` takes away:

| Theorem | States |
|---|---|
| `FinalizedUnreachable` | `FinalizeOnlyUnreachable`: an object is queued for its finalizer only when nothing in use refers to it |
| `EntriesKept` | `WeakEntriesKept`: no collector step changes an entry but to clear one whose object is not in use |
| `FinalizedUnlinked` | `FinalizedNoWeakValue`: an object about to be finalized is no value of a weak table in use |
| `ExactMarks` | within an emergency collection what is marked, and later what is left, was needed |
| `FullCollectsAll` | `FullCollects`: such a collection leaves nothing else |

The argument. What the first table says of the collector is one half: it never takes
too much. The first three theorems need the other half for one step, `atomic`, which
marks twice (`FirstMarks` before, `SecondMarks` after the resurrection of
`tobefnz`). `MarkedClosed`: black objects that were visited refer to marked ones,
by `BlackToWhite`, so that whatever is in use, over strong references or as the
value of an ephemeron whose key is, is in `FirstMarks`; what is cleared or
resurrected is therefore not in use (`EntryGone` says which of the three passes of
`clearvalues` and `clearkeys` takes an entry and why). `FullCollectsAll` needs that the
collector marks nothing without need, which no invariant of single objects says: the
program may cut the last reference to a black object, and the object floats. In
an emergency collection no program runs, so that `Exact` is inductive: from `restart` to
`atomic` every marked object is reached from the roots in the heap as it is
(`MarkedNeeded`), and afterwards whatever is not dead was marked so
(`LeftNeeded`). `ClosedBefore` is where the two meet: references that
`atomic` removes had been followed, and what they led to is either needed otherwise
or the key of a cleared entry. That second case was missing in the first version of
`FullCollects`, and the attempt to prove it is how it was found: TLC has a
counterexample with a table of weak values, a userdata as key and another as value.

`LuaCalls_proofs`, for any threads, message handlers and limits:

| Theorem | States |
|---|---|
| `Invariance` | the inductive invariant `IInv` of that module always holds |
| `JumpsAlwaysLand` | `JumpsLand`: a jump lands in the innermost C function that protects its thread |
| `CountersAlwaysRight` | `CallsCounted`: `nCcalls` and `nny` are those of the C calls under way |
| `NeverOverflows` | no more than `MaxCCalls + ExtraCCalls` C calls are nested |
| `NothingCut` | a thread being thrown a yield has no protected call and no call without continuation on the C stack |

They assume `CallsAssumption`: there is a main thread, `None` is no handler, the
limits are positive. All of this is for programs in which finalizers run inside each other and
inside calls that are being made.

The argument. What is checked is about moments when a jump may happen; what makes
it true was fixed when each record was pushed. So `Saved` says of every record of
`C`, not only of the last one, that what it keeps (`previous`, `nny`, `nCcalls`)
is what was the case below it. Cutting the stack at a record and restoring from it
is then right whatever lay above, which is `CutGood`; `PushGood` is the same
for a push. Both hold because of `Stacked`: where the records of a thread
end, those of a thread it resumed begin, so that a jump in one thread never takes
records of a thread that goes on. `Alive` ties the threads to this: one that has
records is neither suspended nor new, except for a yield on its way to
`lua_resume`, and `lua_yieldk` let it go only with `nny` zero. `Control` says
that the last record is one of the running thread, with room for another C call.

and, of the functions that the records of the C stack run, under the same assumption:

| Theorem | States |
|---|---|
| `FramesFit` | `IInv`, `FInv` and `Collecting`: each record of the C stack fits the functions its thread has called; the collector is stopped while a finalizer is being called |
| `ConsistentAlways` | `Consistent`: the types of all fields, and the counters of calls |
| `YieldsAreSafe` | `YieldSafe`: a thread that can yield has no C function that could not go on |
| `StatusAlwaysRight` | `StatusRight`: what `coroutine.status` says of every other thread |

The argument. `IInv` says nothing of the lists of `CallInfo`, and which of them a
record of `C` runs is written nowhere: the code knows it from its position. `Fits`
gives it a name, a function `hs` with the number of functions of its thread that
had been called when each record was the last one. A thread has called as many as
its last record says; one record ends where the next one of that thread begins,
but for a resume, which finds the whole list. `Fit` says for each kind of record
what its own functions are: one C function for a body, Lua functions of which only
the first is `fresh` for an interpreter, none for `lua_callk` and `lua_pcallk`,
which waits on top of a C function with `k` unless it counts in `nny`. `YieldSafe`
follows: where `nny` is zero no such call is below, so all that waits in the thread
is Lua or has a continuation. Cutting the stack at a jump and at a return keep
`Fits` because frames that stay are those that records that stay had counted.
`Waiting` says the same of suspended threads, which have no record, and `Going`
what the last record must be for each value of `ctl.at`. A finalizer may lie on a
call that is being made (`FitPcall`), but not on another finalizer that is: this is `Collecting`,
about `gcrunning`, and what makes it true is that the one who is left to go on when a
finalizer ends (`LeaveCollects`) is no finalizer about to begin.

That `LuaCalls` implements `Coroutines` is model-checked only.

`LuaUpval_proofs`, for any closures, coroutines, prototypes with any descriptions of upvalues, and bounds:

| Theorem | States |
|---|---|
| `Invariance` | the inductive invariant `IInv` always holds |
| `UpvaluesConsistent` | `Consistent`: counts are exact, nothing leaks, open lists are in order and complete |
| `NothingLost` | `NoneLost`: what stacks, upvalues and caches lead to is never collected |
| `VariablesRight` | `RightVariables`: a new or a cached closure has the variables its prototype names |
| `ReadingsKept` | `VariablesKept`: what a closure reads changes by assignments only |

They assume `UpvalAssumption` (descriptions are sequences, slots are bounded),
`ObjectsAssumption` (an object has one type) and `JoinSelf = FALSE`: the run
`joinself` shows that with it the code frees an upvalue in use (section 6).

The argument has two halves. What the program sees is structure, and rests on
nothing the collector colors: `SInv` says that each count is the number of
references (`Counts`), that the open list of a thread is in decreasing order of
slots, within the stack, and has every upvalue that points into it (`Lists`), and
that what is freed refers to nothing (`Gone`). The last is why a closure may
be freed before or after the coroutine whose variable it holds: whoever comes second
finds nothing of the first. `luaF_findupval` and `luaF_close` walk the list by
`Above`, whose value `Lists` determines; the closures `pushclosure` makes are a
recursion over the description of the prototype, and `CapturedSteps` and `Taking`
do the induction: after k captures the list is in order, no upvalue that was
in use has changed, and enough are free for the rest. The second half is what
the collector must know (`Colors`): a black closure has marked the values of its
closed upvalues and has touched the open ones (`Blacks`), which is all that
remains when its thread dies before the stack is traversed; `Hues` says which
colors occur in each phase. With it the atomic phase marks everything that
`Alive` needs: `remarkupvals` the touched upvalues of threads that are about
to leave `twups`, the traversal of stacks the others. `VariablesRight` and `ReadingsKept` are about
single steps, and follow from `IInv` with one lemma for each action.

`Crab_proofs`, for any characters, words, lists of words, messages and number of tables:

| Theorem | States |
|---|---|
| `TablesAreRight` | `TablesRight`: every key of a table is found, once, from its main position |
| `TablesAreTries` | `Trie`: every table is in one dictionary, below one node of it; none is lost |
| `Refinement` | `Implements`: the dictionary of `lua-crab.c` is a set of words |
| `MessagesFiltered` | `FiltersWords`: every message comes out with the longest words starred out |

They assume `CrabAssumption`: characters are numbers, and so are those of messages, since
`lua_tointeger` makes a number of whatever it finds; words and lists are sequences.

The argument. The inductive invariant is `Dictionaries`, and it has two parts. `Tables`
says of each table what makes a walk along a chain end, and find: nodes in use have a
distance from their main position, 0 for the one that is in it, and `next` leads
from each to one with a distance greater by one (`Chains`); two nodes never hold
the same key. `newkey` changes chains in three ways (`InHome`, `InFree`, `InPlaceOf`),
the last of which moves a node and relinks the one before it, found by `Before`. For each
there are new distances; and what the table holds, its labels (`Held`: key, flag, value), is
the old set and the new key. `table_expand` puts them one by one in an empty table of
twice the size, which never fills. So nothing above the tables needs to know of
chains: it sees sets of labels. `Forest` says that the tables are trees: each but a
root is below one label (`OneRef`), can be reached from a root (`Reached`), and has a
greater rank than the table above it (`Ranked`), so that no table is below itself and the
recursive functions `Spelled` and `Match` have one solution each.
While a list is opened, `Growing` and `Apart` separate the new dictionary from the old
ones, which stay as they are. What a failed `open` closes is
therefore what it made, all of it and nothing else.

Words are paths. A word is spelled when labels lead along its characters from table
to table and the last has the flag of a terminator (`Spells`). New keys and new tables
without flags spell nothing (`Quiet`). A table is reached along one word only (`OneWay`), by
induction along two paths from their ends; so the flag that `_dict_insert` sets in the end adds
one word, the one inserted. For messages, `MatchingIs` shows from the last character to the
first that `Match` ends with the longest word at each place, from any table. The places
that `stars` goes through and those of `Searched` are then the same, as each is the least set
that has the first place and, with one, the place after its word (`PlacesFrom`).

`CrabList_proofs`, for any characters, file and messages:

| Theorem | States |
|---|---|
| `ListsFilter` | `ListFiltersWords`: every message comes out with the longest words of the file starred out |

It assumes `ListAssumption` (lines and messages are strings of characters, none of which is 0),
`CrabAssumption`, as it rests on lemmas of `Crab_proofs`, and `Unended = FALSE`, without which
it is false (section 6).

The argument. The invariant `ListInv` says what each list is: the words of the file whose first
character has its hash, longer words before shorter ones (`ListOf`). `OneMoreWord` shows that
a word put before the first that is shorter leaves it so. All words that can match at a place
begin with the character there and are in one list; words of other characters are in it too,
but do not match. So the first that matches is the longest of the file (`FoundEnding`). What
is left is the way through the message, which is the same for both filters: `SpanningIs`
and `StarredIs` of `Crab_proofs`, which know of ends of words only.

`LuaMeta_proofs`, for any tables, values of other types, keys, handlers and limit of the loops:

| Theorem | States |
|---|---|
| `NoHandlerHidden` | a flag says that a handler is absent only where it is (`MetaInv`) |
| `AsMeant` | `MetaAsMeant`: every read and every write does at any time what `Metatables` says |

They assume `MetaConstants`: nil and the function are no tables nor other values, the events are
keys, and what programs store with a key is a value. The run checks that its constants are so
(`MetaAssumption` of `MCLanguage`).

The argument. `MetaInv` is inductive because a key that was absent can only get a value in a
step that drops the flags of its table: `lua_rawset` always does, `luaV_settable` does where
the key was absent, and where it was there no flag named it. The same store in `luaV_fastset`
keeps the flags, and this is why it may. With `MetaInv` a look at the flags
finds the handler of the metatable (`HandlerFound`). The loop
counts up, and adds flags on the way, where `Metatables` counts down. `AccessRight` is an induction over the passes: after `n` of them either the
access has ended as it should, or it should end as one from where the loop is, with `n` handlers
less to go (`OnePass`). Both functions are recursive, and `EndsExist` and
`PassesExist` show that they have a solution.

`LuaString_proofs`, for any number of strings, contents with any hashes, sizes of the table and
rows of the cache:

| Theorem | States |
|---|---|
| `OneObjectEach` | `OneStringEach`: equal strings are one object, chains are exact, and nothing held or cached is dead or going to be freed |

It assumes `StringAssumption`: addresses are finitely many numbers, hashes are numbers, the
message for memory errors has a hash, and the table starts with at least one chain.

The argument. `OneStringEach` is not inductive: that a string is not made twice rests on
finding it, which rests on the chains; that what is held stays alive rests on what the
colors mean in each phase. The invariant is `Good(s, R)`, for a state `s` of the string
table and strings `R` that are held, apart from the variables, since one creation goes
through several such states: it may collect, grow and collect again before it
links its object. `Single`: contents of strings in use differ. `Chains`: each chain lists
the strings whose hash leads to it, once. `Hued`: before the atomic phase nothing is dead, and
in the sweep whatever is dead or black has not been swept yet; hence a sweep to its end
(`SweptGood`) leaves no dead string, an emergency collection that begins within a
cycle can start over (`FullGood`), and a dead string that is revived will not be freed by
the same sweep (`ReviveGood`). `CacheKept`: what the cache may give out is alive, since
the atomic phase empties it of white strings before it exchanges the whites. A collection in
the middle of a creation only takes strings away (`Fewer`), so that the content which was not
found before it is still absent after it and the new object is the only one
(`CreateGood`). The loops of `luaS_resize` and of the full sweep are recursive functions;
`RehashedIs` and `SweptGood` are inductions over their lists, `Nodes` the one over the old
chains: together they have all strings, each once.

Model-checked only: liveness (out of the prover's reach, as is `ENABLED`), so
`GarbageFreed` of upvalues; `Implements` of `LuaCalls`; and everything about the other modules. The compiler and most of
the algorithms are recursive operators, which no module with a theorem may reach. The functions
of `Crab` and `CrabList` are recursive functions: that a solution exists and is the only one is
proved for each by induction on numbers.

## 6. Findings

- `remeta` (`lapi.c:862`, run `remeta`): a table of weak keys and values is linked
  in `allweak` by its first traversal and not traversed again, but it stays gray,
  so that the forward barrier of `lua_setmetatable` does nothing. A metatable it
  gets after that is not marked through it, and is freed while the table refers
  to it. `RemetaAllWeak = FALSE` keeps such steps out of the other runs and of
  the proofs.
- `joinself` (`lapi.c:1292`, run `joinself`): `lua_upvaluejoin` with twice the
  same upvalue counts down before it counts up and frees what it joins.
- Not a run of its own: with `Overtake = TRUE` a finalizer called during
  `GCSswptobefnz` takes off the list the very object `sweepgc` points into
  (`lgc.c:788-793`), and `WhiteAfterSweep` fails in an instance like
  `finalizers`. The code leaves it to the order of the list.
- Not a run of its own: with `Unended = TRUE` in `MCCrab` the last line of a
  file that lacks a newline loses its last character (`crab.c:150`), and
  `ListFiltersWords` fails.
- The assertion of `lgc.c:987` does not hold when a barrier puts a weak table
  back in the gray list: `propagateall` in the atomic phase then traverses it.
  It has no consequence that a property here could show.

## 7. Not modelled

- The debug interface with hooks, signals (`lua.c:126`): a handler may run
  between any two machine instructions, and what is seen of its three stores is
  the build's. Names in error messages.
- Creation and closing of a state; prototypes and fixed objects in the
  collector; its debt and pause.
- The stack of values as memory: its growth and shrinking.
- Metatables, coroutines and floats in the interpreter loop. Of numeric loops
  over floats, only the decision that a loop is one; a limit that is not a
  number, and a step of zero.
- Conversion between floats and text, transcendental functions, random numbers,
  collation: the C library's. `unpack` of a string whose terminating zero is
  missing.
- Case mapping and the directives of `string.format` other than `%q`.
- `lauxlib.c`, `lbaselib.c`, `loadlib.c`: within one call, over the API.
- Files, directories, the clock and the environment (`liolib.c`, `loslib.c`,
  `lfs.c`); `lua-utf8.c`, which repeats the string library over tables of Unicode;
  conversion of encodings in the filters.
- Notes of other programs (`src/centos7`, `src/git`, ...) hold no code.
