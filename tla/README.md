# Verification of tcvm

tcvm is a Lua virtual machine written in Rust. This directory holds TLA+ models of
its core, the TLC configurations that check them on small instances, and TLAPS
proofs of the safety of the collector, the soundness of its pacing, the dynamic root
sets, tables with their shapes and caches, the executor, and the table library, for
instances of every size. Paths below are relative to the repository root, which the models cite as `src/`.

Contents: [Inventory](#inventory) · [Modules](#modules) · [Runs](#runs) ·
[Bounds](#bounds) · [Fairness](#fairness) · [Proofs](#proofs) ·
[Disagreements](#disagreements) · [Not modelled](#not-modelled) · [Plan](#plan)

## Inventory

| Component | State it keeps | Operations | Correct when |
|---|---|---|---|
| **Collector** `src/dmm/{context,arena,gc,gc_weak,types,barrier}.rs` | colour and flags of every box, the linked list of all boxes with the sweep cursors, the two gray queues, phase, whether the root needs tracing | allocate, barriers, write, downgrade/upgrade, resurrect; `collect_debt`, `mark_debt`, `finish_marking`, `cycle_debt`, `finish_cycle`, `start_sweeping`, `finalize`; drop of the arena | nothing reachable is freed, no box is lost or freed twice, garbage goes away |
| **Pacing** `src/dmm/metrics.rs`, `allocator_api.rs` | counters of allocated, marked, traced, remembered, dropped and freed bytes, external bytes, inherited debt | the hooks of allocate, trace, barriers and sweep; `allocation_debt`, `finish_cycle`, `add_debt`, external allocations | a started cycle finishes, whatever the mutator does meanwhile; `collect_debt` pays what is owed and returns |
| **Dynamic roots, stashes** `src/dmm/dynamic_roots.rs`, `src/lua/stash.rs` | slots with reference counts, a free list | stash, fetch, clone and drop of handles | a handle always fetches the value it was made for; dropped slots release it |
| **Executor** `src/lua/executor.rs` | mode, the stack of active threads; per thread: frames, status, `pending_action`, `yield_bottom` | `start`, `step`, `resume`, `take_result`; the driver's helpers | the state machine never reaches an `unreachable!`, every call gets its results, errors reach their catcher |
| **Coroutine library** `src/builtin/coroutine.rs` | none of its own | create, wrap, resume, yield, close, status | coroutines form a chain of resumers; failed ones are dead |
| **Sequences** `src/vm/{sequence,async_sequence}.rs` | a resumable native computation; for async ones a future and a shared slot | `poll`, `error` | a poll result is answered exactly once |
| **Interpreter** `src/vm/interp.rs`, `src/env/thread.rs` | value stack, frames, open upvalues, registers | one handler per instruction | windows and upvalues index live slots; metamethods fire when they must |
| **Tables, shapes, inline caches** `src/env/{table,shape}/mod.rs`, `src/env/function.rs` | shape tree with weak edges, per-table slots or dictionary, metamethod bit sets, one cache per instruction | raw get/set, `setmetatable`, field instructions, collection of shapes | caches and shapes are invisible to the program |
| **Strings** `src/env/string.rs`, `symbols.rs` | the intern table | intern | equal bytes, equal pointers |
| **Parser** `src/parser/` | token cursor, event list | recursive descent | a lossless tree for every input |
| **Compiler** `src/compiler/` | registers, labels, jump patches, constants, cache sites, scopes | one rule per syntax node | registers are not reused while live; jumps land where meant |
| **Table library** `src/builtin/table.rs`, `src/env/table/mod.rs` | the array part and the hash of integer keys; for `sort`, indexes and a work stack kept across the comparator's calls | insert, remove, move, pack, unpack, concat, sort, ipairs | elements land where the manual says; `sort` ends, loses nothing and sorts, whatever the comparator does |
| **String patterns** `src/builtin/string/{mod,pattern}.rs` | the capture array of a match; position and last match of `gmatch` and `gsub` | find, match, gmatch, gsub | the leftmost preferred match with its captures; loops visit each match once and end |
| **I/O library** `src/builtin/io.rs` | open files behind a `BufReader`, default streams, line iterators | open, close, read, write, seek, lines, input, output | a handle is a file and one position, although reads are buffered and writes are not |
| **Other libraries** `src/builtin/{math,utf8,os,basic,package,debug}`, the rest of string | none | Lua's standard functions | as the manual says |
| **Derive macros, CLI** `derive/`, `cli/` | — | code generation, argument handling | — |

How they interact. A host owns a `Lua`, which owns an `Arena`; everything the
program touches lives in boxes of that arena. The host enters the arena through
callbacks (`mutate`), and between callbacks it may run any part of a collection
cycle, so *mutation and collection interleave at the granularity of the host's
calls*. Inside a callback the host calls `Executor::step`, a loop that moves
threads through their frames: it runs the interpreter on a Lua frame, polls a
`Sequence`, starts a function, or unwinds an error. Natives answer with a
`CallbackAction`, which suspends the interpreter and is picked up by the next
iteration; coroutine switches push and pop the stack of active threads. Tables are
boxes too; their shapes are shared, weakly linked and collected at any time.

The hard behaviours follow: interleavings of marking and stores; sweeping while
allocating; panics inside `trace` or a destructor; weak pointers looked at in mid
sweep; nested suspension (calls inside sequences inside coroutines inside
metamethods) and errors through all of it; caches that outlive what they were filled
from; library functions that wait for Lua functions in mid algorithm; reads and writes the
operating system cuts short. There is no operating-system concurrency, no persistence and no message
passing; those hazards do not arise.

`PROJECT.json` lists the hazards at their source lines with the properties that
cover them.

## Modules

**`Arena`** — the collector. `color`, `strong`, `weak`, `live` and `alloc` are the headers and the pointers of
the boxes (`GcBoxHeader` and the value's fields), `all` and `next` the all-list, `sweep`/`sweep_prev` its
cursors, `gray`/`gray_again` the queues, `root_strong`/`root_weak` the root's pointers, `held`/`held_weak` what the
running callback has on its Rust stack. A host call is a sequence of steps: `mutate` or a
collection method begins it, then single steps of the callback (allocate, store, barrier,
upgrade) or of `do_collection` (wake up, mark one box, sweep one box, end a phase),
so debt-driven methods may stop anywhere the code's debt test allows. The debt
itself is a free choice (`Pacing` computes it). `MarkBoxPanic` and the destructor branch of
`DropContents` model panics that the host catches. `ArenaInv` states the inductive invariant,
`ArenaProof` proves it, `MCArena` instantiates it.

**`Pacing`** — `Arena` composed with `Metrics`. The counters follow from what a step of `Arena` does to the boxes
(`Counted`: a box that turns from gray to black is traced, one that turns back is untraced, and so on), and they
decide what `Arena` leaves open: a call that pays debt stops exactly when `allocation_debt` is zero (`PaysDebt`).
Host allocations, artificial debt and `finish_cycle` are the code's. Amounts are in hundredths, so that the factors of
`Pacing::DEFAULT` are whole numbers; `traced_gc_bytes` wraps at `Word`. `PacingInv` says which boxes the counters have
counted, `PacingProof` shows that the composition implements `Arena` and that its debt is sound.

**`TableLibrary`** — integer keys and the table library. `tbl` is `array` and `misc_hash`; the functions that complete
at once are operators over it, `sort` is a state machine with one step per comparison (`pc` says which of the five
`sort_less` calls of `sort_run` is waiting). While a comparator runs, the program may use the table. `TableLibraryInv` states the inductive
invariant of `sort`, `TableLibraryProof` proves it and that the other functions do what the manual says.

**`IoLibrary`** — `disk` are the files, `hnd[h]` a `FileState`: the position of the `File` and the buffer of its
`BufReader`, so the program's position is `pos - Len(buf)`; `input`, `output` and `iter` are the uses of handles that the
library keeps. Every read may fill the buffer as far as the system likes or fail; every write may stop short.
**`FileSpec`** is the promise (a handle is a file and a position; `FilesBehave`), `Numerals` the grammar of numerals that
format `n` is compared with. `IoLibraryProof` proves both comparisons.

**`Patterns`** — the matcher as recursive operators that pass the capture array along, as the code mutates it and puts it
back, and the loops over it: `gmatch` as an iterator, `gsub` as a step per match that waits for its replacement.
**`PatternSemantics`** gives patterns as items (class with suffix, capture, back reference, balance, frontier) and says
what matches, without state and without backtracking order beyond the preference of each suffix.

**`Executor`** — the driver with the frame-changing part of the interpreter and the
coroutine library. `thread[t]` is `ThreadState` without values: frames, status, the stashed
action and its call site, and `yield_bottom`. A Lua frame records which landing its
current instruction is owed (`"call"`: results in the CALL window; `"meta"`: results to
a continuation) so that a lost or misdelivered answer is visible. Each branch of one loop
iteration of `Executor::step` is an action (`propagate_inner_to_resumer`, `StepEnds`,
`StepYielded`, `apply_pending_action`, `PumpStart`, `pump_sequence`, `PumpError`), and so is
each instruction that touches frames (`op_call_*`, `op_tailcall_native`, `op_return`,
`schedule_*meta_call*`, `impl_error`). The program is the environment: a native may
answer with any action in `Natives`, a host's Sequence with any poll in `Polls`. An
`unreachable!`, `expect` or `unwrap` that would fire sets `panicked`.
`WaitThread.of` is a history field: the code does not store for whom a frame waits. `ExecutorInv`
states the inductive invariant, `ExecutorProof` proves it and what follows.

*The constant `Admit`.* Some inputs are mishandled by the code (see
[Disagreements](#disagreements)). The main run leaves them out (`Admit = {}`), and each has a
name by which it can be admitted; `tail_yield` has a run of its own. Without this, one known failure would
mask everything behind it. The host is assumed to start an executor again only after
it delivered its result or an error, and not to step it after an error: `start` leaves
`yield_bottom` and `pending_action` of the main thread as they are, so a run started
over a yielded one reports `Yielded` at once, and a step after an uncaught error
reaches `unreachable!` although the mode is still `Normal`.

**`CoroutineSpec`** — the promise of the coroutine library: threads are fresh, active in a
chain, parked or dead; resume pushes, yield and return pop, failure pops, close kills.
`Executor` implements it (`CoroutineDiscipline`).

**`Shapes`** — tables. `shape[s]` is `ShapeData` (a pool of identities, so a collected
shape's address can be used again), `table[t]` is `TableState`, `mtc[t]` the `MtCache` of
table `t` (its identity never changes, so the table names it), `ic[i]` the inline cache of
site `i`. Operators named as the code's functions take the heap and return it;
actions are the ways a program reaches them: `rawset`, `SETTABLE`, `GETFIELD`/`GETTABUP`,
`SETFIELD`/`SETTABUP` on a hit and on a miss, `setmetatable`, and the collector dropping a
shape nobody holds strongly. Reads have no action unless they fill a cache: what they return
is compared in every state (`AccessesAgree`).

**`LuaTables`** — what a program may observe: maps with metatables and the indexing rules
over them. `Shapes` implements it (`TablesBehave`). `ShapesInv` states the inductive invariant of
`Shapes`, `ShapesProof` proves it, the refinement and the agreement of reads.

**`Induction`** — induction over numbers, folds and chains as theorems about sets and functions, for the
proofs about recursive functions.

**`DynamicRoots`** — root sets and the handles that a host or an async sequence keeps to
stashed values. `set[s]` is the vector of slots with its free list, named by the address a
handle's `Weak` points to; an address is free again only when both the set and all its
handles are gone. `handle[h]` is a `StashedValue`. The collector is cut down to what a
set sees of it (trace a set, mark what the program reaches, free what is not marked), so that
the backward barrier of `stash` and the collection of whole sets can be seen; `Arena` has the
rest. `DynamicRootsProof` states and proves its inductive invariant.

**`Codegen`** — the code generator: `compile(program)` is the prototype that `rules.rs` makes of a
syntax tree, and whether an assertion failed on the way. Operators have the names of the functions
they model and pass the context along: the register cursor with its active locals and peak, the tape,
labels and jump patches, the jump lists of conditions (`true_list`, `false_list`, a pending jump), hints,
constants that have no register yet, scopes and captured names. Jumps hold their target, `LOAD`
holds its constant, arithmetic is one instruction with the operator as operand. Syntax comes from
`LuaSemantics`.

**`Machine`** — the interpreter on what `Codegen` made: one action per instruction handler, over the
real layout of a thread's stack. `thread.stack` is the allocation and `thread.len` the length of the
`Vec`: handlers that go through the raw register pointer read and write whatever the length, those that
index panic beyond it, natives clip it. Open upvalues are slots, closed ones values. `program` is a
history variable with the tree, its code and what it should do. Compilation is `Loaded`, applied to the
trees of the constant `Programs`: it is deterministic and nothing else runs meanwhile.

**`LuaSemantics`** — the syntax trees and a direct interpreter for them, written from
`lua_manual.of`; the reference `Machine` is compared with. It is not a model of code.

**`MC*`** — the finite sets for TLC; `MCMachine` holds the families of programs, `MCPatterns` those of patterns.

Definitions whose comment begins with *Mutant* or *Mistake* are never used by the specification. Each is a
plausible mistake in the definition that follows it; with the mistake put in, TLC finds the
property named in `PROJECT.json` violated.

## Runs

| Run | Question | Shows |
|---|---|---|
| `arena` | Can any interleaving of callbacks, barriers, weak pointers, upgrades, finalization, all collection methods and panicking `trace`s free something reachable or corrupt the list? Does garbage go away? | No: `NoDangling`, `WeakHeaderValid`, `ListIsAlloc`; an unreachable value is dropped, and its box freed once no weak pointer is left, if the host keeps finishing cycles |
| `pacing` | Can a cycle that pays its way by the counters stall, or a call run for ever? | No: `NeverStalls` (the work counted in a cycle is less than one unit per byte that took part), `DebtIsPaid`, `CollectReturns`; the inductive invariant `IInv` and `MarkedIsComplete` hold along |
| `dynamic_roots` | Do handles hold what they were made for, in any order of stash, clone, drop, loss of the set and collection? | `HandlesHold`, `CountsHandles`, `FreeListSound`, `FetchedIsAlive`, and `ReleasedIsFreed`: what no handle holds goes away |
| `executor` | Does the driver keep its state machine together under everything natives, sequences and coroutines may ask for? | No panic; `CallsAnswered` (no call answered twice or never); `ResumeChain` (active threads wait for exactly the one above; a coroutine off the stack is fresh, parked or finished); `CatchersCatch`; refinement of `CoroutineSpec`; `DriverProgresses` (the loop never spins) |
| `shapes` | Are shapes, caches and dictionary mode invisible? | Refinement of `LuaTables`, `AccessesAgree`, and what they rest on: `LayoutAgrees`, `BitsAreLive`, `CachesAreFresh` |
| `lua_programs` | Does compiled code do what the program says, and is it well formed? | For 6,132 programs: `CodeIsClosed` (no assertion of the compiler fails, registers inside the frame, jumps inside the tape, no way off its end), `RegistersInBounds`, `OpenUpvaluesAreLive`, `BehavesLikeLua` (same log in the same order, same results, no panic), `Terminates` |
| `table_library` | Do the functions that shift elements leave what the manual says? Does `sort` survive any comparator? | `LibraryAgrees` on every position and range of a small integer type; `SortInBounds`, `SortSorts`, `SortEnds` on every array of up to five elements, with comparators that lie, raise or change the table |
| `io_files` | Is a buffered reader with unbuffered writes below it a file with one position? | `FilesBehave`, with short and failing reads and writes, except for a write right after a read without a seek, where the code (like C) promises nothing; `NumeralsAgree`: format `n` takes the longest prefix of a numeral and no byte more |
| `patterns` | Does the matcher, which backtracks over one array, find what patterns mean? Do the loops end? | `MatchesAgree` on three thousand patterns, malformed ones included; `LoopsAgree`; `GsubProgresses`: every round of `gsub` decreases a variant (stated as an action property) |
| three `violation` runs | Does the code do what this comment or document says? | It does not; see [Disagreements](#disagreements) |

Deadlock is checked except in `arena` and `pacing`, where an arena that was dropped stops, and in `io_files`, where the
bounds may leave a program nothing to do. Further configurations show
[disagreements](#disagreements) that have no run of their own: `MCMachineReturn.cfg`, `MCMachineBlock.cfg`,
`MCMachineWindow.cfg`, `MCMachineFunction.cfg`, `MCTableLength.cfg`, `MCIoNumerals.cfg`; TLC reports a violation in each.

## Bounds

* Arena: two boxes are a holder and a target, each in any colour, with one strong and one weak pointer each; the list
  has a box before and one behind the cursor. Longer lists and larger graphs are covered by the proofs, which hold for
  every number of boxes.
* Pacing: two boxes of one and two bytes with strong pointers (weak ones multiply the states beyond reach here; a weak mark
  counts as a mark once, in `Marked`), one byte of artificial debt and one external byte at a time, so that debt appears and
  is paid at every point of a cycle; methods that stop at each of the stop conditions but `AtSweep`.
  `min_sleep` is 1 instead of 256 so that two boxes wake the collector. `Word = 2^16` stands for `2^64`.
* TableLibrary: integers `-6..5`, so every range that overflows is among the inputs; arrays of up to five elements reach a
  partition with both sides non-empty and a work stack of depth two; the program touches the table once per sort, at any
  comparison. Values are three and nil.
* IoLibrary: one file of two bytes, two handles on it, a buffer of one byte ahead: enough to be behind, at and beyond the
  other handle's writes and the end of the file. Numerals are all strings of up to five bytes over eight bytes.
* Patterns: all patterns of up to two items, and longer ones with nested captures, back references and three suffixed
  items, over all subjects of up to three letters and two with parentheses. `MAX_CAPTURES = 2` and `MAX_CCALLS = 6`
  stand for 32 and 200: both limits are reached.
* DynamicRoots: two sets (a handle of one offered to the other, an address used again), two
  values, two handles (clones and a free list of two); the proofs cover every size.
* Executor: two coroutines besides the main thread give chains of three, so that an error
  crosses a thread that is itself waited for; `MaxFrames = 2` bounds new calls, and
  sequences and waiting frames go above it, so real depth reaches four.
* Shapes: an object and a class that can be its own metatable and its own `__index` (chains
  that end, call, and never end); three keys and `MaxProps = 2`, so growth past the limit
  happens; five shapes, three besides the two of the runtime: a chain of two transitions
  and a dictionary shape, with room for one to be collected and minted again.
  `MaxTagLoop = 2` stands for 2000. Integers do not occur.
* Machine: programs of at most a few statements, each family a product of small sets so that features
  meet: conditions of depth three over locals, globals, constants, comparisons and calls in seven positions
  (declaration, assignment, `if`, `if` that returns, `while`, `return`, arguments); lists of up to three values ending in every kind of
  multiple result in eight uses; every pair of different targets with every pair of simple values; constructors across `SETLIST` batches
  (`SETLIST_BATCH = 2` stands for 50). `StackCapacity = 32` slots are never all used
  (`TypeOK`, part of `RegistersInBounds`). Integers are unbounded. Program shapes that the code is known to get wrong are not in the
  families of the main run but in families of their own (`AssignPrograms`, `ReturnPrograms`, `BlockPrograms`,
  `WindowPrograms`, `FunctionStatementPrograms`). Generic loops run over iterators that return, tail-call Lua and native functions and
  take extra arguments, from every kind of value list.

## Fairness

* `arena` assumes that callbacks return (weak fairness of their end), that a started
  collection step continues (it is a loop in one call), that `trace` methods do not panic for ever, and that the host calls
  `finish_cycle` again and again (strong fairness). The library promises nothing without the
  last one: nothing in the runtime collects on its own.
* `pacing` assumes weak fairness of the loop of `do_collection`, and nothing of the host or the program.
* `table_library` assumes weak fairness of `sort`'s steps: the executor polls a sequence whose call has returned, and the
  comparator returns.
* `dynamic_roots` assumes a host that keeps collecting (weak fairness of `Collector`) and
  strong fairness of `MarkLinked`: `mark_one` takes from the gray queue before it looks at
  what barriers queued again, so stashing over and over cannot keep a value from being marked.
* `executor` assumes weak fairness of one iteration of the loop in `Executor::step`: one
  thread runs it until it returns. No fairness for the program or the host.
* `lua_programs` assumes weak fairness of the interpreter: `run_thread` dispatches the next instruction
  until the thread is done. Every program of the families ends by its meaning.

## Proofs

`ArenaProof` proves, for every number of boxes and every assignment of the other constants:
`Spec => []IInv` (`Invariance`) and from it `TypeCorrect`, `NoDanglingPointers`,
`WeakHeadersStay`, `ListIntegrity`, `MarkingIsComplete`, `SweepAssertsHold`,
`QueuesHoldGray`, `StopAssertsHold`.

Assumptions: `MaxBoxAssumption` (a natural number of boxes), `LeafAssumption` (leaves are
boxes) and `MayPanicAssumption` (a Boolean). TLC evaluates them in every arena run.

The argument. `NoDangling` is not inductive: it must say why the sweep may free white
boxes. `IInv` adds, in parts named in `ArenaInv`:
the all-list and the position of the cursors in it; which colours are possible before and
behind the cursor; the tricolour condition in the mark phase (a black box that is not queued
again points to nothing white); and *retention*: the sets of boxes that must survive, `Keep`
for values and `WKeep` for headers, are closed under the pointers a callback could follow and
contain the root and what the callback holds. Freeing a white box in the sweep is then sound since
no kept box ahead of the cursor is white. The proof has one lemma per action and under it one
step per part the action can disturb.

`DynamicRootsProof` proves, for any sets, finite handles, values and immediates
(`HandlesAssumption`, `KindsAssumption`): `RootsInvariance`, and from it `RootsTypeCorrect`,
`HandlesKeepValues`, `CountsAreExact` and `FetchIsSafe`. That a handle's slot is its own
needs `CountsHandles` (else a drop vacates a slot another handle uses), and that its value is alive
needs the marks: `MarkInv` says that a traced set has marked roots in the mark phase and that every
reachable set and value is marked in the sweep, which is what the barrier of `stash` maintains.
`FreeListsAreSound` says that a free list ends and visits every vacant slot and no other. Its induction is in the part
`Linked` of the invariant: the vacant slots can be arranged as a stack in which each slot links to the one vacated
before it. `stash` pops that stack and the last drop of a handle pushes on it.

`PacingProof` proves, for any sizes, any factors and any counter width, that the composition with the counters implements
`Arena` (`PacedImplementsArena`: initial states are initial states, every step is a step of `Arena` or leaves its
variables alone), and so that `IInv`, `NoDangling` and `MarkedIsComplete` hold under pacing (`PacedInvariance`,
`PacedNoDangling`, `PacedMarkingIsComplete`). Pacing can make the collector late, also in `leaf_write`, but never unsafe.
So far it assumes what `ArenaProof` does.

Of the amounts, it proves with `SizeAssumption` (a box has a size), `PacingAssumption` (factors are natural numbers),
`WordAssumption` and `AmountsAssumption` that the counters are numbers (`CountersHoldNumbers`), that `collect_debt` pays
(`CollectDebtPays`, of `DebtIsPaid`) and that a cycle whose debits exceed what its boxes are worth has debt until it ends
(`CollectorNeverStalls`, of `NeverStalls`). The last has two hypotheses: `LeafWrites = FALSE`, because of what `leaf_write`
shows, and `[]HeapFits`: the bytes allocated at any time fit a `usize`, as they do in a machine that holds them. The
argument is a ledger (`LedgerInv`, proved in `CountersKeepLedger`): five sets of boxes marked, traced, remembered, dropped
and freed, whose bytes are the counters. A box turns gray again only if its trace had been counted, so the counter of
traces does not wrap; the sweep counts a box as it passes it, once; and a number is not given to a second box. So each box
has taken one of the three paths of `PathWork`, and the credit of a cycle is a sum over the boxes (`Total`, whose
laws are proved first) of at most `PathWork` for each byte. That `PathWork` is below one unit of work per byte is not needed
here; `metrics.rs` asks for it so that allocation always outruns the work it causes.

`ShapesProof` proves, for any keys, tables, sites and limits (`KeysAssumption`, `TablesAssumption`,
`StoresAssumption`, `BoundsAssumption`): `ShapesInvariance`, and from it `ShapesTypeCorrect`,
`LayoutsAgree`, `BitsStayLive`, `CachesStayFresh`, `AccessesFollowLua`, and that `Shapes` implements `LuaTables`
(`ShapesImplementTables`). The argument:

* The invariant is stated of a *heap* (shapes, tables, metamethod caches) and not only of the state, because the code's
  functions call one another and one action passes through several heaps. Each operator that takes a heap and returns
  one has a lemma: the invariant holds of what it returns, and it changes this and nothing else.
* What a shape says of its tables (`Face`: the list of keys, the metatable, whether it is a dictionary shape) never
  changes while it lives. So an edge of the tree may be followed at any later time (`EdgesInv`: it leads to the same keys
  and one more, or to the same keys under another metatable), and a filled cache stays right, which holds its shape strongly.
  A table fits its shape (`TablesInv`), and so a slot found in the shape is one of the table's.
* Reads and stores walk metatable chains by recursion over a depth. `Induction` proves that such a recursion has a value
  (`ChainRecursion`) and gives induction for sets of numbers (`SetInduction`); with them the walk that asks the metamethod bits
  and the walk of `LuaTables` agree at every depth, so also at `MaxTagLoop`, whatever that is.

`ExecutorProof` proves, for any number of coroutines, any depth and any natives (`ThreadsAssumption`, `MaxFramesAssumption`,
`NativesAssumption`), `ExecutorInvariance` and from it `ExecutorTypeCorrect`, `NeverPanics`, `StackIsChain`,
`EveryCallIsAnswered`, `ErrorsAreCaught`, and that the executor implements `CoroutineSpec` (`ThreadsFollowDiscipline`). All
have the hypothesis `Admit = {}`, as the run has: each input under [Disagreements](#disagreements) makes one of them false. The
argument: `Structured` says what each frame may stand on: one that takes the kind of result it will leave (`Takes`; a Lua frame
takes only what its instruction waits for). The running thread is in one of the conditions of `Active`: nothing is stashed
(`Quiet`), an action is stashed (`Requesting`), or it is parked at a yield (`Yielding`); the others of the stack wait for the one above
(`Waiting`), and a coroutine off the stack can be resumed or has no frames (`Resting`). No `unreachable!` is reached because by
these conditions each answer finds the frame that takes it. There is one lemma per arm of the loop of
`Executor::step` and one per instruction, and one more for each in the refinement.

`TableLibraryProof` proves, for integers of every width and tables of every length (`IntAssumption`, `BoundsAssumption`,
`NilAssumption`): `TableInvariance`, `SortStaysInBounds`, `SortIsCorrect` and `LibraryIsCorrect`. The argument for `sort`:
the range in hand and those put off share no index (`Partitioned`), and the cursors stay inside the range whatever the
comparator says (`Cursors`), so no order is needed for the bounds. Swaps stay within the range in hand, so elements that no range
has together are in order (`Separated`) from the moment the range that held both was split; what each comparison has
shown so far is `Established`. When no range is left, `Separated` is sortedness, and that nothing is lost is a
count that no swap changes. `insert`, `remove` and `move` copy in a loop; the lemma `Copies` says
that copying in an order in which no source was overwritten leaves at each target what the source held at first, by induction
along the loop, and each function's order is shown to be such an order.

`IoLibraryProof` proves, for any files, handles, modes, contents, formats, seeks and capacity (`ModesAssumption`,
`BoundsAssumption`, `BytesAssumption`, `FormatsAssumption`, `SeeksAssumption`):

* `ScanIsLongestPrefix`, from it `NumeralsAlwaysAgree`: for *every* sequence, the scanner of format `n` stops at the longest prefix
  that can be continued to a numeral. The two sides share nothing: `LongestPrefix` asks for a continuation in a grammar,
  the scanner keeps three flags and a count. They meet in the shape of a token (sign, prefix `0x`, mantissa, exponent, given by
  indices): `Open` says when a token of that shape can be continued, one byte at a time (`OpenAppend`), and the scanner's
  flags always tell which shape it has (`Follows`).
* `IoTypeCorrect`: the state keeps its type, and the file of an open handle exists.
* `FilesAlwaysBehave`: the library implements `FileSpec`. It has one hypothesis, `[]NoBareHex`: no file ever holds a `0x.` that no
  digit follows. Such a token is taken for a number, against the manual (`MCIoNumerals` under
  [Disagreements](#disagreements)), and `TokenIsNumeral` shows that it is the only such token.

The invariant of that refinement is `Sound`: the buffer holds what the file does just behind the reader's position. A reader that is sound
stays so and moves by what it took (`ReadOneMoves`), however much the system gave beyond it; what it took is a record of
the file as `FileSpec` means it (`TakesRecord`). A list of formats is read by a fold, so its lemmas go by induction over
the formats (`Reading`, `FormatsRead`; `Induction` again). Then one lemma per call shows that the `View` of the handle moves
as `FileSpec` allows. `Sound` does not hold of every handle: a write through a full buffer, or through another handle on the same file, breaks
it. `FileSpec` calls such a handle torn and promises nothing about its reads until a seek empties the buffer, and the proof splits on it
in each call.

The `IInv` of each module `*Inv` (and `LedgerInv` of `PacingInv`) can be added to the INVARIANTs of its run, whose `MC` module
extends it.

Only model-checked:

* Liveness, which is out of the prover's reach: `ReleasedIsFreed`, `DriverProgresses`, `SortEnds`, `CollectReturns`,
  `Terminates` and those of the collector.
* `Machine` and `Codegen`, whose operators recurse over syntax trees, and `Patterns`, which recurse over patterns and strings:
  recursive operators are beyond the provers. That a numeral is turned into the right number is left out of the model.

## Disagreements

Each has a run that shows it and an entry in `findings` with the quotation.

| Run | What happens |
|---|---|
| `tail_yield` | `return coroutine.yield()` in a coroutine's outermost function: on resume, the status `Result` that landing sets is overwritten with `Normal`, and the next step hits `unreachable!` |
| `assign_order` | `a, b = b, a + b` gives both the sum: a value is computed in its target's register while an earlier value still waits there. Padding with nil does the same (`a, g, b = a, b`) |
| `leaf_write` | A box without pointers that is written to through a barrier while it is marked is *untraced*, though it never was traced: `traced_gc_bytes` goes below zero (a panic with overflow checks, else about 2^64 bytes of credit), and `collect_debt` does nothing more until the host asks for a whole cycle. No type of the runtime is such a leaf today, and nothing outside of `dmm` calls `collect_debt` yet |

Further observations, each met while modelling and left out of the passing runs.

With a configuration that shows them (the property fails):

* `MCMachineReturn.cfg`: `return f(1), f(2)` returns three values: the first call leaves the register cursor one too high
  for the last (rules.rs:4002 against 3733).
* `MCMachineBlock.cfg`: closures made in different iterations share the locals of the loop's body: blocks do not close
  their upvalues (rules.rs:1294 against lua_manual.of:282).
* `MCMachineWindow.cfg`: after `f(echo())` with a native `echo` the caller's registers lie beyond the length of the stack
  (interp.rs:1745 against 1740).
* `MCMachineFunction.cfg`: `function g() end local a = 1 local b = a + 1` changes `a`: the statement keeps the closure's
  register, so the locals after it lie above `nactvar` and are released like temporaries (rules.rs:2490 against 414).
* `MCTableLength.cfg`: storing nil at `#t + 1`, or `table.remove(t, #t + 1)`, makes `#t` grow, and storing nil at `#t` does
  not shrink it: the length is that of the array part, not a border (table/mod.rs:264 against lua_manual.of:2077 and basic.rs:268).
* `MCIoNumerals.cfg`: format `n` reads `0x.` as 0.0 (io.rs:465 and parser/lit.rs:21 against lua_manual.of:8809).

I/O and tables: a read that fails in the operating system gives nil like the end of the file (io.rs:540 against lua_manual.of:8615);
`io.lines` returns only the iterator, so a loop left by `break` keeps its file open until a collection (lua_manual.of:8660);
`io.lines(nil, fmt)` raises; numerals have no limit of 200 characters, and hexadecimal floats with more than 16 integer digits
fail. `misc_hash_set` inserts a nil for a key that is absent. `next`, `pairs` and `load` are not implemented yet.

Executor (admitting the name in `Admit` makes the property fail):

* `tailcall_in_metamethod`: a metamethod that tail-calls a native which suspends, or a sequence that does,
  loses the continuation its caller waits for (`CallsAnswered`; interp.rs:1913 against 3113).
* `native_in_place`: a native that asks for `Call` of another native without `then` never gets the results
  landed in its caller's window (`CallsAnswered`; executor.rs:417 against sequence.rs:61).
* `resume_unresumable`: calling a wrapped coroutine that is dead or running leaves the `WaitThread` frame
  on the active thread after `BadMode` (`ResumeChain`; executor.rs:511 against the comment at 263).
* `raise_in_coroutine`: a failing instruction inside a coroutine leaves `step` at once, past
  `coroutine.resume` (`CatchersCatch`; executor.rs:232 against coroutine.rs:56).
* A coroutine that died of an error keeps its status: it reports `"normal"`, and `close` refuses it
  (executor.rs:971 against lua_manual.of:7108).

Shapes: `setmetatable(t, mt)` makes a new shape even when nothing changes, and each keeps its parent alive, so
shapes are not one per key list and metatable (shape/mod.rs:525 against 37 and 478).

Compiler and interpreter (not in the families of `MCMachine`):

* Only a plain call is expanded in an assignment: `a, b = obj:m()` and `a, b = ...` give `b` nil
  (rules.rs:2155); `a = 1, 2` indexes `lvalues` out of range (rules.rs:2143).
* `a = t.x or a` passes the hint into both operands, so the first one overwrites `a` (rules.rs:3471-3530).
* A method call on a temporary receiver keeps the receiver's register (rules.rs:3686-3726).
* `for k in obj:m() do` with a global `obj` fails the assertion that the call's results land in the control
  registers (rules.rs:4334): declarations go through `expand_method_call`, the generic `for` does not.
* The numeric `for` wraps at the end of the integers (interp.rs:2003-2045).

## Not modelled

* Floats, coercions and formatting: no property modelled so far tells them apart.
* Of the compiler: `goto` and labels, `<close>`, `global` declarations, named varargs,
  method function declarations, compile errors, the limit of 255 registers, constants' indexes and cache sites.
* Of the interpreter's registers: metamethods, errors and suspension (`Executor` has them without values),
  and reallocation of the stack.
* Stack windows of suspended threads (`Windows` in the plan): `coroutine.close`, `start` and `take_result`
  clear `open_upvalues` without closing them, and the suspension path of `op_tailcall` computes
  `func_idx` without the extra arguments of a vararg frame.
* Of the metrics: `set_pacing` in the middle of a cycle, destructors that panic, rounding of `f64`, `*_gcs` counters nobody reads.
* Of the tables: keys that are neither strings nor integers, and `next`.
* Of the I/O library: the bytes of the standard streams, `tmpfile`, `popen`, `setvbuf` and `flush` (files are unbuffered on
  the writing side), error messages and numbers. Of the string library: everything but patterns.
* The site counter of the compiler saturates at `u16::MAX`.
* Parser, math, os and utf8, derive macros, CLI: sequential data transformation; the pure algorithms
  among them come last in the plan.

## Plan

Done: the collector and its pacing, dynamic roots, executor, shapes, compiler and interpreter, table library, files, patterns.
Next:

1. Proofs: `RegistersInBounds` and `OpenUpvaluesAreLive` of `Machine` for code that `CodeIsClosed` describes, once its
   operators are functions.
2. `Heap`: an abstract specification of a heap (values live while reachable) that `Arena` implements;
   the refinement proved from `IInv`.
3. `Windows`: `Machine`'s stack with suspension: call sites, yield, resume and close over two threads; every
   index points into its own frame's window, every open upvalue to a live slot.
4. `AsyncSequence`: the future, its shared slot and the executor's polls; `Interner`.
5. `Codegen` and `Machine` extended: `goto` and labels, `<close>`, global declarations, named varargs,
   metamethods; `Parser`: the event machinery (marks, completion, precede).

Order: what can corrupt memory first, then what can stop the machine, then what gives wrong answers.
