# A TLA+ model of fastgen

Fastgen is a concolic execution driver with a FIFO seed queue: it runs an
instrumented target on a seed, receives the branch conditions that depend on
the input, solves them, runs the solutions, and keeps those that reach
something new. This directory holds specifications of its parts, written from
the sources under `src/`, the configurations with which TLC checks them, and
proofs that TLAPS checks. `PROJECT.json` has the line-by-line map from
definitions to code, the list of hazards, and the runs.

Every module is run from this directory, for example

    tlc -config MCDepot.cfg MCDepot
    tlapm DepotProofs.tla

## 1. The system and its parts

| Part | Code | State | Operations | What is hard about it |
|---|---|---|---|---|
| Seed queue | `fuzzer/src/depot.rs`, `file.rs` | `num_inputs`, `next_id`, files, `ce_progress` | `save`, `get_next_input`, `get_input_buf`, restoring `next_id` | no lock across load, file write and store; two writers of one file; restart |
| Coverage maps | `fuzzer/src/branches.rs` | three global maps, `density` | `has_new` | reads under one lock, writes stale values under another |
| Executor, fork server | `fuzzer/src/executor.rs`, `forksrv.rs`, `runtime_fast/src/forkcli.rs` | two pipes, shared trace, `tmout_cnt` | `run_inner`, `Forksrv::run`, `rebind_forksrv`, `Drop`, the serving loop | timeouts racing late answers, dead servers, inherited descriptors |
| Driver threads | `fuzzer/src/fuzz_main.rs`, `fuzz_loop.rs`, `Executor::track` | threads, queues, `forklock`, pipe ends, targets | `fuzz_loop`, `grading_loop`, `main_thread_sync`, SIGINT | descriptor inheritance, hanging targets, poisoned lock, shutdown |
| Solver | `fuzzer/src/z3solver.rs` | path condition by offset groups, `fmemcmp_data`, counters | one handler per message type | groups that merge after constraints were kept |
| Union-find | `fuzzer/src/union_find.rs` | parents, ranks, rings | `alloc`, `find`, `equiv`, `union`, `force`, `get_set` | path halving inside another operation, ring splicing, saturation |
| Branch filter | `fuzzer/cpp_core/filter.cc` | trace and context maps shared by jobs; counters per session | `qsym_filter`, sessions | unlocked read-modify-write, 8-bit counters that wrap |
| Taint runtime | `llvm_mode/dfsan_rt/dfsan/dfsan.cc` | label table, shadow memory | `__taint_union`, `__taint_union_load`, `__taint_union_store` | fast paths that must agree with the slow one |
| Libc wrappers | `llvm_mode/dfsan_rt/dfsan/dfsan_custom.cc`, `tainted` of `dfsan.cc` | the input's descriptor, labels of bytes in memory | one `__dfsw_` function per libc function | descriptor numbers used again, short reads, what a comparison's length depends on |
| Code around calls | `llvm_mode/pass/TaintPass.cc` | `__dfsan_arg_tls`, `__dfsan_retval_tls`, `__angora_context` | calls, returns, trampolines, `dfsw$` functions | callbacks, signal handlers, exceptions; two binaries that must agree |
| Seed import | `fuzzer/src/sync.rs` | `sync_ids` | `sync_afl`, `sync_one_afl_dir` | AFL adds files during a listing |

How they interact: each job has a `fuzz_loop` thread, which takes an id from the
depot, starts the tracked target (taint runtime) and runs the solver on the
messages of its pipe; the solver asks the filter which branches to solve and
uses the union-find for offset groups; solutions go through a queue to the
job's grader, whose executor runs them through a fork server, asks the coverage
maps whether they are new, and saves them to the depot. The main thread imports
AFL's queue. Threads share the depot, the maps, the filter's maps and `forklock`.

Section 6 lists what is not modelled.

## 2. The modules

Each component has a module `X` (the specification and its properties) and a module
`MCX` with the constants of the TLC instances; the proofs are in eight modules, some
of which serve two components (section 4). A component that shares its proof module
has its own prefix where names would meet (`FilterSpec`, `PipelineSpec`,
`CallsSpec`). `Queue` and `Partition` are abstract specifications of what Depot and
UnionFind promise to their users. Definitions whose name begins with `Bug` are faulty variants of the
operation that follows them; no specification uses them. They show that a
property can fail.

**Depot.** Every atomic load, store, `compare_exchange` and file operation is a
step. A saver goes through `SaveLoad`, `SaveCreate`, `SaveWrite`, `SaveStore`; a
taker through `TakeLoad`, `TakeCompare`, `TakeCas`, `ProgressTruncate`,
`ProgressWrite`, `GetInputBuf`, and, in a restarted fuzzer, first
`LoadProgress` and `RestoreNextId`. Buffers have lengths, so two writers of the
same file can leave a mixture. Histories: `saved`, `taken`, `scanned`.

**Queue** is the FIFO queue that the repository's README promises: append, hand
out in order, read, rewind after a restart. `ImplementsQueue` in Depot maps the
files below the counter to the queue and `next_id` to its head. The code keeps
the promise only while saves do not overlap, so Queue allows anything after a
clash.

**Branches.** `Ran` leaves a trace; `has_new` is its read-locked part
(`HasNewRead`), the addition to `density`, and its write-locked part. A byte of a
map is its set of one bits. History: `found`.

**Forksrv.** One executor, its successive servers, their children and both pipes
of each. The executor's control is that of `run_inner`, `check_timeout` and
`Forksrv::run`; `SrvDie`, failed forks and failed spawns are the faults.
Children are tagged with the run that asked for them, which lets the properties
say whose trace and whose status is being used.

**UnionFind.** One iteration of each loop is a step, so every intermediate shape
of the forest is a state. History: `cls`, the sets joined so far.

**Partition** is what the solver relies on: a partition with a representative in
every set, and calls that answer in one step. `ImplementsPartition` hides the
forest, the ranks and the rings: all iterations of a call but the one that
decides its answer are stuttering steps.

**Pipeline.** The threads of all jobs, `forklock` (free, held, poisoned), the
pipe ends open in the fuzzer, and the ends each process inherits when it is
started. The queue of inputs is counted, the fork servers appear as processes
that live for ever; their details are in Depot and Forksrv.

**Solve.** The messages of one tracked input in any order that the target may
send them. A label is abstracted to the set of offsets it depends on and its
value on an input; Z3 is any choice among the inputs that satisfy what it was
given, or no answer. The union-find is used through the interface that
UnionFindProofs establishes (that of Partition).

**Filter.** Sessions of several jobs; each read and each write of the shared maps
is a step. Counters have `Width` bits.

**Taint.** Straight-line programs of input reads, stores, loads and arithmetic;
memory and the register hold their value as a function of the input, and `val`
is what `serialize` makes of a label. `LabelsRight` then says that the two agree
on every input, not only on the seed. The runtime loses track of a value in two
situations (a load that starts with a concrete byte, and labels that pass the
shape test by accident); the model has both, records them in `odd`, and follows a
program up to such a load: what comes after it says nothing about labels. `Slow`,
`Extracts` and `Number` are the loops of the code, written as recursive functions
with one operator per iteration (`SlowStep`, `ExtractStep`), about which the proofs
can speak. Not in the model: labels of the file size,
which are the only ones in shadow memory that are wider than a byte (and with
them the branch for partial loads), `memcmp`, casts and comparisons, threads.

**Wrappers.** One action per wrapped libc function (or group of functions that do
the same), in any order that a program may call them. A cell of memory has its
byte, which names the input offset it came from, and its label. The functions
without a wrapper that change what the wrappers rely on are actions, too: `dup2`,
`endutxent`, `getutxid` and `getutxline`, and any other that writes memory. What the
runtime does not follow is recorded in `habits`: the input on a descriptor that it
lost (`dup2`, `freopen` and the like), a standard input that is not the input, a
`stat` of another file than the utmpx functions read (`stat`), and a position of
these that moved (`moved`). Labels are those that the code writes, wrong ones
included; where they come from is in `habits` as well: `misread` (another file on the
descriptor in `tainted.fd`, which is 0 before the input is opened), `anon` (a mapping
of no file while the input is closed: its descriptor -1 is then `tainted.fd`), `zero`
(a zero byte of the input, at which `fgets` stops with label 0) and `record` (a utmpx
record after `stat` or `moved`). A label that the code leaves as it was, although the
byte changed, is `Unknown`; nothing is claimed of it. A comparison has the number of
bytes that the wrapper counted (`len`) and the one that `dfsan_union` takes as a `u8`
(`size`, modulo `SizeLimit`).

**Calls.** The stack of one thread, run in step by the tracked and the fast
binary. A frame is a function of the program, a library function, or a library
function entered through `dfsw$F`. The store of a call's labels in `__dfsan_arg_tls`
and their load in the callee are two steps, and so are the store and the load of a
result: `pend` has, for each depth of the stack, what is stored and not yet taken.
Between the two a signal handler may run, and a callee may be entered by a library
that stores no labels (`RawCallback`); both leave the labels of an earlier call where
the callee looks. `loaded` is what the last step loaded, with what it was given,
which is `Unknown` if nobody gave it or a handler overwrote it. Contexts are xors of
hashes, modelled as sets of names that occur an odd number of times, so that recursion
cancels as it does in the code. `Jump` is an exception or a longjmp that ends in an
earlier frame, `Resume` the end of a cleanup. Names with a `$` of their own, which the
fast binary strips too much of, are left out.

**Sync.** The polls of the main thread, entry by entry, while AFL saves files.

## 3. What is checked

| Run | Instance | Shows |
|---|---|---|
| `depot` | 2 savers, 2 takers that restart, 3 buffers and ids | `NoHole`: an id that is handed out has a file; `ExclusiveTake`; `ProgressBehind`: `ce_progress` never names an id nobody got; `ImplementsQueue`; `EventuallyScanned` |
| `depot_fifo` (violation) | 2 savers | `NothingLost` fails: see Findings |
| `branches` | 2 executors, 2 edges, 2 buckets | `SeenWasFound`: nothing is hidden; `EdgeStaysTouched`; `Settles` |
| `forksrv` | 2 servers, 2 runs, 1 fault at any point, inheriting processes | `TraceIsOwn`, `StatusIsOwn`, `DeadServerNoticed`, `RunReturns`, `ServerEnds` |
| `unionfind` | 4 elements and 1 allocated | `RankOrder`, `CallReturns`, `ImplementsPartition` |
| `pipeline` | 2 jobs, 2 inputs | `WriteEndOwn`, `StraysWereLeft`, `EndsClosed`, `EventuallyTracked`, `EventuallyStopped` |
| `solve` | 3 offsets, 8 conditions of all types | `SolutionFlips`, `NestedFollowsPath`, `NestedStaysLocal` |
| `filter` | 2 jobs, 1 branch, 2-bit counters, 3 branches per session | `TurnedDownWasTried`, `MapsSettle` |
| `taint` | 2 input bytes, 2 memory bytes, programs of 6 instructions | `Interned`, `LabelsRight`, `RoundTrip` |
| `wrappers` | input of 2 bytes, 2 descriptors, 2 blocks of 3 bytes, 3 calls | `Followed`, `UtmpFollowed`: the runtime knows where the input is; `LabelsFollowBytes`; `CompareDecides`: the bytes that a comparison with a constant names decide it on every input |
| `calls` | 2 program functions, 2 library functions, 3 frames, any number of steps, signals and jumps at any point | `ArgumentsOfThisCall`, `ResultOfThisCall`, `ContextsAgree`, `ContextIsPath` |
| `sync_skip` (violation) | 1 node, 3 files | `SeedsSynced` fails: see Findings |

`TypeOK` is proved where there is one, and in Taint, where it also gives the sizes of
labels, TLC checks it too; Wrappers and Calls leave their types to the invariants (`DescType`, `UtType` and the
others in WrappersProofs, `FrameRec` in BranchesProofs).

**Bounds, and why they are enough.** Depot: two savers are what it takes for a
stale store, a third input for it to move the counter back below `next_id`;
`depot_fifo` has a fourth, and a seed. Branches: two executors and two edges let a stale
write-back meet a fresh one in the same and in another cell. Forksrv: with two
runs and two servers an answer or a child of the first can meet the second, before
and after a replacement; the proofs cover any number of both, and with it the
third timeout in a row (`TMOUT_SKIP`), which two runs do not reach; a pipe that
holds two messages holds both answers of a run. UnionFind: four elements give rank 2
and paths of length two, which halving changes; `MaxRank` = 3 is the smallest
value for which `Size < 2^MaxRank`. Pipeline: two jobs suffice for one to fork
while the other has its write end open. Solve: three offsets allow two groups to
merge through a third condition; `LocalMax` and `GepMax` (64 and 16 in the code)
are lowered so that both are exceeded. Filter: three
branches pass one edge twice, so that a count has a second bit and two jobs overwrite
each other's; the counters do not get to the wrap, which the proof covers for any
`Width` and any number of branches (at the wrap the count has no bit, and
`TurnedDownWasTried` has nothing to say of that call). Taint: six instructions are
enough to read two bytes, combine them, store the result as extracts and load it
again; bytes of two values tell sums, differences and parts apart. Wrappers: three
calls let every call follow an `open` and an allocation, or any two others; blocks hold
constants of one character and of two at the start, and `SizeLimit` = 3 is exceeded by
the comparison of a whole block; the proofs cover programs and strings of any length
and any limit. Calls: three frames are enough for a callback
under a library function, for a jump to the middle of the stack and for one that
passes a frame; what a frame saves and recovers is its own, so deeper stacks repeat
this.

**Deadlock** is checked where the system runs for ever (Depot, Branches, Filter, Calls).
It is off where it may stop: the executor is dropped, the solver reaches the end
of its pipe, the programs of Taint and Wrappers end, SIGINT ends the threads, and a panic ends
the calls of the union-find.

**Fairness.** Only steps that the code takes without waiting for another party
are fair (weak fairness): a save that has begun, the polling of a `fuzz_loop`, the
executor and live servers, an iteration of a loop in the union-find, the
threads of the pipeline, and the end of a target that runs under `timeout`.
Nothing is assumed about the start of a save, children and targets without
`timeout` (they may hang), faults, SIGINT or other processes. `ServerEnds` states
its additional assumptions, that children end and inherited ends are closed, in
the property itself. `Settles` of Branches needs no fairness.

## 4. What is proved

All theorems hold for every value of the constants that satisfies the named
`ASSUME`s of the module, so for any number of threads, jobs, inputs and runs.
Each proof establishes an inductive invariant `IInv`, one lemma per action.

- **DepotProofs** (`TypeOK`, `NoHole`, `ExclusiveTake`, `HandedInOrder`,
  `ProgressBehind`). `NoHole` is not inductive because a late store moves the
  counter back to a value that some saver loaded long ago; `SaverInv` says that
  everything below the id a saver holds has a file already. `Covered` says the
  same of ids handed out, for `next_id`, for each taker's local id and for
  `ce_progress`, from all of which `next_id` may be restored.
  `Implementation` (`ImplementsQueue`) shows the refinement: the store of the
  counter is Put, the `compare_exchange` is Take, `GetInputBuf` is Read, a restored
  `next_id` is Rewind. It needs in addition that without a clash one saver at most
  is between its load and its store, so the counter it loaded is the counter, and
  every file below it is whole.
- **BranchesProofs**, of Branches (`TypeOK`, `SeenWasFound`, `EdgeStaysTouched`):
  `PendingInv` carries the properties over the gap between the two locks: what
  an executor is about to write clears only bits that were found. Of Calls
  (`ArgumentsOfThisCall`, `ResultOfThisCall`, `ContextsAgree`, `ContextIsPath`), for
  any functions, labels and depth: a return makes a saved context current and a jump
  may uncover any frame, so the invariant `Contexts` says of every frame, not only of
  the last, what it has saved: for the fast binary the program's functions that occur
  an odd number of times below it, unless a jump ended there, and for the tracked
  binary what differs from that by the `dfsw$` frames. The labels need `Transfers`: a
  transfer that is pending at some depth and whose label is not `Unknown` has that label
  in the thread-local variable, since whatever stores another one between the store and
  the load marks the transfer (`Overwrite`).
- **ForksrvProofs** (`TypeOK`, `TraceIsOwn`, `StatusIsOwn`,
  `DeadServerNoticed`). `Phase` says, for each place where the executor can be,
  what is in the two pipes and where the server is; `Alone` says that no server
  but the current one can still have a child.
- **UnionFindProofs** (`TypeOK`, `RankOrder`, `FoundRight`, `GetSetRight`,
  `ForceFlat`). A root of rank r has at least 2^r elements, so ranks do not
  saturate; a ring has no proper closed subset, so walking it until it comes
  back visits all of the set. No run checks `FoundRight`,
  `GetSetRight` and `ForceFlat`, only the proofs do. `Implementation`
  (`ImplementsPartition`) shows the refinement: the step that decides a call's answer
  is the answering step of Partition, every other iteration stutters.
- **SolveProofs**, of Solve (`TypeOK`, `SolutionFlips`, `NestedFollowsPath`,
  `NestedStaysLocal`): a constraint is kept at an offset whose group has all its
  inputs; groups only grow, so the group of a solved condition has all of a
  constraint's inputs, and Z3 was given the constraint, or none of them, and they
  keep the seed's bytes. This rests on `InsAssumption`: `serialize` collects
  every offset a value depends on. Of Pipeline (`PipelineTypeOK`, `WriteEndOwn`,
  `StraysWereLeft`, `EndsClosed`): a write end is open in the fuzzer only while
  `forklock` is held or poisoned, so no process can inherit another's.
- **WrappersProofs**, of Filter (`FilterTypeOK`, `TurnedDownWasTried`): the bits in
  the trace map, and those that calls have read and may write back, were all tried.
  Of Wrappers (`Followed`, `UtmpFollowed`, `LabelsFollowBytes`, `CompareDecides`), for
  any input, any number of descriptors and blocks and any sequence of calls:
  `FollowInv` ties the descriptor that the runtime has recorded to the one that the
  input is open on, until a habit breaks the tie, and `UtmpInv` the file and the offset
  of the utmpx wrappers to libc's: `setutxent` sets only the position right, so the
  file is followed on its own. With these every read labels its bytes rightly or the
  mistake is noted (`ReadCell`), and every other call moves cells that are already right
  (`MemRight`), which stay right when habits are added (`Grow`). For the comparisons:
  on another input the two strings first differ among the `len` bytes that the wrapper
  counted, or nowhere before their end (`Decides`); `NarrowFacts` says what is left of
  this in `size`.
- **TaintLemmas** and **TaintProofs** (`TypeOK`, `Interned`, `LabelsRight`,
  `RoundTrip`), for every program, seed, and size of input, memory and byte.
  TaintLemmas is about the operators, for any table that is well formed (`Wf`: the
  operands of an entry are older than the entry and in the order of `Normal`, no entry
  is there twice, the labels of the input come first) and typed (`Typed`: what an
  entry stands for fits its size, and loads stay within the file). It shows that a
  number is the sum of its digits and has no other digits (`DigitsNumber`), that the
  table only grows and old labels keep their meaning (`UnionMade`, `MakeWf`), and that
  each path of `__taint_union_load` returns a label for the number that the bytes make
  (`LoadRight`): the shape test because the input's labels are consecutive, the
  extracts because all digits of one value are that value, the slow path because each
  Concat adds one digit. TaintProofs adds the store (a value is broken up into labels
  of its digits) and the induction over the program: `TaintInv` says that the table is
  well formed and that the register's and every byte's label means its value.
  `PowAssumption` states the two equations of powers that the provers leave open; TLC
  evaluates it.

What a loop computes for every number of iterations needs an induction over data. The
provers cannot use the library's induction principles, which take an operator; the
proofs take the least counterexample instead, which is a fact about sets (`Least`,
`UpTo` in TaintLemmas, `LeastElement` in WrappersProofs) that follows from the
library's well-foundedness of the natural numbers.

Only model-checked: the liveness properties (`EventuallyScanned`, `RunReturns`,
`ServerEnds`, `CallReturns`, `EventuallyTracked`, `EventuallyStopped`, `Settles`,
`MapsSettle`), which are out of the prover's reach. Every invariant, action property
and refinement of a passing run is proved.

## 5. Findings

- **Two savers lose an input** (`depot_fifo`). `save_input` loads the counter,
  writes the file and stores id + 1 with no lock: two graders that load the same
  id write the same file. The repository's README calls the driver one "with a
  FIFO seed queue". As long as saves do not overlap it is one (`ImplementsQueue`).
- **A poll that finds nothing skips the next file** (`sync_skip`).
  `sync_one_afl_dir` starts `max_id` at `min_id` and stores `max_id + 1`, so each
  empty poll moves the id on and the file AFL saves next is never imported.
  `main.rs` describes the option as "Sync the seeds with AFL."

What the properties exclude because the code does otherwise, without a document
that says it should not, is stated in the property: a grader waiting for a
solution keeps the fuzzer from stopping (`EventuallyStopped`), a server killed
between its fork and its report leaves the executor waiting (`RunReturns`), a
second comparison of the same bytes replaces the memory of the first (`Intact` in
Solve), and the two loads that lose track of a value (`odd` in Taint). In Wrappers,
by the property that makes the exception:

- `Followed`: the input on a descriptor from `dup2` or `freopen`, opened twice, or
  opened as descriptor 0, a failed second `open`, a failed `fclose`; and a standard
  input that is not the input, until the input is opened.
- `UtmpFollowed`: a `stat` of another file, and `endutxent`, `getutxid` and
  `getutxline`, until `utmpxname` or, for the position, `setutxent`.
- `LabelsFollowBytes`: labels on an anonymous mapping made while the input is closed,
  label 0 on a zero byte of the input that `fgets` read, labels on bytes of a file that
  the runtime took for the input. The property allows these labels on these bytes and
  nowhere else. It says nothing once the input is lost or a utmpx record was labelled
  at a wrong offset.
- `CompareDecides`: strings that both have input bytes, or begin with a constant byte
  and go on with input bytes; of comparisons of 256 bytes and more it says only that
  the bytes named in the label are equal when the strings are.

In Calls, `ArgumentsOfThisCall` and `ResultOfThisCall` say nothing of an argument that
a library passes to a callback by a raw pointer, of the result of a function that
stores none, and of labels that a signal handler overwrote between store and load.
Two facts about the pass stand beside `ContextsAgree` and
`ResultOfThisCall`: below a `dfsw$` function the contexts of the two binaries
differ, since a wrapper takes the place of its function in `FnsToInstrument` and gets
the context code like a function of the program; and a
function listed as functional (`tolower`, `isdigit`) returns label 0, where the
comment on `WK_Functional` speaks of "the union of the label of its arguments" and
`visitCallSite` has a FIXME.

## 6. Not modelled, and why

- **Libraries in the tree**: LLVM's `sanitizer_common`, `interception` and
  `builtins`, about three quarters of all lines of C and C++, and the headers of
  hash functions and queues under `cpp_core`. They are the ground that fastgen stands on, like
  libc, and the modules treat them so. For this reason the map covers a small share
  of the lines of the repository.
- **Code that is not built or not called**: all of `cpp_core` but `filter.cc`,
  `track_cons.rs`, `shm.rs` of the fuzzer, `run_target`, and the passes DFSanPass,
  AngoraPass and UnfoldBranchPass, which `ko_clang.c` does not load.
- **Translations without state**: the rewriting of LLVM IR by TaintPass (the code it
  inserts is in Taint, Calls and Forksrv), `union_to_ast.rs` and the other files on
  label expressions, and the wrappers that only return label 0. What a
  translation computes for every input needs an induction over expressions, which is
  outside the prover, and bounded instances of it would repeat unit tests.
- **Set-up and input/output**: the compiler wrapper, the command line, directories,
  limits, logging.
- **Parts of modelled components**: labels of the file size and partial loads, casts
  and two threads of a target in Taint; `gets`, `pthread_create`, the write callback,
  `getchar`, `inet_pton`, `localtime_r` and `format_buffer` in Wrappers; what a stray
  target does to the label table, and a second close of a descriptor, in Pipeline;
  the renumbering of the queue when a fuzzer is restarted with `-`.

`PROJECT.json` lists each component with its status, and each hazard that no
property covers with the reason.

What would come next: labels that two threads make at once, and the composition of Depot, Branches and Forksrv in a grader (an
input is saved exactly when its own run was new).
