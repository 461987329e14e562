# TLA+ models of mutable

*mutable* is a main-memory database system: a shell or a program hands SQL
statements to the library, which parses and analyses them, optimises queries and
executes them by an interpreter or by generated WebAssembly. This directory
models the parts of it whose correctness depends on the order of steps: threads,
locks, queues, shared tables, data structures with long histories, the search for a
query plan and the evaluation of the plan.

`PROJECT.json` lists components, runs, mutants, the map from definitions to
source lines, findings, hazards and theorems. Paths below are relative to the
repository.

## Inventory

### How a statement flows

`process_stream()` (`src/mutable.cpp`) parses one statement after the other and
hands each to `Scheduler::autocommit()`. The scheduler queues the command, its
worker thread, meant to be the only one, analyses and executes it, and the client waits for the future. A
command works on the catalog: it creates databases, tables and indexes, loads
rows, or optimises and runs a query. Names are interned in thread-safe pools of
the catalog, which parser and worker share. The pools rest on the reader-writer
mutex. Everything below the worker is sequential: the optimizer enters the sources
of the query into a plan table, a plan enumerator fills it with joins, the optimizer
reads the plan off the table, and the interpreter pushes blocks of tuples through
the plan. Hash joins keep their build sides in reference-counting hash maps.

### Components

| component | state | operations | what is hard | what makes it correct |
|---|---|---|---|---|
| reader-writer mutex (`util/reader_writer_lock.hpp`) | three counters, two flags, a mutex, two condition variables; a state per handle | lock, try_lock, upgrade, unlock | lost wakeups, upgrade deadlock, notify_one with two kinds of sleepers | exclusion, exact counters, no lost wakeup, writers and upgraders first |
| pool (`util/Pool.hpp`) | hash table of entities with atomic reference counters | pool an entity, copy and drop proxies | an iterator kept while sleeping, retries after a refused upgrade | the hint is valid, no concurrent access, counts exact, calls return |
| scheduler (`catalog/SerialScheduler.*`, `Scheduler.*`) | command queue, running transaction, promises, worker thread, start times | push, pop, close, stop, schedule, commit, abort, autocommit, destructor | three threads of control, unsynchronised thread creation and with it a second worker, references to transactions, shutdown | every promise answered once, serial execution, in program order by a single worker, ordered start times, shutdown returns |
| unsharable shared pointer | use count | exchange, get, release | one owner must be the last | never two releases |
| reference-counting hash map | table of entries with probe lengths | insert, look up all of a key, resize | overlapping probe sequences, growing in the middle of an insertion | no lookup misses an element, nothing is lost |
| list allocator | sorted list of free chunks, marks on first chunks | allocate, deallocate, destroy | splitting and coalescing, header found from the client's size | chunks tile the mappings, no overlap, everything unmapped |
| linear allocator, address spaces (`util/memory.*`) | offset, marks, mappings | allocate, deallocate, map | reclaiming in an order other than LIFO | live allocations disjoint |
| bit sets, adjacency matrix, minimal cuts | words | enumeration of subsets, connected subgraphs and cuts | boundary cases, the order of the enumeration | each subset and each cut once, parts before the whole |
| query graph, CNF, conditions | sources, joins, clauses | build, decorrelate, convert | equivalence | same truth table |
| plan table, plan enumerators | best plan per subproblem | update, enumerate joins | each of 14 enumerators has an order of its own; a join is priced with the plans its sides have at that moment | the cheapest plan is found, by the heuristic ones what they promise; no join without an edge |
| two-phase optimizer | plan table, states of a random search | climb, anneal, commit | the table holds the plans first visited, not those of the state chosen | the final plan is no worse than the chosen state |
| heuristic search | states seen with path, parent and queue; least cost, budget | expand, prune, beam, reconstruct, complete | a cheaper path to a state seen before, or a more expensive one into the beam; an end without a goal | the plan is the path that was found, and the cheapest one for an admissible heuristic |
| optimizers | plan table, list of conditions | optimise sources, order joins, construct the plan | conditions are taken from a shared list by a recursion | each condition applied once |
| operators, cost and cardinality models | trees, regressions | match, cost | floating point | - |
| catalog, schema, commands, indexes | databases, tables, functions, indexes with validity | DDL, insert, import | an index that is stale, a command that fails halfway | an index that is used agrees with its table |
| stores, layouts | offsets | layout, copy | - | attributes do not overlap |
| DSV reader, lexer, parser, sema | position in a text | scan, parse, analyse | quotes, ends of lines and files | - |
| interpreter, stack machine | a block per pipeline, operator data, the C++ stack | run an operator, visit a block | blocks reused between pushes, an exception that unwinds nested runs, remainders of blocks | the root gets exactly the tuples that the plan means |
| WebAssembly backend | generated code | compile, run | traps | - |
| timer, diagnostics, options, shell, tools | - | - | - | - |

Interactions: parser and worker call the pools (shared, concurrent); clients call
the scheduler (shared queue, futures, condition variable); the worker calls the
commands, these the catalog, optimiser and backend (plain calls); enumerators call
`PlanTable::update` and read the entries that they wrote; operators call each other
through their pipelines, and a limit calls back across them by an exception.

### Plan

Done:

1. **Mutex, pool, scheduler**: the concurrent core, with the abstract specifications
   `RWLock` and `SerialExecution`, and proofs of all three; those of the pool use those of the mutex.
2. **Data structures with histories**: `ListAllocator` (abstract: `Allocation`, a set of
   disjoint blocks) and `RefCountingHashMap`, with proofs of both.
3. **Plan search**: `PlanTable`, which is also the abstract specification of what an
   enumerator may do with it; `PlanEnumerators`, `TwoPhaseOptimizer` and `HeuristicSearch`, which
   implement it, against exhaustive search by definition; with proofs, among them that the exact enumerators
   find the best plan and that the two searches end with the plan they have found.
4. **Execution**: `Interpreter`, composed with `RefCountingHashMap`, against the meaning of
   the plan, with proofs of what its visitors may rely on.

Left, in this order:

5. **Catalog**: databases, tables and indexes with their validity under the commands.
6. **Linear allocator and address spaces**, DSV reader, CNF against truth tables.
7. **Proofs** of more about the interpreter, as far as they need no induction over data: a scan pushes each row
   once, and the slots of a block hold different tuples.

## Modules

| module | models |
|---|---|
| `RWLock` | abstract: what the mutex promises to its clients |
| `ReaderWriterMutex` | `reader_writer_lock.hpp`: counters, mutex and handles |
| `MCReaderWriterMutex` | its instances for TLC |
| `ReaderWriterMutexProofs` | theorems about it |
| `ThreadSafePool` | `PODPool`/`Pool::operator()` and proxies, on an instance of `ReaderWriterMutex` |
| `MCThreadSafePool` | its instances for TLC |
| `ThreadSafePoolProofs` | theorems about it |
| `SerialExecution` | abstract: transactions one after the other |
| `SerialScheduler` | `SerialScheduler.cpp`, `Scheduler.cpp` and their clients |
| `MCSerialScheduler` | its instances for TLC |
| `SerialSchedulerProofs` | theorems about it |
| `Allocation` | abstract: disjoint, aligned blocks |
| `ListAllocator` | `list_allocator.hpp`, with the kernel's mappings and the clients |
| `MCListAllocator` | its instances for TLC |
| `ListAllocatorProofs` | theorems about it |
| `PlanTable` | `PlanTable.hpp`: what an enumerator may do with the table |
| `PlanEnumerators` | `PlanEnumerator.cpp/.hpp`, with the graph and set enumerations they use; `construct_join_order()` |
| `TwoPhaseOptimizer` | `TwoPhaseOptimizer.cpp` |
| `HeuristicSearch` | `HeuristicSearch.hpp`, `HeuristicSearchPlanEnumerator.hpp/.cpp` |
| `JoinOrdering` | `optimize_join_order()`: any of these enumerators on one query |
| `JoinOrderingProofs` | theorems about the plan table, then about what all enumerators do with it |
| `BestPlansProofs` | theorems about costs: the searches end with the plan they chose, and which enumerators find the cheapest |
| `MCPlanEnumerators` | their instances for TLC |
| `RefCountingHashMap` | `RefCountingHashMap.hpp` |
| `RefCountingHashMapProofs` | theorems about it |
| `Interpreter` | `Interpreter.cpp`: pipelines, blocks and operators |
| `MCInterpreter` | its instances for TLC |
| `InterpreterProofs` | theorems about it |

A definition whose name contains `Mutant` is a plausible bug in the definition
that follows it. No action uses it; `PROJECT.json` says which property the
definition violates when it takes the place of the original.

### ReaderWriterMutex

`rw` is `rw_`, field by field. `phase[t]` is the place of a thread inside a call:
asleep in `cv_readers_` (`sleepR`) or `cv_writers_` (`sleepW`, `sleepU`), awake and
about to test its predicate again, about to give up a read lock (`giveUp`), or
between the unlock of `mutex_` and the notification (`notifyR`, `notifyW`).
`owns[t]` is the state of the thread's handle. A critical section of `mutex_` is one
action; a wait tests its predicate and falls asleep in one action, because the C++
wait releases the mutex and blocks atomically. `notify_one` wakes any sleeper of
the condition variable, and a sleeper may wake for no reason. The calls a thread
makes are the constant `MayCall`; `Handle` says whether a refused `upgrade()` gives up the read
lock (`reader_writer_lock`) or keeps it (`upgrade_lock`). The counters wrap at
2^16 as `uint16_t` does; `ThreadsAssumption` limits the threads to what they
can count.

### ThreadSafePool

Each caller goes through the loop of `operator()`: `lock_read`, `find`, then either
the proxy or `upgrade` and `emplace_hint`. `missed[t]` is the table as `find` saw it,
which is what the hint stands for. The reference counters are atomic, so proxies
are copied and dropped without the lock in any state in which their owner is
outside `operator()`. `MaxProxies` bounds the proxies of one entity per thread.

### SerialScheduler

One client per transaction; a client pushes its commands one after the other,
waits for its futures and stops the transaction (`commit` and `abort` have the same
effect on the scheduler). `Push` is the critical section of `push()`; the
notification, the test of `joinable()` and the creation of the worker follow as
actions of their own. A worker goes through `test` (the loop condition), `pop`,
`begin` and `stamp` (start time), `execute` and `resolve`. `Execute` returns or throws;
errors a command reports to the diagnostic while it executes do not matter to the
scheduler, which answers true (although `Scheduler.hpp:45` says true means success). `Reject` stands for
an error of the parser or of semantic analysis. The destructor closes the queue, notifies and
joins. An `M_insist` that fails, an exception in a worker and an assignment to
a joinable thread end the process: `fault` records why, and no action follows.

Nothing keeps two clients from starting a worker each: `joinable()` is read without a lock (`CheckThread`),
the worker runs as soon as the temporary `std::thread` is there (`CreateThread`), and only then does
the assignment test what it assigns to (`AssignThread`) and swap the two (`StoreThread`). A worker is
therefore named after the client that has started it; `handle` is the worker that `schedule_thread_` refers to. If the second
assignment comes after the first, it terminates the process, with both workers running until then. If the two overlap,
which is a data race, both find no thread to be there; either the process is terminated when the swapped-out thread is
destroyed, or both workers live on, and `schedule_thread_` refers to one of them. Then two commands of the running
transaction can be in hand at once, execute at the same time and in the wrong order, although `SerialScheduler.hpp:13` says that there is
no concurrent execution; both workers may read that the transaction has no start time yet; and
the destructor joins one worker only. `Several` says that two workers have been started. What holds nevertheless:
no command is lost or executed twice (`PromiseExact`), both commands are of the running transaction
(`TransactionsAlive`), transactions follow one another and their start times their order. What needs a single worker
is in `OneWorkerSuffices` and, as `overlapping`, in `SerialExecution`: the order of the commands within a transaction.

`push()` searches the list from `rend()` to `rbegin()`. On a non-empty list the first
element it reads is the sentinel. What this read gives is undefined, so it is a
choice: it faults, it matches, or it differs from the transaction
(`SentinelReads`; with libstdc++ it faults). The choice decides where the
command is inserted.

`log` and `outcome` are history variables.

### ListAllocator

`chunks` is the list `chunks_` in list order; that it is sorted is a property, not an
assumption. A chunk is its address, its size and the mark that the code keeps in the
high bit of the size. `used` holds the chunks in use with the client's size and
alignment; the code has no such list, but finds the size of a chunk again
at `SizeAddr`. `mapped` is what `mmap` has given and not taken back; where a mapping
lies is any choice of the kernel. `allocate` is one of two actions, by whether the list
has a chunk that fits (`AllocateFromList`) or not (`AllocateFresh`); each splits the chunk if the
code would, unlinks it and records its size. `Deallocate` inserts, coalesces with the
successor and then with the predecessor. If `mmap` fails, the code throws before it
has changed anything, and there is no step. The proxy through which the list
"allocates" its nodes inside the chunks has no state between two calls and is
left out. `Destroy` requires that everything was given back.

### PlanTable

`table[S]` is the `PlanTableEntry` of subproblem `S`: cost, left and right side. The
data model of a subproblem, from which the code predicts its cardinality, is the
constant function `card`, chosen at first; the cost function is C_out. `Next` is what
every enumerator may do: join two disjoint subproblems that have plans, by
`update()`, which keeps the cheaper entry. The dense and the sparse table differ in
their storage only.

### PlanEnumerators

An enumerator is the sequence of joins that it considers. For the bottom-up ones
(`PEall`, `DPsize`, `DPsizeOpt`, `DPsizeSub`, `DPsub`, `DPsubOpt`, `DPccp`) and the greedy
ones (`GOO`, `TDGOO`) it does not depend on the table, so that an operator gives it; the
orders of `SmallBitset` and `GospersHack` are part of it (`ByValue`, `OfSize`), and so is the
queue of `for_each_CSG_undirected` (`SearchFrom`) and the worklist of `MinCutAGaT` (`MinCuts`).
`IKKBZ` and `LinearizedDP` have one sequence for each way in which their priority
queues break ties. The top-down ones (`TDbasic`, `TDMinCutAGaT`) look at the table:
their recursion is the list `tasks`, whose task `solve` is a call of `PlanGen` that
returns at once if its subproblem has a plan. Each join is one step of `PlanTable`. Six enumerators test
`has_plan()` before a join and skip it (`TestsPlans`), since they meet subproblems that are not connected. The others
call `update()` whatever the table holds, only `PEall` and `TDMinCutAGaT` with an assertion; so does the model.
That the sides of their joins have plans follows from the order of the joins alone. A join that came too early would
be a step that `PlanTable` does not have, and violate `ImplementsPlanTable`.
`Construct` is the recursion of `construct_join_order()` with the list of conditions
that are still to be applied.

### TwoPhaseOptimizer

`search` is the state of the two phases: `current`, `best`, the neighbours still to try.
Evaluating a state visits its joins, and prices those that have no entry yet
(`visit`). Temperature and random numbers are left out: annealing may go on for any
time, and may accept a neighbour that is more expensive. `MaxRestarts` bounds the
restarts, 10 in the code.

As the code stands, neither phase leaves the state it starts from for a cheaper one:
swapping the sides of a join does not change C_out, and the pattern of
`apply_associativity` (`TwoPhaseOptimizer.cpp:81`), the right side of a join being the
left side of the next, does not occur in a generated state. The result is the
cheapest of the random states. The model follows the code. The climb has no bound on its iterations, as the code
has; since no neighbour is ever cheaper, it never iterates.

### HeuristicSearch

`hs` is one search: its configuration, the states seen so far (`known`: cost `g` of the
path, heuristic value `h`, parent, the mark, the queue it is in), the least cost of a
complete path, and the budget. `Explore` is one round of the loop: it pops a most
promising state, expands it, chooses the beam and pushes every successor. Successors of one
state are distinct, so that the order among them does not matter; ties between
states are broken in every way. `Joinings` and `Cuttings` are the expansions; the mark
prunes joins that another path makes. The search ends in a goal, without budget or without
states; the joins it has found become `tasks` and go to the plan table one by one.

A configuration is what `heuristic_search_helper` selects: direction, heuristic, lazy
evaluation, weight, beam, pruning by cost, upper bound and budget. `beam_width` of the
dynamic beam is 0 by integer division, which the code only compares with 1.
`reset_marked()` is never called: the concept `has_mark` looks for it in the state,
and it is in the expansion; marks stay as they are.
With lazy evaluation `for_each_successor_lazily()` (`HeuristicSearch.hpp:809`) always finds a cached value
for the current state, the 0 of the initial state handed on: `lazyAStar` never evaluates its
heuristic. When the budget ends, the completed plan is taken also if it is more expensive than the
initial plan of the upper bound, which `HeuristicSearch.hpp:590` says can be used. The model follows both.

### JoinOrdering

One query is ordered by one enumerator: `OrderingNext` is a step of the list of tasks, of the randomised search
or of the heuristic search. The last two put their joins into the list, and wait until it is done.

### RefCountingHashMap

A map has a capacity, the probe length of each slot and what is in the slot. An
insertion is a start, which resizes a full table, a step for each slot of the old
table, and a finish; `ins` is the insertion in progress. `Place` puts an element at the
first free probe of its bucket at or after the bucket's end, and sets the length of
the bucket as the loop of `insert_with_duplicates()` does. There may be several maps, one
per hash join.

### Interpreter

A plan is a sequence of operators, children first; the plans that TLC runs are of the shapes that
`Optimizer` and the physical optimizer produce (`MCInterpreter`). `PlansAssumption` says what
every plan must be: a tree (`IsTree`) whose operators have their number of children (`HasArity`) and
the schema that the code gives them (`IsTyped`). `stack` is the C++ stack of
visitors: `run` frames for `Interpreter`, `push` frames for `Pipeline`. A block is its
slots and its mask, one per operator that owns a pipeline, reused for every push; what the
slots held before stays in them. `LimitReached` unwinds the stack to the innermost run
of a limit, which is where the code catches the exception. An operator that collects its input
(`PushCollect`), or builds, takes one tuple of the block per step. A tuple has one attribute
per scan, with the position of its row, so that equal values are told apart. Filters are
disjunctive clauses; a plain filter is a clause of one predicate. A grouping counts;
other aggregates differ in arithmetic. `CharKeys` says whether keys are character
sequences, which the code compares by address. The order in which a hash table of groups is iterated and in which
a sort leaves ties is any. A sort gets its data with its first block; if there was none, `as<SortingData>()` fails its assertion
(`Interpreter.cpp:1589`, `fn.hpp:262`) one line before the code tests for this case, and the process ends: such a state has no successor
but itself (`SortsNothing`). `ResultCorrect` says that this happens only if there is nothing to sort. `Print` stands for the sinks; `CallbackOperator` and `NoOpOperator`
take the tuples in the same way.

`Results` is the meaning of a plan: the possible sets of tuples, more than one because a limit
without an order may choose.

## Runs

`expect: pass`

| run | instance | shows | states |
|---|---|---|---|
| `rw_safety` | 4 threads, every call | exact counters, assertions, priority of writers; implements `RWLock` and so excludes; progress of writers and readers | 20026 |
| `pool` | 3 threads, 2 entities | hint, races, counts, every call returns | 68847 |
| `sched` | a session of 2 commands, a client with one, a worker started by each, destructor at any time | promises, references, start times, serial execution; futures become ready, the destructor returns; what a second worker breaks a single one does not | 110668 |
| `alloc` | 5 pages of 64 bytes, 4 kinds of requests, 3 chunks in use, both strategies | chunks tile the mappings, sizes survive, the list is sorted and coalesced, destruction unmaps everything, implements `Allocation` | 106032 |
| `plans` | 14 enumerators and 15 configurations of the heuristic search, 4 relations, 6 query graphs, every choice of two selective joins | exact enumerators leave the best plan of every subproblem, `LinearizedDP` the best for a linearisation, no cross products, conditions applied once, the committed plan is no worse than the chosen state, the heuristic search's plan is what the search found and below its bound, implements `PlanTable` | 330928 |
| `interp` | 8 plans, tables of up to 3 rows over 2 values, blocks of 2 slots | the root gets the tuples that the plan means, unless a sort without input ends the process; hash tables lose and hide nothing | 110834 |

`expect: violation`, each for a statement of the sources that the code does not keep:

| run | statement | what happens |
|---|---|---|
| `rw_mixed_upgrade` | a granted upgrade terminates eventually (`reader_writer_lock.hpp:47`) | `notify_one` wakes a plain writer that cannot proceed; the upgrader sleeps on |
| `sched_sentinel` | the queue is thread-safe (`SerialScheduler.hpp:18`) | a second client reads the sentinel |
| `sched_close` | `M_insist(&t == running_transaction_)` (`SerialScheduler.cpp:85`) | a client that `close()` answered aborts a transaction that never ran |
| `dpccp` | the table has the cost of the best plan (`PlanTable.hpp:111`) | `DPccp` joins a subgraph before its best plan is known, because subgraphs come breadth first |
| `hs_beam` | `M_insist(new_g <= this->g())` (`HeuristicSearchPlanEnumerator.hpp:341`) | missing braces: a state that enters the beam by a more expensive path forgets the cheaper one |
| `interp_keys` | tuples are compared by their keys (`Interpreter.cpp:824`), values for equality (`Tuple.hpp:158`) | keys of character sequences are compared by address: no two are equal |

Bounds. Four threads are one more than any property of the mutex talks about
together (an upgrader, a refused upgrader, a writer, a reader). Three callers of
the pool are an upgrader, one it refuses and one that arrives meanwhile; two
entities make the table change under a miss for the other. Two clients of the scheduler
start two workers; two commands of one of them can be in hand at the same time, and let a running transaction schedule behind the other one. The run
does not include `match` as a result of the sentinel read, with which the commands of a transaction may be
reordered (see the theorem `CommandsOrdered`). A running transaction whose command
is queued behind another one blocks the worker for good, a consequence of the same
search; `FuturesReady` names this state (`Starved`) and says that no other wait is for ever.

Words and headers of the allocator are as large as on the machine. A page of 64
bytes holds three small chunks and a rest, which is what splitting and coalescing
tell apart; three chunks in use leave a chunk with two unused neighbours; five
pages hold mappings side by side, which must not be coalesced, and an
allocation aligned beyond a page. The requests are less than a word, more than a
page with the size behind it, and two with alignments, one inside a page and one beyond.

Four relations give every shape of plan, left-deep and bushy, and graphs of every kind that
the enumerators treat differently: chains in two numberings, star, cycle, a cycle with
a pendant, clique. Results are large but for two subproblems chosen in every way, so
that every shape is the best one somewhere and greedy choices go wrong. In
the order of `DPccp` something is wrong only from six relations on, which is the instance of `dpccp`; for the
other enumerators four relations are what TLC can exhaust. The random search does not
look at the graph and runs on one graph with two estimates and one restart.
The heuristic search runs on all graphs, with the join of two given relations as one of the selective ones,
in configurations that the code registers and that together use every direction, heuristic and option.
Costs are integers, so that the next representable number after the upper bound is one more.

Two slots per block and three rows per table give full blocks, remainders, empty
pushes, and a block that a second probe tuple fills in the middle; the code has 64 slots.
Two values give duplicate keys, two buckets and unmatched tuples. Capacities 1 and 4 make
a table grow several times or hold overlapping probe sequences. The plans have joins on
both sides of a join, a grouping and an ordering on a join, and limits below joins and below limits.

`CHECK_DEADLOCK FALSE` in the runs of the scheduler, where the process ends when all clients
are done or when it dies, and in those of the enumerators, which end.

### Fairness

Mutex: a thread that is awake, owns a lock or is about to notify goes on
(`Finish`, weakly fair): the operating system schedules it and clients release
their locks. Nobody has to make a call, and the choice among sleepers and the order in which
threads get `mutex_` are not fair. So a single waiting writer may be
overtaken again and again by others that barge in; `WriterProgress` says only
that some writer gets the lock, and only in behaviours where no writer ever waits
next to an upgrader, which is what `rw_mixed_upgrade` shows to go wrong;
`ReaderProgress` has a premise too.

Pool: a caller inside `operator()` goes on. Scheduler: client, worker and destructor go
on; nobody has to destroy the scheduler. The other modules are sequential and have no
liveness property: enumerations and evaluations are finite, and `Finished` or an empty stack
ends them.

## Proofs

`ReaderWriterMutexProofs` proves, for any finite set of at most 65535 threads and
any `MayCall`: the type invariant, `MutualExclusion`, `CountersExact`, `InsistsHold`,
`WritersFirst`, `UpgraderFirst`, `ImplementsRWLock`, `RefusedOwnsNothing` for
`reader_writer_lock`, and `NoLostWakeup` under `WritersOrUpgraders`. The inductive
invariant is `IInv`: `TypeOK` and `CountersExact` with exclusion. Exclusion alone is not inductive, because the
predicates read the counters and not the handles; with exact counters a
predicate that holds says who owns what. The lemmas `GrantRead`, `GrantWrite`,
`GrantUpgrade`, `LeaveRead`, `LeaveWrite`, `FallAsleep` and `SameCounts` say what
the kinds of steps do to the cardinalities; the assumption on the
number of threads is what keeps the counters from wrapping. No lost wakeup is
proved per sleeper, on top of `IInv`.

`ThreadSafePoolProofs` proves, for any such set of threads, any entities and any bound on
proxies: the type invariant, `HintValid`, `NoRace`, `CountExact` and `NoLostWakeup`. It instantiates
`ReaderWriterMutexProofs` for the pool: every step of the pool is a step of its lock or
leaves the lock alone (`StepOfLock`), so that exact counters and exclusion come from there, and
every behaviour is one of the lock (`LockUsed`). The inductive invariant `PInv` adds what a caller owns at each
point of `operator()` (`LockOwned`), what it knows (`CallKnows`: its hint is the table) and the
counts. `HintValid` alone is not inductive: that nobody inserts in
between follows from the lock that the others would have to own.

`SerialSchedulerProofs` proves, for any transactions and commands: the type
invariant, `PromiseExact`, `TransactionsAlive`, `TimestampOrder`, `AnswersFinal` and
`NothingPoppedAfterClose`. The inductive invariant `IInv` says where an
unanswered command is (`Waiting`), which commands have executed (`Executed`), that a
transaction with an unanswered command is not over (`Living`), and that the
start times given out so far are below the next one and the running transaction
has the latest (`Stamped`). Insertion is treated once, by `InsertPlace`: whatever the sentinel
read gives, the command is put at one place of the list. If it never gives `match`,
that place is the end; under this assumption `CommandsOrdered` and
`SerialRefinement` hold. All of it is for any number of workers: a command that has left the queue is held by exactly one of them (part of `Waiting`).
Commands are queued and popped in order whoever pops them; that they are executed in order is proved as long as not `Several`, and
`SerialExecution` is implemented with this exception. `OneWorkerSuffices` needs more: `SurviveInv` says what a single worker
implies (a transaction to be stamped has no start time, an assignment finds no thread), and that an answered command belongs to the
running transaction or to one that is over, as long as the queue is open (`Owned`). From it follows as well
that only a destructor that runs under the clients breaks the assertion of `stop_transaction()`
(`StopsWhileOpen`); `sched_close` shows that such a destructor does.

`ListAllocatorProofs` proves, for any sizes, any number of pages, any choice of the kernel and any requests
that the code admits, every property that `alloc` checks, `ImplementsAllocation` included. The assumptions are
those of the code: a header is two words, the link and the size (`list_allocator/ADT.hpp`), a page is whole words,
an alignment divides the page or is a multiple of it, as powers of two are. The first one matters: `MaySplit` asks for room for
the request, the word of its size and a header, but the first part of a split is never smaller than a header; that
the rest has room for one nevertheless follows only if a header is no more than two words. The
inductive invariant is `AllocatorInv`: the areas of memory, used and unused, are disjoint and
tile the mappings (`Regions`), the list is sorted (`IsFreeList`), a chunk in use is not in the list and holds its request
and the word behind it (`InUse`), and no two neighbours of the list may be coalesced (`Coalesced`). Sortedness
is not enough to show that a deallocation coalesces everything: it tries two pairs, and that no other pair
has become possible needs that none was possible before. That no byte leaks when the allocator is destroyed
needs both: when nothing is in use, the unused chunks tile the mappings, and because no two of them could be coalesced each
mapping is one marked chunk, which is what the destructor unmaps. What a step does to the memory is treated once for each kind, cutting,
joining and adding an area, on sets of areas; the lemmas about lists say how such a set changes when an element is
inserted, removed or replaced.

The first part of `JoinOrderingProofs` proves, for any finite set of relations, any estimates and any order of joins:
the type invariant, that a plan is only replaced by a cheaper one (`PlansImprove`), that below
every entry there is a complete plan (`PlansComplete`), and `CostsHonest`. The inductive
invariant is `TypeOK` with `SidesHavePlans` for the structure, and `CostsHonest` on
top: an update changes the entry of one subproblem, which is larger than its sides, and
sides only become cheaper. Because every enumerator implements `PlanTable`
(`EveryEnumeratorKeepsTable`), this holds for all of them.

Its second part proves, for any finite set of relations, connected query graph, estimates, number of restarts and
configurations of the search: `NoCrossProducts`, `ImplementsPlanTable` and `ConditionsAppliedOnce` for every
enumerator. The enumerations are recursive
functions. That such a function has the value its definition says is proved from a rank that falls with every call
(`RecursiveFunction`), what it computes from the same rank (`RankInduction`); ranks, sets and bodies are passed as functions, because the
provers instantiate no operator parameters. On this rest the facts about each enumerator (`DPccpFacts`, `GOOFacts`,
`MinCutsFacts`, ...): its joins are of disjoint subproblems, each connected and joined by a condition. The inductive
invariant `OrderingInv` says of the tasks still to do that they are such joins or visits, and, unless the enumerator tests
`has_plan()`, that each side of each has a plan or gets one from a task before it (`Supported`); of the randomised search that its states are lines, each join adding one relation to the one before
(`LineStates`), from which it follows that associativity never applies (`AssociativityFacts`); of the heuristic search that its states divide the
query into connected subproblems, and that one join leads from a state's parent to it or back. `ConditionsAppliedOnce` is about a
plan that is read from the table at any time; it needs nothing of the table but that sides have plans.

`Supported` is what `ImplementsPlanTable` rests on. Each enumerator has its own reason for it. A step keeps it, because the task
that is dropped has left a plan or had one (`SupportedRest`); what has to be shown is that the joins of each enumerator are in
such an order to begin with (`Builds`: with plans for these subproblems, the joins give plans to those). For `PEall` every cut of a set
comes after all smaller numbers; for `GOO` and `TDGOO` the nodes that are left, and for `IKKBZ` a prefix of the linearization, have
plans (`GOOBuilds`, `TDGOOBuilds`, `RightDeepBuilds`); the top-down enumerators solve both sides just before each join
(`SubTasksSupported`); the joins on the path of the heuristic search start where the joins before it ended (`PlanToBuilds`). `DPccp` is the hard
one (`DPccpBuilds`), because its breadth-first queue does not emit a subgraph after all its parts, which is
why its plans need not be the best (`dpccp`). But it searches from one relation after the other, and each search finds every
connected set of which that relation is the greatest (`BlockFinds`). The partners of a set have smaller greatest relations,
so that searches before have given them plans; and the joins of a set with its partners give plans to all the sets that it is extended to
(`RowBuilds`), before the queue comes to these.

`BestPlansProofs` begins with `CommittedPlan` of the randomised search and `PlanAsFound` of the heuristic search. They compare the cost of a final plan with a number that was computed before. Both rest on a
pledge: the joins left to consider lead, one by one, from subproblems that have plans to the whole query, and the costs of these
plans with the results on the way are within a bound (`Pledged`). A join keeps the pledge whatever else the table contains, since
it leaves its result no more expensive than itself and nothing else more expensive (`PledgeKept`); when no join is left, the bound is that of
the plan for the query (`PledgePaid`). The randomised search pledges the cost of the line it commits (`CommitInv`). For the heuristic search, `CostsOK`
says why the path to the goal costs what is known of it, though its states were rewired since: a state's path costs at least what the last step adds
to the path of its parent *as it is known now*. That is inductive because `push()` makes a state only cheaper, with one exception, the
state that enters the beam by a more expensive path (`hs_beam`); but it was kept out before, so it is nobody's parent. With pruning, the cost of the goal
and the least path cost remain below the cost of GOO's plan.

`BestPlansProofs` then proves `BestPlans` of every exact enumerator but DPccp and A* (`ExactPlans`), and `LinearizedBest`, for any finite set
of relations, connected query graph and estimates. The argument has three parts.

- *No cut is left out.* Each enumerator that follows a fixed sequence considers every way to cut a connected subproblem into two connected
  ones, or every cut at all for PEall (`Covers`). `MinCutAGaT` emits every minimal cut, although it prunes its search by the sets it has seen
  (`MinCutsFull`).
- *No cut is considered too early.* In the sequence a join comes after all joins of its sides (`Settles`, on sequences that are in order,
  `InOrder`). This is the part that fails for DPccp, and no test would notice: each enumerator has an order of its own, by size, by
  the numbers of bit sets, by Gosper's hack or by the left end of a window.
- *Therefore the table holds the best plans.* `Scan` is inductive: a join that is no longer waiting has had its effect, so no entry costs more
  than a join considered for it; an entry costs what its join costs *now*, since its sides were settled when it was made. The top-down
  enumerators have no sequence but a stack; `TDScan` says the same of the subproblems that are no longer on it. With all joins done, the costs satisfy
  the equation that defines `BestCost` (`BestEquation`), and only one function does.

For `LinearizedDP` the subproblems are the connected slices of a linearization. Its windows come by width, so that a slice is settled when it
is used, and the costs satisfy the equation of `IntervalBest` (`IntervalEquation`); the prefixes of the sequence are such slices, which gives
the bound by the cost of the left-deep plan (`PrefixPlans`). A linearization depends on the cardinalities only, so that the one that was
chosen is one of the final state (`SameLinearizations`). `IntervalBest` is a set of at most one number: a connected slice need not be the union of two
connected slices, and then has no plan.

`RefCountingHashMapProofs` proves, for any keys, hashes, capacities and number of maps:
types, `LookupsComplete` and `NothingLost`. The inductive invariant `MapInv` adds to
these what is left of the old table during a rehash. The lemma `Placing` is the core: the slot taken
was free, so no other bucket counted it, and the probes between the old and the new end of the
bucket are occupied. On top of it, `LoadInv` counts: a table is at its watermark at most between
insertions, and a table of twice the capacity holds what the rehash has met in the old one, which is less than its own
watermark. Hence `BelowWatermark`, and a free slot at all times (`SlotsRemain`), also for capacities so small that the
watermark is 0. That the probes of a bucket reach the free slot is not proved: `Place` is disabled
if they do not, and the code would not return; that triangular numbers
reach every slot of a power of two is number theory by induction.

`InterpreterProofs` proves, for any plans that satisfy `PlansAssumption`, any capacity of a block, any domain and
any rows: `InsistsHold`, `LookupsComplete` and `NothingLost` in the interpreter, that it uses the maps
as `RefCountingHashMap` says (`JoinsUseTheMap`, through which the theorems about the maps apply), and that a limit which
throws is below the run of a limit (`LimitsAreCaught`). The hypothesis `Storable` says that the constants `Keys`
and `Values` of the maps include every tuple of the schemas of the plan and every key made of it: the hash table of
the code takes any tuple, and the finite sets are an economy of TLC. `InsistsHold` is
far from inductive: that the slot a match is written to is alive must survive everything that happens above a join which has
pushed its full block and will go on with the same probe tuple. `InterpreterInv` says why it does:

- the stack is ordered (`Stacked`): runs lie below pushes, a run is of an operator below the runs under it, pushes climb
  towards the root, and each limit on the way up from a visitor runs further down the stack;
- each join on the way up is on the side of the visitors (`Steered`), so that `active` tells whose tuples arrive;
- a visitor finds tuples of the schema it expects in the slots it has still to read, a join that probes finds its slots alive,
  and its hits are what the table holds for the tuple that probes (`Visits`, `Probes`);
- tables, blocks, buffers and hash tables hold tuples of their schemas (`TablesOK`, `BlocksOK`, `DataOK`, `TablesHold`), and an insertion
  in progress is one of the join on top that builds (`Inserting`).

A step is done by the visitor on top. It changes the block of its own operator, of one that it was handed, or the data of its operator; the lemmas about
what a step spares say that no visitor below reads any of them, because it is of another operator further up or down. This is where
the shape of the plan matters: a filter or a limit erases in the block it is given, and if this were the block of a join in the
middle of a probe, the invariant would fail, as would the code's `M_insist`. When a limit throws, what remains of the stack is a
suffix of it, for which the invariant holds like for every suffix.

Proved and not checked by a run, because a run that checks more says the same:
`MutualExclusion` (in `ImplementsRWLock`), `NoLostWakeup` (in the progress properties),
`UpgraderFirst` (the mirror of `WritersFirst`), `RefusedOwnsNothing`, `CostsFall`, `SidesHavePlans`,
`SlotsRemain`, `LimitsAreCaught` (an exception without a handler would leave no state from which TLC can go on).

Only model-checked: all liveness properties (fairness is out of the provers'
reach); `ResultCorrect` of `Interpreter`, which compares the output with a function that is recursive over the plan, so that a proof would be
an induction over the plan and over the tuples; and two parts of `BestPlans`: that A* is optimal, and that the inexact enumerators other than
`LinearizedDP` end with a plan at all. For DPccp `BestPlans` is not true of every instance (`dpccp`).

## Assumptions

- `M_insist` ends the process (debug build). In a release build it is a no-op.
- The scheduler object outlives the calls made on it; with `Closing = "any"` clients
  may be inside a call, or waiting, when the destructor begins.
- Clients return to an allocator what they got from it, with the size they asked for.
- Pools outlive their proxies. `erase()` is never called.
- A thread uses one handle per mutex, and handles are not moved. With `upgrade_lock`, which
  only unit tests use, a refused upgrade keeps the read lock although
  `reader_writer_lock.hpp:386` says that it is unlocked.
- Query graphs are connected, as the enumerators assume; cardinalities are estimated independently of the
  plan.
- Plans have the shape that the optimizer gives them: between a hash join and a filter or a limit there is a
  projection or a grouping. A join that pushes its block in the middle of a probe tuple does not make its slots alive
  again, and an operator that erases in that block would break it.
- No attribute is NULL.
- C++ memory accesses under one mutex are sequentially consistent; the counters
  of the pool are atomic. The unsynchronised `joinable()` is an action of its own.

## Not modelled

`PROJECT.json` gives the reason for each component with status `not_modelled` or `partly`. In short:

- The WebAssembly backend, a fifth of the code, generates code: its own state is
  a sequence of calls into a code generator, and what must be right is what the generated program does,
  on data and registers far beyond what TLC can enumerate.
- Cardinality estimation, trained cost functions and the recursive model index compute with floating-point numbers.
  (`TrainedCostFunction.cpp:54` leaves the costs of the sides out of the cost of a join, unlike C_out, so that
  what is proved of the plan table under C_out does not carry over.)
- Lexer, parser, semantic analysis, query graph, SQL and data layouts are sequential transformations of large
  terms, without a protocol; their outcome, a command or an error, is in the scheduler's model.
- NULLs, quantifiers and the arithmetic of the stack machine, aggregates other than a count.
  (`Tuple::clone()` makes a buffered NULL a value: a single step, not a matter of order.)
- Of the heuristic search, states kept as edges or tables, and heuristics made of roots, products and
  selectivities, which differ in the numbers only.
- The catalog with its indexes, the linear allocator, the DSV reader and normal forms are in the plan.
- Tests, tools, timers, diagnostics and the web socket server.
