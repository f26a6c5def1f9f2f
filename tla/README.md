# blockDagger in TLA+

blockDagger executes the transactions of many Ethereum blocks in parallel. It
predicts what each transaction reads and writes, turns the predictions into a
dependency graph, schedules the graph on processors, and executes it against a
multi-version store. These modules model that machinery, check it with TLC on
small instances and prove most of what it checks for all sizes with TLAPS.

## The system

| Part | Source | State | Operations |
|---|---|---|---|
| Prediction | `helper/fullstate.go`, `rwsetGenerate.go`, `prepareExp.go` | a read set and a write set per transaction | run the transaction on the state before its block, record each access; number the survivors, cut them into blocks |
| Multi-version store | `multiVersion/` | per record a linked list of versions (Tid, Status, Data), `Tail`, `LastBlockTail` | install, prefetch, `GetVisible`, move the tails, garbage-collect (never called) |
| Tasks | `types/task.go`, `helper/rwmv.go` | `ReadVersions`, `WriteVersions` | build from a transaction, `Wait` |
| Dependency graph | `helper/graph_builder.go`, `graph/dag.go` | vertices, edges, ranks | `GenerateGraph`, `GenerateProperties` |
| Scheduler | `schedule/` | priority queue, EST/AST/EFT, free slots of each processor | four list schedulers, the best plan wins |
| Processors | `schedule/processor.go` | a queue by start time | pop, wait, `AsMessage`, `ApplyMessage`, commit or abort |
| Task-local state | `state/` | `localWrite`, `snapshot` | getters and setters of the EVM, commit and abort |
| Pipeline | `pipeline/` | four channels, a wait group | GVCLine, GraphLine, ScheduleLine, ExecuteLine |
| State transition, EVM | `core/` | gas, call depth, the interpreter | `ApplyMessage`, calls, opcodes |

How they interact: the four lines are goroutines joined by channels, each
taking one block at a time, so block k+2 is being prepared and block k+1
scheduled while block k executes. GVCLine gives every task the tail that the
previous block left as its read versions, and installs a Pending version for
each predicted write. GraphLine replaces a read version by that of the last
earlier writer of the same block and adds the edges. ScheduleLine computes
start times. ExecuteLine starts one goroutine per processor and waits for all
of them before the next block. A processor waits until each read version has
left Pending, runs the transaction, and resolves its own versions one at a
time: Committed if the transaction wrote the record, Ignore if not. A read
walks from the read version back to the nearest Committed one.

What is hard here: nothing checks at run time that a read was the right one -
there is no validation and no re-execution. The outcome is right only if the
graph, the tails, the wait, the walk, the start times and the barrier between
blocks fit together. `PROJECT.json` lists the hazards at their lines.

## Modules

The block pipeline and the store:

- `SerialExecution` is the promise: the transactions run one after the other.
  Its state is the finished prefix of the order, what each transaction wrote
  and which writer's value it saw; `Current` says which writer that must be.
- `Execution` is the machinery, from a predicted batch to resolved versions.
  One action per line and block (`PrepareBlock`, `LinkBlock`, `ScheduleBlock`,
  `NextBlock`) and one per step of a processor (`PopTask`, `WaitVersion`,
  `StartTask` or `RejectTask`, `ReadVersion`, `CommitLocalWrite` or
  `TotallyAbort`, `ResolveVersion`, `EndTask`). `status[t][k]` is the Status of
  t's version of record k, `readVersion` and `lastBlockTail` are the fields of
  those names, `rank` the order of start times. A value is named by the version
  that carries it. `CommitLocalWrite` and `TotallyAbort` begin a loop whose
  turns are `ResolveVersion`, in any order, as over a Go map. `PrepareBlock`,
  `LinkBlock` and `ReadVersion` are atomic here; that they may be is what
  `Pipeline` shows.
- `VersionChain` is the linked list behind each record: `next`, `prev` and
  `tail`, `InstallVersion` and `insertOrNext` one node at a time, the load of
  the head from the snapshot state (`DoPrefetch`, `SetVersion`), and
  `GetVisible` as a walk, one version per step, during which other versions are
  resolved and installed. `loaded` is the set of keys whose head has Data,
  `clears[k]` how often loads have cleared, in place, the integer that the
  snapshot state and the head of k hold.
- `Pipeline` runs the four lines as goroutines over `VersionChain`: bounded
  channels, `END`, `close`, the wait group and the caller who waits on it, and
  GVCLine record by record. Its property `ImplementsExecution` is `Execution`'s
  specification itself: whatever the lines and the walks do in between, every
  step is a step of `Execution` or none.

The graph and the schedule:

- `DependencyGraph` is `GenerateGraph` (edges, degrees, entry and end) and
  `GenerateProperties` (`getTopo` by levels, `rankU`, `rankD`, `ct`) as
  operators on the accesses of a block. The loops of the code are folds, that
  of `getTopo` a function of the pass. `Dependences` and `Joined` say without
  loops what the edges should be. The read versions that `GenerateGraph` sets
  are in `Execution.LinkBlock`.
- `Scheduler` is `Schedule`: the queue of each method, the slot search,
  `AddTask`, and the choice among the four plans. A processor's slots are a
  set. The goroutines share only the finished graph, so they run one after the
  other. Where pqSchedule appends to the heap without restoring its order, any
  queued vertex may be on top.
- `SlotsMaintainer` runs beside `Scheduler` the two trees that hold the slots:
  the AVL tree by start time and the segment tree of longest slots, changed by
  the same `AddTask` in the order of the code, with the code's rotations and
  its removal of an inner node. An inner node of the segment tree exists once
  an update has passed through it. A recursion of the code is a function on
  the nodes of a tree, or on the intervals. `Execution.ScheduleBlock` allows any
  placement and any order in which a task comes after those it depends on;
  `Scheduler.LegalPlan` says that what Schedule returns is one of these.

The transaction:

- `LocalState` is what `State` does to one block's transactions, from the
  purchase of gas to the commit: `local[t]` and `snapshot[t]` are `localWrite`
  and `snapshot`, `data[t][k]` is `Version.Data`. A balance is a cell of
  `heap`, because the code keeps `*uint256.Int` and changes it in place; what
  is stored by value (nonces, liveness, slots) is in `data` and `local` itself.
  In the VM a transaction makes any sequence of transfers, stores and
  self-destructions, of which those outside its predictions fail as in the
  code. `began`, `entry`, `change` and `failed` only serve the properties.
- `Calls` is one transaction seen from above: the stack of frames, `call`,
  `callCode`, `delegateCall`, `staticCall` and `create`, the depth limit, the
  one read-only flag of the interpreter, the gas set aside and the stipend, the
  opcodes that touch the state, and how errors, reverts and the use of an
  unpredicted record come back up. What the code does is arbitrary.
- `StateWithRwSets` says what each method of the predicting state records;
  `Prediction` says which of them an operation calls, and compares that with
  what `Calls` asks for.
- `InstructionSet` builds the thirteen opcode tables as the code does, from
  Frontier to Prague, each patching a copy of the one before: constant gas,
  `numPop`, `numPush`, `memorySize`, `dynamicGas`. `Interpreter` runs one frame
  over them on any code and operands: of the stack it keeps the height, of the
  memory the length; `execute` is what it pops, pushes, reads and grows,
  counted from `instructions.go` and not from the tables. Reaching below the
  stack or outside the memory sets `status` to "panic".

`MCExecution`, `MCPipeline`, `MCScheduler`, `MCLocalState`, `MCCalls` and
`MCInterpreter` give the constants values for TLC. The theorems are in
`Execution_proofs`; `Pipeline_proofs`, on top of it; `Scheduler_proofs` and, on
top of it, `DependencyGraph_proofs`; `LocalState_proofs`; `Calls_proofs`;
`Interpreter_proofs`; and `DataTheorems`, which says what a sum over a finite
set is and when a recursion has a solution, and serves four of them. No module
has RECURSIVE operators.

In each module the definitions with a suffix `X_...` are wrong on purpose: each
is a plausible slip in the code modelled by `X`, and the property it is listed
with in `PROJECT.json` is violated when it takes the place of `X`.

## Runs

| Run | Shows | Bounds |
|---|---|---|
| `execution` | serial reads, the barrier, the inductive invariant with the types, repeatable reads, no version resolved twice, termination, refinement of `SerialExecution` | 4 tasks in 2 blocks (3 + 1), 2 records, 2 processors, 4 batches |
| `pipeline` | refinement of `Execution`, chains well linked while they are walked, heads loaded before they are read, no balance in use cleared by a load if liveness is asked for first, no channel blocks, the caller returns when all is done and does return | 3 tasks in 2 blocks (2 + 1), 2 records of one account, 2 processors, 3 batches |
| `recreate` | a violation: a blind writer between two others of one record | as `execution`, one batch |
| `rejected` | a violation: a transaction `AsMessage` rejects | as `execution`, one batch |
| `schedule` | no overlap, precedence, slots are gaps, earliest fit, slot search never fails, the plan is legal, termination; graph, degrees and ranks as generated; the trees hold and find the slots | 5 tasks, all 64 graphs of the first four, costs 1 or 3, 2 processors |
| `balances` | the inductive invariant with the types, no integer shared by two accounts or two running transactions, sums of balances, reverts restore what is stored by value | 3 tasks, 2 accounts, initial balance 3, gas 2, one self-destruction, 4 blocks |
| `revert`, `abort`, `reader` | violations: balances changed in place survive a revert, survive an abort, and are seen by concurrent readers | same; `reader` has a block of its own |
| `calls` | the inductive invariant with the types, the read-only flag is exact, an abort reaches the top, neither gas nor money is made, what was predicted is not refused, static calls before Berlin change nothing, the transaction ends | 3 accounts, 6 predictions, 3 forks, call depth 2, gas 4, nonces up to 1 |
| `collision` | a violation: creation takes every address for taken | same |
| `opcodes` | no opcode reaches outside stack or memory, memory is paid for once, every opcode costs gas | 13 instruction sets, stack limit 9, PUSH 0-2, DUP and SWAP 1-3, 8-bit "uint64", words of 2 bytes, 15 words, gas 17 |

Bounds.

- `execution`: three tasks in a block are what it takes for a reader to have
  two writers before it, or one on each side; the task in the next block
  crosses the barrier; two records are enough for a commit to be seen half
  done; with two processors any two tasks of a block can run at once, and with
  every placement and every legal order of start times each interleaving of
  three tasks occurs. The batches are chosen so that each of these happens.
- `pipeline`: the first block runs while the second is installed and linked, so
  its getters walk chains that grow; with three writers a walk has up to three
  steps, between which other versions are resolved. The two records are a
  balance and a liveness, whose load clears the balance. In one batch no one asks
  for the liveness; in another the first block does, and the second would clear
  the balance again if a head could be loaded twice; in the third only the
  second block does, which `ClearedBeforeUse` does not promise anything of: there
  the balance is cleared under the running block.
  A transaction walks each record once; GetVisible keeps nothing between walks.
- `schedule`: a long task and short ones leave a gap that a later task fits or
  does not fit. Four tasks give an AVL tree of three slots at most; the fifth,
  short and after the first, makes one that needs a double rotation. A task
  writes one record or two, so that an edge is added twice.
- `balances`: three tasks are two writers of a balance with a third between or
  after them, two running at once among them; a balance of 3 pays for gas and
  one transfer, and the modulus 16 is above every sum, as 2^256 is above the
  supply of ether.
- `calls`: depth 2 leaves room for a static call in a call in the first frame,
  or the reverse, and for one that is refused as too deep; gas 4 pays for a
  call with value and one step, or for nested calls without; the predictions
  leave out records that are asked for early and others that are asked for when
  much has happened already.
- `opcodes`: the gas schedule is scaled down but keeps its order, and the fee
  of memory is linear plus quadratic as in the code. An 8-bit word lets
  offsets and fees wrap; 255 is far above the memory 17 units of gas can buy,
  as 2^64 is above what a block's gas can buy. The stack limit is above
  the largest `numPop`, so underflow and overflow are apart.

Fairness. In `Execution`, `Fairness` has weak fairness for each line, for the
barrier and for each task's processor: these are goroutines and a Go program
does not starve them. Reading is not fair: a transaction may read or not, and
gas bounds its run. `Pipeline` has the same for each line's channel operations,
GVCLine's work, the processors and the caller; there a getter that has begun
goes on, since it is a loop without a lock. `Termination` and `PipelineReturns`
are claimed for batches in which `AsMessage` accepts every transaction, since
otherwise `rejected` shows they fail. In `Scheduler` it is weak fairness of the
one loop; in `SlotsMaintainer` fairness is on that loop's step without the
trees, and trees that blocked it would show as a deadlock. In `Calls` it is
weak fairness of `Next`, the interpreter's loop, which always does something
until the last frame has ended. `LocalState` and `Interpreter` claim no
liveness: who waits for whom is `Execution`'s matter, and `EveryStepCosts` is
why a frame ends.

Deadlock is checked in every passing run; `Stopped`, `Ready`, `Chosen`,
`AllDone` and `Finished` are the only steps of a finished run, and
`Stopped` also stands for a processor that waits for ever on a rejected writer.

## What the violations say

- `recreate`. The graph has edges from writers to later readers, never between
  writers ("with multi-versioning there is no write-write conflict",
  `graph_builder.go:22`). That is right as long as every writer of a record
  that others read has read it too, because then the writers are ordered as
  readers. `ReadBeforeWrite` is that condition; the EVM keeps it for balances,
  nonces, code hashes and slots, which are read before they are changed. Code
  and liveness are written without being read. (Code is written only by a
  creation, and none succeeds in execution, see the hazard at `evm.go:421`.)
  When a contract is destroyed, created again and destroyed again, the second
  destruction waits for the creation only, which has nothing to wait for and
  ignores its version; it then walks past the first destruction's version,
  still Pending, and is given the snapshot's liveness.
- `revert`, `abort`, `reader`. `GetBalance` hands out the very integer that an
  earlier version, or the snapshot, holds; `AddBalance` and `SubBalance` change
  it before they store the pointer (`state.go:333-351`). So all versions of a
  balance are one integer. A revert restores pointers, not what they point to;
  an abort drops the versions but the money has moved; and a transaction that
  only reads a balance, which nothing makes later writers wait for, watches it
  change.
- `rejected`. When `AsMessage` fails, `Execute` continues with the next task
  and leaves the versions Pending, although Pending means not yet executed
  (`version.go:10`). Readers of them never come back from `Wait`. Prediction
  judges a transaction by the rules of its own block, execution by those of the
  first block of the batch, so the two can differ across a fork.
- `collision`. `create` increments the caller's nonce, then tests that same
  nonce, not the new account's, to see whether the address is taken
  (`evm.go:421`). So every CREATE, CREATE2 and contract-creating transaction
  fails and loses its gas. What `create` does after that test is not reached,
  and neither is `State.CreateAccount`.

`Alone` and `BalancesAddUp` say what is left: in a block in which whoever reads
a balance is predicted to write it, each running transaction has its integers
for itself, and as long as nothing is reverted, aborted or refused, sums are
right. Two limits of them come from the snapshot state, a library's:

- They are about accounts that the snapshot has. `OwnCell` gives each an integer
  of its own. For accounts it lacks the library may hand out one shared zero,
  although `state.go:222` takes it that the account is created: in-place changes
  would then mix such accounts.
- `LocalState` is one block. That another block's load of a liveness may clear
  a balance under it, which `Pipeline` models, is outside these sums. A contract
  that is destroyed in the block is taken to have had its liveness loaded by
  an earlier block, with its balance filled since.

Other behaviours are modelled as they are and shape the properties, without a
run of their own:

- A failing inner call is not rolled back (`evm.go:199`, `evm.go:298`): the
  only snapshot is the transaction's. The source says that this is intended.
- From Berlin on the metering of SELFDESTRUCT calls `Selfdestruct` on the
  beneficiary where a question was meant (`operations_acl.go:246`), in a static
  call too. `StaticIsPureBeforeBerlin` stops there. Prediction does not record
  that write, so the transaction aborts.
- `Selfdestruct6780` records nothing (`fullstate.go:185`), so from Cancun a
  destruction aborts as well: the exception in `PredictedIsAllowed`. When it
  does run, the balance is lost (`instructions.go:962`), which `NoMoneyMade`
  permits.
- Transfers leave out a side that was not predicted (`core/evm.go:156`): money
  can go missing, but not appear.
- The liveness of an account is loaded with `Selfdestruct`
  (`globalVersionChain.go:91`), which clears the account's balance in the
  snapshot state: the same integer to which `GetBalance` has returned a pointer
  (`:83`), which the head of the balance holds, and the versions that
  `AddBalance` and `SubBalance` have stored since (`state.go:333-351`). GVCLine
  loads for the next block while the current one runs. So if a later block is
  the first to ask for the liveness, running transactions see their balance
  become 0 and what earlier ones have committed is gone: what is loaded is not
  constant. If a block asks for the liveness no later than any for the balance,
  the clearing is behind all that use it (`ClearedBeforeUse`). Which of the two
  is loaded first within that block, an accident of the order of a map, makes no
  difference, since the integer is one.
- What is loaded for the liveness of an account that the snapshot has is false,
  the negation of what `Selfdestruct` returns (`globalVersionChain.go:91`).
  `Exist` is always true, so only `HasSelfdestructed` sees it.
- The access list reports every address and slot as warm (`state.go:418`), so
  execution charges from Berlin on less than prediction did.
- The segment tree's maxima only prune the search: one that is too high costs
  time, one that is too low would hide a slot (`TreesFindTheSlot`).

## What is proved

Each theorem holds for every value of the constants that satisfies the named
assumptions. They are of three kinds: what the code fixes (blocks are numbered
in the order of the tasks, `NoProc` and `Nil` are no processor and no version,
the prices of gas are positive), finiteness (of the accounts), and conditions
on the workload, which are hypotheses of the theorems that need them and no
others.

### Execution and the pipeline

`TypeCorrect`, `BookkeepingCorrect`, `BarrierSettlesCorrect` and
`ResolvedForGoodCorrect` hold for all batches; `InvariantCorrect`,
`SerialReadsCorrect`, `RepeatableReadsCorrect` and `ExecutionImplementsSerial`
for those with `ReadBeforeWrite`. `recreate` shows that they need it.

The tails and read versions are last writers (`TailInv`, `LinkInv`), so a task
that has finished waiting knows that the last earlier writer of each of its
records is resolved (`WaitInv`). Why are the writers before that one resolved
too? Because that last writer read the record, hence waited for the writer
before it, and so on down: `SettledInv`, the strengthening that makes the rest
inductive. It is proved from the least counterexample: the waiting task's last
writer has itself begun, so everything before it is settled. Given this,
`GetVisible` returns the last committed writer (`SerialReads`), no later step
changes what it returns (`RepeatableReads`), and each step publishes serial
results or none (`ImplementsSerial`). `BarrierInv` keeps blocks apart.

`Pipeline` has two invariants. `PipelineInv` needs no hypothesis: each line has
sent exactly the blocks it took, and `END` after them, so a channel never holds
more than its bound and no line sends on a closed one (`ChannelsNeverBlock`);
the wait group is the number of lines that have not ended
(`ReturnsWhenDone`); the chain of a record is the sequence of its installed
writers, linked both ways, whatever getters and lines do to it meanwhile
(`ChainsLinked`); a head that can be reached has been loaded
(`LoadedBeforeRead`). A load clears a balance only if its key is not loaded
yet, and all that a prepared block uses is loaded; so if a block that is no
later than those that use the balance asks for the liveness, nothing is cleared
once one of them runs (`ClearedBeforeUse`, whose condition `LivenessFirst` is on
the batch: without it TLC finds the third batch of `pipeline` to lose balances
in use). `PipelineIInv`, for batches that read
before they write, joins to it the invariant of `Execution` under the
refinement mapping, and what a getter knows in the middle of its walk: between
the version it stands on and the one it came from, all are resolved without
data. With it every step of the lines and the walks is a step of `Execution`
or none (`ImplementsExecutionCorrect`), hence the pipeline refines serial
execution, and what its getters return is what a serial execution reads.

### The schedule

For every graph whose edges follow the IDs, with its ranks, any costs and any
number of processors: `TypeCorrect`, `NoOverlapCorrect`, `PrecedenceCorrect`.
They rest on `SchedulerInv`: the slots of a processor are apart from each other
(`SlotsApart`) and from its tasks (`SlotsFree`), so a task cut out of a slot
meets no other; and the vertices taken so far are closed under predecessors
(`Topological`), so the EST of a vertex does not change once it is taken
(`Times`). That a vertex on top of the queue has no predecessor left needs two
arguments (`OnTopIsReady`): for pqSchedule the counters are exact (`Degrees`),
for listSchedule a predecessor ranks no lower and has the smaller ID.

The second half of `Scheduler_proofs` is about the plan itself. The slots are
exactly the gaps (`SlotsAreGaps`). The horizon is twice the sum of the costs, and every task
placed ends no later than all tasks placed so far would one after the other
(`Room`). So the last slot of every processor begins within that time, and what
remains of it has room for any task that is left: a slot is found
(`SlotFound`), the earliest (`EarliestFit`). The plan that wins is one that
`Execution.ScheduleBlock` allows (`LegalPlan`).

### The trees

The last part of `Scheduler_proofs` is about `SlotsMaintainer`. Leaving the
trees out of its behaviours leaves behaviours of `Scheduler`
(`TreesBesideScheduler`), so all of the above holds of the schedulers with
their trees. `TreesFindTheSlotCorrect` rests on `TreesMatch`: the two trees of
each processor hold the slots of its set.

- The segment tree. A node that was made has the maximum of its two sons, a son
  that was never made counting as 0 (`SegTrees`). `modify` changes one leaf and
  the nodes on the way to it, and keeps this (`ModifyIs`). A node's maximum is
  then that of its leaves (`LeavesBelow`), which is why `query` may turn away
  from a node and still find the first slot that is long enough (`QueryIs`).
- The AVL tree. A tree is known by its root's slot and its sons (`NodesIs`): a
  node's height bounds its depth, so every recursion has a solution. Insertion
  and removal change the height of a tree by one at most, so
  `rebalanceTree` meets sons whose heights differ by two at most; both single
  and both double rotations then give back balance, order and the same slots
  (`RebalanceIs`, `AddNodeIs`, `RemoveNodeIs`).
- Together. `AddTask` writes up to two leaves and calls `remove` and `add`. That
  the second write spoils no leaf in use is not in the trees: it follows from
  `SlotsAreGaps`, because free slots never touch, no other slot starts where a
  task ends (`AddTaskIs`). `findSlot` looks for a slot that begins by the EST in
  the AVL tree and for a later one in the segment tree; that the first of these
  is the slot with the earliest start in which the task fits is `FindAgrees`.

### The graph and its ranks

The theorems on the schedule assume of a graph what `GraphsAssumption` says:
its edges follow the IDs, every task has a vertex before and after it, and the
ranks solve their equations (`IsGraph`, `IsRanked`). `GeneratedGraphs` shows
that `GenerateGraph` and `GenerateProperties` make such a graph of whatever the
tasks of a block access and cost, so what is assumed of ranks is what the code
computes; `PropertiesGeneratedCorrect` states it of the graph that Schedule was
given. What is left of `GraphsAssumption` is not the graph's: that every task
costs something, namely the transaction's gas limit (`rwmv.go:9`), and
prediction keeps only transactions that can pay their intrinsic gas; and that
the timespan is the sum of the costs, which `taskPrioritize` adds up
(`scheduler.go:52`). `AccessesAssumption` names which accesses lead to a graph,
those whose dependences, joined to entry and end, are its edges. It says
nothing of degrees, order or ranks.

- `GenerateGraphCorrect`. A graph whose degrees count its edges
  (`CountedGraphs`) stays one under `AddEdge`, which must therefore not count
  an edge twice. The loop over the writers stops at the first that is not
  earlier than the reader; because `TxIds` is ascending, those it has gone
  through are all the earlier ones (`WritersBeforeAll`). The joining loop adds
  edges to a graph whose degrees it also reads: that the edge from the entry to
  one task does not disturb the tests of the others is the invariant of that
  fold.
- `GetTopoCorrect`. After i passes the count left in a vertex is the number of
  vertices it comes after that have not had their turn, and the vertices whose
  count has come to 0 are those for which none is left (`RoundInv`). Since edges
  follow the IDs, a vertex with n vertices below it is done after n + 1 passes at
  the latest: the loop leaves nobody out and ends.
- `RanksGenerated`. One pass over such an order leaves every vertex with the
  solution of its equation (`AlongSolves`), because what a level takes from
  earlier levels is never changed again.

A fold and a recursive function are CHOOSE expressions to the prover. That one
with the recursion's property exists is proved for recursions along a measure
(`SolutionExists`, in `DataTheorems`) and from it for folds (`FoldExists`); what
a fold keeps follows in the same way, from a least counterexample
(`MeasureInduction`, `FoldSteps`, `FoldSetSteps`).

### Balances and records

For any block, any number of accounts, any amounts and any modulus.
`AccountsApart` is nearly inductive: an integer is created for one account and
handed on only along that account's versions. `BalancesAddUp` needs what
`Execution` knows, that whoever has begun has all earlier writers of what it
reads behind it (`Settled`), then a ledger: modulo 2^256 the balance of an
account, seen by a task that runs, is the initial one and what each task up to
it has added, because those before it are done and those after it have not
begun. Sums over the tasks come from `DataTheorems`.

`Alone` and `BalancesAddUp` assume that a transaction that reads a balance is
predicted to write it, which is false of blocks with pure readers (run
`reader`), and that it reads the balances it writes, which prediction sees to
(`BalancesAssumption`): without it two writers are not ordered and may run at
once on one integer. `RevertRestoresRecordsCorrect` has `AllWritersRead` as its
hypothesis: a record that is written but not read has no value to restore, and
the invariant that the entry value is the version's, `Entered`, fails of it.
Both were found by proof attempts that failed.

### Calls

For any accounts, predictions, forks, depth and gas. `ReadOnlyExact` is not
inductive: a return takes the flag down if its frame has `restore`, and one
must know that this frame is the outermost of the static ones. `RestoreInv`
says so. `AbortIsFinal`, `StaticIsPureBeforeBerlin` and `PredictedIsAllowed`
follow operation by operation. `GasNeverMade` sums the gas of the frames: a
stipend is less than the surcharge for a transfer, a creation pays for what it
loses, and a return hands on what its frame has at most. `NoMoneyMade` sums
the balances: a sender's is read, and so lowered, before a transfer, and
whatever a destroyed account gives to its beneficiary it then loses, also when
both are the same.

### The interpreter

`MemoryPaidCorrect`: for any code, operands and fork, any width of a word and
any schedule of gas, what a frame has paid for its memory is the fee for it.
`MemoryInv` adds that the length is a number of words no greater than
`MaxWords`; the arithmetic is that such a number of bytes rounds up to itself.

`NoPanicCorrect` and `EveryStepCostsCorrect`: the same for any width and prices,
in each of the thirteen forks. They hold because of every row of thirteen
tables, so the proof is mostly about tables. `Entry(op, o)` says what is right
about the row `o` of the opcode `op`: `execute` takes `numPop` items and leaves
`numPush` in their place; the two meters look no deeper; every range of memory
that `execute` touches is one that `memorySize` sizes, from the same operands; a
row with a memory size has a meter; and a row costs something unless the frame
ends with it. `AllTables` shows it of each row.
`Frontier` is shown part by part, and every later table is the one before with
rows added or patched: `Merge` keeps right rows right, so does a new price above
zero, so does a new meter that charges no less (`Repriced` and `Remetered`).
What TLC sees at one scale is then proved at any: a range that was sized without
overflow is inside the memory (`SizedRangesFit`), the size the fee was computed
for is the size the memory gets (`NewSizeFits`), and the meters never return
more than a word (`DynamicGasRight`). A call is the one opcode that gives gas
back; its price covers the stipend, because the surcharge for a transfer is at
least the stipend (`DynamicGasAssumption`). `FrameInv`, which joins `NoPanic`
and `MemoryInv`, is then kept by each turn of the loop, and no turn after which
the frame goes on leaves it as much gas as it had.

### Only model-checked

Liveness (`Termination` of `Execution` and of `Scheduler`, `PipelineReturns`,
`Halts`) and deadlock freedom, which are outside the prover, and the
violations.

## Not modelled

Not modelled, and why:

- Opening the database and reading blocks, printing, the JSON views: input and
  output only.
- `schedule/greedy`, `scheduleOrigin` and the timing tests: unused, or only
  timed against.
- `GarbageCollection` and `writeBack`: never called. `SysCreate`, tracing,
  jump-table options no caller sets, opcodes enabled by extra EIPs.
- The formulas of the precompiles and the values that opcodes compute. A
  precompile is a call that costs gas and succeeds or fails; an opcode moves
  the stack and the memory.
- Jump-destination analysis and what code does: the next opcode is any.
- The price rules of `preCheck` and the gas pool: `AsMessage` and the purchase
  of gas succeed or fail.
- The EVM that predicts is Erigon's. `Prediction` takes the methods it calls
  from the copy in `core/vm`; that the same code is taken in both runs is
  assumed, not shown.
- `Execution` lets a transaction read and write any part of what was predicted,
  `LocalState` has no nested calls and `Calls` has one transaction. They meet
  in the records and their predictions, not in one composed module, whose
  states TLC could not enumerate.
