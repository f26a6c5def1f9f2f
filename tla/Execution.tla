----------------------------- MODULE Execution -----------------------------
(***************************************************************************)
(* Concurrent execution of predicted transactions, block by block, over    *)
(* the multi-version store: GVCLine installs the versions of a block,      *)
(* GraphLine links each reader to the version it depends on, ScheduleLine  *)
(* places the tasks on processors, and ExecuteLine runs the processors of  *)
(* one block at a time.  A processor takes its tasks in the order of their *)
(* start times, waits for the versions a task reads, runs it against       *)
(* GetVisible, and resolves the task's own versions one by one.            *)
(*                                                                         *)
(* A version is named by its key and its writer's Tid; Snapshot (-1) is    *)
(* the head of every chain.  Version data is not represented: a value is   *)
(* named by the version that carries it.                                   *)
(***************************************************************************)
EXTENDS Integers, FiniteSets, FiniteSetsExt

CONSTANTS
    NTasks,     \* how many transactions the batch holds
    Block,      \* Block[t]: the block that PrepareTransactions put t in
    Keys,       \* records (address and hash) the transactions touch
    Procs,      \* processors
    NoProc,     \* not a processor
    Workloads   \* the batches to run: what was predicted for each task

Tasks == 0 .. NTasks - 1
Snapshot == -1
Tids == Tasks \cup {Snapshot}

(* A predicted transaction: the keys it may read and write, and whether    *)
(* AsMessage accepts it under the chain rules of the executing block.      *)
Footprint == [reads: SUBSET Keys, writes: SUBSET Keys, valid: BOOLEAN]

ASSUME NTasksAssumption == NTasks \in Nat
ASSUME BlockAssumption ==
    /\ Block \in [Tasks -> Nat]
    /\ \A t, u \in Tasks : t <= u => Block[t] <= Block[u]
ASSUME ProcsAssumption == NoProc \notin Procs
ASSUME WorkloadsAssumption == Workloads \subseteq [Tasks -> Footprint]

VARIABLES
    load,           \* the batch: a member of Workloads, fixed
    pc,             \* pc[t]: where task t is on its way through the lines
    lastBlockTail,  \* VersionChain.LastBlockTail of each key
    readVersion,    \* readVersion[t][k]: Task.ReadVersions
    status,         \* status[t][k]: Status of t's version of k
    proc,           \* proc[t]: the processor t was placed on
    rank,           \* rank[t]: the order of start times (AST) within a block
    executing,      \* the block ExecuteLine is at
    waited,         \* waited[t]: the read versions t has finished waiting for
    seen,           \* seen[t][k]: the writers whose version t was given for k
    wrote           \* wrote[t]: the keys t had in localWrite at its end

vars == <<load, pc, lastBlockTail, readVersion, status, proc, rank, executing,
          waited, seen, wrote>>

Statuses == {"none", "Pending", "Committed", "Ignore"}
Stages == {"new", "prepared", "linked", "queued", "waiting", "running",
           "resolving", "done", "rejected"}
Busy == {"waiting", "running", "resolving"}
Ended == {"done", "rejected"}

Reads(t) == load[t].reads
Writes(t) == load[t].writes
Blocks == {Block[t] : t \in Tasks}
InBlock(b) == {t \in Tasks : Block[t] = b}
UpTo(b) == {t \in Tasks : Block[t] <= b}
Writers(S, k) == {u \in S : k \in Writes(u)}
LastOf(S) == Max(S \cup {Snapshot})

(* A line has dealt with every block before b.                             *)
PastBefore(b, stages) == \A t \in Tasks : Block[t] < b => pc[t] \notin stages

TypeOK ==
    /\ load \in Workloads
    /\ pc \in [Tasks -> Stages]
    /\ lastBlockTail \in [Keys -> Tids]
    /\ readVersion \in [Tasks -> [Keys -> Tids]]
    /\ status \in [Tasks -> [Keys -> Statuses]]
    /\ proc \in [Tasks -> Procs \cup {NoProc}]
    /\ rank \in [Tasks -> Nat]
    /\ executing \in Nat
    /\ waited \in [Tasks -> SUBSET Keys]
    /\ seen \in [Tasks -> [Keys -> SUBSET Tids]]
    /\ wrote \in [Tasks -> SUBSET Keys]

Init ==
    /\ load \in Workloads
    /\ pc = [t \in Tasks |-> "new"]
    /\ lastBlockTail = [k \in Keys |-> Snapshot]
    /\ readVersion = [t \in Tasks |-> [k \in Keys |-> Snapshot]]
    /\ status = [t \in Tasks |-> [k \in Keys |-> "none"]]
    /\ proc = [t \in Tasks |-> NoProc]
    /\ rank = [t \in Tasks |-> 0]
    /\ executing = 0
    /\ waited = [t \in Tasks |-> {}]
    /\ seen = [t \in Tasks |-> [k \in Keys |-> {}]]
    /\ wrote = [t \in Tasks |-> {}]
-----------------------------------------------------------------------------
(* The preparing lines.  Each takes the blocks in order, one at a time.    *)

(* GVCLine: every task of the block reads the tail the previous block left *)
(* and gets a Pending version of each key it writes; then the tails move.  *)
(* Tids ascend, so the new versions are the tails of their chains.         *)
PrepareBlock(b) ==
    /\ \A t \in InBlock(b) : pc[t] = "new"
    /\ PastBefore(b, {"new"})
    /\ pc' = [t \in Tasks |-> IF Block[t] = b THEN "prepared" ELSE pc[t]]
    /\ readVersion' = [t \in Tasks |->
          IF Block[t] = b THEN lastBlockTail ELSE readVersion[t]]
    /\ status' = [t \in Tasks |->
          IF Block[t] = b
          THEN [k \in Keys |-> IF k \in Writes(t) THEN "Pending" ELSE "none"]
          ELSE status[t]]
    /\ lastBlockTail' = [k \in Keys |-> LastOf(Writers(UpTo(b), k))]
    /\ UNCHANGED <<load, proc, rank, executing, waited, seen, wrote>>

EarlierInBlock(t) == {u \in Tasks : Block[u] = Block[t] /\ u < t}

(* The edges of the graph: a write before a read of the same key.  There   *)
(* are none between two writers.                                           *)
DependsOn(t, w) ==
    /\ w \in EarlierInBlock(t)
    /\ Reads(t) \cap Writes(w) # {}

(* LinkedVersion_First is a deliberately wrong LinkedVersion; so are, of    *)
(* the operators they are named after, the definitions X_... below.        *)
LinkedVersion_First(t, k) ==
    LET ws == Writers(EarlierInBlock(t), k)
    IN  IF k \in Reads(t) /\ ws # {} THEN Min(ws) ELSE readVersion[t][k]

(* The version t must wait for and start reading from: that of the last    *)
(* earlier writer in its block, else what GVCLine left.                    *)
LinkedVersion(t, k) ==
    LET ws == Writers(EarlierInBlock(t), k)
    IN  IF k \in Reads(t) /\ ws # {} THEN LastOf(ws) ELSE readVersion[t][k]

(* GraphLine: GenerateGraph.                                               *)
LinkBlock(b) ==
    /\ \A t \in InBlock(b) : pc[t] = "prepared"
    /\ PastBefore(b, {"new", "prepared"})
    /\ pc' = [t \in Tasks |-> IF Block[t] = b THEN "linked" ELSE pc[t]]
    /\ readVersion' = [t \in Tasks |->
          IF Block[t] = b THEN [k \in Keys |-> LinkedVersion(t, k)]
                          ELSE readVersion[t]]
    /\ UNCHANGED <<load, lastBlockTail, status, proc, rank, executing, waited,
                   seen, wrote>>

LegalOrder_NoDependency(b, r) == \A t, u \in InBlock(b) : t # u => r[t] # r[u]

(* Start times of a block in their order: a task starts after the tasks    *)
(* it depends on (they end, at a positive cost, before it starts), two     *)
(* tasks of one processor never start together, and ties between           *)
(* processors may be broken either way.                                    *)
LegalOrder(b, r) ==
    /\ \A t, u \in InBlock(b) : t # u => r[t] # r[u]
    /\ \A t, u \in InBlock(b) : DependsOn(t, u) => r[u] < r[t]

(* ScheduleLine: any placement and any legal order; the list schedulers    *)
(* choose one of them.                                                     *)
ScheduleBlock(b) ==
    /\ \A t \in InBlock(b) : pc[t] = "linked"
    /\ PastBefore(b, {"new", "prepared", "linked"})
    /\ \E p \in [InBlock(b) -> Procs], r \in [InBlock(b) -> 1 .. Cardinality(InBlock(b))] :
          /\ LegalOrder(b, r)
          /\ proc' = [t \in Tasks |-> IF Block[t] = b THEN p[t] ELSE proc[t]]
          /\ rank' = [t \in Tasks |-> IF Block[t] = b THEN r[t] ELSE rank[t]]
    /\ pc' = [t \in Tasks |-> IF Block[t] = b THEN "queued" ELSE pc[t]]
    /\ UNCHANGED <<load, lastBlockTail, readVersion, status, executing, waited,
                   seen, wrote>>
-----------------------------------------------------------------------------
(* ExecuteLine and its processors.                                         *)

BlockFinished_NoWait(b) == TRUE
BlockFinished(b) == \A t \in InBlock(b) : pc[t] \in Ended

(* execwg.Wait returns when every processor of the block has run dry; the  *)
(* line then receives the next block.                                      *)
NextBlock ==
    /\ executing + 1 \in Blocks
    /\ BlockFinished(executing)
    /\ executing' = executing + 1
    /\ UNCHANGED <<load, pc, lastBlockTail, readVersion, status, proc, rank,
                   waited, seen, wrote>>

(* heap.Pop on an idle processor of the executing block: the task with the *)
(* least start time.                                                       *)
PopTask(t) ==
    /\ Block[t] = executing
    /\ pc[t] = "queued"
    /\ \A u \in InBlock(executing) : proc[u] = proc[t] =>
          /\ pc[u] \notin Busy
          /\ pc[u] = "queued" => rank[t] <= rank[u]
    /\ pc' = [pc EXCEPT ![t] = "waiting"]
    /\ UNCHANGED <<load, lastBlockTail, readVersion, status, proc, rank,
                   executing, waited, seen, wrote>>

StatusOf(k, v) == IF v = Snapshot THEN "Committed" ELSE status[v][k]

(* One turn of Task.Wait: blocks while the version is Pending.             *)
WaitVersion(t, k) ==
    /\ pc[t] = "waiting"
    /\ k \in Reads(t) \ waited[t]
    /\ StatusOf(k, readVersion[t][k]) # "Pending"
    /\ waited' = [waited EXCEPT ![t] = @ \cup {k}]
    /\ UNCHANGED <<load, pc, lastBlockTail, readVersion, status, proc, rank,
                   executing, seen, wrote>>

(* Wait returned and AsMessage accepts the transaction.                    *)
StartTask(t) ==
    /\ pc[t] = "waiting"
    /\ waited[t] = Reads(t)
    /\ load[t].valid
    /\ pc' = [pc EXCEPT ![t] = "running"]
    /\ UNCHANGED <<load, lastBlockTail, readVersion, status, proc, rank,
                   executing, waited, seen, wrote>>

(* Wait returned and AsMessage fails: the error is recorded and the loop   *)
(* continues; the versions of t are left as they are.                      *)
RejectTask(t) ==
    /\ pc[t] = "waiting"
    /\ waited[t] = Reads(t)
    /\ ~load[t].valid
    /\ pc' = [pc EXCEPT ![t] = "rejected"]
    /\ UNCHANGED <<load, lastBlockTail, readVersion, status, proc, rank,
                   executing, waited, seen, wrote>>

GetVisible_FromTail(k, v) ==
    LastOf({u \in Writers(Tasks, k) : status[u][k] = "Committed"})

(* GetVisible from version v: the nearest Committed version at or before   *)
(* it, whatever the state of those in between.                             *)
GetVisible(k, v) ==
    LastOf({u \in Writers(Tasks, k) : u <= v /\ status[u][k] = "Committed"})

(* A getter that finds nothing in localWrite.                              *)
ReadVersion(t, k) ==
    /\ pc[t] = "running"
    /\ k \in Reads(t)
    /\ seen' = [seen EXCEPT ![t][k] = @ \cup {GetVisible(k, readVersion[t][k])}]
    /\ UNCHANGED <<load, pc, lastBlockTail, readVersion, status, proc, rank,
                   executing, waited, wrote>>

(* ApplyMessage returned no error: CommitLocalWrite begins, with some of   *)
(* the predicted keys in localWrite (a VM error reverts most of them).     *)
CommitLocalWrite(t, W) ==
    /\ pc[t] = "running"
    /\ wrote' = [wrote EXCEPT ![t] = W]
    /\ pc' = [pc EXCEPT ![t] = "resolving"]
    /\ UNCHANGED <<load, lastBlockTail, readVersion, status, proc, rank,
                   executing, waited, seen>>

TotallyAbort_Late(t) ==
    /\ pc[t] \in {"running", "resolving"}
    /\ pc' = [pc EXCEPT ![t] = "resolving"]
    /\ wrote' = [wrote EXCEPT ![t] = {}]
    /\ status' = [status EXCEPT ![t] =
          [k \in Keys |-> IF k \in Writes(t) THEN "Ignore" ELSE "none"]]
    /\ UNCHANGED <<load, lastBlockTail, readVersion, proc, rank, executing,
                   waited, seen>>

(* ApplyMessage returned an error: TotallyAbort begins, for no key.        *)
TotallyAbort(t) ==
    /\ pc[t] = "running"
    /\ pc' = [pc EXCEPT ![t] = "resolving"]
    /\ UNCHANGED <<load, lastBlockTail, readVersion, status, proc, rank,
                   executing, waited, seen, wrote>>

(* One turn of the loop of either: a version leaves Pending and its        *)
(* waiters are woken.                                                      *)
ResolveVersion(t, k) ==
    /\ pc[t] = "resolving"
    /\ k \in Writes(t)
    /\ status[t][k] = "Pending"
    /\ status' = [status EXCEPT ![t][k] =
          IF k \in wrote[t] THEN "Committed" ELSE "Ignore"]
    /\ UNCHANGED <<load, pc, lastBlockTail, readVersion, proc, rank, executing,
                   waited, seen, wrote>>

(* The loop is over; the processor turns to its next task.                 *)
EndTask(t) ==
    /\ pc[t] = "resolving"
    /\ \A k \in Writes(t) : status[t][k] # "Pending"
    /\ pc' = [pc EXCEPT ![t] = "done"]
    /\ UNCHANGED <<load, lastBlockTail, readVersion, status, proc, rank,
                   executing, waited, seen, wrote>>
-----------------------------------------------------------------------------
AllEnded == \A t \in Tasks : pc[t] \in Ended

(* t waits for a version whose writer was rejected.                        *)
Stranded(t) ==
    /\ pc[t] = "waiting"
    /\ \E k \in Reads(t), u \in Tasks :
          readVersion[t][k] = u /\ pc[u] = "rejected" /\ status[u][k] = "Pending"

(* The batch is over, or a processor waits for ever (no other state may    *)
(* be without a successor: TLC checks deadlock).                           *)
Stopped ==
    /\ AllEnded \/ \E t \in Tasks : Stranded(t)
    /\ UNCHANGED vars

Line(b) == PrepareBlock(b) \/ LinkBlock(b) \/ ScheduleBlock(b)

(* What a processor does of itself, reads apart: a transaction may read    *)
(* or not, but gas bounds its run.                                         *)
Work(t) ==
    \/ PopTask(t)
    \/ \E k \in Keys : WaitVersion(t, k)
    \/ StartTask(t)
    \/ RejectTask(t)
    \/ \E W \in SUBSET Writes(t) : CommitLocalWrite(t, W)
    \/ TotallyAbort(t)
    \/ \E k \in Keys : ResolveVersion(t, k)
    \/ EndTask(t)

Next ==
    \/ \E b \in Blocks : Line(b)
    \/ NextBlock
    \/ \E t \in Tasks : Work(t)
    \/ \E t \in Tasks, k \in Keys : ReadVersion(t, k)
    \/ Stopped

Spec == Init /\ [][Next]_vars

(* The lines and the processors are goroutines and are not starved.        *)
Fairness ==
    /\ \A b \in Blocks : WF_vars(Line(b))
    /\ WF_vars(NextBlock)
    /\ \A t \in Tasks : WF_vars(Work(t))

FairSpec == Spec /\ Fairness
-----------------------------------------------------------------------------
(* Properties.                                                             *)

Resolved(u, k) == status[u][k] \in {"Committed", "Ignore"}

(* The tasks whose execution has begun.                                    *)
Begun(t) == pc[t] \in {"running", "resolving", "done"}

(* A key that some task reads is read by every task that writes it: what   *)
(* the EVM does with balances, nonces, code hashes and storage slots (a    *)
(* credit, a nonce bump, CREATE and SSTORE all read first), but not with   *)
(* code and liveness.                                                      *)
ReadBeforeWrite(w) ==
    \A t, u \in Tasks : w[u].reads \cap w[t].writes \subseteq w[t].reads

(* Every value a task was given is the one a serial run would give it: the *)
(* writers of the key that precede the task have all finished with it, and *)
(* the version seen is the last of them that committed.  Neither Task.Wait *)
(* (it waits for one version) nor GetVisible (it walks past Pending        *)
(* versions) checks this.                                                  *)
SerialReads ==
    \A t \in Tasks, k \in Keys : \A v \in seen[t][k] :
        /\ \/ v = Snapshot
           \/ v \in Writers(Tasks, k) /\ v < t /\ status[v][k] = "Committed"
        /\ \A u \in Writers(Tasks, k) : u < t =>
              /\ Resolved(u, k)
              /\ status[u][k] = "Committed" => u <= v

(* A getter called again returns the same version, whatever the other      *)
(* processors and GVCLine do in between: getters keep no copy, they walk   *)
(* the chain on each call.                                                 *)
RepeatableReads ==
    [][\A t \in Tasks : \A k \in Reads(t) :
          pc[t] = "running" /\ pc'[t] = "running" =>
              GetVisible(k, readVersion[t][k])' = GetVisible(k, readVersion[t][k])]_vars

(* A version that has left Pending keeps its status: Wait, which looks at  *)
(* each version once, may rely on it while it waits for the next.          *)
ResolvedForGood ==
    [][\A u \in Tasks, k \in Keys : Resolved(u, k) => status'[u][k] = status[u][k]]_vars

(* A dependency on an earlier block never blocks: execwg.Wait kept this    *)
(* block back until that block's versions were resolved, although GVCLine  *)
(* linked to them while they were Pending.                                 *)
BarrierSettles ==
    \A t \in Tasks : pc[t] = "waiting" => \A k \in Reads(t) :
        LET v == readVersion[t][k]
        IN  v # Snapshot /\ Block[v] < Block[t] /\ load[v].valid => Resolved(v, k)

(* A Pending version is one whose task has not been executed (version.go). *)
PendingMeansUnexecuted ==
    \A t \in Tasks : \A k \in Writes(t) :
        status[t][k] = "Pending" => pc[t] \notin Ended

(* If AsMessage accepts every transaction the batch is executed to its     *)
(* end: no circular wait among processors, no block left behind.           *)
Termination == (\A t \in Tasks : load[t].valid) => <>AllEnded

(* Refinement: the prefix of the order that is done, with what its tasks   *)
(* wrote and saw, is a serial run.                                         *)
SerialDone == {t \in Tasks : \A u \in Tasks : u <= t => pc[u] = "done"}
SerialWrote == [t \in Tasks |-> IF t \in SerialDone THEN wrote[t] ELSE {}]
SerialSeen == [t \in Tasks |->
    IF t \in SerialDone THEN seen[t] ELSE [k \in Keys |-> {}]]

Serial == INSTANCE SerialExecution WITH
    done <- SerialDone, wrote <- SerialWrote, seen <- SerialSeen

(* Every published result is one of executing the transactions one by one. *)
ImplementsSerial == Serial!Spec

(* The same as a state predicate: what the tasks of the finished prefix    *)
(* were given are the values of the serial run.  With multi-versioning     *)
(* writers need no order among themselves, and a later read depends on the *)
(* earlier write (graph_builder.go).                                       *)
SerialOutcome ==
    \A t \in SerialDone, k \in Keys : \A v \in seen[t][k] :
        Serial!Current(SerialWrote, t, k, v)
-----------------------------------------------------------------------------
(* The inductive invariant behind the safety properties.                   *)

Prepared == {t \in Tasks : pc[t] # "new"}
Linked == {t \in Tasks : pc[t] \notin {"new", "prepared"}}

(* v is the last writer of k in S, or Snapshot if S has none.              *)
IsLast(v, S, k) ==
    /\ v = Snapshot \/ v \in Writers(S, k)
    /\ \A u \in Writers(S, k) : u <= v

(* What each stage of a task says of its versions, waits and writes.       *)
StageInv ==
    \A t \in Tasks :
        /\ pc[t] \in {"new", "prepared", "linked", "queued"} => waited[t] = {}
        /\ Begun(t) \/ pc[t] = "rejected" => waited[t] = Reads(t)
        /\ pc[t] = "rejected" => ~load[t].valid
        /\ wrote[t] \subseteq Writes(t)
        /\ pc[t] \notin {"resolving", "done"} => wrote[t] = {}
        /\ \A k \in Keys : ~Begun(t) \/ k \notin Reads(t) => seen[t][k] = {}

StatusInv ==
    \A t \in Tasks, k \in Keys :
        /\ status[t][k] = "none" <=> pc[t] = "new" \/ k \notin Writes(t)
        /\ Resolved(t, k) => pc[t] \in {"resolving", "done"}
        /\ pc[t] = "done" => status[t][k] # "Pending"
        /\ status[t][k] = "Committed" => k \in wrote[t]
        /\ status[t][k] = "Ignore" => k \notin wrote[t]

(* GVCLine and GraphLine take the blocks in order.                         *)
LineInv ==
    \A t, u \in Tasks :
        /\ t \in Prepared /\ Block[u] <= Block[t] => u \in Prepared
        /\ t \in Linked /\ Block[u] <= Block[t] => u \in Linked

(* One block executes at a time.                                           *)
BarrierInv ==
    \A t \in Tasks :
        /\ Block[t] < executing => pc[t] \in Ended
        /\ pc[t] \in Busy => Block[t] = executing

(* Tails and read versions are last writers.                               *)
TailInv == \A k \in Keys : IsLast(lastBlockTail[k], Prepared, k)

LinkInv ==
    \A t \in Tasks, k \in Keys :
        /\ pc[t] = "prepared" =>
              IsLast(readVersion[t][k], {u \in Tasks : Block[u] < Block[t]}, k)
        /\ t \in Linked /\ k \in Reads(t) =>
              IsLast(readVersion[t][k], {u \in Tasks : u < t}, k)

(* A version waited for is resolved.                                       *)
WaitInv ==
    \A t \in Tasks : \A k \in waited[t] :
        /\ k \in Reads(t)
        /\ readVersion[t][k] # Snapshot => Resolved(readVersion[t][k], k)

(* Behind a task that has begun, every version of a key it reads is        *)
(* resolved, and not only the one it waited for.                           *)
SettledInv ==
    \A t \in Tasks : \A k \in Reads(t) :
        Begun(t) => \A u \in Writers(Tasks, k) : u < t => Resolved(u, k)

(* What holds whatever the batch.                                          *)
Bookkeeping ==
    /\ TypeOK
    /\ StageInv
    /\ StatusInv
    /\ LineInv
    /\ BarrierInv
    /\ TailInv
    /\ LinkInv
    /\ WaitInv

(* And what holds when keys are read before they are written.              *)
IInv ==
    /\ Bookkeeping
    /\ SettledInv
    /\ SerialReads
=============================================================================
