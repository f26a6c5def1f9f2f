----------------------------- MODULE LocalState -----------------------------
(***************************************************************************)
(* The state a transaction works on: its local writes over the versions it *)
(* reads, from the purchase of its gas to the commit.                      *)
(*                                                                         *)
(* Nonces, liveness and slots are stored by value.  A balance is stored as *)
(* a pointer to an integer that AddBalance and SubBalance change in place, *)
(* so here it is a cell of a heap.  A cell may be in the local writes, in  *)
(* the snapshot and in versions of the same or of other tasks at once.     *)
(*                                                                         *)
(* The tasks are those of one block.  Execution says how versions leave    *)
(* Pending one by one; here a task's versions do so together.              *)
(***************************************************************************)
EXTENDS Integers, FiniteSets, FiniteSetsExt

CONSTANTS
    Accounts,   \* addresses
    NTasks,     \* how many transactions
    Loads,      \* the batches: sender and predicted accesses of each task
    Initial,    \* the balance of every account at the start
    MaxBalance, \* balances are kept modulo MaxBalance + 1 (2^256 in the code)
    Gas,        \* what a transaction pays for its gas in advance
    MaxCells    \* bound on the cells allocated

Tasks == 0 .. NTasks - 1
Head == -1
Fields == {"BALANCE", "NONCE", "ALIVE", "SLOT"}
Keys == Accounts \X Fields
Balance(a) == <<a, "BALANCE">>
Nonce(a) == <<a, "NONCE">>
Alive(a) == <<a, "ALIVE">>
Slot(a) == <<a, "SLOT">>
IsBalance(k) == k[2] = "BALANCE"

Footprint == [from: Accounts, reads: SUBSET Keys, writes: SUBSET Keys]

ASSUME LoadsAssumption == Loads \subseteq [Tasks -> Footprint]
ASSUME AmountsAssumption ==
    /\ MaxBalance \in Nat
    /\ Initial \in 0 .. MaxBalance
    /\ Gas \in Nat
ASSUME SizesAssumption ==
    /\ NTasks \in Nat
    /\ IsFiniteSet(Accounts)
    /\ MaxCells \in Nat /\ MaxCells >= Cardinality(Accounts)

(* Prediction writes no balance that it has not read: AddBalance and       *)
(* SubBalance record both, and SELFDESTRUCT reads before it clears.        *)
ASSUME BalancesAssumption ==
    \A l \in Loads, t \in Tasks : \A k \in l[t].writes :
        IsBalance(k) => k \in l[t].reads

VARIABLES
    load,       \* the batch, fixed
    pc,         \* pc[t]: how far TransitionDb has got
    heap,       \* the balance each cell holds
    data,       \* data[t][k]: Version.Data of t's version of k, data[Head]: the snapshot's
    local,      \* local[t]: State.localWrite, a function on some keys
    snapshot,   \* snapshot[t]: State.snapshot
    began,      \* history: the stored values t found when it began
    entry,      \* history: what t's getters returned when it entered the VM
    change,     \* history: change[a][t]: what t has added to a's balance
    failed      \* history: some task was reverted, aborted or had a change refused

vars == <<load, pc, heap, data, local, snapshot, began, entry, change, failed>>

Cells == 1 .. MaxCells
Active == {"buying", "bought", "vm", "left", "refunded", "aborting"}
Stages == {"waiting", "done"} \cup Active
Values == Nat
None == -1          \* data of a version that is Pending or Ignored
Empty == [k \in {} |-> None]

Reads(t) == load[t].reads
Writes(t) == load[t].writes

TypeOK ==
    /\ load \in Loads
    /\ pc \in [Tasks -> Stages]
    /\ DOMAIN heap \subseteq Cells /\ \A c \in DOMAIN heap : heap[c] \in 0 .. MaxBalance
    /\ \A t \in Tasks \cup {Head}, k \in Keys :
          data[t][k] \in IF IsBalance(k) THEN DOMAIN heap \cup {None} ELSE Values \cup {None}
    /\ \A t \in Tasks : \A f \in {local[t], snapshot[t]} :
          /\ DOMAIN f \subseteq Writes(t)
          /\ \A k \in DOMAIN f : f[k] \in IF IsBalance(k) THEN DOMAIN heap ELSE Values

(* Each account's balance is a cell of its own in the snapshot's state, as *)
(* it is for accounts that the state has.                                  *)
OwnCell ==
    CHOOSE cell \in [Accounts -> 1 .. Cardinality(Accounts)] :
        \A a, b \in Accounts : a # b => cell[a] # cell[b]

(* The head of a liveness is given what is not Selfdestruct, so no account *)
(* that the state has counts as alive.                                     *)
Init ==
    /\ load \in Loads
    /\ pc = [t \in Tasks |-> "waiting"]
    /\ heap = [c \in 1 .. Cardinality(Accounts) |-> Initial]
    /\ data = [t \in Tasks \cup {Head} |-> [k \in Keys |->
          IF t # Head THEN None ELSE IF IsBalance(k) THEN OwnCell[k[1]] ELSE 0]]
    /\ local = [t \in Tasks |-> Empty]
    /\ snapshot = [t \in Tasks |-> Empty]
    /\ began = [t \in Tasks |-> Empty]
    /\ entry = [t \in Tasks |-> Empty]
    /\ change = [a \in Accounts |-> [t \in Tasks |-> 0]]
    /\ failed = FALSE
-----------------------------------------------------------------------------
(* What a task reads.                                                      *)

Writers(t, k) == {u \in Tasks : u < t /\ k \in Writes(u)}

(* GetVisible from the last earlier writer's version: the nearest that is  *)
(* Committed.                                                              *)
Stored(t, k) ==
    data[Max({u \in Writers(t, k) : data[u][k] # None} \cup {Head})][k]

(* A task's memory: the heap and its own localWrite.                       *)
Memory(t) == [heap |-> heap, local |-> local[t]]

Datum_Stored(t, m, k) == Stored(t, k)

(* A getter: localWrite first, then the versions.                          *)
Datum(t, m, k) == IF k \in DOMAIN m.local THEN m.local[k] ELSE Stored(t, k)

Deref(h, k, d) == IF IsBalance(k) THEN h[d] ELSE d
Value(t, k) == Deref(heap, k, Datum(t, Memory(t), k))

Put(f, k, d) == [x \in DOMAIN f \cup {k} |-> IF x = k THEN d ELSE f[x]]

ChangeBalance_AnyWrite(t, m, a, x) ==
    LET c == Datum(t, m, Balance(a))
    IN  IF Balance(a) \notin Reads(t) THEN m
        ELSE [heap |-> [m.heap EXCEPT ![c] = (@ + x) % (MaxBalance + 1)],
              local |-> Put(m.local, Balance(a), c)]

(* AddBalance and SubBalance (x < 0): nothing happens if the balance may   *)
(* not be read; otherwise it is changed in its place, and then entered in  *)
(* localWrite if it may be written.                                        *)
ChangeBalance(t, m, a, x) ==
    LET c == Datum(t, m, Balance(a))
    IN  IF Balance(a) \notin Reads(t) THEN m
        ELSE [heap |-> [m.heap EXCEPT ![c] = (@ + x) % (MaxBalance + 1)],
              local |-> IF Balance(a) \in Writes(t) THEN Put(m.local, Balance(a), c)
                                                    ELSE m.local]
MayChange(t, a) == Balance(a) \in Reads(t) \cap Writes(t)

SetMemory(t, m) ==
    /\ heap' = m.heap
    /\ local' = [local EXCEPT ![t] = m.local]
-----------------------------------------------------------------------------
(* TransitionDb.                                                           *)

Start_FirstWriter(t) ==
    /\ pc[t] = "waiting"
    /\ \A k \in Reads(t) : Writers(t, k) # {} => pc[Min(Writers(t, k))] = "done"
    /\ pc' = [pc EXCEPT ![t] = "buying"]
    /\ began' = [began EXCEPT ![t] = [k \in Reads(t) |-> Deref(heap, k, Stored(t, k))]]
    /\ UNCHANGED <<load, heap, data, local, snapshot, entry, change, failed>>

(* Task.Wait has returned: of each record t reads, the last earlier writer *)
(* is done.                                                                *)
Start(t) ==
    /\ pc[t] = "waiting"
    /\ \A k \in Reads(t) : Writers(t, k) # {} => pc[Max(Writers(t, k))] = "done"
    /\ pc' = [pc EXCEPT ![t] = "buying"]
    /\ began' = [began EXCEPT ![t] = [k \in Reads(t) |-> Deref(heap, k, Stored(t, k))]]
    /\ UNCHANGED <<load, heap, data, local, snapshot, entry, change, failed>>

(* buyGas: the sender can pay and does; ErrSystemAbort if its balance was  *)
(* not predicted to be written, which is found out after the subtraction.  *)
BuyGas(t) ==
    LET a == load[t].from
    IN  /\ pc[t] = "buying"
        /\ Balance(a) \in Reads(t) /\ Value(t, Balance(a)) >= Gas
        /\ SetMemory(t, ChangeBalance(t, Memory(t), a, -Gas))
        /\ pc' = [pc EXCEPT ![t] = IF MayChange(t, a) THEN "bought" ELSE "aborting"]
        /\ change' = [change EXCEPT ![a][t] = @ - Gas]
        /\ UNCHANGED <<load, data, snapshot, began, entry, failed>>

(* Snapshot, then the nonce bump.                                          *)
EnterVM(t) ==
    LET k == Nonce(load[t].from)
    IN  /\ pc[t] = "bought"
        /\ k \in Reads(t) \cap Writes(t)
        /\ snapshot' = [snapshot EXCEPT ![t] =
              [x \in DOMAIN local[t] \cup DOMAIN @ |->
                  IF x \in DOMAIN local[t] THEN local[t][x] ELSE @[x]]]
        /\ entry' = [entry EXCEPT ![t] = [x \in Reads(t) |-> Value(t, x)]]
        /\ local' = [local EXCEPT ![t] = Put(@, k, Value(t, k) + 1)]
        /\ pc' = [pc EXCEPT ![t] = "vm"]
        /\ UNCHANGED <<load, heap, data, began, change, failed>>

(* CanTransfer and Transfer, which does not look at what SubBalance and    *)
(* AddBalance return.                                                      *)
Transfer(t, a, b, x) ==
    /\ pc[t] = "vm"
    /\ x > 0
    /\ Balance(a) \in Reads(t) /\ Value(t, Balance(a)) >= x
    /\ SetMemory(t, ChangeBalance(t, ChangeBalance(t, Memory(t), a, -x), b, x))
    /\ change' = [c \in Accounts |-> [change[c] EXCEPT ![t] =
          @ + (IF c = b THEN x ELSE 0) - (IF c = a THEN x ELSE 0)]]
    /\ failed' = (failed \/ ~ (MayChange(t, a) /\ MayChange(t, b)))
    /\ UNCHANGED <<load, pc, data, snapshot, began, entry>>

(* SSTORE.                                                                 *)
SetState(t, a) ==
    /\ pc[t] = "vm"
    /\ Slot(a) \in Reads(t)
    /\ IF Slot(a) \in Writes(t)
       THEN /\ local' = [local EXCEPT ![t] = Put(@, Slot(a), t + 1)]
            /\ UNCHANGED pc
       ELSE /\ pc' = [pc EXCEPT ![t] = "aborting"]
            /\ UNCHANGED local
    /\ UNCHANGED <<load, heap, data, snapshot, began, entry, change, failed>>

SelfdestructMemory_Share(t, m, a, b) ==
    LET x == m.heap[Datum(t, m, Balance(a))]
        n == ChangeBalance(t, m, b, x)
    IN  [n EXCEPT !.local = Put(Put(@, Balance(a), Datum(t, n, Balance(b))), Alive(a), 0)]

(* AddBalance of the beneficiary b, then State.Selfdestruct, which gives   *)
(* the contract a a new cell.                                              *)
SelfdestructMemory(t, m, a, b) ==
    LET x == m.heap[Datum(t, m, Balance(a))]
        n == ChangeBalance(t, m, b, x)
        new == Cardinality(DOMAIN n.heap) + 1
    IN  [heap |-> Put(n.heap, new, 0),
         local |-> Put(Put(n.local, Balance(a), new), Alive(a), 0)]

(* SELFDESTRUCT (before Berlin), whose gas depends on HasSelfdestructed;   *)
(* ErrSystemAbort if one of its three steps was not predicted.  The caller *)
(* of the contract goes on.                                                *)
Selfdestruct(t, a, b) ==
    /\ pc[t] = "vm"
    /\ Cardinality(DOMAIN heap) < MaxCells
    /\ {Balance(a), Alive(a)} \subseteq Reads(t)
    /\ LET x == Value(t, Balance(a))
           ok == MayChange(t, b) /\ {Balance(a), Alive(a)} \subseteq Writes(t)
       IN  /\ SetMemory(t, IF ok THEN SelfdestructMemory(t, Memory(t), a, b)
                                 ELSE ChangeBalance(t, Memory(t), b, x))
           /\ pc' = [pc EXCEPT ![t] = IF ok THEN @ ELSE "aborting"]
           /\ failed' = (failed \/ ~ ok)
           /\ change' = [c \in Accounts |-> [change[c] EXCEPT ![t] =
                 IF c = a THEN @ - x ELSE IF c = b THEN @ + x ELSE @]]
    /\ UNCHANGED <<load, data, snapshot, began, entry>>

(* The VM returns.                                                         *)
LeaveVM(t) ==
    /\ pc[t] = "vm"
    /\ pc' = [pc EXCEPT ![t] = "left"]
    /\ UNCHANGED <<load, heap, data, local, snapshot, began, entry, change, failed>>

Restored_Merge(t) ==
    [x \in DOMAIN local[t] \cup DOMAIN snapshot[t] |->
        IF x \in DOMAIN snapshot[t] THEN snapshot[t][x] ELSE local[t][x]]

(* RevertToSnapshot: localWrite holds what it held at Snapshot.            *)
Restored(t) == snapshot[t]

(* The VM returns an error other than ErrSystemAbort.                      *)
Revert(t) ==
    /\ pc[t] = "vm"
    /\ local' = [local EXCEPT ![t] = Restored(t)]
    /\ pc' = [pc EXCEPT ![t] = "left"]
    /\ failed' = TRUE
    /\ UNCHANGED <<load, heap, data, snapshot, began, entry, change>>

(* refundGas.                                                              *)
RefundGas(t, x) ==
    LET a == load[t].from
    IN  /\ pc[t] = "left"
        /\ SetMemory(t, ChangeBalance(t, Memory(t), a, x))
        /\ pc' = [pc EXCEPT ![t] = "refunded"]
        /\ change' = [change EXCEPT ![a][t] = @ + x]
        /\ UNCHANGED <<load, data, snapshot, began, entry, failed>>

(* CommitLocalWrite: what localWrite has of the predicted records.         *)
CommitLocalWrite(t) ==
    /\ pc[t] = "refunded"
    /\ data' = [data EXCEPT ![t] = [k \in Keys |->
          IF k \in Writes(t) /\ k \in DOMAIN local[t] THEN local[t][k] ELSE None]]
    /\ local' = [local EXCEPT ![t] = Empty]
    /\ snapshot' = [snapshot EXCEPT ![t] = Empty]
    /\ pc' = [pc EXCEPT ![t] = "done"]
    /\ began' = [began EXCEPT ![t] = Empty]
    /\ entry' = [entry EXCEPT ![t] = Empty]
    /\ UNCHANGED <<load, heap, change, failed>>

(* ApplyMessage returned an error: the sender cannot pay, too little gas   *)
(* was bought, or a record is missing among the predicted ones.            *)
TotallyAbort(t) ==
    /\ pc[t] \in {"buying", "bought", "vm", "aborting"}
    /\ local' = [local EXCEPT ![t] = Empty]
    /\ snapshot' = [snapshot EXCEPT ![t] = Empty]
    /\ pc' = [pc EXCEPT ![t] = "done"]
    /\ failed' = TRUE
    /\ began' = [began EXCEPT ![t] = Empty]
    /\ entry' = [entry EXCEPT ![t] = Empty]
    /\ UNCHANGED <<load, heap, data, change>>
-----------------------------------------------------------------------------
AllDone == (\A t \in Tasks : pc[t] = "done") /\ UNCHANGED vars

InVM(t) ==
    \E a, b \in Accounts :
        \/ Transfer(t, a, b, 1)
        \/ SetState(t, a)
        \/ Selfdestruct(t, a, b)

Next ==
    \/ \E t \in Tasks :
          \/ Start(t) \/ BuyGas(t) \/ EnterVM(t) \/ InVM(t) \/ LeaveVM(t)
          \/ Revert(t) \/ CommitLocalWrite(t) \/ TotallyAbort(t)
          \/ \E x \in 0 .. Gas - 1 : RefundGas(t, x)
    \/ AllDone

Spec == Init /\ [][Next]_vars
-----------------------------------------------------------------------------
(* The cells t's getters hand out.                                         *)
Hands(t) == {Datum(t, Memory(t), k) : k \in {x \in Reads(t) : IsBalance(x)}}

Referring(k) ==
    {data[t][k] : t \in Tasks \cup {Head}}
        \cup {f[k] : f \in {g \in {local[t] : t \in Tasks} \cup {snapshot[t] : t \in Tasks} :
                           k \in DOMAIN g}}

(* No integer is the balance of two accounts, in whatever versions, local  *)
(* writes and snapshots it is kept: AddBalance and SubBalance of one       *)
(* account (state.go:333-351) never move another's money.                  *)
AccountsApart ==
    \A a, b \in Accounts :
        a # b => Referring(Balance(a)) \cap Referring(Balance(b)) \subseteq {None}

(* Every task that may read a balance may write it, too.                   *)
ReadersWrite == \A t \in Tasks : \A k \in Reads(t) : IsBalance(k) => k \in Writes(t)

(* Waiting for the last writer (task.go:43-56) gives each task its integers *)
(* for itself if nobody only reads a balance: two running transactions     *)
(* never hold the same one, although state.go:338 and :348 change it       *)
(* before anything is committed.                                           *)
Alone ==
    ReadersWrite => \A t, u \in Tasks :
        t # u /\ {pc[t], pc[u]} \subseteq Active => Hands(t) \cap Hands(u) = {}

(* The sum of the changes by tasks 0 to t.                                 *)
Total(c, t) == MapThenSumSet(LAMBDA u : c[u], 0 .. t)
Balanced(t, a) ==
    Value(t, Balance(a)) = (Initial + Total(change[a], t)) % (MaxBalance + 1)

(* As long as nothing fails, the balance a running transaction is given    *)
(* (state.go:83-101) is the initial one and every change that it and the   *)
(* transactions before it in the block have made, and no other.            *)
BalancesAddUp ==
    ReadersWrite /\ ~ failed => \A t \in Tasks : \A a \in Accounts :
        pc[t] \in Active /\ Balance(a) \in Reads(t) => Balanced(t, a)

(* After RevertToSnapshot (state.go:387-398) the getters return again what *)
(* they returned at Snapshot, for every record that is stored by value.    *)
RevertRestoresRecords ==
    [][\A t \in Tasks : Revert(t) =>
          \A k \in Reads(t) : ~ IsBalance(k) => Value(t, k)' = entry[t][k]]_vars

(* The comment at state.go:372: a revert at the level of the VM goes back  *)
(* to the local writes from before the VM was entered.                     *)
RevertRestores ==
    [][\A t \in Tasks : Revert(t) => \A k \in Reads(t) : Value(t, k)' = entry[t][k]]_vars

(* The comment at state_transition.go:462-463: a system abort does not     *)
(* charge the sender for its gas.                                          *)
AbortIsFree ==
    [][\A t \in Tasks : TotallyAbort(t) => \A k \in Reads(t) : Value(t, k)' = began[t][k]]_vars

(* The comments at graph_builder.go:22 and :30: there are many versions, a *)
(* read depends on the writes before it; so a record that a transaction    *)
(* only reads stays the same while it runs.                                *)
ReadsAreStable ==
    \A t \in Tasks : \A k \in Reads(t) \ Writes(t) :
        pc[t] \in Active => Value(t, k) = began[t][k]
-----------------------------------------------------------------------------
(* The inductive invariant behind the properties that hold.                *)

(* Cells are allocated in order; the snapshot's state has all records.     *)
Shape ==
    /\ DOMAIN heap = 1 .. Cardinality(DOMAIN heap)
    /\ data \in [Tasks \cup {Head} -> [Keys -> Int]]
    /\ \A k \in Keys : data[Head][k] # None
    /\ DOMAIN local = Tasks /\ DOMAIN snapshot = Tasks /\ DOMAIN entry = Tasks
    /\ change \in [Accounts -> [Tasks -> Int]]

(* A record that is written only by tasks that read it, too.               *)
WritersRead(k) == \A t \in Tasks : k \in Writes(t) => k \in Reads(t)

(* Prediction of a block whose transactions write only what they read.     *)
AllWritersRead == \A l \in Loads, t \in Tasks : l[t].writes \subseteq l[t].reads

(* A started task has all earlier writers of such a record behind it, and  *)
(* not only the last, for which it waited.                                 *)
Settled ==
    \A k \in Keys : WritersRead(k) => \A t \in Tasks :
        k \in Reads(t) /\ pc[t] # "waiting" => \A u \in Writers(t, k) : pc[u] = "done"

(* What the stages of TransitionDb have behind them.                       *)
Progress ==
    /\ \A t \in Tasks : pc[t] \in {"waiting", "buying"} => DOMAIN local[t] = {}
    /\ \A t \in Tasks : pc[t] \in {"waiting", "buying", "bought"} => DOMAIN snapshot[t] = {}
    /\ \A t \in Tasks : pc[t] \in {"bought", "vm", "left", "refunded"} =>
          MayChange(t, load[t].from)
    /\ \A t \in Tasks, a \in Accounts : pc[t] = "waiting" => change[a][t] = 0

(* In the VM, snapshot and versions still have what the getters returned.  *)
Entered ==
    \A t \in Tasks : pc[t] = "vm" =>
        \A k \in Reads(t) : ~ IsBalance(k) /\ WritersRead(k) =>
            entry[t][k] = IF k \in DOMAIN snapshot[t] THEN snapshot[t][k] ELSE Stored(t, k)

(* Unless something fails, money moves only between balances whose change  *)
(* was predicted, and a task that has all earlier writers behind it finds  *)
(* all that they and it have moved, whether it has started or not.         *)
Ledger ==
    ReadersWrite /\ ~ failed =>
        /\ \A t \in Tasks, a \in Accounts : change[a][t] # 0 => MayChange(t, a)
        /\ \A t \in Tasks, a \in Accounts :
              /\ Balance(a) \in Reads(t)
              /\ pc[t] # "done"
              /\ \A u \in Writers(t, Balance(a)) : pc[u] = "done"
              => Balanced(t, a)

LocalInv ==
    /\ TypeOK
    /\ Shape
    /\ AccountsApart
    /\ Settled
    /\ Progress
    /\ Entered
    /\ Ledger
=============================================================================
