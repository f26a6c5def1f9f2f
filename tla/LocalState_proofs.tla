------------------------- MODULE LocalState_proofs --------------------------
(* Proofs about the state of running transactions, for every block, any    *)
(* number of accounts and any amounts.                                     *)
EXTENDS LocalState, DataTheorems

(***************************************************************************)
(* Arithmetic modulo 2^256.                                                *)
(***************************************************************************)

(* A remainder is below the modulus.                                       *)
LEMMA ModRange == ASSUME NEW x \in Int, NEW m \in Nat, m > 0 PROVE x % m \in 0 .. m - 1
OBVIOUS

(* It is the only such number that leaves a multiple.                      *)
LEMMA ModUnique ==
    ASSUME NEW m \in Nat, m > 0, NEW q \in Int, NEW r \in 0 .. m - 1
    PROVE  (m * q + r) % m = r
<1> DEFINE x == m * q + r
           p == x \div m
           d == q - p
<1>1. x \in Int /\ p \in Int /\ d \in Int /\ r \in Int /\ x % m \in 0 .. m - 1
  <2>1. m * q \in Int
    OBVIOUS
  <2>2. x \in Int
    BY <2>1
  <2> HIDE DEF x
  <2> QED
    BY <2>2, ModRange
<1>2. x = m * p + (x % m)
  <2> HIDE DEF x
  <2> QED
    BY <1>1 DEF p
<1>3. m * d = m * q - m * p
  <2> HIDE DEF p
  <2> QED
    BY <1>1
<1>4. m * d = (x % m) - r
  <2>1. m * q \in Int /\ m * p \in Int /\ x = m * q + r
    BY <1>1
  <2> HIDE DEF x, d, p
  <2> QED
    BY <1>1, <1>2, <1>3, <2>1
<1> HIDE DEF x, p, d
<1>5. d >= 1 => m * d >= m
  BY <1>1
<1>6. d <= -1 => m * d <= -m
  BY <1>1
<1>7. d = 0
  BY <1>1, <1>4, <1>5, <1>6
<1> QED
  BY <1>1, <1>4, <1>7 DEF x

(* Adding to a remainder.                                                  *)
LEMMA ModAdd ==
    ASSUME NEW x \in Int, NEW y \in Int, NEW m \in Nat, m > 0
    PROVE  ((x % m) + y) % m = (x + y) % m
<1> DEFINE r == x % m
           q == x \div m
           r2 == (r + y) % m
           q2 == (r + y) \div m
<1>1. r \in Int /\ q \in Int /\ x = m * q + r
  OBVIOUS
<1> HIDE DEF r, q
<1>2. r2 \in 0 .. m - 1 /\ q2 \in Int /\ r + y = m * q2 + r2
  <2>1. r + y \in Int
    BY <1>1
  <2>2. (r + y) % m \in 0 .. m - 1
    BY <2>1, ModRange
  <2> QED
    BY <2>1, <2>2
<1> HIDE DEF r2, q2
<1>3. m * (q + q2) = m * q + m * q2
  BY <1>1, <1>2
<1>4. m * q \in Int /\ m * q2 \in Int
  BY <1>1, <1>2
<1>5. x + y = m * (q + q2) + r2
  BY <1>1, <1>2, <1>3, <1>4
<1>6. q + q2 \in Int
  BY <1>1, <1>2
<1> QED
  BY <1>2, <1>5, <1>6, ModUnique DEF r2, r

(* What fits is its own remainder.                                         *)
LEMMA ModSmall == ASSUME NEW m \in Nat, m > 0, NEW r \in 0 .. m - 1 PROVE r % m = r
<1>1. m * 0 + r = r
  OBVIOUS
<1> QED
  BY <1>1, ModUnique

(***************************************************************************)
(* Cells and versions.                                                     *)
(***************************************************************************)

(* The keys of an account.                                                 *)
LEMMA KeyFacts ==
    /\ \A a \in Accounts : /\ Balance(a) \in Keys /\ IsBalance(Balance(a))
                           /\ Nonce(a) \in Keys /\ ~ IsBalance(Nonce(a))
                           /\ Alive(a) \in Keys /\ ~ IsBalance(Alive(a))
                           /\ Slot(a) \in Keys /\ ~ IsBalance(Slot(a))
    /\ \A a, b \in Accounts : Balance(a) = Balance(b) => a = b
    /\ \A k \in Keys : IsBalance(k) => k[1] \in Accounts /\ k = Balance(k[1])
BY DEF Keys, Fields, IsBalance, Balance, Nonce, Alive, Slot

(* Each account can be given a cell of its own at the start.               *)
LEMMA OwnCells ==
    /\ OwnCell \in [Accounts -> 1 .. Cardinality(Accounts)]
    /\ \A a, b \in Accounts : a # b => OwnCell[a] # OwnCell[b]
<1> DEFINE n == Cardinality(Accounts)
<1>1. n \in Nat /\ ExistsBijection(1 .. n, Accounts)
  BY SizesAssumption, FS_CardinalityType
<1> HIDE DEF n
<1>2. PICK f \in [1 .. n -> Accounts] : \A a \in Accounts : \E i \in 1 .. n : f[i] = a
  BY <1>1 DEF ExistsBijection, Bijection, Surjection
<1> DEFINE cell == [a \in Accounts |-> CHOOSE i \in 1 .. n : f[i] = a]
<1>3. \A a \in Accounts : cell[a] \in 1 .. n /\ f[cell[a]] = a
  BY <1>2
<1>4. cell \in [Accounts -> 1 .. n] /\ \A a, b \in Accounts : a # b => cell[a] # cell[b]
  BY <1>3
<1>5. \E c \in [Accounts -> 1 .. n] : \A a, b \in Accounts : a # b => c[a] # c[b]
  <2> HIDE DEF cell
  <2> QED
    BY <1>4
<1> QED
  BY <1>5 DEF OwnCell, n

(* Footprints.                                                             *)
LEMMA Footprints ==
    ASSUME TypeOK, NEW t \in Tasks
    PROVE  /\ Reads(t) \subseteq Keys /\ Writes(t) \subseteq Keys
           /\ load[t].from \in Accounts
           /\ \A k \in Writes(t) : IsBalance(k) => k \in Reads(t)
<1>1. load \in Loads /\ load[t] \in Footprint
  BY LoadsAssumption DEF TypeOK
<1>2. \A k \in Writes(t) : IsBalance(k) => k \in Reads(t)
  BY <1>1, BalancesAssumption DEF Reads, Writes
<1> QED
  BY <1>1, <1>2 DEF Footprint, Reads, Writes

(* Tasks are integers from 0 on, Head is before them.                      *)
LEMMA TaskNumbers ==
    /\ Tasks \subseteq Nat /\ Head \in Int /\ Head \notin Tasks
    /\ \A t \in Tasks : t < NTasks /\ Head < t
    /\ NTasks \in Int
BY SizesAssumption DEF Tasks, Head

(* The last of a set of tasks.                                             *)
LEMMA LastTask ==
    ASSUME NEW S \in SUBSET (Tasks \cup {Head}), S # {}
    PROVE  Max(S) \in S /\ \A u \in S : u <= Max(S)
<1>1. S \in SUBSET Int /\ \A x \in S : x <= NTasks
  BY SizesAssumption DEF Tasks, Head
<1>2. \E m \in S : \A x \in S : x <= m
  BY <1>1, TaskNumbers, GreatestInt
<1>3. \E m \in S : \A x \in S : m >= x
  BY <1>1, <1>2
<1>4. Max(S) \in S /\ \A x \in S : Max(S) >= x
  BY <1>3 DEF Max
<1> QED
  BY <1>1, <1>4

(* What GetVisible finds: the version of the last earlier writer that has  *)
(* data, or that of the snapshot's state.                                  *)
LEMMA StoredSpec ==
    ASSUME Shape, NEW t \in Tasks, NEW k \in Keys
    PROVE  \E u \in Writers(t, k) \cup {Head} :
              /\ Stored(t, k) = data[u][k] /\ data[u][k] # None
              /\ \A w \in Writers(t, k) : data[w][k] # None => w <= u
<1> DEFINE S == {w \in Writers(t, k) : data[w][k] # None} \cup {Head}
<1>1. S \in SUBSET (Tasks \cup {Head}) /\ S # {}
  BY DEF Writers
<1>2. Max(S) \in S /\ \A u \in S : u <= Max(S)
  <2> HIDE DEF S
  <2> QED
    BY <1>1, LastTask
<1>3. Stored(t, k) = data[Max(S)][k]
  BY DEF Stored
<1>4. Max(S) \in Writers(t, k) \cup {Head} /\ data[Max(S)][k] # None
  BY <1>2 DEF Shape
<1>5. \A w \in Writers(t, k) : data[w][k] # None => w <= Max(S)
  BY <1>2
<1> HIDE DEF S
<1> QED
  BY <1>3, <1>4, <1>5

(* Conversely, a version with these properties is the one it finds.        *)
LEMMA StoredIs ==
    ASSUME Shape, NEW t \in Tasks, NEW k \in Keys,
           NEW u \in Writers(t, k) \cup {Head}, data[u][k] # None,
           \A w \in Writers(t, k) : data[w][k] # None => w <= u
    PROVE  Stored(t, k) = data[u][k]
<1>1. PICK v \in Writers(t, k) \cup {Head} :
         /\ Stored(t, k) = data[v][k] /\ data[v][k] # None
         /\ \A w \in Writers(t, k) : data[w][k] # None => w <= v
  BY StoredSpec
<1>2. u \in Int /\ v \in Int /\ \A w \in Writers(t, k) : w \in Nat /\ Head < w
  BY TaskNumbers DEF Writers
<1>3. u = v
  BY <1>1, <1>2, TaskNumbers
<1> QED
  BY <1>1, <1>3

(* What a getter of t returns, by record.                                  *)
Got(t, k) == IF k \in DOMAIN local[t] THEN local[t][k] ELSE Stored(t, k)

LEMMA GotIsDatum == \A t, k : Datum(t, Memory(t), k) = Got(t, k)
BY DEF Datum, Memory, Got

(* It is a cell for a balance, and one that refers to that balance.        *)
LEMMA GotType ==
    ASSUME TypeOK, Shape, NEW t \in Tasks, NEW k \in Keys
    PROVE  /\ Got(t, k) \in IF IsBalance(k) THEN DOMAIN heap ELSE Nat
           /\ Stored(t, k) \in IF IsBalance(k) THEN DOMAIN heap ELSE Nat
           /\ Got(t, k) \in Referring(k) /\ Got(t, k) # None
<1>1. PICK u \in Writers(t, k) \cup {Head} : Stored(t, k) = data[u][k] /\ data[u][k] # None
  BY StoredSpec
<1>2. u \in Tasks \cup {Head}
  BY DEF Writers
<1>3. data[u][k] \in IF IsBalance(k) THEN DOMAIN heap \cup {None} ELSE Nat \cup {None}
  BY <1>2 DEF TypeOK, Values
<1>4. Stored(t, k) \in IF IsBalance(k) THEN DOMAIN heap ELSE Nat
  BY <1>1, <1>3
<1>5. \A c \in DOMAIN heap : c # None
  BY DEF TypeOK, Cells, None
<1>6. CASE k \in DOMAIN local[t]
  <2>1. Got(t, k) = local[t][k]
    BY <1>6 DEF Got
  <2>2. local[t][k] \in IF IsBalance(k) THEN DOMAIN heap ELSE Nat
    BY <1>6 DEF TypeOK, Values
  <2>3. local[t][k] \in Referring(k)
    BY <1>6 DEF Referring
  <2>4. local[t][k] # None
    BY <1>5, <2>2 DEF None
  <2> QED
    BY <1>4, <2>1, <2>2, <2>3, <2>4
<1>7. CASE k \notin DOMAIN local[t]
  <2>1. Got(t, k) = data[u][k]
    BY <1>1, <1>7 DEF Got
  <2>2. data[u][k] \in Referring(k)
    BY <1>2 DEF Referring
  <2> QED
    BY <1>1, <1>4, <2>1, <2>2
<1> QED
  BY <1>6, <1>7

(***************************************************************************)
(* Changing a balance.                                                     *)
(***************************************************************************)

(* A memory that task t may have in the middle of a step: the cells of the *)
(* heap, and local writes of predicted records.                            *)
GoodMemory(t, m) ==
    /\ DOMAIN m.heap = DOMAIN heap
    /\ \A c \in DOMAIN heap : m.heap[c] \in 0 .. MaxBalance
    /\ DOMAIN m.local \subseteq Writes(t)
    /\ \A k \in Keys : Datum(t, m, k) = Got(t, k)

LEMMA MemoryIsGood ==
    ASSUME TypeOK, NEW t \in Tasks PROVE GoodMemory(t, Memory(t))
<1>1. Memory(t).heap = heap /\ Memory(t).local = local[t]
  BY DEF Memory
<1>2. DOMAIN local[t] \subseteq Writes(t)
  BY DEF TypeOK
<1>3. \A c \in DOMAIN heap : heap[c] \in 0 .. MaxBalance
  BY DEF TypeOK
<1> QED
  BY <1>1, <1>2, <1>3, GotIsDatum DEF GoodMemory

(* AddBalance and SubBalance leave every record in its cell and change one *)
(* cell, modulo 2^256; that of a balance that may be read.                 *)
LEMMA ChangeBalanceSpec ==
    ASSUME TypeOK, Shape, NEW t \in Tasks, NEW m, GoodMemory(t, m),
           NEW a \in Accounts, NEW x \in Int
    PROVE  LET n == ChangeBalance(t, m, a, x)
               c == Got(t, Balance(a))
           IN  /\ GoodMemory(t, n)
               /\ \A d \in DOMAIN heap :
                     n.heap[d] = IF d = c /\ Balance(a) \in Reads(t)
                                 THEN (m.heap[d] + x) % (MaxBalance + 1) ELSE m.heap[d]
               /\ DOMAIN n.local = DOMAIN m.local \cup (IF MayChange(t, a) THEN {Balance(a)}
                                                                           ELSE {})
<1> DEFINE n == ChangeBalance(t, m, a, x)
           k == Balance(a)
           c == Got(t, k)
           h == [m.heap EXCEPT ![c] = (@ + x) % (MaxBalance + 1)]
           L == IF k \in Writes(t) THEN Put(m.local, k, c) ELSE m.local
<1>1. k \in Keys /\ IsBalance(k)
  BY KeyFacts
<1>2. Datum(t, m, k) = c /\ c \in DOMAIN heap /\ DOMAIN m.heap = DOMAIN heap
  BY <1>1, GotType DEF GoodMemory
<1>3. CASE k \notin Reads(t)
  BY <1>3 DEF ChangeBalance, MayChange
<1>4. CASE k \in Reads(t)
  <2>1. n = [heap |-> h, local |-> L]
    BY <1>2, <1>4 DEF ChangeBalance
  <2>2. n.heap = h /\ n.local = L
    BY <2>1
  <2>3. \A d \in DOMAIN heap : h[d] = IF d = c THEN (m.heap[d] + x) % (MaxBalance + 1)
                                               ELSE m.heap[d]
    BY <1>2
  <2>4. DOMAIN h = DOMAIN heap
    BY <1>2
  <2>5. \A d \in DOMAIN heap : h[d] \in 0 .. MaxBalance
    <3>1. ASSUME NEW d \in DOMAIN heap PROVE (m.heap[d] + x) % (MaxBalance + 1) \in 0 .. MaxBalance
      <4>1. MaxBalance + 1 \in Nat /\ MaxBalance + 1 > 0 /\ (MaxBalance + 1) - 1 = MaxBalance
        BY AmountsAssumption
      <4>2. m.heap[d] + x \in Int
        BY AmountsAssumption DEF GoodMemory
      <4> QED
        BY <4>1, <4>2, ModRange
    <3> QED
      BY <2>3, <3>1 DEF GoodMemory
  <2>6. DOMAIN L = DOMAIN m.local \cup (IF k \in Writes(t) THEN {k} ELSE {})
    BY DEF Put
  <2>7. DOMAIN L \subseteq Writes(t)
    BY <2>6 DEF GoodMemory
  <2>8. ASSUME NEW j \in Keys PROVE Datum(t, n, j) = Got(t, j)
    <3>1. Datum(t, m, j) = Got(t, j)
      BY DEF GoodMemory
    <3>2. Datum(t, m, j) = IF j \in DOMAIN m.local THEN m.local[j] ELSE Stored(t, j)
      BY DEF Datum
    <3>3. Datum(t, n, j) = IF j \in DOMAIN L THEN L[j] ELSE Stored(t, j)
      BY <2>2 DEF Datum
    <3>4. j \in DOMAIN L => L[j] = IF j = k /\ k \in Writes(t) THEN c ELSE m.local[j]
      BY DEF Put
    <3> HIDE DEF L, n
    <3> QED
      BY <1>2, <2>6, <3>1, <3>2, <3>3, <3>4
  <2>9. MayChange(t, a) <=> k \in Writes(t)
    BY <1>4 DEF MayChange
  <2> HIDE DEF n, h, L, c, k
  <2>10. GoodMemory(t, n)
    BY <2>2, <2>4, <2>5, <2>7, <2>8 DEF GoodMemory
  <2>11. /\ \A d \in DOMAIN heap :
               n.heap[d] = IF d = c /\ k \in Reads(t)
                           THEN (m.heap[d] + x) % (MaxBalance + 1) ELSE m.heap[d]
         /\ DOMAIN n.local = DOMAIN m.local \cup (IF MayChange(t, a) THEN {k} ELSE {})
    BY <1>4, <2>2, <2>3, <2>6, <2>9
  <2> QED
    BY <2>10, <2>11 DEF n, k, c
<1> QED
  BY <1>3, <1>4

(***************************************************************************)
(* The steps, by what they do to whose memory.                             *)
(***************************************************************************)

TaskStep(s) ==
    \/ Start(s) \/ BuyGas(s) \/ EnterVM(s) \/ InVM(s) \/ LeaveVM(s)
    \/ Revert(s) \/ CommitLocalWrite(s) \/ TotallyAbort(s)
    \/ \E x \in 0 .. Gas - 1 : RefundGas(s, x)

(* A step of s is about s alone, and s goes on to some other stage; only   *)
(* its end touches the versions.                                           *)
LEMMA StepFacts ==
    ASSUME TypeOK, Shape, NEW s \in Tasks, TaskStep(s)
    PROVE  /\ load' = load
           /\ pc' \in [Tasks -> Stages] /\ pc[s] # "done" /\ pc'[s] # "waiting"
           /\ \A u \in Tasks : u # s => pc'[u] = pc[u]
           /\ (pc[s] = "waiting" => Start(s))
           /\ (pc'[s] = "done" => CommitLocalWrite(s) \/ TotallyAbort(s))
           /\ (CommitLocalWrite(s) \/ UNCHANGED data)
           /\ DOMAIN local' = Tasks /\ DOMAIN snapshot' = Tasks /\ DOMAIN entry' = Tasks
           /\ \A u \in Tasks : u # s => /\ local'[u] = local[u]
                                       /\ snapshot'[u] = snapshot[u]
                                       /\ entry'[u] = entry[u]
<1>0. /\ pc \in [Tasks -> Stages]
      /\ DOMAIN local = Tasks /\ DOMAIN snapshot = Tasks /\ DOMAIN entry = Tasks
  BY DEF TypeOK, Shape
<1>1. CASE Start(s)
  BY <1>0, <1>1 DEF Start, Stages, Active
<1>2. CASE BuyGas(s)
  BY <1>0, <1>2 DEF BuyGas, SetMemory, Stages, Active
<1>3. CASE EnterVM(s)
  BY <1>0, <1>3 DEF EnterVM, Stages, Active
<1>4. CASE LeaveVM(s)
  BY <1>0, <1>4 DEF LeaveVM, Stages, Active
<1>5. CASE Revert(s)
  BY <1>0, <1>5 DEF Revert, Stages, Active
<1>6. CASE CommitLocalWrite(s)
  BY <1>0, <1>6 DEF CommitLocalWrite, Stages, Active
<1>7. CASE TotallyAbort(s)
  BY <1>0, <1>7 DEF TotallyAbort, Stages, Active
<1>8. ASSUME NEW x \in 0 .. Gas - 1, RefundGas(s, x)
      PROVE  /\ load' = load
             /\ pc' \in [Tasks -> Stages] /\ pc[s] # "done" /\ pc[s] # "waiting"
             /\ pc'[s] # "waiting" /\ pc'[s] # "done"
             /\ \A u \in Tasks : u # s => pc'[u] = pc[u]
             /\ data' = data
             /\ DOMAIN local' = Tasks /\ snapshot' = snapshot /\ entry' = entry
             /\ \A u \in Tasks : u # s => local'[u] = local[u]
  BY <1>0, <1>8 DEF RefundGas, SetMemory, Stages, Active
<1>9. ASSUME NEW a \in Accounts, NEW b \in Accounts,
             Transfer(s, a, b, 1) \/ SetState(s, a) \/ Selfdestruct(s, a, b)
      PROVE  /\ load' = load
             /\ pc' \in [Tasks -> Stages] /\ pc[s] # "done" /\ pc[s] # "waiting"
             /\ pc'[s] # "waiting" /\ pc'[s] # "done"
             /\ \A u \in Tasks : u # s => pc'[u] = pc[u]
             /\ data' = data
             /\ DOMAIN local' = Tasks /\ snapshot' = snapshot /\ entry' = entry
             /\ \A u \in Tasks : u # s => local'[u] = local[u]
  <2>1. CASE Transfer(s, a, b, 1)
    BY <1>0, <2>1 DEF Transfer, SetMemory
  <2>2. CASE SetState(s, a)
    BY <1>0, <2>2 DEF SetState, Stages, Active
  <2>3. CASE Selfdestruct(s, a, b)
    BY <1>0, <2>3 DEF Selfdestruct, SetMemory, Stages, Active
  <2> QED
    BY <1>9, <2>1, <2>2, <2>3
<1> QED
  BY <1>0, <1>1, <1>2, <1>3, <1>4, <1>5, <1>6, <1>7, <1>8, <1>9 DEF TaskStep, InVM

(* What a step of s does to memory: the heap keeps its cells; only cells   *)
(* that s is given change; what s then holds is what it was given, or was  *)
(* in its snapshot, or is a cell that is new and of one balance.           *)
MemoryStep(s) ==
    /\ DOMAIN heap \subseteq DOMAIN heap' /\ DOMAIN heap' \subseteq Cells
    /\ DOMAIN heap' = 1 .. Cardinality(DOMAIN heap')
    /\ \A c \in DOMAIN heap' : heap'[c] \in 0 .. MaxBalance
    /\ \A c \in DOMAIN heap : heap'[c] # heap[c] =>
          \E k \in Reads(s) : IsBalance(k) /\ c = Got(s, k)
    /\ DOMAIN local'[s] \subseteq Writes(s)
    /\ \A k \in DOMAIN local'[s] : ~ IsBalance(k) => local'[s][k] \in Nat
    /\ \E b \in Accounts : \A k \in DOMAIN local'[s] : IsBalance(k) =>
          \/ local'[s][k] = Got(s, k)
          \/ k \in DOMAIN snapshot[s] /\ local'[s][k] = snapshot[s][k]
          \/ k = Balance(b) /\ local'[s][k] \in DOMAIN heap' \ DOMAIN heap

(* A step to a good memory.                                                *)
LEMMA GoodStep ==
    ASSUME TypeOK, Shape, NEW s \in Tasks, NEW n, GoodMemory(s, n), SetMemory(s, n),
           \A c \in DOMAIN heap : n.heap[c] # heap[c] =>
              \E k \in Reads(s) : IsBalance(k) /\ c = Got(s, k)
    PROVE  MemoryStep(s)
<1>1. heap' = n.heap /\ local'[s] = n.local
  BY DEF SetMemory, Shape
<1>2. /\ DOMAIN heap' = DOMAIN heap /\ DOMAIN heap \subseteq Cells
      /\ DOMAIN heap = 1 .. Cardinality(DOMAIN heap)
  BY <1>1 DEF GoodMemory, TypeOK, Shape
<1>3. \A c \in DOMAIN heap' : heap'[c] \in 0 .. MaxBalance
  BY <1>1, <1>2 DEF GoodMemory
<1>4. Writes(s) \subseteq Keys /\ load[s].from \in Accounts
  BY Footprints
<1>5. ASSUME NEW k \in DOMAIN local'[s]
      PROVE  local'[s][k] = Got(s, k) /\ k \in Writes(s) /\ (~ IsBalance(k) => local'[s][k] \in Nat)
  <2>1. k \in Writes(s) /\ k \in Keys
    BY <1>1, <1>4 DEF GoodMemory
  <2>2. n.local[k] = Datum(s, n, k)
    BY <1>1 DEF Datum
  <2>3. Datum(s, n, k) = Got(s, k)
    BY <2>1 DEF GoodMemory
  <2>4. ~ IsBalance(k) => Got(s, k) \in Nat
    BY <2>1, GotType
  <2> QED
    BY <1>1, <2>1, <2>2, <2>3, <2>4
<1> QED
  BY <1>1, <1>2, <1>3, <1>4, <1>5 DEF MemoryStep

(* A step that leaves the heap alone.                                      *)
LEMMA QuietStep ==
    ASSUME TypeOK, Shape, NEW s \in Tasks, heap' = heap,
           DOMAIN local'[s] \subseteq Writes(s),
           \A k \in DOMAIN local'[s] :
              IF IsBalance(k)
              THEN \/ local'[s][k] = Got(s, k)
                   \/ k \in DOMAIN snapshot[s] /\ local'[s][k] = snapshot[s][k]
              ELSE local'[s][k] \in Nat
    PROVE  MemoryStep(s)
<1>1. load[s].from \in Accounts
  BY Footprints
<1>2. /\ DOMAIN heap \subseteq Cells /\ DOMAIN heap = 1 .. Cardinality(DOMAIN heap)
      /\ \A c \in DOMAIN heap : heap[c] \in 0 .. MaxBalance
  BY DEF TypeOK, Shape
<1>3. \A k \in DOMAIN local'[s] : IsBalance(k) =>
          \/ local'[s][k] = Got(s, k)
          \/ k \in DOMAIN snapshot[s] /\ local'[s][k] = snapshot[s][k]
  OBVIOUS
<1>4. \E b \in Accounts : \A k \in DOMAIN local'[s] : IsBalance(k) =>
          \/ local'[s][k] = Got(s, k)
          \/ k \in DOMAIN snapshot[s] /\ local'[s][k] = snapshot[s][k]
          \/ k = Balance(b) /\ local'[s][k] \in DOMAIN heap' \ DOMAIN heap
  BY <1>1, <1>3
<1> QED
  BY <1>2, <1>4 DEF MemoryStep

(* The heap is finite.                                                     *)
LEMMA HeapSize == ASSUME TypeOK PROVE Cardinality(DOMAIN heap) \in Nat
<1>1. MaxCells \in Int /\ 1 \in Int
  BY SizesAssumption
<1>2. IsFiniteSet(Cells)
  BY <1>1, FS_Interval DEF Cells
<1>3. IsFiniteSet(DOMAIN heap)
  BY <1>2, FS_Subset DEF TypeOK
<1> QED
  BY <1>3, FS_CardinalityType

(* What SELFDESTRUCT leaves when everything was predicted: the memory n    *)
(* with the beneficiary changed, and a new, empty cell for the contract.   *)
Emptied(s, a, n, new) ==
    /\ new \notin DOMAIN heap /\ new \in Nat
    /\ GoodMemory(s, n)
    /\ DOMAIN heap' = DOMAIN heap \cup {new}
    /\ DOMAIN heap' = 1 .. new
    /\ heap'[new] = 0
    /\ \A d \in DOMAIN heap : heap'[d] = n.heap[d]
    /\ DOMAIN local'[s] = DOMAIN n.local \cup {Balance(a), Alive(a)}
    /\ local'[s][Balance(a)] = new
    /\ local'[s][Alive(a)] = 0
    /\ \A k \in DOMAIN n.local :
          k # Balance(a) /\ k # Alive(a) => local'[s][k] = n.local[k]

LEMMA SelfdestructSpec ==
    ASSUME TypeOK, Shape, NEW s \in Tasks, NEW a \in Accounts, NEW b \in Accounts,
           NEW x \in Int, x = heap[Got(s, Balance(a))],
           SetMemory(s, SelfdestructMemory(s, Memory(s), a, b))
    PROVE  Emptied(s, a, ChangeBalance(s, Memory(s), b, x), Cardinality(DOMAIN heap) + 1)
<1> DEFINE new == Cardinality(DOMAIN heap) + 1
           n == ChangeBalance(s, Memory(s), b, x)
           m == SelfdestructMemory(s, Memory(s), a, b)
<1>1. GoodMemory(s, n)
  BY MemoryIsGood, ChangeBalanceSpec
<1>2. DOMAIN n.heap = DOMAIN heap
  BY <1>1 DEF GoodMemory
<1>3. new \in Nat /\ new \notin DOMAIN heap /\ DOMAIN heap \cup {new} = 1 .. new
  <2>2. Cardinality(DOMAIN heap) \in Nat
    BY HeapSize
  <2> DEFINE i == Cardinality(DOMAIN heap)
  <2>3. DOMAIN heap = 1 .. i
    BY DEF Shape
  <2> HIDE DEF i
  <2>4. i \in Nat => i + 1 \notin 1 .. i /\ (1 .. i) \cup {i + 1} = 1 .. i + 1
    OBVIOUS
  <2> QED
    BY <2>2, <2>3, <2>4 DEF i
<1>4. Memory(s).heap[Datum(s, Memory(s), Balance(a))] = x
  BY GotIsDatum DEF Memory
<1>5. m = [heap |-> Put(n.heap, new, 0), local |-> Put(Put(n.local, Balance(a), new), Alive(a), 0)]
  BY <1>2, <1>4 DEF SelfdestructMemory
<1>6. heap' = m.heap /\ local'[s] = m.local
  BY DEF SetMemory, Shape
<1>7. heap' = Put(n.heap, new, 0) /\ local'[s] = Put(Put(n.local, Balance(a), new), Alive(a), 0)
  BY <1>5, <1>6
<1>8. Balance(a) # Alive(a)
  BY KeyFacts
<1> HIDE DEF new, n, m
<1>9. /\ DOMAIN heap' = DOMAIN heap \cup {new} /\ heap'[new] = 0
      /\ \A d \in DOMAIN heap : heap'[d] = n.heap[d]
  BY <1>2, <1>3, <1>7 DEF Put
<1>10. /\ DOMAIN local'[s] = DOMAIN n.local \cup {Balance(a), Alive(a)}
       /\ local'[s][Balance(a)] = new
       /\ local'[s][Alive(a)] = 0
       /\ \A k \in DOMAIN n.local :
             k # Balance(a) /\ k # Alive(a) => local'[s][k] = n.local[k]
  BY <1>7, <1>8 DEF Put
<1>11. DOMAIN heap' = 1 .. new
  BY <1>3, <1>9
<1>12. Emptied(s, a, n, new)
  BY <1>1, <1>3, <1>9, <1>10, <1>11 DEF Emptied
<1> QED
  BY <1>12 DEF new, n

(* Every step of a task is such a step.                                    *)
LEMMA StepMemory ==
    ASSUME TypeOK, Shape, NEW s \in Tasks, TaskStep(s) PROVE MemoryStep(s)
<1>0. /\ DOMAIN local = Tasks
      /\ Reads(s) \subseteq Keys /\ Writes(s) \subseteq Keys /\ load[s].from \in Accounts
      /\ DOMAIN local[s] \subseteq Writes(s) /\ DOMAIN snapshot[s] \subseteq Writes(s)
  BY Footprints DEF Shape, TypeOK
<1>a. \A k \in DOMAIN local[s] :
         IF IsBalance(k) THEN local[s][k] = Got(s, k) ELSE local[s][k] \in Nat
  BY DEF Got, TypeOK, Values
<1>b. \A k \in DOMAIN snapshot[s] : ~ IsBalance(k) => snapshot[s][k] \in Nat
  BY DEF TypeOK, Values
<1>c. ASSUME NEW a \in Accounts, NEW x \in Int, Balance(a) \in Reads(s),
             SetMemory(s, ChangeBalance(s, Memory(s), a, x))
      PROVE  MemoryStep(s)
  <2> DEFINE n == ChangeBalance(s, Memory(s), a, x)
  <2>1. /\ GoodMemory(s, n)
        /\ \A d \in DOMAIN heap :
              n.heap[d] = IF d = Got(s, Balance(a)) /\ Balance(a) \in Reads(s)
                          THEN (Memory(s).heap[d] + x) % (MaxBalance + 1) ELSE Memory(s).heap[d]
    BY MemoryIsGood, ChangeBalanceSpec
  <2>2. Memory(s).heap = heap /\ IsBalance(Balance(a))
    BY KeyFacts DEF Memory
  <2> HIDE DEF n
  <2>3. \A c \in DOMAIN heap : n.heap[c] # heap[c] =>
           \E k \in Reads(s) : IsBalance(k) /\ c = Got(s, k)
    BY <1>c, <2>1, <2>2
  <2>4. SetMemory(s, n)
    BY <1>c DEF n
  <2> QED
    BY <2>1, <2>3, <2>4, GoodStep
<1>d. ASSUME NEW a \in Accounts, NEW x \in Int, Balance(a) \notin Reads(s),
             SetMemory(s, ChangeBalance(s, Memory(s), a, x))
      PROVE  MemoryStep(s)
  <2>1. ChangeBalance(s, Memory(s), a, x) = Memory(s)
    BY <1>d DEF ChangeBalance
  <2>2. SetMemory(s, Memory(s)) /\ Memory(s).heap = heap
    BY <1>d, <2>1 DEF Memory
  <2> QED
    BY <2>2, MemoryIsGood, GoodStep
<1>1. CASE Start(s)
  BY <1>0, <1>1, <1>a, QuietStep DEF Start
<1>2. CASE BuyGas(s)
  <2>1. -Gas \in Int
    BY AmountsAssumption
  <2> QED
    BY <1>0, <1>2, <1>c, <2>1 DEF BuyGas
<1>3. CASE EnterVM(s)
  <2> DEFINE k == Nonce(load[s].from)
  <2>1. k \in Writes(s) /\ heap' = heap /\ local'[s] = Put(local[s], k, Value(s, k) + 1)
    BY <1>0, <1>3 DEF EnterVM
  <2>2. k \in Keys /\ ~ IsBalance(k)
    BY <1>0, KeyFacts
  <2>3. Value(s, k) \in Nat
    BY <2>2, GotType, GotIsDatum DEF Value, Deref
  <2> HIDE DEF k
  <2>4. DOMAIN local'[s] = DOMAIN local[s] \cup {k}
        /\ \A j \in DOMAIN local'[s] : local'[s][j] = IF j = k THEN Value(s, k) + 1 ELSE local[s][j]
    BY <2>1 DEF Put
  <2>5. ASSUME NEW j \in DOMAIN local'[s]
        PROVE  IF IsBalance(j) THEN local'[s][j] = Got(s, j) ELSE local'[s][j] \in Nat
    BY <1>a, <2>2, <2>3, <2>4
  <2> QED
    BY <1>0, <2>1, <2>4, <2>5, QuietStep
<1>4. CASE LeaveVM(s)
  BY <1>0, <1>4, <1>a, QuietStep DEF LeaveVM
<1>5. CASE Revert(s)
  <2>1. heap' = heap /\ local'[s] = snapshot[s]
    BY <1>0, <1>5 DEF Revert, Restored
  <2> QED
    BY <1>0, <1>b, <2>1, QuietStep
<1>6. CASE CommitLocalWrite(s) \/ TotallyAbort(s)
  <2>1. heap' = heap /\ local'[s] = Empty
    BY <1>0, <1>6 DEF CommitLocalWrite, TotallyAbort
  <2>2. DOMAIN local'[s] = {}
    BY <2>1 DEF Empty
  <2> QED
    BY <2>1, <2>2, QuietStep
<1>7. ASSUME NEW x \in 0 .. Gas - 1, RefundGas(s, x) PROVE MemoryStep(s)
  <2>1. x \in Int
    BY AmountsAssumption
  <2> QED
    BY <1>0, <1>7, <1>c, <1>d, <2>1 DEF RefundGas
<1>8. ASSUME NEW a \in Accounts, NEW b \in Accounts, Transfer(s, a, b, 1)
      PROVE  MemoryStep(s)
  <2> DEFINE m == ChangeBalance(s, Memory(s), a, -1)
             n == ChangeBalance(s, m, b, 1)
  <2>1. /\ GoodMemory(s, m)
        /\ \A d \in DOMAIN heap :
              m.heap[d] = IF d = Got(s, Balance(a)) /\ Balance(a) \in Reads(s)
                          THEN (Memory(s).heap[d] + (-1)) % (MaxBalance + 1) ELSE Memory(s).heap[d]
    BY MemoryIsGood, ChangeBalanceSpec
  <2>2. Memory(s).heap = heap /\ IsBalance(Balance(a)) /\ IsBalance(Balance(b))
    BY KeyFacts DEF Memory
  <2>3. SetMemory(s, n)
    BY <1>8 DEF Transfer
  <2> HIDE DEF m
  <2>4. /\ GoodMemory(s, n)
        /\ \A d \in DOMAIN heap :
              n.heap[d] = IF d = Got(s, Balance(b)) /\ Balance(b) \in Reads(s)
                          THEN (m.heap[d] + 1) % (MaxBalance + 1) ELSE m.heap[d]
    BY <2>1, ChangeBalanceSpec
  <2> HIDE DEF n
  <2>5. \A c \in DOMAIN heap : n.heap[c] # heap[c] =>
           \E k \in Reads(s) : IsBalance(k) /\ c = Got(s, k)
    BY <2>1, <2>2, <2>4
  <2> QED
    BY <2>3, <2>4, <2>5, GoodStep
<1>9. ASSUME NEW a \in Accounts, SetState(s, a) PROVE MemoryStep(s)
  <2> DEFINE k == Slot(a)
  <2>1. heap' = heap /\ (UNCHANGED local \/ (k \in Writes(s) /\ local'[s] = Put(local[s], k, s + 1)))
    BY <1>0, <1>9 DEF SetState
  <2>2. ~ IsBalance(k) /\ s + 1 \in Nat
    BY KeyFacts, TaskNumbers
  <2> HIDE DEF k
  <2>3. CASE UNCHANGED local
    BY <1>0, <1>a, <2>1, <2>3, QuietStep
  <2>4. CASE k \in Writes(s) /\ local'[s] = Put(local[s], k, s + 1)
    <3>1. DOMAIN local'[s] = DOMAIN local[s] \cup {k}
          /\ \A j \in DOMAIN local'[s] : local'[s][j] = IF j = k THEN s + 1 ELSE local[s][j]
      BY <2>4 DEF Put
    <3>2. ASSUME NEW j \in DOMAIN local'[s]
          PROVE  IF IsBalance(j) THEN local'[s][j] = Got(s, j) ELSE local'[s][j] \in Nat
      BY <1>a, <2>2, <3>1
    <3> QED
      BY <1>0, <2>1, <2>4, <3>1, <3>2, QuietStep
  <2> QED
    BY <2>1, <2>3, <2>4
<1>10. ASSUME NEW a \in Accounts, NEW b \in Accounts, Selfdestruct(s, a, b)
       PROVE  MemoryStep(s)
  <2> DEFINE x == Value(s, Balance(a))
             ok == MayChange(s, b) /\ {Balance(a), Alive(a)} \subseteq Writes(s)
  <2>1. /\ SetMemory(s, IF ok THEN SelfdestructMemory(s, Memory(s), a, b)
                              ELSE ChangeBalance(s, Memory(s), b, x))
        /\ Cardinality(DOMAIN heap) < MaxCells
    BY <1>10 DEF Selfdestruct
  <2>2. x = heap[Got(s, Balance(a))] /\ x \in Int
    <3>1. x = heap[Got(s, Balance(a))]
      BY GotIsDatum, KeyFacts DEF Value, Deref
    <3>2. Got(s, Balance(a)) \in DOMAIN heap
      BY GotType, KeyFacts
    <3> QED
      BY <3>1, <3>2, AmountsAssumption DEF TypeOK
  <2> HIDE DEF x
  <2>3. CASE ~ ok
    BY <1>c, <1>d, <2>1, <2>2, <2>3
  <2>4. CASE ok
    <3> DEFINE new == Cardinality(DOMAIN heap) + 1
               n == ChangeBalance(s, Memory(s), b, x)
    <3>0. SetMemory(s, SelfdestructMemory(s, Memory(s), a, b))
      BY <2>1, <2>4
    <3>e. Emptied(s, a, n, new)
      BY <2>2, <3>0, SelfdestructSpec
    <3> HIDE DEF n, new
    <3>1. /\ new \notin DOMAIN heap /\ new \in Nat
          /\ GoodMemory(s, n)
          /\ DOMAIN heap' = DOMAIN heap \cup {new}
          /\ DOMAIN heap' = 1 .. new
          /\ heap'[new] = 0
          /\ \A d \in DOMAIN heap : heap'[d] = n.heap[d]
          /\ DOMAIN local'[s] = DOMAIN n.local \cup {Balance(a), Alive(a)}
          /\ local'[s][Balance(a)] = new
          /\ local'[s][Alive(a)] = 0
          /\ \A k \in DOMAIN n.local :
                k # Balance(a) /\ k # Alive(a) => local'[s][k] = n.local[k]
      BY <3>e DEF Emptied
    <3> USE DEF n, new
    <3>2. \A d \in DOMAIN heap :
              n.heap[d] = IF d = Got(s, Balance(b)) /\ Balance(b) \in Reads(s)
                          THEN (Memory(s).heap[d] + x) % (MaxBalance + 1) ELSE Memory(s).heap[d]
      BY <2>2, MemoryIsGood, ChangeBalanceSpec
    <3>3. Memory(s).heap = heap /\ IsBalance(Balance(b)) /\ IsBalance(Balance(a))
          /\ ~ IsBalance(Alive(a)) /\ Balance(b) \in Reads(s)
          /\ Balance(a) \in Writes(s) /\ Alive(a) \in Writes(s)
      BY <2>4, KeyFacts DEF Memory, MayChange
    <3>n. \A k \in DOMAIN n.local : /\ k \in Writes(s) /\ n.local[k] = Got(s, k)
                                   /\ (~ IsBalance(k) => n.local[k] \in Nat)
      <4> HIDE DEF n
      <4>1. \A k \in DOMAIN n.local : k \in Writes(s) /\ k \in Keys /\ Datum(s, n, k) = Got(s, k)
        BY <1>0, <3>1 DEF GoodMemory
      <4>2. \A k \in DOMAIN n.local : Datum(s, n, k) = n.local[k]
        BY DEF Datum
      <4>3. \A k \in DOMAIN n.local : ~ IsBalance(k) => Got(s, k) \in Nat
        BY <4>1, GotType
      <4> QED
        BY <4>1, <4>2, <4>3
    <3>c. Cardinality(DOMAIN heap') = new /\ new <= MaxCells
      <4>1. Cardinality(DOMAIN heap) \in Int
        BY HeapSize
      <4> HIDE DEF new
      <4>2. Cardinality(1 .. new) = new
        BY <3>1, FS_Interval
      <4> QED
        BY <2>1, <3>1, <4>1, <4>2, SizesAssumption DEF new
    <3> HIDE DEF n, new
    <3>4. DOMAIN heap' = 1 .. Cardinality(DOMAIN heap') /\ DOMAIN heap' \subseteq Cells
      BY <3>1, <3>c, SizesAssumption DEF Cells
    <3>5. \A c \in DOMAIN heap' : heap'[c] \in 0 .. MaxBalance
      BY <3>1, AmountsAssumption DEF GoodMemory
    <3>6. \A c \in DOMAIN heap : heap'[c] # heap[c] =>
             \E k \in Reads(s) : IsBalance(k) /\ c = Got(s, k)
      BY <3>1, <3>2, <3>3
    <3>7. /\ DOMAIN local'[s] \subseteq Writes(s)
          /\ \A k \in DOMAIN local'[s] : ~ IsBalance(k) => local'[s][k] \in Nat
      BY <3>1, <3>3, <3>n
    <3>8. \A k \in DOMAIN local'[s] : IsBalance(k) =>
             \/ local'[s][k] = Got(s, k)
             \/ k = Balance(a) /\ local'[s][k] \in DOMAIN heap' \ DOMAIN heap
      BY <3>1, <3>3, <3>n
    <3>9. \E b2 \in Accounts : \A k \in DOMAIN local'[s] : IsBalance(k) =>
             \/ local'[s][k] = Got(s, k)
             \/ k \in DOMAIN snapshot[s] /\ local'[s][k] = snapshot[s][k]
             \/ k = Balance(b2) /\ local'[s][k] \in DOMAIN heap' \ DOMAIN heap
      BY <3>8
    <3> QED
      BY <3>1, <3>4, <3>5, <3>6, <3>7, <3>9 DEF MemoryStep
  <2> QED
    BY <2>3, <2>4
<1> QED
  BY <1>1, <1>2, <1>3, <1>4, <1>5, <1>6, <1>7, <1>8, <1>9, <1>10 DEF TaskStep, InVM

(* Versions change only when s commits, and only its own.                  *)
LEMMA StepData ==
    ASSUME TypeOK, Shape, NEW s \in Tasks, TaskStep(s)
    PROVE  /\ data' \in [Tasks \cup {Head} -> [Keys -> Int]]
           /\ \A u \in Tasks \cup {Head} : u # s => data'[u] = data[u]
           /\ \A k \in Keys :
                 \/ data'[s][k] = data[s][k]
                 \/ /\ CommitLocalWrite(s)
                    /\ data'[s][k] = IF k \in DOMAIN local[s] THEN local[s][k] ELSE None
<1>1. CASE UNCHANGED data
  BY <1>1 DEF Shape
<1>2. CASE CommitLocalWrite(s)
  <2> DEFINE f == [k \in Keys |-> IF k \in Writes(s) /\ k \in DOMAIN local[s]
                                  THEN local[s][k] ELSE None]
  <2>1. data' = [data EXCEPT ![s] = f] /\ data \in [Tasks \cup {Head} -> [Keys -> Int]]
    BY <1>2 DEF CommitLocalWrite, Shape
  <2>2. \A k \in Keys : f[k] = IF k \in DOMAIN local[s] THEN local[s][k] ELSE None
    BY DEF TypeOK
  <2>3. \A k \in DOMAIN local[s] : local[s][k] \in Int
    BY DEF TypeOK, Cells, Values
  <2>4. f \in [Keys -> Int]
    BY <2>2, <2>3 DEF None
  <2> HIDE DEF f
  <2> QED
    BY <1>2, <2>1, <2>2, <2>4
<1> QED
  BY <1>1, <1>2, StepFacts

(* The snapshot keeps what it holds, or takes it from the local writes.    *)
LEMMA StepSnapshot ==
    ASSUME TypeOK, Shape, NEW s \in Tasks, TaskStep(s)
    PROVE  /\ EnterVM(s) \/ snapshot'[s] = snapshot[s] \/ DOMAIN snapshot'[s] = {}
           /\ DOMAIN snapshot'[s] \subseteq Writes(s)
           /\ \A k \in DOMAIN snapshot'[s] :
                 \/ k \in DOMAIN local[s] /\ snapshot'[s][k] = local[s][k]
                 \/ k \in DOMAIN snapshot[s] /\ snapshot'[s][k] = snapshot[s][k]
<1>0. DOMAIN snapshot = Tasks /\ DOMAIN local[s] \subseteq Writes(s)
      /\ DOMAIN snapshot[s] \subseteq Writes(s)
  BY DEF Shape, TypeOK
<1>1. CASE EnterVM(s)
  BY <1>0, <1>1 DEF EnterVM
<1>2. CASE CommitLocalWrite(s) \/ TotallyAbort(s)
  <2>1. DOMAIN snapshot'[s] = {}
    BY <1>0, <1>2 DEF CommitLocalWrite, TotallyAbort, Empty
  <2> QED
    BY <2>1
<1>3. CASE UNCHANGED snapshot
  BY <1>0, <1>3
<1>4. CASE InVM(s)
  BY <1>3, <1>4 DEF InVM, Transfer, SetState, Selfdestruct
<1> QED
  BY <1>1, <1>2, <1>3, <1>4
  DEF TaskStep, Start, BuyGas, LeaveVM, Revert, RefundGas

(* The history of changes: nobody's but that of s.                         *)
LEMMA StepChange ==
    ASSUME TypeOK, Shape, NEW s \in Tasks, TaskStep(s)
    PROVE  /\ change' \in [Accounts -> [Tasks -> Int]]
           /\ \A a \in Accounts, u \in Tasks : u # s => change'[a][u] = change[a][u]
<1>0. change \in [Accounts -> [Tasks -> Int]] /\ load[s].from \in Accounts /\ Gas \in Int
  BY Footprints, AmountsAssumption DEF Shape
<1>x. \A a \in Accounts : Value(s, Balance(a)) \in Int
  <2>1. \A a \in Accounts : Got(s, Balance(a)) \in DOMAIN heap /\ IsBalance(Balance(a))
    BY KeyFacts, GotType
  <2> QED
    BY <2>1, GotIsDatum, AmountsAssumption DEF TypeOK, Value, Deref
<1>1. CASE BuyGas(s)
  BY <1>0, <1>1 DEF BuyGas
<1>2. ASSUME NEW x \in 0 .. Gas - 1, RefundGas(s, x)
      PROVE  /\ change' \in [Accounts -> [Tasks -> Int]]
             /\ \A a \in Accounts, u \in Tasks : u # s => change'[a][u] = change[a][u]
  <2>1. change' = [change EXCEPT ![load[s].from][s] = @ + x] /\ x \in Int
    BY <1>0, <1>2 DEF RefundGas
  <2> QED
    BY <1>0, <2>1
<1>3. ASSUME NEW a \in Accounts, NEW b \in Accounts, Transfer(s, a, b, 1)
      PROVE  /\ change' \in [Accounts -> [Tasks -> Int]]
             /\ \A c \in Accounts, u \in Tasks : u # s => change'[c][u] = change[c][u]
  <2>1. change' = [c \in Accounts |-> [change[c] EXCEPT ![s] =
                      @ + (IF c = b THEN 1 ELSE 0) - (IF c = a THEN 1 ELSE 0)]]
    BY <1>3 DEF Transfer
  <2>2. \A c \in Accounts : change[c] \in [Tasks -> Int]
    BY <1>0
  <2>3. \A c \in Accounts : /\ change'[c] \in [Tasks -> Int]
                            /\ \A u \in Tasks : u # s => change'[c][u] = change[c][u]
    BY <2>1, <2>2
  <2> QED
    BY <2>1, <2>3
<1>4. ASSUME NEW a \in Accounts, NEW b \in Accounts, Selfdestruct(s, a, b)
      PROVE  /\ change' \in [Accounts -> [Tasks -> Int]]
             /\ \A c \in Accounts, u \in Tasks : u # s => change'[c][u] = change[c][u]
  <2> DEFINE x == Value(s, Balance(a))
  <2>1. change' = [c \in Accounts |-> [change[c] EXCEPT ![s] =
                      IF c = a THEN @ - x ELSE IF c = b THEN @ + x ELSE @]]
    BY <1>4 DEF Selfdestruct
  <2>2. \A c \in Accounts : change[c] \in [Tasks -> Int]
    BY <1>0
  <2>x. x \in Int
    BY <1>x
  <2> HIDE DEF x
  <2>3. \A c \in Accounts : /\ change'[c] \in [Tasks -> Int]
                            /\ \A u \in Tasks : u # s => change'[c][u] = change[c][u]
    BY <2>1, <2>2, <2>x
  <2> QED
    BY <2>1, <2>3
<1>5. CASE UNCHANGED change
  BY <1>0, <1>5
<1>6. CASE InVM(s)
  BY <1>3, <1>4, <1>5, <1>6 DEF InVM, SetState
<1> QED
  BY <1>1, <1>2, <1>5, <1>6
  DEF TaskStep, Start, EnterVM, LeaveVM, Revert, CommitLocalWrite, TotallyAbort

(* Types and shape are kept.                                               *)
LEMMA TypeStep ==
    ASSUME TypeOK, Shape, NEW s \in Tasks, TaskStep(s) PROVE TypeOK'
<1>1. load' \in Loads /\ pc' \in [Tasks -> Stages]
  BY StepFacts DEF TypeOK
<1>2. /\ DOMAIN heap' \subseteq Cells /\ DOMAIN heap \subseteq DOMAIN heap'
      /\ \A c \in DOMAIN heap' : heap'[c] \in 0 .. MaxBalance
  BY StepMemory DEF MemoryStep
<1>3. \A u \in Tasks : Writes(u)' = Writes(u)
  BY StepFacts DEF Writes
<1>4. Writes(s) \subseteq Keys
  BY Footprints
<1>5. \A k \in DOMAIN local[s] : local[s][k] \in IF IsBalance(k) THEN DOMAIN heap ELSE Values
  BY DEF TypeOK
<1>6. \A k \in DOMAIN snapshot[s] : snapshot[s][k] \in IF IsBalance(k) THEN DOMAIN heap ELSE Values
  BY DEF TypeOK
<1>7. ASSUME NEW u \in Tasks \cup {Head}, NEW k \in Keys
      PROVE  data'[u][k] \in IF IsBalance(k) THEN DOMAIN heap' \cup {None} ELSE Values \cup {None}
  <2>1. data[u][k] \in IF IsBalance(k) THEN DOMAIN heap \cup {None} ELSE Values \cup {None}
    BY DEF TypeOK
  <2>2. \/ data'[u][k] = data[u][k]
        \/ k \in DOMAIN local[s] /\ data'[u][k] = local[s][k]
        \/ data'[u][k] = None
    BY StepData
  <2> QED
    BY <1>2, <1>5, <2>1, <2>2
<1>8. /\ DOMAIN local'[s] \subseteq Writes(s)
      /\ \A k \in DOMAIN local'[s] : local'[s][k] \in IF IsBalance(k) THEN DOMAIN heap' ELSE Values
  <2>1. ASSUME NEW k \in DOMAIN local'[s], IsBalance(k) PROVE local'[s][k] \in DOMAIN heap'
    <3>1. k \in Keys
      BY <1>4, StepMemory DEF MemoryStep
    <3>2. Got(s, k) \in DOMAIN heap
      BY <2>1, <3>1, GotType
    <3>3. \/ local'[s][k] = Got(s, k)
          \/ k \in DOMAIN snapshot[s] /\ local'[s][k] = snapshot[s][k]
          \/ local'[s][k] \in DOMAIN heap'
      BY <2>1, StepMemory DEF MemoryStep
    <3> QED
      BY <1>2, <1>6, <2>1, <3>2, <3>3
  <2> QED
    BY <2>1, StepMemory DEF MemoryStep, Values
<1>9. /\ DOMAIN snapshot'[s] \subseteq Writes(s)
      /\ \A k \in DOMAIN snapshot'[s] : snapshot'[s][k] \in IF IsBalance(k) THEN DOMAIN heap' ELSE Values
  BY <1>2, <1>5, <1>6, StepSnapshot
<1>10. ASSUME NEW u \in Tasks
       PROVE \A f \in {local'[u], snapshot'[u]} :
                /\ DOMAIN f \subseteq Writes(u)
                /\ \A k \in DOMAIN f : f[k] \in IF IsBalance(k) THEN DOMAIN heap' ELSE Values
  <2>1. CASE u = s
    BY <1>8, <1>9, <2>1
  <2>2. CASE u # s
    <3>1. local'[u] = local[u] /\ snapshot'[u] = snapshot[u]
      BY <2>2, StepFacts
    <3>2. \A f \in {local[u], snapshot[u]} :
             /\ DOMAIN f \subseteq Writes(u)
             /\ \A k \in DOMAIN f : f[k] \in IF IsBalance(k) THEN DOMAIN heap ELSE Values
      BY DEF TypeOK
    <3> QED
      BY <1>2, <3>1, <3>2
  <2> QED
    BY <2>1, <2>2
<1> QED
  BY <1>1, <1>2, <1>3, <1>7, <1>10 DEF TypeOK

LEMMA ShapeStep ==
    ASSUME TypeOK, Shape, NEW s \in Tasks, TaskStep(s) PROVE Shape'
<1>1. DOMAIN heap' = 1 .. Cardinality(DOMAIN heap')
  BY StepMemory DEF MemoryStep
<1>2. data' \in [Tasks \cup {Head} -> [Keys -> Int]] /\ data'[Head] = data[Head]
  BY StepData, TaskNumbers
<1>3. DOMAIN local' = Tasks /\ DOMAIN snapshot' = Tasks /\ DOMAIN entry' = Tasks
  BY StepFacts
<1>4. change' \in [Accounts -> [Tasks -> Int]]
  BY StepChange
<1> QED
  BY <1>1, <1>2, <1>3, <1>4 DEF Shape

(* What refers to a balance after a step did so before, or is a new cell   *)
(* of the one account that got one.                                        *)
LEMMA ReferringStep ==
    ASSUME TypeOK, Shape, NEW s \in Tasks, TaskStep(s)
    PROVE  \E b \in Accounts : \A k \in Keys : IsBalance(k) =>
              Referring(k)' \subseteq Referring(k) \cup {None} \cup
                                      (IF k = Balance(b) THEN DOMAIN heap' \ DOMAIN heap ELSE {})
<1>1. PICK b \in Accounts : \A k \in DOMAIN local'[s] : IsBalance(k) =>
          \/ local'[s][k] = Got(s, k)
          \/ k \in DOMAIN snapshot[s] /\ local'[s][k] = snapshot[s][k]
          \/ k = Balance(b) /\ local'[s][k] \in DOMAIN heap' \ DOMAIN heap
  BY StepMemory DEF MemoryStep
<1>2. ASSUME NEW k \in Keys, IsBalance(k), NEW c \in Referring(k)'
      PROVE  \/ c \in Referring(k) \/ c = None
             \/ k = Balance(b) /\ c \in DOMAIN heap' \ DOMAIN heap
  <2>d. \A u \in Tasks \cup {Head} : data[u][k] \in Referring(k)
    BY DEF Referring
  <2>l. \A u \in Tasks : k \in DOMAIN local[u] => local[u][k] \in Referring(k)
    BY DEF Referring
  <2>s. \A u \in Tasks : k \in DOMAIN snapshot[u] => snapshot[u][k] \in Referring(k)
    BY DEF Referring
  <2>0. \/ \E u \in Tasks \cup {Head} : c = data'[u][k]
        \/ \E u \in Tasks : k \in DOMAIN local'[u] /\ c = local'[u][k]
        \/ \E u \in Tasks : k \in DOMAIN snapshot'[u] /\ c = snapshot'[u][k]
    BY DEF Referring
  <2>1. ASSUME NEW u \in Tasks \cup {Head}, c = data'[u][k]
        PROVE  c \in Referring(k) \/ c = None
    BY <2>1, <2>d, <2>l, StepData
  <2>2. ASSUME NEW u \in Tasks, k \in DOMAIN local'[u], c = local'[u][k]
        PROVE  \/ c \in Referring(k)
               \/ k = Balance(b) /\ c \in DOMAIN heap' \ DOMAIN heap
    <3>1. CASE u # s
      BY <2>2, <2>l, <3>1, StepFacts
    <3>2. CASE u = s
      <4>1. Got(s, k) \in Referring(k)
        BY GotType
      <4> QED
        BY <1>1, <1>2, <2>2, <2>s, <3>2, <4>1
    <3> QED
      BY <3>1, <3>2
  <2>3. ASSUME NEW u \in Tasks, k \in DOMAIN snapshot'[u], c = snapshot'[u][k]
        PROVE  c \in Referring(k)
    <3>1. CASE u # s
      BY <2>3, <2>s, <3>1, StepFacts
    <3>2. CASE u = s
      BY <2>3, <2>l, <2>s, <3>2, StepSnapshot
    <3> QED
      BY <3>1, <3>2
  <2> QED
    BY <2>0, <2>1, <2>2, <2>3
<1> QED
  BY <1>2

(* So no two accounts come to share a cell.                                *)
LEMMA AccountsApartStep ==
    ASSUME TypeOK, Shape, AccountsApart, NEW s \in Tasks, TaskStep(s) PROVE AccountsApart'
<1>1. PICK e \in Accounts : \A k \in Keys : IsBalance(k) =>
          Referring(k)' \subseteq Referring(k) \cup {None} \cup
                                  (IF k = Balance(e) THEN DOMAIN heap' \ DOMAIN heap ELSE {})
  BY ReferringStep
<1>2. ASSUME NEW k \in Keys, IsBalance(k) PROVE Referring(k) \subseteq DOMAIN heap \cup {None}
  <2>1. \A u \in Tasks \cup {Head} : data[u][k] \in DOMAIN heap \cup {None}
    BY <1>2 DEF TypeOK
  <2>2. \A u \in Tasks : /\ k \in DOMAIN local[u] => local[u][k] \in DOMAIN heap
                         /\ k \in DOMAIN snapshot[u] => snapshot[u][k] \in DOMAIN heap
    BY <1>2 DEF TypeOK
  <2> QED
    BY <2>1, <2>2 DEF Referring
<1>3. ASSUME NEW a \in Accounts, NEW b \in Accounts, a # b,
             NEW c \in Referring(Balance(a))' \cap Referring(Balance(b))'
      PROVE  c = None
  <2>1. /\ Balance(a) \in Keys /\ Balance(b) \in Keys /\ Balance(a) # Balance(b)
        /\ IsBalance(Balance(a)) /\ IsBalance(Balance(b))
    BY <1>3, KeyFacts
  <2>2. Referring(Balance(a)) \cap Referring(Balance(b)) \subseteq {None}
    BY <1>3 DEF AccountsApart
  <2>3. /\ Referring(Balance(a)) \subseteq DOMAIN heap \cup {None}
        /\ Referring(Balance(b)) \subseteq DOMAIN heap \cup {None}
    BY <1>2, <2>1
  <2>4. /\ c \in Referring(Balance(a)) \cup {None} \cup
                 (IF Balance(a) = Balance(e) THEN DOMAIN heap' \ DOMAIN heap ELSE {})
        /\ c \in Referring(Balance(b)) \cup {None} \cup
                 (IF Balance(b) = Balance(e) THEN DOMAIN heap' \ DOMAIN heap ELSE {})
    BY <1>1, <1>3, <2>1
  <2> QED
    BY <2>1, <2>2, <2>3, <2>4
<1>4. \A a, b \in Accounts :
         a # b => Referring(Balance(a))' \cap Referring(Balance(b))' \subseteq {None}
  BY <1>3
<1> QED
  BY <1>4 DEF AccountsApart, Balance

(* The footprints are fixed.                                               *)
LEMMA FixedLoad ==
    ASSUME load' = load
    PROVE  /\ \A t \in Tasks : Reads(t)' = Reads(t) /\ Writes(t)' = Writes(t)
           /\ \A t, k : Writers(t, k)' = Writers(t, k)
           /\ \A k : WritersRead(k)' <=> WritersRead(k)
           /\ \A t \in Tasks : \A a : MayChange(t, a)' <=> MayChange(t, a)
           /\ ReadersWrite' <=> ReadersWrite
<1>1. \A t \in Tasks : Reads(t)' = Reads(t) /\ Writes(t)' = Writes(t)
  BY DEF Reads, Writes
<1>2. \A t, k : Writers(t, k)' = Writers(t, k)
  BY <1>1 DEF Writers
<1>3. \A k : WritersRead(k)' <=> WritersRead(k)
  BY <1>1 DEF WritersRead
<1>4. \A t \in Tasks : \A a : MayChange(t, a)' <=> MayChange(t, a)
  BY <1>1 DEF MayChange, Balance
<1>5. ReadersWrite' <=> ReadersWrite
  BY <1>1 DEF ReadersWrite, IsBalance
<1> QED
  BY <1>1, <1>2, <1>3, <1>4, <1>5

(* A task that starts has waited for the last earlier writer, and that one *)
(* read the record and so had all others behind it.                        *)
LEMMA SettledStep ==
    ASSUME TypeOK, Shape, Settled, NEW s \in Tasks, TaskStep(s) PROVE Settled'
<1>0. /\ load' = load /\ \A u \in Tasks : pc[u] = "done" => pc'[u] = "done"
      /\ \A u \in Tasks : u # s => pc'[u] = pc[u]
      /\ (pc[s] = "waiting" => Start(s))
  BY StepFacts
<1>1. ASSUME NEW k \in Keys, WritersRead(k), NEW t \in Tasks, k \in Reads(t),
             pc'[t] # "waiting", NEW u \in Writers(t, k)
      PROVE  pc'[u] = "done"
  <2>1. u \in Tasks /\ u < t /\ k \in Writes(u)
    BY DEF Writers
  <2>2. CASE pc[t] # "waiting"
    BY <1>0, <1>1, <2>1, <2>2 DEF Settled
  <2>3. CASE pc[t] = "waiting"
    <3> DEFINE w == Max(Writers(t, k))
    <3>1. t = s /\ Start(t)
      BY <1>0, <1>1, <2>3
    <3>2. w \in Writers(t, k) /\ u <= w
      <4>1. Writers(t, k) \in SUBSET (Tasks \cup {Head}) /\ Writers(t, k) # {}
        BY DEF Writers
      <4> QED
        BY <4>1, LastTask
    <3>3. pc[w] = "done"
      BY <1>1, <3>1, <3>2 DEF Start
    <3> HIDE DEF w
    <3>4. w \in Tasks /\ k \in Writes(w)
      BY <3>2 DEF Writers
    <3>5. CASE u = w
      BY <1>0, <2>1, <3>3, <3>5
    <3>6. CASE u < w
      <4>1. u \in Writers(w, k)
        BY <2>1, <3>6 DEF Writers
      <4>2. k \in Reads(w)
        BY <1>1, <3>4 DEF WritersRead
      <4>3. pc[u] = "done"
        BY <1>1, <3>3, <3>4, <4>1, <4>2 DEF Settled
      <4> QED
        BY <1>0, <2>1, <4>3
    <3>7. u \in Int /\ w \in Int
      BY <2>1, <3>4, TaskNumbers
    <3> QED
      BY <3>2, <3>5, <3>6, <3>7
  <2> QED
    BY <2>2, <2>3
<1>2. \A k \in Keys : WritersRead(k)' => \A t \in Tasks :
         k \in Reads(t)' /\ pc'[t] # "waiting" => \A u \in Writers(t, k)' : pc'[u] = "done"
  BY <1>0, <1>1, FixedLoad
<1> QED
  BY <1>2 DEF Settled

(* The stages.                                                             *)
LEMMA ProgressStep ==
    ASSUME TypeOK, Shape, Progress, NEW s \in Tasks, TaskStep(s) PROVE Progress'
<1>0. /\ load' = load /\ pc'[s] # "waiting"
      /\ \A u \in Tasks : u # s => /\ pc'[u] = pc[u] /\ snapshot'[u] = snapshot[u]
                                   /\ local'[u] = local[u]
      /\ pc \in [Tasks -> Stages]
  BY StepFacts DEF TypeOK
<1>s. /\ pc'[s] \in {"waiting", "buying"} => DOMAIN local'[s] = {}
      /\ pc'[s] \in {"waiting", "buying", "bought"} => DOMAIN snapshot'[s] = {}
      /\ pc'[s] \in {"bought", "vm", "left", "refunded"} => MayChange(s, load[s].from)
  <2>1. CASE Start(s)
    BY <1>0, <2>1 DEF Start, Progress
  <2>2. CASE BuyGas(s)
    BY <1>0, <2>2 DEF BuyGas, Progress
  <2>3. CASE EnterVM(s)
    BY <1>0, <2>3 DEF EnterVM, Progress
  <2>4. CASE LeaveVM(s) \/ Revert(s)
    BY <1>0, <2>4 DEF LeaveVM, Revert, Progress
  <2>5. CASE CommitLocalWrite(s) \/ TotallyAbort(s)
    BY <1>0, <2>5 DEF CommitLocalWrite, TotallyAbort
  <2>6. ASSUME NEW x \in 0 .. Gas - 1, RefundGas(s, x)
        PROVE  pc'[s] = "refunded" /\ MayChange(s, load[s].from)
    BY <1>0, <2>6 DEF RefundGas, Progress
  <2>7. ASSUME NEW a \in Accounts, NEW b \in Accounts,
               Transfer(s, a, b, 1) \/ SetState(s, a) \/ Selfdestruct(s, a, b)
        PROVE  pc[s] = "vm" /\ pc'[s] \in {"vm", "aborting"}
    BY <1>0, <2>7 DEF Transfer, SetState, Selfdestruct
  <2>8. CASE InVM(s)
    <3>1. pc[s] = "vm" /\ pc'[s] \in {"vm", "aborting"}
      BY <2>7, <2>8 DEF InVM
    <3> QED
      BY <3>1 DEF Progress
  <2> QED
    BY <2>1, <2>2, <2>3, <2>4, <2>5, <2>6, <2>8 DEF TaskStep
<1>1. \A t \in Tasks : pc'[t] \in {"waiting", "buying", "bought"} => DOMAIN snapshot'[t] = {}
  BY <1>0, <1>s DEF Progress
<1>2. \A t \in Tasks : pc'[t] \in {"bought", "vm", "left", "refunded"} =>
         MayChange(t, load[t].from)'
  <2>1. \A t \in Tasks : pc'[t] \in {"bought", "vm", "left", "refunded"} =>
           MayChange(t, load[t].from)
    BY <1>0, <1>s DEF Progress
  <2> QED
    BY <1>0, <2>1 DEF MayChange, Balance, Reads, Writes
<1>3. \A t \in Tasks, a \in Accounts : pc'[t] = "waiting" => change'[a][t] = 0
  BY <1>0, StepChange DEF Progress
<1>4. \A t \in Tasks : pc'[t] \in {"waiting", "buying"} => DOMAIN local'[t] = {}
  BY <1>0, <1>s DEF Progress
<1> QED
  BY <1>1, <1>2, <1>3, <1>4 DEF Progress

(* Only the commit of an earlier writer changes what is stored for t.      *)
LEMMA StoredStep ==
    ASSUME TypeOK, Shape, NEW s \in Tasks, TaskStep(s), NEW t \in Tasks, NEW k \in Keys,
           s \notin Writers(t, k) \/ UNCHANGED data
    PROVE  Stored(t, k)' = Stored(t, k)
<1>1. \A u \in Writers(t, k) \cup {Head} : data'[u] = data[u]
  BY StepData, TaskNumbers DEF Writers
<1>2. Writers(t, k)' = Writers(t, k)
  BY StepFacts, FixedLoad
<1>3. {u \in Writers(t, k) : data'[u][k] # None} \cup {Head}
          = {u \in Writers(t, k) : data[u][k] # None} \cup {Head}
  BY <1>1
<1> DEFINE w == Max({u \in Writers(t, k) : data[u][k] # None} \cup {Head})
<1>4. w \in Writers(t, k) \cup {Head}
  <2> DEFINE S == {u \in Writers(t, k) : data[u][k] # None} \cup {Head}
  <2>1. S \in SUBSET (Tasks \cup {Head}) /\ S # {} /\ S \subseteq Writers(t, k) \cup {Head}
    BY DEF Writers
  <2>2. w = Max(S)
    OBVIOUS
  <2> HIDE DEF S, w
  <2> QED
    BY <2>1, <2>2, LastTask
<1>5. Stored(t, k)' = data'[w][k] /\ Stored(t, k) = data[w][k]
  BY <1>2, <1>3 DEF Stored
<1> HIDE DEF w
<1> QED
  BY <1>1, <1>4, <1>5

(* What the getters returned at the entry of the VM is kept.               *)
LEMMA EnteredStep ==
    ASSUME TypeOK, Shape, Settled, Progress, Entered, NEW s \in Tasks, TaskStep(s)
    PROVE  Entered'
<1>0. /\ load' = load /\ pc[s] # "done"
      /\ \A u \in Tasks : u # s => /\ pc'[u] = pc[u] /\ snapshot'[u] = snapshot[u]
                                   /\ entry'[u] = entry[u]
      /\ pc \in [Tasks -> Stages] /\ DOMAIN entry = Tasks /\ DOMAIN snapshot = Tasks
  BY StepFacts DEF TypeOK, Shape
<1>1. ASSUME NEW t \in Tasks, pc'[t] = "vm", NEW k \in Reads(t), ~ IsBalance(k), WritersRead(k)
      PROVE  entry'[t][k] = IF k \in DOMAIN snapshot'[t] THEN snapshot'[t][k] ELSE Stored(t, k)'
  <2>1. k \in Keys
    BY Footprints
  <2>2. CASE t # s
    <3>1. pc[t] = "vm"
      BY <1>0, <1>1, <2>2
    <3>2. s \notin Writers(t, k)
      BY <1>0, <1>1, <2>1, <3>1 DEF Settled
    <3>3. Stored(t, k)' = Stored(t, k)
      BY <2>1, <3>2, StoredStep
    <3> QED
      BY <1>0, <1>1, <2>2, <3>1, <3>3 DEF Entered
  <2>3. CASE t = s
    <3>1. s \notin Writers(t, k)
      BY <2>3, TaskNumbers DEF Writers
    <3>2. Stored(t, k)' = Stored(t, k)
      BY <2>1, <3>1, StoredStep
    <3>3. CASE EnterVM(s)
      <4>1. DOMAIN snapshot[s] = {}
        BY <3>3 DEF EnterVM, Progress
      <4>2. snapshot'[s] = [x \in DOMAIN local[s] \cup DOMAIN snapshot[s] |->
                 IF x \in DOMAIN local[s] THEN local[s][x] ELSE snapshot[s][x]]
        BY <1>0, <3>3 DEF EnterVM
      <4>3. entry'[s] = [x \in Reads(s) |-> Value(s, x)]
        BY <1>0, <3>3 DEF EnterVM
      <4>4. entry'[s][k] = Value(s, k)
        BY <1>1, <2>3, <4>3
      <4>5. Value(s, k) = Got(s, k)
        BY <1>1, GotIsDatum DEF Value, Deref
      <4>6. DOMAIN snapshot'[s] = DOMAIN local[s]
            /\ \A x \in DOMAIN local[s] : snapshot'[s][x] = local[s][x]
        BY <4>1, <4>2
      <4> QED
        BY <2>3, <3>2, <4>4, <4>5, <4>6 DEF Got
    <3>4. CASE pc[s] = "vm" /\ UNCHANGED <<snapshot, entry>>
      BY <1>1, <2>3, <3>2, <3>4 DEF Entered
    <3>5. EnterVM(s) \/ (pc[s] = "vm" /\ UNCHANGED <<snapshot, entry>>)
      <4>1. CASE Start(s) \/ BuyGas(s) \/ LeaveVM(s) \/ Revert(s)
                 \/ CommitLocalWrite(s) \/ TotallyAbort(s)
        BY <1>0, <1>1, <2>3, <4>1
        DEF Start, BuyGas, LeaveVM, Revert, CommitLocalWrite, TotallyAbort
      <4>2. ASSUME NEW x \in 0 .. Gas - 1, RefundGas(s, x) PROVE FALSE
        BY <1>0, <1>1, <2>3, <4>2 DEF RefundGas
      <4>3. CASE InVM(s)
        BY <4>3 DEF InVM, Transfer, SetState, Selfdestruct
      <4> QED
        BY <4>1, <4>2, <4>3 DEF TaskStep
    <3> QED
      BY <3>3, <3>4, <3>5
  <2> QED
    BY <2>2, <2>3
<1>2. \A t \in Tasks : pc'[t] = "vm" =>
         \A k \in Reads(t)' : ~ IsBalance(k) /\ WritersRead(k)' =>
            entry'[t][k] = IF k \in DOMAIN snapshot'[t] THEN snapshot'[t][k] ELSE Stored(t, k)'
  BY <1>0, <1>1, FixedLoad
<1> QED
  BY <1>2 DEF Entered, IsBalance

(***************************************************************************)
(* Sums of changes.                                                        *)
(***************************************************************************)

LEMMA TotalIsSum == \A c, t : Total(c, t) = SumOver(c, 0 .. t)
BY DEF Total, SumOver

(* The tasks up to t.                                                      *)
LEMMA TasksUpTo ==
    ASSUME NEW t \in Tasks \cup {Head}
    PROVE  0 .. t \in SUBSET Tasks /\ IsFiniteSet(Tasks) /\ \A u \in Tasks : u \in 0 .. t <=> u <= t
<1>1. 0 \in Int /\ NTasks - 1 \in Int
  BY SizesAssumption
<1>2. IsFiniteSet(0 .. NTasks - 1)
  BY <1>1, FS_Interval
<1> QED
  BY <1>2, SizesAssumption DEF Tasks, Head

(* If only the change by u is another, the totals from u on differ by that. *)
LEMMA TotalStep ==
    ASSUME NEW c \in [Tasks -> Int], NEW d \in [Tasks -> Int], NEW t \in Tasks, NEW u \in Tasks,
           \A v \in Tasks : v # u => d[v] = c[v]
    PROVE  /\ Total(c, t) \in Int
           /\ Total(d, t) = IF u <= t THEN Total(c, t) + (d[u] - c[u]) ELSE Total(c, t)
<1> DEFINE T == 0 .. t
           R == T \ {u}
<1>1. T \in SUBSET Tasks /\ R \in SUBSET Tasks /\ IsFiniteSet(Tasks) /\ (u \in T <=> u <= t)
      /\ u \notin R /\ (u \in T => T = R \cup {u}) /\ (u \notin T => T = R)
  BY TasksUpTo
<1> HIDE DEF T, R
<1>2. \A x \in Tasks : (IF x \in R THEN c[x] ELSE 0) = (IF x \in R THEN d[x] ELSE 0)
  BY <1>1
<1>3. SumOver(c, R) = SumOver(d, R)
  BY <1>1, <1>2, SumAgree
<1>4. /\ \A V \in SUBSET Tasks : SumOver(c, V) \in Int
      /\ \A V \in SUBSET Tasks : \A x \in Tasks \ V : SumOver(c, V \cup {x}) = SumOver(c, V) + c[x]
  BY <1>1, SumRules
<1>5. /\ \A V \in SUBSET Tasks : SumOver(d, V) \in Int
      /\ \A V \in SUBSET Tasks : \A x \in Tasks \ V : SumOver(d, V \cup {x}) = SumOver(d, V) + d[x]
  BY <1>1, SumRules
<1>6. Total(c, t) = SumOver(c, T) /\ Total(d, t) = SumOver(d, T)
  BY TotalIsSum DEF T
<1>7. SumOver(c, R) \in Int /\ SumOver(c, T) \in Int
  BY <1>1, <1>4
<1>8. CASE u \in T
  <2>1. SumOver(c, T) = SumOver(c, R) + c[u] /\ SumOver(d, T) = SumOver(d, R) + d[u]
    BY <1>1, <1>4, <1>5, <1>8
  <2> QED
    BY <1>1, <1>3, <1>6, <1>7, <1>8, <2>1
<1>9. CASE u \notin T
  BY <1>1, <1>3, <1>6, <1>7, <1>9
<1> QED
  BY <1>8, <1>9

(* Tasks that changed nothing may be left out at the end.                  *)
LEMMA TotalSkip ==
    ASSUME NEW c \in [Tasks -> Int], NEW w \in Tasks \cup {Head}, NEW t \in Tasks, w <= t,
           \A u \in Tasks : w < u /\ u <= t => c[u] = 0
    PROVE  Total(c, t) = Total(c, w)
<1> DEFINE T == 0 .. t
           W == 0 .. w
<1>1. /\ T \in SUBSET Tasks /\ W \in SUBSET Tasks /\ IsFiniteSet(Tasks)
      /\ \A u \in Tasks : (u \in T <=> u <= t) /\ (u \in W <=> u <= w)
  BY TasksUpTo
<1> HIDE DEF T, W
<1>2. \A u \in Tasks : (IF u \in T THEN c[u] ELSE 0) = (IF u \in W THEN c[u] ELSE 0)
  BY <1>1, TaskNumbers
<1>3. SumOver(c, T) = SumOver(c, W)
  BY <1>1, <1>2, SumAgree
<1> QED
  BY <1>3, TotalIsSum DEF T, W

(***************************************************************************)
(* The ledger.                                                             *)
(***************************************************************************)

(* The value of a balance is that of its cell, before and after a step.    *)
LEMMA ValueOfBalance ==
    ASSUME NEW t, NEW k, IsBalance(k)
    PROVE  Value(t, k) = heap[Got(t, k)] /\ Value(t, k)' = heap'[Got(t, k)']
<1>1. Value(t, k) = heap[Got(t, k)]
  BY GotIsDatum DEF Value, Deref
<1>2. Value(t, k)' = heap'[Got(t, k)']
  BY DEF Value, Deref, Datum, Memory, Got, IsBalance
<1> QED
  BY <1>1, <1>2

(* Two balances that t is given are in the same cell if they are the same. *)
LEMMA ApartHere ==
    ASSUME TypeOK, Shape, AccountsApart, NEW t \in Tasks, NEW u \in Tasks,
           NEW a \in Accounts, NEW b \in Accounts, Got(t, Balance(a)) = Got(u, Balance(b))
    PROVE  a = b
<1>1. /\ Got(t, Balance(a)) \in Referring(Balance(a)) /\ Got(t, Balance(a)) # None
      /\ Got(u, Balance(b)) \in Referring(Balance(b))
  BY KeyFacts, GotType
<1> QED
  BY <1>1 DEF AccountsApart

(* Money moves between balances whose change was predicted.                *)
LEMMA PredictedStep ==
    ASSUME LocalInv, NEW s \in Tasks, TaskStep(s), ReadersWrite, ~ failed'
    PROVE  /\ ~ failed /\ ~ Revert(s) /\ ~ TotallyAbort(s)
           /\ \A t \in Tasks, a \in Accounts : change[a][t] # 0 => MayChange(t, a)
           /\ \A t \in Tasks, a \in Accounts : change'[a][t] # 0 => MayChange(t, a)
<1>0. /\ TypeOK /\ Shape /\ Progress /\ Ledger /\ change \in [Accounts -> [Tasks -> Int]]
      /\ \A a \in Accounts, u \in Tasks : u # s => change'[a][u] = change[a][u]
      /\ load[s].from \in Accounts
  BY StepChange, Footprints DEF LocalInv, Shape
<1>1. ~ Revert(s) /\ ~ TotallyAbort(s)
  BY DEF Revert, TotallyAbort
<1>2. ~ failed
  <2>1. CASE InVM(s)
    BY <2>1 DEF InVM, Transfer, SetState, Selfdestruct
  <2> QED
    BY <1>1, <2>1 DEF TaskStep, Start, BuyGas, EnterVM, LeaveVM, CommitLocalWrite, RefundGas
<1>3. \A t \in Tasks, a \in Accounts : change[a][t] # 0 => MayChange(t, a)
  BY <1>0, <1>2 DEF Ledger
<1>4. ASSUME NEW a \in Accounts, change'[a][s] # change[a][s]
      PROVE  MayChange(s, a)
  <2>1. CASE BuyGas(s)
    <3>1. a = load[s].from /\ Balance(a) \in Reads(s)
      BY <1>0, <1>4, <2>1 DEF BuyGas
    <3> QED
      BY <3>1, KeyFacts DEF ReadersWrite, MayChange
  <2>2. ASSUME NEW x \in 0 .. Gas - 1, RefundGas(s, x) PROVE MayChange(s, a)
    <3>1. a = load[s].from /\ pc[s] = "left"
      BY <1>0, <1>4, <2>2 DEF RefundGas
    <3> QED
      BY <1>0, <3>1 DEF Progress
  <2>3. ASSUME NEW b \in Accounts, NEW d \in Accounts, Transfer(s, b, d, 1)
        PROVE  MayChange(s, a)
    <3>1. MayChange(s, b) /\ MayChange(s, d)
      BY <2>3 DEF Transfer
    <3>2. change' = [c \in Accounts |-> [change[c] EXCEPT ![s] =
              @ + (IF c = d THEN 1 ELSE 0) - (IF c = b THEN 1 ELSE 0)]]
      BY <2>3 DEF Transfer
    <3>3. change[a] \in [Tasks -> Int]
      BY <1>0
    <3>4. change'[a][s] = change[a][s] + (IF a = d THEN 1 ELSE 0) - (IF a = b THEN 1 ELSE 0)
      BY <3>2, <3>3
    <3>5. a = b \/ a = d
      BY <1>4, <3>3, <3>4
    <3> QED
      BY <3>1, <3>5
  <2>4. ASSUME NEW b \in Accounts, NEW d \in Accounts, Selfdestruct(s, b, d)
        PROVE  MayChange(s, a)
    <3> DEFINE x == Value(s, Balance(b))
    <3>1. MayChange(s, d) /\ {Balance(b), Alive(b)} \subseteq Writes(s) /\ Balance(b) \in Reads(s)
      BY <2>4 DEF Selfdestruct
    <3>2. change' = [c \in Accounts |-> [change[c] EXCEPT ![s] =
              IF c = b THEN @ - x ELSE IF c = d THEN @ + x ELSE @]]
      BY <2>4 DEF Selfdestruct
    <3> HIDE DEF x
    <3>3. change[a] \in [Tasks -> Int]
      BY <1>0
    <3>4. a = b \/ a = d
      BY <1>4, <3>2, <3>3
    <3> QED
      BY <3>1, <3>4 DEF MayChange
  <2>5. CASE InVM(s)
    <3>1. \E b, d \in Accounts : Transfer(s, b, d, 1) \/ Selfdestruct(s, b, d)
      BY <1>4, <2>5 DEF InVM, SetState
    <3> QED
      BY <2>3, <2>4, <3>1
  <2>6. BuyGas(s) \/ (\E x \in 0 .. Gas - 1 : RefundGas(s, x)) \/ InVM(s)
    BY <1>4 DEF TaskStep, Start, EnterVM, LeaveVM, Revert, CommitLocalWrite, TotallyAbort
  <2> QED
    BY <2>1, <2>2, <2>5, <2>6
<1>5. \A t \in Tasks, a \in Accounts : change'[a][t] # 0 => MayChange(t, a)
  BY <1>0, <1>3, <1>4
<1> QED
  BY <1>1, <1>2, <1>3, <1>5

(* A step of s moves nothing on the balances of a task t that has all      *)
(* earlier writers of them behind it, and goes on having them.             *)
LEMMA LedgerOther ==
    ASSUME LocalInv, NEW s \in Tasks, TaskStep(s), ReadersWrite, ~ failed',
           NEW t \in Tasks, t # s, pc[t] # "done",
           NEW a \in Accounts, Balance(a) \in Reads(t), s \notin Writers(t, Balance(a)),
           Balanced(t, a)
    PROVE  Balanced(t, a)'
<1> DEFINE k == Balance(a)
<1>0. /\ TypeOK /\ Shape /\ AccountsApart /\ Settled
      /\ change \in [Accounts -> [Tasks -> Int]] /\ change' \in [Accounts -> [Tasks -> Int]]
      /\ \A u \in Tasks : u # s => change'[a][u] = change[a][u]
  BY StepChange DEF LocalInv, Shape
<1>1. k \in Keys /\ IsBalance(k) /\ k \in Writes(t)
  BY KeyFacts DEF ReadersWrite
<1>2. k \in Writes(s) => t < s
  <2>1. s < t => (k \in Writes(s) => s \in Writers(t, k))
    BY DEF Writers
  <2> QED
    BY <2>1, TaskNumbers
<1>3. pc[s] = "waiting" \/ k \notin Writes(s)
  <2> SUFFICES ASSUME pc[s] # "waiting", k \in Writes(s) PROVE FALSE
    OBVIOUS
  <2>1. k \in Reads(s) /\ WritersRead(k)
    BY <1>0, <1>1, Footprints DEF WritersRead
  <2>2. t \in Writers(s, k)
    BY <1>1, <1>2 DEF Writers
  <2>3. pc[t] = "done"
    BY <1>0, <1>1, <2>1, <2>2 DEF Settled
  <2> QED
    BY <2>3
<1>4. Got(t, k)' = Got(t, k)
  <2>1. Stored(t, k)' = Stored(t, k)
    BY <1>0, <1>1, StoredStep
  <2>2. local'[t] = local[t]
    BY <1>0, StepFacts
  <2> QED
    BY <2>1, <2>2 DEF Got
<1>5. heap'[Got(t, k)] = heap[Got(t, k)]
  <2> SUFFICES ASSUME heap'[Got(t, k)] # heap[Got(t, k)] PROVE FALSE
    OBVIOUS
  <2>1. Got(t, k) \in DOMAIN heap
    BY <1>0, <1>1, GotType
  <2>2. PICK j \in Reads(s) : IsBalance(j) /\ Got(t, k) = Got(s, j)
    BY <1>0, <2>1, StepMemory DEF MemoryStep
  <2>3. j \in Keys /\ j[1] \in Accounts /\ j = Balance(j[1])
    BY <1>0, <2>2, Footprints, KeyFacts
  <2>4. j = k
    BY <1>0, <2>2, <2>3, ApartHere
  <2>5. k \in Writes(s)
    BY <2>2, <2>4 DEF ReadersWrite
  <2>6. Start(s)
    BY <1>0, <1>3, <2>5, StepFacts
  <2> QED
    BY <2>6 DEF Start
<1>6. Total(change[a], t)' = Total(change[a], t)
  <2> DEFINE c == change[a]
             d == change'[a]
  <2>1. c \in [Tasks -> Int] /\ d \in [Tasks -> Int] /\ \A v \in Tasks : v # s => d[v] = c[v]
    BY <1>0
  <2>2. Total(change[a], t)' = Total(d, t)
    OBVIOUS
  <2>3. s <= t => d[s] = c[s] /\ c[s] = 0
    <3>1. s <= t => ~ MayChange(s, a)
      BY <1>2, TaskNumbers DEF MayChange
    <3> QED
      BY <3>1, PredictedStep
  <2>4. Total(c, t) \in Int /\ Total(d, t) = IF s <= t THEN Total(c, t) + (d[s] - c[s]) ELSE Total(c, t)
    <3> HIDE DEF c, d
    <3> QED
      BY <2>1, TotalStep
  <2> HIDE DEF c, d
  <2>5. Total(d, t) = Total(c, t)
    BY <2>3, <2>4
  <2> QED
    BY <2>2, <2>5 DEF c
<1>7. Value(t, k) = heap[Got(t, k)] /\ Value(t, k)' = heap'[Got(t, k)']
  BY <1>1, ValueOfBalance
<1>8. Value(t, Balance(a))' = Value(t, Balance(a))
  BY <1>4, <1>5, <1>7
<1> QED
  BY <1>6, <1>8 DEF Balanced

(* When the last of the earlier writers of a balance commits, t finds what *)
(* that writer had.                                                        *)
LEMMA LedgerCommit ==
    ASSUME LocalInv, NEW s \in Tasks, CommitLocalWrite(s), ReadersWrite, ~ failed',
           NEW t \in Tasks, NEW a \in Accounts, Balance(a) \in Reads(t),
           s \in Writers(t, Balance(a)),
           \A u \in Writers(t, Balance(a)) : u # s => pc[u] = "done"
    PROVE  Balanced(t, a)'
<1> DEFINE k == Balance(a)
<1>0. /\ TypeOK /\ Shape /\ AccountsApart /\ Settled /\ Progress /\ Ledger
      /\ change \in [Accounts -> [Tasks -> Int]] /\ TaskStep(s)
      /\ heap' = heap /\ change' = change /\ load' = load
      /\ DOMAIN local = Tasks
      /\ data \in [Tasks \cup {Head} -> [Keys -> Int]] /\ data[Head][k] # None
  BY KeyFacts DEF LocalInv, Shape, TaskStep, CommitLocalWrite
<1>1. k \in Keys /\ IsBalance(k) /\ k \in Writes(t) /\ k \in Writes(s) /\ s < t /\ t # s
      /\ k \in Reads(t)
  BY KeyFacts, TaskNumbers DEF ReadersWrite, Writers
<1>2. WritersRead(k) /\ k \in Reads(s)
  BY <1>0, <1>1, Footprints DEF WritersRead
<1>3. pc[s] = "refunded"
  BY DEF CommitLocalWrite
<1>4. pc[t] = "waiting"
  BY <1>0, <1>1, <1>2, <1>3 DEF Settled
<1>5. \A u \in Writers(t, k) : u <= s
  <2> SUFFICES ASSUME NEW u \in Writers(t, k), ~ (u <= s) PROVE FALSE
    OBVIOUS
  <2>1. u \in Tasks /\ k \in Writes(u) /\ s < u
    BY TaskNumbers DEF Writers
  <2>2. s \in Writers(u, k) /\ k \in Reads(u)
    BY <1>1, <1>2, <2>1 DEF Writers, WritersRead
  <2>3. pc[u] = "done"
    BY <2>1, TaskNumbers
  <2> QED
    BY <1>0, <1>1, <1>2, <1>3, <2>1, <2>2, <2>3 DEF Settled
<1>6. Writers(t, k) = Writers(s, k) \cup {s}
  <2>1. \A u \in Tasks : u <= s <=> (u < s \/ u = s)
    BY TaskNumbers
  <2>2. \A u \in Tasks : u < s => u < t
    BY <1>1, TaskNumbers
  <2>3. \A u \in Writers(t, k) : u \in Writers(s, k) \cup {s}
    BY <1>5, <2>1 DEF Writers
  <2>4. \A u \in Writers(s, k) : u \in Writers(t, k)
    BY <2>2 DEF Writers
  <2> QED
    BY <2>3, <2>4
<1>7. Got(t, k)' = Stored(t, k)'
  <2>1. local'[t] = local[t] /\ DOMAIN local[t] = {}
    BY <1>0, <1>1, <1>4, StepFacts DEF Progress
  <2> QED
    BY <2>1 DEF Got
<1>8. Stored(t, k)' = Got(s, k)
  <2> DEFINE S == {u \in Writers(t, k) : data'[u][k] # None} \cup {Head}
  <2>1. Stored(t, k)' = data'[Max(S)][k]
    <3>1. Writers(t, k)' = Writers(t, k)
      BY <1>0, FixedLoad
    <3> QED
      BY <3>1 DEF Stored
  <2>2. /\ data'[s][k] = IF k \in DOMAIN local[s] THEN local[s][k] ELSE None
        /\ \A u \in Tasks \cup {Head} : u # s => data'[u] = data[u]
    <3>1. \A u \in Tasks \cup {Head} : u # s => data'[u] = data[u]
      BY <1>0, StepData
    <3> DEFINE f == [j \in Keys |-> IF j \in Writes(s) /\ j \in DOMAIN local[s]
                                    THEN local[s][j] ELSE None]
    <3>2. data' = [data EXCEPT ![s] = f]
      BY DEF CommitLocalWrite
    <3>3. f[k] = IF k \in DOMAIN local[s] THEN local[s][k] ELSE None
      BY <1>1
    <3> HIDE DEF f
    <3> QED
      BY <1>0, <3>1, <3>2, <3>3
  <2>3. S \in SUBSET (Tasks \cup {Head}) /\ S # {} /\ \A u \in S : u <= s
    BY <1>5, TaskNumbers DEF Writers
  <2>4. CASE k \in DOMAIN local[s]
    <3>1. data'[s][k] = local[s][k] /\ local[s][k] # None
      <4>1. local[s][k] \in DOMAIN heap
        BY <1>0, <1>1, <2>4 DEF TypeOK
      <4> QED
        BY <1>0, <2>2, <2>4, <4>1 DEF TypeOK, Cells, None
    <3>2. s \in S
      BY <3>1
    <3> HIDE DEF S
    <3>3. Max(S) \in S /\ s <= Max(S) /\ Max(S) <= s
      BY <2>3, <3>2, LastTask
    <3>4. Max(S) \in Int /\ s \in Int
      <4>1. Max(S) \in Tasks \cup {Head}
        BY <2>3, <3>3
      <4>2. \A u \in Tasks \cup {Head} : u \in Int
        BY TaskNumbers
      <4> QED
        BY <4>1, <4>2
    <3>5. Max(S) = s
      BY <3>3, <3>4
    <3> QED
      BY <2>1, <2>4, <3>1, <3>5 DEF Got
  <2>5. CASE k \notin DOMAIN local[s]
    <3>1. S = {u \in Writers(s, k) : data[u][k] # None} \cup {Head}
      <4>1. data'[s][k] = None /\ s # Head /\ s \notin Writers(s, k)
        BY <2>2, <2>5, TaskNumbers DEF Writers
      <4>2. \A u \in Writers(s, k) : data'[u] = data[u]
        BY <2>2, <4>1 DEF Writers
      <4> QED
        BY <1>6, <4>1, <4>2
    <3>2. s \notin S
      BY <2>2, <2>5, TaskNumbers
    <3>3. Stored(s, k) = data[Max(S)][k]
      BY <3>1 DEF Stored
    <3> HIDE DEF S
    <3>4. Max(S) \in S
      BY <2>3, LastTask
    <3>5. data'[Max(S)] = data[Max(S)]
      BY <2>2, <2>3, <3>2, <3>4
    <3> QED
      BY <2>1, <2>5, <3>3, <3>5 DEF Got
  <2> QED
    BY <2>4, <2>5
<1>9. Value(t, k)' = Value(s, k)
  <2>1. Value(t, k)' = heap'[Got(t, k)'] /\ Value(s, k) = heap[Got(s, k)]
    BY <1>1, ValueOfBalance
  <2> QED
    BY <1>0, <1>7, <1>8, <2>1
<1>10. Balanced(s, a)
  <2>1. \A u \in Writers(s, k) : u # s /\ pc[u] = "done"
    BY <1>6, TaskNumbers DEF Writers
  <2>2. ~ failed
    BY <1>0, PredictedStep
  <2> QED
    BY <1>0, <1>2, <1>3, <2>1, <2>2 DEF Ledger
<1>11. Total(change[a], t) = Total(change[a], s)
  <2> DEFINE c == change[a]
  <2>1. ASSUME NEW u \in Tasks, s < u, u <= t PROVE c[u] = 0
    <3>1. CASE u = t
      BY <1>0, <1>4, <3>1 DEF Progress
    <3>2. CASE u # t
      <4>1. u < t
        BY <2>1, <3>2, TaskNumbers
      <4>2. k \notin Writes(u)
        BY <1>5, <2>1, <4>1, TaskNumbers DEF Writers
      <4>3. ~ MayChange(u, a)
        BY <4>2 DEF MayChange
      <4> QED
        BY <1>0, <4>3, PredictedStep
    <3> QED
      BY <3>1, <3>2
  <2>2. c \in [Tasks -> Int] /\ s <= t
    BY <1>0, <1>1, TaskNumbers
  <2> HIDE DEF c
  <2>3. Total(c, t) = Total(c, s)
    BY <2>1, <2>2, TotalSkip
  <2> QED
    BY <2>3 DEF c
<1>12. Total(change[a], t)' = Total(change[a], t)
  BY <1>0
<1>13. Value(t, Balance(a))' = (Initial + Total(change[a], t)) % (MaxBalance + 1)
  BY <1>9, <1>10, <1>11 DEF Balanced
<1> QED
  BY <1>12, <1>13 DEF Balanced

(* What s changes of its own balances, in terms of the ledger: the cell of *)
(* a then holds what it did, changed by x, modulo 2^256.                   *)
Moved(s, a, x) ==
    /\ Value(s, Balance(a))' = (Value(s, Balance(a)) + x) % (MaxBalance + 1)
    /\ change'[a][s] = change[a][s] + x

LEMMA MovedIsBalanced ==
    ASSUME TypeOK, Shape, NEW s \in Tasks, TaskStep(s), NEW a \in Accounts, NEW x \in Int,
           Balanced(s, a), Moved(s, a, x)
    PROVE  Balanced(s, a)'
<1> DEFINE c == change[a]
           d == change'[a]
           m == MaxBalance + 1
           i == Initial + Total(c, s)
<1>1. /\ c \in [Tasks -> Int] /\ d \in [Tasks -> Int]
      /\ \A v \in Tasks : v # s => d[v] = c[v]
      /\ d[s] = c[s] + x /\ c[s] \in Int
  BY StepChange DEF Shape, Moved
<1>2. m \in Nat /\ m > 0 /\ Initial \in Int
  BY AmountsAssumption
<1>3. Value(s, Balance(a)) = i % m
  BY DEF Balanced
<1>4. Value(s, Balance(a))' = ((i % m) + x) % m
  BY <1>3 DEF Moved
<1>5. Total(c, s) \in Int /\ Total(d, s) = Total(c, s) + x
  <2> HIDE DEF c, d
  <2>1. Total(c, s) \in Int /\ Total(d, s) = IF s <= s THEN Total(c, s) + (d[s] - c[s]) ELSE Total(c, s)
    BY <1>1, TotalStep
  <2>2. s <= s /\ d[s] - c[s] = x
    BY <1>1, TaskNumbers
  <2> QED
    BY <2>1, <2>2
<1>6. i \in Int
  <2> HIDE DEF c
  <2> QED
    BY <1>2, <1>5
<1>7. Value(s, Balance(a))' = (i + x) % m
  <2> HIDE DEF i, m
  <2> QED
    BY <1>2, <1>4, <1>6, ModAdd
<1>8. i + x = Initial + Total(d, s)
  <2> HIDE DEF c, d
  <2> QED
    BY <1>2, <1>5
<1>9. Total(change[a], s)' = Total(d, s)
  OBVIOUS
<1>10. Value(s, Balance(a))' = (Initial + Total(d, s)) % (MaxBalance + 1)
  BY <1>7, <1>8
<1> QED
  BY <1>9, <1>10 DEF Balanced

(* A balance that keeps its cell and its value.                            *)
LEMMA KeptIsBalanced ==
    ASSUME TypeOK, Shape, NEW s \in Tasks, TaskStep(s), NEW a \in Accounts,
           Value(s, Balance(a))' = Value(s, Balance(a)), change'[a][s] = change[a][s],
           Balanced(s, a)
    PROVE  Balanced(s, a)'
<1>1. Value(s, Balance(a)) \in 0 .. MaxBalance
  <2>1. Got(s, Balance(a)) \in DOMAIN heap /\ IsBalance(Balance(a))
    BY KeyFacts, GotType
  <2> QED
    BY <2>1, ValueOfBalance DEF TypeOK
<1>2. MaxBalance + 1 \in Nat /\ MaxBalance + 1 > 0 /\ (MaxBalance + 1) - 1 = MaxBalance
  BY AmountsAssumption
<1> DEFINE v == Value(s, Balance(a))
           m == MaxBalance + 1
<1>3. v \in 0 .. m - 1 /\ v \in Int
  <2> HIDE DEF v
  <2> QED
    BY <1>1, <1>2, AmountsAssumption DEF v
<1>4. (v + 0) % m = v
  <2> HIDE DEF v, m
  <2>1. v % m = v
    BY <1>2, <1>3, ModSmall DEF m
  <2> QED
    BY <1>3, <2>1
<1>5. change[a][s] + 0 = change[a][s]
  BY DEF Shape
<1>6. Moved(s, a, 0)
  BY <1>4, <1>5 DEF Moved
<1> QED
  BY <1>6, MovedIsBalanced

(* The values of the balances of s when s has changed one of them.         *)
Changed(s, m, n, a, b, x) ==
    LET c == Got(s, Balance(a))
    IN  /\ GoodMemory(s, n) /\ c \in DOMAIN heap
        /\ n.heap[c] = IF a = b THEN (m.heap[c] + x) % (MaxBalance + 1) ELSE m.heap[c]

LEMMA ChangedValue ==
    ASSUME TypeOK, Shape, AccountsApart, NEW s \in Tasks, NEW m, GoodMemory(s, m),
           NEW b \in Accounts, NEW x \in Int, NEW a \in Accounts, Balance(a) \in Reads(s)
    PROVE  Changed(s, m, ChangeBalance(s, m, b, x), a, b, x)
<1> DEFINE n == ChangeBalance(s, m, b, x)
           c == Got(s, Balance(a))
<1>1. /\ GoodMemory(s, n)
      /\ \A d \in DOMAIN heap :
            n.heap[d] = IF d = Got(s, Balance(b)) /\ Balance(b) \in Reads(s)
                        THEN (m.heap[d] + x) % (MaxBalance + 1) ELSE m.heap[d]
  BY ChangeBalanceSpec
<1>2. c \in DOMAIN heap
  BY KeyFacts, GotType
<1>3. c = Got(s, Balance(b)) => a = b
  BY ApartHere
<1> HIDE DEF n
<1>4. n.heap[c] = IF a = b THEN (m.heap[c] + x) % (MaxBalance + 1) ELSE m.heap[c]
  BY <1>1, <1>2, <1>3
<1>5. Changed(s, m, n, a, b, x)
  BY <1>1, <1>2, <1>4 DEF Changed
<1> QED
  BY <1>5 DEF n

(* A step to a good memory leaves each record of s in its cell.            *)
LEMMA GoodGot ==
    ASSUME TypeOK, Shape, NEW s \in Tasks, TaskStep(s), NEW n, GoodMemory(s, n),
           SetMemory(s, n), UNCHANGED data, NEW k \in Keys
    PROVE  Got(s, k)' = Got(s, k) /\ heap' = n.heap
<1>1. heap' = n.heap /\ local'[s] = n.local
  BY DEF SetMemory, Shape
<1>2. Stored(s, k)' = Stored(s, k)
  BY StoredStep
<1>3. Got(s, k)' = Datum(s, n, k)
  BY <1>1, <1>2 DEF Got, Datum
<1> QED
  BY <1>1, <1>3 DEF GoodMemory

(* A step that leaves heap and balances alone.                             *)
LEMMA QuietValue ==
    ASSUME TypeOK, Shape, NEW s \in Tasks, TaskStep(s), UNCHANGED <<heap, data, change>>,
           NEW a \in Accounts, Balanced(s, a),
           Balance(a) \in DOMAIN local'[s] <=> Balance(a) \in DOMAIN local[s],
           Balance(a) \in DOMAIN local[s] => local'[s][Balance(a)] = local[s][Balance(a)]
    PROVE  Balanced(s, a)'
<1>1. Balance(a) \in Keys /\ IsBalance(Balance(a))
  BY KeyFacts
<1>2. Stored(s, Balance(a))' = Stored(s, Balance(a))
  BY <1>1, StoredStep
<1>3. Got(s, Balance(a))' = Got(s, Balance(a))
  <2> DEFINE k == Balance(a)
  <2>1. Stored(s, k)' = Stored(s, k)
    BY <1>2
  <2>2. Got(s, k)' = IF k \in DOMAIN local'[s] THEN local'[s][k] ELSE Stored(s, k)'
    BY DEF Got, Balance
  <2>3. Got(s, k) = IF k \in DOMAIN local[s] THEN local[s][k] ELSE Stored(s, k)
    BY DEF Got
  <2> QED
    BY <2>1, <2>2, <2>3
<1>4. Value(s, Balance(a)) = heap[Got(s, Balance(a))]
      /\ Value(s, Balance(a))' = heap'[Got(s, Balance(a))']
  BY <1>1, ValueOfBalance DEF Balance
<1>5. Value(s, Balance(a))' = Value(s, Balance(a))
  BY <1>3, <1>4
<1> QED
  BY <1>5, KeptIsBalanced

(* The balances of a running transaction stay those of the ledger.         *)
LEMMA LedgerSelf ==
    ASSUME LocalInv, NEW s \in Tasks, TaskStep(s), ReadersWrite, ~ failed', pc'[s] # "done",
           NEW a \in Accounts, Balance(a) \in Reads(s), Balanced(s, a)
    PROVE  Balanced(s, a)'
<1> DEFINE k == Balance(a)
           g == Got(s, k)
           M == MaxBalance + 1
<1>0. /\ TypeOK /\ Shape /\ AccountsApart /\ change \in [Accounts -> [Tasks -> Int]]
      /\ load[s].from \in Accounts /\ DOMAIN local = Tasks
      /\ k \in Keys /\ IsBalance(k)
  BY KeyFacts, Footprints DEF LocalInv, Shape
<1>v. Value(s, k) = heap[Got(s, k)] /\ Value(s, k)' = heap'[Got(s, k)']
  BY <1>0, ValueOfBalance
<1>m. GoodMemory(s, Memory(s)) /\ Memory(s).heap = heap
  BY <1>0, MemoryIsGood DEF Memory
<1>c. ASSUME NEW b \in Accounts, NEW x \in Int, UNCHANGED data,
             SetMemory(s, ChangeBalance(s, Memory(s), b, x)),
             change' = [change EXCEPT ![b][s] = @ + x]
      PROVE  Balanced(s, a)'
  <2> DEFINE n == ChangeBalance(s, Memory(s), b, x)
  <2>1. /\ GoodMemory(s, n) /\ g \in DOMAIN heap
        /\ n.heap[g] = IF a = b THEN (heap[g] + x) % M ELSE heap[g]
    <3>1. Changed(s, Memory(s), n, a, b, x)
      BY <1>0, <1>m, ChangedValue
    <3> HIDE DEF n
    <3> QED
      BY <1>m, <3>1 DEF Changed
  <2>2. SetMemory(s, n)
    BY <1>c
  <2> HIDE DEF n
  <2>3. Got(s, k)' = Got(s, k) /\ heap' = n.heap
    BY <1>0, <1>c, <2>1, <2>2, GoodGot
  <2>4. CASE a = b
    <3>1. change'[a][s] = change[a][s] + x
      BY <1>0, <1>c, <2>4
    <3>2. Moved(s, a, x)
      BY <1>v, <2>1, <2>3, <2>4, <3>1 DEF Moved
    <3> QED
      BY <1>0, <3>2, MovedIsBalanced
  <2>5. CASE a # b
    <3>1. change'[a][s] = change[a][s]
      BY <1>0, <1>c, <2>5
    <3>2. Value(s, Balance(a))' = Value(s, Balance(a))
      BY <1>v, <2>1, <2>3, <2>5
    <3> QED
      BY <1>0, <3>1, <3>2, KeptIsBalanced
  <2> QED
    BY <2>4, <2>5
<1>1. CASE Start(s) \/ LeaveVM(s)
  BY <1>0, <1>1, QuietValue DEF Start, LeaveVM
<1>2. CASE EnterVM(s)
  <2> DEFINE j == Nonce(load[s].from)
  <2>1. UNCHANGED <<heap, data, change>> /\ local'[s] = Put(local[s], j, Value(s, j) + 1)
    BY <1>0, <1>2 DEF EnterVM
  <2>2. j # k
    BY <1>0, KeyFacts
  <2> HIDE DEF j
  <2>3. /\ k \in DOMAIN local'[s] <=> k \in DOMAIN local[s]
        /\ k \in DOMAIN local[s] => local'[s][k] = local[s][k]
    BY <2>1, <2>2 DEF Put
  <2> QED
    BY <1>0, <2>1, <2>3, QuietValue
<1>3. ASSUME NEW b \in Accounts, SetState(s, b) PROVE Balanced(s, a)'
  <2>1. /\ UNCHANGED <<heap, data, change>>
        /\ local'[s] = local[s] \/ local'[s] = Put(local[s], Slot(b), s + 1)
    BY <1>0, <1>3 DEF SetState
  <2>2. Slot(b) # k
    BY <1>0, KeyFacts
  <2>3. /\ k \in DOMAIN local'[s] <=> k \in DOMAIN local[s]
        /\ k \in DOMAIN local[s] => local'[s][k] = local[s][k]
    BY <2>1, <2>2 DEF Put
  <2> QED
    BY <1>0, <2>1, <2>3, QuietValue
<1>4. CASE BuyGas(s)
  <2>1. -Gas \in Int /\ \A y \in Int : y + (-Gas) = y - Gas
    BY AmountsAssumption
  <2>2. change' = [change EXCEPT ![load[s].from][s] = @ - Gas]
    BY <1>4 DEF BuyGas
  <2>3. change' = [change EXCEPT ![load[s].from][s] = @ + (-Gas)]
    BY <1>0, <2>1, <2>2
  <2> QED
    BY <1>0, <1>4, <1>c, <2>1, <2>3 DEF BuyGas
<1>5. ASSUME NEW x \in 0 .. Gas - 1, RefundGas(s, x) PROVE Balanced(s, a)'
  <2>1. x \in Int
    BY AmountsAssumption
  <2> QED
    BY <1>0, <1>5, <1>c, <2>1 DEF RefundGas
<1>6. ASSUME NEW b \in Accounts, NEW d \in Accounts, Transfer(s, b, d, 1)
      PROVE  Balanced(s, a)'
  <2> DEFINE m == ChangeBalance(s, Memory(s), b, -1)
             n == ChangeBalance(s, m, d, 1)
  <2>1. /\ GoodMemory(s, m) /\ g \in DOMAIN heap
        /\ m.heap[g] = IF a = b THEN (heap[g] + (-1)) % M ELSE heap[g]
    <3>1. Changed(s, Memory(s), m, a, b, -1)
      BY <1>0, <1>m, ChangedValue
    <3> HIDE DEF m
    <3> QED
      BY <1>m, <3>1 DEF Changed
  <2>2. SetMemory(s, n) /\ UNCHANGED data
    BY <1>6 DEF Transfer
  <2> HIDE DEF m
  <2>3. /\ GoodMemory(s, n)
        /\ n.heap[g] = IF a = d THEN (m.heap[g] + 1) % M ELSE m.heap[g]
    <3>1. Changed(s, m, n, a, d, 1)
      BY <1>0, <2>1, ChangedValue
    <3> HIDE DEF n
    <3> QED
      BY <3>1 DEF Changed
  <2> HIDE DEF n
  <2>4. Got(s, k)' = Got(s, k) /\ heap' = n.heap
    BY <1>0, <2>2, <2>3, GoodGot
  <2>5. change'[a][s] = change[a][s] + (IF a = d THEN 1 ELSE 0) - (IF a = b THEN 1 ELSE 0)
    <3>1. change' = [c \in Accounts |-> [change[c] EXCEPT ![s] =
                @ + (IF c = d THEN 1 ELSE 0) - (IF c = b THEN 1 ELSE 0)]]
      BY <1>6 DEF Transfer
    <3>2. change[a] \in [Tasks -> Int]
      BY <1>0
    <3> QED
      BY <3>1, <3>2
  <2>6. heap[g] \in 0 .. MaxBalance /\ M \in Nat /\ M > 0 /\ M - 1 = MaxBalance
        /\ change[a][s] \in Int
    BY <1>0, <2>1, AmountsAssumption DEF TypeOK
  <2>7. Value(s, Balance(a)) = heap[g] /\ Value(s, Balance(a))' = n.heap[g]
    BY <1>v, <2>4
  <2> HIDE DEF g, M
  <2>8. CASE a = b /\ a # d
    <3>1. Moved(s, a, -1)
      BY <2>1, <2>3, <2>5, <2>6, <2>7, <2>8 DEF Moved, M
    <3> QED
      BY <1>0, <3>1, MovedIsBalanced
  <2>9. CASE a # b /\ a = d
    <3>1. Moved(s, a, 1)
      BY <2>1, <2>3, <2>5, <2>6, <2>7, <2>9 DEF Moved, M
    <3> QED
      BY <1>0, <3>1, MovedIsBalanced
  <2>10. CASE a = b /\ a = d
    <3>1. n.heap[g] = (((heap[g] + (-1)) % M) + 1) % M
      BY <2>1, <2>3, <2>10
    <3> DEFINE y == heap[g] + (-1)
    <3>2. y \in Int /\ y + 1 = heap[g] /\ heap[g] \in 0 .. M - 1
      BY <2>6
    <3> HIDE DEF y
    <3>3. ((y % M) + 1) % M = (y + 1) % M
      BY <2>6, <3>2, ModAdd
    <3>4. heap[g] % M = heap[g]
      BY <2>6, <3>2, ModSmall
    <3>5. Value(s, Balance(a))' = Value(s, Balance(a))
      BY <2>7, <3>1, <3>2, <3>3, <3>4 DEF y
    <3>6. change'[a][s] = change[a][s]
      BY <2>5, <2>6, <2>10
    <3> QED
      BY <1>0, <3>5, <3>6, KeptIsBalanced
  <2>11. CASE a # b /\ a # d
    <3>1. Value(s, Balance(a))' = Value(s, Balance(a)) /\ change'[a][s] = change[a][s]
      BY <2>1, <2>3, <2>5, <2>6, <2>7, <2>11
    <3> QED
      BY <1>0, <3>1, KeptIsBalanced
  <2> QED
    BY <2>8, <2>9, <2>10, <2>11
<1>7. ASSUME NEW b \in Accounts, NEW d \in Accounts, Selfdestruct(s, b, d)
      PROVE  Balanced(s, a)'
  <2> DEFINE x == Value(s, Balance(b))
             new == Cardinality(DOMAIN heap) + 1
             n == ChangeBalance(s, Memory(s), d, x)
  <2>1. x = heap[Got(s, Balance(b))] /\ x \in Int
    <3>1. Got(s, Balance(b)) \in DOMAIN heap /\ IsBalance(Balance(b))
      BY <1>0, KeyFacts, GotType
    <3> QED
      BY <1>0, <3>1, ValueOfBalance, AmountsAssumption DEF TypeOK
  <2>2. /\ UNCHANGED data
        /\ SetMemory(s, SelfdestructMemory(s, Memory(s), b, d))
        /\ change' = [c \in Accounts |-> [change[c] EXCEPT ![s] =
                        IF c = b THEN @ - x ELSE IF c = d THEN @ + x ELSE @]]
    BY <1>7 DEF Selfdestruct
  <2> HIDE DEF x
  <2>3. Emptied(s, b, n, new)
    BY <1>0, <2>1, <2>2, SelfdestructSpec
  <2>4. /\ GoodMemory(s, n) /\ g \in DOMAIN heap
        /\ n.heap[g] = IF a = d THEN (heap[g] + x) % M ELSE heap[g]
    <3>1. Changed(s, Memory(s), n, a, d, x)
      BY <1>0, <1>m, <2>1, ChangedValue
    <3> HIDE DEF n
    <3> QED
      BY <1>m, <3>1 DEF Changed
  <2>5. change'[a][s] = IF a = b THEN change[a][s] - x
                        ELSE IF a = d THEN change[a][s] + x ELSE change[a][s]
    <3>1. change[a] \in [Tasks -> Int]
      BY <1>0
    <3> QED
      BY <2>2, <3>1
  <2>s. Stored(s, k)' = Stored(s, k)
    BY <1>0, <2>2, StoredStep
  <2> HIDE DEF n, new
  <2>6. CASE a = b
    <3>1. Got(s, k)' = new /\ heap'[new] = 0
      <4>1. k \in DOMAIN local'[s] /\ local'[s][k] = new /\ heap'[new] = 0
        BY <2>3, <2>6 DEF Emptied
      <4> QED
        BY <4>1 DEF Got
    <3>2. Value(s, Balance(a))' = 0
      BY <1>v, <3>1
    <3>3. Value(s, Balance(a)) = x
      BY <2>6 DEF x
    <3>4. -x \in Int /\ x + (-x) = 0 /\ \A y \in Int : y - x = y + (-x)
      BY <2>1
    <3>5. 0 % M = 0
      <4>1. M \in Nat /\ M > 0 /\ 0 \in 0 .. M - 1
        BY AmountsAssumption
      <4> HIDE DEF M
      <4> QED
        BY <4>1, ModSmall
    <3>6. Value(s, Balance(a))' = (Value(s, Balance(a)) + (-x)) % M
      BY <3>2, <3>3, <3>4, <3>5
    <3>7. change[a][s] \in Int
      BY <1>0
    <3>8. change'[a][s] = change[a][s] + (-x)
      BY <2>5, <2>6, <3>4, <3>7
    <3>9. Moved(s, a, -x)
      BY <3>6, <3>8 DEF Moved
    <3> QED
      BY <1>0, <3>4, <3>9, MovedIsBalanced
  <2>7. CASE a # b
    <3>1. k # Balance(b) /\ k # Alive(b)
      BY <1>0, <2>7, KeyFacts
    <3>2. /\ k \in DOMAIN local'[s] <=> k \in DOMAIN n.local
          /\ k \in DOMAIN n.local => local'[s][k] = n.local[k]
          /\ heap'[g] = n.heap[g]
      BY <2>3, <2>4, <3>1 DEF Emptied
    <3>3. Got(s, k)' = Got(s, k)
      <4>1. Datum(s, n, k) = Got(s, k)
        BY <1>0, <2>4 DEF GoodMemory
      <4>2. Datum(s, n, k) = IF k \in DOMAIN n.local THEN n.local[k] ELSE Stored(s, k)
        BY DEF Datum
      <4>3. Got(s, k)' = IF k \in DOMAIN local'[s] THEN local'[s][k] ELSE Stored(s, k)'
        BY DEF Got, Balance
      <4> QED
        BY <2>s, <3>2, <4>1, <4>2, <4>3
    <3>4. Value(s, Balance(a)) = heap[g] /\ Value(s, Balance(a))' = n.heap[g]
      BY <1>v, <3>2, <3>3
    <3>5. CASE a = d
      <4>1. Moved(s, a, x)
        BY <2>4, <2>5, <2>7, <3>4, <3>5 DEF Moved
      <4> QED
        BY <1>0, <2>1, <4>1, MovedIsBalanced
    <3>6. CASE a # d
      BY <1>0, <2>4, <2>5, <2>7, <3>4, <3>6, KeptIsBalanced
    <3> QED
      BY <3>5, <3>6
  <2> QED
    BY <2>6, <2>7
<1>8. CASE InVM(s)
  BY <1>3, <1>6, <1>7, <1>8 DEF InVM
<1>9. CASE CommitLocalWrite(s) \/ TotallyAbort(s) \/ Revert(s)
  BY <1>0, <1>9, PredictedStep DEF CommitLocalWrite, TypeOK
<1> QED
  BY <1>1, <1>2, <1>4, <1>5, <1>8, <1>9 DEF TaskStep

(* The ledger is kept.                                                     *)
LEMMA LedgerStep ==
    ASSUME LocalInv, NEW s \in Tasks, TaskStep(s) PROVE Ledger'
<1>0. /\ TypeOK /\ Shape /\ Settled /\ Ledger
      /\ load' = load /\ pc[s] # "done" /\ (pc'[s] = "done" => CommitLocalWrite(s) \/ TotallyAbort(s))
      /\ \A u \in Tasks : u # s => pc'[u] = pc[u]
  BY StepFacts DEF LocalInv
<1> SUFFICES ASSUME ReadersWrite, ~ failed'
             PROVE  /\ \A t \in Tasks, a \in Accounts : change'[a][t] # 0 => MayChange(t, a)'
                    /\ \A t \in Tasks, a \in Accounts :
                          /\ Balance(a) \in Reads(t)'
                          /\ pc'[t] # "done"
                          /\ \A u \in Writers(t, Balance(a))' : pc'[u] = "done"
                          => Balanced(t, a)'
  BY <1>0, FixedLoad DEF Ledger, Balance
<1>1. \A t \in Tasks, a \in Accounts : change'[a][t] # 0 => MayChange(t, a)'
  <2>1. \A t \in Tasks, a \in Accounts : change'[a][t] # 0 => MayChange(t, a)
    BY PredictedStep
  <2> QED
    BY <1>0, <2>1, FixedLoad
<1>2. ASSUME NEW t \in Tasks, NEW a \in Accounts, Balance(a) \in Reads(t), pc'[t] # "done",
             \A u \in Writers(t, Balance(a)) : pc'[u] = "done"
      PROVE  Balanced(t, a)'
  <2>0. ~ failed /\ ~ TotallyAbort(s) /\ pc[t] # "done"
    BY <1>0, <1>2, PredictedStep
  <2>1. CASE s \in Writers(t, Balance(a))
    <3>1. CommitLocalWrite(s)
      BY <1>0, <1>2, <2>0, <2>1
    <3>2. \A u \in Writers(t, Balance(a)) : u # s => pc[u] = "done"
      BY <1>0, <1>2 DEF Writers
    <3> QED
      BY <1>2, <2>1, <3>1, <3>2, LedgerCommit
  <2>2. CASE s \notin Writers(t, Balance(a))
    <3>1. \A u \in Writers(t, Balance(a)) : pc[u] = "done"
      BY <1>0, <1>2, <2>2 DEF Writers
    <3>2. Balanced(t, a)
      BY <1>0, <1>2, <2>0, <3>1 DEF Ledger
    <3>3. CASE t = s
      BY <1>2, <3>2, <3>3, LedgerSelf
    <3>4. CASE t # s
      BY <1>2, <2>0, <2>2, <3>2, <3>4, LedgerOther
    <3> QED
      BY <3>3, <3>4
  <2> QED
    BY <2>1, <2>2
<1>3. ASSUME NEW t \in Tasks, NEW a \in Accounts, Balance(a) \in Reads(t)', pc'[t] # "done",
             \A u \in Writers(t, Balance(a))' : pc'[u] = "done"
      PROVE  Balanced(t, a)'
  <2>1. Reads(t)' = Reads(t) /\ Writers(t, Balance(a))' = Writers(t, Balance(a))
    BY <1>0, FixedLoad DEF Balance
  <2> QED
    BY <1>2, <1>3, <2>1
<1> QED
  BY <1>1, <1>3

(***************************************************************************)
(* The invariant.                                                          *)
(***************************************************************************)

LEMMA LocalInvInit == Init => LocalInv
<1> SUFFICES ASSUME Init PROVE LocalInv
  OBVIOUS
<1> DEFINE n == Cardinality(Accounts)
<1>0. /\ load \in Loads /\ pc = [t \in Tasks |-> "waiting"] /\ heap = [c \in 1 .. n |-> Initial]
      /\ local = [t \in Tasks |-> Empty] /\ snapshot = [t \in Tasks |-> Empty]
      /\ entry = [t \in Tasks |-> Empty]
      /\ change = [a \in Accounts |-> [t \in Tasks |-> 0]]
  BY DEF Init
<1>1. n \in Nat /\ n <= MaxCells /\ MaxCells \in Nat /\ Initial \in 0 .. MaxBalance
  BY SizesAssumption, AmountsAssumption, FS_CardinalityType
<1> HIDE DEF n
<1>2. DOMAIN heap = 1 .. n /\ (\A c \in 1 .. n : heap[c] = Initial) /\ DOMAIN heap \subseteq Cells
  BY <1>0, <1>1 DEF Cells
<1>3. DOMAIN Empty = {}
  BY DEF Empty
<1>4. /\ data \in [Tasks \cup {Head} -> [Keys -> Int]]
      /\ \A t \in Tasks, k \in Keys : data[t][k] = None
      /\ \A k \in Keys : IF IsBalance(k) THEN data[Head][k] = OwnCell[k[1]] ELSE data[Head][k] = 0
      /\ \A k \in Keys : IsBalance(k) => data[Head][k] \in 1 .. n
  <2> DEFINE f(t) == [k \in Keys |-> IF t # Head THEN None
                                     ELSE IF IsBalance(k) THEN OwnCell[k[1]] ELSE 0]
  <2>1. data = [t \in Tasks \cup {Head} |-> f(t)]
    BY DEF Init
  <2>2. \A t \in Tasks \cup {Head}, k \in Keys :
           f(t)[k] = IF t # Head THEN None
                     ELSE IF IsBalance(k) THEN OwnCell[k[1]] ELSE 0
    OBVIOUS
  <2>3. \A k \in Keys : IsBalance(k) => OwnCell[k[1]] \in 1 .. n
    BY OwnCells, KeyFacts DEF n
  <2>4. \A k \in Keys : /\ IsBalance(k) => f(Head)[k] = OwnCell[k[1]]
                        /\ ~ IsBalance(k) => f(Head)[k] = 0
    BY <2>2
  <2>5. \A t \in Tasks, k \in Keys : f(t)[k] = None
    BY <2>2, TaskNumbers
  <2>6. \A t \in Tasks \cup {Head} : f(t) \in [Keys -> Int]
    <3>1. ASSUME NEW t \in Tasks \cup {Head}, NEW k \in Keys PROVE f(t)[k] \in Int
      <4> HIDE DEF f
      <4> QED
        BY <1>1, <2>3, <2>4, <2>5 DEF None
    <3> QED
      BY <3>1
  <2> HIDE DEF f
  <2>7. \A t \in Tasks \cup {Head} : data[t] = f(t)
    BY <2>1
  <2>8. data \in [Tasks \cup {Head} -> [Keys -> Int]]
    BY <2>1, <2>6
  <2> QED
    BY <2>3, <2>4, <2>5, <2>7, <2>8
<1>5. TypeOK
  <2>1. pc \in [Tasks -> Stages]
    BY <1>0 DEF Stages
  <2>2. \A t \in Tasks \cup {Head}, k \in Keys :
          data[t][k] \in IF IsBalance(k) THEN DOMAIN heap \cup {None} ELSE Values \cup {None}
    BY <1>2, <1>4 DEF Values
  <2>3. \A t \in Tasks : \A f \in {local[t], snapshot[t]} : DOMAIN f = {}
    BY <1>0, <1>3
  <2> QED
    BY <1>0, <1>1, <1>2, <2>1, <2>2, <2>3 DEF TypeOK
<1>6. Shape
  <2>1. Cardinality(1 .. n) = n
    <3>1. 1 \in Int /\ n \in Int
      BY <1>1
    <3>2. Cardinality(1 .. n) = IF 1 > n THEN 0 ELSE n - 1 + 1
      BY <3>1, FS_Interval
    <3> QED
      BY <1>1, <3>2
  <2>2. DOMAIN heap = 1 .. Cardinality(DOMAIN heap)
    BY <1>2, <2>1
  <2>3. \A k \in Keys : data[Head][k] # None
    BY <1>1, <1>4 DEF None
  <2>4. change \in [Accounts -> [Tasks -> Int]]
    BY <1>0
  <2> QED
    BY <1>0, <1>4, <2>2, <2>3, <2>4 DEF Shape
<1>7. AccountsApart
  <2>1. ASSUME NEW a \in Accounts, NEW c \in Referring(Balance(a))
        PROVE  c = None \/ c = OwnCell[a]
    <3>1. Balance(a) \in Keys /\ IsBalance(Balance(a)) /\ Balance(a)[1] = a
      BY KeyFacts DEF Balance
    <3>2. \A t \in Tasks : DOMAIN local[t] = {} /\ DOMAIN snapshot[t] = {}
      BY <1>0, <1>3
    <3>3. \E t \in Tasks \cup {Head} : c = data[t][Balance(a)]
      BY <3>2 DEF Referring
    <3> QED
      BY <1>4, <3>1, <3>3
  <2> QED
    BY <2>1, OwnCells DEF AccountsApart
<1>8. Settled /\ Entered
  BY <1>0 DEF Settled, Entered
<1>9. Progress
  <2>1. \A t \in Tasks : pc[t] = "waiting" /\ DOMAIN local[t] = {} /\ DOMAIN snapshot[t] = {}
    BY <1>0, <1>3
  <2>2. \A t \in Tasks, a \in Accounts : change[a][t] = 0
    BY <1>0
  <2> QED
    BY <2>1, <2>2 DEF Progress
<1>10. Ledger
  <2>1. \A t \in Tasks, a \in Accounts : change[a][t] = 0
    BY <1>0
  <2>2. ASSUME NEW t \in Tasks, NEW a \in Accounts PROVE Balanced(t, a)
    <3> DEFINE c == change[a]
    <3>1. Value(t, Balance(a)) = Initial
      <4>1. Got(t, Balance(a)) \in DOMAIN heap /\ IsBalance(Balance(a))
        BY <1>5, <1>6, KeyFacts, GotType
      <4> QED
        BY <1>2, <4>1, ValueOfBalance
    <3>2. c \in [Tasks -> Int] /\ \A u \in Tasks : c[u] = 0
      BY <1>6, <2>1 DEF Shape
    <3>3. Total(c, t) = 0
      <4> HIDE DEF c
      <4>1. Total(c, t) = SumOver(c, 0 .. t)
        BY TotalIsSum
      <4> DEFINE T == 0 .. t
      <4>2. T \in SUBSET Tasks /\ {} \in SUBSET Tasks /\ IsFiniteSet(Tasks)
        BY TasksUpTo
      <4> HIDE DEF T
      <4>3. \A x \in Tasks : (IF x \in T THEN c[x] ELSE 0) = (IF x \in {} THEN c[x] ELSE 0)
        BY <3>2
      <4>4. SumOver(c, T) = SumOver(c, {})
        BY <3>2, <4>2, <4>3, SumAgree
      <4>5. SumOver(c, {}) = 0
        BY <3>2, <4>2, SumRules
      <4> QED
        BY <4>1, <4>4, <4>5 DEF T
    <3>4. (Initial + 0) % (MaxBalance + 1) = Initial
      <4> DEFINE m == MaxBalance + 1
      <4>1. m \in Nat /\ m > 0 /\ Initial \in 0 .. m - 1 /\ Initial + 0 = Initial
        BY AmountsAssumption
      <4> HIDE DEF m
      <4>2. Initial % m = Initial
        BY <4>1, ModSmall
      <4> QED
        BY <4>1, <4>2 DEF m
    <3> QED
      BY <3>1, <3>3, <3>4 DEF Balanced
  <2> QED
    BY <2>1, <2>2 DEF Ledger
<1> QED
  BY <1>5, <1>6, <1>7, <1>8, <1>9, <1>10 DEF LocalInv

LEMMA LocalInvStep == LocalInv /\ [Next]_vars => LocalInv'
<1> SUFFICES ASSUME LocalInv, [Next]_vars PROVE LocalInv'
  OBVIOUS
<1>0. TypeOK /\ Shape /\ AccountsApart /\ Settled /\ Progress /\ Entered /\ Ledger
  BY DEF LocalInv
<1>1. ASSUME NEW s \in Tasks, TaskStep(s) PROVE LocalInv'
  <2>1. TypeOK' /\ Shape' /\ AccountsApart'
    BY <1>0, <1>1, TypeStep, ShapeStep, AccountsApartStep
  <2>2. Settled' /\ Progress' /\ Entered' /\ Ledger'
    BY <1>0, <1>1, SettledStep, ProgressStep, EnteredStep, LedgerStep
  <2> QED
    BY <2>1, <2>2 DEF LocalInv
<1>2. CASE UNCHANGED vars
  <2>0. /\ load' = load /\ pc' = pc /\ heap' = heap /\ data' = data /\ local' = local
        /\ snapshot' = snapshot /\ entry' = entry /\ change' = change /\ failed' = failed
    BY <1>2 DEF vars
  <2>w. /\ \A t \in Tasks : Reads(t)' = Reads(t) /\ Writes(t)' = Writes(t)
        /\ \A t, k : Writers(t, k)' = Writers(t, k)
        /\ \A k : WritersRead(k)' <=> WritersRead(k)
        /\ \A t \in Tasks : \A a : MayChange(t, a)' <=> MayChange(t, a)
        /\ ReadersWrite' <=> ReadersWrite
    BY <2>0, FixedLoad
  <2>s. \A t, k : Stored(t, k)' = Stored(t, k)
    BY <2>0, <2>w DEF Stored
  <2>1. TypeOK' /\ Shape'
    BY <1>0, <2>0, <2>w DEF TypeOK, Shape, IsBalance
  <2>2. AccountsApart'
    <3>1. \A k : Referring(k)' = Referring(k)
      BY <2>0, Zenon DEF Referring
    <3>2. \A a : Referring(Balance(a))' = Referring(Balance(a))
      BY <3>1 DEF Balance
    <3> QED
      BY <1>0, <3>2 DEF AccountsApart
  <2>3. Settled'
    BY <1>0, <2>0, <2>w DEF Settled
  <2>4. Progress'
    BY <1>0, <2>0, <2>w DEF Progress
  <2>5. Entered'
    BY <1>0, <2>0, <2>w, <2>s DEF Entered, IsBalance
  <2>6. Ledger'
    <3>1. \A t, a : Value(t, Balance(a))' = Value(t, Balance(a))
      BY <2>0, <2>s DEF Value, Deref, Datum, Memory, Balance, IsBalance
    <3>2. \A t, a : Total(change[a], t)' = Total(change[a], t)
      BY <2>0
    <3>3. \A t, a : Balanced(t, a)' <=> Balanced(t, a)
      BY <3>1, <3>2 DEF Balanced
    <3> QED
      BY <1>0, <2>0, <2>w, <3>3 DEF Ledger, Balance
  <2> QED
    BY <2>1, <2>2, <2>3, <2>4, <2>5, <2>6 DEF LocalInv
<1>3. (\E s \in Tasks : TaskStep(s)) \/ UNCHANGED vars
  BY DEF Next, AllDone, TaskStep
<1> QED
  BY <1>1, <1>2, <1>3

(* The invariant holds of every reachable state.                           *)
THEOREM LocalInvCorrect == Spec => []LocalInv
<1>1. Init => LocalInv
  BY LocalInvInit
<1>2. LocalInv /\ [Next]_vars => LocalInv'
  BY LocalInvStep
<1> QED
  BY <1>1, <1>2, PTL DEF Spec

(* Types.                                                                  *)
THEOREM LocalTypeCorrect == Spec => []TypeOK
<1>1. LocalInv => TypeOK
  BY DEF LocalInv
<1> QED
  BY <1>1, LocalInvCorrect, PTL

(* AddBalance and SubBalance of one account (state.go:333-351) never move  *)
(* another's money: no integer is the balance of two accounts, wherever it *)
(* is kept.                                                                *)
THEOREM AccountsApartCorrect == Spec => []AccountsApart
<1>1. LocalInv => AccountsApart
  BY DEF LocalInv
<1> QED
  BY <1>1, LocalInvCorrect, PTL

(* Two running transactions never hold the integer of the same balance     *)
(* (task.go:43-56, state.go:338 and :348), if nobody only reads a balance. *)
THEOREM AloneCorrect == Spec => []Alone
<1>1. LocalInv => Alone
  <2> SUFFICES ASSUME LocalInv, ReadersWrite, NEW t \in Tasks, NEW u \in Tasks, t # u,
                      pc[t] \in Active, pc[u] \in Active, NEW c \in Hands(t) \cap Hands(u)
               PROVE  FALSE
    BY DEF Alone
  <2>0. TypeOK /\ Shape /\ AccountsApart /\ Settled
    BY DEF LocalInv
  <2>1. PICK j \in Reads(t) : IsBalance(j) /\ c = Got(t, j)
    BY GotIsDatum DEF Hands
  <2>2. PICK k \in Reads(u) : IsBalance(k) /\ c = Got(u, k)
    BY GotIsDatum DEF Hands
  <2>3. /\ j \in Keys /\ j[1] \in Accounts /\ j = Balance(j[1])
        /\ k \in Keys /\ k[1] \in Accounts /\ k = Balance(k[1])
    BY <2>0, <2>1, <2>2, Footprints, KeyFacts
  <2>4. j = k
    BY <2>0, <2>1, <2>2, <2>3, ApartHere
  <2>5. k \in Writes(t) /\ k \in Writes(u) /\ k \in Reads(t) /\ k \in Reads(u) /\ WritersRead(k)
    BY <2>0, <2>1, <2>2, <2>3, <2>4, Footprints DEF ReadersWrite, WritersRead
  <2>6. pc[t] # "waiting" /\ pc[t] # "done" /\ pc[u] # "waiting" /\ pc[u] # "done"
    BY DEF Active
  <2>7. t < u \/ u < t
    BY TaskNumbers
  <2> QED
    BY <2>0, <2>3, <2>5, <2>6, <2>7 DEF Settled, Writers
<1> QED
  BY <1>1, LocalInvCorrect, PTL

(* A running transaction is given the initial balance with every change    *)
(* that it and the transactions before it have made and no other           *)
(* (state.go:83-101), as long as nothing fails and nobody only reads a     *)
(* balance.                                                                *)
THEOREM BalancesAddUpCorrect == Spec => []BalancesAddUp
<1>1. LocalInv => BalancesAddUp
  <2> SUFFICES ASSUME LocalInv, ReadersWrite, ~ failed, NEW t \in Tasks, NEW a \in Accounts,
                      pc[t] \in Active, Balance(a) \in Reads(t)
               PROVE  Balanced(t, a)
    BY DEF BalancesAddUp
  <2>0. TypeOK /\ Settled /\ Ledger
    BY DEF LocalInv
  <2>1. Balance(a) \in Keys /\ IsBalance(Balance(a)) /\ pc[t] # "waiting" /\ pc[t] # "done"
    BY KeyFacts DEF Active
  <2>2. WritersRead(Balance(a))
    BY <2>0, <2>1, Footprints DEF WritersRead
  <2>3. \A u \in Writers(t, Balance(a)) : pc[u] = "done"
    BY <2>0, <2>1, <2>2 DEF Settled
  <2> QED
    BY <2>0, <2>1, <2>3 DEF Ledger
<1> QED
  BY <1>1, LocalInvCorrect, PTL

(* RevertToSnapshot (state.go:387-398) gives back every record that is     *)
(* stored by value, in a block whose transactions write only what they     *)
(* read.                                                                   *)
THEOREM RevertRestoresRecordsCorrect ==
    ASSUME AllWritersRead PROVE Spec => RevertRestoresRecords
<1> DEFINE Back == \A t \in Tasks : Revert(t) =>
                      \A k \in Reads(t) : ~ IsBalance(k) => Value(t, k)' = entry[t][k]
<1>1. ASSUME LocalInv, [Next]_vars PROVE [Back]_vars
  <2> SUFFICES ASSUME NEW t \in Tasks, Revert(t), NEW k \in Reads(t), ~ IsBalance(k)
               PROVE  Value(t, k)' = entry[t][k]
    OBVIOUS
  <2>0. TypeOK /\ Shape /\ Entered /\ load \in Loads /\ DOMAIN local = Tasks /\ k \in Keys
    BY <1>1, Footprints DEF LocalInv, TypeOK, Shape
  <2>1. WritersRead(k)
    BY <2>0 DEF AllWritersRead, WritersRead, Reads, Writes
  <2>2. pc[t] = "vm" /\ local'[t] = snapshot[t] /\ UNCHANGED <<load, data>> /\ TaskStep(t)
    BY <2>0 DEF Revert, Restored, TaskStep
  <2>3. Stored(t, k)' = Stored(t, k)
    BY <2>0, <2>2, StoredStep
  <2>4. Value(t, k)' = IF k \in DOMAIN local'[t] THEN local'[t][k] ELSE Stored(t, k)'
    BY DEF Value, Deref, Datum, Memory, IsBalance
  <2>5. entry[t][k] = IF k \in DOMAIN snapshot[t] THEN snapshot[t][k] ELSE Stored(t, k)
    BY <2>0, <2>1, <2>2 DEF Entered
  <2> QED
    BY <2>2, <2>3, <2>4, <2>5
<1>2. Spec => [][Back]_vars
  <2> HIDE DEF Back
  <2> QED
    BY <1>1, LocalInvCorrect, PTL DEF Spec
<1> QED
  BY <1>2 DEF RevertRestoresRecords
=============================================================================
