------------------------- MODULE Execution_proofs --------------------------
(* Proofs of the safety properties of Execution, for every batch, every    *)
(* division into blocks and any number of processors.                      *)
EXTENDS Execution, WellFoundedInduction, FiniteSetTheorems, TLAPS

(***************************************************************************)
(* The last of a set of Tids.                                              *)
(***************************************************************************)

(* A nonempty set of integers bounded from above has a greatest element.   *)
LEMMA MaxExists ==
    ASSUME NEW S \in SUBSET Int, S # {}, NEW b \in Int, \A x \in S : x <= b
    PROVE  \E m \in S : \A x \in S : x <= m
<1> DEFINE T == {n \in Nat : b - n \in S}
           R == {ss \in Nat \X Nat : ss[1] < ss[2]}
<1>1. T # {}
  <2>1. PICK x \in S : TRUE
    OBVIOUS
  <2>2. b - x \in Nat /\ b - (b - x) = x
    BY <2>1
  <2> QED
    BY <2>1, <2>2
<1>2. T \subseteq Nat
  OBVIOUS
<1>3. PICK n \in T : \A y \in T : ~ (<<y, n>> \in R)
  <2> HIDE DEF T, R
  <2>1. IsWellFoundedOn(R, Nat)
    BY NatLessThanWellFounded DEF R, OpToRel
  <2> QED
    BY <1>1, <1>2, <2>1, WFMin
<1>4. \A y \in T : ~ (y < n)
  BY <1>3, <1>2
<1>5. b - n \in S
  OBVIOUS
<1>6. ASSUME NEW x \in S PROVE x <= b - n
  <2>1. b - x \in Nat /\ b - (b - x) = x
    OBVIOUS
  <2>2. b - x \in T
    BY <2>1
  <2>3. ~ (b - x < n)
    BY <1>4, <2>2
  <2> QED
    BY <2>1, <2>3
<1> QED
  BY <1>5, <1>6

(* LastOf yields the greatest of the given tasks, Snapshot if there are    *)
(* none.                                                                   *)
LEMMA LastOfSpec ==
    ASSUME NEW S \in SUBSET Tasks
    PROVE  /\ LastOf(S) \in S \cup {Snapshot}
           /\ \A u \in S : u <= LastOf(S)
           /\ S # {} => LastOf(S) \in S
<1> DEFINE Q == S \cup {Snapshot}
<1>1. Q \in SUBSET Int /\ Q # {}
  BY NTasksAssumption DEF Tasks, Snapshot
<1>2. \A x \in Q : x <= NTasks
  BY NTasksAssumption DEF Tasks, Snapshot
<1>3. NTasks \in Int
  BY NTasksAssumption
<1> HIDE DEF Q
<1>4. \E m \in Q : \A x \in Q : x <= m
  BY <1>1, <1>2, <1>3, MaxExists
<1>5. \E m \in Q : \A x \in Q : m >= x
  BY <1>4, <1>1
<1>6. Max(Q) \in Q /\ \A x \in Q : Max(Q) >= x
  BY <1>5 DEF Max
<1>7. \A x \in Q : x <= Max(Q)
  BY <1>6, <1>1
<1>8. ASSUME NEW u \in S PROVE Max(Q) # Snapshot
  <2>1. u >= 0 /\ u \in Q
    BY NTasksAssumption DEF Tasks, Q
  <2>2. Max(Q) >= u
    BY <1>6, <2>1
  <2> QED
    BY <2>1, <2>2, <1>1, <1>6 DEF Snapshot
<1> QED
  BY <1>6, <1>7, <1>8 DEF Q, LastOf

(***************************************************************************)
(* Types.                                                                  *)
(***************************************************************************)

(* Footprints stay within the keys.                                        *)
LEMMA FootprintKeys ==
    ASSUME TypeOK, NEW t \in Tasks
    PROVE  Reads(t) \subseteq Keys /\ Writes(t) \subseteq Keys
<1>1. load \in [Tasks -> Footprint]
  BY WorkloadsAssumption DEF TypeOK
<1> QED
  BY <1>1 DEF Footprint, Reads, Writes

(* Start-time ranks of a block are natural numbers.                        *)
LEMMA RankIsNat ==
    ASSUME NEW b PROVE 1 .. Cardinality(InBlock(b)) \subseteq Nat
<1>1. IsFiniteSet(Tasks)
  BY NTasksAssumption, FS_Interval DEF Tasks
<1>2. InBlock(b) \subseteq Tasks
  BY DEF InBlock
<1>3. IsFiniteSet(InBlock(b))
  BY <1>1, <1>2, FS_Subset
<1>4. Cardinality(InBlock(b)) \in Nat
  BY <1>3, FS_CardinalityType
<1> QED
  BY <1>4

(* GetVisible finds a version or the snapshot.                             *)
LEMMA GetVisibleTid ==
    ASSUME NEW k, NEW v PROVE GetVisible(k, v) \in Tids
<1>1. {u \in Writers(Tasks, k) : u <= v /\ status[u][k] = "Committed"} \in SUBSET Tasks
  BY DEF Writers
<1> QED
  BY <1>1, LastOfSpec DEF GetVisible, Tids

(* The last of a set of writers is a version or the snapshot.              *)
LEMMA WritersTid ==
    ASSUME NEW S \in SUBSET Tasks, NEW k PROVE LastOf(Writers(S, k)) \in Tids
<1>1. Writers(S, k) \in SUBSET Tasks
  BY DEF Writers
<1> QED
  BY <1>1, LastOfSpec DEF Tids

(* The state before the first block is well typed.                         *)
LEMMA InitType == Init => TypeOK
  BY DEF Init, TypeOK, Tids, Stages, Statuses

(* Every step of a line or a processor keeps the types.                    *)
LEMMA NextType == TypeOK /\ [Next]_vars => TypeOK'
<1> SUFFICES ASSUME TypeOK, [Next]_vars PROVE TypeOK'
  OBVIOUS
<1> USE DEF TypeOK, Stages, Statuses
<1>1. ASSUME NEW b \in Blocks, PrepareBlock(b) PROVE TypeOK'
  <2>1. \A k \in Keys : LastOf(Writers(UpTo(b), k)) \in Tids
    BY WritersTid DEF UpTo
  <2> QED
    BY <1>1, <2>1 DEF PrepareBlock
<1>2. ASSUME NEW b \in Blocks, LinkBlock(b) PROVE TypeOK'
  <2>1. ASSUME NEW t \in Tasks, NEW k \in Keys PROVE LinkedVersion(t, k) \in Tids
    <3>1. EarlierInBlock(t) \in SUBSET Tasks
      BY DEF EarlierInBlock
    <3>2. Writers(EarlierInBlock(t), k) \in SUBSET Tasks
      BY <3>1 DEF Writers
    <3> QED
      BY <3>2, LastOfSpec DEF LinkedVersion, Tids
  <2> QED
    BY <1>2, <2>1 DEF LinkBlock
<1>3. ASSUME NEW b \in Blocks, ScheduleBlock(b) PROVE TypeOK'
  <2>1. PICK p \in [InBlock(b) -> Procs], r \in [InBlock(b) -> 1 .. Cardinality(InBlock(b))] :
          /\ proc' = [t \in Tasks |-> IF Block[t] = b THEN p[t] ELSE proc[t]]
          /\ rank' = [t \in Tasks |-> IF Block[t] = b THEN r[t] ELSE rank[t]]
    BY <1>3 DEF ScheduleBlock
  <2>2. proc' \in [Tasks -> Procs \cup {NoProc}]
    BY <2>1 DEF InBlock
  <2>3. rank' \in [Tasks -> Nat]
    BY <2>1, RankIsNat DEF InBlock
  <2> QED
    BY <1>3, <2>2, <2>3 DEF ScheduleBlock
<1>4. ASSUME NextBlock PROVE TypeOK'
  BY <1>4 DEF NextBlock
<1>5. ASSUME NEW t \in Tasks, PopTask(t) PROVE TypeOK'
  BY <1>5 DEF PopTask
<1>6. ASSUME NEW t \in Tasks, NEW k \in Keys, WaitVersion(t, k) PROVE TypeOK'
  BY <1>6 DEF WaitVersion
<1>7. ASSUME NEW t \in Tasks, StartTask(t) PROVE TypeOK'
  BY <1>7 DEF StartTask
<1>8. ASSUME NEW t \in Tasks, RejectTask(t) PROVE TypeOK'
  BY <1>8 DEF RejectTask
<1>9. ASSUME NEW t \in Tasks, NEW W \in SUBSET Writes(t), CommitLocalWrite(t, W)
      PROVE  TypeOK'
  BY <1>9, FootprintKeys DEF CommitLocalWrite
<1>10. ASSUME NEW t \in Tasks, TotallyAbort(t) PROVE TypeOK'
  BY <1>10 DEF TotallyAbort
<1>11. ASSUME NEW t \in Tasks, NEW k \in Keys, ResolveVersion(t, k) PROVE TypeOK'
  BY <1>11 DEF ResolveVersion
<1>12. ASSUME NEW t \in Tasks, EndTask(t) PROVE TypeOK'
  BY <1>12 DEF EndTask
<1>13. ASSUME NEW t \in Tasks, NEW k \in Keys, ReadVersion(t, k) PROVE TypeOK'
  <2>1. GetVisible(k, readVersion[t][k]) \in Tids
    BY GetVisibleTid
  <2> QED
    BY <1>13, <2>1 DEF ReadVersion
<1>14. CASE UNCHANGED vars
  BY <1>14 DEF vars
<1> QED
  BY <1>1, <1>2, <1>3, <1>4, <1>5, <1>6, <1>7, <1>8, <1>9, <1>10, <1>11, <1>12,
     <1>13, <1>14 DEF Next, Line, Work, Stopped

(* Every variable keeps its type.                                          *)
THEOREM TypeCorrect == Spec => []TypeOK
  BY InitType, NextType, PTL DEF Spec

(***************************************************************************)
(* Bookkeeping of the stages.                                              *)
(***************************************************************************)

(* StageInv is inductive: what a task has waited for, read and written     *)
(* fits its stage.                                                         *)
LEMMA NextStage ==
    ASSUME TypeOK, StageInv, [Next]_vars PROVE StageInv'
<1> USE DEF TypeOK, Stages, StageInv, Begun, Reads, Writes
<1>1. ASSUME NEW b \in Blocks, PrepareBlock(b) PROVE StageInv'
  BY <1>1, BlockAssumption DEF PrepareBlock, InBlock, PastBefore
<1>2. ASSUME NEW b \in Blocks, LinkBlock(b) PROVE StageInv'
  BY <1>2, BlockAssumption DEF LinkBlock, InBlock, PastBefore
<1>3. ASSUME NEW b \in Blocks, ScheduleBlock(b) PROVE StageInv'
  BY <1>3, BlockAssumption DEF ScheduleBlock, InBlock, PastBefore
<1>4. ASSUME NextBlock PROVE StageInv'
  BY <1>4 DEF NextBlock
<1>5. ASSUME NEW t \in Tasks, PopTask(t) PROVE StageInv'
  BY <1>5 DEF PopTask
<1>6. ASSUME NEW t \in Tasks, NEW k \in Keys, WaitVersion(t, k) PROVE StageInv'
  BY <1>6 DEF WaitVersion
<1>7. ASSUME NEW t \in Tasks, StartTask(t) PROVE StageInv'
  BY <1>7 DEF StartTask
<1>8. ASSUME NEW t \in Tasks, RejectTask(t) PROVE StageInv'
  BY <1>8 DEF RejectTask
<1>9. ASSUME NEW t \in Tasks, NEW W \in SUBSET Writes(t), CommitLocalWrite(t, W) PROVE StageInv'
  BY <1>9 DEF CommitLocalWrite
<1>10. ASSUME NEW t \in Tasks, TotallyAbort(t) PROVE StageInv'
  BY <1>10 DEF TotallyAbort
<1>11. ASSUME NEW t \in Tasks, NEW k \in Keys, ResolveVersion(t, k) PROVE StageInv'
  BY <1>11 DEF ResolveVersion
<1>12. ASSUME NEW t \in Tasks, EndTask(t) PROVE StageInv'
  BY <1>12 DEF EndTask
<1>13. ASSUME NEW t \in Tasks, NEW k \in Keys, ReadVersion(t, k) PROVE StageInv'
  BY <1>13 DEF ReadVersion
<1>14. CASE UNCHANGED vars
  BY <1>14 DEF vars
<1> QED
  BY <1>1, <1>2, <1>3, <1>4, <1>5, <1>6, <1>7, <1>8, <1>9, <1>10, <1>11, <1>12, <1>13, <1>14 DEF Next, Line, Work, Stopped

(* StatusInv is inductive: a version's status fits its task's stage.       *)
LEMMA NextStatus ==
    ASSUME TypeOK, StageInv, StatusInv, [Next]_vars PROVE StatusInv'
<1> USE DEF TypeOK, Stages, Statuses, StageInv, StatusInv, Begun, Resolved, Reads, Writes
<1>1. ASSUME NEW b \in Blocks, PrepareBlock(b) PROVE StatusInv'
  BY <1>1, BlockAssumption DEF PrepareBlock, InBlock, PastBefore
<1>2. ASSUME NEW b \in Blocks, LinkBlock(b) PROVE StatusInv'
  BY <1>2, BlockAssumption DEF LinkBlock, InBlock, PastBefore
<1>3. ASSUME NEW b \in Blocks, ScheduleBlock(b) PROVE StatusInv'
  BY <1>3, BlockAssumption DEF ScheduleBlock, InBlock, PastBefore
<1>4. ASSUME NextBlock PROVE StatusInv'
  BY <1>4 DEF NextBlock
<1>5. ASSUME NEW t \in Tasks, PopTask(t) PROVE StatusInv'
  BY <1>5 DEF PopTask
<1>6. ASSUME NEW t \in Tasks, NEW k \in Keys, WaitVersion(t, k) PROVE StatusInv'
  BY <1>6 DEF WaitVersion
<1>7. ASSUME NEW t \in Tasks, StartTask(t) PROVE StatusInv'
  BY <1>7 DEF StartTask
<1>8. ASSUME NEW t \in Tasks, RejectTask(t) PROVE StatusInv'
  BY <1>8 DEF RejectTask
<1>9. ASSUME NEW t \in Tasks, NEW W \in SUBSET Writes(t), CommitLocalWrite(t, W) PROVE StatusInv'
  BY <1>9 DEF CommitLocalWrite
<1>10. ASSUME NEW t \in Tasks, TotallyAbort(t) PROVE StatusInv'
  BY <1>10 DEF TotallyAbort
<1>11. ASSUME NEW t \in Tasks, NEW k \in Keys, ResolveVersion(t, k) PROVE StatusInv'
  BY <1>11 DEF ResolveVersion
<1>12. ASSUME NEW t \in Tasks, EndTask(t) PROVE StatusInv'
  BY <1>12 DEF EndTask
<1>13. ASSUME NEW t \in Tasks, NEW k \in Keys, ReadVersion(t, k) PROVE StatusInv'
  BY <1>13 DEF ReadVersion
<1>14. CASE UNCHANGED vars
  BY <1>14 DEF vars
<1> QED
  BY <1>1, <1>2, <1>3, <1>4, <1>5, <1>6, <1>7, <1>8, <1>9, <1>10, <1>11, <1>12, <1>13, <1>14 DEF Next, Line, Work, Stopped

(* LineInv is inductive: the lines take the blocks in order.               *)
LEMMA NextLine ==
    ASSUME TypeOK, LineInv, [Next]_vars PROVE LineInv'
<1>0. pc \in [Tasks -> Stages]
  BY DEF TypeOK
<1> USE <1>0 DEF Stages, LineInv, Prepared, Linked
<1>1. ASSUME NEW b \in Blocks, PrepareBlock(b) PROVE LineInv'
  <2>1. b \in Nat /\ \A t \in Tasks : Block[t] \in Nat
    BY BlockAssumption DEF Blocks
  <2>2. \A t \in Tasks : /\ Block[t] < b => t \in Prepared
                         /\ t \in Prepared' <=> t \in Prepared \/ Block[t] = b
                         /\ t \in Linked' <=> t \in Linked
    BY <1>1 DEF PrepareBlock, InBlock, PastBefore
  <2>3. ASSUME NEW t \in Tasks, NEW u \in Tasks, t \in Prepared', Block[u] <= Block[t]
        PROVE  u \in Prepared'
    <3>1. CASE t \in Prepared
      <4>1. u \in Prepared
        BY <2>3, <3>1
      <4> QED
        BY <2>2, <4>1
    <3>2. CASE Block[t] = b
      BY <2>1, <2>2, <2>3, <3>2
    <3> QED
      BY <2>2, <2>3, <3>1, <3>2
  <2>4. ASSUME NEW t \in Tasks, NEW u \in Tasks, t \in Linked', Block[u] <= Block[t]
        PROVE  u \in Linked'
    BY <2>2, <2>4
  <2> QED
    BY <2>3, <2>4
<1>2. ASSUME NEW b \in Blocks, LinkBlock(b) PROVE LineInv'
  <2>1. b \in Nat /\ \A t \in Tasks : Block[t] \in Nat
    BY BlockAssumption DEF Blocks
  <2>2. \A t \in Tasks : /\ Block[t] < b => t \in Linked
                         /\ t \in Linked' <=> t \in Linked \/ Block[t] = b
                         /\ t \in Prepared' <=> t \in Prepared
    BY <1>2 DEF LinkBlock, InBlock, PastBefore
  <2>3. ASSUME NEW t \in Tasks, NEW u \in Tasks, t \in Linked', Block[u] <= Block[t]
        PROVE  u \in Linked'
    <3>1. CASE t \in Linked
      <4>1. u \in Linked
        BY <2>3, <3>1
      <4> QED
        BY <2>2, <4>1
    <3>2. CASE Block[t] = b
      BY <2>1, <2>2, <2>3, <3>2
    <3> QED
      BY <2>2, <2>3, <3>1, <3>2
  <2>4. ASSUME NEW t \in Tasks, NEW u \in Tasks, t \in Prepared', Block[u] <= Block[t]
        PROVE  u \in Prepared'
    BY <2>2, <2>4
  <2> QED
    BY <2>3, <2>4
<1>3. ASSUME NEW b \in Blocks, ScheduleBlock(b) PROVE LineInv'
  BY <1>3, BlockAssumption DEF ScheduleBlock, InBlock, PastBefore
<1>4. ASSUME NextBlock PROVE LineInv'
  BY <1>4 DEF NextBlock
<1>5. ASSUME NEW t \in Tasks, PopTask(t) PROVE LineInv'
  BY <1>5 DEF PopTask
<1>6. ASSUME NEW t \in Tasks, NEW k \in Keys, WaitVersion(t, k) PROVE LineInv'
  BY <1>6 DEF WaitVersion
<1>7. ASSUME NEW t \in Tasks, StartTask(t) PROVE LineInv'
  BY <1>7 DEF StartTask
<1>8. ASSUME NEW t \in Tasks, RejectTask(t) PROVE LineInv'
  BY <1>8 DEF RejectTask
<1>9. ASSUME NEW t \in Tasks, NEW W \in SUBSET Writes(t), CommitLocalWrite(t, W) PROVE LineInv'
  BY <1>9 DEF CommitLocalWrite
<1>10. ASSUME NEW t \in Tasks, TotallyAbort(t) PROVE LineInv'
  BY <1>10 DEF TotallyAbort
<1>11. ASSUME NEW t \in Tasks, NEW k \in Keys, ResolveVersion(t, k) PROVE LineInv'
  BY <1>11 DEF ResolveVersion
<1>12. ASSUME NEW t \in Tasks, EndTask(t) PROVE LineInv'
  BY <1>12 DEF EndTask
<1>13. ASSUME NEW t \in Tasks, NEW k \in Keys, ReadVersion(t, k) PROVE LineInv'
  BY <1>13 DEF ReadVersion
<1>14. CASE UNCHANGED vars
  BY <1>14 DEF vars
<1> QED
  BY <1>1, <1>2, <1>3, <1>4, <1>5, <1>6, <1>7, <1>8, <1>9, <1>10, <1>11, <1>12, <1>13, <1>14 DEF Next, Line, Work, Stopped

(* BarrierInv is inductive: execwg.Wait keeps blocks apart.                *)
LEMMA NextBarrier ==
    ASSUME TypeOK, BarrierInv, [Next]_vars PROVE BarrierInv'
<1>0. pc \in [Tasks -> Stages] /\ executing \in Nat
  BY DEF TypeOK
<1> USE <1>0 DEF Stages, BarrierInv, Busy, Ended
<1>1. ASSUME NEW b \in Blocks, PrepareBlock(b) PROVE BarrierInv'
  BY <1>1, BlockAssumption DEF PrepareBlock, InBlock, PastBefore
<1>2. ASSUME NEW b \in Blocks, LinkBlock(b) PROVE BarrierInv'
  BY <1>2, BlockAssumption DEF LinkBlock, InBlock, PastBefore
<1>3. ASSUME NEW b \in Blocks, ScheduleBlock(b) PROVE BarrierInv'
  BY <1>3, BlockAssumption DEF ScheduleBlock, InBlock, PastBefore
<1>4. ASSUME NextBlock PROVE BarrierInv'
  <2>1. \A t \in Tasks : Block[t] \in Nat
    BY BlockAssumption
  <2>2. \A t \in Tasks : Block[t] = executing => pc[t] \in Ended
    BY <1>4 DEF NextBlock, BlockFinished, InBlock
  <2>3. executing' = executing + 1 /\ pc' = pc
    BY <1>4 DEF NextBlock
  <2>4. ASSUME NEW t \in Tasks, Block[t] < executing' PROVE pc[t] \in Ended
    <3>1. Block[t] < executing \/ Block[t] = executing
      BY <2>1, <2>3, <2>4
    <3>2. Block[t] < executing => pc[t] \in Ended
      BY DEF BarrierInv
    <3> QED
      BY <2>2, <3>1, <3>2
  <2>5. \A t \in Tasks : pc[t] \notin Busy
    BY <2>2
  <2> QED
    BY <2>3, <2>4, <2>5
<1>5. ASSUME NEW t \in Tasks, PopTask(t) PROVE BarrierInv'
  BY <1>5 DEF PopTask
<1>6. ASSUME NEW t \in Tasks, NEW k \in Keys, WaitVersion(t, k) PROVE BarrierInv'
  BY <1>6 DEF WaitVersion
<1>7. ASSUME NEW t \in Tasks, StartTask(t) PROVE BarrierInv'
  BY <1>7 DEF StartTask
<1>8. ASSUME NEW t \in Tasks, RejectTask(t) PROVE BarrierInv'
  BY <1>8 DEF RejectTask
<1>9. ASSUME NEW t \in Tasks, NEW W \in SUBSET Writes(t), CommitLocalWrite(t, W) PROVE BarrierInv'
  BY <1>9 DEF CommitLocalWrite
<1>10. ASSUME NEW t \in Tasks, TotallyAbort(t) PROVE BarrierInv'
  BY <1>10 DEF TotallyAbort
<1>11. ASSUME NEW t \in Tasks, NEW k \in Keys, ResolveVersion(t, k) PROVE BarrierInv'
  BY <1>11 DEF ResolveVersion
<1>12. ASSUME NEW t \in Tasks, EndTask(t) PROVE BarrierInv'
  BY <1>12 DEF EndTask
<1>13. ASSUME NEW t \in Tasks, NEW k \in Keys, ReadVersion(t, k) PROVE BarrierInv'
  BY <1>13 DEF ReadVersion
<1>14. CASE UNCHANGED vars
  BY <1>14 DEF vars
<1> QED
  BY <1>1, <1>2, <1>3, <1>4, <1>5, <1>6, <1>7, <1>8, <1>9, <1>10, <1>11, <1>12, <1>13, <1>14 DEF Next, Line, Work, Stopped

(***************************************************************************)
(* Versions are linked to the last earlier writer.                         *)
(***************************************************************************)

(* The order of blocks follows the order of Tids.                          *)
LEMMA BlockOrder ==
    /\ Tasks \subseteq Int
    /\ \A t \in Tasks : Block[t] \in Nat /\ Snapshot < t
    /\ \A t, u \in Tasks : Block[u] < Block[t] => u < t
    /\ \A t, u \in Tasks : u < t => Block[u] <= Block[t]
<1>1. Tasks \subseteq Int /\ \A t \in Tasks : Snapshot < t
  BY NTasksAssumption DEF Tasks, Snapshot
<1>2. \A t \in Tasks : Block[t] \in Nat
  BY BlockAssumption
<1>3. ASSUME NEW t \in Tasks, NEW u \in Tasks, Block[u] < Block[t] PROVE u < t
  <2>1. ~ (t <= u)
    <3>1. t <= u => Block[t] <= Block[u]
      BY BlockAssumption
    <3> QED
      BY <3>1, <1>2, <1>3
  <2> QED
    BY <2>1, <1>1
<1>4. ASSUME NEW t \in Tasks, NEW u \in Tasks, u < t PROVE Block[u] <= Block[t]
  <2>1. u <= t
    BY <1>1, <1>4
  <2> QED
    BY <2>1, BlockAssumption
<1> QED
  BY <1>1, <1>2, <1>3, <1>4

(* What GVCLine finds prepared is exactly the blocks before the one it     *)
(* prepares.                                                               *)
LEMMA PreparedBefore ==
    ASSUME LineInv, NEW b \in Blocks, PrepareBlock(b)
    PROVE  Prepared = {u \in Tasks : Block[u] < b}
<1>1. PICK s \in Tasks : Block[s] = b
  BY DEF Blocks
<1>2. s \notin Prepared
  BY <1>1 DEF PrepareBlock, InBlock, Prepared
<1>3. ASSUME NEW u \in Tasks, u \in Prepared PROVE Block[u] < b
  <2>1. ~ (Block[s] <= Block[u])
    BY <1>2, <1>3 DEF LineInv
  <2> QED
    BY <2>1, <1>1, BlockOrder
<1>4. ASSUME NEW u \in Tasks, Block[u] < b PROVE u \in Prepared
  BY <1>4 DEF PrepareBlock, PastBefore, Prepared
<1> QED
  BY <1>3, <1>4 DEF Prepared

(* The tasks that GVCLine has dealt with after PrepareBlock(b).            *)
LEMMA PreparedAfter ==
    ASSUME TypeOK, LineInv, NEW b \in Blocks, PrepareBlock(b)
    PROVE  Prepared' = UpTo(b)
<1>1. \A u \in Tasks : u \in Prepared' <=> (u \in Prepared \/ Block[u] = b)
  BY DEF PrepareBlock, Prepared, InBlock
<1>2. b \in Nat
  BY BlockOrder DEF Blocks
<1>3. \A u \in Tasks : u \in Prepared' <=> (Block[u] < b \/ Block[u] = b)
  BY <1>1, PreparedBefore
<1>4. \A u \in Tasks : (Block[u] < b \/ Block[u] = b) <=> Block[u] <= b
  BY <1>2, BlockOrder
<1> QED
  BY <1>3, <1>4 DEF UpTo, Prepared

(* The last writer of a set, as LastOf finds it.                           *)
LEMMA LastOfIsLast ==
    ASSUME NEW S \in SUBSET Tasks, NEW k PROVE IsLast(LastOf(Writers(S, k)), S, k)
<1>1. Writers(S, k) \in SUBSET Tasks
  BY DEF Writers
<1> QED
  BY <1>1, LastOfSpec DEF IsLast

(* The batch never changes, and only GVCLine touches tails or makes a task *)
(* prepared.                                                               *)
LEMMA OthersKeepTails ==
    ASSUME TypeOK, [Next]_vars,
           ~ \E b \in Blocks : PrepareBlock(b)
    PROVE  load' = load /\ lastBlockTail' = lastBlockTail /\ Prepared' = Prepared
<1>0. pc \in [Tasks -> Stages]
  BY DEF TypeOK
<1> USE <1>0 DEF Prepared, Stages
<1>2. ASSUME NEW b \in Blocks, LinkBlock(b)
      PROVE  load' = load /\ lastBlockTail' = lastBlockTail /\ Prepared' = Prepared
  BY <1>2 DEF LinkBlock, InBlock
<1>3. ASSUME NEW b \in Blocks, ScheduleBlock(b)
      PROVE  load' = load /\ lastBlockTail' = lastBlockTail /\ Prepared' = Prepared
  BY <1>3 DEF ScheduleBlock, InBlock
<1>4. ASSUME NextBlock \/ UNCHANGED vars
      PROVE  load' = load /\ lastBlockTail' = lastBlockTail /\ Prepared' = Prepared
  BY <1>4 DEF NextBlock, vars
<1>5. ASSUME NEW t \in Tasks, Work(t)
      PROVE  load' = load /\ lastBlockTail' = lastBlockTail /\ Prepared' = Prepared
  BY <1>5 DEF Work, PopTask, WaitVersion, StartTask, RejectTask,
              CommitLocalWrite, TotallyAbort, ResolveVersion, EndTask
<1>6. ASSUME NEW t \in Tasks, NEW k \in Keys, ReadVersion(t, k)
      PROVE  load' = load /\ lastBlockTail' = lastBlockTail /\ Prepared' = Prepared
  BY <1>6 DEF ReadVersion
<1> QED
  BY <1>2, <1>3, <1>4, <1>5, <1>6 DEF Next, Line, Stopped

(* TailInv is inductive: LastBlockTail is the last prepared writer.        *)
LEMMA NextTail ==
    ASSUME TypeOK, LineInv, TailInv, [Next]_vars PROVE TailInv'
<1>1. ASSUME NEW b \in Blocks, PrepareBlock(b) PROVE TailInv'
  <2>1. load' = load /\ \A k \in Keys : lastBlockTail'[k] = LastOf(Writers(UpTo(b), k))
    BY <1>1 DEF PrepareBlock
  <2>2. \A k \in Keys : IsLast(LastOf(Writers(UpTo(b), k)), UpTo(b), k)
    BY LastOfIsLast DEF UpTo
  <2> QED
    BY <1>1, <2>1, <2>2, PreparedAfter DEF TailInv, IsLast, Writers, Writes
<1>2. CASE ~ \E b \in Blocks : PrepareBlock(b)
  BY <1>2, OthersKeepTails DEF TailInv, IsLast, Writers, Writes
<1> QED
  BY <1>1, <1>2

(* GraphLine's choice is the last writer among all earlier tasks.          *)
LEMMA LinkedVersionIsLast ==
    ASSUME NEW t \in Tasks, NEW k \in Reads(t),
           IsLast(readVersion[t][k], {u \in Tasks : Block[u] < Block[t]}, k)
    PROVE  IsLast(LinkedVersion(t, k), {u \in Tasks : u < t}, k)
<1> DEFINE ws == Writers(EarlierInBlock(t), k)
           v == LinkedVersion(t, k)
           S == {u \in Tasks : u < t}
<1>1. ws \in SUBSET Tasks /\ \A u \in ws : u < t /\ Block[u] = Block[t]
  BY DEF Writers, EarlierInBlock
<1>2. ASSUME NEW u \in Writers(S, k) PROVE u \in ws \/ Block[u] < Block[t]
  <2>1. u \in Tasks /\ u < t /\ k \in Writes(u)
    BY DEF Writers
  <2>2. Block[u] = Block[t] \/ Block[u] < Block[t]
    BY <2>1, BlockOrder
  <2> QED
    BY <2>1, <2>2 DEF Writers, EarlierInBlock
<1>3. CASE ws # {}
  <2>1. v = LastOf(ws)
    BY <1>3 DEF LinkedVersion
  <2>2. v \in ws /\ \A u \in ws : u <= v
    BY <1>1, <1>3, <2>1, LastOfSpec
  <2>3. v \in Writers(S, k)
    BY <1>1, <2>2 DEF Writers
  <2>4. ASSUME NEW u \in Writers(S, k) PROVE u <= v
    <3>1. CASE u \in ws
      BY <2>2, <3>1
    <3>2. CASE Block[u] < Block[t]
      <4>1. u \in Tasks /\ v \in Tasks /\ Block[v] = Block[t]
        BY <1>1, <2>2 DEF Writers
      <4>2. u < v
        BY <3>2, <4>1, BlockOrder
      <4>3. u \in Int /\ v \in Int
        BY <4>1, BlockOrder
      <4> HIDE DEF v
      <4> QED
        BY <4>2, <4>3
    <3> QED
      BY <1>2, <3>1, <3>2
  <2> QED
    BY <2>3, <2>4 DEF IsLast
<1>4. CASE ws = {}
  <2>1. v = readVersion[t][k]
    BY <1>4 DEF LinkedVersion
  <2>2. \A u \in Writers(S, k) : u \in Writers({w \in Tasks : Block[w] < Block[t]}, k)
    BY <1>2, <1>4 DEF Writers
  <2>3. \A u \in Tasks : Block[u] < Block[t] => u < t
    BY BlockOrder
  <2> QED
    BY <2>1, <2>2, <2>3 DEF IsLast, Writers
<1> QED
  BY <1>3, <1>4

(* The steps that neither prepare nor link leave links alone.              *)
LEMMA OthersKeepLinks ==
    ASSUME TypeOK, [Next]_vars,
           ~ \E b \in Blocks : PrepareBlock(b) \/ LinkBlock(b)
    PROVE  /\ load' = load /\ readVersion' = readVersion
           /\ \A t \in Tasks : /\ t \in Linked' <=> t \in Linked
                               /\ pc'[t] = "prepared" => pc[t] = "prepared"
<1> DEFINE P == /\ load' = load /\ readVersion' = readVersion
                /\ \A t \in Tasks : /\ t \in Linked' <=> t \in Linked
                                    /\ pc'[t] = "prepared" => pc[t] = "prepared"
<1>0. pc \in [Tasks -> Stages]
  BY DEF TypeOK
<1> USE <1>0 DEF Linked, Stages
<1>1. ASSUME NEW b \in Blocks, ScheduleBlock(b) PROVE P
  BY <1>1 DEF ScheduleBlock, InBlock
<1>2. ASSUME NextBlock \/ UNCHANGED vars PROVE P
  BY <1>2 DEF NextBlock, vars
<1>3. ASSUME NEW t \in Tasks, Work(t) PROVE P
  BY <1>3 DEF Work, PopTask, WaitVersion, StartTask, RejectTask,
              CommitLocalWrite, TotallyAbort, ResolveVersion, EndTask
<1>4. ASSUME NEW t \in Tasks, NEW k \in Keys, ReadVersion(t, k) PROVE P
  BY <1>4 DEF ReadVersion
<1> QED
  BY <1>1, <1>2, <1>3, <1>4 DEF Next, Line, Stopped

(* LinkInv is inductive: read versions are last writers.                   *)
LEMMA NextLink ==
    ASSUME TypeOK, LineInv, TailInv, LinkInv, [Next]_vars PROVE LinkInv'
<1>0. pc \in [Tasks -> Stages] /\ readVersion \in [Tasks -> [Keys -> Tids]]
  BY DEF TypeOK
<1> DEFINE Before(t) == {u \in Tasks : Block[u] < Block[t]}
           Earlier(t) == {u \in Tasks : u < t}
<1>1. ASSUME NEW b \in Blocks, PrepareBlock(b) PROVE LinkInv'
  <2>1. load' = load
    BY <1>1 DEF PrepareBlock
  <2>2. \A t \in Tasks : t \in Linked' => t \in Linked /\ readVersion'[t] = readVersion[t]
    BY <1>0, <1>1 DEF PrepareBlock, Linked, InBlock
  <2>3. ASSUME NEW t \in Tasks, NEW k \in Keys, pc'[t] = "prepared"
        PROVE  IsLast(readVersion'[t][k], Before(t), k)
    <3>1. CASE Block[t] = b
      <4>1. readVersion'[t] = lastBlockTail
        BY <1>1, <3>1 DEF PrepareBlock
      <4>2. IsLast(lastBlockTail[k], Before(t), k)
        BY <1>1, <3>1, PreparedBefore DEF TailInv
      <4> QED
        BY <4>1, <4>2
    <3>2. CASE Block[t] # b
      BY <1>1, <2>3, <3>2 DEF PrepareBlock, LinkInv
    <3> QED
      BY <3>1, <3>2
  <2> QED
    BY <2>1, <2>2, <2>3 DEF LinkInv, IsLast, Writers, Writes, Reads
<1>2. ASSUME NEW b \in Blocks, LinkBlock(b) PROVE LinkInv'
  <2>1. load' = load
    BY <1>2 DEF LinkBlock
  <2>2. ASSUME NEW t \in Tasks, NEW k \in Keys, pc'[t] = "prepared"
        PROVE  IsLast(readVersion'[t][k], Before(t), k)
    BY <1>0, <1>2, <2>2 DEF LinkBlock, LinkInv
  <2>3. ASSUME NEW t \in Tasks, NEW k \in Keys, t \in Linked', k \in Reads(t)
        PROVE  IsLast(readVersion'[t][k], Earlier(t), k)
    <3>1. CASE Block[t] = b
      <4>1. pc[t] = "prepared"
        BY <1>2, <3>1 DEF LinkBlock, InBlock
      <4>2. readVersion'[t][k] = LinkedVersion(t, k)
        BY <1>2, <3>1 DEF LinkBlock
      <4>3. IsLast(readVersion[t][k], Before(t), k)
        BY <4>1 DEF LinkInv
      <4> QED
        BY <2>3, <4>2, <4>3, LinkedVersionIsLast
    <3>2. CASE Block[t] # b
      <4>1. t \in Linked /\ readVersion'[t] = readVersion[t]
        BY <1>0, <1>2, <2>3, <3>2 DEF LinkBlock, Linked
      <4> QED
        BY <2>3, <4>1 DEF LinkInv
    <3> QED
      BY <3>1, <3>2
  <2> QED
    BY <2>1, <2>2, <2>3 DEF LinkInv, IsLast, Writers, Writes, Reads
<1>3. CASE ~ \E b \in Blocks : PrepareBlock(b) \/ LinkBlock(b)
  BY <1>3, OthersKeepLinks DEF LinkInv, IsLast, Writers, Writes, Reads
<1> QED
  BY <1>1, <1>2, <1>3

(***************************************************************************)
(* Waiting, reading, and what is settled behind a reader.                  *)
(***************************************************************************)

(* No step takes a resolution back.                                        *)
LEMMA ResolvedStays ==
    ASSUME TypeOK, StatusInv, [Next]_vars, NEW u \in Tasks, NEW x \in Keys,
           Resolved(u, x)
    PROVE  status'[u][x] = status[u][x]
<1>0. status \in [Tasks -> [Keys -> Statuses]]
  BY DEF TypeOK
<1> USE <1>0 DEF Resolved, Statuses
<1>1. ASSUME NEW b \in Blocks, PrepareBlock(b) PROVE status'[u][x] = status[u][x]
  <2>1. Block[u] # b
    BY <1>1 DEF PrepareBlock, InBlock, StatusInv
  <2> QED
    BY <1>1, <2>1 DEF PrepareBlock
<1>2. ASSUME NEW b \in Blocks, LinkBlock(b) \/ ScheduleBlock(b)
      PROVE  status'[u][x] = status[u][x]
  BY <1>2 DEF LinkBlock, ScheduleBlock
<1>3. ASSUME NEW t \in Tasks, NEW k \in Keys, ResolveVersion(t, k)
      PROVE  status'[u][x] = status[u][x]
  BY <1>3 DEF ResolveVersion
<1>4. ASSUME NEW t \in Tasks, Work(t), ~ \E k \in Keys : ResolveVersion(t, k)
      PROVE  status'[u][x] = status[u][x]
  BY <1>4 DEF Work, PopTask, WaitVersion, StartTask, RejectTask,
              CommitLocalWrite, TotallyAbort, EndTask
<1>5. ASSUME NEW t \in Tasks, NEW k \in Keys, ReadVersion(t, k)
      PROVE  status'[u][x] = status[u][x]
  BY <1>5 DEF ReadVersion
<1>6. ASSUME NextBlock \/ UNCHANGED vars PROVE status'[u][x] = status[u][x]
  BY <1>6 DEF NextBlock, vars
<1> QED
  BY <1>1, <1>2, <1>3, <1>4, <1>5, <1>6 DEF Next, Line, Stopped

(* The batch is fixed, and the read versions of a task that waits or runs  *)
(* are too.                                                                *)
LEMMA LinksStay ==
    ASSUME TypeOK, [Next]_vars
    PROVE  /\ load' = load
           /\ \A t \in Tasks : pc[t] \notin {"new", "prepared"} =>
                readVersion'[t] = readVersion[t]
<1>0. readVersion \in [Tasks -> [Keys -> Tids]]
  BY DEF TypeOK
<1>1. ASSUME NEW b \in Blocks, PrepareBlock(b) \/ LinkBlock(b)
      PROVE  /\ load' = load
             /\ \A t \in Tasks : pc[t] \notin {"new", "prepared"} =>
                  readVersion'[t] = readVersion[t]
  BY <1>0, <1>1 DEF PrepareBlock, LinkBlock, InBlock
<1>2. CASE ~ \E b \in Blocks : PrepareBlock(b) \/ LinkBlock(b)
  BY <1>2, OthersKeepLinks
<1> QED
  BY <1>1, <1>2

(* WaitInv is inductive: Wait returns for resolved versions only.          *)
LEMMA NextWait ==
    ASSUME TypeOK, StageInv, StatusInv, LineInv, LinkInv, WaitInv, [Next]_vars
    PROVE  WaitInv'
<1> SUFFICES ASSUME NEW t \in Tasks, NEW k \in waited'[t]
             PROVE  /\ k \in Reads(t)'
                    /\ (readVersion[t][k])' # Snapshot =>
                          Resolved(readVersion[t][k], k)'
  BY DEF WaitInv
<1>1. /\ load' = load
      /\ pc[t] \notin {"new", "prepared"} => readVersion'[t] = readVersion[t]
  BY LinksStay
<1>2. CASE k \in waited[t]
  <2>1. k \in Reads(t) /\ k \in Keys
    BY <1>2, FootprintKeys DEF WaitInv
  <2>2. readVersion'[t] = readVersion[t]
    BY <1>1, <1>2 DEF StageInv
  <2>3. ASSUME readVersion[t][k] # Snapshot PROVE Resolved(readVersion[t][k], k)'
    <3>1. readVersion[t][k] \in Tasks /\ Resolved(readVersion[t][k], k)
      BY <1>2, <2>1, <2>3 DEF WaitInv, TypeOK, Tids
    <3> QED
      BY <2>1, <2>2, <3>1, ResolvedStays DEF Resolved
  <2> QED
    BY <1>1, <2>1, <2>2, <2>3 DEF Reads
<1>3. CASE k \notin waited[t]
  <2>1. WaitVersion(t, k)
    <3>0. waited \in [Tasks -> SUBSET Keys]
      BY DEF TypeOK
    <3>1. \E u \in Tasks, x \in Keys : WaitVersion(u, x)
      BY <1>3 DEF Next, vars, Line, PrepareBlock, LinkBlock, ScheduleBlock,
                  NextBlock, Work, PopTask, StartTask, RejectTask,
                  CommitLocalWrite, TotallyAbort, ResolveVersion, EndTask,
                  ReadVersion, Stopped
    <3> QED
      BY <1>3, <3>0, <3>1 DEF WaitVersion
  <2>2. k \in Reads(t) /\ k \in Keys /\ pc[t] = "waiting"
    BY <2>1, FootprintKeys DEF WaitVersion
  <2>3. readVersion' = readVersion /\ status' = status
    BY <2>1 DEF WaitVersion
  <2>4. ASSUME readVersion[t][k] # Snapshot PROVE Resolved(readVersion[t][k], k)
    <3> DEFINE v == readVersion[t][k]
    <3>1. IsLast(v, {u \in Tasks : u < t}, k)
      BY <2>2 DEF LinkInv, Linked
    <3>2. v \in Tasks /\ v < t /\ k \in Writes(v)
      BY <2>4, <3>1 DEF IsLast, Writers
    <3>3. v \in Prepared
      <4>1. t \in Prepared
        BY <2>2 DEF Prepared
      <4>2. Block[v] <= Block[t]
        BY <3>2, BlockOrder
      <4> QED
        BY <3>2, <4>1, <4>2 DEF LineInv
    <3>4. status[v][k] # "none"
      BY <2>2, <3>2, <3>3 DEF StatusInv, Prepared
    <3>5. status[v][k] # "Pending"
      BY <2>1, <2>4 DEF WaitVersion, StatusOf
    <3>6. status[v][k] \in Statuses
      BY <2>2, <3>2 DEF TypeOK
    <3> QED
      BY <3>4, <3>5, <3>6 DEF Statuses, Resolved
  <2> QED
    BY <1>1, <2>2, <2>3, <2>4 DEF Reads, Resolved
<1> QED
  BY <1>2, <1>3

(* Every task that reads a key that others write also writes it only after *)
(* reading it.                                                             *)
AllReadBeforeWrite == \A w \in Workloads : ReadBeforeWrite(w)

(* A step makes t begin by StartTask only, and t stays begun.              *)
LEMMA BeginsByStart ==
    ASSUME TypeOK, [Next]_vars, NEW t \in Tasks, Begun(t)', ~ Begun(t)
    PROVE  StartTask(t)
<1>0. pc \in [Tasks -> Stages]
  BY DEF TypeOK
<1> USE <1>0 DEF Begun, Stages
<1>1. ASSUME NEW b \in Blocks, Line(b) PROVE FALSE
  BY <1>1 DEF Line, PrepareBlock, LinkBlock, ScheduleBlock, InBlock
<1>2. ASSUME NEW u \in Tasks, Work(u) PROVE StartTask(t)
  BY <1>2 DEF Work, PopTask, WaitVersion, StartTask, RejectTask,
              CommitLocalWrite, TotallyAbort, ResolveVersion, EndTask
<1>3. ASSUME NEW u \in Tasks, NEW k \in Keys, ReadVersion(u, k) PROVE FALSE
  BY <1>3 DEF ReadVersion
<1>4. ASSUME NextBlock \/ UNCHANGED vars PROVE FALSE
  BY <1>4 DEF NextBlock, vars
<1> QED
  BY <1>1, <1>2, <1>3, <1>4 DEF Next, Stopped

(* SettledInv is inductive, given read-before-write.                       *)
LEMMA NextSettled ==
    ASSUME AllReadBeforeWrite, TypeOK, StageInv, StatusInv, LinkInv, WaitInv,
           SettledInv, [Next]_vars
    PROVE  SettledInv'
<1>1. load' = load
  BY LinksStay
<1> SUFFICES ASSUME NEW t \in Tasks, NEW k \in Reads(t), Begun(t)',
                    NEW u \in Tasks, k \in Writes(u), u < t
             PROVE  Resolved(u, k)'
  BY <1>1 DEF SettledInv, Reads, Writes, Writers
<1>2. k \in Keys
  BY FootprintKeys
<1>3. Resolved(u, k)
  <2>1. CASE Begun(t)
    BY <2>1 DEF SettledInv, Writers
  <2>2. CASE ~ Begun(t)
    <3> DEFINE v == readVersion[t][k]
    <3>1. pc[t] = "waiting" /\ k \in waited[t]
      BY <2>2, BeginsByStart DEF StartTask
    <3>2. IsLast(v, {w \in Tasks : w < t}, k)
      BY <1>2, <3>1 DEF LinkInv, Linked
    <3>3. u <= v
      BY <3>2 DEF IsLast, Writers
    <3>4. v # Snapshot
      <4>1. u \in Int /\ Snapshot < u
        BY BlockOrder
      <4> HIDE DEF v
      <4> QED
        BY <3>3, <4>1 DEF Snapshot
    <3>5. v \in Tasks /\ v < t /\ k \in Writes(v)
      BY <3>2, <3>4 DEF IsLast, Writers
    <3>6. Resolved(v, k)
      BY <3>1, <3>4 DEF WaitInv
    <3>7. CASE u = v
      BY <3>6, <3>7
    <3>8. CASE u # v
      <4>1. u < v
        <5>1. u \in Int /\ v \in Int
          BY <3>5, BlockOrder
        <5> HIDE DEF v
        <5> QED
          BY <3>3, <3>8, <5>1
      <4>2. k \in Reads(v)
        BY <3>5 DEF AllReadBeforeWrite, ReadBeforeWrite, TypeOK, Reads, Writes
      <4>3. Begun(v)
        BY <1>2, <3>5, <3>6 DEF StatusInv, Begun
      <4> QED
        BY <3>5, <4>1, <4>2, <4>3 DEF SettledInv, Writers
    <3> QED
      BY <3>7, <3>8
  <2> QED
    BY <2>1, <2>2
<1> QED
  BY <1>2, <1>3, ResolvedStays DEF Resolved

(* What GetVisible finds when nothing behind the reader is Pending.        *)
LEMMA VisibleIsSerial ==
    ASSUME TypeOK, LinkInv, SettledInv,
           NEW t \in Tasks, NEW k \in Reads(t), Begun(t)
    PROVE  LET v == GetVisible(k, readVersion[t][k])
           IN  /\ \/ v = Snapshot
                  \/ v \in Writers(Tasks, k) /\ v < t /\ status[v][k] = "Committed"
               /\ \A u \in Writers(Tasks, k) : u < t =>
                     /\ Resolved(u, k)
                     /\ status[u][k] = "Committed" => u <= v
<1> DEFINE r == readVersion[t][k]
           C == {u \in Writers(Tasks, k) : u <= r /\ status[u][k] = "Committed"}
           v == GetVisible(k, r)
<1>1. C \in SUBSET Tasks
  BY DEF Writers
<1>2. v = LastOf(C)
  BY DEF GetVisible
<1>3. (v = Snapshot \/ v \in C) /\ \A u \in C : u <= v
  BY <1>1, <1>2, LastOfSpec
<1>4. IsLast(r, {u \in Tasks : u < t}, k)
  BY FootprintKeys DEF LinkInv, Linked, Begun
<1>5. ASSUME v \in C PROVE v < t
  <2>1. v \in Tasks /\ v <= r
    BY <1>5 DEF Writers
  <2>2. r = Snapshot \/ (r \in Tasks /\ r < t)
    BY <1>4 DEF IsLast, Writers
  <2> HIDE DEF v, r
  <2>3. v \in Int /\ t \in Int /\ Snapshot < t /\ (r \in Tasks => r \in Int)
    BY <2>1, BlockOrder
  <2>4. Snapshot \in Int
    BY DEF Snapshot
  <2> QED
    BY <2>1, <2>2, <2>3, <2>4
<1>6. ASSUME NEW u \in Writers(Tasks, k), u < t
      PROVE  Resolved(u, k) /\ (status[u][k] = "Committed" => u <= v)
  <2>1. Resolved(u, k)
    BY <1>6 DEF SettledInv
  <2>2. u <= r
    BY <1>4, <1>6 DEF IsLast, Writers
  <2> QED
    BY <1>3, <2>1, <2>2
<1>7. v \in C => v \in Writers(Tasks, k) /\ status[v][k] = "Committed"
  OBVIOUS
<1> QED
  BY <1>3, <1>5, <1>6, <1>7

(* SerialReads is inductive, given SettledInv.                             *)
LEMMA NextSerialReads ==
    ASSUME AllReadBeforeWrite, TypeOK, StageInv, StatusInv, LinkInv, WaitInv,
           SettledInv, SerialReads, [Next]_vars
    PROVE  SerialReads'
<1>1. load' = load
  BY LinksStay
<1> SUFFICES ASSUME NEW t \in Tasks, NEW k \in Keys, NEW v \in seen'[t][k]
             PROVE  /\ \/ v = Snapshot
                       \/ /\ v \in Writers(Tasks, k) /\ v < t
                          /\ status'[v][k] = "Committed"
                    /\ \A u \in Writers(Tasks, k) : u < t =>
                          /\ Resolved(u, k)'
                          /\ status'[u][k] = "Committed" => u <= v
  BY <1>1 DEF SerialReads, Writers, Writes
<1>2. /\ \/ v = Snapshot
         \/ v \in Writers(Tasks, k) /\ v < t /\ status[v][k] = "Committed"
      /\ \A u \in Writers(Tasks, k) : u < t =>
            /\ Resolved(u, k)
            /\ status[u][k] = "Committed" => u <= v
  <2>1. CASE v \in seen[t][k]
    BY <2>1 DEF SerialReads
  <2>2. CASE v \notin seen[t][k]
    <3>0. seen \in [Tasks -> [Keys -> SUBSET Tids]]
      BY DEF TypeOK
    <3>1. PICK u \in Tasks, x \in Keys : ReadVersion(u, x)
      BY <2>2 DEF Next, vars, Line, PrepareBlock, LinkBlock, ScheduleBlock,
                  NextBlock, Work, PopTask, WaitVersion, StartTask, RejectTask,
                  CommitLocalWrite, TotallyAbort, ResolveVersion, EndTask,
                  Stopped
    <3>2. seen' = [seen EXCEPT ![u][x] = @ \cup {GetVisible(x, readVersion[u][x])}]
      BY <3>1 DEF ReadVersion
    <3>3. u = t /\ x = k /\ v = GetVisible(k, readVersion[t][k])
      BY <2>2, <3>0, <3>2
    <3>4. k \in Reads(t) /\ Begun(t)
      BY <3>1, <3>3 DEF ReadVersion, Begun
    <3> QED
      BY <3>3, <3>4, VisibleIsSerial
  <2> QED
    BY <2>1, <2>2
<1>3. ASSUME NEW u \in Writers(Tasks, k), Resolved(u, k)
      PROVE  status'[u][k] = status[u][k]
  BY <1>3, ResolvedStays DEF Writers
<1> QED
  BY <1>2, <1>3 DEF Resolved, Writers

(***************************************************************************)
(* The invariant.                                                          *)
(***************************************************************************)

(* The bookkeeping holds at the start.                                     *)
LEMMA InitBookkeeping == Init => Bookkeeping
<1> SUFFICES ASSUME Init PROVE Bookkeeping
  OBVIOUS
<1>1. TypeOK
  BY InitType
<1>2. StageInv /\ StatusInv /\ LineInv /\ BarrierInv /\ WaitInv
  BY BlockAssumption
  DEF Init, StageInv, StatusInv, LineInv, BarrierInv, WaitInv, Begun, Resolved,
      Prepared, Linked, Busy, Ended
<1>3. TailInv /\ LinkInv
  BY DEF Init, TailInv, LinkInv, Prepared, Linked, IsLast, Writers
<1> QED
  BY <1>1, <1>2, <1>3 DEF Bookkeeping

(* The bookkeeping is inductive.                                           *)
LEMMA NextBookkeeping == Bookkeeping /\ [Next]_vars => Bookkeeping'
  BY NextType, NextStage, NextStatus, NextLine, NextBarrier, NextTail, NextLink,
     NextWait
  DEF Bookkeeping

(* The bookkeeping of stages, statuses, blocks and links is right in every *)
(* run, whatever was predicted.                                            *)
THEOREM BookkeepingCorrect == Spec => []Bookkeeping
  BY InitBookkeeping, NextBookkeeping, PTL DEF Spec

(* The inductive invariant holds at the start.                             *)
LEMMA InitIInv == Init => IInv
<1>1. Init => SettledInv /\ SerialReads
  BY DEF Init, SettledInv, SerialReads, Begun
<1> QED
  BY <1>1, InitBookkeeping DEF IInv

(* The invariant is inductive, given read-before-write.                    *)
LEMMA NextIInv ==
    ASSUME AllReadBeforeWrite PROVE IInv /\ [Next]_vars => IInv'
  BY NextBookkeeping, NextSettled, NextSerialReads DEF IInv, Bookkeeping

(* The invariant holds when predicted writers read first.                  *)
THEOREM InvariantCorrect == ASSUME AllReadBeforeWrite PROVE Spec => []IInv
<1>1. IInv /\ [Next]_vars => IInv'
  BY NextIInv
<1> QED
  BY InitIInv, <1>1, PTL DEF Spec

(* Every value a transaction is given, on any number of processors and     *)
(* under any schedule, is the one of the serial run, provided that keys    *)
(* are read before they are written.                                       *)
THEOREM SerialReadsCorrect ==
    ASSUME AllReadBeforeWrite PROVE Spec => []SerialReads
<1>1. IInv => SerialReads
  BY DEF IInv
<1> QED
  BY InvariantCorrect, <1>1, PTL

(* Dependencies on earlier blocks never block, whatever was predicted.     *)
THEOREM BarrierSettlesCorrect == Spec => []BarrierSettles
<1>1. Bookkeeping => BarrierSettles
  <2> SUFFICES ASSUME Bookkeeping, NEW t \in Tasks, pc[t] = "waiting",
                      NEW k \in Reads(t), readVersion[t][k] # Snapshot,
                      Block[readVersion[t][k]] < Block[t],
                      load[readVersion[t][k]].valid
               PROVE  Resolved(readVersion[t][k], k)
    BY DEF BarrierSettles
  <2> DEFINE v == readVersion[t][k]
  <2>0. k \in Keys
    BY FootprintKeys DEF Bookkeeping
  <2>1. v \in Tasks /\ k \in Writes(v)
    BY <2>0 DEF Bookkeeping, LinkInv, Linked, IsLast, Writers
  <2>2. Block[t] = executing
    BY DEF Bookkeeping, BarrierInv, Busy
  <2>3. pc[v] = "done"
    BY <2>1, <2>2 DEF Bookkeeping, BarrierInv, StageInv, Ended
  <2>4. status[v][k] \in Statuses /\ status[v][k] # "none" /\ status[v][k] # "Pending"
    BY <2>0, <2>1, <2>3 DEF Bookkeeping, TypeOK, StatusInv
  <2> QED
    BY <2>4 DEF Statuses, Resolved
<1> QED
  BY BookkeepingCorrect, <1>1, PTL

(* A resolved version is never touched again.                              *)
THEOREM ResolvedForGoodCorrect == Spec => ResolvedForGood
<1>1. Bookkeeping /\ [Next]_vars =>
        [\A u \in Tasks, k \in Keys : Resolved(u, k) => status'[u][k] = status[u][k]]_vars
  BY ResolvedStays DEF Bookkeeping
<1> QED
  BY BookkeepingCorrect, <1>1, PTL DEF Spec, ResolvedForGood

(* No step changes what GetVisible returns to a running task.              *)
LEMMA RepeatStep ==
    ASSUME IInv, IInv', [Next]_vars, NEW t \in Tasks, NEW k \in Reads(t),
           pc[t] = "running"
    PROVE  GetVisible(k, readVersion[t][k])' = GetVisible(k, readVersion[t][k])
<1> DEFINE r == readVersion[t][k]
<1>0. k \in Keys
  BY FootprintKeys DEF IInv, Bookkeeping
<1>1. load' = load /\ readVersion'[t] = readVersion[t]
  BY LinksStay DEF IInv, Bookkeeping
<1>2. IsLast(r, {w \in Tasks : w < t}, k)
  BY <1>0 DEF IInv, Bookkeeping, LinkInv, Linked
<1>3. ASSUME NEW u \in Writers(Tasks, k), u <= r PROVE status'[u][k] = status[u][k]
  <2>1. u \in Tasks /\ u \in Int /\ t \in Int /\ Snapshot < u
    BY BlockOrder DEF Writers
  <2>2. r = Snapshot \/ (r \in Tasks /\ r \in Int /\ r < t)
    BY <1>2, BlockOrder DEF IsLast, Writers
  <2>3. u < t
    <3> HIDE DEF r
    <3> QED
      BY <1>3, <2>1, <2>2 DEF Snapshot
  <2>4. Resolved(u, k)
    BY <2>3 DEF IInv, SettledInv, Begun
  <2> QED
    BY <1>0, <2>1, <2>4, ResolvedStays DEF IInv, Bookkeeping
<1>4. {u \in Writers(Tasks, k) : u <= r /\ status'[u][k] = "Committed"}
        = {u \in Writers(Tasks, k) : u <= r /\ status[u][k] = "Committed"}
  BY <1>3
<1>5. Writers(Tasks, k)' = Writers(Tasks, k)
  BY <1>1 DEF Writers, Writes
<1>6. GetVisible(k, readVersion[t][k])'
        = LastOf({u \in Writers(Tasks, k)' : u <= r /\ status'[u][k] = "Committed"})
  BY <1>1 DEF GetVisible, LastOf
<1> QED
  BY <1>4, <1>5, <1>6 DEF GetVisible

(* A getter called again returns the same version.                         *)
THEOREM RepeatableReadsCorrect ==
    ASSUME AllReadBeforeWrite PROVE Spec => RepeatableReads
<1>1. IInv /\ IInv' /\ [Next]_vars =>
        [\A t \in Tasks : \A k \in Reads(t) :
           pc[t] = "running" /\ pc'[t] = "running" =>
              GetVisible(k, readVersion[t][k])' = GetVisible(k, readVersion[t][k])]_vars
  BY RepeatStep
<1> QED
  BY InvariantCorrect, <1>1, PTL DEF Spec, RepeatableReads

(***************************************************************************)
(* The executor implements the serial one.                                 *)
(***************************************************************************)

(* What a finished task wrote and saw is final.                            *)
LEMMA DoneStays ==
    ASSUME TypeOK, [Next]_vars, NEW t \in Tasks, pc[t] = "done"
    PROVE  pc'[t] = "done" /\ wrote'[t] = wrote[t] /\ seen'[t] = seen[t]
<1> DEFINE P == pc'[t] = "done" /\ wrote'[t] = wrote[t] /\ seen'[t] = seen[t]
<1>0. /\ pc \in [Tasks -> Stages] /\ wrote \in [Tasks -> SUBSET Keys]
      /\ seen \in [Tasks -> [Keys -> SUBSET Tids]]
  BY DEF TypeOK
<1>1. ASSUME NEW b \in Blocks, Line(b) PROVE P
  BY <1>0, <1>1 DEF Line, PrepareBlock, LinkBlock, ScheduleBlock, InBlock
<1>2. ASSUME NEW u \in Tasks, Work(u) PROVE P
  BY <1>0, <1>2 DEF Work, PopTask, WaitVersion, StartTask, RejectTask,
              CommitLocalWrite, TotallyAbort, ResolveVersion, EndTask
<1>3. ASSUME NEW u \in Tasks, NEW k \in Keys, ReadVersion(u, k) PROVE P
  BY <1>0, <1>3 DEF ReadVersion
<1>4. ASSUME NextBlock \/ UNCHANGED vars PROVE P
  BY <1>4 DEF NextBlock, vars
<1> QED
  BY <1>1, <1>2, <1>3, <1>4 DEF Next, Stopped

(* The empty batch is the serial run that has not begun.                   *)
LEMMA SerialInit == Init => Serial!Init
<1> SUFFICES ASSUME Init PROVE Serial!Init
  OBVIOUS
<1>1. SerialDone = {}
  <2>1. \A t \in Tasks : t <= t
    BY BlockOrder
  <2> QED
    BY <2>1 DEF Init, SerialDone
<1> QED
  BY <1>1 DEF Serial!Init, SerialWrote, SerialSeen

(* Every step extends the serial run or leaves it alone.                   *)
LEMMA SerialStep ==
    ASSUME IInv, IInv', [Next]_vars
    PROVE  [Serial!Next]_(Serial!serialVars)
<1>0. TypeOK
  BY DEF IInv, Bookkeeping
<1>1. \A t \in SerialDone : pc[t] = "done"
  BY BlockOrder DEF SerialDone
<1>2. \A t \in SerialDone : /\ t \in SerialDone'
                           /\ wrote'[t] = wrote[t] /\ seen'[t] = seen[t]
  BY <1>0, <1>1, DoneStays DEF SerialDone
<1>3. CASE SerialDone' = SerialDone
  <2>1. SerialWrote' = SerialWrote /\ SerialSeen' = SerialSeen
    BY <1>2, <1>3 DEF SerialWrote, SerialSeen
  <2> QED
    BY <1>3, <2>1 DEF Serial!serialVars
<1>4. CASE SerialDone' # SerialDone
  <2> DEFINE D == SerialDone'
  <2>1. SerialDone \subseteq D /\ D \in SUBSET Tasks
    BY <1>2 DEF SerialDone
  <2>2. Serial!Prefix(D)
    <3> SUFFICES ASSUME NEW t \in D, NEW u \in Tasks, u < t PROVE u \in D
      BY DEF Serial!Prefix
    <3>1. \A w \in Tasks : w <= u => w <= t
      BY BlockOrder DEF SerialDone
    <3> QED
      BY <3>1 DEF SerialDone
  <2>3. \A t \in Tasks \ (D \ SerialDone) :
          SerialWrote'[t] = SerialWrote[t] /\ SerialSeen'[t] = SerialSeen[t]
    BY <1>2 DEF SerialWrote, SerialSeen
  <2>4. ASSUME NEW t \in D, NEW k \in Keys, NEW v \in SerialSeen'[t][k]
        PROVE  Serial!Current(SerialWrote', t, k, v)
    <3>1. t \in Tasks /\ v \in seen'[t][k]
      BY <2>1 DEF SerialSeen
    <3>2. /\ \/ v = Snapshot
             \/ v \in Writers(Tasks, k)' /\ v < t /\ status'[v][k] = "Committed"
          /\ \A u \in Writers(Tasks, k)' : u < t =>
                /\ Resolved(u, k)'
                /\ status'[u][k] = "Committed" => u <= v
      BY <3>1 DEF IInv, SerialReads
    <3>3. ASSUME NEW u \in Tasks, u < t
          PROVE  /\ SerialWrote'[u] = wrote'[u]
                 /\ k \in wrote'[u] => u \in Writers(Tasks, k)'
      <4>1. u \in D
        BY <2>2, <3>3 DEF Serial!Prefix
      <4>2. wrote'[u] \subseteq Writes(u)'
        BY DEF IInv, Bookkeeping, StageInv
      <4> QED
        BY <4>1, <4>2 DEF SerialWrote, Writers
    <3>4. v = Snapshot \/ (v \in Tasks /\ v < t /\ k \in SerialWrote'[v])
      BY <3>2, <3>3 DEF Writers, IInv, Bookkeeping, StatusInv
    <3>5. ASSUME NEW u \in Tasks, u < t, k \in SerialWrote'[u] PROVE u <= v
      <4>1. u \in Writers(Tasks, k)' /\ k \in wrote'[u]
        BY <3>3, <3>5
      <4>2. Resolved(u, k)' /\ (status'[u][k] = "Committed" => u <= v)
        BY <3>2, <3>5, <4>1
      <4>3. status'[u][k] # "Ignore"
        BY <4>1 DEF IInv, Bookkeeping, StatusInv
      <4> QED
        BY <4>2, <4>3 DEF Resolved
    <3> QED
      BY <3>4, <3>5 DEF Serial!Current
  <2>5. Serial!Advance(D)
    BY <1>4, <2>1, <2>2, <2>3, <2>4 DEF Serial!Advance
  <2> QED
    BY <2>1, <2>5 DEF Serial!Next
<1> QED
  BY <1>3, <1>4

(* Whatever the schedule and the number of processors, the results the     *)
(* concurrent executor publishes are those of executing the transactions   *)
(* one after the other, provided that keys are read before they are        *)
(* written.                                                                *)
THEOREM ExecutionImplementsSerial ==
    ASSUME AllReadBeforeWrite PROVE Spec => ImplementsSerial
<1>1. IInv /\ IInv' /\ [Next]_vars => [Serial!Next]_(Serial!serialVars)
  BY SerialStep
<1> QED
  BY InvariantCorrect, SerialInit, <1>1, PTL DEF Spec, ImplementsSerial, Serial!Spec
=============================================================================
