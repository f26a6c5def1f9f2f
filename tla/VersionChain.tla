---------------------------- MODULE VersionChain ----------------------------
(***************************************************************************)
(* The linked list behind each key of Execution's multi-version store: how *)
(* GVCLine installs a version node by node, loads the head's data from the *)
(* snapshot, and how a getter walks back along Prev without a lock.        *)
(*                                                                         *)
(* A version is named by its writer's Tid, the head by Snapshot; what      *)
(* Execution holds (Status, LastBlockTail, ReadVersions) is used from it.  *)
(***************************************************************************)
EXTENDS Execution

CONSTANTS
    Nil,        \* the nil pointer
    Destroys    \* Destroys[k]: the records that loading k clears

InstallAt == [task: Tasks, key: Keys, at: Tids]
GetterAt == [key: Keys, at: Tids]

ASSUME NilAssumption == Nil \notin Tids \cup InstallAt \cup GetterAt
ASSUME DestroysAssumption == Destroys \in [Keys -> SUBSET Keys]

VARIABLES
    next,       \* next[k][v], prev[k][v]: Version.Next and Version.Prev
    prev,
    tail,       \* VersionChain.Tail of each key
    loaded,     \* the keys whose head has Data
    clears,     \* clears[k]: how often loading has cleared what the head holds
    installing, \* the version InstallVersion is at with, or Nil
    walk        \* walk[t]: the key and version a getter of t is at, or Nil

chainVars == <<next, prev, tail, loaded, clears, installing, walk>>

ChainTypeOK ==
    /\ next \in [Keys -> [Tids -> Tids \cup {Nil}]]
    /\ prev \in [Keys -> [Tids -> Tids \cup {Nil}]]
    /\ tail \in [Keys -> Tids]
    /\ loaded \in SUBSET Keys
    /\ clears \in [Keys -> Nat]
    /\ installing \in InstallAt \cup {Nil}
    /\ walk \in [Tasks -> GetterAt \cup {Nil}]

ChainInit ==
    /\ next = [k \in Keys |-> [v \in Tids |-> Nil]]
    /\ prev = [k \in Keys |-> [v \in Tids |-> Nil]]
    /\ tail = [k \in Keys |-> Snapshot]
    /\ loaded = {}
    /\ clears = [k \in Keys |-> 0]
    /\ installing = Nil
    /\ walk = [t \in Tasks |-> Nil]
-----------------------------------------------------------------------------
(* setVersion.  The head gets what the snapshot state has, a balance as    *)
(* the very integer of the account there (GetBalance returns a pointer).   *)
(* The liveness of an account is asked for with Selfdestruct, which clears *)
(* that integer, whether the head of the balance, and the versions that    *)
(* tasks have stored since, hold it already or are given it later.         *)
SetVersion(k) ==
    /\ loaded' = loaded \cup {k}
    /\ clears' = [j \in Keys |-> clears[j] + IF j \in Destroys[k] THEN 1 ELSE 0]

DoPrefetch_IfLoaded(k) ==
    IF k \notin loaded \/ lastBlockTail[k] # Snapshot THEN UNCHANGED <<loaded, clears>>
    ELSE SetVersion(k)

DoPrefetch_Again(k) ==
    IF lastBlockTail[k] # Snapshot THEN UNCHANGED <<loaded, clears>> ELSE SetVersion(k)

(* The head is loaded unless it has been, or an earlier block wrote the    *)
(* key.                                                                    *)
DoPrefetch(k) ==
    IF k \in loaded \/ lastBlockTail[k] # Snapshot THEN UNCHANGED <<loaded, clears>>
    ELSE SetVersion(k)

(* A new version for t, at the head of the chain.                          *)
InstallVersion(t, k) ==
    /\ installing = Nil
    /\ installing' = [task |-> t, key |-> k, at |-> Snapshot]
    /\ UNCHANGED <<next, prev, tail, loaded, clears, walk>>

InsertOrNext_KeepsPrev ==
    /\ installing # Nil
    /\ LET k == installing.key
           v == installing.at
           iv == installing.task
       IN  IF next[k][v] = Nil
           THEN /\ next' = [next EXCEPT ![k][iv] = next[k][v], ![k][v] = iv]
                /\ prev' = [prev EXCEPT ![k][iv] = Snapshot]
                /\ tail' = IF next[k][v] = Nil THEN [tail EXCEPT ![k] = iv] ELSE tail
                /\ installing' = Nil
                /\ DoPrefetch(k)
           ELSE /\ installing' = [installing EXCEPT !.at = next[k][v]]
                /\ UNCHANGED <<next, prev, tail, loaded, clears>>
    /\ UNCHANGED walk

(* One turn of InstallVersion's loop.  In the middle of a chain updatePrev *)
(* compares with the node itself; versions come in the order of their      *)
(* Tids, so it never holds.  At the end the key is prefetched.             *)
InsertOrNext ==
    /\ installing # Nil
    /\ LET k == installing.key
           v == installing.at
           iv == installing.task
           updatePrev == next[k][v] # Nil /\ iv < v
       IN  IF next[k][v] = Nil \/ updatePrev
           THEN /\ next' = [next EXCEPT ![k][iv] = next[k][v], ![k][v] = iv]
                /\ prev' = [prev EXCEPT ![k][v] = IF updatePrev THEN iv ELSE @, ![k][iv] = v]
                /\ tail' = IF next[k][v] = Nil THEN [tail EXCEPT ![k] = iv] ELSE tail
                /\ installing' = Nil
                /\ DoPrefetch(k)
           ELSE /\ installing' = [installing EXCEPT !.at = next[k][v]]
                /\ UNCHANGED <<next, prev, tail, loaded, clears>>
    /\ UNCHANGED walk

(* A getter of t that finds nothing in localWrite turns to the read        *)
(* version of k.  Bound: once for each key.                                *)
StartWalk(t, k) ==
    /\ pc[t] = "running" /\ walk[t] = Nil
    /\ k \in Reads(t) /\ seen[t][k] = {}
    /\ walk' = [walk EXCEPT ![t] = [key |-> k, at |-> readVersion[t][k]]]
    /\ UNCHANGED <<next, prev, tail, loaded, clears, installing>>
    /\ UNCHANGED vars

(* GetVisible: one look at a Status, and one step back.                    *)
WalkBack(t) ==
    /\ walk[t] # Nil
    /\ LET k == walk[t].key
           v == walk[t].at
       IN  IF StatusOf(k, v) = "Committed"
           THEN /\ walk' = [walk EXCEPT ![t] = Nil]
                /\ seen' = [seen EXCEPT ![t][k] = @ \cup {v}]
           ELSE /\ walk' = [walk EXCEPT ![t].at = prev[k][v]]
                /\ UNCHANGED seen
    /\ UNCHANGED <<next, prev, tail, loaded, clears, installing>>
    /\ UNCHANGED <<load, pc, lastBlockTail, readVersion, status, proc, rank,
                   executing, waited, wrote>>
=============================================================================
