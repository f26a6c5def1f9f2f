-------------------------- MODULE SerialExecution --------------------------
(***************************************************************************)
(* What the concurrent executor promises: its outcome is that of running   *)
(* the transactions one after the other in the order of their Tids.  The   *)
(* database is multi-versioned, so a value is named by the transaction     *)
(* that wrote it, or by Snapshot when it comes from the state the batch    *)
(* started from.  A transaction's result is the set of keys it wrote and,  *)
(* for each key it looked at, the writer whose value it saw.               *)
(***************************************************************************)
EXTENDS Integers

CONSTANTS
    Tasks,      \* transactions, integers in serial order
    Keys,       \* records: an account's balance, nonce, code, ... or a slot
    Snapshot    \* the writer that stands for the initial state

VARIABLES
    done,       \* the transactions executed so far: a prefix of the order
    wrote,      \* wrote[t]: the keys t wrote
    seen        \* seen[t][k]: the writers of k whose value t was given

serialVars == <<done, wrote, seen>>

Prefix(D) == \A t \in D, u \in Tasks : u < t => u \in D

(* w produced the value of k that is current when t is about to run.       *)
Current(W, t, k, w) ==
    /\ \/ w = Snapshot
       \/ w \in Tasks /\ w < t /\ k \in W[w]
    /\ \A u \in Tasks : u < t /\ k \in W[u] => u <= w

Init ==
    /\ done = {}
    /\ wrote = [t \in Tasks |-> {}]
    /\ seen = [t \in Tasks |-> [k \in Keys |-> {}]]

(* The next transactions of the order run, one or several at once: what    *)
(* ran before stays as it was, each newcomer saw current values only.      *)
Advance(D) ==
    /\ done \subseteq D /\ done # D
    /\ Prefix(D)
    /\ done' = D
    /\ \A t \in Tasks \ (D \ done) : wrote'[t] = wrote[t] /\ seen'[t] = seen[t]
    /\ \A t \in D \ done, k \in Keys :
          \A w \in seen'[t][k] : Current(wrote', t, k, w)

Next == \E D \in SUBSET Tasks : Advance(D)

Spec == Init /\ [][Next]_serialVars
=============================================================================
