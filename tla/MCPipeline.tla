----------------------------- MODULE MCPipeline -----------------------------
(* Small batches for model checking Pipeline: two blocks. *)
EXTENDS Pipeline, TLC

CONSTANTS balance, alive, p1, p2

MCKeys == {balance, alive}
MCProcs == {p1, p2}
MCBlock == [t \in Tasks |-> t \div 2]

(* Loading the liveness clears the balance. *)
MCDestroys == [k \in MCKeys |-> IF k = alive THEN {balance} ELSE {}]

Tx(r, w) == [reads |-> r, writes |-> w, valid |-> TRUE]
Batch(a, b, c) == [t \in Tasks |-> <<a, b, c>>[t + 1]]

Pay == Tx({balance}, {balance})
Look == Tx({balance}, {})
Refused == Tx({balance, alive}, {})

(* Payments, the last in the next block.  A payment and two destructions   *)
(* that a static call refuses, one in each block: their metering has asked *)
(* for the liveness.  A payment, a look at the balance, and in the next    *)
(* block the first to ask for the liveness: not LivenessFirst.             *)
MCWorkloads ==
    {Batch(Pay, Pay, Pay), Batch(Pay, Refused, Refused), Batch(Pay, Look, Refused)}
=============================================================================
