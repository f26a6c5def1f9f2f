---------------------------- MODULE MCExecution ----------------------------
(* Small batches for model checking Execution. *)
EXTENDS Execution, TLC

CONSTANTS k1, k2, p1, p2

MCKeys == {k1, k2}
MCProcs == {p1, p2}

(* PrepareTransactions with blockSize 3: a full block and the rest. *)
BlockSize == 3
MCBlock == [t \in Tasks |-> t \div BlockSize]

Tx(r, w) == [reads |-> r, writes |-> w, valid |-> TRUE]
Bad(r, w) == [reads |-> r, writes |-> w, valid |-> FALSE]

Batch(a, b, c, d) == [t \in Tasks |-> <<a, b, c, d>>[t + 1]]

RW1 == Tx({k1}, {k1})
RW12 == Tx({k1, k2}, {k1, k2})
R1W2 == Tx({k1, k2}, {k2})
R1 == Tx({k1}, {})
R2 == Tx({k2}, {})

(* Two writers of a key, a reader between them and one in the next block; a *)
(* chain of dependencies across two keys; a writer whose two versions are   *)
(* resolved apart; a rejected writer with its reader in the next block.     *)
MCWorkloads == {
    Batch(RW1, R1, RW1, R1),
    Batch(RW1, R1W2, R2, RW1),
    Batch(RW12, RW1, R1, R2),
    Batch(RW1, Bad({k1}, {k1}), R2, R1) }

(* A contract is destroyed, deployed again with CREATE2 and destroyed again *)
(* (before London).  SELFDESTRUCT reads and writes the balance (k1) and the *)
(* liveness (k2) of the contract; CreateAccount is predicted to write the   *)
(* liveness only, and nothing has read it (fullstate.go).                   *)
Destroy == Tx({k1, k2}, {k1, k2})
Create == Tx({}, {k2})
DestroyTwice == { Batch(Destroy, Create, Destroy, R1) }

(* A transaction the executing block's chain rules do not accept.           *)
RejectedWriter == { Batch(RW1, Bad({k1}, {k1}), R2, R1) }
=============================================================================
