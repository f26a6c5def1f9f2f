---------------------------- MODULE MCLocalState ----------------------------
(* Small blocks for model checking LocalState. *)
EXTENDS LocalState

CONSTANTS a1, a2

MCAccounts == {a1, a2}

Task(from, r, w) ==
    [from |-> from,
     reads |-> {Balance(from), Nonce(from)} \cup r,
     writes |-> {Balance(from), Nonce(from)} \cup w]
Pay(from, to) == Task(from, {Balance(to)}, {Balance(to)})
Store(from, x) == Task(from, {Slot(x)}, {Slot(x)})
Kill(from, x, to) ==
    LET k == {Balance(x), Alive(x), Balance(to)} IN Task(from, k, k)
Look(from, x) == Task(from, {Balance(x), Slot(from)}, {Slot(from)})
(* A payment of which the beneficiary's part was not predicted.             *)
PayShort(from, to) == Task(from, {Balance(to), Slot(to)}, {})

Load(x, y, z) == [t \in Tasks |-> <<x, y, z>>[t + 1]]

(* Two stores that run at once and a payment that waits for both; payments  *)
(* that wait for each other; the contract a2 that is destroyed between      *)
(* payments to it; a payment that was not predicted.                        *)
MCLoads == {
    Load(Store(a1, a1), Store(a2, a2), Pay(a1, a2)),
    Load(Pay(a1, a2), Pay(a2, a1), Store(a1, a2)),
    Load(Pay(a1, a2), Kill(a1, a2, a1), Pay(a1, a2)),
    Load(PayShort(a1, a2), Pay(a1, a2), Store(a1, a2)) }

(* Two that only read a2's balance, before and after one that changes it.   *)
Readers == { Load(Look(a1, a2), Pay(a2, a2), Look(a1, a2)) }
=============================================================================
