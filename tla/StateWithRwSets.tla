-------------------------- MODULE StateWithRwSets --------------------------
(***************************************************************************)
(* The state that a transaction is predicted on: every method of           *)
(* StateWithRwSets, by what it adds to the read set and to the write set   *)
(* before it passes the call on to Erigon's state.  The names are those of *)
(* the methods; those not here (refunds, logs, snapshots, access lists,    *)
(* transient storage) record nothing.                                      *)
(***************************************************************************)
Nothing == [reads |-> {}, writes |-> {}]

(* What two calls record.                                                  *)
And(c, d) == [reads |-> c.reads \cup d.reads, writes |-> c.writes \cup d.writes]

Read(a, F) == [reads |-> {a} \X F, writes |-> {}]
Written(a, F) == [reads |-> {}, writes |-> {a} \X F]

GetBalance(a) == Read(a, {"BALANCE"})
GetNonce(a) == Read(a, {"NONCE"})
GetCodeHash(a) == Read(a, {"CODEHASH"})
GetCode(a) == Read(a, {"CODE"})
GetState(a) == Read(a, {"SLOT"})
HasSelfdestructed(a) == Read(a, {"ALIVE"})
Exist(a) == Nothing
Empty(a) == Read(a, {"BALANCE", "NONCE", "CODE"})

AddBalance_NoWrite(a) == Read(a, {"BALANCE"})
AddBalance(a) == And(Read(a, {"BALANCE"}), Written(a, {"BALANCE"}))
SubBalance(a) == And(Read(a, {"BALANCE"}), Written(a, {"BALANCE"}))
SetBalance(a) == Written(a, {"BALANCE"})
SetNonce(a) == Written(a, {"NONCE"})
SetCode(a) == Written(a, {"CODE", "CODEHASH"})
SetState(a) == Written(a, {"SLOT"})
CreateAccount(a) == Written(a, {"ALIVE"})
Selfdestruct(a) == Written(a, {"ALIVE", "BALANCE"})
Selfdestruct6780(a) == Nothing
=============================================================================
