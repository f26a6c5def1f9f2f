----------------------------- MODULE Prediction -----------------------------
(***************************************************************************)
(* What prediction records, next to what execution asks for.  generateRwSet*)
(* runs the transaction on Erigon's own EVM over StateWithRwSets; src has  *)
(* that EVM only in the copy that Calls models, so which methods it calls  *)
(* in an operation is taken from there.  Execution's Transfer, AddBalance  *)
(* and the rest then ask State for the records, and State refuses those    *)
(* that were not predicted.                                                *)
(***************************************************************************)
EXTENDS Calls

Fs == INSTANCE StateWithRwSets

(* Recorded when an operation runs to its end in prediction.               *)

Storing == Fs!And(Fs!GetState(Self), Fs!SetState(Self))

(* CanTransfer, GetCode, then Exist and Transfer or the touch of a static  *)
(* call, then GetCodeHash.  A plain account that does not exist is left    *)
(* before the transfer of nothing.                                         *)
Calling(typ, to, value) ==
    LET paying == IF value > 0 THEN Fs!GetBalance(Self) ELSE Fs!Nothing
        asking == IF typ = "CALL" /\ value > 0 THEN Fs!Empty(to) ELSE Fs!Exist(to)
        coding == IF load.kind[to] # "precompile" THEN Fs!GetCode(to) ELSE Fs!Nothing
        moving == IF typ = "STATICCALL" THEN Fs!AddBalance(to)
                  ELSE IF typ = "CALL" /\ (value > 0 \/ load.kind[to] # "plain")
                  THEN Fs!And(Fs!SubBalance(Self), Fs!AddBalance(to))
                  ELSE Fs!Nothing
        running == IF load.kind[to] = "contract" THEN Fs!GetCodeHash(to) ELSE Fs!Nothing
    IN  Fs!And(paying, Fs!And(asking, Fs!And(coding, Fs!And(moving, running))))

Creating(new) ==
    Fs!And(Fs!GetBalance(Self),
           Fs!And(Fs!And(Fs!GetNonce(Self), Fs!SetNonce(Self)), Fs!GetCodeHash(new)))

(* The metering before Berlin, then opSelfdestruct.                        *)
Destroying(b) ==
    Fs!And(Fs!And(Fs!Empty(b), Fs!And(Fs!GetBalance(Self), Fs!HasSelfdestructed(Self))),
           Fs!And(Fs!AddBalance(b), Fs!Selfdestruct(Self)))

Predicted(c) == c.reads \subseteq load.reads /\ c.writes \subseteq load.writes

(* An operation for which everything was predicted that prediction records *)
(* of it is not refused: what StateWithRwSets records and what State asks  *)
(* for are two lists kept apart (fullstate.go, state.go), and where the    *)
(* second is longer the transaction aborts although it runs as predicted.  *)
(* Left out: SELFDESTRUCT from Berlin on, whose metering writes the        *)
(* beneficiary (operations_acl.go:246), and which is recorded as nothing   *)
(* from Cancun on (fullstate.go:185).                                      *)
PredictedIsAllowed ==
    [][outcome = "running" /\ outcome' = "abort" =>
        /\ SStore => ~ Predicted(Storing)
        /\ \A a \in Accounts :
              /\ SelfDestruct(a) /\ load.fork = "Byzantium" => ~ Predicted(Destroying(a))
              /\ \A value \in 0 .. 1 :
                    /\ \A typ \in {"CREATE", "CREATE2"} :
                          Create(typ, a, value) => ~ Predicted(Creating(a))
                    /\ \A typ \in CallTypes, temp \in 0 .. GasLimit :
                          Call(typ, a, value, temp) => ~ Predicted(Calling(typ, a, value))]_vars
=============================================================================
