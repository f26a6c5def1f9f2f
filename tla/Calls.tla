------------------------------- MODULE Calls --------------------------------
(***************************************************************************)
(* The frames of one transaction: EVM.call and create, the opcodes that    *)
(* enter them and those that touch the state, and how an error, a revert   *)
(* or the use of a record that was not predicted finds its way up.         *)
(*                                                                         *)
(* The state is the one the transaction sees, its local writes over its    *)
(* read versions (LocalState tells them apart).  Opcodes are metered by    *)
(* Interpreter; here a step costs Step, a call and a creation what the     *)
(* constants say, and what is set aside for a callee is any amount.        *)
(***************************************************************************)
EXTENDS Integers, Sequences, FiniteSets, Functions, SequencesExt, FiniteSetsExt

CONSTANTS
    Accounts,       \* the addresses in reach
    Start,          \* the account the message calls
    Loads,          \* the transactions: what is predicted, what is called, the fork
    CallCreateDepth,\* params.CallCreateDepth: 1024
    MaxNonce,       \* the largest uint64
    GasLimit,       \* what the message leaves for the first frame
    Step, CallCost, CallValueTransferGas, CallStipend, CreateGas,
    Fraction,       \* a creation is given all but 1/Fraction of the gas: 64
    Initial         \* Initial[a]: the balance of a

Fields == {"BALANCE", "NONCE", "CODE", "CODEHASH", "ALIVE", "SLOT"}
Keys == Accounts \X Fields
Kinds == {"contract", "plain", "precompile"}
Forks == {"Byzantium", "Berlin", "Cancun"}

(* The records it may read and write, the kind of every account (plain:    *)
(* without code) and the rules in force.                                   *)
Load == [reads: SUBSET Keys, writes: SUBSET Keys, kind: [Accounts -> Kinds], fork: Forks]

ASSUME CallsAssumption ==
    /\ IsFiniteSet(Accounts) /\ Start \in Accounts /\ Initial \in [Accounts -> Nat]
    /\ Loads \subseteq Load /\ \A l \in Loads : l.kind[Start] = "contract"
    /\ {CallCreateDepth, MaxNonce, GasLimit, CallValueTransferGas, CallStipend} \subseteq Nat
    /\ {Step, CallCost, CreateGas, Fraction} \subseteq Nat \ {0}
    /\ CallStipend <= CallValueTransferGas

VARIABLES
    load,           \* the transaction, fixed
    world,          \* the state: balance, nonce, alive and slot of each account
    frames,         \* the frames, the innermost last
    readOnly,       \* EVMInterpreter.readOnly
    depth,          \* EVMInterpreter.depth
    outcome,        \* "running", or how the innermost frame has just ended
    last,           \* the error of the call or creation that this step has ended
    refused         \* history: a read or write was refused, not by a Transfer

vars == <<load, world, frames, readOnly, depth, outcome, last, refused>>

(* alive: this transaction has not destroyed the account.                  *)
World == [balance: [Accounts -> Nat], nonce: [Accounts -> 0 .. MaxNonce],
          alive: [Accounts -> BOOLEAN], slot: [Accounts -> 0 .. 1]]
(* self: the account the code works on.                                    *)
Frame == [typ: {"CALL", "CALLCODE", "DELEGATECALL", "STATICCALL"}, self: Accounts,
          to: Accounts, gas: Nat, restore: BOOLEAN]
Errors == {"reverted", "failed", "abort"}
Refusals == {"depth", "insufficient", "overflow", "collision"}

TypeOK ==
    /\ load \in Loads
    /\ world \in World
    /\ frames \in Seq(Frame) /\ Len(frames) <= CallCreateDepth + 1
    /\ readOnly \in BOOLEAN /\ depth = Len(frames)
    /\ outcome \in {"running", "returned"} \cup Errors
    /\ last \in [err: {"none"} \cup Errors \cup Refusals, to: Accounts]
    /\ refused \in BOOLEAN

Top == Last(frames)
Gas == Top.gas
Self == Top.self
MayRead(a, f) == <<a, f>> \in load.reads
MayWrite(a, f) == <<a, f>> \in load.writes
(* Exist: some record of the account was predicted to be read.             *)
Exist(a) == \E f \in Fields : MayRead(a, f)

NoError == [err |-> "none", to |-> Start]

Init ==
    /\ load \in Loads
    /\ world = [balance |-> Initial, nonce |-> [a \in Accounts |-> 0],
                alive |-> [a \in Accounts |-> TRUE], slot |-> [a \in Accounts |-> 0]]
    /\ frames = <<[typ |-> "CALL", self |-> Start, to |-> Start, gas |-> GasLimit,
                   restore |-> FALSE]>>
    /\ readOnly = FALSE /\ depth = 1
    /\ outcome = "running" /\ last = NoError
    /\ refused = FALSE
-----------------------------------------------------------------------------
(* What the innermost frame does to itself.                                *)

Running == frames # <<>> /\ outcome = "running"
Charge(cost) == frames' = [frames EXCEPT ![Len(frames)].gas = @ - cost]
Goes(out) == outcome' = out /\ refused' = (refused \/ out = "abort")
SameFrames == UNCHANGED <<load, readOnly, depth>>

(* An opcode that ends in out or goes on, after it has made the state w.   *)
Ends(out, w, cost) ==
    /\ Charge(cost) /\ Goes(out)
    /\ world' = w
    /\ last' = NoError
    /\ SameFrames

(* STOP and RETURN; REVERT; out of gas, an undefined opcode, a bad jump.   *)
Halt == Running /\ \E out \in {"returned", "reverted", "failed"} : Ends(out, world, 0)

(* Any opcode that only reads a record: BALANCE, SLOAD, EXTCODESIZE...     *)
Read(a, f) ==
    /\ Running /\ Gas >= Step
    /\ Ends(IF MayRead(a, f) THEN "running" ELSE "abort", world, Step)

SStore_Unprotected ==
    /\ Running /\ Gas >= Step
    /\ IF ~ MayRead(Self, "SLOT") \/ ~ MayWrite(Self, "SLOT") THEN Ends("abort", world, Step)
       ELSE Ends("running", [world EXCEPT !.slot[Self] = 1 - @], Step)

(* SSTORE: the metering reads the slot, then the write is refused in a     *)
(* static call.                                                            *)
SStore ==
    /\ Running /\ Gas >= Step
    /\ IF ~ MayRead(Self, "SLOT") THEN Ends("abort", world, Step)
       ELSE IF readOnly THEN Ends("failed", world, Step)
       ELSE IF ~ MayWrite(Self, "SLOT") THEN Ends("abort", world, Step)
       ELSE Ends("running", [world EXCEPT !.slot[Self] = 1 - @], Step)

(* AddBalance and SubBalance: the balance changes in place if it may be    *)
(* read; they report whether it may be written too.                        *)
Changed(w, a, x) == IF MayRead(a, "BALANCE") THEN [w EXCEPT !.balance[a] = @ + x] ELSE w
MayChange(a) == MayRead(a, "BALANCE") /\ MayWrite(a, "BALANCE")

MayDestroy(a) == MayWrite(a, "ALIVE") /\ MayWrite(a, "BALANCE")
Destroyed(w, a) == [w EXCEPT !.balance[a] = 0, !.alive[a] = FALSE]

(* Empty reads the balance, then the nonce, then the code, until one tells.*)
MayAskEmpty(a) ==
    /\ Exist(a) /\ MayRead(a, "BALANCE")
    /\ world.balance[a] = 0 => /\ MayRead(a, "NONCE")
                               /\ world.nonce[a] = 0 => MayRead(a, "CODE")

(* What the metering of SELFDESTRUCT needs, and from Berlin on does.       *)
MayMeterDestruct(b) ==
    /\ MayAskEmpty(b) /\ MayRead(Self, "BALANCE")
    /\ IF load.fork = "Byzantium" THEN MayRead(Self, "ALIVE") ELSE MayDestroy(b)
MeteredDestruct(b) == IF load.fork = "Byzantium" THEN world ELSE Destroyed(world, b)

(* From Cancun on the balance is subtracted first, from itself, and what   *)
(* is added to the beneficiary's is what is left of it.                    *)
PaidOut(w, b) ==
    IF load.fork = "Cancun" THEN [w EXCEPT !.balance[Self] = 0]
                       ELSE Changed(w, b, w.balance[Self])

MayPayOut(b) ==
    (load.fork = "Cancun" => MayChange(Self)) /\ MayChange(b) /\ MayDestroy(Self)

SelfDestruct_KeepsBalance(b) ==
    LET w == MeteredDestruct(b)
        paid == PaidOut(w, b)
    IN  /\ Running /\ Gas >= Step
        /\ \/ ~ MayMeterDestruct(b) /\ Ends("abort", world, Step)
           \/ MayMeterDestruct(b) /\ Ends("failed", w, Step)
           \/ /\ MayMeterDestruct(b) /\ ~ readOnly
              /\ IF MayPayOut(b) THEN Ends("returned", [paid EXCEPT !.alive[Self] = FALSE], Step)
                                 ELSE Ends("abort", paid, Step)

(* A read-only frame, and one that cannot pay for a new account, fails     *)
(* when the metering has been done.                                        *)
SelfDestruct(b) ==
    LET w == MeteredDestruct(b)
        paid == PaidOut(w, b)
    IN  /\ Running /\ Gas >= Step
        /\ \/ ~ MayMeterDestruct(b) /\ Ends("abort", world, Step)
           \/ MayMeterDestruct(b) /\ Ends("failed", w, Step)
           \/ /\ MayMeterDestruct(b) /\ ~ readOnly
              /\ IF MayPayOut(b) THEN Ends("returned", Destroyed(paid, Self), Step)
                                 ELSE Ends("abort", paid, Step)

-----------------------------------------------------------------------------
(* Calls.                                                                  *)

CallTypes == {"CALL", "CALLCODE", "DELEGATECALL", "STATICCALL"}
PaysValue(typ, value) == typ \in {"CALL", "CALLCODE"} /\ value > 0

(* The call is over before it has run anything: the caller gets back what  *)
(* it had set aside.                                                       *)
Refuse(err, to, cost, given) ==
    /\ Charge(cost - given) /\ Goes("running")
    /\ last' = [err |-> err, to |-> to]
    /\ UNCHANGED world /\ SameFrames

(* Transfer looks neither at what SubBalance nor at what AddBalance says.  *)
Transferred(typ, to, value) ==
    IF typ = "CALL" /\ value > 0 THEN Changed(Changed(world, Self, -value), to, value) ELSE world

(* The reads and writes before the callee runs that abort if not predicted.*)
MayEnter(typ, to) ==
    /\ load.kind[to] # "precompile" => MayRead(to, "CODE")
    /\ typ = "CALL" => Exist(to)
    /\ typ = "STATICCALL" => MayChange(to)

(* A precompile takes some of the gas, or all of it and fails; no code is  *)
(* a success that takes none.                                              *)
Immediate(typ, to, value, cost, given) ==
    \E left \in IF load.kind[to] = "precompile" THEN 0 .. given ELSE {given},
       err \in IF load.kind[to] = "precompile" THEN {"none", "failed"} ELSE {"none"} :
        /\ err = "failed" => left = 0
        /\ Charge(cost - left) /\ Goes("running")
        /\ world' = Transferred(typ, to, value)
        /\ last' = IF err = "none" THEN NoError ELSE [err |-> err, to |-> to]
        /\ SameFrames

(* Run: the code of to, on the state of to or of the caller.               *)
Enter(typ, to, value, cost, given) ==
    /\ frames' = Append([frames EXCEPT ![Len(frames)].gas = @ - cost],
          [typ |-> typ, self |-> IF typ \in {"CALL", "STATICCALL"} THEN to ELSE Self, to |-> to,
           gas |-> given, restore |-> typ = "STATICCALL" /\ ~ readOnly])
    /\ readOnly' = (readOnly \/ typ = "STATICCALL")
    /\ depth' = depth + 1
    /\ world' = Transferred(typ, to, value)
    /\ last' = NoError
    /\ Goes("running") /\ UNCHANGED load

Price_ValueOnly(typ, value) == IF PaysValue(typ, value) THEN CallValueTransferGas ELSE 0
Price(typ, value) == CallCost + (IF PaysValue(typ, value) THEN CallValueTransferGas ELSE 0)
Given_Always(typ, value, temp) == temp + CallStipend
Given(typ, value, temp) == temp + (IF PaysValue(typ, value) THEN CallStipend ELSE 0)

TooDeep_Never == FALSE
TooDeep == depth > CallCreateDepth

Call(typ, to, value, temp) ==
    LET cost == Price(typ, value) + temp
        given == Given(typ, value, temp)
    IN  /\ Running /\ Gas >= cost
        /\ value > 0 => PaysValue(typ, value)
        /\ IF typ = "CALL" /\ value > 0 /\ ~ MayAskEmpty(to) THEN Ends("abort", world, 0)
           ELSE IF typ = "CALL" /\ value > 0 /\ readOnly THEN Ends("failed", world, cost)
           ELSE IF TooDeep THEN Refuse("depth", to, cost, given)
           ELSE IF value > 0 /\ ~ MayRead(Self, "BALANCE") THEN Ends("abort", world, cost)
           ELSE IF value > world.balance[Self] THEN Refuse("insufficient", to, cost, given)
           ELSE IF ~ MayEnter(typ, to) THEN Ends("abort", world, cost)
           ELSE IF load.kind[to] # "contract" THEN Immediate(typ, to, value, cost, given)
           ELSE IF ~ MayRead(to, "CODEHASH")
                THEN Ends("abort", Transferred(typ, to, value), cost)
           ELSE Enter(typ, to, value, cost, given)

(* create up to the collision; Create, not Create2, has read the nonce for *)
(* the address before it.  What would follow is out of reach: the nonce    *)
(* has just been incremented and is not 0.                                 *)
Create(typ, new, value) ==
    LET given == (Gas - CreateGas) - (Gas - CreateGas) \div Fraction
        nonce == world.nonce[Self] + 1
        bumped == [world EXCEPT !.nonce[Self] = nonce]
    IN  /\ Running /\ Gas >= CreateGas
        /\ IF readOnly THEN Ends("failed", world, CreateGas)
           ELSE IF typ = "CREATE" /\ ~ MayRead(Self, "NONCE") THEN Ends("abort", world, CreateGas)
           ELSE IF TooDeep THEN Refuse("depth", new, CreateGas, 0)
           ELSE IF ~ MayRead(Self, "BALANCE") THEN Ends("abort", world, CreateGas)
           ELSE IF value > world.balance[Self] THEN Refuse("insufficient", new, CreateGas, 0)
           ELSE IF ~ MayRead(Self, "NONCE") THEN Ends("abort", world, CreateGas)
           ELSE IF nonce > MaxNonce THEN Refuse("overflow", new, CreateGas, 0)
           ELSE IF ~ MayWrite(Self, "NONCE") THEN Ends("abort", world, CreateGas)
           ELSE IF ~ MayRead(new, "CODEHASH") THEN Ends("abort", bumped, CreateGas)
           ELSE /\ nonce # 0 \/ load.kind[new] = "contract"
                /\ Charge(CreateGas + given) /\ Goes("running")
                /\ world' = bumped
                /\ last' = [err |-> "collision", to |-> new]
                /\ SameFrames

(* The gas that evm.call hands back.                                       *)
LeftOver == IF outcome \in {"returned", "reverted"} THEN Gas ELSE 0

(* Run's deferred function, the end of evm.call, and of the opcode that    *)
(* made the call, which passes an abort on.  No snapshot is reverted to.   *)
Return_SwallowsAbort ==
    /\ frames # <<>> /\ outcome # "running"
    /\ readOnly' = IF Top.restore THEN FALSE ELSE readOnly
    /\ depth' = depth - 1
    /\ last' = IF outcome = "returned" THEN NoError ELSE [err |-> outcome, to |-> Top.to]
    /\ frames' = IF Len(frames) = 1 THEN <<>>
                 ELSE [Front(frames) EXCEPT ![Len(frames) - 1].gas = @ + LeftOver]
    /\ outcome' = IF Len(frames) = 1 THEN outcome ELSE "running"
    /\ UNCHANGED <<load, world, refused>>

Return_ClearsReadOnly ==
    /\ frames # <<>> /\ outcome # "running"
    /\ readOnly' = IF Top.typ = "STATICCALL" THEN FALSE ELSE readOnly
    /\ depth' = depth - 1
    /\ last' = IF outcome = "returned" THEN NoError ELSE [err |-> outcome, to |-> Top.to]
    /\ frames' = IF Len(frames) = 1 THEN <<>>
                 ELSE [Front(frames) EXCEPT ![Len(frames) - 1].gas = @ + LeftOver]
    /\ outcome' = IF Len(frames) = 1 \/ outcome = "abort" THEN outcome ELSE "running"
    /\ UNCHANGED <<load, world, refused>>

Return ==
    /\ frames # <<>> /\ outcome # "running"
    /\ readOnly' = IF Top.restore THEN FALSE ELSE readOnly
    /\ depth' = depth - 1
    /\ last' = IF outcome = "returned" THEN NoError ELSE [err |-> outcome, to |-> Top.to]
    /\ frames' = IF Len(frames) = 1 THEN <<>>
                 ELSE [Front(frames) EXCEPT ![Len(frames) - 1].gas = @ + LeftOver]
    /\ outcome' = IF Len(frames) = 1 \/ outcome = "abort" THEN outcome ELSE "running"
    /\ UNCHANGED <<load, world, refused>>

Finished == frames = <<>> /\ UNCHANGED vars

Next ==
    \/ Halt
    \/ SStore
    \/ \E a \in Accounts :
          \/ \E f \in Fields : Read(a, f)
          \/ SelfDestruct(a)
          \/ \E value \in 0 .. 1 :
                \/ \E typ \in {"CREATE", "CREATE2"} : Create(typ, a, value)
                \/ \E typ \in CallTypes, temp \in 0 .. GasLimit : Call(typ, a, value, temp)
    \/ Return
    \/ Finished

Spec == Init /\ [][Next]_vars /\ WF_vars(Next)
-----------------------------------------------------------------------------
(* The read-only flag is up exactly while a static call is under way,      *)
(* however static and other calls are nested and however they end          *)
(* (interpreter.go:218-242).                                               *)
ReadOnlyExact == readOnly = (\E i \in DOMAIN frames : frames[i].typ = "STATICCALL")

(* What is inductive about it: the flag is taken down by the outermost of  *)
(* the static calls that are under way, which is the one that put it up.   *)
RestoreInv ==
    \A i \in DOMAIN frames :
        frames[i].restore <=> /\ frames[i].typ = "STATICCALL"
                              /\ \A j \in 1 .. i - 1 : frames[j].typ # "STATICCALL"
IInv == TypeOK /\ ReadOnlyExact /\ RestoreInv

(* The use of a record that was not predicted is never lost on the way up: *)
(* it ends all the frames, and the transaction (instructions.go:776 and    *)
(* its like, evm.go).                                                      *)
AbortIsFinal == refused => outcome = "abort"

(* What sits in the frames and what comes back from a call, a failed       *)
(* creation and a precompile is never more than what was charged for it,   *)
(* stipends included (instructions.go:757-784, evm.go:289-307).            *)
GasIn(fs) == SumFunction([i \in DOMAIN fs |-> fs[i].gas])
GasNeverMade == [][GasIn(frames') <= GasIn(frames)]_vars

(* No sequence of transfers and destructions that is not aborted makes     *)
(* money, whatever was predicted, also when an account is destroyed twice  *)
(* or for its own benefit (core/evm.go:146-157, instructions.go:917-975).  *)
NoMoneyMade ==
    [][outcome' # "abort" =>
          SumFunction(world'.balance) <= SumFunction(world.balance)]_vars

(* Before Berlin nothing changes in a static call (evm.go:338-344).        *)
StaticIsPureBeforeBerlin ==
    [][readOnly /\ load.fork = "Byzantium" => UNCHANGED world]_vars

(* The transaction ends whatever its code calls, to whatever depth: a      *)
(* processor that took it gets to the next one.                            *)
Halts == <>(frames = <<>>)

(* "Ensure there's no existing contract already at the designated address" *)
(* (evm.go:416): a creation that fails on a collision has met a contract.  *)
CollisionMeansContract == last.err = "collision" => load.kind[last.to] = "contract"
=============================================================================
