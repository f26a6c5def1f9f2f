---------------------------- MODULE Interpreter ----------------------------
(***************************************************************************)
(* One frame of the interpreter: EVMInterpreter.Run on arbitrary code.     *)
(*                                                                         *)
(* The next opcode and the items it finds on the stack are any, so of the  *)
(* stack only its height is kept, and of the memory its length.  Each step *)
(* is one turn of the loop: validate the stack, charge the constant gas,   *)
(* size the memory, charge the dynamic gas, resize, execute.  What calls   *)
(* and creations do is Calls' matter; here they give back some of the gas  *)
(* they were given.                                                        *)
(***************************************************************************)
EXTENDS InstructionSet

CONSTANTS
    MaxUint,    \* the largest uint64
    Word,       \* bytes in a word: 32
    MaxWords,   \* the words memoryGasCost still charges for: 2^32 - 1
    Fraction,   \* a call may have all but 1/Fraction of the gas: 64
    Operands,   \* for each memorySize function, what may be on top of the stack
    Budgets     \* the gas a frame may start with

MemoryFunctions ==
    {NoFunction, "memoryKeccak256", "memoryCallDataCopy", "memoryReturnDataCopy",
     "memoryCodeCopy", "memoryExtCodeCopy", "memoryMLoad", "memoryMStore", "memoryMStore8",
     "memoryMcopy", "memoryCreate", "memoryCreate2", "memoryCall", "memoryDelegateCall",
     "memoryStaticCall", "memoryReturn", "memoryRevert", "memoryLog"}
Positions == 0 .. 6     \* from the top of the stack
Items == 0 .. 2 * MaxUint + 1       \* some fit in 64 bits and some do not

CONSTANTS       \* the dynamic gas of package params
    MemoryGas, QuadCoeffDiv, CopyGas, Keccak256WordGas, LogGas, LogTopicGas,
    LogDataGas, ExpGas, ExpByteFrontier, ExpByteEIP160, MaxInitCodeSize,
    InitCodeWordGas, SstoreSetGas, SstoreClearGas, SstoreResetGas,
    NetSstoreNoopGas, NetSstoreInitGas, NetSstoreCleanGas, NetSstoreDirtyGas,
    SstoreSentryGasEIP2200, SstoreSetGasEIP2200, SstoreResetGasEIP2200,
    ColdSloadCostEIP2929, ColdAccountAccessCostEIP2929, CallNewAccountGas,
    CallValueTransferGas, CallStipend, CreateBySelfdestructGas

ASSUME InterpreterAssumption ==
    /\ MaxUint \in Nat /\ Word \in Nat \ {0} /\ Fraction \in Nat \ {0}
    /\ MaxWords \in Nat /\ MaxWords * MaxWords <= MaxUint
    /\ Word * (MaxWords + 1) <= MaxUint
    /\ DOMAIN Operands = MemoryFunctions
    /\ \A f \in MemoryFunctions : Operands[f] # {} /\ Operands[f] \subseteq [Positions -> Items]
    /\ Budgets \subseteq 0 .. MaxUint

ASSUME DynamicGasAssumption ==
    /\ {MemoryGas, QuadCoeffDiv, CopyGas, Keccak256WordGas, LogGas, LogTopicGas,
        LogDataGas, ExpGas, ExpByteFrontier, ExpByteEIP160, MaxInitCodeSize,
        InitCodeWordGas, SstoreSetGas, SstoreClearGas, SstoreResetGas,
        NetSstoreNoopGas, NetSstoreInitGas, NetSstoreCleanGas, NetSstoreDirtyGas,
        SstoreSentryGasEIP2200, SstoreSetGasEIP2200, SstoreResetGasEIP2200,
        ColdSloadCostEIP2929, ColdAccountAccessCostEIP2929, CallNewAccountGas,
        CallValueTransferGas, CallStipend, CreateBySelfdestructGas} \subseteq Nat \ {0}
    /\ CallStipend <= CallValueTransferGas
    /\ ColdSloadCostEIP2929 < SstoreResetGasEIP2200

VARIABLES
    fork,           \* the active fork, by number
    gas,            \* Contract.Gas
    height,         \* len(Stack.Data)
    length,         \* len(Memory.store)
    lastGasCost,    \* Memory.lastGasCost
    status          \* running, or how Run ended

vars == <<fork, gas, height, length, lastGasCost, status>>

jt == InstructionSets[fork]
Active(f) == fork >= Number(f)
Ended == {"stopped", "reverted", "failed"}
Overflow == -1
Uint(x) == x % (MaxUint + 1)
IsUint(x) == x <= MaxUint

TypeOK ==
    /\ fork \in ForkNumber
    /\ gas \in 0 .. MaxUint
    /\ height \in 0 .. StackLimit
    /\ length \in 0 .. Word * MaxWords /\ length % Word = 0
    /\ lastGasCost \in 0 .. MaxUint
    /\ status \in {"running", "panic"} \cup Ended

Init ==
    /\ fork \in ForkNumber
    /\ gas \in Budgets
    /\ height = 0 /\ length = 0 /\ lastGasCost = 0
    /\ status = IF Validated(jt) THEN "running" ELSE "panic"
-----------------------------------------------------------------------------
(* How much memory an opcode asks for.                                     *)

calcMemSize64WithUint(off, l) ==
    IF l = 0 THEN 0
    ELSE LET val == Uint(off + l)
         IN  IF ~ IsUint(off) \/ val < off THEN Overflow ELSE val

calcMemSize64(off, l) ==
    IF IsUint(l) THEN calcMemSize64WithUint(off, l) ELSE Overflow

Larger(x, y) == IF Overflow \in {x, y} THEN Overflow ELSE IF x > y THEN x ELSE y

MemorySize(f, back) ==
    CASE f \in {"memoryKeccak256", "memoryReturn", "memoryRevert", "memoryLog"} ->
            calcMemSize64(back[0], back[1])
      [] f \in {"memoryCallDataCopy", "memoryReturnDataCopy", "memoryCodeCopy"} ->
            calcMemSize64(back[0], back[2])
      [] f = "memoryExtCodeCopy" -> calcMemSize64(back[1], back[3])
      [] f \in {"memoryMLoad", "memoryMStore"} -> calcMemSize64WithUint(back[0], Word)
      [] f = "memoryMStore8" -> calcMemSize64WithUint(back[0], 1)
      [] f = "memoryMcopy" -> calcMemSize64(Larger(back[0], back[1]), back[2])
      [] f \in {"memoryCreate", "memoryCreate2"} -> calcMemSize64(back[1], back[2])
      [] f = "memoryCall" ->
            Larger(calcMemSize64(back[5], back[6]), calcMemSize64(back[3], back[4]))
      [] f \in {"memoryDelegateCall", "memoryStaticCall"} ->
            Larger(calcMemSize64(back[4], back[5]), calcMemSize64(back[2], back[3]))
      [] OTHER -> 0

ToWordSize(size) ==
    IF size > MaxUint - (Word - 1) THEN MaxUint \div Word + 1
                                   ELSE (size + Word - 1) \div Word

(* The size in whole words.                                                *)
NewSize(f, back) ==
    LET size == MemorySize(f, back)
    IN  IF size = Overflow \/ ~ IsUint(ToWordSize(size) * Word) THEN Overflow
        ELSE ToWordSize(size) * Word

TotalFee(words) == Uint(words * MemoryGas + Uint(words * words) \div QuadCoeffDiv)

MemoryCharge_ForgetsLast(newMemSize) ==
    LET total == TotalFee(ToWordSize(newMemSize))
    IN  IF newMemSize > Word * MaxWords THEN [fee |-> Overflow, last |-> lastGasCost]
        ELSE IF newMemSize > length THEN [fee |-> Uint(total - lastGasCost), last |-> lastGasCost]
        ELSE [fee |-> 0, last |-> lastGasCost]

(* memoryGasCost: the fee and what lastGasCost becomes.                    *)
MemoryCharge(newMemSize) ==
    LET total == TotalFee(ToWordSize(newMemSize))
    IN  IF newMemSize > Word * MaxWords THEN [fee |-> Overflow, last |-> lastGasCost]
        ELSE IF newMemSize > length THEN [fee |-> Uint(total - lastGasCost), last |-> total]
        ELSE [fee |-> 0, last |-> lastGasCost]
-----------------------------------------------------------------------------
(* What an opcode costs beyond its constant gas: for every outcome of what *)
(* the function reads of the state, the cost, or Overflow for any error,   *)
(* and for calls the gas set aside for the callee (callGasTemp).           *)

Plus(x, y) == IF Overflow \in {x, y} \/ ~ IsUint(x + y) THEN Overflow ELSE x + y
Times(x, y) == IF IsUint(x * y) THEN x * y ELSE Overflow
PerWord(len, price) == IF IsUint(len) THEN Times(ToWordSize(len), price) ELSE Overflow

(* State's access list is a stub, every access is a warm one.              *)
AddedToAccessList == {FALSE}
(* State.Exist is true of every address that may be read.                  *)
Exists == {TRUE}
(* State.GetCommittedState is GetState.                                    *)
Committed(current) == {current}

memoryCopierGas(back, stackpos, memory) == Plus(memory, PerWord(back[stackpos], CopyGas))

gasLog(back, n, memory) ==
    IF IsUint(back[1])
    THEN Plus(Plus(memory, LogGas + n * LogTopicGas), Times(back[1], LogDataGas))
    ELSE Overflow

gasCreate2(back, memory) == Plus(memory, PerWord(back[2], Keccak256WordGas))

gasCreateEip3860(back, memory, price) ==
    IF back[2] > MaxInitCodeSize THEN Overflow
    ELSE Plus(memory, price * ToWordSize(back[2]))

(* By the number of bytes of the exponent.                                 *)
gasExp(price) == {bytes * price + ExpGas : bytes \in 0 .. Word}

(* The value stored before the transaction, the current one and the new.   *)
NetSStore(noop, create, clean, dirty) ==
    UNION {{CASE current = value -> noop
              [] current # value /\ original # current -> dirty
              [] current # value /\ original = current /\ original = 0 -> create
              [] OTHER -> clean : original \in Committed(current)} :
           current \in 0 .. 2, value \in 0 .. 2}

gasSStore ==
    LET legacy == {SstoreSetGas, SstoreClearGas, SstoreResetGas}
        net == NetSStore(NetSstoreNoopGas, NetSstoreInitGas,
                         NetSstoreCleanGas, NetSstoreDirtyGas)
    IN  IF Active("Constantinople") THEN legacy \cup net ELSE legacy

gasSStoreEIP2200(available) ==
    IF available <= SstoreSentryGasEIP2200 THEN {Overflow}
    ELSE NetSStore(SloadGasEIP2200, SstoreSetGasEIP2200,
                   SstoreResetGasEIP2200, SloadGasEIP2200)

gasSStoreEIP2929(available) ==
    IF available <= SstoreSentryGasEIP2200 THEN {Overflow}
    ELSE {(IF cold THEN ColdSloadCostEIP2929 ELSE 0) + cost :
            cold \in AddedToAccessList,
            cost \in NetSStore(WarmStorageReadCostEIP2929, SstoreSetGasEIP2200,
                               SstoreResetGasEIP2200 - ColdSloadCostEIP2929,
                               WarmStorageReadCostEIP2929)}

gasSLoadEIP2929 ==
    {IF cold THEN ColdSloadCostEIP2929 ELSE WarmStorageReadCostEIP2929 :
        cold \in AddedToAccessList}

ColdAccount(cold) ==
    IF cold THEN ColdAccountAccessCostEIP2929 - WarmStorageReadCostEIP2929 ELSE 0
gasExtCodeCopyEIP2929(back, memory) ==
    {Plus(memoryCopierGas(back, 3, memory), ColdAccount(cold)) : cold \in AddedToAccessList}
gasEip2929AccountCheck == {ColdAccount(cold) : cold \in AddedToAccessList}

gasSelfdestruct ==
    IF ~ Active("TangerineWhistle") THEN {0}
    ELSE {SelfdestructGasEIP150 + (IF new THEN CreateBySelfdestructGas ELSE 0) :
            new \in IF Active("SpuriousDragon") THEN BOOLEAN ELSE {~ e : e \in Exists}}

gasSelfdestructEIP2929 ==
    {(IF cold THEN ColdAccountAccessCostEIP2929 ELSE 0)
        + (IF new THEN CreateBySelfdestructGas ELSE 0) :
            cold \in AddedToAccessList, new \in BOOLEAN}

(* The base of a call: a new account, the transfer, the memory.            *)
CallBases(back, memory) ==
    LET value == back[2] # 0
    IN  {Plus((IF new THEN CallNewAccountGas ELSE 0)
                 + (IF value THEN CallValueTransferGas ELSE 0), memory) :
            new \in IF ~ Active("SpuriousDragon") THEN {~ e : e \in Exists}
                    ELSE IF value THEN BOOLEAN ELSE {FALSE}}
CallCodeBase(back, memory) ==
    Plus(IF back[2] # 0 THEN CallValueTransferGas ELSE 0, memory)

callGas(available, base, callCost) ==
    LET left == Uint(available - base)
        most == left - left \div Fraction
    IN  IF Active("TangerineWhistle") /\ (~ IsUint(callCost) \/ most < callCost) THEN most
        ELSE IF IsUint(callCost) THEN callCost ELSE Overflow

Free == [cost |-> 0, temp |-> 0]
Costs(set) == {[cost |-> c, temp |-> 0] : c \in set}

(* A call's cost from its base, and the same with the access list.         *)
CallCosts(bases, available, callCost) ==
    {LET temp == IF base = Overflow THEN Overflow ELSE callGas(available, base, callCost)
     IN  [cost |-> Plus(base, temp), temp |-> temp] : base \in bases}
CallVariantCosts(bases, available, callCost) ==
    UNION {LET coldCost == ColdAccount(cold)
           IN  IF available < coldCost THEN Costs({Overflow})
               ELSE {[c EXCEPT !.cost = Plus(@, coldCost)] :
                        c \in CallCosts(bases, available - coldCost, callCost)} :
                cold \in AddedToAccessList}

DynamicGas(f, n, back, memory, available) ==
    CASE f \in {"gasCallDataCopy", "gasCodeCopy", "gasMcopy", "gasReturnDataCopy"} ->
            Costs({memoryCopierGas(back, 2, memory)})
      [] f = "gasExtCodeCopy" -> Costs({memoryCopierGas(back, 3, memory)})
      [] f = "gasKeccak256" -> Costs({Plus(memory, PerWord(back[1], Keccak256WordGas))})
      [] f \in {"gasReturn", "gasRevert", "gasMLoad", "gasMStore", "gasMStore8", "gasCreate"} ->
            Costs({memory})
      [] f = "gasLog" -> Costs({gasLog(back, n, memory)})
      [] f = "gasCreate2" -> Costs({gasCreate2(back, memory)})
      [] f = "gasCreateEip3860" ->
            Costs({gasCreateEip3860(back, memory, InitCodeWordGas)})
      [] f = "gasCreate2Eip3860" ->
            Costs({gasCreateEip3860(back, memory, InitCodeWordGas + Keccak256WordGas)})
      [] f = "gasExpFrontier" -> Costs(gasExp(ExpByteFrontier))
      [] f = "gasExpEIP160" -> Costs(gasExp(ExpByteEIP160))
      [] f = "gasSStore" -> Costs(gasSStore)
      [] f = "gasSStoreEIP2200" -> Costs(gasSStoreEIP2200(available))
      [] f \in {"gasSStoreEIP2929", "gasSStoreEIP3529"} -> Costs(gasSStoreEIP2929(available))
      [] f = "gasSLoadEIP2929" -> Costs(gasSLoadEIP2929)
      [] f = "gasExtCodeCopyEIP2929" -> Costs(gasExtCodeCopyEIP2929(back, memory))
      [] f = "gasEip2929AccountCheck" -> Costs(gasEip2929AccountCheck)
      [] f = "gasSelfdestruct" -> Costs(gasSelfdestruct)
      [] f \in {"gasSelfdestructEIP2929", "gasSelfdestructEIP3529"} -> Costs(gasSelfdestructEIP2929)
      [] f = "gasCall" -> CallCosts(CallBases(back, memory), available, back[0])
      [] f = "gasCallCode" -> CallCosts({CallCodeBase(back, memory)}, available, back[0])
      [] f \in {"gasDelegateCall", "gasStaticCall"} -> CallCosts({memory}, available, back[0])
      [] f = "gasCallEIP2929" -> CallVariantCosts(CallBases(back, memory), available, back[0])
      [] f = "gasCallCodeEIP2929" ->
            CallVariantCosts({CallCodeBase(back, memory)}, available, back[0])
      [] f \in {"gasDelegateCallEIP2929", "gasStaticCallEIP2929"} ->
            CallVariantCosts({memory}, available, back[0])
      [] OTHER -> {Free}

(* How deep into the stack the metering functions look.                    *)
GasDepth(f) ==
    CASE f \in {"gasExtCodeCopy", "gasExtCodeCopyEIP2929"} -> 4
      [] f \in {"gasCallDataCopy", "gasCodeCopy", "gasMcopy", "gasReturnDataCopy",
                "gasCreate2", "gasCreateEip3860", "gasCreate2Eip3860", "gasCall",
                "gasCallCode", "gasCallEIP2929", "gasCallCodeEIP2929"} -> 3
      [] f \in {"gasKeccak256", "gasLog", "gasExpFrontier", "gasExpEIP160", "gasSStore",
                "gasSStoreEIP2200", "gasSStoreEIP2929", "gasSStoreEIP3529",
                "gasDelegateCallEIP2929", "gasStaticCallEIP2929"} -> 2
      [] f \in {"gasDelegateCall", "gasStaticCall", "gasSLoadEIP2929", "gasSelfdestruct",
                "gasEip2929AccountCheck", "gasSelfdestructEIP2929",
                "gasSelfdestructEIP3529"} -> 1
      [] OTHER -> 0
MemoryDepth(m) ==
    CASE m = "memoryCall" -> 7
      [] m \in {"memoryDelegateCall", "memoryStaticCall"} -> 6
      [] m = "memoryExtCodeCopy" -> 4
      [] m \in {"memoryCallDataCopy", "memoryReturnDataCopy", "memoryCodeCopy",
                "memoryMcopy", "memoryCreate", "memoryCreate2"} -> 3
      [] m \in {"memoryKeccak256", "memoryReturn", "memoryRevert", "memoryLog"} -> 2
      [] m \in {"memoryMLoad", "memoryMStore", "memoryMStore8"} -> 1
      [] OTHER -> 0

(* Some read a record that may not be among the predicted ones.            *)
Unpredicted(f) ==
    IF f \in {"gasSStore", "gasSStoreEIP2200", "gasSStoreEIP2929", "gasSStoreEIP3529", "gasCall",
              "gasCallEIP2929", "gasSelfdestruct", "gasSelfdestructEIP2929",
              "gasSelfdestructEIP3529"}
    THEN Costs({Overflow}) ELSE {}
-----------------------------------------------------------------------------
(* What execute does: how deep it looks into the stack, by how much the    *)
(* height changes, which ranges of the memory it touches, by the positions *)
(* of offset and length (a negative length stands for its absolute value), *)
(* and how Run may go on.                                                  *)

Effect(depth, change, ranges, next) ==
    [depth |-> depth, change |-> change, ranges |-> ranges, next |-> next]
GoOn == {"running"}
MayFail == {"running", "failed"}
Acts(names, depth, change, ranges, next) ==
    [name \in names |-> Effect(depth, change, ranges, next)]
Quiet(names, depth, change) == Acts(names, depth, change, {}, GoOn)
Reader(names, depth, change) == Acts(names, depth, change, {}, MayFail)
OnMemory(name, depth, change, ranges) == Acts({name}, depth, change, ranges, GoOn)

ArithmeticEffects == Quiet(
    {"ADD", "SUB", "MUL", "DIV", "SDIV", "MOD", "SMOD", "EXP", "SIGNEXTEND",
     "LT", "GT", "SLT", "SGT", "EQ"}, 2, -1)
BitEffects ==
    Quiet({"AND", "OR", "XOR", "BYTE", "SHL", "SHR", "SAR"}, 2, -1) ++
    Quiet({"NOT", "ISZERO"}, 1, 0) ++
    Quiet({"ADDMOD", "MULMOD"}, 3, -2)
InputEffects ==
    OnMemory("KECCAK256", 2, -1, {<<0, 1>>}) ++
    Quiet({"ADDRESS", "ORIGIN", "CALLER", "CALLVALUE", "CALLDATASIZE", "RETURNDATASIZE"}, 0, 1) ++
    Reader({"BALANCE"}, 1, 0) ++
    Quiet({"CALLDATALOAD"}, 1, 0) ++
    OnMemory("CALLDATACOPY", 3, -3, {<<0, 2>>}) ++
    Acts({"RETURNDATACOPY"}, 3, -3, {<<0, 2>>}, MayFail)
CodeEffects ==
    Reader({"EXTCODESIZE", "EXTCODEHASH"}, 1, 0) ++
    Quiet({"CODESIZE", "GASPRICE"}, 0, 1) ++
    OnMemory("CODECOPY", 3, -3, {<<0, 2>>}) ++
    Acts({"EXTCODECOPY"}, 4, -4, {<<1, 3>>}, MayFail)
BlockEffects ==
    Quiet({"BLOCKHASH"}, 1, 0) ++
    Quiet({"COINBASE", "TIMESTAMP", "NUMBER", "GASLIMIT"}, 0, 1) ++
    Reader({"DIFFICULTY"}, 0, 1)
StorageEffects ==
    Quiet({"POP"}, 1, -1) ++
    OnMemory("MLOAD", 1, 0, {<<0, -Word>>}) ++
    OnMemory("MSTORE", 2, -2, {<<0, -Word>>}) ++
    OnMemory("MSTORE8", 2, -2, {<<0, -1>>}) ++
    Reader({"SLOAD"}, 1, 0) ++
    Reader({"SSTORE"}, 2, -2)
JumpEffects ==
    Reader({"JUMP"}, 1, -1) ++
    Reader({"JUMPI"}, 2, -2) ++
    Quiet({"JUMPDEST"}, 0, 0) ++
    Quiet({"PC", "MSIZE", "GAS"}, 0, 1)
IstanbulEffects == Reader({"SELFBALANCE"}, 0, 1) ++ Quiet({"CHAINID"}, 0, 1)
TransientEffects ==
    Quiet({"TLOAD"}, 1, 0) ++
    Reader({"TSTORE"}, 2, -2) ++
    Quiet({"BASEFEE", "PUSH0"}, 0, 1)
BlobEffects ==
    Quiet({"BLOBHASH"}, 1, 0) ++
    OnMemory("MCOPY", 3, -3, {<<0, 2>>, <<1, 2>>}) ++
    Reader({"BLOBBASEFEE"}, 0, 1)
HaltEffects ==
    Acts({"STOP"}, 0, 0, {}, {"stopped"}) ++
    Acts({"undefined"}, 0, 0, {}, {"failed"}) ++
    Acts({"RETURN"}, 2, -2, {<<0, 1>>}, {"stopped"}) ++
    Acts({"REVERT"}, 2, -2, {<<0, 1>>}, {"reverted"})
DestructEffects ==
    Acts({"SELFDESTRUCT", "SELFDESTRUCT6780"}, 1, -1, {}, {"stopped", "failed"})
CreateEffects ==
    Acts({"CREATE"}, 3, -2, {<<1, 2>>}, MayFail) ++
    Acts({"CREATE2"}, 4, -3, {<<1, 2>>}, MayFail)
CallEffects ==
    Acts({"CALL", "CALLCODE"}, 7, -6, {<<3, 4>>, <<5, 6>>}, MayFail) ++
    Acts({"DELEGATECALL", "STATICCALL"}, 6, -5, {<<2, 3>>, <<4, 5>>}, MayFail)

Effects ==
    ArithmeticEffects ++ BitEffects ++ InputEffects ++ CodeEffects ++ BlockEffects
    ++ StorageEffects ++ JumpEffects ++ IstanbulEffects ++ TransientEffects ++ BlobEffects
    ++ HaltEffects ++ DestructEffects ++ CreateEffects ++ CallEffects

makePush == Effect(0, 1, {}, GoOn)
makeDup(n) == Effect(n, 1, {}, GoOn)
makeSwap(n) == Effect(n + 1, 0, {}, GoOn)
makeLog(n) == Effect(n + 2, -(n + 2), {<<0, 1>>}, MayFail)

EffectBy(execute, n) ==
    CASE execute = "PUSH" -> makePush
      [] execute = "DUP" -> makeDup(n)
      [] execute = "SWAP" -> makeSwap(n)
      [] execute = "LOG" -> makeLog(n)
      [] OTHER -> Effects[execute]
EffectOf(op, operation) == EffectBy(operation.execute, op[2])

(* The stack has all the items that execute and the metering functions     *)
(* look at.                                                                *)
Fits(op, operation) ==
    /\ EffectOf(op, operation).depth <= height
    /\ GasDepth(operation.dynamicGas) <= height
    /\ MemoryDepth(operation.memorySize) <= height

(* The slices of Memory.store that Set, Set32, GetPtr, GetCopy and Copy    *)
(* take lie in the memory of the given size.                               *)
InBounds(op, operation, back, size) ==
    \A r \in EffectOf(op, operation).ranges :
        LET off == Uint(back[r[1]])
            l == IF r[2] < 0 THEN -r[2] ELSE Uint(back[r[2]])
        IN  l = 0 \/ off + l <= size
-----------------------------------------------------------------------------
(* The loop.                                                               *)

StackValid(operation) ==
    height >= operation.numPop /\ height <= maxStack(operation.numPop, operation.numPush)

(* The stack is right and the constant gas is there.                       *)
Accepted(operation) == StackValid(operation) /\ operation.constantGas <= gas

(* What an accepted opcode may cost: a set of [size, last, cost, temp].    *)
Charges(op, operation, back) ==
    LET size == NewSize(operation.memorySize, back)
        memory == MemoryCharge(size)
        available == gas - operation.constantGas
        refused == [size |-> 0, last |-> 0, cost |-> Overflow, temp |-> 0]
    IN  IF operation.dynamicGas = NoFunction
        THEN {[size |-> 0, last |-> lastGasCost, cost |-> 0, temp |-> 0]}
        ELSE IF size = Overflow \/ memory.fee = Overflow THEN {refused}
        ELSE {[size |-> size, last |-> memory.last, cost |-> d.cost, temp |-> d.temp] :
                d \in Unpredicted(operation.dynamicGas) \cup
                      DynamicGas(operation.dynamicGas, op[2], back, memory.fee, available)}

Left(operation, charge) == gas - operation.constantGas - charge.cost
Affordable(operation, charge) == charge.cost # Overflow /\ Left(operation, charge) >= 0

Tops(operation) == Operands[operation.memorySize]

Resized(charge) == IF charge.size > length THEN charge.size ELSE length

(* Run returns an error: evm.call and create take the gas that is left.    *)
Fail(op, operation) ==
    /\ status = "running"
    /\ Accepted(operation) =>
          \E back \in Tops(operation) : \E charge \in Charges(op, operation, back) :
              ~ Affordable(operation, charge)
    /\ status' = "failed"
    /\ gas' = 0
    /\ UNCHANGED <<fork, height, length, lastGasCost>>

(* Charge, resize, execute; of the gas taken, the callee gives some back.  *)
Perform(op, operation, back, charge, returned) ==
    /\ IF Fits(op, operation) /\ InBounds(op, operation, back, Resized(charge))
       THEN /\ status' \in EffectOf(op, operation).next
            /\ height' = height + EffectOf(op, operation).change
       ELSE status' = "panic" /\ UNCHANGED height
    /\ gas' = IF status' = "failed" THEN 0 ELSE Uint(Left(operation, charge) + returned)
    /\ length' = Resized(charge)
    /\ lastGasCost' = charge.last
    /\ UNCHANGED fork

Calling == {"CALL", "CALLCODE", "DELEGATECALL", "STATICCALL"}
Creating == {"CREATE", "CREATE2"}

Execute(op, operation) ==
    /\ status = "running"
    /\ op[1] \notin Calling \cup Creating
    /\ Accepted(operation)
    /\ \E back \in Tops(operation) : \E charge \in Charges(op, operation, back) :
          Affordable(operation, charge) /\ Perform(op, operation, back, charge, 0)

Given_Always(op, back, charge) ==
    charge.temp + IF op[1] \in {"CALL", "CALLCODE"} THEN CallStipend ELSE 0

(* The gas the callee is given.                                            *)
Given(op, back, charge) ==
    charge.temp + IF op[1] \in {"CALL", "CALLCODE"} /\ back[2] # 0 THEN CallStipend ELSE 0

Call(op, operation) ==
    /\ status = "running"
    /\ op[1] \in Calling
    /\ Accepted(operation)
    /\ \E back \in Tops(operation) : \E charge \in Charges(op, operation, back) :
          /\ Affordable(operation, charge)
          /\ \E returned \in 0 .. Given(op, back, charge) :
                Perform(op, operation, back, charge, returned)

(* All the gas or all but 1/Fraction of it, of which some comes back.      *)
Create(op, operation) ==
    /\ status = "running"
    /\ op[1] \in Creating
    /\ Accepted(operation)
    /\ \E back \in Tops(operation) : \E charge \in Charges(op, operation, back) :
          /\ Affordable(operation, charge)
          /\ LET left == Left(operation, charge)
                 taken == IF op[1] = "CREATE2" \/ Active("TangerineWhistle")
                          THEN left - left \div Fraction ELSE left
             IN  \E returned \in 0 .. taken :
                    Perform(op, operation, back, charge, returned - taken)

Finished == status # "running" /\ UNCHANGED vars

Next ==
    \/ \E op \in DOMAIN jt :
          Fail(op, jt[op]) \/ Execute(op, jt[op]) \/ Call(op, jt[op]) \/ Create(op, jt[op])
    \/ Finished

Spec == Init /\ [][Next]_vars
-----------------------------------------------------------------------------
(* The table's numPop and numPush, its memorySize and what execute and the *)
(* metering functions really do agree (jump_table.go, memory_table.go,     *)
(* instructions.go): no opcode of any fork indexes the stack or the memory *)
(* out of bounds, or leaves the stack too high, on any operands; gas and   *)
(* memory stay words and whole words.                                      *)
NoPanic == TypeOK /\ status # "panic"

(* All that a running frame has paid for memory is the fee for what it has *)
(* (gas_table.go:34-60), however it has grown: never too little after a    *)
(* growth that wraps, never twice.                                         *)
MemoryPaid == status = "running" => lastGasCost = TotalFee(length \div Word)

(* An opcode after which the frame goes on has cost it some gas, whatever  *)
(* the fork, what came back from a callee with its stipend, and however    *)
(* the sums wrap (interpreter.go:245-285, gas.go:37-53): the only reason   *)
(* why every frame, and so every transaction, comes to an end.             *)
EveryStepCosts == [][status' = "running" => gas' < gas]_vars
=============================================================================
