--------------------------- MODULE InstructionSet ---------------------------
(***************************************************************************)
(* The instruction sets of the interpreter, one for each fork: what an     *)
(* opcode costs before it is executed, what it says it takes from the      *)
(* stack and puts there, and which functions meter it.                     *)
(*                                                                         *)
(* An opcode is a pair <<name, n>>; n is the number in PUSHn, DUPn, SWAPn  *)
(* and LOGn and 0 for the others.                                          *)
(***************************************************************************)
EXTENDS Integers, Sequences

CONSTANTS
    StackLimit, \* params.StackLimit: 1024
    Pushes,     \* how many PUSH opcodes there are: 32
    Dups        \* how many DUP and how many SWAP opcodes there are: 16

CONSTANTS       \* the constant gas of package params and gas.go
    GasQuickStep, GasFastestStep, GasFastStep, GasMidStep, GasSlowStep,
    GasExtStep, JumpdestGas, Keccak256Gas,
    BalanceGasFrontier, BalanceGasEIP150, BalanceGasEIP1884,
    ExtcodeSizeGasFrontier, ExtcodeSizeGasEIP150,
    ExtcodeCopyBaseFrontier, ExtcodeCopyBaseEIP150,
    ExtcodeHashGasConstantinople, ExtcodeHashGasEIP1884,
    SloadGasFrontier, SloadGasEIP150, SloadGasEIP1884, SloadGasEIP2200,
    WarmStorageReadCostEIP2929, CreateGas, Create2Gas, CallGasFrontier,
    CallGasEIP150, SelfdestructGasEIP150

ASSUME SizeAssumption == {StackLimit, Pushes, Dups} \subseteq Nat
ASSUME ConstantGasAssumption ==
    {GasQuickStep, GasFastestStep, GasFastStep, GasMidStep, GasSlowStep,
     GasExtStep, JumpdestGas, Keccak256Gas,
     BalanceGasFrontier, BalanceGasEIP150, BalanceGasEIP1884,
     ExtcodeSizeGasFrontier, ExtcodeSizeGasEIP150,
     ExtcodeCopyBaseFrontier, ExtcodeCopyBaseEIP150,
     ExtcodeHashGasConstantinople, ExtcodeHashGasEIP1884,
     SloadGasFrontier, SloadGasEIP150, SloadGasEIP1884, SloadGasEIP2200,
     WarmStorageReadCostEIP2929, CreateGas, Create2Gas, CallGasFrontier,
     CallGasEIP150, SelfdestructGasEIP150} \subseteq Nat \ {0}

Forks == <<"Frontier", "Homestead", "TangerineWhistle", "SpuriousDragon", "Byzantium",
           "Constantinople", "Istanbul", "Berlin", "London", "Shanghai", "Napoli",
           "Cancun", "Prague">>
ForkNumber == 1 .. Len(Forks)
Number(f) == CHOOSE i \in ForkNumber : Forks[i] = f

NoFunction == "none"

(* An operation, of which execute is the name of the opcode it belongs to. *)
Operation(constantGas, numPop, numPush) ==
    [execute |-> NoFunction, constantGas |-> constantGas, dynamicGas |-> NoFunction,
     numPop |-> numPop, numPush |-> numPush, memorySize |-> NoFunction]
Metered(operation, meter) == [operation EXCEPT !.dynamicGas = meter]
InMemory(operation, meter, memory) ==
    [Metered(operation, meter) EXCEPT !.memorySize = memory]

maxStack(pop, push) == StackLimit + pop - push

(* The entries of s, and those of t that s does not replace.               *)
Merge(s, t) == [o \in DOMAIN s \cup DOMAIN t |-> IF o \in DOMAIN s THEN s[o] ELSE t[o]]
s ++ t == Merge(s, t)

Rows(names, operation) ==
    [o \in names \X {0} |-> [operation EXCEPT !.execute = o[1]]]
Row(name, operation) == Rows({name}, operation)
Numbered(name, numbers, Op(_)) ==
    [o \in {name} \X numbers |-> [Op(o[2]) EXCEPT !.execute = name]]

(* t with another price or another meter for an entry.                     *)
Repriced(t, name, price) == [t EXCEPT ![<<name, 0>>].constantGas = price]
Remetered(t, name, meter) == [t EXCEPT ![<<name, 0>>].dynamicGas = meter]
-----------------------------------------------------------------------------
(* Frontier.                                                               *)

Arithmetic ==
    Row("STOP", Operation(0, 0, 0)) ++
    Rows({"ADD", "SUB"}, Operation(GasFastestStep, 2, 1)) ++
    Rows({"MUL", "DIV", "SDIV", "MOD", "SMOD", "SIGNEXTEND"}, Operation(GasFastStep, 2, 1)) ++
    Rows({"ADDMOD", "MULMOD"}, Operation(GasMidStep, 3, 1)) ++
    Row("EXP", Metered(Operation(0, 2, 1), "gasExpFrontier"))

Comparison ==
    Rows({"LT", "GT", "SLT", "SGT", "EQ", "AND", "XOR", "OR", "BYTE"},
         Operation(GasFastestStep, 2, 1)) ++
    Rows({"ISZERO", "NOT"}, Operation(GasFastestStep, 1, 1)) ++
    Row("KECCAK256", InMemory(Operation(Keccak256Gas, 2, 1), "gasKeccak256", "memoryKeccak256"))

Environment ==
    Rows({"ADDRESS", "ORIGIN", "CALLER", "CALLVALUE", "CALLDATASIZE", "CODESIZE", "GASPRICE"},
         Operation(GasQuickStep, 0, 1)) ++
    Row("BALANCE", Operation(BalanceGasFrontier, 1, 1)) ++
    Row("EXTCODESIZE", Operation(ExtcodeSizeGasFrontier, 1, 1)) ++
    Row("CALLDATALOAD", Operation(GasFastestStep, 1, 1)) ++
    Row("CALLDATACOPY",
        InMemory(Operation(GasFastestStep, 3, 0), "gasCallDataCopy", "memoryCallDataCopy")) ++
    Row("CODECOPY",
        InMemory(Operation(GasFastestStep, 3, 0), "gasCodeCopy", "memoryCodeCopy")) ++
    Row("EXTCODECOPY",
        InMemory(Operation(ExtcodeCopyBaseFrontier, 4, 0), "gasExtCodeCopy", "memoryExtCodeCopy"))

Block ==
    Row("BLOCKHASH", Operation(GasExtStep, 1, 1)) ++
    Rows({"COINBASE", "TIMESTAMP", "NUMBER", "DIFFICULTY", "GASLIMIT"},
         Operation(GasQuickStep, 0, 1))

Flow ==
    Row("POP", Operation(GasQuickStep, 1, 0)) ++
    Row("MLOAD", InMemory(Operation(GasFastestStep, 1, 1), "gasMLoad", "memoryMLoad")) ++
    Row("MSTORE", InMemory(Operation(GasFastestStep, 2, 0), "gasMStore", "memoryMStore")) ++
    Row("MSTORE8", InMemory(Operation(GasFastestStep, 2, 0), "gasMStore8", "memoryMStore8")) ++
    Row("SLOAD", Operation(SloadGasFrontier, 1, 1)) ++
    Row("SSTORE", Metered(Operation(0, 2, 0), "gasSStore")) ++
    Row("JUMP", Operation(GasMidStep, 1, 0)) ++
    Row("JUMPI", Operation(GasSlowStep, 2, 0)) ++
    Rows({"PC", "MSIZE", "GAS"}, Operation(GasQuickStep, 0, 1)) ++
    Row("JUMPDEST", Operation(JumpdestGas, 0, 0))

Push == Numbered("PUSH", 1 .. Pushes, LAMBDA n : Operation(GasFastestStep, 0, 1))

Dup == Numbered("DUP", 1 .. Dups, LAMBDA n : Operation(GasFastestStep, n, n + 1))

Swap_SameAsDup == Numbered("SWAP", 1 .. Dups, LAMBDA n : Operation(GasFastestStep, n, n))
Swap == Numbered("SWAP", 1 .. Dups, LAMBDA n : Operation(GasFastestStep, n + 1, n + 1))

Log == Numbered("LOG", 0 .. 4, LAMBDA n : InMemory(Operation(0, n + 2, 0), "gasLog", "memoryLog"))

System ==
    Row("CREATE", InMemory(Operation(CreateGas, 3, 1), "gasCreate", "memoryCreate")) ++
    Row("CALL", InMemory(Operation(CallGasFrontier, 7, 1), "gasCall", "memoryCall")) ++
    Row("CALLCODE", InMemory(Operation(CallGasFrontier, 7, 1), "gasCallCode", "memoryCall")) ++
    Row("RETURN", InMemory(Operation(0, 2, 0), "gasReturn", "memoryReturn")) ++
    Row("SELFDESTRUCT", Metered(Operation(0, 1, 0), "gasSelfdestruct"))

(* Every other opcode.                                                     *)
Undefined == Row("undefined", Operation(0, 0, 0))

frontierInstructionSet ==
    Arithmetic ++ Comparison ++ Environment ++ Block ++ Flow ++ Push ++ Dup ++ Swap ++ Log
    ++ System ++ Undefined
-----------------------------------------------------------------------------
(* The forks, each on top of the one before: its rows and those of t that  *)
(* they do not replace.                                                    *)

Homestead(t) == Row("DELEGATECALL",
    InMemory(Operation(CallGasFrontier, 6, 1), "gasDelegateCall", "memoryDelegateCall")) ++ t

EIP150Price(name) ==
    CASE name = "BALANCE" -> BalanceGasEIP150
      [] name = "EXTCODESIZE" -> ExtcodeSizeGasEIP150
      [] name = "SLOAD" -> SloadGasEIP150
      [] name = "EXTCODECOPY" -> ExtcodeCopyBaseEIP150
      [] OTHER -> CallGasEIP150
TangerineWhistle(t) ==
    [o \in {"BALANCE", "EXTCODESIZE", "SLOAD", "EXTCODECOPY", "CALL", "CALLCODE",
            "DELEGATECALL"} \X {0} |->
        [t[o] EXCEPT !.constantGas = EIP150Price(o[1])]] ++ t

SpuriousDragon(t) == Remetered(t, "EXP", "gasExpEIP160")

Byzantium(t) ==
    Row("STATICCALL",
        InMemory(Operation(CallGasEIP150, 6, 1), "gasStaticCall", "memoryStaticCall")) ++
    Row("RETURNDATASIZE", Operation(GasQuickStep, 0, 1)) ++
    Row("RETURNDATACOPY", InMemory(Operation(GasFastestStep, 3, 0), "gasReturnDataCopy",
                                   "memoryReturnDataCopy")) ++
    Row("REVERT", InMemory(Operation(0, 2, 0), "gasRevert", "memoryRevert")) ++ t

Constantinople(t) ==
    Rows({"SHL", "SHR", "SAR"}, Operation(GasFastestStep, 2, 1)) ++
    Row("EXTCODEHASH", Operation(ExtcodeHashGasConstantinople, 1, 1)) ++
    Row("CREATE2", InMemory(Operation(Create2Gas, 4, 1), "gasCreate2", "memoryCreate2")) ++ t

enable1344(t) == Row("CHAINID", Operation(GasQuickStep, 0, 1)) ++ t
enable1884(t) ==
    Row("SELFBALANCE", Operation(GasFastStep, 0, 1)) ++
    Repriced(Repriced(Repriced(t, "SLOAD", SloadGasEIP1884), "BALANCE", BalanceGasEIP1884),
             "EXTCODEHASH", ExtcodeHashGasEIP1884)
enable2200(t) ==
    Remetered(Repriced(t, "SLOAD", SloadGasEIP2200), "SSTORE", "gasSStoreEIP2200")
Istanbul(t) == enable2200(enable1884(enable1344(t)))

(* EIP-2929: the price of an access depends on the access list.            *)
AccessPrice(name) ==
    CASE name \in {"SSTORE", "SLOAD"} -> 0
      [] name = "SELFDESTRUCT" -> SelfdestructGasEIP150
      [] OTHER -> WarmStorageReadCostEIP2929
AccessMeter(name) ==
    CASE name = "SSTORE" -> "gasSStoreEIP2929"
      [] name = "SLOAD" -> "gasSLoadEIP2929"
      [] name = "EXTCODECOPY" -> "gasExtCodeCopyEIP2929"
      [] name = "CALL" -> "gasCallEIP2929"
      [] name = "CALLCODE" -> "gasCallCodeEIP2929"
      [] name = "STATICCALL" -> "gasStaticCallEIP2929"
      [] name = "DELEGATECALL" -> "gasDelegateCallEIP2929"
      [] name = "SELFDESTRUCT" -> "gasSelfdestructEIP2929"
      [] OTHER -> "gasEip2929AccountCheck"
enable2929(t) ==
    [o \in {"SSTORE", "SLOAD", "EXTCODECOPY", "EXTCODESIZE", "EXTCODEHASH", "BALANCE", "CALL",
            "CALLCODE", "STATICCALL", "DELEGATECALL", "SELFDESTRUCT"} \X {0} |->
        [Metered(t[o], AccessMeter(o[1])) EXCEPT !.constantGas = AccessPrice(o[1])]] ++ t

enable3529(t) ==
    Remetered(Remetered(t, "SSTORE", "gasSStoreEIP3529"),
              "SELFDESTRUCT", "gasSelfdestructEIP3529")
enable3198(t) == Row("BASEFEE", Operation(GasQuickStep, 0, 1)) ++ t
London(t) == enable3198(enable3529(t))

enable3855(t) == Row("PUSH0", Operation(GasQuickStep, 0, 1)) ++ t
enable3860(t) ==
    Remetered(Remetered(t, "CREATE", "gasCreateEip3860"), "CREATE2", "gasCreate2Eip3860")
Shanghai(t) == enable3860(enable3855(t))

enable1153(t) ==
    Row("TLOAD", Operation(WarmStorageReadCostEIP2929, 1, 1)) ++
    Row("TSTORE", Operation(WarmStorageReadCostEIP2929, 2, 0)) ++ t
enable5656(t) ==
    Row("MCOPY", InMemory(Operation(GasFastestStep, 3, 0), "gasMcopy", "memoryMcopy")) ++ t
enable6780(t) == [t EXCEPT ![<<"SELFDESTRUCT", 0>>] =
    [Metered(Operation(SelfdestructGasEIP150, 1, 0), "gasSelfdestructEIP3529")
        EXCEPT !.execute = "SELFDESTRUCT6780"]]
Napoli(t) == enable6780(enable5656(enable1153(t)))

enable4844(t) == Row("BLOBHASH", Operation(GasFastestStep, 1, 1)) ++ t
enable7516(t) == Row("BLOBBASEFEE", Operation(GasQuickStep, 0, 1)) ++ t
Cancun(t) == enable7516(enable4844(t))

homesteadInstructionSet == Homestead(frontierInstructionSet)
tangerineWhistleInstructionSet == TangerineWhistle(homesteadInstructionSet)
spuriousDragonInstructionSet == SpuriousDragon(tangerineWhistleInstructionSet)
byzantiumInstructionSet == Byzantium(spuriousDragonInstructionSet)
constantinopleInstructionSet == Constantinople(byzantiumInstructionSet)
istanbulInstructionSet == Istanbul(constantinopleInstructionSet)
berlinInstructionSet == enable2929(istanbulInstructionSet)
londonInstructionSet == London(berlinInstructionSet)
shanghaiInstructionSet == Shanghai(londonInstructionSet)
napoliInstructionSet == Napoli(shanghaiInstructionSet)
cancunInstructionSet == Cancun(napoliInstructionSet)
pragueInstructionSet == cancunInstructionSet

InstructionSets == <<
    frontierInstructionSet, homesteadInstructionSet, tangerineWhistleInstructionSet,
    spuriousDragonInstructionSet, byzantiumInstructionSet, constantinopleInstructionSet,
    istanbulInstructionSet, berlinInstructionSet, londonInstructionSet,
    shanghaiInstructionSet, napoliInstructionSet, cancunInstructionSet, pragueInstructionSet >>

(* What validateAndFillMaxStack panics on at the start of the program.     *)
Validated(t) ==
    \A o \in DOMAIN t : t[o].memorySize # NoFunction => t[o].dynamicGas # NoFunction
=============================================================================
