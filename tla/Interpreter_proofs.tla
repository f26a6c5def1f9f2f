------------------------- MODULE Interpreter_proofs -------------------------
(***************************************************************************)
(* Proofs about one frame of the interpreter, for any code, any operands,  *)
(* any schedule of gas and any width of a word.                            *)
(*                                                                         *)
(* First the memory and what has been paid for it.  Then the tables: that  *)
(* every row of every fork's table is right about the function it calls    *)
(* (Entry), from the rows of Frontier on, fork by fork.  Then what a turn  *)
(* of the loop may touch and what it costs, and from these the theorems.   *)
(***************************************************************************)
EXTENDS Interpreter, TLAPS

(***************************************************************************)
(* Words of memory.                                                        *)
(***************************************************************************)

(* The constants, one by one.                                              *)
LEMMA Sizes ==
    /\ MaxUint \in Nat /\ MaxWords \in Nat
    /\ Word \in Nat /\ Word > 0
    /\ Word * (MaxWords + 1) <= MaxUint
    /\ MemoryGas \in Nat /\ QuadCoeffDiv \in Nat /\ QuadCoeffDiv > 0
  BY InterpreterAssumption, DynamicGasAssumption

(* A quotient from a multiple and a rest.                                  *)
LEMMA Quotient ==
    ASSUME NEW m \in Nat, m > 0, NEW q \in Nat, NEW r \in Nat, r < m
    PROVE  (m * q + r) \div m = q
<1> DEFINE x == m * q + r
           p == x \div m
           s == x % m
           d == q - p
<1>1. x \in Int /\ m * q \in Int
  OBVIOUS
<1>2. p \in Int /\ s \in 0 .. m - 1 /\ x = m * p + s
  <2> HIDE DEF x
  <2> QED
    BY <1>1
<1>3. m * d = m * q - m * p /\ m * p \in Int /\ d \in Int
  <2> HIDE DEF p
  <2> QED
    BY <1>2
<1>4. m * d = s - r
  <2>1. x = m * q + r
    OBVIOUS
  <2> HIDE DEF x, p, s, d
  <2> QED
    BY <1>1, <1>2, <1>3, <2>1
<1> HIDE DEF x, p, s, d
<1>5. d >= 1 => m * d >= m
  BY <1>3
<1>6. d <= -1 => m * d <= -m
  BY <1>3
<1>7. d = 0
  BY <1>2, <1>3, <1>4, <1>5, <1>6
<1> QED
  BY <1>2, <1>3, <1>7 DEF x, p, d

(* A product keeps the order of its factors.                               *)
LEMMA ProductOrder ==
    ASSUME NEW m \in Nat, m > 0, NEW a \in Nat, NEW b \in Nat
    PROVE  a <= b <=> m * a <= m * b
<1> DEFINE d == b - a
<1>1. d \in Int /\ m * a \in Int /\ m * b \in Int /\ m * d = m * b - m * a
  OBVIOUS
<1> HIDE DEF d
<1>2. d >= 0 => m * d >= 0
  BY <1>1
<1>3. d <= -1 => m * d <= -m
  BY <1>1
<1> QED
  BY <1>1, <1>2, <1>3 DEF d

(* The words of as many bytes as memoryGasCost charges for.                *)
LEMMA WordsOf ==
    ASSUME NEW k \in Nat, k * Word <= Word * MaxWords
    PROVE  /\ k \in 0 .. MaxWords
           /\ ToWordSize(k * Word) = k
           /\ (k * Word) \div Word = k
<1>1. k * Word = Word * k /\ k * Word \in Nat /\ Word * MaxWords \in Nat
  BY Sizes
<1>2. k <= MaxWords
  BY <1>1, Sizes, ProductOrder
<1>3. (Word * k + 0) \div Word = k
  BY Sizes, Quotient
<1>4. (Word * k + (Word - 1)) \div Word = k
  BY Sizes, Quotient
<1>5. ~ (k * Word > MaxUint - (Word - 1))
  <2>1. Word * (MaxWords + 1) = Word * MaxWords + Word
    BY Sizes
  <2> QED
    BY <1>1, <2>1, Sizes
<1>6. k * Word + Word - 1 = Word * k + (Word - 1) /\ k * Word = Word * k + 0
  BY <1>1, Sizes
<1>7. ToWordSize(k * Word) = (k * Word + Word - 1) \div Word
  BY <1>5 DEF ToWordSize
<1> QED
  BY <1>2, <1>3, <1>4, <1>6, <1>7

(***************************************************************************)
(* What an opcode asks for.                                                *)
(***************************************************************************)

NatOrOverflow == Nat \cup {Overflow}

LEMMA CalcType ==
    ASSUME NEW off \in Nat, NEW l \in Nat
    PROVE  /\ calcMemSize64(off, l) \in NatOrOverflow
           /\ calcMemSize64WithUint(off, l) \in NatOrOverflow
<1>1. Uint(off + l) \in Nat
  <2>1. off + l \in Nat /\ MaxUint + 1 \in Nat /\ MaxUint + 1 > 0
    BY Sizes
  <2> QED
    BY <2>1 DEF Uint
<1> QED
  BY <1>1 DEF calcMemSize64, calcMemSize64WithUint, NatOrOverflow

LEMMA LargerType ==
    ASSUME NEW x \in NatOrOverflow, NEW y \in NatOrOverflow PROVE Larger(x, y) \in NatOrOverflow
  BY DEF Larger, NatOrOverflow

(* What a memorySize function returns, whatever is on the stack.           *)
LEMMA MemorySizeType ==
    ASSUME NEW f, NEW back, f \in MemoryFunctions => back \in [Positions -> Items]
    PROVE  MemorySize(f, back) \in NatOrOverflow
<1>1. CASE f \notin MemoryFunctions
  BY <1>1 DEF MemorySize, MemoryFunctions, NatOrOverflow
<1>2. CASE f \in MemoryFunctions
  <2>1. \A i \in Positions : back[i] \in Nat
    BY <1>2, Sizes DEF Items
  <2>2. /\ back[0] \in Nat /\ back[1] \in Nat /\ back[2] \in Nat /\ back[3] \in Nat
        /\ back[4] \in Nat /\ back[5] \in Nat /\ back[6] \in Nat
    BY <2>1 DEF Positions
  <2>3. 1 \in Nat /\ Word \in Nat /\ 0 \in NatOrOverflow
    BY Sizes DEF NatOrOverflow
  <2>4. /\ calcMemSize64(back[0], back[1]) \in NatOrOverflow
        /\ calcMemSize64(back[0], back[2]) \in NatOrOverflow
        /\ calcMemSize64(back[1], back[3]) \in NatOrOverflow
        /\ calcMemSize64WithUint(back[0], Word) \in NatOrOverflow
        /\ calcMemSize64WithUint(back[0], 1) \in NatOrOverflow
        /\ calcMemSize64(back[1], back[2]) \in NatOrOverflow
    BY <2>2, <2>3, CalcType
  <2>5. calcMemSize64(Larger(back[0], back[1]), back[2]) \in NatOrOverflow
    <3>1. Larger(back[0], back[1]) \in Nat
      BY <2>2 DEF Larger, Overflow
    <3> QED
      BY <2>2, <3>1, CalcType
  <2>6. Larger(calcMemSize64(back[5], back[6]), calcMemSize64(back[3], back[4])) \in NatOrOverflow
    BY <2>2, CalcType, LargerType
  <2>7. Larger(calcMemSize64(back[4], back[5]), calcMemSize64(back[2], back[3])) \in NatOrOverflow
    BY <2>2, CalcType, LargerType
  <2> HIDE DEF NatOrOverflow
  <2> QED
    BY <2>3, <2>4, <2>5, <2>6, <2>7 DEF MemorySize
<1> QED
  BY <1>1, <1>2

(* The new size is a number of words.                                      *)
LEMMA NewSizeType ==
    ASSUME NEW f, NEW back, f \in MemoryFunctions => back \in [Positions -> Items],
           NewSize(f, back) # Overflow
    PROVE  \E k \in Nat : NewSize(f, back) = k * Word
<1> DEFINE size == MemorySize(f, back)
<1>1. size \in NatOrOverflow
  BY MemorySizeType
<1> HIDE DEF size
<1>2. size \in Nat /\ NewSize(f, back) = ToWordSize(size) * Word
  BY <1>1 DEF NewSize, NatOrOverflow, size
<1>3. ToWordSize(size) \in Nat
  <2>1. \A x \in Nat : x \div Word \in Nat
    BY Sizes
  <2>2. MaxUint \div Word \in Nat
    BY <2>1, Sizes
  <2>3. (size + Word - 1) \div Word \in Nat
    <3>1. size + Word - 1 \in Nat
      BY <1>2, Sizes
    <3> QED
      BY <2>1, <3>1
  <2> QED
    BY <2>2, <2>3 DEF ToWordSize
<1> QED
  BY <1>2, <1>3

(***************************************************************************)
(* Memory is paid for.                                                     *)
(***************************************************************************)

(* The memory is a number of words, and the fee for them is what           *)
(* lastGasCost remembers.                                                  *)
MemoryInv ==
    /\ \E k \in 0 .. MaxWords : length = k * Word
    /\ lastGasCost = TotalFee(length \div Word)

(* What a step may charge: the memory becomes as long as was asked for and *)
(* charged, or stays as it is.                                             *)
LEMMA ChargeOfMemory ==
    ASSUME MemoryInv, NEW op, NEW operation, NEW back \in Tops(operation),
           NEW charge \in Charges(op, operation, back),
           charge.cost # Overflow
    PROVE  /\ \E k \in 0 .. MaxWords : Resized(charge) = k * Word
           /\ charge.last = TotalFee(Resized(charge) \div Word)
<1> DEFINE f == operation.memorySize
           size == NewSize(f, back)
           memory == MemoryCharge(size)
<1>1. PICK k \in 0 .. MaxWords : length = k * Word
  BY DEF MemoryInv
<1>2. length \in Nat
  BY <1>1, Sizes
<1>3. f \in MemoryFunctions => back \in [Positions -> Items]
  BY InterpreterAssumption DEF Tops
<1>4. \/ charge.size = 0 /\ charge.last = lastGasCost
      \/ /\ size # Overflow /\ memory.fee # Overflow
         /\ charge.size = size /\ charge.last = memory.last
  BY DEF Charges
<1>5. CASE charge.size = 0 /\ charge.last = lastGasCost
  <2>1. Resized(charge) = length
    BY <1>2, <1>5 DEF Resized
  <2> QED
    BY <1>5, <2>1 DEF MemoryInv
<1>6. CASE /\ size # Overflow /\ memory.fee # Overflow
           /\ charge.size = size /\ charge.last = memory.last
  <2>1. PICK n \in Nat : size = n * Word
    BY <1>3, <1>6, NewSizeType
  <2> HIDE DEF size
  <2>2. ~ (size > Word * MaxWords)
    BY <1>6 DEF MemoryCharge
  <2>3. size \in Nat /\ Word * MaxWords \in Nat
    BY <2>1, Sizes
  <2>4. n * Word <= Word * MaxWords
    BY <2>1, <2>2, <2>3
  <2>5. n \in 0 .. MaxWords /\ ToWordSize(size) = n /\ size \div Word = n
    BY <2>1, <2>4, WordsOf
  <2>6. CASE size > length
    <3>1. charge.last = TotalFee(n)
      BY <1>6, <2>2, <2>5, <2>6 DEF MemoryCharge
    <3>2. Resized(charge) = size
      BY <1>6, <2>6 DEF Resized
    <3> QED
      BY <2>1, <2>5, <3>1, <3>2
  <2>7. CASE ~ (size > length)
    <3>1. charge.last = lastGasCost
      BY <1>6, <2>2, <2>7 DEF MemoryCharge
    <3>2. Resized(charge) = length
      BY <1>6, <2>7 DEF Resized
    <3> QED
      BY <3>1, <3>2 DEF MemoryInv
  <2> QED
    BY <2>6, <2>7
<1> QED
  BY <1>4, <1>5, <1>6

(* No step forgets what was paid.                                          *)
LEMMA NextMemory == MemoryInv /\ [Next]_vars => MemoryInv'
<1> SUFFICES ASSUME MemoryInv, [Next]_vars PROVE MemoryInv'
  OBVIOUS
<1>1. CASE length' = length /\ lastGasCost' = lastGasCost
  BY <1>1 DEF MemoryInv
<1>2. ASSUME NEW op, NEW operation, NEW back \in Tops(operation),
             NEW charge \in Charges(op, operation, back), Affordable(operation, charge),
             NEW returned, Perform(op, operation, back, charge, returned)
      PROVE  MemoryInv'
  <2>1. charge.cost # Overflow
    BY <1>2 DEF Affordable
  <2>2. length' = Resized(charge) /\ lastGasCost' = charge.last
    BY <1>2 DEF Perform
  <2>3. /\ \E k \in 0 .. MaxWords : Resized(charge) = k * Word
        /\ charge.last = TotalFee(Resized(charge) \div Word)
    BY <2>1, ChargeOfMemory
  <2> QED
    BY <2>2, <2>3 DEF MemoryInv, TotalFee, Uint
<1>3. CASE UNCHANGED vars \/ Finished
  BY <1>1, <1>3 DEF vars, Finished
<1>4. ASSUME NEW op, NEW operation, Fail(op, operation) PROVE MemoryInv'
  BY <1>1, <1>4 DEF Fail
<1>5. ASSUME NEW op, NEW operation, Execute(op, operation) PROVE MemoryInv'
  BY <1>2, <1>5 DEF Execute
<1>6. ASSUME NEW op, NEW operation, Call(op, operation) PROVE MemoryInv'
  BY <1>2, <1>6 DEF Call
<1>7. ASSUME NEW op, NEW operation, Create(op, operation) PROVE MemoryInv'
  BY <1>2, <1>7 DEF Create
<1> QED
  BY <1>3, <1>4, <1>5, <1>6, <1>7 DEF Next

(* At first there is no memory, and it costs nothing.                      *)
LEMMA InitMemory == Init => MemoryInv
<1> SUFFICES ASSUME Init PROVE MemoryInv
  OBVIOUS
<1>1. 0 \in 0 .. MaxWords /\ 0 = 0 * Word
  BY Sizes
<1>2. \A m \in Nat : m > 0 => 0 % m = 0 /\ 0 \div m = 0
  OBVIOUS
<1>3. 0 \div Word = 0 /\ Uint(0) = 0 /\ 0 \div QuadCoeffDiv = 0
  BY <1>2, Sizes DEF Uint
<1>4. 0 * MemoryGas = 0 /\ 0 * 0 = 0
  BY Sizes
<1>5. TotalFee(0) = 0
  BY <1>3, <1>4 DEF TotalFee
<1> QED
  BY <1>1, <1>3, <1>5 DEF Init, MemoryInv

(* Whatever code runs, on whatever operands: what a frame has paid for     *)
(* memory is exactly the fee for the memory it has.                        *)
THEOREM MemoryPaidCorrect == Spec => []MemoryPaid
<1>1. MemoryInv => MemoryPaid
  BY DEF MemoryInv, MemoryPaid
<1> QED
  BY <1>1, InitMemory, NextMemory, PTL DEF Spec

(***************************************************************************)
(* The tables.                                                             *)
(***************************************************************************)

(* The ranges that a memorySize function sizes the memory for, by the      *)
(* positions of offset and length, as in an effect.                        *)
SizedRanges(m) ==
    CASE m \in {"memoryKeccak256", "memoryReturn", "memoryRevert", "memoryLog"} -> {<<0, 1>>}
      [] m \in {"memoryCallDataCopy", "memoryReturnDataCopy", "memoryCodeCopy"} -> {<<0, 2>>}
      [] m = "memoryExtCodeCopy" -> {<<1, 3>>}
      [] m \in {"memoryMLoad", "memoryMStore"} -> {<<0, -Word>>}
      [] m = "memoryMStore8" -> {<<0, -1>>}
      [] m = "memoryMcopy" -> {<<0, 2>>, <<1, 2>>}
      [] m \in {"memoryCreate", "memoryCreate2"} -> {<<1, 2>>}
      [] m = "memoryCall" -> {<<3, 4>>, <<5, 6>>}
      [] m \in {"memoryDelegateCall", "memoryStaticCall"} -> {<<2, 3>>, <<4, 5>>}
      [] OTHER -> {}

(* The functions that always charge something, and those of the calls.     *)
Charging ==
    {"gasExpFrontier", "gasExpEIP160", "gasSStore", "gasSStoreEIP2200", "gasSStoreEIP2929",
     "gasSStoreEIP3529", "gasSLoadEIP2929", "gasLog"}
ValueMeters == {"gasCall", "gasCallCode", "gasCallEIP2929", "gasCallCodeEIP2929"}
PlainMeters ==
    {"gasDelegateCall", "gasStaticCall", "gasDelegateCallEIP2929", "gasStaticCallEIP2929"}

(* A row, by its fields.                                                   *)
Op(x, c, g, p, q, m) ==
    [execute |-> x, constantGas |-> c, dynamicGas |-> g,
     numPop |-> p, numPush |-> q, memorySize |-> m]

IsOperation(o) ==
    /\ o = Op(o.execute, o.constantGas, o.dynamicGas, o.numPop, o.numPush, o.memorySize)
    /\ o.constantGas \in Nat /\ o.numPop \in Nat /\ o.numPush \in Nat
    /\ o.memorySize \in MemoryFunctions

(* What a row promises is what execute does: it asks for as many items as  *)
(* execute and the meters look at, and leaves as many as execute leaves.   *)
Honest(o, effect) ==
    /\ effect.depth = o.numPop
    /\ effect.change = o.numPush - o.numPop
    /\ effect.ranges \subseteq SizedRanges(o.memorySize)
    /\ effect.next \subseteq {"running"} \cup Ended

Metering(o) ==
    /\ GasDepth(o.dynamicGas) <= o.numPop
    /\ MemoryDepth(o.memorySize) <= o.numPop
    /\ o.memorySize # NoFunction => o.dynamicGas # NoFunction

(* And has a price, unless the frame ends with it.                         *)
Priced(o, effect) ==
    "running" \in effect.next => o.constantGas > 0 \/ o.dynamicGas \in Charging

(* A call has a meter for calls, and it and a creation have a price.       *)
Surcharged(name, o) ==
    /\ name \in Calling \cup Creating => o.constantGas > 0
    /\ name \in {"CALL", "CALLCODE"} => o.dynamicGas \in ValueMeters
    /\ name \in {"DELEGATECALL", "STATICCALL"} => o.dynamicGas \in PlainMeters

Entry(op, o) ==
    /\ IsOperation(o) /\ op[2] \in Nat
    /\ o.execute # op[1] => o.execute = "SELFDESTRUCT6780" /\ op[1] = "SELFDESTRUCT"
    /\ Honest(o, EffectBy(o.execute, op[2]))
    /\ Metering(o)
    /\ Priced(o, EffectBy(o.execute, op[2]))
    /\ Surcharged(op[1], o)

(* A table with all the names, whose entries are all right.                *)
Table(t, names) ==
    /\ \A x \in names : <<x, 0>> \in DOMAIN t
    /\ \A op \in DOMAIN t : Entry(op, t[op])

(* What execute does, by the name of the opcode.                           *)
Right(x, effect) ==
    /\ x \in {"ADD", "SUB", "MUL", "DIV", "SDIV", "MOD", "SMOD", "EXP", "SIGNEXTEND",
            "LT", "GT", "SLT", "SGT", "EQ", "AND", "OR", "XOR", "BYTE", "SHL", "SHR",
            "SAR"} =>
          effect = Effect(2, -1, {}, GoOn)
    /\ x \in {"NOT", "ISZERO", "CALLDATALOAD", "BLOCKHASH", "TLOAD", "BLOBHASH"} =>
          effect = Effect(1, 0, {}, GoOn)
    /\ x \in {"ADDMOD", "MULMOD"} =>
          effect = Effect(3, -2, {}, GoOn)
    /\ x = "KECCAK256" => effect = Effect(2, -1, {<<0, 1>>}, GoOn)
    /\ x \in {"ADDRESS", "ORIGIN", "CALLER", "CALLVALUE", "CALLDATASIZE",
            "RETURNDATASIZE", "CODESIZE", "GASPRICE", "COINBASE", "TIMESTAMP",
            "NUMBER", "GASLIMIT", "PC", "MSIZE", "GAS", "CHAINID", "BASEFEE", "PUSH0"} =>
          effect = Effect(0, 1, {}, GoOn)
    /\ x \in {"BALANCE", "EXTCODESIZE", "EXTCODEHASH", "SLOAD"} =>
          effect = Effect(1, 0, {}, MayFail)
    /\ x \in {"CALLDATACOPY", "CODECOPY"} =>
          effect = Effect(3, -3, {<<0, 2>>}, GoOn)
    /\ x = "RETURNDATACOPY" => effect = Effect(3, -3, {<<0, 2>>}, MayFail)
    /\ x = "EXTCODECOPY" => effect = Effect(4, -4, {<<1, 3>>}, MayFail)
    /\ x \in {"DIFFICULTY", "SELFBALANCE", "BLOBBASEFEE"} =>
          effect = Effect(0, 1, {}, MayFail)
    /\ x = "POP" => effect = Effect(1, -1, {}, GoOn)
    /\ x = "MLOAD" => effect = Effect(1, 0, {<<0, -Word>>}, GoOn)
    /\ x = "MSTORE" => effect = Effect(2, -2, {<<0, -Word>>}, GoOn)
    /\ x = "MSTORE8" => effect = Effect(2, -2, {<<0, -1>>}, GoOn)
    /\ x \in {"SSTORE", "JUMPI", "TSTORE"} =>
          effect = Effect(2, -2, {}, MayFail)
    /\ x = "JUMP" => effect = Effect(1, -1, {}, MayFail)
    /\ x = "JUMPDEST" => effect = Effect(0, 0, {}, GoOn)
    /\ x = "MCOPY" => effect = Effect(3, -3, {<<0, 2>>, <<1, 2>>}, GoOn)
    /\ x = "STOP" => effect = Effect(0, 0, {}, {"stopped"})
    /\ x = "undefined" => effect = Effect(0, 0, {}, {"failed"})
    /\ x = "RETURN" => effect = Effect(2, -2, {<<0, 1>>}, {"stopped"})
    /\ x = "REVERT" => effect = Effect(2, -2, {<<0, 1>>}, {"reverted"})
    /\ x \in {"SELFDESTRUCT", "SELFDESTRUCT6780"} =>
          effect = Effect(1, -1, {}, {"stopped", "failed"})
    /\ x = "CREATE" => effect = Effect(3, -2, {<<1, 2>>}, MayFail)
    /\ x = "CREATE2" => effect = Effect(4, -3, {<<1, 2>>}, MayFail)
    /\ x \in {"CALL", "CALLCODE"} =>
          effect = Effect(7, -6, {<<3, 4>>, <<5, 6>>}, MayFail)
    /\ x \in {"DELEGATECALL", "STATICCALL"} =>
          effect = Effect(6, -5, {<<2, 3>>, <<4, 5>>}, MayFail)

(* t has all the names, and what it has is right.                          *)
Rights(t, names) == names \subseteq DOMAIN t /\ \A x \in DOMAIN t : Right(x, t[x])

(* So is a merge of two that are, and what Acts makes.                     *)
LEMMA MergeRights ==
    ASSUME NEW s, NEW t, NEW m, NEW n, Rights(s, m), Rights(t, n)
    PROVE  Rights(Merge(s, t), m \cup n)
  BY DEF Merge, Rights
LEMMA MergedRights ==
    ASSUME NEW s, NEW t, NEW m, NEW n, Rights(s, m), Rights(t, n)
    PROVE  Rights(s ++ t, m \cup n)
  BY MergeRights, Zenon DEF ++

LEMMA ActsRight ==
    ASSUME NEW names, NEW depth, NEW change, NEW ranges, NEW next,
           \A x \in names : Right(x, Effect(depth, change, ranges, next))
    PROVE  Rights(Acts(names, depth, change, ranges, next), names)
  BY DEF Acts, Rights

(* The opcodes of each part of Effects.                                    *)
ArithmeticNames ==
    {"ADD", "SUB", "MUL", "DIV", "SDIV", "MOD", "SMOD", "EXP", "SIGNEXTEND", "LT", "GT",
     "SLT", "SGT", "EQ"}
BitNames ==
    {"AND", "OR", "XOR", "BYTE", "SHL", "SHR", "SAR"} \cup
    {"NOT", "ISZERO"} \cup
    {"ADDMOD", "MULMOD"}
InputNames ==
    {"KECCAK256"} \cup
    {"ADDRESS", "ORIGIN", "CALLER", "CALLVALUE", "CALLDATASIZE", "RETURNDATASIZE"} \cup
    {"BALANCE"} \cup
    {"CALLDATALOAD"} \cup
    {"CALLDATACOPY"} \cup
    {"RETURNDATACOPY"}
CodeNames ==
    {"EXTCODESIZE", "EXTCODEHASH"} \cup
    {"CODESIZE", "GASPRICE"} \cup
    {"CODECOPY"} \cup
    {"EXTCODECOPY"}
BlockNames ==
    {"BLOCKHASH"} \cup
    {"COINBASE", "TIMESTAMP", "NUMBER", "GASLIMIT"} \cup
    {"DIFFICULTY"}
StorageNames ==
    {"POP"} \cup
    {"MLOAD"} \cup
    {"MSTORE"} \cup
    {"MSTORE8"} \cup
    {"SLOAD"} \cup
    {"SSTORE"}
JumpNames ==
    {"JUMP"} \cup
    {"JUMPI"} \cup
    {"JUMPDEST"} \cup
    {"PC", "MSIZE", "GAS"}
IstanbulNames ==
    {"SELFBALANCE"} \cup
    {"CHAINID"}
TransientNames ==
    {"TLOAD"} \cup
    {"TSTORE"} \cup
    {"BASEFEE", "PUSH0"}
BlobNames ==
    {"BLOBHASH"} \cup
    {"MCOPY"} \cup
    {"BLOBBASEFEE"}
HaltNames ==
    {"STOP"} \cup
    {"undefined"} \cup
    {"RETURN"} \cup
    {"REVERT"}
DestructNames ==
    {"SELFDESTRUCT", "SELFDESTRUCT6780"}
CreateNames ==
    {"CREATE"} \cup
    {"CREATE2"}
CallNames ==
    {"CALL", "CALLCODE"} \cup
    {"DELEGATECALL", "STATICCALL"}

(* Each part of Effects is right.                                          *)
LEMMA ArithmeticRight == Rights(ArithmeticEffects, ArithmeticNames)
<1>1. Rights(Acts({"ADD", "SUB", "MUL", "DIV", "SDIV", "MOD", "SMOD", "EXP",
              "SIGNEXTEND", "LT", "GT", "SLT", "SGT", "EQ"}, 2, -1, {}, GoOn),
           {"ADD", "SUB", "MUL", "DIV", "SDIV", "MOD", "SMOD", "EXP", "SIGNEXTEND",
            "LT", "GT", "SLT", "SGT", "EQ"})
  BY ActsRight DEF Right
<1> QED
  BY <1>1,
     MergedRights DEF ArithmeticEffects, ArithmeticNames, Quiet, Reader, OnMemory

LEMMA BitRight == Rights(BitEffects, BitNames)
<1>1. Rights(Acts({"AND", "OR", "XOR", "BYTE", "SHL", "SHR", "SAR"}, 2, -1, {}, GoOn),
           {"AND", "OR", "XOR", "BYTE", "SHL", "SHR", "SAR"})
  BY ActsRight DEF Right
<1>2. Rights(Acts({"NOT", "ISZERO"}, 1, 0, {}, GoOn),
           {"NOT", "ISZERO"})
  BY ActsRight DEF Right
<1>3. Rights(Acts({"ADDMOD", "MULMOD"}, 3, -2, {}, GoOn),
           {"ADDMOD", "MULMOD"})
  BY ActsRight DEF Right
<1> QED
  BY <1>1, <1>2, <1>3,
     MergedRights DEF BitEffects, BitNames, Quiet, Reader, OnMemory

LEMMA InputRight == Rights(InputEffects, InputNames)
<1>1. Rights(Acts({"KECCAK256"}, 2, -1, {<<0, 1>>}, GoOn),
           {"KECCAK256"})
  BY ActsRight DEF Right
<1>2. Rights(Acts({"ADDRESS", "ORIGIN", "CALLER", "CALLVALUE", "CALLDATASIZE",
              "RETURNDATASIZE"}, 0, 1, {}, GoOn),
           {"ADDRESS", "ORIGIN", "CALLER", "CALLVALUE", "CALLDATASIZE",
            "RETURNDATASIZE"})
  BY ActsRight DEF Right
<1>3. Rights(Acts({"BALANCE"}, 1, 0, {}, MayFail),
           {"BALANCE"})
  BY ActsRight DEF Right
<1>4. Rights(Acts({"CALLDATALOAD"}, 1, 0, {}, GoOn),
           {"CALLDATALOAD"})
  BY ActsRight DEF Right
<1>5. Rights(Acts({"CALLDATACOPY"}, 3, -3, {<<0, 2>>}, GoOn),
           {"CALLDATACOPY"})
  BY ActsRight DEF Right
<1>6. Rights(Acts({"RETURNDATACOPY"}, 3, -3, {<<0, 2>>}, MayFail),
           {"RETURNDATACOPY"})
  BY ActsRight DEF Right
<1> QED
  BY <1>1, <1>2, <1>3, <1>4, <1>5, <1>6,
     MergedRights DEF InputEffects, InputNames, Quiet, Reader, OnMemory

LEMMA CodeRight == Rights(CodeEffects, CodeNames)
<1>1. Rights(Acts({"EXTCODESIZE", "EXTCODEHASH"}, 1, 0, {}, MayFail),
           {"EXTCODESIZE", "EXTCODEHASH"})
  BY ActsRight DEF Right
<1>2. Rights(Acts({"CODESIZE", "GASPRICE"}, 0, 1, {}, GoOn),
           {"CODESIZE", "GASPRICE"})
  BY ActsRight DEF Right
<1>3. Rights(Acts({"CODECOPY"}, 3, -3, {<<0, 2>>}, GoOn),
           {"CODECOPY"})
  BY ActsRight DEF Right
<1>4. Rights(Acts({"EXTCODECOPY"}, 4, -4, {<<1, 3>>}, MayFail),
           {"EXTCODECOPY"})
  BY ActsRight DEF Right
<1> QED
  BY <1>1, <1>2, <1>3, <1>4,
     MergedRights DEF CodeEffects, CodeNames, Quiet, Reader, OnMemory

LEMMA BlockRight == Rights(BlockEffects, BlockNames)
<1>1. Rights(Acts({"BLOCKHASH"}, 1, 0, {}, GoOn),
           {"BLOCKHASH"})
  BY ActsRight DEF Right
<1>2. Rights(Acts({"COINBASE", "TIMESTAMP", "NUMBER", "GASLIMIT"}, 0, 1, {}, GoOn),
           {"COINBASE", "TIMESTAMP", "NUMBER", "GASLIMIT"})
  BY ActsRight DEF Right
<1>3. Rights(Acts({"DIFFICULTY"}, 0, 1, {}, MayFail),
           {"DIFFICULTY"})
  BY ActsRight DEF Right
<1> QED
  BY <1>1, <1>2, <1>3,
     MergedRights DEF BlockEffects, BlockNames, Quiet, Reader, OnMemory

LEMMA StorageRight == Rights(StorageEffects, StorageNames)
<1>1. Rights(Acts({"POP"}, 1, -1, {}, GoOn),
           {"POP"})
  BY ActsRight DEF Right
<1>2. Rights(Acts({"MLOAD"}, 1, 0, {<<0, -Word>>}, GoOn), {"MLOAD"})
  <2>1. \A x \in {"MLOAD"} : Right(x, Effect(1, 0, {<<0, -Word>>}, GoOn))
    BY DEF Right
  <2> QED
    BY <2>1, ActsRight
<1>3. Rights(Acts({"MSTORE"}, 2, -2, {<<0, -Word>>}, GoOn), {"MSTORE"})
  <2>1. \A x \in {"MSTORE"} : Right(x, Effect(2, -2, {<<0, -Word>>}, GoOn))
    BY DEF Right
  <2> QED
    BY <2>1, ActsRight
<1>4. Rights(Acts({"MSTORE8"}, 2, -2, {<<0, -1>>}, GoOn),
           {"MSTORE8"})
  BY ActsRight DEF Right
<1>5. Rights(Acts({"SLOAD"}, 1, 0, {}, MayFail),
           {"SLOAD"})
  BY ActsRight DEF Right
<1>6. Rights(Acts({"SSTORE"}, 2, -2, {}, MayFail),
           {"SSTORE"})
  BY ActsRight DEF Right
<1> QED
  BY <1>1, <1>2, <1>3, <1>4, <1>5, <1>6,
     MergedRights DEF StorageEffects, StorageNames, Quiet, Reader, OnMemory

LEMMA JumpRight == Rights(JumpEffects, JumpNames)
<1>1. Rights(Acts({"JUMP"}, 1, -1, {}, MayFail),
           {"JUMP"})
  BY ActsRight DEF Right
<1>2. Rights(Acts({"JUMPI"}, 2, -2, {}, MayFail),
           {"JUMPI"})
  BY ActsRight DEF Right
<1>3. Rights(Acts({"JUMPDEST"}, 0, 0, {}, GoOn),
           {"JUMPDEST"})
  BY ActsRight DEF Right
<1>4. Rights(Acts({"PC", "MSIZE", "GAS"}, 0, 1, {}, GoOn),
           {"PC", "MSIZE", "GAS"})
  BY ActsRight DEF Right
<1> QED
  BY <1>1, <1>2, <1>3, <1>4,
     MergedRights DEF JumpEffects, JumpNames, Quiet, Reader, OnMemory

LEMMA IstanbulRight == Rights(IstanbulEffects, IstanbulNames)
<1>1. Rights(Acts({"SELFBALANCE"}, 0, 1, {}, MayFail),
           {"SELFBALANCE"})
  BY ActsRight DEF Right
<1>2. Rights(Acts({"CHAINID"}, 0, 1, {}, GoOn),
           {"CHAINID"})
  BY ActsRight DEF Right
<1> QED
  BY <1>1, <1>2,
     MergedRights DEF IstanbulEffects, IstanbulNames, Quiet, Reader, OnMemory

LEMMA TransientRight == Rights(TransientEffects, TransientNames)
<1>1. Rights(Acts({"TLOAD"}, 1, 0, {}, GoOn),
           {"TLOAD"})
  BY ActsRight DEF Right
<1>2. Rights(Acts({"TSTORE"}, 2, -2, {}, MayFail),
           {"TSTORE"})
  BY ActsRight DEF Right
<1>3. Rights(Acts({"BASEFEE", "PUSH0"}, 0, 1, {}, GoOn),
           {"BASEFEE", "PUSH0"})
  BY ActsRight DEF Right
<1> QED
  BY <1>1, <1>2, <1>3,
     MergedRights DEF TransientEffects, TransientNames, Quiet, Reader, OnMemory

LEMMA BlobRight == Rights(BlobEffects, BlobNames)
<1>1. Rights(Acts({"BLOBHASH"}, 1, 0, {}, GoOn),
           {"BLOBHASH"})
  BY ActsRight DEF Right
<1>2. Rights(Acts({"MCOPY"}, 3, -3, {<<0, 2>>, <<1, 2>>}, GoOn),
           {"MCOPY"})
  BY ActsRight DEF Right
<1>3. Rights(Acts({"BLOBBASEFEE"}, 0, 1, {}, MayFail),
           {"BLOBBASEFEE"})
  BY ActsRight DEF Right
<1> QED
  BY <1>1, <1>2, <1>3,
     MergedRights DEF BlobEffects, BlobNames, Quiet, Reader, OnMemory

LEMMA HaltRight == Rights(HaltEffects, HaltNames)
<1>1. Rights(Acts({"STOP"}, 0, 0, {}, {"stopped"}),
           {"STOP"})
  BY ActsRight DEF Right
<1>2. Rights(Acts({"undefined"}, 0, 0, {}, {"failed"}),
           {"undefined"})
  BY ActsRight DEF Right
<1>3. Rights(Acts({"RETURN"}, 2, -2, {<<0, 1>>}, {"stopped"}),
           {"RETURN"})
  BY ActsRight DEF Right
<1>4. Rights(Acts({"REVERT"}, 2, -2, {<<0, 1>>}, {"reverted"}),
           {"REVERT"})
  BY ActsRight DEF Right
<1> QED
  BY <1>1, <1>2, <1>3, <1>4,
     MergedRights DEF HaltEffects, HaltNames, Quiet, Reader, OnMemory

LEMMA DestructRight == Rights(DestructEffects, DestructNames)
<1>1. Rights(Acts({"SELFDESTRUCT", "SELFDESTRUCT6780"}, 1, -1, {}, {"stopped", "failed"}),
           {"SELFDESTRUCT", "SELFDESTRUCT6780"})
  BY ActsRight DEF Right
<1> QED
  BY <1>1,
     MergedRights DEF DestructEffects, DestructNames, Quiet, Reader, OnMemory

LEMMA CreateRight == Rights(CreateEffects, CreateNames)
<1>1. Rights(Acts({"CREATE"}, 3, -2, {<<1, 2>>}, MayFail),
           {"CREATE"})
  BY ActsRight DEF Right
<1>2. Rights(Acts({"CREATE2"}, 4, -3, {<<1, 2>>}, MayFail),
           {"CREATE2"})
  BY ActsRight DEF Right
<1> QED
  BY <1>1, <1>2,
     MergedRights DEF CreateEffects, CreateNames, Quiet, Reader, OnMemory

LEMMA CallRight == Rights(CallEffects, CallNames)
<1>1. Rights(Acts({"CALL", "CALLCODE"}, 7, -6, {<<3, 4>>, <<5, 6>>}, MayFail),
           {"CALL", "CALLCODE"})
  BY ActsRight DEF Right
<1>2. Rights(Acts({"DELEGATECALL", "STATICCALL"}, 6, -5, {<<2, 3>>, <<4, 5>>}, MayFail),
           {"DELEGATECALL", "STATICCALL"})
  BY ActsRight DEF Right
<1> QED
  BY <1>1, <1>2,
     MergedRights DEF CallEffects, CallNames, Quiet, Reader, OnMemory

(* All that a row may have as its execute, but for the numbered ones.      *)
Executes ==
    ArithmeticNames \cup BitNames \cup InputNames \cup CodeNames
    \cup BlockNames \cup StorageNames \cup JumpNames \cup IstanbulNames
    \cup TransientNames \cup BlobNames \cup HaltNames \cup DestructNames
    \cup CreateNames \cup CallNames

LEMMA EffectsRight == Rights(Effects, Executes)
<1> DEFINE first == ArithmeticEffects ++ BitEffects ++ InputEffects ++ CodeEffects
                    ++ BlockEffects ++ StorageEffects ++ JumpEffects
           names == ArithmeticNames \cup BitNames \cup InputNames \cup CodeNames
                    \cup BlockNames \cup StorageNames \cup JumpNames
<1>1. Rights(first, names)
  BY ArithmeticRight, BitRight, InputRight, CodeRight, BlockRight, StorageRight,
     JumpRight,
     MergedRights
<1>2. Effects = first ++ IstanbulEffects ++ TransientEffects ++ BlobEffects ++ HaltEffects
                ++ DestructEffects ++ CreateEffects ++ CallEffects
  BY DEF Effects
<1>3. Executes = names \cup IstanbulNames \cup TransientNames \cup BlobNames \cup HaltNames
                 \cup DestructNames \cup CreateNames \cup CallNames
  BY DEF Executes
<1> HIDE DEF first, names
<1> QED
  BY <1>1, <1>2, <1>3,
     IstanbulRight, TransientRight, BlobRight, HaltRight, DestructRight,
     CreateRight, CallRight,
     MergedRights

(* The opcodes with no number.                                             *)
LEMMA NamedEffect == ASSUME NEW x \in Executes, NEW n PROVE Right(x, EffectBy(x, n))
<1>1. EffectBy(x, n) = Effects[x]
  BY DEF EffectBy, Executes, ArithmeticNames, BitNames, InputNames, CodeNames, BlockNames,
         StorageNames, JumpNames, IstanbulNames, TransientNames, BlobNames, HaltNames,
         DestructNames, CreateNames, CallNames
<1> QED
  BY <1>1, EffectsRight DEF Rights

(* The constants of the tables, one by one.                                *)
LEMMA Prices ==
    /\ {GasQuickStep, GasFastestStep, GasFastStep, GasMidStep, GasSlowStep,
        GasExtStep, JumpdestGas, Keccak256Gas,
        BalanceGasFrontier, BalanceGasEIP150, BalanceGasEIP1884,
        ExtcodeSizeGasFrontier, ExtcodeSizeGasEIP150,
        ExtcodeCopyBaseFrontier, ExtcodeCopyBaseEIP150,
        ExtcodeHashGasConstantinople, ExtcodeHashGasEIP1884,
        SloadGasFrontier, SloadGasEIP150, SloadGasEIP1884, SloadGasEIP2200,
        WarmStorageReadCostEIP2929, CreateGas, Create2Gas, CallGasFrontier,
        CallGasEIP150, SelfdestructGasEIP150} \subseteq Nat
    /\ GasQuickStep > 0 /\ GasFastestStep > 0 /\ GasFastStep > 0 /\ GasMidStep > 0
    /\ GasSlowStep > 0 /\ GasExtStep > 0 /\ JumpdestGas > 0 /\ Keccak256Gas > 0
    /\ BalanceGasFrontier > 0 /\ BalanceGasEIP150 > 0 /\ BalanceGasEIP1884 > 0
    /\ ExtcodeSizeGasFrontier > 0 /\ ExtcodeSizeGasEIP150 > 0
    /\ ExtcodeCopyBaseFrontier > 0 /\ ExtcodeCopyBaseEIP150 > 0
    /\ ExtcodeHashGasConstantinople > 0 /\ ExtcodeHashGasEIP1884 > 0
    /\ SloadGasFrontier > 0 /\ SloadGasEIP150 > 0 /\ SloadGasEIP1884 > 0
    /\ SloadGasEIP2200 > 0 /\ WarmStorageReadCostEIP2929 > 0 /\ CreateGas > 0
    /\ Create2Gas > 0 /\ CallGasFrontier > 0 /\ CallGasEIP150 > 0
    /\ SelfdestructGasEIP150 > 0
  BY ConstantGasAssumption

(***************************************************************************)
(* The rows of a table.                                                    *)
(***************************************************************************)

(* What the operators of InstructionSet make, by its fields.               *)
LEMMA OpForms ==
    ASSUME NEW x, NEW c, NEW g, NEW p, NEW q, NEW m
    PROVE  /\ Operation(c, p, q) = Op(NoFunction, c, NoFunction, p, q, NoFunction)
           /\ Metered(Operation(c, p, q), g) = Op(NoFunction, c, g, p, q, NoFunction)
           /\ InMemory(Operation(c, p, q), g, m) = Op(NoFunction, c, g, p, q, m)
           /\ [Op(NoFunction, c, g, p, q, m) EXCEPT !.execute = x] = Op(x, c, g, p, q, m)
<1>1. Operation(c, p, q) = Op(NoFunction, c, NoFunction, p, q, NoFunction)
  BY DEF Operation, Op
<1>2. [Op(NoFunction, c, NoFunction, p, q, NoFunction) EXCEPT !.dynamicGas = g]
         = Op(NoFunction, c, g, p, q, NoFunction)
  BY DEF Op
<1>3. [Op(NoFunction, c, g, p, q, NoFunction) EXCEPT !.memorySize = m]
         = Op(NoFunction, c, g, p, q, m)
  BY DEF Op
<1>4. [Op(NoFunction, c, g, p, q, m) EXCEPT !.execute = x] = Op(x, c, g, p, q, m)
  BY DEF Op
<1> QED
  BY <1>1, <1>2, <1>3, <1>4 DEF Metered, InMemory

(* The fields fit what execute does.                                       *)
RowFit(x, c, g, p, q, m) ==
    /\ x \in Executes
    /\ c \in Nat /\ p \in Nat /\ q \in Nat /\ m \in MemoryFunctions
    /\ \A effect : Right(x, effect) =>
          /\ effect.depth = p /\ effect.change = q - p
          /\ effect.ranges \subseteq SizedRanges(m)
          /\ effect.next \subseteq {"running"} \cup Ended
          /\ "running" \in effect.next => c > 0 \/ g \in Charging
    /\ GasDepth(g) <= p /\ MemoryDepth(m) <= p
    /\ m # NoFunction => g # NoFunction
    /\ x \in Calling \cup Creating => c > 0
    /\ x \in {"CALL", "CALLCODE"} => g \in ValueMeters
    /\ x \in {"DELEGATECALL", "STATICCALL"} => g \in PlainMeters

(* A row that fits is a right entry, and several are a right table.        *)
LEMMA OpEntry ==
    ASSUME NEW x, NEW c, NEW g, NEW p, NEW q, NEW m, RowFit(x, c, g, p, q, m)
    PROVE  Entry(<<x, 0>>, Op(x, c, g, p, q, m))
<1> DEFINE o == Op(x, c, g, p, q, m)
           effect == EffectBy(x, 0)
<1>1. /\ IsOperation(o) /\ o.execute = x /\ o.constantGas = c /\ o.dynamicGas = g
      /\ o.numPop = p /\ o.numPush = q /\ o.memorySize = m
  BY DEF IsOperation, Op, RowFit
<1>2. Right(x, effect)
  BY NamedEffect DEF RowFit
<1> HIDE DEF o, effect
<1>3. <<x, 0>>[1] = x /\ <<x, 0>>[2] = 0
  OBVIOUS
<1>4. Honest(o, effect) /\ Metering(o) /\ Priced(o, effect) /\ Surcharged(x, o)
  BY <1>1, <1>2 DEF RowFit, Honest, Metering, Priced, Surcharged
<1>5. Entry(<<x, 0>>, o)
  BY <1>1, <1>3, <1>4 DEF Entry, effect
<1> QED
  BY <1>5 DEF o

LEMMA RowsTable ==
    ASSUME NEW names, NEW c, NEW g, NEW p, NEW q, NEW m,
           \A x \in names : RowFit(x, c, g, p, q, m)
    PROVE  Table(Rows(names, Op(NoFunction, c, g, p, q, m)), names)
<1> DEFINE t == Rows(names, Op(NoFunction, c, g, p, q, m))
<1>1. DOMAIN t = names \X {0}
  BY DEF Rows
<1>2. ASSUME NEW op \in names \X {0} PROVE Entry(op, t[op])
  <2>1. op = <<op[1], 0>> /\ op[1] \in names
    OBVIOUS
  <2>2. t[op] = Op(op[1], c, g, p, q, m)
    BY OpForms DEF Rows
  <2>3. Entry(<<op[1], 0>>, Op(op[1], c, g, p, q, m))
    BY <2>1, OpEntry
  <2> QED
    BY <2>1, <2>2, <2>3
<1> HIDE DEF t
<1>3. Table(t, names)
  BY <1>1, <1>2 DEF Table
<1> QED
  BY <1>3 DEF t

(* Rows that fit are a right table.                                        *)
LEMMA PlainRows ==
    ASSUME NEW names, NEW c, NEW p, NEW q,
           \A x \in names : RowFit(x, c, NoFunction, p, q, NoFunction)
    PROVE  Table(Rows(names, Operation(c, p, q)), names)
<1>1. Operation(c, p, q) = Op(NoFunction, c, NoFunction, p, q, NoFunction)
  BY OpForms
<1> QED
  BY <1>1, RowsTable
LEMMA PlainRow ==
    ASSUME NEW x, NEW c, NEW p, NEW q,
           RowFit(x, c, NoFunction, p, q, NoFunction)
    PROVE  Table(Row(x, Operation(c, p, q)), {x})
<1>1. Operation(c, p, q) = Op(NoFunction, c, NoFunction, p, q, NoFunction)
  BY OpForms
<1> QED
  BY <1>1, RowsTable DEF Row
LEMMA MeteredRow ==
    ASSUME NEW x, NEW c, NEW g, NEW p, NEW q,
           RowFit(x, c, g, p, q, NoFunction)
    PROVE  Table(Row(x, Metered(Operation(c, p, q), g)), {x})
<1>1. Metered(Operation(c, p, q), g) = Op(NoFunction, c, g, p, q, NoFunction)
  BY OpForms
<1> QED
  BY <1>1, RowsTable DEF Row
LEMMA MemoryRow ==
    ASSUME NEW x, NEW c, NEW g, NEW p, NEW q, NEW m,
           RowFit(x, c, g, p, q, m)
    PROVE  Table(Row(x, InMemory(Operation(c, p, q), g, m)), {x})
<1>1. InMemory(Operation(c, p, q), g, m) = Op(NoFunction, c, g, p, q, m)
  BY OpForms
<1> QED
  BY <1>1, RowsTable DEF Row

(* A merge of right tables is one, with the names of both.                 *)
LEMMA MergeTables ==
    ASSUME NEW s, NEW t, NEW m, NEW n, Table(s, m), Table(t, n)
    PROVE  Table(Merge(s, t), m \cup n)
  BY DEF Merge, Table
LEMMA MergedTables ==
    ASSUME NEW s, NEW t, NEW m, NEW n, Table(s, m), Table(t, n)
    PROVE  Table(s ++ t, m \cup n)
  BY MergeTables, Zenon DEF ++
LEMMA FewerNames ==
    ASSUME NEW t, NEW n, NEW m, Table(t, n), m \subseteq n PROVE Table(t, m)
  BY DEF Table

(* The rows of each group of opcodes fit what Effects says of them.        *)
USE Prices DEF RowFit, Right, Effect, GoOn, MayFail, Ended, SizedRanges, GasDepth, MemoryDepth,
    MemoryFunctions, NoFunction, Charging, Calling, Creating, ValueMeters, PlainMeters,
    Executes, ArithmeticNames, BitNames, InputNames, CodeNames, BlockNames, StorageNames,
    JumpNames, IstanbulNames, TransientNames, BlobNames, HaltNames, DestructNames,
    CreateNames, CallNames
LEMMA ArithmeticFits ==
    /\ RowFit("STOP", 0, NoFunction, 0, 0, NoFunction)
    /\ \A x \in {"ADD", "SUB"} : RowFit(x, GasFastestStep, NoFunction, 2, 1, NoFunction)
    /\ \A x \in {"MUL", "DIV", "SDIV", "MOD", "SMOD", "SIGNEXTEND"} :
           RowFit(x, GasFastStep, NoFunction, 2, 1, NoFunction)
    /\ \A x \in {"ADDMOD", "MULMOD"} : RowFit(x, GasMidStep, NoFunction, 3, 1, NoFunction)
    /\ RowFit("EXP", 0, "gasExpFrontier", 2, 1, NoFunction)
  OBVIOUS
LEMMA ComparisonFits ==
    /\ \A x \in {"LT", "GT", "SLT", "SGT", "EQ", "AND", "XOR", "OR", "BYTE"} :
           RowFit(x, GasFastestStep, NoFunction, 2, 1, NoFunction)
    /\ \A x \in {"ISZERO", "NOT"} : RowFit(x, GasFastestStep, NoFunction, 1, 1, NoFunction)
    /\ RowFit("KECCAK256", Keccak256Gas, "gasKeccak256", 2, 1, "memoryKeccak256")
  OBVIOUS
LEMMA EnvironmentFits ==
    /\ \A x \in {"ADDRESS", "ORIGIN", "CALLER",
                 "CALLVALUE", "CALLDATASIZE", "CODESIZE", "GASPRICE"} :
           RowFit(x, GasQuickStep, NoFunction, 0, 1, NoFunction)
    /\ RowFit("BALANCE", BalanceGasFrontier, NoFunction, 1, 1, NoFunction)
    /\ RowFit("EXTCODESIZE", ExtcodeSizeGasFrontier, NoFunction, 1, 1, NoFunction)
    /\ RowFit("CALLDATALOAD", GasFastestStep, NoFunction, 1, 1, NoFunction)
    /\ RowFit("CALLDATACOPY", GasFastestStep, "gasCallDataCopy", 3, 0, "memoryCallDataCopy")
    /\ RowFit("CODECOPY", GasFastestStep, "gasCodeCopy", 3, 0, "memoryCodeCopy")
    /\ RowFit("EXTCODECOPY", ExtcodeCopyBaseFrontier, "gasExtCodeCopy", 4, 0, "memoryExtCodeCopy")
  OBVIOUS
LEMMA BlockFits ==
    /\ RowFit("BLOCKHASH", GasExtStep, NoFunction, 1, 1, NoFunction)
    /\ \A x \in {"COINBASE", "TIMESTAMP", "NUMBER", "DIFFICULTY", "GASLIMIT"} :
           RowFit(x, GasQuickStep, NoFunction, 0, 1, NoFunction)
  OBVIOUS
LEMMA FlowFits ==
    /\ RowFit("POP", GasQuickStep, NoFunction, 1, 0, NoFunction)
    /\ RowFit("MLOAD", GasFastestStep, "gasMLoad", 1, 1, "memoryMLoad")
    /\ RowFit("MSTORE", GasFastestStep, "gasMStore", 2, 0, "memoryMStore")
    /\ RowFit("MSTORE8", GasFastestStep, "gasMStore8", 2, 0, "memoryMStore8")
    /\ RowFit("SLOAD", SloadGasFrontier, NoFunction, 1, 1, NoFunction)
    /\ RowFit("SSTORE", 0, "gasSStore", 2, 0, NoFunction)
    /\ RowFit("JUMP", GasMidStep, NoFunction, 1, 0, NoFunction)
    /\ RowFit("JUMPI", GasSlowStep, NoFunction, 2, 0, NoFunction)
    /\ \A x \in {"PC", "MSIZE", "GAS"} : RowFit(x, GasQuickStep, NoFunction, 0, 1, NoFunction)
    /\ RowFit("JUMPDEST", JumpdestGas, NoFunction, 0, 0, NoFunction)
  OBVIOUS
LEMMA SystemFits ==
    /\ RowFit("CREATE", CreateGas, "gasCreate", 3, 1, "memoryCreate")
    /\ RowFit("CALL", CallGasFrontier, "gasCall", 7, 1, "memoryCall")
    /\ RowFit("CALLCODE", CallGasFrontier, "gasCallCode", 7, 1, "memoryCall")
    /\ RowFit("RETURN", 0, "gasReturn", 2, 0, "memoryReturn")
    /\ RowFit("SELFDESTRUCT", 0, "gasSelfdestruct", 1, 0, NoFunction)
  OBVIOUS
LEMMA UndefinedFits ==
    RowFit("undefined", 0, NoFunction, 0, 0, NoFunction)
  OBVIOUS
LEMMA HomesteadFits ==
    RowFit("DELEGATECALL", CallGasFrontier, "gasDelegateCall", 6, 1, "memoryDelegateCall")
  OBVIOUS
LEMMA ByzantiumFits ==
    /\ RowFit("STATICCALL", CallGasEIP150, "gasStaticCall", 6, 1, "memoryStaticCall")
    /\ RowFit("RETURNDATASIZE", GasQuickStep, NoFunction, 0, 1, NoFunction)
    /\ RowFit("RETURNDATACOPY", GasFastestStep, "gasReturnDataCopy", 3, 0, "memoryReturnDataCopy")
    /\ RowFit("REVERT", 0, "gasRevert", 2, 0, "memoryRevert")
  OBVIOUS
LEMMA ConstantinopleFits ==
    /\ \A x \in {"SHL", "SHR", "SAR"} : RowFit(x, GasFastestStep, NoFunction, 2, 1, NoFunction)
    /\ RowFit("EXTCODEHASH", ExtcodeHashGasConstantinople, NoFunction, 1, 1, NoFunction)
    /\ RowFit("CREATE2", Create2Gas, "gasCreate2", 4, 1, "memoryCreate2")
  OBVIOUS
LEMMA Enable1344Fits ==
    RowFit("CHAINID", GasQuickStep, NoFunction, 0, 1, NoFunction)
  OBVIOUS
LEMMA Enable1884Fits ==
    RowFit("SELFBALANCE", GasFastStep, NoFunction, 0, 1, NoFunction)
  OBVIOUS
LEMMA Enable3198Fits ==
    RowFit("BASEFEE", GasQuickStep, NoFunction, 0, 1, NoFunction)
  OBVIOUS
LEMMA Enable3855Fits ==
    RowFit("PUSH0", GasQuickStep, NoFunction, 0, 1, NoFunction)
  OBVIOUS
LEMMA Enable1153Fits ==
    /\ RowFit("TLOAD", WarmStorageReadCostEIP2929, NoFunction, 1, 1, NoFunction)
    /\ RowFit("TSTORE", WarmStorageReadCostEIP2929, NoFunction, 2, 0, NoFunction)
  OBVIOUS
LEMMA Enable5656Fits ==
    RowFit("MCOPY", GasFastestStep, "gasMcopy", 3, 0, "memoryMcopy")
  OBVIOUS
LEMMA Enable4844Fits ==
    RowFit("BLOBHASH", GasFastestStep, NoFunction, 1, 1, NoFunction)
  OBVIOUS
LEMMA Enable7516Fits ==
    RowFit("BLOBBASEFEE", GasQuickStep, NoFunction, 0, 1, NoFunction)
  OBVIOUS

HIDE Prices DEF RowFit, Right, Effect, GoOn, MayFail, Ended, SizedRanges, GasDepth, MemoryDepth,
    MemoryFunctions, NoFunction, Charging, Calling, Creating, ValueMeters, PlainMeters,
    Executes, ArithmeticNames, BitNames, InputNames, CodeNames, BlockNames, StorageNames,
    JumpNames, IstanbulNames, TransientNames, BlobNames, HaltNames, DestructNames,
    CreateNames, CallNames

(* So the groups are right tables.                                         *)
LEMMA ArithmeticTable ==
    Table(Arithmetic, {"STOP"} \cup {"ADD", "SUB"}
                      \cup {"MUL", "DIV", "SDIV", "MOD", "SMOD", "SIGNEXTEND"}
                      \cup {"ADDMOD", "MULMOD"} \cup {"EXP"})
<1>1. Table(Row("STOP", Operation(0, 0, 0)), {"STOP"})
  BY ArithmeticFits, PlainRow
<1>2. Table(Rows({"ADD", "SUB"}, Operation(GasFastestStep, 2, 1)), {"ADD", "SUB"})
  BY ArithmeticFits, PlainRows
<1>3. Table(Rows({"MUL", "DIV", "SDIV", "MOD", "SMOD", "SIGNEXTEND"},
                Operation(GasFastStep, 2, 1)),
           {"MUL", "DIV", "SDIV", "MOD", "SMOD", "SIGNEXTEND"})
  BY ArithmeticFits, PlainRows
<1>4. Table(Rows({"ADDMOD", "MULMOD"}, Operation(GasMidStep, 3, 1)),
           {"ADDMOD", "MULMOD"})
  BY ArithmeticFits, PlainRows
<1>5. Table(Row("EXP", Metered(Operation(0, 2, 1), "gasExpFrontier")), {"EXP"})
  BY ArithmeticFits, MeteredRow
<1> DEFINE first == Row("STOP", Operation(0, 0, 0)) ++
                    Rows({"ADD", "SUB"}, Operation(GasFastestStep, 2, 1))
           names == {"STOP"} \cup {"ADD", "SUB"}
<1>6. Table(first, names)
  BY <1>1, <1>2, MergedTables
<1> HIDE DEF first, names
<1>7. Table(first ++
           Rows({"MUL", "DIV", "SDIV", "MOD", "SMOD", "SIGNEXTEND"},
                Operation(GasFastStep, 2, 1)) ++
           Rows({"ADDMOD", "MULMOD"}, Operation(GasMidStep, 3, 1)) ++
           Row("EXP", Metered(Operation(0, 2, 1), "gasExpFrontier")),
           names \cup {"MUL", "DIV", "SDIV", "MOD", "SMOD", "SIGNEXTEND"}
           \cup {"ADDMOD", "MULMOD"} \cup {"EXP"})
  BY <1>3, <1>4, <1>5, <1>6, MergedTables
<1> QED
  BY <1>7 DEF Arithmetic, first, names

LEMMA ComparisonTable ==
    Table(Comparison, {"LT", "GT", "SLT", "SGT", "EQ", "AND", "XOR", "OR", "BYTE"}
                      \cup {"ISZERO", "NOT"} \cup {"KECCAK256"})
  BY ComparisonFits, MemoryRow, PlainRows, MergedTables DEF Comparison

LEMMA EnvironmentTable ==
    Table(Environment,
                       {"ADDRESS", "ORIGIN", "CALLER",
                        "CALLVALUE", "CALLDATASIZE", "CODESIZE", "GASPRICE"}
                       \cup {"BALANCE"} \cup {"EXTCODESIZE"} \cup {"CALLDATALOAD"}
                       \cup {"CALLDATACOPY"} \cup {"CODECOPY"} \cup {"EXTCODECOPY"})
<1>1. Table(Rows({"ADDRESS", "ORIGIN", "CALLER",
                  "CALLVALUE", "CALLDATASIZE", "CODESIZE", "GASPRICE"},
                 Operation(GasQuickStep, 0, 1)),
           {"ADDRESS", "ORIGIN", "CALLER",
            "CALLVALUE", "CALLDATASIZE", "CODESIZE", "GASPRICE"})
  BY EnvironmentFits, PlainRows
<1>2. Table(Row("BALANCE", Operation(BalanceGasFrontier, 1, 1)), {"BALANCE"})
  BY EnvironmentFits, PlainRow
<1>3. Table(Row("EXTCODESIZE", Operation(ExtcodeSizeGasFrontier, 1, 1)),
           {"EXTCODESIZE"})
  BY EnvironmentFits, PlainRow
<1>4. Table(Row("CALLDATALOAD", Operation(GasFastestStep, 1, 1)), {"CALLDATALOAD"})
  BY EnvironmentFits, PlainRow
<1>5. Table(Row("CALLDATACOPY", InMemory(Operation(GasFastestStep, 3, 0),
                                         "gasCallDataCopy", "memoryCallDataCopy")),
           {"CALLDATACOPY"})
  BY EnvironmentFits, MemoryRow
<1>6. Table(Row("CODECOPY", InMemory(Operation(GasFastestStep, 3, 0),
                                     "gasCodeCopy", "memoryCodeCopy")),
           {"CODECOPY"})
  BY EnvironmentFits, MemoryRow
<1>7. Table(Row("EXTCODECOPY", InMemory(Operation(ExtcodeCopyBaseFrontier, 4, 0),
                                        "gasExtCodeCopy", "memoryExtCodeCopy")),
           {"EXTCODECOPY"})
  BY EnvironmentFits, MemoryRow
<1> DEFINE first == Rows({"ADDRESS", "ORIGIN", "CALLER",
                          "CALLVALUE", "CALLDATASIZE", "CODESIZE", "GASPRICE"},
                         Operation(GasQuickStep, 0, 1)) ++
                    Row("BALANCE", Operation(BalanceGasFrontier, 1, 1)) ++
                    Row("EXTCODESIZE", Operation(ExtcodeSizeGasFrontier, 1, 1))
           names == {"ADDRESS", "ORIGIN", "CALLER", "CALLVALUE", "CALLDATASIZE", "CODESIZE",
                     "GASPRICE"} \cup {"BALANCE"} \cup {"EXTCODESIZE"}
<1>8. Table(first, names)
  BY <1>1, <1>2, <1>3, MergedTables
<1> HIDE DEF first, names
<1>9. Table(first ++ Row("CALLDATALOAD", Operation(GasFastestStep, 1, 1)) ++
           Row("CALLDATACOPY", InMemory(Operation(GasFastestStep, 3, 0),
                                        "gasCallDataCopy", "memoryCallDataCopy")) ++
           Row("CODECOPY", InMemory(Operation(GasFastestStep, 3, 0),
                                    "gasCodeCopy", "memoryCodeCopy")) ++
           Row("EXTCODECOPY", InMemory(Operation(ExtcodeCopyBaseFrontier, 4, 0),
                                       "gasExtCodeCopy", "memoryExtCodeCopy")),
           names \cup {"CALLDATALOAD"} \cup {"CALLDATACOPY"} \cup {"CODECOPY"} \cup {"EXTCODECOPY"})
  BY <1>4, <1>5, <1>6, <1>7, <1>8, MergedTables
<1> QED
  BY <1>9 DEF Environment, first, names

LEMMA BlockTable ==
    Table(Block, {"BLOCKHASH"}
                 \cup {"COINBASE", "TIMESTAMP", "NUMBER", "DIFFICULTY", "GASLIMIT"})
  BY BlockFits, PlainRow, PlainRows, MergedTables DEF Block

LEMMA FlowTable ==
    Table(Flow, {"POP"} \cup {"MLOAD"} \cup {"MSTORE"} \cup {"MSTORE8"} \cup {"SLOAD"}
                \cup {"SSTORE"} \cup {"JUMP"} \cup {"JUMPI"} \cup {"PC", "MSIZE", "GAS"}
                \cup {"JUMPDEST"})
<1>1. Table(Row("POP", Operation(GasQuickStep, 1, 0)), {"POP"})
  BY FlowFits, PlainRow
<1>2. Table(Row("MLOAD", InMemory(Operation(GasFastestStep, 1, 1),
                                  "gasMLoad", "memoryMLoad")),
           {"MLOAD"})
  BY FlowFits, MemoryRow
<1>3. Table(Row("MSTORE", InMemory(Operation(GasFastestStep, 2, 0),
                                   "gasMStore", "memoryMStore")),
           {"MSTORE"})
  BY FlowFits, MemoryRow
<1>4. Table(Row("MSTORE8", InMemory(Operation(GasFastestStep, 2, 0),
                                    "gasMStore8", "memoryMStore8")),
           {"MSTORE8"})
  BY FlowFits, MemoryRow
<1>5. Table(Row("SLOAD", Operation(SloadGasFrontier, 1, 1)), {"SLOAD"})
  BY FlowFits, PlainRow
<1>6. Table(Row("SSTORE", Metered(Operation(0, 2, 0), "gasSStore")), {"SSTORE"})
  BY FlowFits, MeteredRow
<1>7. Table(Row("JUMP", Operation(GasMidStep, 1, 0)), {"JUMP"})
  BY FlowFits, PlainRow
<1>8. Table(Row("JUMPI", Operation(GasSlowStep, 2, 0)), {"JUMPI"})
  BY FlowFits, PlainRow
<1>9. Table(Rows({"PC", "MSIZE", "GAS"}, Operation(GasQuickStep, 0, 1)),
           {"PC", "MSIZE", "GAS"})
  BY FlowFits, PlainRows
<1>10. Table(Row("JUMPDEST", Operation(JumpdestGas, 0, 0)), {"JUMPDEST"})
  BY FlowFits, PlainRow
<1> DEFINE first == Row("POP", Operation(GasQuickStep, 1, 0)) ++
                    Row("MLOAD", InMemory(Operation(GasFastestStep, 1, 1),
                                          "gasMLoad", "memoryMLoad")) ++
                    Row("MSTORE", InMemory(Operation(GasFastestStep, 2, 0),
                                           "gasMStore", "memoryMStore")) ++
                    Row("MSTORE8", InMemory(Operation(GasFastestStep, 2, 0),
                                            "gasMStore8", "memoryMStore8")) ++
                    Row("SLOAD", Operation(SloadGasFrontier, 1, 1))
           names == {"POP"} \cup {"MLOAD"} \cup {"MSTORE"} \cup {"MSTORE8"} \cup {"SLOAD"}
<1>11. Table(first, names)
  BY <1>1, <1>2, <1>3, <1>4, <1>5, MergedTables
<1> HIDE DEF first, names
<1>12. Table(first ++ Row("SSTORE", Metered(Operation(0, 2, 0), "gasSStore")) ++
           Row("JUMP", Operation(GasMidStep, 1, 0)) ++
           Row("JUMPI", Operation(GasSlowStep, 2, 0)) ++
           Rows({"PC", "MSIZE", "GAS"}, Operation(GasQuickStep, 0, 1)) ++
           Row("JUMPDEST", Operation(JumpdestGas, 0, 0)),
           names \cup {"SSTORE"} \cup {"JUMP"} \cup {"JUMPI"}
           \cup {"PC", "MSIZE", "GAS"} \cup {"JUMPDEST"})
  BY <1>6, <1>7, <1>8, <1>9, <1>10, <1>11, MergedTables
<1> QED
  BY <1>12 DEF Flow, first, names

LEMMA SystemTable ==
    Table(System, {"CREATE"} \cup {"CALL"} \cup {"CALLCODE"} \cup {"RETURN"}
                  \cup {"SELFDESTRUCT"})
<1>1. Table(Row("CREATE", InMemory(Operation(CreateGas, 3, 1),
                                   "gasCreate", "memoryCreate")),
           {"CREATE"})
  BY SystemFits, MemoryRow
<1>2. Table(Row("CALL", InMemory(Operation(CallGasFrontier, 7, 1),
                                 "gasCall", "memoryCall")),
           {"CALL"})
  BY SystemFits, MemoryRow
<1>3. Table(Row("CALLCODE", InMemory(Operation(CallGasFrontier, 7, 1),
                                     "gasCallCode", "memoryCall")),
           {"CALLCODE"})
  BY SystemFits, MemoryRow
<1>4. Table(Row("RETURN", InMemory(Operation(0, 2, 0), "gasReturn", "memoryReturn")),
           {"RETURN"})
  BY SystemFits, MemoryRow
<1>5. Table(Row("SELFDESTRUCT", Metered(Operation(0, 1, 0), "gasSelfdestruct")),
           {"SELFDESTRUCT"})
  BY SystemFits, MeteredRow
<1> DEFINE first == Row("CREATE", InMemory(Operation(CreateGas, 3, 1),
                                           "gasCreate", "memoryCreate")) ++
                    Row("CALL", InMemory(Operation(CallGasFrontier, 7, 1),
                                         "gasCall", "memoryCall"))
           names == {"CREATE"} \cup {"CALL"}
<1>6. Table(first, names)
  BY <1>1, <1>2, MergedTables
<1> HIDE DEF first, names
<1>7. Table(first ++ Row("CALLCODE", InMemory(Operation(CallGasFrontier, 7, 1),
                                              "gasCallCode", "memoryCall")) ++
           Row("RETURN", InMemory(Operation(0, 2, 0), "gasReturn", "memoryReturn")) ++
           Row("SELFDESTRUCT", Metered(Operation(0, 1, 0), "gasSelfdestruct")),
           names \cup {"CALLCODE"} \cup {"RETURN"} \cup {"SELFDESTRUCT"})
  BY <1>3, <1>4, <1>5, <1>6, MergedTables
<1> QED
  BY <1>7 DEF System, first, names

LEMMA UndefinedTable ==
    Table(Undefined, {"undefined"})
  BY UndefinedFits, PlainRow DEF Undefined

(* The opcodes with a number.                                              *)
LEMMA NumberedEntry ==
    ASSUME NEW x \in {"PUSH", "DUP", "SWAP", "LOG"}, NEW n \in Nat,
           NEW c, NEW g, NEW p, NEW q, NEW m,
           c \in Nat, p \in Nat, q \in Nat, m \in MemoryFunctions,
           Honest(Op(x, c, g, p, q, m), EffectBy(x, n)),
           GasDepth(g) <= p, MemoryDepth(m) <= p, m # NoFunction => g # NoFunction,
           c > 0 \/ g \in Charging
    PROVE  Entry(<<x, n>>, Op(x, c, g, p, q, m))
<1> DEFINE o == Op(x, c, g, p, q, m)
<1>1. /\ IsOperation(o) /\ o.execute = x /\ o.constantGas = c /\ o.dynamicGas = g
      /\ o.numPop = p /\ o.numPush = q /\ o.memorySize = m
  BY DEF IsOperation, Op
<1>2. /\ <<x, n>>[1] = x /\ <<x, n>>[2] = n
      /\ x \notin Calling \cup Creating
  BY DEF Calling, Creating
<1>3. Honest(o, EffectBy(x, n))
  OBVIOUS
<1> HIDE DEF o
<1>4. Metering(o) /\ Priced(o, EffectBy(x, n))
  BY <1>1 DEF Metering, Priced
<1>5. Surcharged(x, o)
  BY <1>2 DEF Surcharged, Calling, Creating
<1>6. Entry(<<x, n>>, o)
  BY <1>1, <1>2, <1>3, <1>4, <1>5 DEF Entry
<1> QED
  BY <1>6 DEF o

(* PUSHn, DUPn, SWAPn and LOGn, for every n.                               *)
LEMMA PushTable == Table(Push, {})
<1>1. DOMAIN Push = {"PUSH"} \X (1 .. Pushes)
  BY DEF Push, Numbered
<1>2. ASSUME NEW op \in {"PUSH"} \X (1 .. Pushes) PROVE Entry(op, Push[op])
  <2>1. op = <<"PUSH", op[2]>>
    BY <1>2
  <2>2. Push[op] = Op("PUSH", GasFastestStep, NoFunction, 0, 1, NoFunction)
    <3>1. Push[op] = [Operation(GasFastestStep, 0, 1) EXCEPT !.execute = "PUSH"]
      BY DEF Push, Numbered
    <3> QED
      BY <3>1, OpForms
  <2>3. EffectBy("PUSH", op[2]) = Effect(0, 1, {}, {"running"})
    BY DEF EffectBy, makePush, GoOn
  <2>4. Honest(Op("PUSH", GasFastestStep, NoFunction, 0, 1, NoFunction), EffectBy("PUSH", op[2]))
    BY <2>3 DEF Honest, Op, Effect
  <2>5. Entry(<<"PUSH", op[2]>>, Op("PUSH", GasFastestStep, NoFunction, 0, 1, NoFunction))
    BY <2>4, Prices, NumberedEntry DEF NoFunction, MemoryFunctions, GasDepth, MemoryDepth
  <2> QED
    BY <2>1, <2>2, <2>5
<1> QED
  BY <1>1, <1>2 DEF Table

LEMMA DupTable == Table(Dup, {})
<1>1. DOMAIN Dup = {"DUP"} \X (1 .. Dups)
  BY DEF Dup, Numbered
<1>2. ASSUME NEW op \in {"DUP"} \X (1 .. Dups) PROVE Entry(op, Dup[op])
  <2> DEFINE n == op[2]
             o == Op("DUP", GasFastestStep, NoFunction, n, n + 1, NoFunction)
  <2>1. op = <<"DUP", n>> /\ n \in Nat
    BY <1>2, SizeAssumption
  <2>2. Dup[op] = o
    <3>1. Dup[op] = [Operation(GasFastestStep, n, n + 1) EXCEPT !.execute = "DUP"]
      BY DEF Dup, Numbered
    <3> QED
      BY <3>1, OpForms
  <2>3. EffectBy("DUP", n) = Effect(n, 1, {}, {"running"})
    BY DEF EffectBy, makeDup, GoOn
  <2> HIDE DEF n
  <2>4. Honest(o, EffectBy("DUP", n))
    BY <2>1, <2>3 DEF Honest, Op, Effect, Ended
  <2>5. Entry(<<"DUP", n>>, o)
    BY <2>1, <2>4, Prices, NumberedEntry DEF NoFunction, MemoryFunctions, GasDepth, MemoryDepth
  <2> QED
    BY <2>1, <2>2, <2>5
<1> QED
  BY <1>1, <1>2 DEF Table

LEMMA SwapTable == Table(Swap, {})
<1>1. DOMAIN Swap = {"SWAP"} \X (1 .. Dups)
  BY DEF Swap, Numbered
<1>2. ASSUME NEW op \in {"SWAP"} \X (1 .. Dups) PROVE Entry(op, Swap[op])
  <2> DEFINE n == op[2]
             o == Op("SWAP", GasFastestStep, NoFunction, n + 1, n + 1, NoFunction)
  <2>1. op = <<"SWAP", n>> /\ n \in Nat
    BY <1>2, SizeAssumption
  <2>2. Swap[op] = o
    <3>1. Swap[op] = [Operation(GasFastestStep, n + 1, n + 1) EXCEPT !.execute = "SWAP"]
      BY DEF Swap, Numbered
    <3> QED
      BY <3>1, OpForms
  <2>3. EffectBy("SWAP", n) = Effect(n + 1, 0, {}, {"running"})
    BY DEF EffectBy, makeSwap, GoOn
  <2> HIDE DEF n
  <2>4. Honest(o, EffectBy("SWAP", n))
    BY <2>1, <2>3 DEF Honest, Op, Effect, Ended
  <2>5. Entry(<<"SWAP", n>>, o)
    BY <2>1, <2>4, Prices, NumberedEntry DEF NoFunction, MemoryFunctions, GasDepth, MemoryDepth
  <2> QED
    BY <2>1, <2>2, <2>5
<1> QED
  BY <1>1, <1>2 DEF Table

LEMMA LogTable == Table(Log, {})
<1>1. DOMAIN Log = {"LOG"} \X (0 .. 4)
  BY DEF Log, Numbered
<1>2. ASSUME NEW op \in {"LOG"} \X (0 .. 4) PROVE Entry(op, Log[op])
  <2> DEFINE n == op[2]
             o == Op("LOG", 0, "gasLog", n + 2, 0, "memoryLog")
  <2>1. op = <<"LOG", n>> /\ n \in Nat
    BY <1>2
  <2>2. Log[op] = o
    <3>1. Log[op] = [InMemory(Operation(0, n + 2, 0),
                              "gasLog", "memoryLog") EXCEPT !.execute = "LOG"]
      BY DEF Log, Numbered
    <3> QED
      BY <3>1, OpForms
  <2>3. EffectBy("LOG", n) = Effect(n + 2, -(n + 2), {<<0, 1>>}, {"running", "failed"})
    BY DEF EffectBy, makeLog, MayFail
  <2> HIDE DEF n
  <2>4. Honest(o, EffectBy("LOG", n))
    BY <2>1, <2>3 DEF Honest, Op, Effect, Ended, SizedRanges
  <2>5. Entry(<<"LOG", n>>, o)
    BY <2>1, <2>4, Prices, NumberedEntry DEF NoFunction, MemoryFunctions, GasDepth, MemoryDepth,
         Charging
  <2> QED
    BY <2>1, <2>2, <2>5
<1> QED
  BY <1>1, <1>2 DEF Table

(* The names whose rows a later fork changes.                              *)
Frontiers ==
    {"EXP", "BALANCE", "EXTCODESIZE", "EXTCODECOPY", "SLOAD", "SSTORE", "CREATE", "CALL",
     "CALLCODE", "SELFDESTRUCT"}

(* The first table is right.                                               *)
LEMMA FrontierTable == Table(frontierInstructionSet, Frontiers)
<1>1. /\ Table(Arithmetic, {"EXP"}) /\ Table(Comparison, {})
      /\ Table(Environment, {"BALANCE", "EXTCODESIZE", "EXTCODECOPY"})
      /\ Table(Block, {}) /\ Table(Flow, {"SLOAD", "SSTORE"})
      /\ Table(System, {"CREATE", "CALL", "CALLCODE", "SELFDESTRUCT"})
      /\ Table(Undefined, {})
  BY ArithmeticTable, ComparisonTable, EnvironmentTable, BlockTable, FlowTable, SystemTable,
     UndefinedTable, FewerNames
<1> DEFINE first == Arithmetic ++ Comparison ++ Environment ++ Block ++ Flow
           names == {"EXP"} \cup {} \cup {"BALANCE", "EXTCODESIZE", "EXTCODECOPY"} \cup {}
                    \cup {"SLOAD", "SSTORE"}
           more == {"CREATE", "CALL", "CALLCODE", "SELFDESTRUCT"}
<1>2. Table(first, names)
  BY <1>1, MergedTables
<1>3. Frontiers \subseteq names \cup {} \cup {} \cup {} \cup {} \cup more \cup {}
  BY DEF Frontiers
<1>4. frontierInstructionSet = first ++ Push ++ Dup ++ Swap ++ Log ++ System ++ Undefined
  BY DEF frontierInstructionSet
<1> HIDE DEF first, names, more
<1>5. Table(first ++ Push ++ Dup ++ Swap ++ Log ++ System ++ Undefined,
            names \cup {} \cup {} \cup {} \cup {} \cup more \cup {})
  BY <1>1, <1>2, PushTable, DupTable, SwapTable, LogTable, MergedTables DEF more
<1> QED
  BY <1>3, <1>4, <1>5, FewerNames

(***************************************************************************)
(* The forks.                                                              *)
(***************************************************************************)

(* An entry with another price and another meter.                          *)
Changed(o, c, g) == Op(o.execute, c, g, o.numPop, o.numPush, o.memorySize)

(* What EXCEPT makes of an entry.                                          *)
LEMMA ChangeForms ==
    ASSUME NEW o, NEW c, NEW g, IsOperation(o)
    PROVE  /\ [o EXCEPT !.constantGas = c] = Changed(o, c, o.dynamicGas)
           /\ [o EXCEPT !.dynamicGas = g] = Changed(o, o.constantGas, g)
<1> DEFINE x == o.execute
           c0 == o.constantGas
           g0 == o.dynamicGas
           p == o.numPop
           q == o.numPush
           m == o.memorySize
<1>1. o = Op(x, c0, g0, p, q, m)
  BY DEF IsOperation
<1>2. Changed(o, c, g0) = Op(x, c, g0, p, q, m) /\ Changed(o, c0, g) = Op(x, c0, g, p, q, m)
  BY DEF Changed
<1> HIDE DEF x, c0, g0, p, q, m
<1>3. [Op(x, c0, g0, p, q, m) EXCEPT !.constantGas = c] = Op(x, c, g0, p, q, m)
  BY DEF Op
<1>4. [Op(x, c0, g0, p, q, m) EXCEPT !.dynamicGas = g] = Op(x, c0, g, p, q, m)
  BY DEF Op
<1>5. [o EXCEPT !.constantGas = c] = Op(x, c, g0, p, q, m)
  BY <1>1, <1>3
<1>6. [o EXCEPT !.dynamicGas = g] = Op(x, c0, g, p, q, m)
  BY <1>1, <1>4
<1> QED
  BY <1>2, <1>5, <1>6 DEF g0, c0

(* Which changes leave an entry right.                                     *)
LEMMA ChangedEntry ==
    ASSUME NEW x \in Executes, NEW o, Entry(<<x, 0>>, o), NEW c \in Nat, NEW g,
           GasDepth(g) <= o.numPop, g # NoFunction \/ g = o.dynamicGas,
           c > 0 \/ g \in Charging \/ x = "SELFDESTRUCT",
           x \in Calling \cup Creating => c > 0,
           x \in {"CALL", "CALLCODE"} => g \in ValueMeters,
           x \in {"DELEGATECALL", "STATICCALL"} => g \in PlainMeters
    PROVE  Entry(<<x, 0>>, Changed(o, c, g))
<1> DEFINE r == Changed(o, c, g)
           e == EffectBy(o.execute, 0)
<1>1. /\ r.execute = o.execute /\ r.constantGas = c /\ r.dynamicGas = g
      /\ r.numPop = o.numPop /\ r.numPush = o.numPush /\ r.memorySize = o.memorySize
  BY DEF Changed, Op
<1>2. <<x, 0>>[1] = x /\ <<x, 0>>[2] = 0
  OBVIOUS
<1>3. /\ IsOperation(o) /\ Honest(o, e) /\ Metering(o) /\ Priced(o, e) /\ Surcharged(x, o)
      /\ o.execute # x => o.execute = "SELFDESTRUCT6780" /\ x = "SELFDESTRUCT"
  BY <1>2 DEF Entry
<1>4. IsOperation(r)
  BY <1>1, <1>3 DEF IsOperation, Changed
<1>5. x = "SELFDESTRUCT" => "running" \notin e.next
  <2>1. ASSUME x = "SELFDESTRUCT" PROVE o.execute \in {"SELFDESTRUCT", "SELFDESTRUCT6780"}
    BY <1>3, <2>1
  <2>2. {"SELFDESTRUCT", "SELFDESTRUCT6780"} \subseteq Executes
    BY DEF Executes, DestructNames
  <2>3. ASSUME x = "SELFDESTRUCT" PROVE e = Effect(1, -1, {}, {"stopped", "failed"})
    BY <2>1, <2>2, <2>3, NamedEffect DEF Right
  <2> QED
    BY <2>3 DEF Effect
<1> HIDE DEF r, e
<1>6. Honest(r, e)
  BY <1>1, <1>3 DEF Honest
<1>7. Metering(r)
  BY <1>1, <1>3 DEF Metering
<1>8. Priced(r, e)
  BY <1>1, <1>5 DEF Priced
<1>9. Surcharged(x, r)
  BY <1>1 DEF Surcharged
<1>10. Entry(<<x, 0>>, r)
  BY <1>1, <1>2, <1>3, <1>4, <1>6, <1>7, <1>8, <1>9 DEF Entry, e
<1> QED
  BY <1>10 DEF r

(* How many items the rows that change take.                               *)
LEMMA PopsOf ==
    ASSUME NEW x, NEW o, Entry(<<x, 0>>, o)
    PROVE  /\ x \in {"SLOAD", "EXTCODESIZE", "EXTCODEHASH", "BALANCE", "SELFDESTRUCT"} =>
                 o.numPop = 1
           /\ x \in {"SSTORE", "EXP"} => o.numPop = 2
           /\ x = "CREATE" => o.numPop = 3
           /\ x \in {"EXTCODECOPY", "CREATE2"} => o.numPop = 4
           /\ x \in {"DELEGATECALL", "STATICCALL"} => o.numPop = 6
           /\ x \in {"CALL", "CALLCODE"} => o.numPop = 7
<1>1. <<x, 0>>[1] = x /\ <<x, 0>>[2] = 0
  OBVIOUS
<1>2. /\ o.numPop = EffectBy(o.execute, 0).depth
      /\ o.execute # x => o.execute = "SELFDESTRUCT6780" /\ x = "SELFDESTRUCT"
  BY <1>1 DEF Entry, Honest
<1>3. o.execute \in Executes => Right(o.execute, EffectBy(o.execute, 0))
  BY NamedEffect
<1>4. {"SLOAD", "EXTCODESIZE", "EXTCODEHASH", "BALANCE", "SELFDESTRUCT", "SELFDESTRUCT6780",
       "SSTORE", "EXP", "CREATE", "CREATE2", "EXTCODECOPY", "DELEGATECALL", "STATICCALL",
       "CALL", "CALLCODE"} \subseteq Executes
  BY DEF Executes, ArithmeticNames, InputNames, CodeNames, StorageNames, DestructNames,
         CreateNames, CallNames
<1> DEFINE e == EffectBy(o.execute, 0)
<1> HIDE DEF e
<1>5. o.numPop = e.depth /\ (o.execute \in Executes => Right(o.execute, e))
  BY <1>2, <1>3 DEF e
<1> QED
  BY <1>2, <1>4, <1>5 DEF Right, Effect

(* A change of price.                                                      *)
LEMMA RepricedTable ==
    ASSUME NEW t, NEW n, Table(t, n), NEW x \in n, x \in Executes, NEW c \in Nat, c > 0
    PROVE  Table(Repriced(t, x, c), n)
<1> DEFINE r == Repriced(t, x, c)
           o == t[<<x, 0>>]
<1>1. <<x, 0>> \in DOMAIN t /\ \A op \in DOMAIN t : Entry(op, t[op])
  BY DEF Table
<1>2. DOMAIN r = DOMAIN t /\ \A op \in DOMAIN t : op # <<x, 0>> => r[op] = t[op]
  BY DEF Repriced
<1>3. r[<<x, 0>>] = [o EXCEPT !.constantGas = c]
  BY <1>1 DEF Repriced
<1>4. Entry(<<x, 0>>, o)
  BY <1>1
<1> HIDE DEF r, o
<1>5. IsOperation(o) /\ Metering(o) /\ Surcharged(x, o)
  <2>1. <<x, 0>>[1] = x
    OBVIOUS
  <2> QED
    BY <1>4, <2>1 DEF Entry
<1>6. Entry(<<x, 0>>, Changed(o, c, o.dynamicGas))
  BY <1>4, <1>5, ChangedEntry DEF Metering, Surcharged
<1>7. Entry(<<x, 0>>, r[<<x, 0>>])
  BY <1>3, <1>5, <1>6, ChangeForms
<1>8. Table(r, n)
  BY <1>1, <1>2, <1>7 DEF Table
<1> QED
  BY <1>8 DEF r

(* A change of meter.                                                      *)
LEMMA RemeteredTable ==
    ASSUME NEW t, NEW n, Table(t, n), NEW x \in n, x \in Executes \ Calling,
           NEW g, g # NoFunction, g \in Charging \/ x \in {"SELFDESTRUCT"} \cup Creating,
           \A o : Entry(<<x, 0>>, o) => GasDepth(g) <= o.numPop
    PROVE  Table(Remetered(t, x, g), n)
<1> DEFINE r == Remetered(t, x, g)
           o == t[<<x, 0>>]
<1>1. <<x, 0>> \in DOMAIN t /\ \A op \in DOMAIN t : Entry(op, t[op])
  BY DEF Table
<1>2. DOMAIN r = DOMAIN t /\ \A op \in DOMAIN t : op # <<x, 0>> => r[op] = t[op]
  BY DEF Remetered
<1>3. r[<<x, 0>>] = [o EXCEPT !.dynamicGas = g]
  BY <1>1 DEF Remetered
<1>4. Entry(<<x, 0>>, o)
  BY <1>1
<1> HIDE DEF r, o
<1>5. IsOperation(o) /\ Surcharged(x, o) /\ GasDepth(g) <= o.numPop
  <2>1. <<x, 0>>[1] = x
    OBVIOUS
  <2> QED
    BY <1>4, <2>1 DEF Entry
<1>6. Entry(<<x, 0>>, Changed(o, o.constantGas, g))
  <2>1. o.constantGas \in Nat
    BY <1>5 DEF IsOperation
  <2>2. x \in Creating => o.constantGas > 0
    BY <1>5 DEF Surcharged
  <2> QED
    BY <1>4, <1>5, <2>1, <2>2, ChangedEntry DEF Calling
<1>7. Entry(<<x, 0>>, r[<<x, 0>>])
  BY <1>3, <1>5, <1>6, ChangeForms
<1>8. Table(r, n)
  BY <1>1, <1>2, <1>7 DEF Table
<1> QED
  BY <1>8 DEF r

(* All the names whose rows change have an effect of their own.            *)
LEMMA Executed ==
    /\ Frontiers \cup {"DELEGATECALL", "STATICCALL", "EXTCODEHASH", "CREATE2"} \subseteq Executes
    /\ Calling \cup Creating \subseteq Executes
  BY DEF Frontiers, Executes, ArithmeticNames, InputNames, CodeNames, StorageNames, DestructNames,
         CreateNames, CallNames, Calling, Creating

(* The names with another price after EIP-150, and after EIP-2929.         *)
EIP150Names ==
    {"BALANCE", "EXTCODESIZE", "SLOAD", "EXTCODECOPY", "CALL", "CALLCODE", "DELEGATECALL"}
AccessNames ==
    {"SSTORE", "SLOAD", "EXTCODECOPY", "EXTCODESIZE", "EXTCODEHASH", "BALANCE", "CALL",
     "CALLCODE", "STATICCALL", "DELEGATECALL", "SELFDESTRUCT"}

(* The new prices and meters suit the names they are for.                  *)
LEMMA EIP150Prices == \A x : EIP150Price(x) \in Nat /\ EIP150Price(x) > 0
  BY Prices DEF EIP150Price

LEMMA AccessPrices ==
    /\ \A x : AccessPrice(x) \in Nat
    /\ \A x : x \notin {"SSTORE", "SLOAD"} => AccessPrice(x) > 0
  BY Prices DEF AccessPrice

LEMMA AccessMeters ==
    ASSUME NEW x \in AccessNames
    PROVE  /\ AccessMeter(x) # NoFunction
           /\ x \in {"SSTORE", "SLOAD"} => AccessMeter(x) \in Charging
           /\ x \in {"CALL", "CALLCODE"} => AccessMeter(x) \in ValueMeters
           /\ x \in {"DELEGATECALL", "STATICCALL"} => AccessMeter(x) \in PlainMeters
           /\ x \in {"SLOAD", "EXTCODESIZE", "EXTCODEHASH", "BALANCE", "SELFDESTRUCT"} =>
                 GasDepth(AccessMeter(x)) <= 1
           /\ x \in {"SSTORE", "DELEGATECALL", "STATICCALL"} => GasDepth(AccessMeter(x)) <= 2
           /\ x \in {"CALL", "CALLCODE"} => GasDepth(AccessMeter(x)) <= 3
           /\ x = "EXTCODECOPY" => GasDepth(AccessMeter(x)) <= 4
  BY DEF AccessNames, AccessMeter, Charging, ValueMeters, PlainMeters, GasDepth, NoFunction

(* The forks that change many rows at once.                                *)
LEMMA TangerineWhistleTable ==
    ASSUME NEW t, NEW n, Table(t, n), EIP150Names \subseteq n
    PROVE  Table(TangerineWhistle(t), n)
<1> DEFINE s == [o \in EIP150Names \X {0} |-> [t[o] EXCEPT !.constantGas = EIP150Price(o[1])]]
<1>1. DOMAIN s = EIP150Names \X {0}
  OBVIOUS
<1>2. ASSUME NEW op \in EIP150Names \X {0} PROVE Entry(op, s[op])
  <2> DEFINE x == op[1]
             o == t[op]
             c == EIP150Price(x)
  <2>1. op = <<x, 0>> /\ x \in EIP150Names
    OBVIOUS
  <2>2. Entry(<<x, 0>>, o)
    BY <2>1 DEF Table
  <2>3. s[op] = [o EXCEPT !.constantGas = c]
    OBVIOUS
  <2>4. c \in Nat /\ c > 0
    BY EIP150Prices
  <2>5. x \in Executes
    BY <2>1, Executed DEF EIP150Names, Frontiers
  <2> HIDE DEF s, x, o, c
  <2>6. <<x, 0>>[1] = x
    OBVIOUS
  <2>7. IsOperation(o) /\ Metering(o) /\ Surcharged(x, o)
    BY <2>2, <2>6 DEF Entry
  <2>8. Entry(<<x, 0>>, Changed(o, c, o.dynamicGas))
    BY <2>2, <2>4, <2>5, <2>7, ChangedEntry DEF Metering, Surcharged
  <2> QED
    BY <2>1, <2>3, <2>7, <2>8, ChangeForms
<1>3. TangerineWhistle(t) = s ++ t
  BY Zenon DEF TangerineWhistle, EIP150Names
<1> HIDE DEF s
<1>4. Table(s, EIP150Names)
  BY <1>1, <1>2 DEF Table
<1>5. Table(s ++ t, EIP150Names \cup n)
  BY <1>4, MergedTables
<1> QED
  BY <1>3, <1>5, FewerNames

LEMMA enable2929Table ==
    ASSUME NEW t, NEW n, Table(t, n), AccessNames \subseteq n
    PROVE  Table(enable2929(t), n)
<1> DEFINE s == [o \in AccessNames \X {0} |->
                    [Metered(t[o], AccessMeter(o[1])) EXCEPT !.constantGas = AccessPrice(o[1])]]
<1>1. DOMAIN s = AccessNames \X {0}
  OBVIOUS
<1>2. ASSUME NEW op \in AccessNames \X {0} PROVE Entry(op, s[op])
  <2> DEFINE x == op[1]
             o == t[op]
             c == AccessPrice(x)
             g == AccessMeter(x)
  <2>1. op = <<x, 0>> /\ x \in AccessNames
    OBVIOUS
  <2>2. Entry(<<x, 0>>, o)
    BY <2>1 DEF Table
  <2>3. s[op] = [Metered(o, g) EXCEPT !.constantGas = c]
    OBVIOUS
  <2>4. c \in Nat /\ (x \notin {"SSTORE", "SLOAD"} => c > 0)
    BY AccessPrices
  <2>5. x \in Executes
    BY <2>1, Executed DEF AccessNames, Frontiers
  <2>6. /\ g # NoFunction
        /\ x \in {"SSTORE", "SLOAD"} => g \in Charging
        /\ x \in {"CALL", "CALLCODE"} => g \in ValueMeters
        /\ x \in {"DELEGATECALL", "STATICCALL"} => g \in PlainMeters
    BY <2>1, AccessMeters
  <2> HIDE DEF s, x, o, c
  <2>7. GasDepth(g) <= o.numPop
    <3>1. /\ x \in {"SLOAD", "EXTCODESIZE", "EXTCODEHASH", "BALANCE", "SELFDESTRUCT"} =>
                GasDepth(g) <= 1
          /\ x \in {"SSTORE", "DELEGATECALL", "STATICCALL"} => GasDepth(g) <= 2
          /\ x \in {"CALL", "CALLCODE"} => GasDepth(g) <= 3
          /\ x = "EXTCODECOPY" => GasDepth(g) <= 4
      BY <2>1, AccessMeters
    <3>2. GasDepth(g) \in 0 .. 4
      BY DEF GasDepth
    <3> HIDE DEF g
    <3>3. /\ x \in {"SLOAD", "EXTCODESIZE", "EXTCODEHASH", "BALANCE", "SELFDESTRUCT"} =>
                o.numPop = 1
          /\ x = "SSTORE" => o.numPop = 2
          /\ x \in {"DELEGATECALL", "STATICCALL"} => o.numPop = 6
          /\ x \in {"CALL", "CALLCODE"} => o.numPop = 7
          /\ x = "EXTCODECOPY" => o.numPop = 4
      BY <2>2, PopsOf
    <3> QED
      BY <2>1, <3>1, <3>2, <3>3 DEF AccessNames
  <2> HIDE DEF g
  <2>8. IsOperation(o)
    BY <2>2 DEF Entry
  <2>9. Entry(<<x, 0>>, Changed(o, c, g))
    BY <2>2, <2>4, <2>5, <2>6, <2>7, ChangedEntry DEF Calling, Creating
  <2>10. [Metered(o, g) EXCEPT !.constantGas = c] = Changed(o, c, g)
    <3> DEFINE d == Metered(o, g)
    <3>1. d = Changed(o, o.constantGas, g)
      BY <2>8, ChangeForms DEF Metered
    <3>2. IsOperation(d)
      BY <2>8, <3>1 DEF IsOperation, Changed, Op
    <3>3. Changed(d, c, d.dynamicGas) = Changed(o, c, g)
      BY <3>1 DEF Changed, Op
    <3> HIDE DEF d
    <3>4. [d EXCEPT !.constantGas = c] = Changed(d, c, d.dynamicGas)
      BY <3>2, ChangeForms
    <3> QED
      BY <3>3, <3>4 DEF d
  <2> QED
    BY <2>1, <2>3, <2>9, <2>10
<1>3. enable2929(t) = s ++ t
  BY Zenon DEF enable2929, AccessNames
<1> HIDE DEF s
<1>4. Table(s, AccessNames)
  BY <1>1, <1>2 DEF Table
<1>5. Table(s ++ t, AccessNames \cup n)
  BY <1>4, MergedTables
<1> QED
  BY <1>3, <1>5, FewerNames

(* The row that EIP-6780 puts in place of another.                         *)
LEMMA enable6780Table ==
    ASSUME NEW t, NEW n, Table(t, n), "SELFDESTRUCT" \in n
    PROVE  Table(enable6780(t), n)
<1> DEFINE r == enable6780(t)
           op == <<"SELFDESTRUCT", 0>>
           o == Op("SELFDESTRUCT6780", SelfdestructGasEIP150, "gasSelfdestructEIP3529", 1, 0,
                   NoFunction)
           e == EffectBy("SELFDESTRUCT6780", 0)
<1>1. op \in DOMAIN t /\ \A p \in DOMAIN t : Entry(p, t[p])
  BY DEF Table
<1>2. DOMAIN r = DOMAIN t /\ \A p \in DOMAIN t : p # op => r[p] = t[p]
  BY DEF enable6780
<1>3. r[op] = o
  <2>1. r[op] = [Metered(Operation(SelfdestructGasEIP150, 1, 0), "gasSelfdestructEIP3529")
                    EXCEPT !.execute = "SELFDESTRUCT6780"]
    BY <1>1 DEF enable6780
  <2> QED
    BY <2>1, OpForms
<1>4. op[1] = "SELFDESTRUCT" /\ op[2] = 0
  OBVIOUS
<1>5. /\ IsOperation(o) /\ o.execute = "SELFDESTRUCT6780" /\ o.constantGas > 0
      /\ o.dynamicGas = "gasSelfdestructEIP3529"
      /\ o.numPop = 1 /\ o.numPush = 0 /\ o.memorySize = NoFunction
  BY Prices DEF IsOperation, Op, MemoryFunctions, NoFunction
<1>6. e = Effect(1, -1, {}, {"stopped", "failed"})
  <2>1. "SELFDESTRUCT6780" \in Executes
    BY DEF Executes, DestructNames
  <2> QED
    BY <2>1, NamedEffect DEF Right
<1> HIDE DEF r, op, o
<1>7. Honest(o, e)
  BY <1>5, <1>6 DEF Honest, Effect, Ended
<1>8. Metering(o) /\ Priced(o, e) /\ Surcharged("SELFDESTRUCT", o)
  BY <1>5 DEF Metering, Priced, Surcharged, Calling, Creating, GasDepth, MemoryDepth, NoFunction
<1>9. Entry(op, o)
  BY <1>4, <1>5, <1>7, <1>8 DEF Entry
<1>10. Table(r, n)
  BY <1>1, <1>2, <1>3, <1>9 DEF Table
<1> QED
  BY <1>10 DEF r

(* The rows that a fork changes, when it has them.                         *)
Homesteads == Frontiers \cup {"DELEGATECALL"}
Byzantiums == Homesteads \cup {"STATICCALL"}
Constantinoples == Byzantiums \cup {"EXTCODEHASH", "CREATE2"}

(* Each fork makes a right table of the one before.                        *)
LEMMA HomesteadTable == Table(homesteadInstructionSet, Homesteads)
<1> DEFINE t == frontierInstructionSet
           row == Row("DELEGATECALL", InMemory(Operation(CallGasFrontier, 6, 1),
                                               "gasDelegateCall", "memoryDelegateCall"))
<1>1. Table(row, {"DELEGATECALL"})
  BY HomesteadFits, MemoryRow
<1>2. homesteadInstructionSet = row ++ t
  BY Zenon DEF homesteadInstructionSet, Homestead
<1> HIDE DEF row
<1>3. Table(row ++ t, {"DELEGATECALL"} \cup Frontiers)
  BY <1>1, FrontierTable, MergedTables
<1> QED
  BY <1>2, <1>3, FewerNames DEF Homesteads

LEMMA SpuriousDragonTable == Table(spuriousDragonInstructionSet, Homesteads)
<1>1. Table(tangerineWhistleInstructionSet, Homesteads)
  <2>1. EIP150Names \subseteq Homesteads
    BY DEF EIP150Names, Homesteads, Frontiers
  <2> QED
    BY <2>1, HomesteadTable, TangerineWhistleTable DEF tangerineWhistleInstructionSet
<1>2. "EXP" \in Homesteads /\ "EXP" \in Executes \ Calling
  BY Executed DEF Homesteads, Frontiers, Calling
<1>3. \A o : Entry(<<"EXP", 0>>, o) => GasDepth("gasExpEIP160") <= o.numPop
  BY PopsOf DEF GasDepth
<1>4. "gasExpEIP160" # NoFunction /\ "gasExpEIP160" \in Charging
  BY DEF NoFunction, Charging
<1> QED
  BY <1>1, <1>2, <1>3, <1>4, RemeteredTable DEF spuriousDragonInstructionSet, SpuriousDragon

LEMMA ByzantiumTable == Table(byzantiumInstructionSet, Byzantiums)
<1> DEFINE t == spuriousDragonInstructionSet
           call == Row("STATICCALL", InMemory(Operation(CallGasEIP150, 6, 1),
                                              "gasStaticCall", "memoryStaticCall"))
           size == Row("RETURNDATASIZE", Operation(GasQuickStep, 0, 1))
           copy == Row("RETURNDATACOPY", InMemory(Operation(GasFastestStep, 3, 0),
                                                  "gasReturnDataCopy", "memoryReturnDataCopy"))
           revert == Row("REVERT", InMemory(Operation(0, 2, 0),
                                            "gasRevert", "memoryRevert"))
<1>1. Table(call, {"STATICCALL"})
  BY ByzantiumFits, MemoryRow
<1>2. Table(size, {"RETURNDATASIZE"})
  BY ByzantiumFits, PlainRow
<1>3. Table(copy, {"RETURNDATACOPY"})
  BY ByzantiumFits, MemoryRow
<1>4. Table(revert, {"REVERT"})
  BY ByzantiumFits, MemoryRow
<1>5. byzantiumInstructionSet = call ++ size ++ copy ++ revert ++ t
  BY Zenon DEF byzantiumInstructionSet, Byzantium
<1> HIDE DEF call, size, copy, revert
<1>6. Table(call ++ size ++ copy ++ revert ++ t,
            {"STATICCALL"} \cup {"RETURNDATASIZE"} \cup {"RETURNDATACOPY"} \cup {"REVERT"}
            \cup Homesteads)
  BY <1>1, <1>2, <1>3, <1>4, SpuriousDragonTable, MergedTables
<1> QED
  BY <1>5, <1>6, FewerNames DEF Byzantiums

LEMMA ConstantinopleTable == Table(constantinopleInstructionSet, Constantinoples)
<1> DEFINE t == byzantiumInstructionSet
           shifts == Rows({"SHL", "SHR", "SAR"}, Operation(GasFastestStep, 2, 1))
           hash == Row("EXTCODEHASH", Operation(ExtcodeHashGasConstantinople, 1, 1))
           create == Row("CREATE2", InMemory(Operation(Create2Gas, 4, 1),
                                             "gasCreate2", "memoryCreate2"))
<1>1. Table(shifts, {"SHL", "SHR", "SAR"})
  BY ConstantinopleFits, PlainRows
<1>2. Table(hash, {"EXTCODEHASH"})
  BY ConstantinopleFits, PlainRow
<1>3. Table(create, {"CREATE2"})
  BY ConstantinopleFits, MemoryRow
<1>4. constantinopleInstructionSet = shifts ++ hash ++ create ++ t
  BY Zenon DEF constantinopleInstructionSet, Constantinople
<1> HIDE DEF shifts, hash, create
<1>5. Table(shifts ++ hash ++ create ++ t,
            {"SHL", "SHR", "SAR"} \cup {"EXTCODEHASH"} \cup {"CREATE2"} \cup Byzantiums)
  BY <1>1, <1>2, <1>3, ByzantiumTable, MergedTables
<1> QED
  BY <1>4, <1>5, FewerNames DEF Constantinoples

(* One more row that fits.                                                 *)
LEMMA OneMore ==
    ASSUME NEW s, NEW m, NEW t, NEW n, Table(s, m), Table(t, n)
    PROVE  Table(s ++ t, n)
<1>1. Table(s ++ t, m \cup n)
  BY MergedTables
<1> QED
  BY <1>1, FewerNames

LEMMA IstanbulTable == Table(istanbulInstructionSet, Constantinoples)
<1> DEFINE t == constantinopleInstructionSet
           n == Constantinoples
           chain == Row("CHAINID", Operation(GasQuickStep, 0, 1))
           self == Row("SELFBALANCE", Operation(GasFastStep, 0, 1))
           first == Repriced(enable1344(t), "SLOAD", SloadGasEIP1884)
           second == Repriced(first, "BALANCE", BalanceGasEIP1884)
           third == Repriced(second, "EXTCODEHASH", ExtcodeHashGasEIP1884)
           fourth == Repriced(enable1884(enable1344(t)), "SLOAD", SloadGasEIP2200)
<1>1. /\ {"SLOAD", "BALANCE", "EXTCODEHASH", "SSTORE"} \subseteq n \cap (Executes \ Calling)
      /\ {"SLOAD", "BALANCE", "EXTCODEHASH", "SSTORE"} \subseteq n
  BY Executed DEF Constantinoples, Byzantiums, Homesteads, Frontiers, Calling
<1>2. Table(enable1344(t), n)
  <2>1. Table(chain, {"CHAINID"})
    BY Enable1344Fits, PlainRow
  <2>2. enable1344(t) = chain ++ t
    BY Zenon DEF enable1344
  <2> HIDE DEF chain
  <2> QED
    BY <2>1, <2>2, ConstantinopleTable, OneMore
<1> HIDE DEF t, n
<1>3. Table(first, n)
  BY <1>1, <1>2, Prices, RepricedTable
<1>4. Table(second, n)
  <2> HIDE DEF first
  <2> QED
    BY <1>1, <1>3, Prices, RepricedTable
<1>5. Table(third, n)
  <2> HIDE DEF first, second
  <2> QED
    BY <1>1, <1>4, Prices, RepricedTable DEF third
<1>6. Table(enable1884(enable1344(t)), n)
  <2>1. Table(self, {"SELFBALANCE"})
    BY Enable1884Fits, PlainRow
  <2>2. enable1884(enable1344(t)) = self ++ third
    BY Zenon DEF enable1884
  <2> HIDE DEF self, first, second, third
  <2> QED
    BY <1>5, <2>1, <2>2, OneMore
<1> HIDE DEF first, second, third
<1>7. Table(fourth, n)
  BY <1>1, <1>6, Prices, RepricedTable
<1>8. \A o : Entry(<<"SSTORE", 0>>, o) => GasDepth("gasSStoreEIP2200") <= o.numPop
  BY PopsOf DEF GasDepth
<1>9. "gasSStoreEIP2200" # NoFunction /\ "gasSStoreEIP2200" \in Charging
  BY DEF NoFunction, Charging
<1> HIDE DEF fourth
<1>10. Table(Remetered(fourth, "SSTORE", "gasSStoreEIP2200"), n)
  BY <1>1, <1>7, <1>8, <1>9, RemeteredTable
<1> QED
  BY <1>10 DEF istanbulInstructionSet, Istanbul, enable2200, fourth, t, n

LEMMA BerlinTable == Table(berlinInstructionSet, Constantinoples)
<1>1. AccessNames \subseteq Constantinoples
  BY DEF AccessNames, Constantinoples, Byzantiums, Homesteads, Frontiers
<1> QED
  BY <1>1, IstanbulTable, enable2929Table DEF berlinInstructionSet

LEMMA LondonTable == Table(londonInstructionSet, Constantinoples)
<1> DEFINE t == berlinInstructionSet
           n == Constantinoples
           fee == Row("BASEFEE", Operation(GasQuickStep, 0, 1))
           first == Remetered(t, "SSTORE", "gasSStoreEIP3529")
<1>1. /\ {"SSTORE", "SELFDESTRUCT"} \subseteq n
      /\ {"SSTORE", "SELFDESTRUCT"} \subseteq Executes \ Calling
  BY Executed DEF Constantinoples, Byzantiums, Homesteads, Frontiers, Calling
<1>2. /\ \A o : Entry(<<"SSTORE", 0>>, o) => GasDepth("gasSStoreEIP3529") <= o.numPop
      /\ \A o : Entry(<<"SELFDESTRUCT", 0>>, o) => GasDepth("gasSelfdestructEIP3529") <= o.numPop
  BY PopsOf DEF GasDepth
<1>3. /\ "gasSStoreEIP3529" # NoFunction /\ "gasSStoreEIP3529" \in Charging
      /\ "gasSelfdestructEIP3529" # NoFunction
  BY DEF NoFunction, Charging
<1>4. Table(first, n)
  BY <1>1, <1>2, <1>3, BerlinTable, RemeteredTable
<1>5. Table(enable3529(t), n)
  <2> HIDE DEF first, t, n
  <2>1. Table(Remetered(first, "SELFDESTRUCT", "gasSelfdestructEIP3529"), n)
    BY <1>1, <1>2, <1>3, <1>4, RemeteredTable
  <2> QED
    BY <2>1 DEF enable3529, first
<1>6. Table(fee, {"BASEFEE"})
  BY Enable3198Fits, PlainRow
<1>7. londonInstructionSet = fee ++ enable3529(t)
  BY Zenon DEF londonInstructionSet, London, enable3198
<1> HIDE DEF fee
<1> QED
  BY <1>5, <1>6, <1>7, OneMore

LEMMA ShanghaiTable == Table(shanghaiInstructionSet, Constantinoples)
<1> DEFINE t == enable3855(londonInstructionSet)
           n == Constantinoples
           push == Row("PUSH0", Operation(GasQuickStep, 0, 1))
           first == Remetered(t, "CREATE", "gasCreateEip3860")
<1>1. Table(t, n)
  <2>1. Table(push, {"PUSH0"})
    BY Enable3855Fits, PlainRow
  <2>2. t = push ++ londonInstructionSet
    BY Zenon DEF enable3855
  <2> HIDE DEF push, t
  <2> QED
    BY <2>1, <2>2, LondonTable, OneMore
<1>2. /\ {"CREATE", "CREATE2"} \subseteq n /\ {"CREATE", "CREATE2"} \subseteq Executes \ Calling
      /\ {"CREATE", "CREATE2"} = Creating
  BY Executed DEF Constantinoples, Byzantiums, Homesteads, Frontiers, Calling, Creating
<1>3. /\ \A o : Entry(<<"CREATE", 0>>, o) => GasDepth("gasCreateEip3860") <= o.numPop
      /\ \A o : Entry(<<"CREATE2", 0>>, o) => GasDepth("gasCreate2Eip3860") <= o.numPop
  BY PopsOf DEF GasDepth
<1>4. "gasCreateEip3860" # NoFunction /\ "gasCreate2Eip3860" # NoFunction
  BY DEF NoFunction
<1> HIDE DEF t, n
<1>5. Table(first, n)
  BY <1>1, <1>2, <1>3, <1>4, RemeteredTable
<1> HIDE DEF first
<1>6. Table(Remetered(first, "CREATE2", "gasCreate2Eip3860"), n)
  BY <1>2, <1>3, <1>4, <1>5, RemeteredTable
<1> QED
  BY <1>6 DEF shanghaiInstructionSet, Shanghai, enable3860, first, t, n

LEMMA NapoliTable == Table(napoliInstructionSet, Constantinoples)
<1> DEFINE t == shanghaiInstructionSet
           n == Constantinoples
           load == Row("TLOAD", Operation(WarmStorageReadCostEIP2929, 1, 1))
           store == Row("TSTORE", Operation(WarmStorageReadCostEIP2929, 2, 0))
           copy == Row("MCOPY", InMemory(Operation(GasFastestStep, 3, 0),
                                         "gasMcopy", "memoryMcopy"))
           names == {"TLOAD"} \cup {"TSTORE"}
<1>1. Table(load, {"TLOAD"})
  BY Enable1153Fits, PlainRow
<1>2. Table(store, {"TSTORE"})
  BY Enable1153Fits, PlainRow
<1>3. Table(copy, {"MCOPY"})
  BY Enable5656Fits, MemoryRow
<1>4. enable1153(t) = load ++ store ++ t
  BY Zenon DEF enable1153
<1>5. enable5656(enable1153(t)) = copy ++ enable1153(t)
  BY Zenon DEF enable5656
<1> HIDE DEF load, store, copy
<1>6. Table(load ++ store ++ t, n)
  <2>1. Table(load ++ store, names)
    BY <1>1, <1>2, MergedTables
  <2> HIDE DEF names
  <2> QED
    BY <2>1, ShanghaiTable, OneMore
<1>7. Table(enable5656(enable1153(t)), n)
  BY <1>3, <1>4, <1>5, <1>6, OneMore
<1>8. "SELFDESTRUCT" \in n
  BY DEF Constantinoples, Byzantiums, Homesteads, Frontiers
<1> HIDE DEF t, n
<1> QED
  BY <1>7, <1>8, enable6780Table DEF napoliInstructionSet, Napoli, t, n

LEMMA CancunTable == Table(cancunInstructionSet, Constantinoples)
<1> DEFINE t == napoliInstructionSet
           hash == Row("BLOBHASH", Operation(GasFastestStep, 1, 1))
           fee == Row("BLOBBASEFEE", Operation(GasQuickStep, 0, 1))
<1>1. Table(hash, {"BLOBHASH"})
  BY Enable4844Fits, PlainRow
<1>2. Table(fee, {"BLOBBASEFEE"})
  BY Enable7516Fits, PlainRow
<1>3. enable4844(t) = hash ++ t
  BY Zenon DEF enable4844
<1>4. cancunInstructionSet = fee ++ enable4844(t)
  BY Zenon DEF cancunInstructionSet, Cancun, enable7516
<1> HIDE DEF hash, fee
<1> QED
  BY <1>1, <1>2, <1>3, <1>4, NapoliTable, OneMore

(* All the tables are right.                                               *)
LEMMA AllTables == \A f \in ForkNumber : Table(InstructionSets[f], {})
<1>1. ForkNumber = 1 .. 13
  BY DEF ForkNumber, Forks
<1>2. Table(tangerineWhistleInstructionSet, {})
  <2>1. EIP150Names \subseteq Homesteads
    BY DEF EIP150Names, Homesteads, Frontiers
  <2> QED
    BY <2>1, HomesteadTable, TangerineWhistleTable, FewerNames DEF tangerineWhistleInstructionSet
<1>3. /\ Table(frontierInstructionSet, {}) /\ Table(homesteadInstructionSet, {})
      /\ Table(spuriousDragonInstructionSet, {}) /\ Table(byzantiumInstructionSet, {})
      /\ Table(constantinopleInstructionSet, {}) /\ Table(istanbulInstructionSet, {})
      /\ Table(berlinInstructionSet, {}) /\ Table(londonInstructionSet, {})
      /\ Table(shanghaiInstructionSet, {}) /\ Table(napoliInstructionSet, {})
      /\ Table(cancunInstructionSet, {}) /\ Table(pragueInstructionSet, {})
  BY FrontierTable, HomesteadTable, SpuriousDragonTable, ByzantiumTable, ConstantinopleTable,
     IstanbulTable, BerlinTable, LondonTable, ShanghaiTable, NapoliTable, CancunTable, FewerNames
     DEF pragueInstructionSet
<1> QED
  BY <1>1, <1>2, <1>3 DEF InstructionSets

(***************************************************************************)
(* What is touched lies in the memory.                                     *)
(***************************************************************************)

(* A size that was found is the end of the range, with no wrap.            *)
LEMMA CalcFits ==
    ASSUME NEW off \in Nat, NEW l \in Nat, calcMemSize64(off, l) # Overflow
    PROVE  /\ calcMemSize64(off, l) \in 0 .. MaxUint
           /\ Uint(l) = l
           /\ l = 0 \/ Uint(off) + l <= calcMemSize64(off, l)
<1> DEFINE M == MaxUint + 1
<1>1. M \in Nat /\ M > 0 /\ MaxUint \in Nat
  BY Sizes
<1>2. l <= MaxUint
  BY DEF calcMemSize64, IsUint
<1>3. \A x \in 0 .. MaxUint : x % M = x
  BY <1>1
<1>4. Uint(l) = l
  BY <1>2, <1>3 DEF Uint
<1>5. CASE l = 0
  BY <1>1, <1>2, <1>4, <1>5 DEF calcMemSize64, calcMemSize64WithUint, IsUint
<1>6. CASE l # 0
  <2>1. /\ off <= MaxUint /\ ~ (Uint(off + l) < off)
        /\ calcMemSize64(off, l) = Uint(off + l)
    BY <1>2, <1>6 DEF calcMemSize64, calcMemSize64WithUint, IsUint
  <2>2. CASE off + l <= MaxUint
    BY <1>3, <1>4, <2>1, <2>2 DEF Uint
  <2>3. CASE ~ (off + l <= MaxUint)
    <3>1. off + l - M \in 0 .. MaxUint /\ off + l - M < off
      BY <1>1, <1>2, <2>1, <2>3
    <3>2. (off + l) % M = off + l - M
      <4> DEFINE r == off + l - M
      <4>1. r \in Nat /\ r < M /\ off + l = M * 1 + r
        BY <1>1, <3>1
      <4> HIDE DEF M, r
      <4>2. (M * 1 + r) \div M = 1
        BY <1>1, <4>1, Quotient
      <4>3. \A x \in Nat : x = M * (x \div M) + (x % M)
        BY <1>1
      <4>4. off + l = M * 1 + ((off + l) % M) /\ (off + l) % M \in Int
        BY <1>1, <4>1, <4>2, <4>3
      <4> QED
        BY <1>1, <4>1, <4>4 DEF r
    <3> QED
      BY <1>1, <2>1, <3>1, <3>2 DEF Uint
  <2> QED
    BY <2>2, <2>3
<1> QED
  BY <1>5, <1>6

(* The same for a length that is a constant.                               *)
LEMMA CalcWithUintFits ==
    ASSUME NEW off \in Nat, NEW l \in 1 .. MaxUint, calcMemSize64WithUint(off, l) # Overflow
    PROVE  /\ calcMemSize64WithUint(off, l) \in 0 .. MaxUint
           /\ Uint(off) + l <= calcMemSize64WithUint(off, l)
<1>1. l \in Nat /\ l # 0 /\ IsUint(l)
  BY Sizes DEF IsUint
<1>2. calcMemSize64(off, l) = calcMemSize64WithUint(off, l)
  BY <1>1 DEF calcMemSize64
<1> QED
  BY <1>1, <1>2, CalcFits

(* The larger of two sizes is as large as each.                            *)
LEMMA LargerFits ==
    ASSUME NEW x \in NatOrOverflow, NEW y \in NatOrOverflow, Larger(x, y) # Overflow
    PROVE  /\ x # Overflow /\ y # Overflow
           /\ x <= Larger(x, y) /\ y <= Larger(x, y)
           /\ x \in 0 .. MaxUint /\ y \in 0 .. MaxUint => Larger(x, y) \in 0 .. MaxUint
  BY Sizes DEF Larger, NatOrOverflow, Overflow

(* The range ends before size.                                             *)
Within(r, back, size) ==
    LET off == Uint(back[r[1]])
        l == IF r[2] < 0 THEN -r[2] ELSE Uint(back[r[2]])
    IN  l = 0 \/ off + l <= size

(* A size that calcMemSize64 returns is large enough for its range.        *)
LEMMA CalcWithin ==
    ASSUME NEW back \in [Positions -> Nat], NEW i \in Positions, NEW j \in Positions,
           calcMemSize64(back[i], back[j]) # Overflow,
           NEW size \in Nat, calcMemSize64(back[i], back[j]) <= size
    PROVE  Within(<<i, j>>, back, size)
<1> DEFINE off == back[i]
           l == back[j]
           c == calcMemSize64(off, l)
<1>1. off \in Nat /\ l \in Nat /\ ~ (j < 0)
  BY DEF Positions
<1>2. c \in 0 .. MaxUint /\ (l = 0 \/ Uint(off) + l <= c) /\ Uint(l) = l
  BY <1>1, CalcFits
<1>3. Uint(off) \in Int
  BY <1>1, Sizes DEF Uint
<1>4. c <= size
  OBVIOUS
<1> HIDE DEF off, l, c
<1>5. Uint(l) = 0 \/ Uint(off) + Uint(l) <= size
  BY <1>1, <1>2, <1>3, <1>4, Sizes
<1> QED
  BY <1>1, <1>5 DEF Within, off, l

LEMMA CalcWithinWord ==
    ASSUME NEW back \in [Positions -> Nat], NEW i \in Positions, NEW l \in 1 .. MaxUint,
           calcMemSize64WithUint(back[i], l) # Overflow,
           NEW size \in Nat, calcMemSize64WithUint(back[i], l) <= size
    PROVE  Within(<<i, -l>>, back, size)
<1> DEFINE off == back[i]
           c == calcMemSize64WithUint(off, l)
<1>1. off \in Nat /\ l \in Nat /\ -l < 0 /\ -(-l) = l
  BY Sizes
<1>2. c \in 0 .. MaxUint /\ Uint(off) + l <= c
  BY <1>1, CalcWithUintFits
<1>3. Uint(off) \in Int
  BY <1>1, Sizes DEF Uint
<1>4. c <= size
  OBVIOUS
<1> HIDE DEF off, c
<1>5. Uint(off) + l <= size
  BY <1>1, <1>2, <1>3, <1>4, Sizes
<1> QED
  BY <1>1, <1>5 DEF Within, off

(* The ranges of a memorySize function end before the size it returns.     *)
LEMMA SizedRangesFit ==
    ASSUME NEW m \in MemoryFunctions, NEW back \in [Positions -> Nat],
           MemorySize(m, back) # Overflow
    PROVE  /\ MemorySize(m, back) \in 0 .. MaxUint
           /\ \A size \in Nat : MemorySize(m, back) <= size =>
                 \A r \in SizedRanges(m) : Within(r, back, size)
<1>0. /\ Positions = 0 .. 6 /\ \A i \in Positions : back[i] \in Nat
      /\ 1 \in 1 .. MaxUint /\ Word \in 1 .. MaxUint
  <2>1. Word * (MaxWords + 1) >= Word
    <3>1. Word * (MaxWords + 1) = Word * MaxWords + Word /\ Word * MaxWords >= 0
      BY Sizes
    <3> QED
      BY <3>1, Sizes
  <2> QED
    BY <2>1, Sizes DEF Positions
<1>1. ASSUME NEW i \in Positions, NEW j \in Positions,
             MemorySize(m, back) = calcMemSize64(back[i], back[j]),
             SizedRanges(m) = {<<i, j>>}
      PROVE  /\ MemorySize(m, back) \in 0 .. MaxUint
             /\ \A size \in Nat : MemorySize(m, back) <= size =>
                   \A r \in SizedRanges(m) : Within(r, back, size)
  <2>1. calcMemSize64(back[i], back[j]) \in 0 .. MaxUint
    BY <1>0, <1>1, CalcFits
  <2>2. \A size \in Nat : calcMemSize64(back[i], back[j]) <= size => Within(<<i, j>>, back, size)
    BY <1>1, CalcWithin
  <2> QED
    BY <1>1, <2>1, <2>2
<1>2. ASSUME NEW l \in 1 .. MaxUint, MemorySize(m, back) = calcMemSize64WithUint(back[0], l),
             SizedRanges(m) = {<<0, -l>>}
      PROVE  /\ MemorySize(m, back) \in 0 .. MaxUint
             /\ \A size \in Nat : MemorySize(m, back) <= size =>
                   \A r \in SizedRanges(m) : Within(r, back, size)
  <2>0. 0 \in Positions
    BY <1>0
  <2>1. calcMemSize64WithUint(back[0], l) \in 0 .. MaxUint
    BY <1>0, <1>2, <2>0, CalcWithUintFits
  <2>2. \A size \in Nat :
            calcMemSize64WithUint(back[0], l) <= size => Within(<<0, -l>>, back, size)
    BY <1>2, <2>0, CalcWithinWord
  <2> QED
    BY <1>2, <2>1, <2>2
<1>3. ASSUME NEW i \in Positions, NEW j \in Positions, NEW k \in Positions, NEW n \in Positions,
             MemorySize(m, back) = Larger(calcMemSize64(back[k], back[n]),
                                          calcMemSize64(back[i], back[j])),
             SizedRanges(m) = {<<i, j>>, <<k, n>>}
      PROVE  /\ MemorySize(m, back) \in 0 .. MaxUint
             /\ \A size \in Nat : MemorySize(m, back) <= size =>
                   \A r \in SizedRanges(m) : Within(r, back, size)
  <2> DEFINE x == calcMemSize64(back[k], back[n])
             y == calcMemSize64(back[i], back[j])
  <2>1. x \in NatOrOverflow /\ y \in NatOrOverflow
    BY <1>0, CalcType
  <2>2. Larger(x, y) # Overflow
    BY <1>3
  <2>3. x # Overflow /\ y # Overflow
    <3> HIDE DEF x, y
    <3> QED
      BY <2>1, <2>2, LargerFits
  <2>4. x \in 0 .. MaxUint /\ y \in 0 .. MaxUint
    BY <1>0, <2>3, CalcFits
  <2>5. ASSUME NEW size \in Nat, Larger(x, y) <= size
        PROVE  Within(<<i, j>>, back, size) /\ Within(<<k, n>>, back, size)
    <3>1. x <= size /\ y <= size
      <4> HIDE DEF x, y
      <4> QED
        BY <2>1, <2>2, <2>4, <2>5, LargerFits
    <3> QED
      BY <2>3, <3>1, CalcWithin
  <2>6. Larger(x, y) \in 0 .. MaxUint
    <3> HIDE DEF x, y
    <3> QED
      BY <2>1, <2>2, <2>4, LargerFits
  <2> QED
    BY <1>3, <2>5, <2>6
<1>4. CASE m = "memoryMcopy"
  <2> DEFINE top == Larger(back[0], back[1])
             c == calcMemSize64(top, back[2])
  <2>1. {0, 1, 2} \subseteq Positions
    BY <1>0
  <2>2. back[0] \in Nat /\ back[1] \in Nat /\ back[2] \in Nat
    BY <1>0, <2>1
  <2>3. top \in {back[0], back[1]} /\ back[0] <= top /\ back[1] <= top
    BY <2>2 DEF Larger, Overflow
  <2>4. MemorySize(m, back) = c /\ SizedRanges(m) = {<<0, 2>>, <<1, 2>>}
    BY <1>4 DEF MemorySize, SizedRanges
  <2>5. top \in Nat /\ c # Overflow
    BY <2>2, <2>3, <2>4
  <2>6. c \in 0 .. MaxUint
    BY <2>2, <2>5, CalcFits
  <2>7. ASSUME NEW size \in Nat, c <= size, NEW i \in {0, 1}
        PROVE  Within(<<i, 2>>, back, size)
    <3>1. back[i] <= top /\ back[i] \in Nat
      BY <2>2, <2>3
    <3>2. Uint(back[2]) = back[2] /\ (back[2] = 0 \/ Uint(top) + back[2] <= c)
      BY <2>2, <2>5, CalcFits
    <3>3. CASE back[2] = 0
      BY <3>2, <3>3 DEF Within
    <3>4. CASE back[2] # 0
      <4>1. top <= MaxUint
        BY <2>2, <2>5, <3>4 DEF calcMemSize64, calcMemSize64WithUint, IsUint, Overflow
      <4>2. Uint(top) = top /\ Uint(back[i]) = back[i]
        <5>1. \A x \in 0 .. MaxUint : x % (MaxUint + 1) = x
          BY Sizes
        <5> HIDE DEF top
        <5> QED
          BY <2>5, <3>1, <4>1, <5>1, Sizes DEF Uint
      <4> HIDE DEF top, c
      <4>3. Uint(back[i]) + Uint(back[2]) <= size
        BY <2>2, <2>5, <2>6, <2>7, <3>1, <3>2, <3>4, <4>2, Sizes
      <4> QED
        BY <4>3 DEF Within
    <3> QED
      BY <3>3, <3>4
  <2> HIDE DEF c, top
  <2> QED
    BY <2>4, <2>6, <2>7
<1>5. CASE m \in {"memoryKeccak256", "memoryReturn", "memoryRevert", "memoryLog"}
  <2>1. MemorySize(m, back) = calcMemSize64(back[0], back[1]) /\ SizedRanges(m) = {<<0, 1>>}
    BY <1>5 DEF MemorySize, SizedRanges
  <2> QED
    BY <1>0, <1>1, <2>1
<1>6. CASE m \in {"memoryCallDataCopy", "memoryReturnDataCopy", "memoryCodeCopy"}
  <2>1. MemorySize(m, back) = calcMemSize64(back[0], back[2]) /\ SizedRanges(m) = {<<0, 2>>}
    BY <1>6 DEF MemorySize, SizedRanges
  <2> QED
    BY <1>0, <1>1, <2>1
<1>7. CASE m = "memoryExtCodeCopy"
  <2>1. MemorySize(m, back) = calcMemSize64(back[1], back[3]) /\ SizedRanges(m) = {<<1, 3>>}
    BY <1>7 DEF MemorySize, SizedRanges
  <2> QED
    BY <1>0, <1>1, <2>1
<1>8. CASE m \in {"memoryCreate", "memoryCreate2"}
  <2>1. MemorySize(m, back) = calcMemSize64(back[1], back[2]) /\ SizedRanges(m) = {<<1, 2>>}
    BY <1>8 DEF MemorySize, SizedRanges
  <2> QED
    BY <1>0, <1>1, <2>1
<1>9. CASE m \in {"memoryMLoad", "memoryMStore"}
  <2>1. /\ MemorySize(m, back) = calcMemSize64WithUint(back[0], Word)
        /\ SizedRanges(m) = {<<0, -Word>>}
    BY <1>9 DEF MemorySize, SizedRanges
  <2> QED
    BY <1>0, <1>2, <2>1
<1>10. CASE m = "memoryMStore8"
  <2>1. /\ MemorySize(m, back) = calcMemSize64WithUint(back[0], 1)
        /\ SizedRanges(m) = {<<0, -1>>}
    BY <1>10 DEF MemorySize, SizedRanges
  <2> QED
    BY <1>0, <1>2, <2>1
<1>11. CASE m = "memoryCall"
  <2>1. /\ MemorySize(m, back) = Larger(calcMemSize64(back[5], back[6]),
                                        calcMemSize64(back[3], back[4]))
        /\ SizedRanges(m) = {<<3, 4>>, <<5, 6>>}
    BY <1>11 DEF MemorySize, SizedRanges
  <2>2. 3 \in Positions /\ 4 \in Positions /\ 5 \in Positions /\ 6 \in Positions
    BY <1>0
  <2> QED
    BY <1>3, <2>1, <2>2
<1>12. CASE m \in {"memoryDelegateCall", "memoryStaticCall"}
  <2>1. /\ MemorySize(m, back) = Larger(calcMemSize64(back[4], back[5]),
                                        calcMemSize64(back[2], back[3]))
        /\ SizedRanges(m) = {<<2, 3>>, <<4, 5>>}
    BY <1>12 DEF MemorySize, SizedRanges
  <2>2. 2 \in Positions /\ 3 \in Positions /\ 4 \in Positions /\ 5 \in Positions
    BY <1>0
  <2> QED
    BY <1>3, <2>1, <2>2
<1>13. CASE m = NoFunction
  <2>1. MemorySize(m, back) = 0 /\ SizedRanges(m) = {}
    BY <1>13 DEF MemorySize, SizedRanges, NoFunction
  <2> QED
    BY <2>1, Sizes
<1> QED
  BY <1>4, <1>5, <1>6, <1>7, <1>8, <1>9, <1>10, <1>11, <1>12, <1>13 DEF MemoryFunctions

(* And so before the whole words it is rounded up to.                      *)
LEMMA NewSizeFits ==
    ASSUME NEW m \in MemoryFunctions, NEW back \in [Positions -> Nat],
           NewSize(m, back) # Overflow
    PROVE  /\ NewSize(m, back) \in Nat
           /\ \A size \in Nat : NewSize(m, back) <= size =>
                 \A r \in SizedRanges(m) : Within(r, back, size)
<1> DEFINE s == MemorySize(m, back)
           w == ToWordSize(s)
<1>1. s # Overflow /\ NewSize(m, back) = w * Word /\ w * Word <= MaxUint
  BY DEF NewSize, IsUint
<1>2. s \in 0 .. MaxUint
  BY <1>1, SizedRangesFit
<1> HIDE DEF s
<1>3. \A x \in Nat : /\ x \div Word \in Nat /\ x % Word \in 0 .. Word - 1
                     /\ x = Word * (x \div Word) + (x % Word)
  BY Sizes
<1>4. w \in Nat /\ s <= w * Word
  <2>1. CASE s > MaxUint - (Word - 1)
    <3> DEFINE q == MaxUint \div Word
    <3>1. w = q + 1
      BY <2>1 DEF ToWordSize
    <3>2. /\ q \in Nat /\ MaxUint % Word \in Nat /\ MaxUint % Word < Word
          /\ MaxUint = Word * q + (MaxUint % Word)
      BY <1>3, Sizes
    <3> HIDE DEF q, w
    <3>3. (q + 1) * Word = Word * q + Word
      BY <3>2, Sizes
    <3> QED
      BY <1>2, <3>1, <3>2, <3>3, Sizes
  <2>2. CASE ~ (s > MaxUint - (Word - 1))
    <3> DEFINE x == s + Word - 1
               q == x \div Word
    <3>1. w = q
      BY <2>2 DEF ToWordSize
    <3>2. x \in Nat
      BY <1>2, Sizes
    <3>3. q \in Nat /\ x % Word <= Word - 1 /\ x % Word \in Nat /\ x = Word * q + (x % Word)
      BY <1>3, <3>2, Sizes
    <3>4. x = s + Word - 1
      OBVIOUS
    <3> HIDE DEF q, w, x
    <3>5. q * Word = Word * q
      BY <3>3, Sizes
    <3> QED
      BY <1>2, <3>1, <3>3, <3>4, <3>5, Sizes
  <2> QED
    BY <2>1, <2>2
<1> HIDE DEF w
<1>5. w * Word \in Nat
  BY <1>4, Sizes
<1>6. ASSUME NEW size \in Nat, w * Word <= size PROVE s <= size
  BY <1>2, <1>4, <1>5, <1>6, Sizes
<1>7. \A size \in Nat : s <= size => \A r \in SizedRanges(m) : Within(r, back, size)
  BY <1>1, SizedRangesFit DEF s
<1> QED
  BY <1>1, <1>5, <1>6, <1>7

(***************************************************************************)
(* What an opcode costs.                                                   *)
(***************************************************************************)

(* The constants of the meters.                                            *)
LEMMA GasConstants ==
    /\ {CopyGas, Keccak256WordGas, LogGas, LogTopicGas, LogDataGas, ExpGas, ExpByteFrontier,
        ExpByteEIP160, MaxInitCodeSize, InitCodeWordGas, SstoreSetGas, SstoreClearGas,
        SstoreResetGas, NetSstoreNoopGas, NetSstoreInitGas, NetSstoreCleanGas,
        NetSstoreDirtyGas, SstoreSentryGasEIP2200, SstoreSetGasEIP2200,
        SstoreResetGasEIP2200, ColdSloadCostEIP2929, ColdAccountAccessCostEIP2929,
        CallNewAccountGas, CallValueTransferGas, CallStipend, CreateBySelfdestructGas}
       \subseteq Nat \ {0}
    /\ CallStipend <= CallValueTransferGas
    /\ ColdSloadCostEIP2929 < SstoreResetGasEIP2200
  BY DynamicGasAssumption

(* A cost that is not nothing, if there is one.                            *)
Dear == NatOrOverflow \ {0}

(* Sums and products of costs.                                             *)
LEMMA PlusType ==
    ASSUME NEW x \in NatOrOverflow, NEW y \in NatOrOverflow
    PROVE  /\ Plus(x, y) \in NatOrOverflow
           /\ Plus(x, y) # Overflow => x \in Nat /\ y \in Nat /\ Plus(x, y) = x + y
           /\ x \in Dear \/ y \in Dear => Plus(x, y) \in Dear
  BY DEF Plus, NatOrOverflow, Dear, Overflow

LEMMA TimesType ==
    ASSUME NEW x \in Nat, NEW y \in Nat PROVE Times(x, y) \in NatOrOverflow
<1>1. x * y \in Nat
  OBVIOUS
<1> QED
  BY <1>1 DEF Times, NatOrOverflow

LEMMA WordSizeType == ASSUME NEW s \in Nat PROVE ToWordSize(s) \in Nat
<1>1. \A x \in Nat : x \div Word \in Nat
  BY Sizes
<1>2. MaxUint \div Word \in Nat /\ s + Word - 1 \in Nat
  BY <1>1, Sizes
<1>3. (s + Word - 1) \div Word \in Nat
  BY <1>1, <1>2
<1> QED
  BY <1>2, <1>3 DEF ToWordSize

LEMMA PerWordType ==
    ASSUME NEW len \in Nat, NEW price \in Nat PROVE PerWord(len, price) \in NatOrOverflow
<1>1. ToWordSize(len) \in Nat
  BY WordSizeType
<1> QED
  BY <1>1, TimesType DEF PerWord, NatOrOverflow

(* What an accepted opcode may cost: a call also sets gas aside, and its   *)
(* cost covers that and, when it moves value, the stipend.                 *)
CostRight(f, back, d) ==
    d.cost # Overflow =>
        /\ d.cost \in Nat /\ d.temp \in Nat
        /\ f \in Charging => d.cost > 0
        /\ f \in ValueMeters =>
              d.cost >= d.temp + (IF back[2] # 0 THEN CallStipend ELSE 0)
        /\ f \in PlainMeters => d.cost >= d.temp

(* Costs that set nothing aside.                                           *)
LEMMA PlainCosts ==
    ASSUME NEW f, f \notin Charging \cup ValueMeters \cup PlainMeters,
           NEW set \in SUBSET NatOrOverflow, NEW back, NEW d \in Costs(set)
    PROVE  CostRight(f, back, d)
  BY DEF CostRight, Costs, NatOrOverflow

LEMMA ChargingCosts ==
    ASSUME NEW f, f \notin ValueMeters \cup PlainMeters,
           NEW set \in SUBSET Dear, NEW back, NEW d \in Costs(set)
    PROVE  CostRight(f, back, d)
  BY DEF CostRight, Costs, NatOrOverflow, Dear

(* Costs of calls.                                                         *)
LEMMA CallGasType ==
    ASSUME NEW available \in Nat, NEW base \in Nat, NEW callCost \in Nat
    PROVE  callGas(available, base, callCost) \in NatOrOverflow
<1> DEFINE left == Uint(available - base)
           part == left \div Fraction
<1>1. left \in Nat
  <2>1. available - base \in Int /\ MaxUint + 1 \in Nat /\ MaxUint + 1 > 0
    BY Sizes
  <2> QED
    BY <2>1 DEF Uint
<1>2. Fraction \in Nat /\ Fraction > 0
  BY InterpreterAssumption
<1> HIDE DEF left
<1>3. part \in Nat /\ left - part \in Nat
  <2>1. part \in Nat /\ left % Fraction \in Nat /\ left = Fraction * part + (left % Fraction)
    BY <1>1, <1>2
  <2> HIDE DEF part
  <2>2. Fraction * part >= part
    <3>1. Fraction - 1 \in Nat /\ (Fraction - 1) * part >= 0
      BY <1>2, <2>1
    <3>2. Fraction * part = (Fraction - 1) * part + part
      BY <1>2, <2>1
    <3> QED
      BY <2>1, <3>1, <3>2
  <2>3. Fraction * part \in Nat
    BY <1>2, <2>1
  <2> QED
    BY <1>1, <2>1, <2>2, <2>3
<1> QED
  BY <1>3 DEF callGas, left, part, NatOrOverflow

(* A base pays for the stipend of a call that moves value.                 *)
BaseRight(f, back, base) ==
    /\ base \in NatOrOverflow
    /\ f \in ValueMeters /\ back[2] # 0 /\ base # Overflow => base >= CallStipend

LEMMA CallCostsRight ==
    ASSUME NEW f \in ValueMeters \cup PlainMeters, NEW back, NEW bases,
           \A base \in bases : BaseRight(f, back, base),
           NEW available \in Nat, NEW callCost \in Nat,
           NEW d \in CallCosts(bases, available, callCost)
    PROVE  CostRight(f, back, d)
<1>1. f \notin Charging
  BY DEF Charging, ValueMeters, PlainMeters
<1>2. PICK base \in bases :
          d = LET temp == IF base = Overflow THEN Overflow
                          ELSE callGas(available, base, callCost)
              IN  [cost |-> Plus(base, temp), temp |-> temp]
  BY DEF CallCosts
<1> DEFINE temp == IF base = Overflow THEN Overflow ELSE callGas(available, base, callCost)
<1>3. d.cost = Plus(base, temp) /\ d.temp = temp
  BY <1>2
<1>4. BaseRight(f, back, base)
  OBVIOUS
<1>5. temp \in NatOrOverflow
  BY <1>4, CallGasType DEF BaseRight, NatOrOverflow
<1> HIDE DEF temp
<1>6. d.cost # Overflow => base \in Nat /\ temp \in Nat /\ d.cost = base + temp
  BY <1>3, <1>4, <1>5, PlusType DEF BaseRight
<1>7. CallStipend \in Nat
  BY GasConstants
<1> QED
  BY <1>1, <1>3, <1>4, <1>6, <1>7 DEF CostRight, BaseRight, Overflow

LEMMA CallVariantCostsRight ==
    ASSUME NEW f \in ValueMeters \cup PlainMeters, NEW back, NEW bases,
           \A base \in bases : BaseRight(f, back, base),
           NEW available \in Nat, NEW callCost \in Nat,
           NEW d \in CallVariantCosts(bases, available, callCost)
    PROVE  CostRight(f, back, d)
<1>1. f \notin Charging
  BY DEF Charging, ValueMeters, PlainMeters
<1>2. PICK cold \in AddedToAccessList :
          d \in IF available < ColdAccount(cold) THEN Costs({Overflow})
                ELSE {[c EXCEPT !.cost = Plus(@, ColdAccount(cold))] :
                         c \in CallCosts(bases, available - ColdAccount(cold), callCost)}
  BY DEF CallVariantCosts
<1>3. ColdAccount(cold) = 0 /\ ~ (available < 0) /\ available - 0 = available
  BY <1>2 DEF ColdAccount, AddedToAccessList
<1>4. PICK c \in CallCosts(bases, available, callCost) : d = [c EXCEPT !.cost = Plus(@, 0)]
  BY <1>2, <1>3
<1>5. CostRight(f, back, c)
  BY <1>4, CallCostsRight
<1>6. \E x, y : c = [cost |-> x, temp |-> y]
  BY <1>4 DEF CallCosts
<1>7. d.cost = Plus(c.cost, 0) /\ d.temp = c.temp
  BY <1>4, <1>6
<1>8. c.cost # Overflow => c.cost \in Nat
  BY <1>5 DEF CostRight
<1>9. d.cost # Overflow => c.cost # Overflow /\ d.cost = c.cost
  BY <1>7, <1>8 DEF Plus, Overflow
<1> QED
  BY <1>5, <1>7, <1>9 DEF CostRight

(* The meters, one by one.                                                 *)
LEMMA StorePrices ==
    ASSUME NEW noop \in Nat \ {0}, NEW create \in Nat \ {0}, NEW clean \in Nat \ {0},
           NEW dirty \in Nat \ {0}
    PROVE  NetSStore(noop, create, clean, dirty) \subseteq Nat \ {0}
  BY DEF NetSStore, Committed

LEMMA StoreCosts ==
    ASSUME NEW available
    PROVE  /\ gasSStore \subseteq Dear
           /\ gasSStoreEIP2200(available) \subseteq Dear
           /\ gasSStoreEIP2929(available) \subseteq Dear
<1> DEFINE P == Nat \ {0}
<1>1. P \subseteq Dear /\ {Overflow} \subseteq Dear
  BY DEF Dear, NatOrOverflow, Overflow
<1>2. gasSStore \subseteq P
  <2>1. NetSStore(NetSstoreNoopGas, NetSstoreInitGas, NetSstoreCleanGas, NetSstoreDirtyGas)
          \subseteq P
    BY GasConstants, StorePrices
  <2> QED
    BY <2>1, GasConstants DEF gasSStore
<1>3. NetSStore(SloadGasEIP2200, SstoreSetGasEIP2200, SstoreResetGasEIP2200, SloadGasEIP2200)
        \subseteq P
  <2>1. SloadGasEIP2200 \in P /\ SstoreSetGasEIP2200 \in P /\ SstoreResetGasEIP2200 \in P
    BY GasConstants, Prices
  <2> QED
    BY <2>1, StorePrices
<1>4. NetSStore(WarmStorageReadCostEIP2929, SstoreSetGasEIP2200,
                SstoreResetGasEIP2200 - ColdSloadCostEIP2929, WarmStorageReadCostEIP2929)
        \subseteq P
  <2>1. /\ WarmStorageReadCostEIP2929 \in P /\ SstoreSetGasEIP2200 \in P
        /\ SstoreResetGasEIP2200 - ColdSloadCostEIP2929 \in P
    BY GasConstants, Prices
  <2> QED
    BY <2>1, StorePrices
<1>5. gasSStoreEIP2200(available) \subseteq Dear
  BY <1>1, <1>3 DEF gasSStoreEIP2200
<1>6. gasSStoreEIP2929(available) \subseteq Dear
  BY <1>1, <1>4 DEF gasSStoreEIP2929, AddedToAccessList
<1> QED
  BY <1>1, <1>2, <1>5, <1>6

LEMMA ExpCosts ==
    ASSUME NEW price \in Nat PROVE gasExp(price) \subseteq Dear
<1>1. ASSUME NEW bytes \in 0 .. Word PROVE bytes * price + ExpGas \in Nat \ {0}
  <2>1. bytes * price \in Nat
    BY Sizes
  <2> QED
    BY <2>1, GasConstants
<1> QED
  BY <1>1 DEF gasExp, Dear, NatOrOverflow, Overflow

LEMMA CopierCost ==
    ASSUME NEW back \in [Positions -> Nat], NEW i \in Positions, NEW memory \in Nat
    PROVE  memoryCopierGas(back, i, memory) \in NatOrOverflow
<1>1. PerWord(back[i], CopyGas) \in NatOrOverflow
  BY GasConstants, PerWordType
<1> QED
  BY <1>1, PlusType DEF memoryCopierGas, NatOrOverflow

LEMMA LogCost ==
    ASSUME NEW back \in [Positions -> Nat], NEW n \in Nat, NEW memory \in Nat
    PROVE  gasLog(back, n, memory) \in Dear
<1>1. back[1] \in Nat
  BY DEF Positions
<1>2. Times(back[1], LogDataGas) \in NatOrOverflow
  BY <1>1, GasConstants, TimesType
<1>3. LogGas + n * LogTopicGas \in Dear
  <2>1. n * LogTopicGas \in Nat
    BY GasConstants
  <2> QED
    BY <2>1, GasConstants DEF Dear, NatOrOverflow, Overflow
<1>4. Plus(memory, LogGas + n * LogTopicGas) \in Dear
  BY <1>3, PlusType DEF Dear, NatOrOverflow
<1>5. Plus(Plus(memory, LogGas + n * LogTopicGas), Times(back[1], LogDataGas)) \in Dear
  BY <1>2, <1>4, PlusType DEF Dear
<1>6. Overflow \in Dear
  BY DEF Dear, NatOrOverflow, Overflow
<1> QED
  BY <1>5, <1>6 DEF gasLog

LEMMA CreateCosts ==
    ASSUME NEW back \in [Positions -> Nat], NEW memory \in Nat, NEW price \in Nat
    PROVE  /\ gasCreate2(back, memory) \in NatOrOverflow
           /\ gasCreateEip3860(back, memory, price) \in NatOrOverflow
<1>1. back[2] \in Nat /\ memory \in NatOrOverflow /\ Overflow \in NatOrOverflow
  BY DEF Positions, NatOrOverflow
<1>2. PerWord(back[2], Keccak256WordGas) \in NatOrOverflow
  BY <1>1, GasConstants, PerWordType
<1>3. price * ToWordSize(back[2]) \in NatOrOverflow
  <2>1. ToWordSize(back[2]) \in Nat
    BY <1>1, WordSizeType
  <2>2. price * ToWordSize(back[2]) \in Nat
    BY <2>1
  <2> QED
    BY <2>2 DEF NatOrOverflow
<1> QED
  BY <1>1, <1>2, <1>3, PlusType DEF gasCreate2, gasCreateEip3860

LEMMA AccessCosts ==
    ASSUME NEW back \in [Positions -> Nat], NEW memory \in Nat
    PROVE  /\ gasExtCodeCopyEIP2929(back, memory) \subseteq NatOrOverflow
           /\ gasEip2929AccountCheck \subseteq NatOrOverflow
           /\ gasSelfdestruct \subseteq NatOrOverflow
           /\ gasSelfdestructEIP2929 \subseteq NatOrOverflow
           /\ gasSLoadEIP2929 \subseteq Dear
<1>1. ColdAccount(FALSE) = 0 /\ 0 \in NatOrOverflow /\ Nat \subseteq NatOrOverflow
  BY DEF ColdAccount, NatOrOverflow
<1>2. memoryCopierGas(back, 3, memory) \in NatOrOverflow
  <2>1. 3 \in Positions
    BY DEF Positions
  <2> QED
    BY <2>1, CopierCost
<1>3. Plus(memoryCopierGas(back, 3, memory), 0) \in NatOrOverflow
  BY <1>1, <1>2, PlusType
<1>4. gasExtCodeCopyEIP2929(back, memory) \subseteq NatOrOverflow
  BY <1>1, <1>3 DEF gasExtCodeCopyEIP2929, AddedToAccessList
<1>5. gasEip2929AccountCheck \subseteq NatOrOverflow
  BY <1>1 DEF gasEip2929AccountCheck, AddedToAccessList
<1>6. gasSelfdestruct \subseteq Nat
  <2>1. \A new : SelfdestructGasEIP150 + (IF new THEN CreateBySelfdestructGas ELSE 0) \in Nat
    BY GasConstants, Prices
  <2> QED
    BY <2>1 DEF gasSelfdestruct
<1>7. gasSelfdestructEIP2929 \subseteq Nat
  BY GasConstants DEF gasSelfdestructEIP2929, AddedToAccessList
<1>8. gasSLoadEIP2929 \subseteq Dear
  BY Prices DEF gasSLoadEIP2929, AddedToAccessList, Dear, NatOrOverflow, Overflow
<1> QED
  BY <1>1, <1>4, <1>5, <1>6, <1>7, <1>8

LEMMA BasesRight ==
    ASSUME NEW f, NEW back, NEW memory \in Nat
    PROVE  /\ \A base \in CallBases(back, memory) : BaseRight(f, back, base)
           /\ BaseRight(f, back, CallCodeBase(back, memory))
           /\ f \in PlainMeters => BaseRight(f, back, memory)
<1> DEFINE value == IF back[2] # 0 THEN CallValueTransferGas ELSE 0
<1>1. value \in Nat /\ (back[2] # 0 => value >= CallStipend) /\ CallStipend \in Nat
  BY GasConstants
<1>2. CallNewAccountGas \in Nat
  BY GasConstants
<1> HIDE DEF value
<1>3. ASSUME NEW extra \in Nat PROVE BaseRight(f, back, Plus(extra + value, memory))
  <2>1. extra + value \in Nat /\ extra + value \in NatOrOverflow /\ memory \in NatOrOverflow
    BY <1>1 DEF NatOrOverflow
  <2>2. /\ Plus(extra + value, memory) \in NatOrOverflow
        /\ Plus(extra + value, memory) # Overflow =>
              Plus(extra + value, memory) = extra + value + memory
    BY <2>1, PlusType
  <2> QED
    BY <1>1, <2>2 DEF BaseRight
<1>4. ASSUME NEW base \in CallBases(back, memory) PROVE BaseRight(f, back, base)
  <2>1. PICK new : base = Plus((IF new THEN CallNewAccountGas ELSE 0) + value, memory)
    BY DEF CallBases, value
  <2> QED
    BY <1>2, <1>3, <2>1
<1>5. BaseRight(f, back, CallCodeBase(back, memory))
  <2>1. CallCodeBase(back, memory) = Plus(0 + value, memory)
    BY <1>1 DEF CallCodeBase, value
  <2> QED
    BY <1>3, <2>1
<1>6. f \in PlainMeters => BaseRight(f, back, memory)
  BY DEF BaseRight, PlainMeters, ValueMeters, NatOrOverflow
<1> QED
  BY <1>4, <1>5, <1>6

(* Every meter, whatever is on the stack.                                  *)
LEMMA DynamicGasRight ==
    ASSUME NEW f, NEW n \in Nat, NEW back \in [Positions -> Nat], NEW memory \in Nat,
           NEW available \in Nat, NEW d \in DynamicGas(f, n, back, memory, available)
    PROVE  CostRight(f, back, d)
<1> DEFINE plain == f \notin Charging \cup ValueMeters \cup PlainMeters
           charging == f \notin ValueMeters \cup PlainMeters
           calling == f \in ValueMeters \cup PlainMeters
<1>1. 0 \in Positions /\ 1 \in Positions /\ 2 \in Positions /\ 3 \in Positions
  BY DEF Positions
<1>2. memory \in NatOrOverflow
  BY DEF NatOrOverflow
<1>3. CASE f \in {"gasCallDataCopy", "gasCodeCopy", "gasMcopy", "gasReturnDataCopy"}
  <2>1. d \in Costs({memoryCopierGas(back, 2, memory)})
    BY <1>3 DEF DynamicGas
  <2>2. plain
    BY <1>3 DEF Charging, ValueMeters, PlainMeters
  <2>3. {memoryCopierGas(back, 2, memory)} \in SUBSET NatOrOverflow
    BY <1>1, CopierCost
  <2> QED
    BY <2>1, <2>2, <2>3, PlainCosts
<1>4. CASE f = "gasExtCodeCopy"
  <2>1. d \in Costs({memoryCopierGas(back, 3, memory)})
    BY <1>4 DEF DynamicGas
  <2>2. plain
    BY <1>4 DEF Charging, ValueMeters, PlainMeters
  <2>3. {memoryCopierGas(back, 3, memory)} \in SUBSET NatOrOverflow
    BY <1>1, CopierCost
  <2> QED
    BY <2>1, <2>2, <2>3, PlainCosts
<1>5. CASE f = "gasKeccak256"
  <2>1. d \in Costs({Plus(memory, PerWord(back[1], Keccak256WordGas))})
    BY <1>5 DEF DynamicGas
  <2>2. plain
    BY <1>5 DEF Charging, ValueMeters, PlainMeters
  <2>3. PerWord(back[1], Keccak256WordGas) \in NatOrOverflow
    BY <1>1, GasConstants, PerWordType
  <2>4. {Plus(memory, PerWord(back[1], Keccak256WordGas))} \in SUBSET NatOrOverflow
    BY <1>2, <2>3, PlusType
  <2> QED
    BY <2>1, <2>2, <2>4, PlainCosts
<1>6. CASE f \in {"gasReturn", "gasRevert", "gasMLoad", "gasMStore", "gasMStore8", "gasCreate"}
  <2>1. d \in Costs({memory})
    BY <1>6 DEF DynamicGas
  <2>2. plain
    BY <1>6 DEF Charging, ValueMeters, PlainMeters
  <2> QED
    BY <1>2, <2>1, <2>2, PlainCosts
<1>7. CASE f = "gasLog"
  <2>1. d \in Costs({gasLog(back, n, memory)})
    BY <1>7 DEF DynamicGas
  <2>2. charging
    BY <1>7 DEF ValueMeters, PlainMeters
  <2>3. {gasLog(back, n, memory)} \in SUBSET Dear
    BY LogCost
  <2> QED
    BY <2>1, <2>2, <2>3, ChargingCosts
<1>8. CASE f \in {"gasCreate2", "gasCreateEip3860", "gasCreate2Eip3860"}
  <2>1. \/ d \in Costs({gasCreate2(back, memory)})
        \/ d \in Costs({gasCreateEip3860(back, memory, InitCodeWordGas)})
        \/ d \in Costs({gasCreateEip3860(back, memory, InitCodeWordGas + Keccak256WordGas)})
    BY <1>8 DEF DynamicGas
  <2>2. plain
    BY <1>8 DEF Charging, ValueMeters, PlainMeters
  <2>3. InitCodeWordGas \in Nat /\ InitCodeWordGas + Keccak256WordGas \in Nat
    BY GasConstants
  <2>4. /\ gasCreate2(back, memory) \in NatOrOverflow
        /\ gasCreateEip3860(back, memory, InitCodeWordGas) \in NatOrOverflow
        /\ gasCreateEip3860(back, memory, InitCodeWordGas + Keccak256WordGas) \in NatOrOverflow
    BY <2>3, CreateCosts
  <2> QED
    BY <2>1, <2>2, <2>4, PlainCosts
<1>9. CASE f \in {"gasExpFrontier", "gasExpEIP160"}
  <2>1. d \in Costs(gasExp(ExpByteFrontier)) \/ d \in Costs(gasExp(ExpByteEIP160))
    BY <1>9 DEF DynamicGas
  <2>2. charging
    BY <1>9 DEF ValueMeters, PlainMeters
  <2>3. gasExp(ExpByteFrontier) \subseteq Dear /\ gasExp(ExpByteEIP160) \subseteq Dear
    BY GasConstants, ExpCosts
  <2> QED
    BY <2>1, <2>2, <2>3, ChargingCosts
<1>10. CASE f \in {"gasSStore", "gasSStoreEIP2200", "gasSStoreEIP2929", "gasSStoreEIP3529"}
  <2>1. \/ d \in Costs(gasSStore) \/ d \in Costs(gasSStoreEIP2200(available))
        \/ d \in Costs(gasSStoreEIP2929(available))
    BY <1>10 DEF DynamicGas
  <2>2. charging
    BY <1>10 DEF ValueMeters, PlainMeters
  <2> QED
    BY <2>1, <2>2, StoreCosts, ChargingCosts
<1>11. CASE f = "gasSLoadEIP2929"
  <2>1. d \in Costs(gasSLoadEIP2929)
    BY <1>11 DEF DynamicGas
  <2>2. charging
    BY <1>11 DEF ValueMeters, PlainMeters
  <2> QED
    BY <2>1, <2>2, AccessCosts, ChargingCosts
<1>12. CASE f \in {"gasExtCodeCopyEIP2929", "gasEip2929AccountCheck", "gasSelfdestruct",
                   "gasSelfdestructEIP2929", "gasSelfdestructEIP3529"}
  <2>1. \/ d \in Costs(gasExtCodeCopyEIP2929(back, memory)) \/ d \in Costs(gasEip2929AccountCheck)
        \/ d \in Costs(gasSelfdestruct) \/ d \in Costs(gasSelfdestructEIP2929)
    BY <1>12 DEF DynamicGas
  <2>2. plain
    BY <1>12 DEF Charging, ValueMeters, PlainMeters
  <2> QED
    BY <2>1, <2>2, AccessCosts, PlainCosts
<1>13. CASE calling
  <2>1. back[0] \in Nat
    BY <1>1
  <2>2. ASSUME f \in ValueMeters
        PROVE  \E bases : /\ \A base \in bases : BaseRight(f, back, base)
                          /\ \/ d \in CallCosts(bases, available, back[0])
                             \/ d \in CallVariantCosts(bases, available, back[0])
    <3>1. \/ d \in CallCosts(CallBases(back, memory), available, back[0])
          \/ d \in CallCosts({CallCodeBase(back, memory)}, available, back[0])
          \/ d \in CallVariantCosts(CallBases(back, memory), available, back[0])
          \/ d \in CallVariantCosts({CallCodeBase(back, memory)}, available, back[0])
      BY <2>2 DEF DynamicGas, ValueMeters
    <3>2. /\ \A base \in CallBases(back, memory) : BaseRight(f, back, base)
          /\ \A base \in {CallCodeBase(back, memory)} : BaseRight(f, back, base)
      BY BasesRight
    <3> QED
      BY <3>1, <3>2
  <2>3. ASSUME f \in PlainMeters
        PROVE  \E bases : /\ \A base \in bases : BaseRight(f, back, base)
                          /\ \/ d \in CallCosts(bases, available, back[0])
                             \/ d \in CallVariantCosts(bases, available, back[0])
    <3>1. \/ d \in CallCosts({memory}, available, back[0])
          \/ d \in CallVariantCosts({memory}, available, back[0])
      BY <2>3 DEF DynamicGas, PlainMeters
    <3>2. \A base \in {memory} : BaseRight(f, back, base)
      BY <2>3, BasesRight
    <3> QED
      BY <3>1, <3>2
  <2> QED
    BY <1>13, <2>1, <2>2, <2>3, CallCostsRight, CallVariantCostsRight
<1>14. CASE /\ f \notin Charging \cup ValueMeters \cup PlainMeters
            /\ f \notin {"gasCallDataCopy", "gasCodeCopy", "gasMcopy", "gasReturnDataCopy",
                         "gasExtCodeCopy", "gasKeccak256", "gasReturn", "gasRevert", "gasMLoad",
                         "gasMStore", "gasMStore8", "gasCreate", "gasCreate2",
                         "gasCreateEip3860", "gasCreate2Eip3860", "gasExtCodeCopyEIP2929",
                         "gasEip2929AccountCheck", "gasSelfdestruct", "gasSelfdestructEIP2929",
                         "gasSelfdestructEIP3529"}
  <2>1. d = Free
    BY <1>14 DEF DynamicGas, Charging, ValueMeters, PlainMeters
  <2> QED
    BY <1>14, <2>1 DEF CostRight, Free
<1> QED
  BY <1>3, <1>4, <1>5, <1>6, <1>7, <1>8, <1>9, <1>10, <1>11, <1>12, <1>13, <1>14 DEF Charging

(***************************************************************************)
(* A turn of the loop.                                                     *)
(***************************************************************************)

(* The invariant: the frame is right and its memory paid for.              *)
FrameInv == NoPanic /\ MemoryInv

(* Words, and the fee for a number of words.                               *)
LEMMA UintType == ASSUME NEW x \in Int PROVE Uint(x) \in 0 .. MaxUint
<1>1. MaxUint + 1 \in Nat /\ MaxUint + 1 > 0
  BY Sizes
<1> QED
  BY <1>1, Sizes DEF Uint

LEMMA UintSame == ASSUME NEW x \in 0 .. MaxUint PROVE Uint(x) = x
<1>1. MaxUint + 1 \in Nat /\ x < MaxUint + 1 /\ x \in Nat
  BY Sizes
<1> QED
  BY <1>1 DEF Uint

LEMMA FeeType == ASSUME NEW words \in Nat PROVE TotalFee(words) \in 0 .. MaxUint
<1>1. words * MemoryGas \in Nat /\ words * words \in Nat
  BY Sizes
<1>2. Uint(words * words) \in Nat
  BY <1>1, UintType, Sizes
<1>3. Uint(words * words) \div QuadCoeffDiv \in Nat
  <2>1. \A x \in Nat : x \div QuadCoeffDiv \in Nat
    BY Sizes
  <2> QED
    BY <1>2, <2>1
<1> QED
  BY <1>1, <1>3, UintType DEF TotalFee

(* What MemoryInv says of the types.                                       *)
LEMMA LengthType ==
    ASSUME NEW k \in 0 .. MaxWords
    PROVE  /\ k * Word \in 0 .. Word * MaxWords /\ (k * Word) % Word = 0
           /\ TotalFee((k * Word) \div Word) \in 0 .. MaxUint
<1> DEFINE x == k * Word
           z == Word * MaxWords
<1>1. k \in Nat /\ x \in Nat /\ x = Word * k /\ z \in Nat
  BY Sizes
<1>2. x <= z
  BY <1>1, Sizes, ProductOrder
<1>3. x \div Word = k
  <2>1. k * Word <= Word * MaxWords
    BY <1>2
  <2> QED
    BY <1>1, <2>1, WordsOf
<1>4. \A y \in Nat : y = Word * (y \div Word) + (y % Word) /\ y % Word \in Nat
  BY Sizes
<1>5. TotalFee(k) \in 0 .. MaxUint
  BY <1>1, FeeType
<1> HIDE DEF x, z
<1>6. x = Word * k + (x % Word) /\ x % Word \in Nat
  BY <1>1, <1>3, <1>4
<1>7. x % Word = 0
  BY <1>1, <1>6
<1> QED
  BY <1>1, <1>2, <1>3, <1>5, <1>7 DEF x, z
LEMMA MemoryTypes ==
    /\ MemoryInv => /\ length \in 0 .. Word * MaxWords /\ length % Word = 0
                    /\ lastGasCost \in 0 .. MaxUint
    /\ MemoryInv' => /\ length' \in 0 .. Word * MaxWords /\ length' % Word = 0
                     /\ lastGasCost' \in 0 .. MaxUint
  BY LengthType DEF MemoryInv, TotalFee, Uint

(* Every entry of every fork's table is right.                             *)
LEMMA RowOf ==
    ASSUME TypeOK, NEW op \in DOMAIN jt
    PROVE  Entry(op, jt[op])
  BY AllTables DEF TypeOK, jt, Table

(* What an accepted opcode costs when it is not refused, and that the      *)
(* memory is then large enough for what it touches.                        *)
LEMMA ChargeRight ==
    ASSUME FrameInv, NEW op \in DOMAIN jt, Accepted(jt[op]), NEW back \in Tops(jt[op]),
           NEW charge \in Charges(op, jt[op], back), charge.cost # Overflow
    PROVE  /\ CostRight(jt[op].dynamicGas, back, charge)
           /\ \A r \in SizedRanges(jt[op].memorySize) : Within(r, back, Resized(charge))
<1> DEFINE o == jt[op]
           f == o.dynamicGas
           m == o.memorySize
           size == NewSize(m, back)
           memory == MemoryCharge(size)
           available == gas - o.constantGas
<1>1. /\ IsOperation(o) /\ op[2] \in Nat
      /\ m # NoFunction => f # NoFunction
  BY RowOf DEF FrameInv, NoPanic, Entry, Metering
<1>2. m \in MemoryFunctions /\ o.constantGas \in Nat
  BY <1>1 DEF IsOperation
<1>3. gas \in 0 .. MaxUint /\ lastGasCost \in 0 .. MaxUint /\ length \in Nat
  <2>1. \E k \in 0 .. MaxWords : length = k * Word
    BY DEF FrameInv, MemoryInv
  <2> QED
    BY <2>1, Sizes DEF FrameInv, NoPanic, TypeOK
<1>4. available \in Nat
  BY <1>2, <1>3, Sizes DEF Accepted
<1>5. back \in [Positions -> Nat]
  <2>1. back \in [Positions -> Items] /\ Items \subseteq Nat
    BY <1>2, InterpreterAssumption DEF Tops, Items
  <2> QED
    BY <2>1
<1>6. CASE f = NoFunction
  <2>1. charge.cost = 0 /\ charge.temp = 0
    BY <1>6 DEF Charges
  <2>2. SizedRanges(m) = {}
    BY <1>1, <1>6 DEF SizedRanges, NoFunction
  <2>3. CostRight(f, back, charge)
    BY <1>6, <2>1 DEF CostRight, Charging, ValueMeters, PlainMeters, NoFunction
  <2> QED
    BY <2>2, <2>3
<1>7. CASE f # NoFunction
  <2>1. /\ size # Overflow /\ memory.fee # Overflow
        /\ \E d \in Unpredicted(f) \cup DynamicGas(f, op[2], back, memory.fee, available) :
              charge = [size |-> size, last |-> memory.last, cost |-> d.cost, temp |-> d.temp]
    BY <1>7 DEF Charges
  <2>2. /\ size \in Nat
        /\ \A l \in Nat : size <= l => \A r \in SizedRanges(m) : Within(r, back, l)
    BY <1>2, <1>5, <2>1, NewSizeFits
  <2>3. PICK d \in DynamicGas(f, op[2], back, memory.fee, available) :
            charge = [size |-> size, last |-> memory.last, cost |-> d.cost, temp |-> d.temp]
    <3>1. \A d \in Unpredicted(f) : d.cost = Overflow
      BY DEF Unpredicted, Costs
    <3> QED
      BY <2>1, <3>1
  <2> HIDE DEF size
  <2>4. memory.fee \in Nat
    <3>1. ToWordSize(size) \in Nat
      BY <2>2, WordSizeType
    <3>2. TotalFee(ToWordSize(size)) \in 0 .. MaxUint
      BY <3>1, FeeType
    <3>3. TotalFee(ToWordSize(size)) - lastGasCost \in Int
      BY <1>3, <3>2, Sizes
    <3>4. Uint(TotalFee(ToWordSize(size)) - lastGasCost) \in Nat
      BY <3>3, UintType, Sizes
    <3> QED
      BY <2>1, <3>4 DEF MemoryCharge
  <2> HIDE DEF memory, f, m, o, available
  <2>5. CostRight(f, back, d)
    BY <1>1, <1>4, <1>5, <2>4, DynamicGasRight
  <2>6. CostRight(f, back, charge)
    BY <2>3, <2>5 DEF CostRight
  <2>7. charge.size = size
    BY <2>3
  <2>8. Resized(charge) \in Nat /\ size <= Resized(charge)
    BY <1>3, <2>2, <2>7 DEF Resized
  <2>9. \A r \in SizedRanges(m) : Within(r, back, Resized(charge))
    BY <2>2, <2>8
  <2> QED
    BY <2>6, <2>9 DEF f, m, o
<1> QED
  BY <1>6, <1>7

(* What the entry promises: the stack and the memory have what is needed,  *)
(* and the stack does not become too high.                                 *)
LEMMA FitsRight ==
    ASSUME FrameInv, NEW op \in DOMAIN jt, Accepted(jt[op]), NEW back \in Tops(jt[op]),
           NEW charge \in Charges(op, jt[op], back), charge.cost # Overflow
    PROVE  /\ Fits(op, jt[op]) /\ InBounds(op, jt[op], back, Resized(charge))
           /\ height + EffectOf(op, jt[op]).change \in 0 .. StackLimit
           /\ EffectOf(op, jt[op]).next \subseteq {"running"} \cup Ended
<1> DEFINE o == jt[op]
           e == EffectOf(op, jt[op])
<1>1. IsOperation(o) /\ Honest(o, e) /\ Metering(o)
  BY RowOf DEF FrameInv, NoPanic, Entry, EffectOf
<1>2. o.numPop \in Nat /\ o.numPush \in Nat /\ height \in 0 .. StackLimit /\ StackLimit \in Nat
  BY <1>1, SizeAssumption DEF IsOperation, FrameInv, NoPanic, TypeOK
<1>3. height >= o.numPop /\ height <= StackLimit + o.numPop - o.numPush
  BY DEF Accepted, StackValid, maxStack
<1>4. \A r \in SizedRanges(o.memorySize) : Within(r, back, Resized(charge))
  BY ChargeRight
<1>5. GasDepth(o.dynamicGas) \in Nat /\ MemoryDepth(o.memorySize) \in Nat
  BY DEF GasDepth, MemoryDepth
<1> HIDE DEF e, o
<1>6. /\ e.depth <= height /\ GasDepth(o.dynamicGas) <= height
      /\ MemoryDepth(o.memorySize) <= height
  BY <1>1, <1>2, <1>3, <1>5 DEF Honest, Metering
<1>7. Fits(op, jt[op])
  BY <1>6 DEF Fits, e, o
<1>8. \A r \in e.ranges : Within(r, back, Resized(charge))
  BY <1>1, <1>4 DEF Honest
<1>9. InBounds(op, jt[op], back, Resized(charge))
  BY <1>8 DEF InBounds, Within, e
<1>10. height + e.change \in 0 .. StackLimit
  BY <1>1, <1>2, <1>3 DEF Honest
<1>11. e.next \subseteq {"running"} \cup Ended
  BY <1>1 DEF Honest
<1> QED
  BY <1>7, <1>9, <1>10, <1>11 DEF e

(* A turn that is not refused keeps the frame right.                       *)
LEMMA PerformRight ==
    ASSUME FrameInv, MemoryInv', NEW op \in DOMAIN jt, Accepted(jt[op]),
           NEW back \in Tops(jt[op]), NEW charge \in Charges(op, jt[op], back), Affordable(jt[op], charge),
           NEW returned \in Int, Perform(op, jt[op], back, charge, returned)
    PROVE  /\ NoPanic'
           /\ status' \in EffectOf(op, jt[op]).next
           /\ status' # "failed" => gas' = Uint(Left(jt[op], charge) + returned)
<1>1. charge.cost # Overflow
  BY DEF Affordable
<1>2. /\ status' \in EffectOf(op, jt[op]).next /\ height' = height + EffectOf(op, jt[op]).change
      /\ height' \in 0 .. StackLimit
      /\ EffectOf(op, jt[op]).next \subseteq {"running"} \cup Ended
  BY <1>1, FitsRight DEF Perform
<1>3. CostRight(jt[op].dynamicGas, back, charge)
  BY <1>1, ChargeRight
<1>4. Left(jt[op], charge) \in Int
  <2>1. charge.cost \in Nat
    BY <1>1, <1>3 DEF CostRight
  <2>2. jt[op].constantGas \in Nat
    BY RowOf DEF FrameInv, NoPanic, Entry, IsOperation
  <2>3. gas \in Int
    BY Sizes DEF FrameInv, NoPanic, TypeOK
  <2> QED
    BY <2>1, <2>2, <2>3 DEF Left
<1>5. gas' = IF status' = "failed" THEN 0 ELSE Uint(Left(jt[op], charge) + returned)
  BY DEF Perform
<1>6. gas' \in 0 .. MaxUint
  <2>1. Uint(Left(jt[op], charge) + returned) \in 0 .. MaxUint
    BY <1>4, UintType
  <2> QED
    BY <1>5, <2>1, Sizes
<1>7. fork' \in ForkNumber
  BY DEF Perform, FrameInv, NoPanic, TypeOK
<1>8. status' \in {"running", "panic"} \cup Ended /\ status' # "panic"
  BY <1>2 DEF Ended
<1>9. /\ length' \in 0 .. Word * MaxWords /\ length' % Word = 0
      /\ lastGasCost' \in 0 .. MaxUint
  BY MemoryTypes
<1> QED
  BY <1>2, <1>5, <1>6, <1>7, <1>8, <1>9 DEF NoPanic, TypeOK

(* What is left after paying.                                              *)
LEMMA LeftRight ==
    ASSUME FrameInv, NEW op \in DOMAIN jt, Accepted(jt[op]), NEW back \in Tops(jt[op]),
           NEW charge \in Charges(op, jt[op], back), Affordable(jt[op], charge)
    PROVE  /\ gas \in 0 .. MaxUint /\ jt[op].constantGas \in Nat
           /\ charge.cost \in Nat /\ charge.temp \in Nat
           /\ Left(jt[op], charge) = gas - jt[op].constantGas - charge.cost
           /\ Left(jt[op], charge) \in 0 .. gas
           /\ CostRight(jt[op].dynamicGas, back, charge)
<1>1. charge.cost # Overflow /\ Left(jt[op], charge) >= 0
  BY DEF Affordable
<1>2. CostRight(jt[op].dynamicGas, back, charge)
  BY <1>1, ChargeRight
<1>3. charge.cost \in Nat /\ charge.temp \in Nat
  BY <1>1, <1>2 DEF CostRight
<1>4. jt[op].constantGas \in Nat
  BY RowOf DEF FrameInv, NoPanic, Entry, IsOperation
<1>5. gas \in 0 .. MaxUint
  BY DEF FrameInv, NoPanic, TypeOK
<1>6. Left(jt[op], charge) = gas - jt[op].constantGas - charge.cost
  BY DEF Left
<1> QED
  BY <1>1, <1>2, <1>3, <1>4, <1>5, <1>6, Sizes

(* Each action keeps the frame right, and costs gas if it goes on.         *)
LEMMA ExecuteRight ==
    ASSUME FrameInv, MemoryInv', NEW op \in DOMAIN jt, Execute(op, jt[op])
    PROVE  NoPanic' /\ (status' = "running" => gas' < gas)
<1>1. op[1] \notin Calling \cup Creating /\ Accepted(jt[op])
  BY DEF Execute
<1>2. PICK back \in Tops(jt[op]) : \E charge \in Charges(op, jt[op], back) :
          Affordable(jt[op], charge) /\ Perform(op, jt[op], back, charge, 0)
  BY DEF Execute
<1>3. PICK charge \in Charges(op, jt[op], back) :
          Affordable(jt[op], charge) /\ Perform(op, jt[op], back, charge, 0)
  BY <1>2
<1> DEFINE left == Left(jt[op], charge)
           o == jt[op]
<1>4. /\ NoPanic' /\ status' \in EffectOf(op, jt[op]).next
      /\ status' # "failed" => gas' = Uint(left + 0)
  BY <1>1, <1>3, PerformRight
<1>5. /\ gas \in 0 .. MaxUint /\ o.constantGas \in Nat /\ charge.cost \in Nat
      /\ left = gas - o.constantGas - charge.cost /\ left \in 0 .. gas
      /\ CostRight(o.dynamicGas, back, charge)
  BY <1>1, <1>3, LeftRight
<1>6. Priced(o, EffectOf(op, jt[op]))
  BY RowOf DEF FrameInv, NoPanic, Entry, EffectOf
<1> HIDE DEF left, o
<1>7. left + 0 \in 0 .. MaxUint /\ left + 0 = left
  BY <1>5, Sizes
<1>8. Uint(left + 0) = left
  BY <1>7, UintSame
<1>9. status' = "running" => o.constantGas > 0 \/ charge.cost > 0
  <2>1. charge.cost # Overflow
    BY <1>5 DEF Overflow
  <2> QED
    BY <1>4, <1>5, <1>6, <2>1 DEF Priced, CostRight
<1> QED
  BY <1>4, <1>5, <1>8, <1>9, Sizes

LEMMA CallRightly ==
    ASSUME FrameInv, MemoryInv', NEW op \in DOMAIN jt, Call(op, jt[op])
    PROVE  NoPanic' /\ (status' = "running" => gas' < gas)
<1>1. op[1] \in Calling /\ Accepted(jt[op])
  BY DEF Call
<1>2. PICK back \in Tops(jt[op]) : \E charge \in Charges(op, jt[op], back) :
          /\ Affordable(jt[op], charge)
          /\ \E returned \in 0 .. Given(op, back, charge) :
                Perform(op, jt[op], back, charge, returned)
  BY DEF Call
<1>3. PICK charge \in Charges(op, jt[op], back) :
          /\ Affordable(jt[op], charge)
          /\ \E returned \in 0 .. Given(op, back, charge) :
                Perform(op, jt[op], back, charge, returned)
  BY <1>2
<1>4. PICK returned \in 0 .. Given(op, back, charge) : Perform(op, jt[op], back, charge, returned)
  BY <1>3
<1> DEFINE left == Left(jt[op], charge)
           o == jt[op]
           stipend == IF op[1] \in {"CALL", "CALLCODE"} /\ back[2] # 0 THEN CallStipend ELSE 0
<1>5. /\ gas \in 0 .. MaxUint /\ o.constantGas \in Nat
      /\ charge.cost \in Nat /\ charge.temp \in Nat
      /\ left = gas - o.constantGas - charge.cost /\ left \in 0 .. gas
      /\ CostRight(o.dynamicGas, back, charge)
  BY <1>1, <1>3, LeftRight
<1>6. stipend \in Nat /\ Given(op, back, charge) = charge.temp + stipend
  BY GasConstants DEF Given
<1>7. returned \in Nat /\ returned <= charge.temp + stipend
  BY <1>5, <1>6
<1>8. /\ NoPanic'
      /\ status' # "failed" => gas' = Uint(left + returned)
  BY <1>1, <1>3, <1>4, <1>7, PerformRight
<1>9. Surcharged(op[1], o)
  BY RowOf DEF FrameInv, NoPanic, Entry
<1>10. o.constantGas > 0 /\ charge.cost >= charge.temp + stipend
  <2>1. op[1] \in {"CALL", "CALLCODE"} \/ op[1] \in {"DELEGATECALL", "STATICCALL"}
    BY <1>1 DEF Calling
  <2>2. CASE op[1] \in {"CALL", "CALLCODE"}
    <3>1. stipend = IF back[2] # 0 THEN CallStipend ELSE 0
      BY <2>2
    <3>2. charge.cost # Overflow
      BY <1>5 DEF Overflow
    <3> QED
      BY <1>1, <1>5, <1>9, <2>2, <3>1, <3>2 DEF Surcharged, CostRight
  <2>3. CASE op[1] \in {"DELEGATECALL", "STATICCALL"}
    <3>1. stipend = 0
      BY <2>3
    <3>2. charge.cost # Overflow
      BY <1>5 DEF Overflow
    <3> HIDE DEF stipend
    <3> QED
      BY <1>1, <1>5, <1>9, <2>3, <3>1, <3>2 DEF Surcharged, CostRight
  <2> QED
    BY <2>1, <2>2, <2>3
<1> HIDE DEF left, o, stipend
<1>11. left + returned \in 0 .. MaxUint /\ left + returned < gas
  BY <1>5, <1>6, <1>7, <1>10, Sizes
<1> QED
  BY <1>8, <1>11, UintSame

LEMMA CreateRightly ==
    ASSUME FrameInv, MemoryInv', NEW op \in DOMAIN jt, Create(op, jt[op])
    PROVE  NoPanic' /\ (status' = "running" => gas' < gas)
<1>1. op[1] \in Creating /\ Accepted(jt[op])
  BY DEF Create
<1>2. PICK back \in Tops(jt[op]) : \E charge \in Charges(op, jt[op], back) :
          /\ Affordable(jt[op], charge)
          /\ LET left == Left(jt[op], charge)
                 taken == IF op[1] = "CREATE2" \/ Active("TangerineWhistle")
                          THEN left - left \div Fraction ELSE left
             IN  \E returned \in 0 .. taken : Perform(op, jt[op], back, charge, returned - taken)
  BY DEF Create
<1>3. PICK charge \in Charges(op, jt[op], back) :
          /\ Affordable(jt[op], charge)
          /\ LET left == Left(jt[op], charge)
                 taken == IF op[1] = "CREATE2" \/ Active("TangerineWhistle")
                          THEN left - left \div Fraction ELSE left
             IN  \E returned \in 0 .. taken : Perform(op, jt[op], back, charge, returned - taken)
  BY <1>2
<1> DEFINE left == Left(jt[op], charge)
           part == left \div Fraction
           o == jt[op]
<1>4. PICK taken \in {left, left - part} : \E returned \in 0 .. taken :
          Perform(op, jt[op], back, charge, returned - taken)
  BY <1>3
<1>5. PICK returned \in 0 .. taken : Perform(op, jt[op], back, charge, returned - taken)
  BY <1>4
<1>6. /\ gas \in 0 .. MaxUint /\ o.constantGas \in Nat /\ charge.cost \in Nat
      /\ left = gas - o.constantGas - charge.cost /\ left \in 0 .. gas
  BY <1>1, <1>3, LeftRight
<1>7. part \in Nat
  <2>1. Fraction \in Nat /\ Fraction > 0
    BY InterpreterAssumption
  <2>2. left \in Nat
    BY <1>6, Sizes
  <2> HIDE DEF left
  <2> QED
    BY <2>1, <2>2
<1>8. /\ taken \in Int /\ taken <= left /\ returned - taken \in Int
      /\ returned >= 0 /\ returned <= taken
  <2> HIDE DEF left, part
  <2> QED
    BY <1>6, <1>7, Sizes
<1>9. /\ NoPanic'
      /\ status' # "failed" => gas' = Uint(left + (returned - taken))
  BY <1>1, <1>3, <1>5, <1>8, PerformRight
<1>10. o.constantGas > 0
  <2>1. Surcharged(op[1], o)
    BY RowOf DEF FrameInv, NoPanic, Entry
  <2> QED
    BY <1>1, <2>1 DEF Surcharged
<1> HIDE DEF left, part, o
<1>11. /\ left + (returned - taken) \in 0 .. MaxUint
      /\ left + (returned - taken) < gas
  BY <1>6, <1>8, <1>10, Sizes
<1> QED
  BY <1>9, <1>11, UintSame

LEMMA FailRight ==
    ASSUME FrameInv, NEW op, NEW operation, Fail(op, operation)
    PROVE  NoPanic' /\ status' # "running"
  BY Sizes DEF Fail, FrameInv, NoPanic, TypeOK, Ended

LEMMA NextFrame ==
    ASSUME FrameInv, [Next]_vars
    PROVE  FrameInv' /\ (status' = "running" /\ vars' # vars => gas' < gas)
<1>1. MemoryInv'
  BY NextMemory DEF FrameInv
<1>2. CASE UNCHANGED vars \/ Finished
  <2>1. UNCHANGED vars
    BY <1>2 DEF Finished
  <2>2. NoPanic'
    BY <2>1 DEF vars, FrameInv, NoPanic, TypeOK
  <2> QED
    BY <1>1, <2>1, <2>2 DEF FrameInv
<1>3. ASSUME NEW op \in DOMAIN jt,
             Fail(op, jt[op]) \/ Execute(op, jt[op]) \/ Call(op, jt[op]) \/ Create(op, jt[op])
      PROVE  NoPanic' /\ (status' = "running" => gas' < gas)
  BY <1>1, <1>3, FailRight, ExecuteRight, CallRightly, CreateRightly
<1>4. CASE \E op \in DOMAIN jt :
          Fail(op, jt[op]) \/ Execute(op, jt[op]) \/ Call(op, jt[op]) \/ Create(op, jt[op])
  <2>1. NoPanic' /\ (status' = "running" => gas' < gas)
    BY <1>3, <1>4
  <2> QED
    BY <1>1, <2>1 DEF FrameInv
<1> QED
  BY <1>2, <1>4 DEF Next

LEMMA InitFrame == Init => FrameInv
<1> SUFFICES ASSUME Init PROVE FrameInv
  OBVIOUS
<1>1. MemoryInv
  BY InitMemory
<1>2. Table(jt, {})
  BY AllTables DEF Init, jt
<1>3. Validated(jt)
  <2>1. \A op \in DOMAIN jt : Metering(jt[op])
    BY <1>2 DEF Table, Entry
  <2> QED
    BY <2>1 DEF Validated, Metering
<1>4. /\ fork \in ForkNumber /\ gas \in 0 .. MaxUint /\ status = "running"
      /\ height = 0 /\ 0 \in 0 .. StackLimit
  BY <1>3, SizeAssumption, InterpreterAssumption DEF Init
<1>5. /\ length \in 0 .. Word * MaxWords /\ length % Word = 0
      /\ lastGasCost \in 0 .. MaxUint
  BY <1>1, MemoryTypes
<1> QED
  BY <1>1, <1>4, <1>5 DEF FrameInv, NoPanic, TypeOK

(* In every fork, for any code on any operands: no opcode finds fewer      *)
(* items on the stack or less memory than it goes on to use, none leaves   *)
(* the stack too high, and gas, memory and fees stay words.                *)
THEOREM NoPanicCorrect == Spec => []NoPanic
<1>1. FrameInv /\ [Next]_vars => FrameInv'
  BY NextFrame
<1>2. FrameInv => NoPanic
  BY DEF FrameInv
<1> QED
  BY <1>1, <1>2, InitFrame, PTL DEF Spec

(* In every fork an opcode after which the frame goes on has cost some     *)
(* gas, whatever a callee or a creation gave back.                         *)
THEOREM EveryStepCostsCorrect == Spec => EveryStepCosts
<1>1. FrameInv /\ [Next]_vars => FrameInv'
  BY NextFrame
<1>2. FrameInv /\ [Next]_vars => [status' = "running" => gas' < gas]_vars
  BY NextFrame
<1> QED
  BY <1>1, <1>2, InitFrame, PTL DEF Spec, EveryStepCosts
=============================================================================
