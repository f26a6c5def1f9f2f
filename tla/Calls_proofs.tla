---------------------------- MODULE Calls_proofs ----------------------------
(* Proofs about the frames of a transaction, for any accounts, any nesting *)
(* and any amounts of gas, and about what prediction records.              *)
EXTENDS Prediction, DataTheorems, SequenceTheorems

(***************************************************************************)
(* Frames and gas.                                                         *)
(***************************************************************************)

(* The constants, one by one.                                              *)
LEMMA Constants ==
    /\ IsFiniteSet(Accounts) /\ Start \in Accounts /\ Initial \in [Accounts -> Nat]
    /\ Loads \subseteq Load
    /\ CallCreateDepth \in Nat /\ MaxNonce \in Nat /\ GasLimit \in Nat
    /\ CallValueTransferGas \in Nat /\ CallStipend \in Nat
    /\ Step \in Nat /\ Step > 0
    /\ CallCost \in Nat /\ CallCost > 0
    /\ CreateGas \in Nat /\ CreateGas > 0
    /\ Fraction \in Nat /\ Fraction > 0
    /\ CallStipend <= CallValueTransferGas
  BY CallsAssumption

(* The frames as a function, and the innermost one.                        *)
LEMMA FramesType ==
    ASSUME TypeOK, frames # <<>>
    PROVE  /\ Len(frames) \in Nat /\ Len(frames) >= 1
           /\ frames \in [1 .. Len(frames) -> Frame]
           /\ frames \in Seq(Frame)
           /\ Top = frames[Len(frames)] /\ Top \in Frame
           /\ Gas \in Nat /\ Self \in Accounts
<1>1. frames \in Seq(Frame)
  BY DEF TypeOK
<1>2. Len(frames) \in Nat /\ frames \in [1 .. Len(frames) -> Frame]
  BY <1>1, LenProperties
<1>3. Len(frames) \in Nat \ {0}
  BY <1>1, EmptySeq
<1>4. Top = frames[Len(frames)]
  BY DEF Top, Last
<1>5. Top \in Frame
  BY <1>2, <1>3, <1>4
<1> QED
  BY <1>1, <1>2, <1>3, <1>4, <1>5 DEF Frame, Gas, Self

(* A quotient is no more than what is divided.                             *)
LEMMA QuotientBound ==
    ASSUME NEW a \in Nat, NEW b \in Nat, b > 0
    PROVE  a \div b \in Nat /\ a \div b <= a
  OBVIOUS

(* Frames of which one has other gas.                                      *)
LEMMA GasOfFrame ==
    ASSUME NEW fs \in Seq(Frame), NEW n \in 1 .. Len(fs), NEW g \in Nat
    PROVE  LET gs == [fs EXCEPT ![n].gas = g]
           IN  /\ gs \in Seq(Frame) /\ Len(gs) = Len(fs)
               /\ \A i \in 1 .. Len(fs) :
                     gs[i].typ = fs[i].typ /\ gs[i].restore = fs[i].restore
<1> DEFINE frame == [fs[n] EXCEPT !.gas = g]
           gs == [fs EXCEPT ![n] = frame]
<1>1. fs[n] \in Frame
  BY ElementOfSeq
<1>2. frame \in Frame /\ frame.typ = fs[n].typ /\ frame.restore = fs[n].restore
  BY <1>1 DEF Frame
<1> HIDE DEF frame
<1>3. /\ gs \in Seq(Frame) /\ Len(gs) = Len(fs)
      /\ \A i \in 1 .. Len(fs) : gs[i] = IF i = n THEN frame ELSE fs[i]
  BY <1>2, ExceptSeq
<1>4. \A i \in 1 .. Len(fs) : gs[i].typ = fs[i].typ /\ gs[i].restore = fs[i].restore
  BY <1>2, <1>3
<1> QED
  BY <1>3, <1>4 DEF frame

(* A charge that the innermost frame can pay touches nothing but its gas.  *)
LEMMA ChargedFrames ==
    ASSUME TypeOK, Running, NEW cost \in Int, cost <= Gas
    PROVE  LET gs == [frames EXCEPT ![Len(frames)].gas = @ - cost]
           IN  /\ gs \in Seq(Frame) /\ Len(gs) = Len(frames)
               /\ \A i \in 1 .. Len(frames) :
                     gs[i].typ = frames[i].typ /\ gs[i].restore = frames[i].restore
<1>1. /\ Len(frames) \in 1 .. Len(frames) /\ frames \in Seq(Frame)
      /\ frames[Len(frames)].gas \in Nat /\ cost <= frames[Len(frames)].gas
  BY FramesType DEF Running, Gas
<1>2. frames[Len(frames)].gas - cost \in Nat
  BY <1>1
<1> QED
  BY <1>1, <1>2, GasOfFrame

(* The same of a step that charges.                                        *)
LEMMA ChargeKeeps ==
    ASSUME TypeOK, Running, NEW cost \in Int, cost <= Gas, Charge(cost)
    PROVE  /\ frames' \in Seq(Frame) /\ Len(frames') = Len(frames)
           /\ \A i \in 1 .. Len(frames) :
                 /\ frames'[i].typ = frames[i].typ
                 /\ frames'[i].restore = frames[i].restore
  BY ChargedFrames DEF Charge

(* Charged, the frames keep what the invariant says of them.               *)
LEMMA ChargeInv ==
    ASSUME IInv, Running, NEW cost \in Int, cost <= Gas, Charge(cost),
           readOnly' = readOnly
    PROVE  ReadOnlyExact' /\ RestoreInv'
<1>1. /\ frames' \in Seq(Frame) /\ Len(frames') = Len(frames)
      /\ \A i \in 1 .. Len(frames) :
            /\ frames'[i].typ = frames[i].typ
            /\ frames'[i].restore = frames[i].restore
  BY ChargeKeeps DEF IInv
<1>2. frames \in Seq(Frame)
  BY DEF IInv, TypeOK
<1>3. /\ DOMAIN frames = 1 .. Len(frames) /\ DOMAIN frames' = 1 .. Len(frames)
      /\ Len(frames) \in Nat
  BY <1>1, <1>2, LenProperties
<1>4. ReadOnlyExact'
  BY <1>1, <1>3 DEF IInv, ReadOnlyExact
<1>5. RestoreInv'
  <2>1. \A i \in 1 .. Len(frames) : \A j \in 1 .. i - 1 : j \in 1 .. Len(frames)
    BY <1>3
  <2> QED
    BY <1>1, <1>3, <2>1 DEF IInv, RestoreInv
<1> QED
  BY <1>4, <1>5

(***************************************************************************)
(* The state stays well typed.                                             *)
(***************************************************************************)

(* A change of balance that does not overdraw it.                          *)
LEMMA ChangedType ==
    ASSUME NEW w \in World, NEW a \in Accounts, NEW x \in Int,
           w.balance[a] + x >= 0
    PROVE  /\ Changed(w, a, x) \in World
           /\ x >= 0 => \A b \in Accounts : Changed(w, a, x).balance[b] >= w.balance[b]
<1>1. w.balance[a] + x \in Nat
  BY DEF World
<1> QED
  BY <1>1 DEF World, Changed

(* A destruction.                                                          *)
LEMMA DestroyedType ==
    ASSUME NEW w \in World, NEW a \in Accounts PROVE Destroyed(w, a) \in World
  BY DEF World, Destroyed

(* What a transfer leaves, when the caller can afford it.                  *)
LEMMA TransferredType ==
    ASSUME TypeOK, Running, NEW typ, NEW to \in Accounts, NEW value \in Nat,
           value <= world.balance[Self]
    PROVE  Transferred(typ, to, value) \in World
<1>1. world \in World /\ Self \in Accounts
  BY FramesType DEF TypeOK, Running
<1>2. world.balance[Self] \in Nat /\ world.balance[Self] + (- value) >= 0
  BY <1>1 DEF World
<1>3. Changed(world, Self, - value) \in World
  BY <1>1, <1>2, ChangedType
<1>4. Changed(world, Self, - value).balance[to] + value >= 0
  BY <1>3 DEF World
<1>5. Changed(Changed(world, Self, - value), to, value) \in World
  BY <1>3, <1>4, ChangedType
<1> QED
  BY <1>1, <1>5 DEF Transferred

(* What the metering of SELFDESTRUCT and its payment leave.                *)
LEMMA PaidOutType ==
    ASSUME TypeOK, Running, NEW b \in Accounts
    PROVE  /\ MeteredDestruct(b) \in World
           /\ PaidOut(MeteredDestruct(b), b) \in World
<1>1. world \in World /\ Self \in Accounts
  BY FramesType DEF TypeOK, Running
<1> DEFINE w == MeteredDestruct(b)
<1>2. w \in World
  BY <1>1, DestroyedType DEF MeteredDestruct
<1> HIDE DEF w
<1>3. w.balance[Self] \in Nat /\ w.balance[b] + w.balance[Self] >= 0
  BY <1>1, <1>2 DEF World
<1>4. Changed(w, b, w.balance[Self]) \in World
  BY <1>2, <1>3, ChangedType
<1>5. [w EXCEPT !.balance[Self] = 0] \in World
  BY <1>1, <1>2 DEF World
<1> QED
  BY <1>2, <1>4, <1>5 DEF PaidOut, w

(***************************************************************************)
(* The steps.                                                              *)
(***************************************************************************)

(* An opcode that ends or goes on.                                         *)
LEMMA EndsKeeps ==
    ASSUME IInv, Running, NEW out \in {"running", "returned"} \cup Errors,
           NEW w \in World, NEW cost \in Int, cost <= Gas, Ends(out, w, cost)
    PROVE  IInv'
<1>1. TypeOK /\ Charge(cost) /\ readOnly' = readOnly
  BY DEF IInv, Ends, SameFrames
<1>2. ReadOnlyExact' /\ RestoreInv'
  BY <1>1, ChargeInv
<1>3. frames' \in Seq(Frame) /\ Len(frames') = Len(frames)
  BY <1>1, ChargeKeeps
<1>4. TypeOK'
  BY <1>1, <1>3, Constants DEF Ends, TypeOK, SameFrames, Goes, NoError
<1> QED
  BY <1>2, <1>4 DEF IInv

(* A call that is refused.                                                 *)
LEMMA RefuseKeeps ==
    ASSUME IInv, Running, NEW err \in Refusals, NEW to \in Accounts,
           NEW cost \in Nat, NEW given \in Nat, cost <= Gas,
           Refuse(err, to, cost, given)
    PROVE  IInv'
<1>1. TypeOK /\ Charge(cost - given) /\ readOnly' = readOnly
  BY DEF IInv, Refuse, SameFrames
<1>2. cost - given \in Int /\ cost - given <= Gas
  BY <1>1, FramesType DEF Running
<1>3. ReadOnlyExact' /\ RestoreInv'
  BY <1>1, <1>2, ChargeInv
<1>4. frames' \in Seq(Frame) /\ Len(frames') = Len(frames)
  BY <1>1, <1>2, ChargeKeeps
<1>5. TypeOK'
  BY <1>1, <1>4 DEF Refuse, TypeOK, SameFrames, Goes
<1> QED
  BY <1>3, <1>5 DEF IInv

(* A call that runs no code.                                               *)
LEMMA ImmediateKeeps ==
    ASSUME IInv, Running, NEW typ, NEW to \in Accounts, NEW value \in Nat,
           value <= world.balance[Self],
           NEW cost \in Nat, NEW given \in Nat, cost <= Gas,
           Immediate(typ, to, value, cost, given)
    PROVE  IInv'
<1>1. PICK left \in 0 .. given, err \in {"none", "failed"} :
          /\ Charge(cost - left) /\ Goes("running")
          /\ world' = Transferred(typ, to, value)
          /\ last' = IF err = "none" THEN NoError ELSE [err |-> err, to |-> to]
          /\ SameFrames
  BY DEF Immediate
<1>2. TypeOK /\ readOnly' = readOnly
  BY <1>1 DEF IInv, SameFrames
<1>3. cost - left \in Int /\ cost - left <= Gas
  BY <1>2, FramesType DEF Running
<1>4. ReadOnlyExact' /\ RestoreInv'
  BY <1>1, <1>2, <1>3, ChargeInv
<1>5. frames' \in Seq(Frame) /\ Len(frames') = Len(frames)
  BY <1>1, <1>2, <1>3, ChargeKeeps
<1>6. world' \in World
  BY <1>1, <1>2, TransferredType
<1>7. last' \in [err: {"none"} \cup Errors \cup Refusals, to: Accounts]
  BY <1>1, Constants DEF NoError, Errors
<1>8. TypeOK'
  BY <1>1, <1>2, <1>5, <1>6, <1>7 DEF TypeOK, SameFrames, Goes
<1> QED
  BY <1>4, <1>8 DEF IInv

(* A call that runs code: the new frame puts the flag up if it is that of  *)
(* a static call and the flag is down, and then it is the one that will    *)
(* take it down.                                                           *)
LEMMA EnterKeeps ==
    ASSUME IInv, Running, ~ TooDeep,
           NEW typ \in CallTypes, NEW to \in Accounts, NEW value \in Nat,
           value <= world.balance[Self],
           NEW cost \in Nat, NEW given \in Nat, cost <= Gas,
           Enter(typ, to, value, cost, given)
    PROVE  IInv'
<1> DEFINE n == Len(frames)
           fs == [frames EXCEPT ![Len(frames)].gas = @ - cost]
           f == [typ |-> typ, self |-> IF typ \in {"CALL", "STATICCALL"} THEN to ELSE Self,
                 to |-> to, gas |-> given, restore |-> typ = "STATICCALL" /\ ~ readOnly]
<1>1. TypeOK /\ n \in Nat /\ depth = n /\ Self \in Accounts /\ frames \in Seq(Frame)
  BY FramesType DEF IInv, TypeOK, Running
<1>2. /\ fs \in Seq(Frame) /\ Len(fs) = n
      /\ \A i \in 1 .. n : fs[i].typ = frames[i].typ /\ fs[i].restore = frames[i].restore
  BY <1>1, ChargedFrames
<1>3. f \in Frame /\ f.typ = typ /\ f.restore = (typ = "STATICCALL" /\ ~ readOnly)
  BY <1>1 DEF Frame, CallTypes, IInv, TypeOK
<1>4. frames' = Append(fs, f)
  BY DEF Enter
<1> HIDE DEF n, fs, f
<1>5. /\ frames' \in Seq(Frame) /\ Len(frames') = n + 1
      /\ \A i \in 1 .. n : frames'[i] = fs[i]
      /\ frames'[n + 1] = f
  BY <1>1, <1>2, <1>3, <1>4, AppendProperties
<1>6. /\ DOMAIN frames = 1 .. n /\ DOMAIN frames' = 1 .. n + 1
      /\ \A i \in 1 .. n : /\ frames'[i].typ = frames[i].typ
                           /\ frames'[i].restore = frames[i].restore
  BY <1>1, <1>2, <1>5, LenProperties DEF n
<1>7. TypeOK'
  <2>1. n + 1 <= CallCreateDepth + 1
    BY <1>1, Constants DEF TooDeep
  <2>2. world' \in World
    BY <1>1, TransferredType DEF Enter
  <2> QED
    BY <1>1, <1>5, <2>1, <2>2, Constants DEF Enter, TypeOK, Goes, NoError
<1>8. ReadOnlyExact'
  <2>1. readOnly' = (readOnly \/ typ = "STATICCALL")
    BY DEF Enter
  <2>2. readOnly = (\E i \in 1 .. n : frames[i].typ = "STATICCALL")
    BY <1>6 DEF IInv, ReadOnlyExact
  <2>3. frames'[n + 1].typ = typ
    BY <1>3, <1>5
  <2>4. \A i : i \in 1 .. n + 1 <=> i \in 1 .. n \/ i = n + 1
    BY <1>1
  <2>5. readOnly' = (\E i \in 1 .. n + 1 : frames'[i].typ = "STATICCALL")
    BY <1>6, <2>1, <2>2, <2>3, <2>4
  <2> QED
    BY <1>6, <2>5 DEF ReadOnlyExact
<1>9. RestoreInv'
  <2>1. ASSUME NEW i \in 1 .. n
        PROVE  frames'[i].restore <=> /\ frames'[i].typ = "STATICCALL"
                                      /\ \A j \in 1 .. i - 1 : frames'[j].typ # "STATICCALL"
    <3>1. \A j \in 1 .. i - 1 : j \in 1 .. n
      BY <1>1
    <3> QED
      BY <1>6, <3>1 DEF IInv, RestoreInv
  <2>2. f.restore <=> /\ f.typ = "STATICCALL"
                      /\ \A j \in 1 .. n : frames[j].typ # "STATICCALL"
    BY <1>3, <1>6 DEF IInv, ReadOnlyExact
  <2>3. frames'[n + 1].restore <=>
            /\ frames'[n + 1].typ = "STATICCALL"
            /\ \A j \in 1 .. (n + 1) - 1 : frames'[j].typ # "STATICCALL"
    <3>1. (n + 1) - 1 = n
      BY <1>1
    <3> QED
      BY <1>5, <1>6, <2>2, <3>1
  <2>4. \A i \in 1 .. n + 1 : i \in 1 .. n \/ i = n + 1
    BY <1>1
  <2> QED
    BY <1>6, <2>1, <2>3, <2>4 DEF RestoreInv
<1> QED
  BY <1>7, <1>8, <1>9 DEF IInv

(* The end of a frame.  If it takes the flag down, no static call is left; *)
(* if it does not, none that was under way has ended, or one further out   *)
(* still is.                                                               *)
LEMMA ReturnKeeps ==
    ASSUME IInv, Return PROVE IInv'
<1> DEFINE n == Len(frames)
<1>1. /\ TypeOK /\ frames # <<>> /\ outcome # "running"
      /\ n \in Nat /\ n >= 1 /\ frames \in Seq(Frame) /\ DOMAIN frames = 1 .. n
      /\ Top = frames[n] /\ Top \in Frame /\ Gas \in Nat
  BY FramesType, LenProperties DEF IInv, Return
<1> HIDE DEF n
<1>2. LeftOver \in Nat
  BY <1>1 DEF LeftOver
<1>3. /\ frames' \in Seq(Frame) /\ Len(frames') = n - 1
      /\ \A i \in 1 .. n - 1 : /\ frames'[i].typ = frames[i].typ
                               /\ frames'[i].restore = frames[i].restore
  <2>1. CASE n = 1
    <3>1. frames' = <<>>
      BY <2>1 DEF Return, n
    <3>2. frames' \in Seq(Frame) /\ Len(frames') = 0
      BY <3>1, EmptySeq
    <3>3. \A i \in 1 .. n - 1 : FALSE
      BY <2>1
    <3> QED
      BY <2>1, <3>2, <3>3
  <2>2. CASE n # 1
    <3> DEFINE fs == Front(frames)
    <3>1. \A i \in 1 .. n - 1 : i \in 1 .. n /\ frames[i] \in Frame
      BY <1>1, ElementOfSeq DEF n
    <3>2. /\ fs \in Seq(Frame) /\ Len(fs) = n - 1
          /\ \A i \in 1 .. n - 1 : fs[i] = frames[i]
      <4>1. /\ fs = SubSeq(frames, 1, n - 1)
            /\ 1 <= n - 1 /\ n - 1 \in Int /\ 1 \in Int
            /\ (n - 1) - 1 + 1 = n - 1
            /\ \A i \in 1 .. n - 1 : 1 + i - 1 = i
        BY <1>1, <2>2 DEF Front, n
      <4> HIDE DEF fs
      <4> QED
        BY <3>1, <4>1, SubSeqProperties
    <3>3. frames' = [fs EXCEPT ![n - 1].gas = @ + LeftOver]
      BY <2>2 DEF Return, n
    <3> HIDE DEF fs
    <3>4. n - 1 \in 1 .. Len(fs) /\ fs[n - 1].gas + LeftOver \in Nat
      <4>1. n - 1 \in 1 .. Len(fs)
        BY <1>1, <2>2, <3>2
      <4>2. fs[n - 1] \in Frame
        BY <3>2, <4>1, ElementOfSeq
      <4>3. fs[n - 1].gas \in Nat
        BY <4>2 DEF Frame
      <4> QED
        BY <1>2, <4>1, <4>3
    <3> QED
      BY <3>2, <3>3, <3>4, GasOfFrame
  <2> QED
    BY <2>1, <2>2
<1>4. DOMAIN frames' = 1 .. n - 1
  BY <1>3, LenProperties
<1>5. TypeOK'
  <2>1. readOnly' \in BOOLEAN /\ depth' = n - 1
    BY <1>1 DEF Return, TypeOK, n
  <2>2. n - 1 <= CallCreateDepth + 1
    BY <1>1, Constants DEF TypeOK, n
  <2>3. last' \in [err: {"none"} \cup Errors \cup Refusals, to: Accounts]
    BY <1>1, Constants DEF Return, TypeOK, NoError, Frame
  <2>4. outcome' \in {"running", "returned"} \cup Errors
    BY <1>1 DEF Return, TypeOK
  <2> QED
    BY <1>1, <1>3, <2>1, <2>2, <2>3, <2>4 DEF Return, TypeOK
<1>6. ReadOnlyExact'
  <2>1. readOnly' = IF frames[n].restore THEN FALSE ELSE readOnly
    BY <1>1 DEF Return
  <2>2. readOnly = (\E i \in 1 .. n : frames[i].typ = "STATICCALL")
    BY <1>1 DEF IInv, ReadOnlyExact
  <2>3. n \in 1 .. n /\ \A i \in 1 .. n - 1 : i \in 1 .. n
    BY <1>1
  <2>4. frames[n].restore <=> /\ frames[n].typ = "STATICCALL"
                              /\ \A j \in 1 .. n - 1 : frames[j].typ # "STATICCALL"
    BY <1>1, <2>3 DEF IInv, RestoreInv
  <2>5. \A i \in 1 .. n : i = n \/ i \in 1 .. n - 1
    BY <1>1
  <2>6. readOnly' = (\E i \in 1 .. n - 1 : frames[i].typ = "STATICCALL")
    <3>1. CASE frames[n].restore
      BY <2>1, <2>4, <3>1
    <3>2. CASE ~ frames[n].restore
      BY <2>1, <2>2, <2>3, <2>4, <2>5, <3>2
    <3> QED
      BY <3>1, <3>2
  <2> QED
    BY <1>3, <1>4, <2>6 DEF ReadOnlyExact
<1>7. RestoreInv'
  <2>1. \A i \in 1 .. n - 1 : \A j \in 1 .. i - 1 : i \in 1 .. n /\ j \in 1 .. n - 1
    BY <1>1
  <2>2. \A i \in 1 .. n - 1 : i \in 1 .. n
    BY <1>1
  <2> QED
    BY <1>1, <1>3, <1>4, <2>1, <2>2 DEF IInv, RestoreInv
<1> QED
  BY <1>5, <1>6, <1>7 DEF IInv

(* The opcodes that touch the state.                                       *)
LEMMA OpcodeKeeps ==
    ASSUME IInv,
           \/ Halt \/ SStore
           \/ \E a \in Accounts : SelfDestruct(a) \/ \E f \in Fields : Read(a, f)
    PROVE  IInv'
<1>1. TypeOK /\ world \in World
  BY DEF IInv, TypeOK
<1>2. Running
  BY DEF Halt, SStore, SelfDestruct, Read
<1>3. Gas \in Nat /\ Self \in Accounts
  BY <1>1, <1>2, FramesType DEF Running
<1>4. CASE Halt
  <2>1. PICK out \in {"returned", "reverted", "failed"} : Ends(out, world, 0)
    BY <1>4 DEF Halt
  <2>2. 0 <= Gas
    BY <1>3
  <2> QED
    BY <1>1, <1>2, <2>1, <2>2, EndsKeeps DEF Errors
<1>5. CASE SStore
  <2>1. [world EXCEPT !.slot[Self] = 1 - @] \in World
    BY <1>1, <1>3 DEF World
  <2>2. Step \in Int /\ Step <= Gas
    BY <1>3, <1>5, Constants DEF SStore
  <2>3. \E out \in {"running", "abort", "failed"}, w \in World : Ends(out, w, Step)
    BY <1>1, <1>5, <2>1 DEF SStore
  <2> QED
    BY <1>2, <2>2, <2>3, EndsKeeps DEF Errors
<1>6. ASSUME NEW a \in Accounts, NEW f \in Fields, Read(a, f) PROVE IInv'
  <2>1. Step \in Int /\ Step <= Gas
    BY <1>3, <1>6, Constants DEF Read
  <2>2. \E out \in {"running", "abort"} : Ends(out, world, Step)
    BY <1>6 DEF Read
  <2> QED
    BY <1>1, <1>2, <2>1, <2>2, EndsKeeps DEF Errors
<1>7. ASSUME NEW a \in Accounts, SelfDestruct(a) PROVE IInv'
  <2>1. Step \in Int /\ Step <= Gas
    BY <1>3, <1>7, Constants DEF SelfDestruct
  <2>2. /\ MeteredDestruct(a) \in World /\ PaidOut(MeteredDestruct(a), a) \in World
        /\ Destroyed(PaidOut(MeteredDestruct(a), a), Self) \in World
    BY <1>1, <1>2, <1>3, <1>7, PaidOutType, DestroyedType
  <2>3. \E out \in {"returned", "abort", "failed"}, w \in World : Ends(out, w, Step)
    BY <1>1, <1>7, <2>2 DEF SelfDestruct
  <2> QED
    BY <1>2, <2>1, <2>3, EndsKeeps DEF Errors
<1> QED
  BY <1>4, <1>5, <1>6, <1>7

(* A call, whichever way it goes.                                          *)
LEMMA CallKeeps ==
    ASSUME IInv, NEW typ \in CallTypes, NEW to \in Accounts, NEW value \in 0 .. 1,
           NEW temp \in 0 .. GasLimit, Call(typ, to, value, temp)
    PROVE  IInv'
<1> DEFINE cost == Price(typ, value) + temp
           given == Given(typ, value, temp)
<1>1. TypeOK /\ Running /\ world \in World
  BY DEF IInv, TypeOK, Call
<1>2. Gas \in Nat /\ Self \in Accounts
  BY <1>1, FramesType DEF Running
<1>3. cost \in Nat /\ given \in Nat /\ cost <= Gas
  BY Constants DEF Call, Price, Given
<1>4. Transferred(typ, to, value) \in World \/ value > world.balance[Self]
  <2>1. world.balance[Self] \in Nat
    BY <1>1, <1>2 DEF World
  <2> QED
    BY <1>1, <2>1, TransferredType
<1> HIDE DEF cost, given
<1>5. CASE \E w \in World, c \in {0, cost}, out \in {"abort", "failed"} : Ends(out, w, c)
  <2>1. \A c \in {0, cost} : c \in Int /\ c <= Gas
    BY <1>2, <1>3
  <2> QED
    BY <1>1, <1>5, <2>1, EndsKeeps DEF Errors
<1>6. CASE \E err \in {"depth", "insufficient"} : Refuse(err, to, cost, given)
  BY <1>1, <1>3, <1>6, RefuseKeeps DEF Refusals
<1>7. CASE /\ value <= world.balance[Self]
           /\ Immediate(typ, to, value, cost, given)
  BY <1>1, <1>3, <1>7, ImmediateKeeps
<1>8. CASE /\ value <= world.balance[Self] /\ ~ TooDeep
           /\ Enter(typ, to, value, cost, given)
  BY <1>1, <1>3, <1>8, EnterKeeps
<1>9. value > world.balance[Self] \/ value <= world.balance[Self]
  BY <1>1, <1>2 DEF World
<1> QED
  BY <1>1, <1>4, <1>5, <1>6, <1>7, <1>8, <1>9 DEF Call, cost, given

(* A creation, as far as the collision.                                    *)
LEMMA CreateKeeps ==
    ASSUME IInv, NEW typ, NEW new \in Accounts, NEW value \in 0 .. 1,
           Create(typ, new, value)
    PROVE  IInv'
<1> DEFINE given == (Gas - CreateGas) - (Gas - CreateGas) \div Fraction
           nonce == world.nonce[Self] + 1
           bumped == [world EXCEPT !.nonce[Self] = nonce]
<1>1. TypeOK /\ Running /\ world \in World /\ Gas >= CreateGas
  BY DEF IInv, TypeOK, Create
<1>2. Gas \in Nat /\ Self \in Accounts
  BY <1>1, FramesType DEF Running
<1>3. given \in Nat /\ CreateGas + given <= Gas
  <2>1. Gas - CreateGas \in Nat
    BY <1>1, <1>2, Constants
  <2>2. (Gas - CreateGas) \div Fraction \in Nat
        /\ (Gas - CreateGas) \div Fraction <= Gas - CreateGas
    BY <2>1, Constants, QuotientBound
  <2> QED
    BY <1>2, <2>1, <2>2, Constants
<1>4. nonce \in Nat
  BY <1>1, <1>2 DEF World
<1>5. bumped \in World \/ nonce > MaxNonce
  BY <1>1, <1>2, <1>4, Constants DEF World
<1> HIDE DEF given, nonce, bumped
<1>6. CASE \E w \in World, out \in {"abort", "failed"} : Ends(out, w, CreateGas)
  BY <1>1, <1>2, <1>6, EndsKeeps, Constants DEF Errors
<1>7. CASE \E err \in {"depth", "insufficient", "overflow"} : Refuse(err, new, CreateGas, 0)
  BY <1>1, <1>2, <1>7, RefuseKeeps, Constants DEF Refusals
<1>8. CASE /\ bumped \in World
           /\ Charge(CreateGas + given) /\ Goes("running")
           /\ world' = bumped
           /\ last' = [err |-> "collision", to |-> new]
           /\ SameFrames
  <2>1. readOnly' = readOnly /\ CreateGas + given \in Int
    BY <1>3, <1>8, Constants DEF SameFrames
  <2>2. ReadOnlyExact' /\ RestoreInv'
    BY <1>1, <1>3, <1>8, <2>1, ChargeInv
  <2>3. frames' \in Seq(Frame) /\ Len(frames') = Len(frames)
    BY <1>1, <1>3, <1>8, <2>1, ChargeKeeps
  <2>4. TypeOK'
    BY <1>1, <1>8, <2>3 DEF TypeOK, SameFrames, Goes, Refusals
  <2> QED
    BY <2>2, <2>4 DEF IInv
<1> QED
  BY <1>1, <1>5, <1>6, <1>7, <1>8 DEF Create, given, nonce, bumped

(* The first frame.                                                        *)
LEMMA InitIInv == Init => IInv
<1> SUFFICES ASSUME Init PROVE IInv
  OBVIOUS
<1> DEFINE f == [typ |-> "CALL", self |-> Start, to |-> Start, gas |-> GasLimit,
                 restore |-> FALSE]
<1>1. f \in Frame /\ f.typ = "CALL" /\ f.restore = FALSE
  BY Constants DEF Frame
<1> HIDE DEF f
<1>2. frames = <<f>>
  BY DEF Init, f
<1>3. frames \in Seq(Frame) /\ Len(frames) = 1 /\ DOMAIN frames = 1 .. 1 /\ frames[1] = f
  BY <1>1, <1>2
<1>4. \A i \in 1 .. 1 : frames[i].typ = "CALL" /\ frames[i].restore = FALSE
  BY <1>1, <1>3
<1>5. TypeOK
  <2>1. world \in World
    BY Constants DEF Init, World
  <2>2. Len(frames) <= CallCreateDepth + 1 /\ depth = Len(frames)
    BY <1>3, Constants DEF Init
  <2>3. last \in [err: {"none"} \cup Errors \cup Refusals, to: Accounts]
    BY Constants DEF Init, NoError
  <2>4. load \in Loads /\ readOnly \in BOOLEAN /\ refused \in BOOLEAN /\ outcome = "running"
    BY DEF Init
  <2> QED
    BY <1>3, <2>1, <2>2, <2>3, <2>4 DEF TypeOK
<1>6. ReadOnlyExact
  BY <1>3, <1>4 DEF Init, ReadOnlyExact
<1>7. RestoreInv
  BY <1>3, <1>4 DEF RestoreInv
<1> QED
  BY <1>5, <1>6, <1>7 DEF IInv

(* No step breaks the invariant.                                           *)
LEMMA NextIInv == IInv /\ [Next]_vars => IInv'
<1> SUFFICES ASSUME IInv, [Next]_vars PROVE IInv'
  OBVIOUS
<1>1. CASE UNCHANGED vars
  BY <1>1 DEF vars, IInv, TypeOK, ReadOnlyExact, RestoreInv
<1> QED
  BY <1>1, OpcodeKeeps, CallKeeps, CreateKeeps, ReturnKeeps DEF Next, Finished

(* The frames are well formed, never more than the depth allows, and the   *)
(* read-only flag is up exactly while a static call is under way.          *)
THEOREM InvariantCorrect == Spec => []IInv
  BY InitIInv, NextIInv, PTL DEF Spec

(* However calls are nested, and whether they return, revert, fail or are  *)
(* aborted, the flag neither outlives the static call nor ends before it.  *)
THEOREM ReadOnlyExactCorrect == Spec => []ReadOnlyExact
<1>1. IInv => ReadOnlyExact
  BY DEF IInv
<1> QED
  BY <1>1, InvariantCorrect, PTL

(***************************************************************************)
(* Aborts.                                                                 *)
(***************************************************************************)

(* No step loses an abort or goes on after it.                             *)
LEMMA NextAbort == AbortIsFinal /\ [Next]_vars => AbortIsFinal'
<1> SUFFICES ASSUME AbortIsFinal, [Next]_vars PROVE AbortIsFinal'
  OBVIOUS
<1> USE DEF AbortIsFinal
<1>1. CASE Running /\ \E out : Goes(out)
  BY <1>1 DEF Running, Goes
<1>2. CASE UNCHANGED vars
  BY <1>2 DEF vars
<1>3. CASE Return
  BY <1>3 DEF Return
<1>4. ASSUME Halt \/ SStore \/ \E a \in Accounts : SelfDestruct(a) \/ \E f \in Fields : Read(a, f)
      PROVE  Running /\ \E out : Goes(out)
  BY <1>4 DEF Halt, SStore, SelfDestruct, Read, Ends
<1>5. ASSUME NEW typ, NEW new, NEW value, Create(typ, new, value)
      PROVE  Running /\ \E out : Goes(out)
  BY <1>5 DEF Create, Ends, Refuse
<1>6. ASSUME NEW typ, NEW to, NEW value, NEW temp, Call(typ, to, value, temp)
      PROVE  Running /\ \E out : Goes(out)
  BY <1>6 DEF Call, Ends, Refuse, Immediate, Enter
<1> QED
  BY <1>1, <1>2, <1>3, <1>4, <1>5, <1>6 DEF Next, Finished

(* Once a record that was not predicted has been asked for, every frame is *)
(* left with the abort, and so is the transaction.                         *)
THEOREM AbortIsFinalCorrect == Spec => []AbortIsFinal
<1>1. Init => AbortIsFinal
  BY DEF Init, AbortIsFinal
<1> QED
  BY <1>1, NextAbort, PTL DEF Spec

(***************************************************************************)
(* Static calls.                                                           *)
(***************************************************************************)

(* No step changes the state while the flag is up and the rules are those  *)
(* of Byzantium.                                                           *)
LEMMA StaticStep ==
    ASSUME [Next]_vars, readOnly, load.fork = "Byzantium" PROVE UNCHANGED world
<1>1. CASE UNCHANGED vars
  BY <1>1 DEF vars
<1>2. CASE Return
  BY <1>2 DEF Return
<1>3. CASE Halt
  BY <1>3 DEF Halt, Ends
<1>4. CASE SStore
  BY <1>4 DEF SStore, Ends
<1>5. ASSUME NEW a \in Accounts, NEW f \in Fields, Read(a, f) PROVE UNCHANGED world
  BY <1>5 DEF Read, Ends
<1>6. ASSUME NEW a \in Accounts, SelfDestruct(a) PROVE UNCHANGED world
  BY <1>6 DEF SelfDestruct, Ends, MeteredDestruct
<1>7. ASSUME NEW typ, NEW new, NEW value, Create(typ, new, value) PROVE UNCHANGED world
  BY <1>7 DEF Create, Ends
<1>8. ASSUME NEW typ \in CallTypes, NEW to, NEW value \in 0 .. 1, NEW temp,
             Call(typ, to, value, temp)
      PROVE  UNCHANGED world
  <2>1. ~ (typ = "CALL" /\ value > 0) => Transferred(typ, to, value) = world
    BY DEF Transferred
  <2> QED
    BY <1>8, <2>1 DEF Call, Ends, Refuse, Immediate, Enter
<1> QED
  BY <1>1, <1>2, <1>3, <1>4, <1>5, <1>6, <1>7, <1>8 DEF Next, Finished

(* Nothing changes in a static call before Berlin.                         *)
THEOREM StaticIsPureCorrect == Spec => StaticIsPureBeforeBerlin
<1>1. [Next]_vars => [readOnly /\ load.fork = "Byzantium" => UNCHANGED world]_vars
  BY StaticStep
<1> QED
  BY <1>1, PTL DEF Spec, StaticIsPureBeforeBerlin

(***************************************************************************)
(* What prediction records is enough.                                      *)
(***************************************************************************)

(* SSTORE.                                                                 *)
LEMMA StoringSuffices ==
    ASSUME SStore, outcome' = "abort" PROVE ~ Predicted(Storing)
<1> SUFFICES ASSUME Predicted(Storing) PROVE FALSE
  OBVIOUS
<1>1. MayRead(Self, "SLOT") /\ MayWrite(Self, "SLOT")
  BY DEF Predicted, Storing, MayRead, MayWrite, Fs!And, Fs!GetState, Fs!SetState,
         Fs!Read, Fs!Written
<1> QED
  BY <1>1 DEF SStore, Ends, Goes

(* SELFDESTRUCT before Berlin.                                             *)
LEMMA DestroyingSuffices ==
    ASSUME NEW b \in Accounts, SelfDestruct(b), load.fork = "Byzantium",
           outcome' = "abort"
    PROVE  ~ Predicted(Destroying(b))
<1> SUFFICES ASSUME Predicted(Destroying(b)) PROVE FALSE
  OBVIOUS
<1>1. /\ MayRead(b, "BALANCE") /\ MayRead(b, "NONCE") /\ MayRead(b, "CODE")
      /\ MayRead(Self, "BALANCE") /\ MayRead(Self, "ALIVE")
      /\ MayWrite(b, "BALANCE")
      /\ MayWrite(Self, "ALIVE") /\ MayWrite(Self, "BALANCE")
  BY DEF Predicted, Destroying, MayRead, MayWrite, Fs!And, Fs!Empty, Fs!GetBalance,
         Fs!HasSelfdestructed, Fs!AddBalance, Fs!Selfdestruct, Fs!Read, Fs!Written
<1>2. Exist(b)
  BY <1>1 DEF Exist, Fields
<1>3. MayMeterDestruct(b) /\ MayPayOut(b)
  BY <1>1, <1>2 DEF MayMeterDestruct, MayAskEmpty, MayPayOut, MayChange, MayDestroy
<1> QED
  BY <1>3 DEF SelfDestruct, Ends, Goes

(* CREATE and CREATE2.                                                     *)
LEMMA CreatingSuffices ==
    ASSUME NEW typ, NEW new, NEW value, Create(typ, new, value), outcome' = "abort"
    PROVE  ~ Predicted(Creating(new))
<1> SUFFICES ASSUME Predicted(Creating(new)) PROVE FALSE
  OBVIOUS
<1>1. /\ MayRead(Self, "BALANCE")
      /\ MayRead(Self, "NONCE") /\ MayWrite(Self, "NONCE")
      /\ MayRead(new, "CODEHASH")
  BY DEF Predicted, Creating, MayRead, MayWrite, Fs!And, Fs!GetBalance, Fs!GetNonce,
         Fs!SetNonce, Fs!GetCodeHash, Fs!Read, Fs!Written
<1> QED
  BY <1>1 DEF Create, Ends, Refuse, Goes

(* The calls: what each way through Call asks for is in the record of the  *)
(* callee or of the caller.                                                *)
LEMMA CallingSuffices ==
    ASSUME NEW typ \in CallTypes, NEW to, NEW value \in 0 .. 1, NEW temp,
           load.kind[to] \in Kinds,
           Call(typ, to, value, temp), outcome' = "abort"
    PROVE  ~ Predicted(Calling(typ, to, value))
<1> SUFFICES ASSUME Predicted(Calling(typ, to, value)) PROVE FALSE
  OBVIOUS
<1> USE DEF Predicted, Calling, MayRead, MayWrite, Fs!And, Fs!Read, Fs!Written, Fs!Nothing
<1>1. value > 0 => MayRead(Self, "BALANCE")
  BY DEF Fs!GetBalance
<1>2. typ = "CALL" /\ value > 0 =>
          MayRead(to, "BALANCE") /\ MayRead(to, "NONCE") /\ MayRead(to, "CODE")
  BY DEF Fs!Empty
<1>3. load.kind[to] # "precompile" => MayRead(to, "CODE")
  BY DEF Fs!GetCode
<1>4. typ = "CALL" /\ (value > 0 \/ load.kind[to] # "plain") =>
          MayRead(to, "BALANCE")
  BY DEF Fs!SubBalance, Fs!AddBalance
<1>5. typ = "STATICCALL" => MayRead(to, "BALANCE") /\ MayWrite(to, "BALANCE")
  BY DEF Fs!AddBalance
<1>6. load.kind[to] = "contract" => MayRead(to, "CODEHASH")
  BY DEF Fs!GetCodeHash
<1>7. typ = "CALL" => Exist(to)
  BY <1>3, <1>4 DEF Exist, Fields, Kinds
<1>8. typ = "CALL" /\ value > 0 => MayAskEmpty(to)
  BY <1>2, <1>7 DEF MayAskEmpty
<1>9. MayEnter(typ, to)
  BY <1>3, <1>5, <1>7 DEF MayEnter, MayChange
<1> QED
  BY <1>1, <1>6, <1>8, <1>9 DEF Call, Ends, Refuse, Immediate, Enter, Goes

(* Whatever prediction records of an operation, State does not refuse the  *)
(* operation for want of more, but for a destruction from Berlin on.       *)
THEOREM PredictedIsAllowedCorrect == Spec => PredictedIsAllowed
<1> DEFINE Allowed ==
        outcome = "running" /\ outcome' = "abort" =>
            /\ SStore => ~ Predicted(Storing)
            /\ \A a \in Accounts :
                  /\ SelfDestruct(a) /\ load.fork = "Byzantium" => ~ Predicted(Destroying(a))
                  /\ \A value \in 0 .. 1 :
                        /\ \A typ \in {"CREATE", "CREATE2"} :
                              Create(typ, a, value) => ~ Predicted(Creating(a))
                        /\ \A typ \in CallTypes, temp \in 0 .. GasLimit :
                              Call(typ, a, value, temp) => ~ Predicted(Calling(typ, a, value))
<1>1. ASSUME IInv PROVE Allowed
  <2>1. load.kind \in [Accounts -> Kinds]
    BY <1>1, Constants DEF IInv, TypeOK, Load
  <2> QED
    BY <2>1, StoringSuffices, DestroyingSuffices, CreatingSuffices, CallingSuffices
<1>2. IInv /\ [Next]_vars => [Allowed]_vars
  BY <1>1
<1> QED
  BY <1>2, InvariantCorrect, PTL DEF Spec, PredictedIsAllowed

(***************************************************************************)
(* Gas.                                                                    *)
(***************************************************************************)

GasOf(fs) == [i \in DOMAIN fs |-> fs[i].gas]

(* The sum of a function, as DataTheorems knows it.                         *)
LEMMA SumOfFunction == \A f : SumFunction(f) = SumOver(f, DOMAIN f)
  BY DEF SumFunction, SumFunctionOnSet, FoldFunctionOnSet, SumOver, MapThenSumSet

LEMMA GasInIsSum ==
    ASSUME NEW fs \in Seq(Frame)
    PROVE  /\ GasOf(fs) \in [1 .. Len(fs) -> Nat]
           /\ \A i \in 1 .. Len(fs) : GasOf(fs)[i] = fs[i].gas
           /\ GasIn(fs) = SumOver(GasOf(fs), 1 .. Len(fs))
           /\ IsFiniteSet(1 .. Len(fs)) /\ Len(fs) \in Nat
<1>1. Len(fs) \in Nat /\ DOMAIN fs = 1 .. Len(fs) /\ fs \in [1 .. Len(fs) -> Frame]
  BY LenProperties
<1>2. GasOf(fs) \in [1 .. Len(fs) -> Nat] /\ \A i \in 1 .. Len(fs) : GasOf(fs)[i] = fs[i].gas
  BY <1>1 DEF GasOf, Frame
<1>3. GasIn(fs) = SumFunction(GasOf(fs))
  BY DEF GasIn, GasOf
<1>4. DOMAIN GasOf(fs) = 1 .. Len(fs)
  BY <1>2
<1>5. GasIn(fs) = SumOver(GasOf(fs), 1 .. Len(fs))
  BY <1>3, <1>4, SumOfFunction
<1>6. IsFiniteSet(1 .. Len(fs))
  BY <1>1, FS_Interval
<1> QED
  BY <1>1, <1>2, <1>5, <1>6

(* Frames of which one has other gas.                                      *)
LEMMA GasChange ==
    ASSUME NEW fs \in Seq(Frame), NEW n \in 1 .. Len(fs), NEW g \in Nat
    PROVE  /\ GasIn(fs) \in Int
           /\ GasIn([fs EXCEPT ![n].gas = g]) = GasIn(fs) - fs[n].gas + g
<1> DEFINE gs == [fs EXCEPT ![n].gas = g]
           c == GasOf(fs)
           S == 1 .. Len(fs)
<1>1. /\ c \in [S -> Nat] /\ GasIn(fs) = SumOver(c, S) /\ IsFiniteSet(S) /\ n \in S
      /\ c[n] = fs[n].gas
  BY GasInIsSum
<1>2. gs \in Seq(Frame) /\ Len(gs) = Len(fs)
  BY GasOfFrame
<1>3. GasOf(gs) = [c EXCEPT ![n] = g]
  <2>1. fs \in [S -> Frame] /\ DOMAIN gs = S /\ DOMAIN fs = S
    BY LenProperties
  <2>2. \A i \in S : gs[i].gas = IF i = n THEN g ELSE fs[i].gas
    BY <2>1 DEF Frame
  <2> HIDE DEF gs
  <2> QED
    BY <2>1, <2>2 DEF GasOf
<1>4. GasIn(gs) = SumOver(GasOf(gs), S)
  BY <1>2, GasInIsSum
<1> HIDE DEF gs, c, S
<1> DEFINE d == [c EXCEPT ![n] = g]
<1>5. /\ c \in [S -> Int] /\ d \in [S -> Int] /\ d[n] = g
      /\ \A x \in S : x # n => d[x] = c[x]
  BY <1>1
<1> HIDE DEF d
<1>6. SumOver(c, S) \in Int /\ SumOver(d, S) = SumOver(c, S) - c[n] + d[n]
  BY <1>1, <1>5, SumChange
<1> QED
  BY <1>1, <1>3, <1>4, <1>5, <1>6 DEF gs, d

(* With one frame more, whatever its gas.                                  *)
LEMMA GasAppend ==
    ASSUME NEW fs \in Seq(Frame), NEW f \in Frame
    PROVE  /\ GasIn(fs) \in Int
           /\ GasIn(Append(fs, f)) = GasIn(fs) + f.gas
<1> DEFINE gs == Append(fs, f)
           n == Len(fs)
           S == 1 .. n
           m == n + 1
           c == GasOf(fs)
           d == GasOf(gs)
<1>1. c \in [S -> Nat] /\ GasIn(fs) = SumOver(c, S) /\ IsFiniteSet(S) /\ n \in Nat
  BY GasInIsSum
<1>2. /\ gs \in Seq(Frame) /\ Len(gs) = n + 1
      /\ \A i \in S : gs[i] = fs[i]
      /\ gs[n + 1] = f
  BY AppendProperties
<1>3. /\ d \in [1 .. n + 1 -> Nat] /\ GasIn(gs) = SumOver(d, 1 .. n + 1)
      /\ \A i \in 1 .. n + 1 : d[i] = gs[i].gas
  BY <1>2, GasInIsSum
<1>4. \A i \in S : c[i] = fs[i].gas
  BY GasInIsSum
<1> HIDE DEF gs, c, d
<1>5. 1 .. n + 1 = S \cup {n + 1} /\ n + 1 \notin S
  BY <1>1
<1>6. \A i \in S : d[i] = c[i]
  BY <1>2, <1>3, <1>4, <1>5
<1>7. d[n + 1] = f.gas
  BY <1>1, <1>2, <1>3
<1>8. /\ c \in [S -> Int] /\ d \in [S \cup {m} -> Int] /\ m \notin S
      /\ SumOver(d, S \cup {m}) = GasIn(gs) /\ d[m] = f.gas
  <2> DEFINE T == 1 .. n + 1
  <2>1. T = S \cup {m} /\ m \notin S /\ d \in [T -> Nat] /\ SumOver(d, T) = GasIn(gs)
    BY <1>3, <1>5
  <2>2. d[m] = f.gas
    BY <1>7
  <2> HIDE DEF T, S, m
  <2> QED
    BY <1>1, <2>1, <2>2
<1> HIDE DEF S, n, m
<1>9. SumOver(c, S) \in Int /\ SumOver(d, S \cup {m}) = SumOver(c, S) + d[m]
  BY <1>1, <1>6, <1>8, SumExtend
<1> QED
  BY <1>1, <1>8, <1>9 DEF gs

(* A charge takes what it says.                                            *)
LEMMA ChargeGas ==
    ASSUME TypeOK, Running, NEW cost \in Int, cost <= Gas, Charge(cost)
    PROVE  GasIn(frames) \in Int /\ GasIn(frames') = GasIn(frames) - cost
<1> DEFINE n == Len(frames)
           g == frames[n].gas - cost
<1>1. /\ n \in 1 .. n /\ frames \in Seq(Frame) /\ frames[n].gas \in Nat
      /\ cost <= frames[n].gas
  BY FramesType DEF Running, Gas
<1>2. g \in Nat
  BY <1>1
<1>3. frames' = [frames EXCEPT ![n].gas = g]
  BY DEF Charge
<1> HIDE DEF g
<1>4. GasIn(frames) \in Int /\ GasIn(frames') = GasIn(frames) - frames[n].gas + g
  BY <1>1, <1>2, <1>3, GasChange
<1> QED
  BY <1>1, <1>4 DEF g

(* One frame less: its gas is gone, but for what it hands back.            *)
LEMMA ReturnGas ==
    ASSUME TypeOK, Return PROVE GasIn(frames') <= GasIn(frames)
<1> DEFINE n == Len(frames)
           fs == Front(frames)
<1>1. /\ frames # <<>> /\ n \in Nat /\ n >= 1 /\ frames \in Seq(Frame)
      /\ Top = frames[n] /\ Top \in Frame /\ Gas \in Nat
  BY FramesType DEF Return
<1>2. LeftOver \in Nat /\ LeftOver <= Gas
  BY <1>1 DEF LeftOver
<1>3. /\ fs \in Seq(Frame) /\ Len(fs) = n - 1
      /\ \A i \in 1 .. n - 1 : fs[i] = frames[i]
  <2>1. CASE n = 1
    <3>1. fs = SubSeq(frames, 1, 0)
      BY <2>1 DEF Front
    <3>2. fs = <<>>
      BY <1>1, <3>1, SubSeqProperties
    <3> HIDE DEF fs
    <3> QED
      BY <2>1, <3>2, EmptySeq
  <2>2. CASE n # 1
    <3>1. \A i \in 1 .. n - 1 : i \in 1 .. n /\ frames[i] \in Frame
      BY <1>1, ElementOfSeq
    <3>2. fs = SubSeq(frames, 1, n - 1)
      BY DEF Front
    <3> HIDE DEF fs, n
    <3>3. /\ 1 <= n - 1 /\ n - 1 \in Int /\ 1 \in Int
          /\ (n - 1) - 1 + 1 = n - 1
          /\ \A i \in 1 .. n - 1 : 1 + i - 1 = i
      BY <1>1, <2>2
    <3> QED
      BY <1>1, <3>1, <3>2, <3>3, SubSeqProperties
  <2> QED
    BY <2>1, <2>2
<1> HIDE DEF fs
<1>4. GasIn(fs) \in Int /\ GasIn(frames) = GasIn(fs) + Gas
  <2>1. GasIn(fs) \in Int /\ GasIn(Append(fs, Top)) = GasIn(fs) + Gas
    BY <1>1, <1>3, GasAppend DEF Gas
  <2>2. frames = Append(fs, Top)
    <3>1. /\ Append(fs, Top) \in Seq(Frame) /\ Len(Append(fs, Top)) = n
          /\ \A i \in 1 .. n - 1 : Append(fs, Top)[i] = fs[i]
          /\ Append(fs, Top)[n] = Top
      BY <1>1, <1>3, AppendProperties
    <3>2. \A i \in 1 .. n : i \in 1 .. n - 1 \/ i = n
      BY <1>1
    <3>3. \A i \in 1 .. n : Append(fs, Top)[i] = frames[i]
      BY <1>1, <1>3, <3>1, <3>2
    <3> QED
      BY <1>1, <3>1, <3>3, SeqEqual
  <2> QED
    BY <2>1, <2>2
<1>5. CASE n = 1
  <2>1. frames' = <<>> /\ fs = <<>>
    BY <1>3, <1>5, EmptySeq DEF Return, n
  <2> QED
    BY <1>1, <1>4, <2>1
<1>6. CASE n # 1
  <2> DEFINE g == fs[n - 1].gas + LeftOver
  <2>1. n - 1 \in 1 .. Len(fs)
    BY <1>1, <1>3, <1>6
  <2>2. fs[n - 1] \in Frame
    BY <1>3, <2>1, ElementOfSeq
  <2>3. fs[n - 1].gas \in Nat /\ g \in Nat
    BY <1>2, <2>2 DEF Frame
  <2>4. frames' = [fs EXCEPT ![n - 1].gas = g]
    BY <1>6 DEF Return, fs, n
  <2> HIDE DEF g
  <2>5. GasIn(frames') = GasIn(fs) - fs[n - 1].gas + g
    BY <1>3, <2>1, <2>3, <2>4, GasChange
  <2> QED
    BY <1>1, <1>2, <1>4, <2>3, <2>5 DEF g
<1> QED
  BY <1>5, <1>6

(* What a call or a creation that is refused hands back, or a callee gets, *)
(* was paid for: a stipend is part of the price of a transfer.             *)
LEMMA CallPaysForItself ==
    ASSUME NEW typ, NEW value, NEW temp \in Nat
    PROVE  /\ Price(typ, value) + temp \in Nat /\ Given(typ, value, temp) \in Nat
           /\ Given(typ, value, temp) <= Price(typ, value) + temp
  BY Constants DEF Price, Given

(* A charge that is not negative makes no gas.                             *)
LEMMA ChargeMakesNone ==
    ASSUME TypeOK, Running, NEW cost \in Nat, cost <= Gas, Charge(cost)
    PROVE  GasIn(frames') <= GasIn(frames)
  BY ChargeGas

(* An opcode, whatever it does to the state.                               *)
LEMMA OpcodeGas ==
    ASSUME TypeOK,
           \/ Halt \/ SStore
           \/ \E a \in Accounts : SelfDestruct(a) \/ \E f \in Fields : Read(a, f)
    PROVE  GasIn(frames') <= GasIn(frames)
<1>1. Running
  BY DEF Halt, SStore, SelfDestruct, Read
<1>2. Gas \in Nat
  BY <1>1, FramesType DEF Running
<1>3. Charge(0) \/ (Charge(Step) /\ Step <= Gas)
  BY <1>2, Constants DEF Halt, SStore, SelfDestruct, Read, Ends
<1> QED
  BY <1>1, <1>2, <1>3, ChargeMakesNone, Constants

(* A creation pays for what it then loses.                                 *)
LEMMA CreateGasKept ==
    ASSUME TypeOK, NEW typ, NEW new, NEW value, Create(typ, new, value)
    PROVE  GasIn(frames') <= GasIn(frames)
<1> DEFINE given == (Gas - CreateGas) - (Gas - CreateGas) \div Fraction
<1>1. Running /\ Gas >= CreateGas
  BY DEF Create
<1>2. Gas \in Nat
  BY <1>1, FramesType DEF Running
<1>3. given \in Nat /\ CreateGas + given <= Gas
  <2>1. Gas - CreateGas \in Nat
    BY <1>1, <1>2, Constants
  <2>2. (Gas - CreateGas) \div Fraction \in Nat
        /\ (Gas - CreateGas) \div Fraction <= Gas - CreateGas
    BY <2>1, Constants, QuotientBound
  <2> QED
    BY <1>2, <2>1, <2>2, Constants
<1> HIDE DEF given
<1>4. Charge(CreateGas) \/ Charge(CreateGas - 0) \/ Charge(CreateGas + given)
  BY DEF Create, Ends, Refuse, given
<1>5. CreateGas - 0 = CreateGas /\ CreateGas \in Nat /\ CreateGas + given \in Nat
  BY <1>3, Constants
<1> QED
  BY <1>1, <1>3, <1>4, <1>5, ChargeMakesNone

(* A call sets aside what it pays for, or a stipend it has paid for.       *)
LEMMA CallGas ==
    ASSUME TypeOK, NEW typ \in CallTypes, NEW to \in Accounts, NEW value \in 0 .. 1,
           NEW temp \in 0 .. GasLimit, Call(typ, to, value, temp)
    PROVE  GasIn(frames') <= GasIn(frames)
<1> DEFINE cost == Price(typ, value) + temp
           given == Given(typ, value, temp)
<1>1. Running /\ cost <= Gas
  <2>1. Running /\ Gas >= cost
    BY DEF Call
  <2>2. Gas \in Nat
    BY <2>1, FramesType DEF Running
  <2>3. cost \in Nat
    BY CallPaysForItself, Constants
  <2> HIDE DEF cost
  <2> QED
    BY <2>1, <2>2, <2>3
<1>2. Gas \in Nat /\ Self \in Accounts /\ frames \in Seq(Frame)
  BY <1>1, FramesType DEF Running
<1>3. cost \in Nat /\ given \in Nat /\ given <= cost
  BY CallPaysForItself, Constants
<1> HIDE DEF cost, given
<1>4. CASE \E c \in {0, cost} : Charge(c)
  BY <1>1, <1>2, <1>3, <1>4, ChargeMakesNone
<1>5. CASE \E left \in 0 .. given : Charge(cost - left)
  <2>1. PICK left \in 0 .. given : Charge(cost - left)
    BY <1>5
  <2>2. cost - left \in Nat /\ cost - left <= Gas
    BY <1>1, <1>2, <1>3
  <2> QED
    BY <1>1, <2>1, <2>2, ChargeMakesNone
<1>6. CASE Enter(typ, to, value, cost, given)
  <2> DEFINE fs == [frames EXCEPT ![Len(frames)].gas = @ - cost]
             f == [typ |-> typ, self |-> IF typ \in {"CALL", "STATICCALL"} THEN to ELSE Self,
                   to |-> to, gas |-> given, restore |-> typ = "STATICCALL" /\ ~ readOnly]
             g == frames[Len(frames)].gas - cost
  <2>1. frames' = Append(fs, f)
    BY <1>6 DEF Enter
  <2>2. f \in Frame /\ f.gas = given
    BY <1>2, <1>3 DEF Frame, CallTypes
  <2>3. /\ Len(frames) \in 1 .. Len(frames) /\ frames[Len(frames)].gas = Gas /\ g \in Nat
        /\ fs = [frames EXCEPT ![Len(frames)].gas = g]
    BY <1>1, <1>2, <1>3, FramesType DEF Running, Gas
  <2>4. fs \in Seq(Frame)
    BY <1>1, <1>2, <1>3, ChargedFrames
  <2> HIDE DEF fs, f
  <2>5. GasIn(frames') = GasIn(fs) + given
    BY <2>1, <2>2, <2>4, GasAppend
  <2>6. GasIn(frames) \in Int /\ GasIn(fs) = GasIn(frames) - Gas + g
    <3> HIDE DEF g
    <3> QED
      BY <1>2, <2>3, GasChange
  <2> QED
    BY <1>1, <1>2, <1>3, <2>3, <2>5, <2>6
<1> QED
  <2>1. given \in 0 .. given
    BY <1>3
  <2>2. \A err : Refuse(err, to, cost, given) => Charge(cost - given)
    BY DEF Refuse
  <2>3. Immediate(typ, to, value, cost, given) =>
            \E left \in 0 .. given : Charge(cost - left)
    BY <2>1 DEF Immediate
  <2>4. \A out, w, c : Ends(out, w, c) => Charge(c)
    BY DEF Ends
  <2>5. \/ \E out, w : Ends(out, w, 0) \/ Ends(out, w, cost)
        \/ \E err : Refuse(err, to, cost, given)
        \/ Immediate(typ, to, value, cost, given)
        \/ Enter(typ, to, value, cost, given)
    BY DEF Call, cost, given
  <2> QED
    BY <1>4, <1>5, <1>6, <2>1, <2>2, <2>3, <2>4, <2>5

(* Nowhere in a transaction, however its calls are nested and end, is more *)
(* gas handed out than was set aside.                                      *)
THEOREM GasNeverMadeCorrect == Spec => GasNeverMade
<1>1. IInv /\ [Next]_vars => [GasIn(frames') <= GasIn(frames)]_vars
  <2> SUFFICES ASSUME IInv, Next PROVE GasIn(frames') <= GasIn(frames)
    OBVIOUS
  <2>1. TypeOK
    BY DEF IInv
  <2>2. CASE Finished
    <3>1. frames' = frames /\ frames \in Seq(Frame) /\ frames = <<>>
      BY <2>1, <2>2 DEF Finished, vars, TypeOK
    <3>2. GasIn(frames) \in Int
      <4>1. GasIn(frames) = SumOver(GasOf(frames), 1 .. Len(frames))
            /\ GasOf(frames) \in [1 .. Len(frames) -> Nat]
            /\ IsFiniteSet(1 .. Len(frames))
        BY <3>1, GasInIsSum
      <4>2. 1 .. Len(frames) \in SUBSET (1 .. Len(frames))
            /\ GasOf(frames) \in [1 .. Len(frames) -> Int]
        BY <4>1
      <4> QED
        BY <4>1, <4>2, SumRules
    <3> QED
      BY <3>1, <3>2
  <2> QED
    BY <2>1, <2>2, OpcodeGas, CreateGasKept, CallGas, ReturnGas DEF Next
<1> QED
  BY <1>1, InvariantCorrect, PTL DEF Spec, GasNeverMade

(***************************************************************************)
(* Money.                                                                  *)
(***************************************************************************)

Balances == [Accounts -> Int]
Worlds == [balance: Balances, nonce: [Accounts -> 0 .. MaxNonce],
           alive: [Accounts -> BOOLEAN], slot: [Accounts -> 0 .. 1]]

(* One balance changed.                                                    *)
LEMMA BalanceChange ==
    ASSUME NEW b \in Balances, NEW a \in Accounts, NEW v \in Int
    PROVE  /\ SumFunction(b) \in Int
           /\ [b EXCEPT ![a] = v] \in Balances
           /\ SumFunction([b EXCEPT ![a] = v]) = SumFunction(b) - b[a] + v
<1> DEFINE d == [b EXCEPT ![a] = v]
<1>1. b \in [Accounts -> Int] /\ d \in [Accounts -> Int]
  BY DEF Balances
<1>2. DOMAIN b = Accounts /\ DOMAIN d = Accounts
  BY <1>1
<1>3. SumFunction(b) = SumOver(b, Accounts) /\ SumFunction(d) = SumOver(d, Accounts)
  BY <1>2, SumOfFunction
<1>4. SumOver(b, Accounts) \in Int /\ SumOver(d, Accounts) = SumOver(b, Accounts) - b[a] + v
  <2>1. IsFiniteSet(Accounts) /\ d[a] = v /\ \A x \in Accounts : x # a => d[x] = b[x]
    BY <1>1, Constants
  <2> HIDE DEF d
  <2> QED
    BY <1>1, <2>1, SumChange
<1> QED
  BY <1>1, <1>3, <1>4 DEF Balances

LEMMA WorldIsOne ==
    ASSUME NEW w \in World PROVE w \in Worlds /\ SumFunction(w.balance) \in Int
<1>1. w \in Worlds /\ w.balance \in Balances /\ Start \in Accounts /\ 0 \in Int
  BY Constants DEF World, Worlds, Balances
<1> QED
  BY <1>1, BalanceChange

(* What AddBalance and SubBalance do to the sum.                           *)
LEMMA ChangedSum ==
    ASSUME NEW w \in Worlds, NEW a \in Accounts, NEW x \in Int
    PROVE  /\ SumFunction(w.balance) \in Int
           /\ Changed(w, a, x) \in Worlds /\ Changed(w, a, x).alive = w.alive
           /\ SumFunction(Changed(w, a, x).balance) \in Int
           /\ SumFunction(Changed(w, a, x).balance) =
                  SumFunction(w.balance) + (IF MayRead(a, "BALANCE") THEN x ELSE 0)
           /\ Changed(w, a, x).balance[a] =
                  w.balance[a] + (IF MayRead(a, "BALANCE") THEN x ELSE 0)
           /\ \A c \in Accounts : c # a => Changed(w, a, x).balance[c] = w.balance[c]
<1> DEFINE v == w.balance[a] + x
           d == [w.balance EXCEPT ![a] = v]
<1>1. w.balance \in Balances /\ w.balance[a] \in Int /\ v \in Int
  BY DEF Balances, Worlds
<1> HIDE DEF v
<1>2. /\ SumFunction(w.balance) \in Int /\ d \in Balances
      /\ SumFunction(d) = SumFunction(w.balance) - w.balance[a] + v
  BY <1>1, BalanceChange
<1>3. d[a] = v /\ \A c \in Accounts : c # a => d[c] = w.balance[c]
  BY <1>1 DEF Balances
<1>4. CASE MayRead(a, "BALANCE")
  <2>1. Changed(w, a, x) = [w EXCEPT !.balance = d]
    BY <1>4 DEF Changed, v
  <2>2. /\ Changed(w, a, x).balance = d /\ Changed(w, a, x) \in Worlds
        /\ Changed(w, a, x).alive = w.alive
    BY <1>2, <2>1 DEF Worlds
  <2>3. SumFunction(d) = SumFunction(w.balance) + x
    BY <1>1, <1>2 DEF v
  <2> HIDE DEF d
  <2> QED
    BY <1>2, <1>3, <1>4, <2>2, <2>3 DEF v
<1>5. CASE ~ MayRead(a, "BALANCE")
  <2>1. Changed(w, a, x) = w
    BY <1>5 DEF Changed
  <2> QED
    BY <1>1, <1>2, <1>5, <2>1
<1> QED
  BY <1>4, <1>5

(* A transfer makes no money: what the beneficiary gets the sender had     *)
(* been made to pay.                                                       *)
LEMMA TransferMakesNone ==
    ASSUME TypeOK, Running, NEW typ, NEW to \in Accounts, NEW value \in Nat,
           value > 0 => MayRead(Self, "BALANCE")
    PROVE  SumFunction(Transferred(typ, to, value).balance) <= SumFunction(world.balance)
<1>1. world \in Worlds /\ Self \in Accounts /\ SumFunction(world.balance) \in Int
  BY WorldIsOne, FramesType DEF TypeOK, Running
<1>3. CASE typ = "CALL" /\ value > 0
  <2> DEFINE w == Changed(world, Self, - value)
  <2>1. - value \in Int
    OBVIOUS
  <2>2. /\ w \in Worlds /\ SumFunction(w.balance) \in Int
        /\ SumFunction(w.balance) = SumFunction(world.balance) - value
    BY <1>1, <1>3, <2>1, ChangedSum
  <2> HIDE DEF w
  <2>3. /\ SumFunction(Changed(w, to, value).balance) \in Int
        /\ SumFunction(Changed(w, to, value).balance) =
               SumFunction(w.balance) + (IF MayRead(to, "BALANCE") THEN value ELSE 0)
    <3>1. value \in Int
      OBVIOUS
    <3> QED
      BY <2>2, <3>1, ChangedSum
  <2>4. Transferred(typ, to, value) = Changed(w, to, value)
    BY <1>3 DEF Transferred, w
  <2> QED
    BY <1>1, <2>2, <2>3, <2>4
<1>4. CASE ~ (typ = "CALL" /\ value > 0)
  BY <1>1, <1>4 DEF Transferred
<1> QED
  BY <1>3, <1>4

(* A destruction takes the balance away.                                   *)
LEMMA DestroyedSum ==
    ASSUME NEW w \in Worlds, NEW a \in Accounts
    PROVE  /\ SumFunction(Destroyed(w, a).balance) = SumFunction(w.balance) - w.balance[a]
           /\ SumFunction(w.balance) \in Int
<1> DEFINE d == [w.balance EXCEPT ![a] = 0]
<1>1. w.balance \in Balances /\ w.balance[a] \in Int /\ 0 \in Int
  BY DEF Worlds, Balances
<1>2. SumFunction(w.balance) \in Int /\ SumFunction(d) = SumFunction(w.balance) - w.balance[a] + 0
  BY <1>1, BalanceChange
<1>3. Destroyed(w, a).balance = d
  BY DEF Destroyed, Worlds
<1> HIDE DEF d
<1> QED
  BY <1>1, <1>2, <1>3

(* SELFDESTRUCT as a whole.  What the metering destroys is gone; what the  *)
(* beneficiary is paid is what the account then loses, or both are one.    *)
LEMMA DestructMakesNone ==
    ASSUME TypeOK, NEW b \in Accounts, SelfDestruct(b), outcome' # "abort"
    PROVE  SumFunction(world'.balance) <= SumFunction(world.balance)
<1> DEFINE w == MeteredDestruct(b)
           paid == PaidOut(w, b)
           x == w.balance[Self]
<1>1. Running
  BY DEF SelfDestruct
<1>2. world \in World /\ Self \in Accounts
  BY <1>1, FramesType DEF TypeOK, Running
<1>3. world \in Worlds /\ SumFunction(world.balance) \in Int
  BY <1>2, WorldIsOne
<1>4. w \in World /\ paid \in World
  BY <1>1, PaidOutType
<1>5. /\ w \in Worlds /\ SumFunction(w.balance) \in Int
      /\ paid \in Worlds /\ SumFunction(paid.balance) \in Int
  <2> HIDE DEF w, paid
  <2> QED
    BY <1>4, WorldIsOne
<1>6. SumFunction(w.balance) <= SumFunction(world.balance)
  <2>1. CASE load.fork = "Byzantium"
    BY <1>3, <2>1 DEF MeteredDestruct
  <2>2. CASE load.fork # "Byzantium"
    <3>1. w = Destroyed(world, b)
      BY <2>2 DEF MeteredDestruct
    <3>2. world.balance[b] \in Nat
      BY <1>2 DEF World
    <3>3. SumFunction(Destroyed(world, b).balance) = SumFunction(world.balance) - world.balance[b]
      BY <1>3, DestroyedSum
    <3> QED
      BY <1>3, <3>1, <3>2, <3>3
  <2> QED
    BY <2>1, <2>2
<1>7. \/ world' = w
      \/ /\ world' = Destroyed(paid, Self)
         /\ MayPayOut(b)
  BY DEF SelfDestruct, Ends, Goes
<1>8. ASSUME MayPayOut(b)
      PROVE  SumFunction(paid.balance) - paid.balance[Self] <= SumFunction(w.balance)
  <2>1. x \in Nat
    <3> HIDE DEF w
    <3> QED
      BY <1>2, <1>4 DEF World
  <2>2. CASE load.fork = "Cancun"
    <3> DEFINE d == [w.balance EXCEPT ![Self] = 0]
    <3>1. paid = [w EXCEPT !.balance = d]
      BY <2>2 DEF PaidOut
    <3> HIDE DEF w, paid
    <3>2. paid.balance = d /\ d[Self] = 0 /\ w.balance \in Balances /\ 0 \in Int
      BY <1>2, <1>5, <3>1 DEF Worlds, Balances
    <3>3. SumFunction(d) = SumFunction(w.balance) - x + 0
      BY <1>2, <3>2, BalanceChange
    <3> HIDE DEF d, x
    <3> QED
      BY <1>5, <2>1, <3>2, <3>3
  <2>3. CASE load.fork # "Cancun"
    <3>1. paid = Changed(w, b, x)
      BY <2>3 DEF PaidOut
    <3>2. MayRead(b, "BALANCE")
      BY <1>8 DEF MayPayOut, MayChange
    <3> HIDE DEF w, paid
    <3>3. x \in Int /\ w.balance[b] \in Nat
      BY <1>4, <2>1 DEF World
    <3>4. /\ SumFunction(paid.balance) = SumFunction(w.balance) + x
          /\ paid.balance[b] = w.balance[b] + x
          /\ \A c \in Accounts : c # b => paid.balance[c] = w.balance[c]
      <4> HIDE DEF x
      <4>1. /\ SumFunction(Changed(w, b, x).balance) = SumFunction(w.balance) + x
            /\ Changed(w, b, x).balance[b] = w.balance[b] + x
            /\ \A c \in Accounts : c # b => Changed(w, b, x).balance[c] = w.balance[c]
        BY <1>5, <3>2, <3>3, ChangedSum
      <4> QED
        BY <3>1, <4>1
    <3>5. paid.balance[Self] \in Nat
      BY <1>2, <1>4 DEF World
    <3>6. paid.balance[Self] >= x
      BY <1>2, <2>1, <3>3, <3>4
    <3> HIDE DEF x
    <3> QED
      BY <1>5, <2>1, <3>4, <3>5, <3>6
  <2> QED
    BY <2>2, <2>3
<1> HIDE DEF w, paid, x
<1>9. CASE world' = w
  BY <1>6, <1>9
<1>10. CASE world' = Destroyed(paid, Self) /\ MayPayOut(b)
  <2>1. SumFunction(world'.balance) = SumFunction(paid.balance) - paid.balance[Self]
    <3>1. SumFunction(Destroyed(paid, Self).balance) = SumFunction(paid.balance) - paid.balance[Self]
      BY <1>2, <1>5, DestroyedSum
    <3> QED
      BY <1>10, <3>1
  <2>2. paid.balance[Self] \in Nat
    BY <1>2, <1>4 DEF World
  <2> QED
    BY <1>3, <1>5, <1>6, <1>8, <1>10, <2>1, <2>2
<1> QED
  BY <1>7, <1>9, <1>10

(* Nor does any other step.                                                *)
LEMMA MoneyStep ==
    ASSUME TypeOK, [Next]_vars, outcome' # "abort"
    PROVE  SumFunction(world'.balance) <= SumFunction(world.balance)
<1>1. world \in World /\ SumFunction(world.balance) \in Int
  BY WorldIsOne DEF TypeOK
<1>2. CASE world'.balance = world.balance
  BY <1>1, <1>2
<1>3. CASE UNCHANGED vars \/ Finished \/ Return \/ Halt
  BY <1>2, <1>3 DEF vars, Finished, Return, Halt, Ends
<1>4. CASE SStore
  <2>1. world' = world \/ world' = [world EXCEPT !.slot[Self] = 1 - @]
    BY <1>4 DEF SStore, Ends
  <2> QED
    BY <1>1, <1>2, <2>1 DEF World
<1>5. ASSUME NEW a \in Accounts, NEW f \in Fields, Read(a, f) PROVE world' = world
  BY <1>5 DEF Read, Ends
<1>6. ASSUME NEW typ, NEW new, NEW value, Create(typ, new, value)
      PROVE  world'.balance = world.balance
  <2>1. world' = world \/ world' = [world EXCEPT !.nonce[Self] = world.nonce[Self] + 1]
    BY <1>6 DEF Create, Ends, Refuse
  <2> QED
    BY <1>1, <2>1 DEF World
<1>7. ASSUME NEW typ \in CallTypes, NEW to \in Accounts, NEW value \in 0 .. 1, NEW temp,
             Call(typ, to, value, temp)
      PROVE  SumFunction(world'.balance) <= SumFunction(world.balance)
  <2>1. Running /\ value \in Nat
    BY <1>7 DEF Call
  <2>2. \/ world' = world
        \/ /\ value > 0 => MayRead(Self, "BALANCE")
           /\ world' = Transferred(typ, to, value)
    BY <1>7 DEF Call, Ends, Refuse, Immediate, Enter, Goes
  <2> QED
    BY <1>2, <2>1, <2>2, TransferMakesNone
<1> QED
  BY <1>2, <1>3, <1>4, <1>5, <1>6, <1>7, DestructMakesNone DEF Next

(* Whatever is transferred, to whom, and destroyed, how often and for      *)
(* whose benefit, a step that does not abort leaves no more money than     *)
(* there was.                                                              *)
THEOREM NoMoneyMadeCorrect == Spec => NoMoneyMade
<1>1. IInv /\ [Next]_vars =>
          [outcome' # "abort" => SumFunction(world'.balance) <= SumFunction(world.balance)]_vars
  BY MoneyStep DEF IInv
<1> QED
  BY <1>1, InvariantCorrect, PTL DEF Spec, NoMoneyMade
=============================================================================
