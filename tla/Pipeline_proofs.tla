-------------------------- MODULE Pipeline_proofs ---------------------------
(* Proofs about the four lines as goroutines and the version chains under  *)
(* them, for every batch, any number of blocks and of processors; and that *)
(* they implement Execution.                                               *)
EXTENDS Pipeline, Execution_proofs, SequenceTheorems

(***************************************************************************)
(* Blocks and positions.                                                   *)
(***************************************************************************)

(* The blocks are numbered from 0, and END is none of them.                *)
LEMMA BlockNumbers ==
    /\ NBlocks \in Nat
    /\ \A b \in Blocks : b \in Nat /\ b < NBlocks
    /\ \A b \in Nat : b < NBlocks => b \in Blocks
    /\ END \notin Blocks /\ END \in Int
    /\ \A t \in Tasks : /\ Block[t] \in Blocks /\ Block[t] \in Nat /\ Block[t] < NBlocks
<1>1. IsFiniteSet(Tasks)
  BY NTasksAssumption, FS_Interval DEF Tasks
<1>2. IsFiniteSet(Blocks)
  <2>1. Block \in Surjection(Tasks, Blocks)
    BY BlockAssumption DEF Surjection, Blocks
  <2> QED
    BY <1>1, <2>1, FS_Surjection
<1>3. NBlocks \in Nat
  BY <1>2, FS_CardinalityType DEF NBlocks
<1>4. \A b : b \in Blocks <=> b \in 0 .. NBlocks - 1
  BY BlocksAssumption
<1>5. \A t \in Tasks : Block[t] \in Blocks
  BY DEF Blocks
<1> QED
  BY <1>3, <1>4, <1>5 DEF END

(* The lines by name.                                                      *)
LEMMA LineNames ==
    /\ GVCLine = 1 /\ GraphLine = 2 /\ ScheduleLine = 3 /\ ExecuteLine = 4
    /\ \A l : l \in Lines <=> l \in {1, 2, 3, 4}
    /\ \A l \in Lines : l \in Int /\ (l # 1 => l - 1 \in Lines) /\ (l # 4 => l + 1 \in Lines)
  BY DEF GVCLine, GraphLine, ScheduleLine, ExecuteLine, Lines

(* The types of what the lines alone change.                               *)
LineTypeOK ==
    /\ chan \in [Lines -> Seq(Blocks \cup {END})]
    /\ closed \in SUBSET Lines
    /\ at \in [Lines -> {"range", "working", "sending", "closing", "gone"}]
    /\ holding \in [Lines -> Blocks \cup {END}]
    /\ wg \in 0 .. 4
    /\ returned \in BOOLEAN

(* How far a line can be.                                                  *)
LEMMA Positions ==
    ASSUME LineTypeOK, EndInv, NEW l \in Lines
    PROVE  /\ Taken(l) \in 0 .. NBlocks + 1
           /\ at[l] \in {"working", "sending"} => Taken(l) >= 1
           /\ Handled(l) \in 0 .. NBlocks + 1
           /\ Passed(l) \in 0 .. NBlocks + 1
           /\ Passed(l) <= Handled(l) /\ Handled(l) <= Taken(l) /\ Taken(l) <= Passed(l) + 1
           /\ at[l] = "working" => /\ holding[l] \in Blocks /\ holding[l] \in Nat
                                   /\ holding[l] = Handled(l) /\ Handled(l) < NBlocks
<1>1. /\ holding[l] \in Blocks \cup {END}
      /\ at[l] \in {"range", "working", "sending", "closing", "gone"}
      /\ at[l] = "working" => holding[l] # END
  BY DEF LineTypeOK, EndInv
<1>2. /\ NBlocks \in Nat
      /\ holding[l] # END => holding[l] \in Nat /\ holding[l] < NBlocks /\ holding[l] \in Blocks
  BY <1>1, BlockNumbers
<1> QED
  BY <1>1, <1>2 DEF Taken, Handled, Passed

(***************************************************************************)
(* What the lines do to their channels.                                    *)
(***************************************************************************)

(* The work on a message is over.                                          *)
WorkDone(l) ==
    /\ at[l] = "working"
    /\ Goto(l, IF l = ExecuteLine THEN "range" ELSE "sending")
    /\ UNCHANGED <<chan, closed, holding, wg, returned>>

(* Every step, as the lines see it.                                        *)
LEMMA LineShapes ==
    ASSUME [PipelineNext]_allVars
    PROVE  \/ UNCHANGED <<chan, closed, at, holding, wg, returned>>
           \/ \E l \in Lines : WorkDone(l) \/ Receive(l) \/ Send(l) \/ CloseAndDone(l)
           \/ Wait
<1>1. CASE UNCHANGED allVars
  BY <1>1 DEF allVars, lineVars
<1>2. CASE \E l \in Lines : LineStep(l)
  BY <1>2 DEF LineStep
<1>3. ASSUME NEW l \in {GVCLine, GraphLine, ScheduleLine}, Worked(l)
      PROVE  l \in Lines /\ WorkDone(l)
  BY <1>3, LineNames DEF Worked, Working, WorkDone
<1>4. CASE GVCStep \/ LinkGraph \/ Schedule
  <2>1. CASE Worked(GVCLine) \/ Worked(GraphLine) \/ Worked(ScheduleLine)
    BY <1>3, <2>1
  <2> QED
    BY <1>4, <2>1 DEF GVCStep, TransferRead, TransferWrite, Install, Transferred, LinkGraph,
       Schedule, lineVars
<1>5. CASE Executed
  BY <1>5, LineNames DEF Executed, Working, WorkDone
<1>6. CASE \E t \in Tasks : Process(t) \/ Get(t)
  BY <1>6 DEF Process, Get, lineVars
<1> QED
  BY <1>1, <1>2, <1>4, <1>5, <1>6 DEF PipelineNext, Ready

(* How the positions move when the work on a message is over.              *)
LEMMA DoneMoves ==
    ASSUME LineTypeOK, EndInv, NEW l \in Lines, WorkDone(l)
    PROVE  /\ \A m \in Lines :
                 /\ Taken(m)' = Taken(m)
                 /\ m # ExecuteLine => Passed(m)' = Passed(m)
                 /\ Handled(m)' = IF m = l THEN Handled(m) + 1 ELSE Handled(m)
           /\ at' = [at EXCEPT ![l] = IF l = ExecuteLine THEN "range" ELSE "sending"]
<1>1. /\ at' = [at EXCEPT ![l] = IF l = ExecuteLine THEN "range" ELSE "sending"]
      /\ holding' = holding /\ at[l] = "working" /\ holding[l] # END
  BY DEF WorkDone, Goto, EndInv
<1>2. \A m \in Lines : at'[m] = IF m # l THEN at[m] ELSE IF l = ExecuteLine THEN "range" ELSE "sending"
  BY <1>1 DEF LineTypeOK
<1>3. holding[l] \in Nat
  BY <1>1, BlockNumbers DEF LineTypeOK
<1> QED
  BY <1>1, <1>2, <1>3 DEF Taken, Passed, Handled

(* A line that ranges finds a message, the next one: its channel is not    *)
(* closed before END is in it.                                             *)
LEMMA ReceivesNext ==
    ASSUME LineTypeOK, StreamInv, EndInv, NEW l \in Lines, Receive(l)
    PROVE  /\ chan[l] # <<>>
           /\ Head(chan[l]) = Stream(Taken(l))
           /\ Taken(l) <= NBlocks
           /\ at[l] = "range"
<1>1. /\ at[l] = "range" /\ (chan[l] # <<>> \/ l \in closed)
      /\ chan[l] \in Seq(Blocks \cup {END})
      /\ holding[l] \in Blocks \cup {END}
  BY DEF Receive, LineTypeOK
<1>2. Taken(l) \in 0 .. NBlocks
  BY <1>1, BlockNumbers DEF Taken
<1>3. Len(chan[l]) = Produced(l) - Taken(l)
  BY DEF StreamInv
<1>4. chan[l] # <<>>
  <2> SUFFICES ASSUME chan[l] = <<>> PROVE FALSE
    OBVIOUS
  <2>1. Len(chan[l]) = 0 /\ l \in closed
    BY <1>1
  <2>2. CASE l = GVCLine
    BY <1>2, <1>3, <2>1, <2>2, BlockNumbers DEF Produced
  <2>3. CASE l # GVCLine
    <3>1. l - 1 \in Lines /\ at[l - 1] = "gone" /\ holding[l - 1] = END
      BY <2>1, <2>3, LineNames DEF EndInv
    <3>2. Produced(l) = NBlocks + 1
      BY <2>3, <3>1 DEF Produced, Passed, Taken
    <3> QED
      BY <1>2, <1>3, <2>1, <3>2, BlockNumbers
  <2> QED
    BY <2>2, <2>3
<1>5. Len(chan[l]) \in Nat /\ Len(chan[l]) >= 1
  BY <1>1, <1>4, EmptySeq
<1>6. Head(chan[l]) = Stream(Taken(l))
  <2>1. Head(chan[l]) = chan[l][1]
    BY <1>1, <1>4
  <2>2. chan[l][1] = Stream(Taken(l) + 1 - 1)
    BY <1>5 DEF StreamInv
  <2> QED
    BY <1>2, <2>1, <2>2, BlockNumbers
<1> QED
  BY <1>1, <1>2, <1>4, <1>6, BlockNumbers

(* How the positions move when a line takes a message.                     *)
LEMMA ReceiveMoves ==
    ASSUME LineTypeOK, StreamInv, EndInv, NEW l \in Lines, Receive(l)
    PROVE  /\ \A m \in Lines :
                 /\ Taken(m)' = IF m = l THEN Taken(m) + 1 ELSE Taken(m)
                 /\ m # ExecuteLine => Passed(m)' = Passed(m)
                 /\ Handled(m)' = IF m = l /\ Taken(m) = NBlocks THEN Handled(m) + 1 ELSE Handled(m)
           /\ chan' = [chan EXCEPT ![l] = Tail(@)]
           /\ holding' = [holding EXCEPT ![l] = Stream(Taken(l))]
           /\ at' = [at EXCEPT ![l] = IF Stream(Taken(l)) # END THEN "working"
                                      ELSE IF l = ExecuteLine THEN "closing" ELSE "sending"]
           /\ closed' = closed /\ wg' = wg /\ returned' = returned
<1>1. /\ chan[l] # <<>> /\ Head(chan[l]) = Stream(Taken(l)) /\ Taken(l) <= NBlocks
      /\ at[l] = "range"
  BY ReceivesNext
<1>2. /\ chan' = [chan EXCEPT ![l] = Tail(@)]
      /\ holding' = [holding EXCEPT ![l] = Stream(Taken(l))]
      /\ at' = [at EXCEPT ![l] = IF Stream(Taken(l)) # END THEN "working"
                                 ELSE IF l = ExecuteLine THEN "closing" ELSE "sending"]
      /\ closed' = closed /\ wg' = wg /\ returned' = returned
  BY <1>1 DEF Receive, Goto
<1>3. \A m \in Lines : m # l => holding'[m] = holding[m] /\ at'[m] = at[m]
  BY <1>2 DEF LineTypeOK
<1>4. /\ holding'[l] = Stream(Taken(l))
      /\ at'[l] = IF Stream(Taken(l)) # END THEN "working"
                  ELSE IF l = ExecuteLine THEN "closing" ELSE "sending"
  BY <1>2 DEF LineTypeOK
<1>5. Taken(l) \in 0 .. NBlocks + 1
  BY Positions
<1>6. \A m \in Lines : m # l => /\ Taken(m)' = Taken(m) /\ Passed(m)' = Passed(m)
                                /\ Handled(m)' = Handled(m)
  BY <1>3 DEF Taken, Passed, Handled
<1>7. CASE Taken(l) < NBlocks
  <2>1. Stream(Taken(l)) = Taken(l) /\ Stream(Taken(l)) # END
    BY <1>5, <1>7 DEF Stream, END
  <2>2. Taken(l)' = Taken(l) + 1 /\ Passed(l)' = Taken(l) /\ Handled(l)' = Taken(l)
    BY <1>4, <1>5, <2>1 DEF Taken, Passed, Handled
  <2>3. Passed(l) = Taken(l) /\ Handled(l) = Taken(l)
    BY <1>1 DEF Passed, Handled
  <2> QED
    BY <1>2, <1>5, <1>6, <1>7, <2>2, <2>3
<1>8. CASE Taken(l) = NBlocks
  <2>1. Stream(Taken(l)) = END
    BY <1>8, BlockNumbers DEF Stream
  <2>2. /\ holding'[l] = END /\ at'[l] # "range" /\ at'[l] # "working"
        /\ l # ExecuteLine => at'[l] = "sending"
    BY <1>4, <2>1
  <2>3. Taken(l)' = NBlocks + 1 /\ Handled(l)' = NBlocks + 1
    BY <2>2 DEF Taken, Handled
  <2>4. l # ExecuteLine => Passed(l)' = NBlocks
    BY <2>2, <2>3, BlockNumbers DEF Passed
  <2>5. Passed(l) = Taken(l) /\ Handled(l) = Taken(l)
    BY <1>1 DEF Passed, Handled
  <2> QED
    BY <1>2, <1>6, <1>8, <2>3, <2>4, <2>5
<1> QED
  BY <1>1, <1>5, <1>7, <1>8, BlockNumbers

(* How they move when it sends one, and when it leaves.                    *)
LEMMA SendMoves ==
    ASSUME LineTypeOK, EndInv, NEW l \in Lines, Send(l)
    PROVE  /\ l # ExecuteLine
           /\ \A m \in Lines :
                 /\ Taken(m)' = Taken(m) /\ Handled(m)' = Handled(m)
                 /\ Passed(m)' = IF m = l THEN Passed(m) + 1 ELSE Passed(m)
           /\ holding[l] = Stream(Passed(l))
           /\ at' = [at EXCEPT ![l] = IF holding[l] = END THEN "closing" ELSE "range"]
<1>1. /\ at[l] = "sending" /\ holding' = holding
      /\ at' = [at EXCEPT ![l] = IF holding[l] = END THEN "closing" ELSE "range"]
  BY DEF Send, Goto
<1>2. l # ExecuteLine
  BY <1>1 DEF EndInv
<1>3. \A m \in Lines : at'[m] = IF m # l THEN at[m] ELSE IF holding[l] = END THEN "closing" ELSE "range"
  BY <1>1 DEF LineTypeOK
<1>4. holding[l] # END => holding[l] \in Nat /\ holding[l] < NBlocks
  BY BlockNumbers DEF LineTypeOK
<1>5. holding[l] = Stream(Passed(l))
  BY <1>1, <1>4, BlockNumbers DEF Stream, Passed, Taken
<1>6. \A m \in Lines : m # l => /\ Taken(m)' = Taken(m) /\ Passed(m)' = Passed(m)
                                /\ Handled(m)' = Handled(m)
  BY <1>1, <1>3 DEF Taken, Passed, Handled
<1>7. Taken(l)' = Taken(l) /\ Handled(l)' = Handled(l) /\ Passed(l)' = Passed(l) + 1
  BY <1>1, <1>3, <1>4, BlockNumbers DEF Taken, Passed, Handled
<1> QED
  BY <1>1, <1>2, <1>5, <1>6, <1>7

(* A line that leaves stays where it is in the stream.                     *)
LEMMA CloseMoves ==
    ASSUME LineTypeOK, EndInv, NEW l \in Lines, CloseAndDone(l)
    PROVE  /\ \A m \in Lines : /\ Taken(m)' = Taken(m) /\ Handled(m)' = Handled(m)
                               /\ Passed(m)' = Passed(m)
           /\ at' = [at EXCEPT ![l] = "gone"]
           /\ at[l] = "closing"
<1>1. at[l] = "closing" /\ holding' = holding /\ at' = [at EXCEPT ![l] = "gone"]
  BY DEF CloseAndDone, Goto
<1>2. \A m \in Lines : at'[m] = IF m # l THEN at[m] ELSE "gone"
  BY <1>1 DEF LineTypeOK
<1> QED
  BY <1>1, <1>2 DEF Taken, Passed, Handled

(* The stream stays in order.                                              *)
LEMMA NextStream ==
    ASSUME LineTypeOK, StreamInv, EndInv, [PipelineNext]_allVars
    PROVE  /\ StreamInv'
           /\ chan' \in [Lines -> Seq(Blocks \cup {END})]
<1> DEFINE Msg == Blocks \cup {END}
<1>0. /\ chan \in [Lines -> Seq(Msg)]
      /\ \A m \in Lines : chan[m] \in Seq(Msg)
      /\ \A m \in Lines : Taken(m) \in Int /\ Passed(m) \in Int /\ Produced(m) \in Int
  <2>1. \A m \in Lines : Taken(m) \in Int /\ Passed(m) \in Int
    BY Positions
  <2> QED
    BY <2>1, BlockNumbers, LineNames DEF LineTypeOK, Produced
<1> HIDE DEF Msg
<1>1. CASE UNCHANGED <<chan, closed, at, holding, wg, returned>> \/ Wait
  BY <1>0, <1>1 DEF Wait, StreamInv, Produced, Taken, Passed, Msg
<1>2. ASSUME NEW l \in Lines, WorkDone(l) PROVE StreamInv' /\ chan' \in [Lines -> Seq(Msg)]
  <2>1. chan' = chan
    BY <1>2 DEF WorkDone
  <2>2. \A m \in Lines : Taken(m)' = Taken(m) /\ Produced(m)' = Produced(m)
    BY <1>2, DoneMoves, LineNames DEF Produced
  <2> QED
    BY <1>0, <2>1, <2>2 DEF StreamInv
<1>3. ASSUME NEW l \in Lines, CloseAndDone(l) PROVE StreamInv' /\ chan' \in [Lines -> Seq(Msg)]
  <2>1. chan' = chan
    BY <1>3 DEF CloseAndDone
  <2>2. \A m \in Lines : Taken(m)' = Taken(m) /\ Produced(m)' = Produced(m)
    BY <1>3, CloseMoves, LineNames DEF Produced
  <2> QED
    BY <1>0, <2>1, <2>2 DEF StreamInv
<1>4. ASSUME NEW l \in Lines, Receive(l) PROVE StreamInv' /\ chan' \in [Lines -> Seq(Msg)]
  <2>1. /\ chan' = [chan EXCEPT ![l] = Tail(@)] /\ chan[l] # <<>>
        /\ \A m \in Lines : Taken(m)' = IF m = l THEN Taken(m) + 1 ELSE Taken(m)
        /\ \A m \in Lines : Produced(m)' = Produced(m)
    BY <1>4, ReceiveMoves, ReceivesNext, LineNames DEF Produced
  <2>2. /\ Tail(chan[l]) \in Seq(Msg) /\ Len(Tail(chan[l])) = Len(chan[l]) - 1
        /\ Len(chan[l]) \in Nat
        /\ \A i \in 1 .. Len(Tail(chan[l])) : Tail(chan[l])[i] = chan[l][i + 1]
    BY <1>0, <2>1, HeadTailProperties, LenProperties
  <2>3. chan' \in [Lines -> Seq(Msg)]
    BY <1>0, <2>1, <2>2
  <2>4. \A m \in Lines : chan'[m] = IF m = l THEN Tail(chan[m]) ELSE chan[m]
    BY <1>0, <2>1
  <2>5. Len(Tail(chan[l])) = Produced(l) - (Taken(l) + 1)
    BY <1>0, <2>2 DEF StreamInv
  <2>6. ASSUME NEW i \in 1 .. Len(Tail(chan[l]))
        PROVE  Tail(chan[l])[i] = Stream(Taken(l) + 1 + i - 1)
    <3>1. i + 1 \in 1 .. Len(chan[l]) /\ Taken(l) + (i + 1) - 1 = Taken(l) + 1 + i - 1
      BY <1>0, <2>2
    <3> QED
      BY <2>2, <3>1 DEF StreamInv
  <2>7. ASSUME NEW m \in Lines
        PROVE  /\ Len(chan'[m]) = Produced(m)' - Taken(m)'
               /\ \A i \in 1 .. Len(chan'[m]) : chan'[m][i] = Stream(Taken(m)' + i - 1)
    BY <2>1, <2>4, <2>5, <2>6 DEF StreamInv
  <2>8. \A i : Stream(i)' = Stream(i)
    BY DEF Stream, NBlocks
  <2> QED
    BY <2>3, <2>7, <2>8 DEF StreamInv
<1>5. ASSUME NEW l \in Lines, Send(l) PROVE StreamInv' /\ chan' \in [Lines -> Seq(Msg)]
  <2> DEFINE n == l + 1
             c == chan[l + 1]
  <2>1. /\ chan' = [chan EXCEPT ![n] = Append(@, holding[l])]
        /\ l # ExecuteLine
        /\ holding[l] = Stream(Passed(l)) /\ holding[l] \in Msg
        /\ \A m \in Lines : /\ Taken(m)' = Taken(m)
                            /\ Passed(m)' = IF m = l THEN Passed(m) + 1 ELSE Passed(m)
    BY <1>5, SendMoves DEF Send, LineTypeOK, Msg
  <2>2. n \in Lines /\ n # GVCLine /\ n - 1 = l
    <3>1. l \in {1, 2, 3}
      BY <2>1, LineNames
    <3>2. l + 1 \in {2, 3, 4} /\ (l + 1) - 1 = l
      BY <3>1
    <3> QED
      BY <3>2, LineNames
  <2>3. \A m \in Lines : Produced(m)' = IF m = n THEN Produced(m) + 1 ELSE Produced(m)
    <3>1. \A m \in Lines : m # GVCLine => m - 1 \in Lines /\ (m - 1 = l <=> m = n)
      BY LineNames
    <3> HIDE DEF n
    <3> QED
      BY <2>1, <2>2, <3>1 DEF Produced
  <2>4. Produced(n) = Passed(l)
    BY <2>2 DEF Produced
  <2> HIDE DEF n, c
  <2>5. /\ c \in Seq(Msg) /\ c = chan[n] /\ Len(c) \in Nat
        /\ Append(c, holding[l]) \in Seq(Msg)
        /\ Len(Append(c, holding[l])) = Len(c) + 1
        /\ \A i \in 1 .. Len(c) : Append(c, holding[l])[i] = c[i]
        /\ Append(c, holding[l])[Len(c) + 1] = holding[l]
    <3>1. c \in Seq(Msg) /\ c = chan[n]
      BY <1>0, <2>2 DEF c, n
    <3> QED
      BY <2>1, <3>1, AppendProperties, LenProperties
  <2>6. chan' = [chan EXCEPT ![n] = Append(c, holding[l])]
    BY <2>1, <2>5
  <2>7. /\ chan' \in [Lines -> Seq(Msg)]
        /\ \A m \in Lines : chan'[m] = IF m = n THEN Append(c, holding[l]) ELSE chan[m]
    BY <1>0, <2>2, <2>5, <2>6
  <2>8. /\ Len(c) = Produced(n) - Taken(n)
        /\ \A i \in 1 .. Len(c) : c[i] = Stream(Taken(n) + i - 1)
    BY <2>2, <2>5 DEF StreamInv
  <2>9. ASSUME NEW i \in 1 .. Len(c) + 1
        PROVE  Append(c, holding[l])[i] = Stream(Taken(n) + i - 1)
    <3>1. CASE i \in 1 .. Len(c)
      BY <2>5, <2>8, <3>1
    <3>2. CASE i = Len(c) + 1
      <4>1. Taken(n) + (Len(c) + 1) - 1 = Passed(l)
        BY <1>0, <2>2, <2>4, <2>5, <2>8
      <4> QED
        BY <2>1, <2>5, <3>2, <4>1
    <3> QED
      BY <2>5, <3>1, <3>2
  <2>10. ASSUME NEW m \in Lines
         PROVE  /\ Len(chan'[m]) = Produced(m)' - Taken(m)'
                /\ \A i \in 1 .. Len(chan'[m]) : chan'[m][i] = Stream(Taken(m)' + i - 1)
    <3>1. CASE m = n
      BY <1>0, <2>1, <2>2, <2>3, <2>5, <2>7, <2>8, <2>9, <3>1
    <3>2. CASE m # n
      BY <2>1, <2>3, <2>7, <3>2 DEF StreamInv
    <3> QED
      BY <3>1, <3>2
  <2>11. \A i : Stream(i)' = Stream(i)
    BY DEF Stream, NBlocks
  <2> QED
    BY <2>7, <2>10, <2>11 DEF StreamInv
<1> QED
  BY <1>1, <1>2, <1>3, <1>4, <1>5, LineShapes DEF Msg

(* A line that has not left counts.                                        *)
LEMMA StayingLines ==
    ASSUME NEW S \in SUBSET Lines, NEW l \in S
    PROVE  /\ IsFiniteSet(S)
           /\ Cardinality(S) \in 1 .. 4
           /\ Cardinality(S \ {l}) = Cardinality(S) - 1
<1>1. IsFiniteSet(Lines) /\ Cardinality(Lines) = 4
  <2>1. ASSUME NEW a \in Int, NEW b \in Int, a = 1, b = 4
        PROVE  IsFiniteSet(a .. b) /\ Cardinality(a .. b) = 4
    <3>1. /\ IsFiniteSet(a .. b)
          /\ Cardinality(a .. b) = IF a > b THEN 0 ELSE b - a + 1
      BY FS_Interval, Zenon
    <3>2. ~ (a > b) /\ b - a + 1 = 4
      BY <2>1
    <3> QED
      BY <3>1, <3>2, Zenon
  <2>2. 1 \in Int /\ 4 \in Int
    OBVIOUS
  <2>3. IsFiniteSet(1 .. 4) /\ Cardinality(1 .. 4) = 4
    BY <2>1, <2>2, Zenon
  <2> QED
    BY <2>3 DEF Lines
<1>2. IsFiniteSet(S) /\ Cardinality(S) <= 4
  BY <1>1, FS_Subset
<1>3. Cardinality(S) \in Nat /\ Cardinality(S) # 0
  BY <1>2, FS_CardinalityType, FS_EmptySet
<1>4. Cardinality(S \ {l}) = Cardinality(S) - 1
  BY <1>2, FS_RemoveElement
<1> QED
  BY <1>2, <1>3, <1>4

(* END stays last, and a channel is closed once, by the line before it.    *)
LEMMA NextEnd ==
    ASSUME LineTypeOK, StreamInv, EndInv, [PipelineNext]_allVars
    PROVE  EndInv' /\ LineTypeOK'
<1> DEFINE Staying == {l \in Lines : at[l] # "gone"}
<1>0. /\ chan' \in [Lines -> Seq(Blocks \cup {END})]
      /\ UNCHANGED Blocks
  BY NextStream DEF Blocks
<1>1. CASE UNCHANGED <<chan, closed, at, holding, wg, returned>>
  BY <1>1 DEF LineTypeOK, EndInv
<1>2. CASE Wait
  <2>1. /\ wg = 0 /\ returned' = TRUE
        /\ UNCHANGED <<chan, closed, at, holding, wg>>
    BY <1>2 DEF Wait
  <2>2. \A l \in Lines : at[l] = "gone"
    <3>1. Staying \in SUBSET Lines /\ Cardinality(Staying) = 0
      BY <2>1 DEF EndInv
    <3> HIDE DEF Staying
    <3>2. ASSUME NEW l \in Staying PROVE FALSE
      <4>1. Cardinality(Staying) \in 1 .. 4
        BY <3>1, StayingLines
      <4> QED
        BY <3>1, <4>1
    <3> QED
      BY <3>2 DEF Staying
  <2> QED
    BY <2>1, <2>2 DEF LineTypeOK, EndInv
<1>3. ASSUME NEW l \in Lines, WorkDone(l) PROVE EndInv' /\ LineTypeOK'
  <2>1. /\ at' = [at EXCEPT ![l] = IF l = ExecuteLine THEN "range" ELSE "sending"]
        /\ at[l] = "working"
        /\ UNCHANGED <<chan, closed, holding, wg, returned>>
    BY <1>3 DEF WorkDone, Goto
  <2>2. \A m \in Lines : at'[m] = IF m # l THEN at[m] ELSE IF l = ExecuteLine THEN "range" ELSE "sending"
    BY <2>1 DEF LineTypeOK
  <2>3. {m \in Lines : at'[m] # "gone"} = Staying
    BY <2>1, <2>2
  <2>4. \A m \in Lines : m # GVCLine => (at'[m - 1] = "gone" <=> at[m - 1] = "gone")
    BY <2>1, <2>2, LineNames
  <2>5. returned = FALSE
    BY <2>1 DEF EndInv, LineTypeOK
  <2>6. at'[ExecuteLine] # "sending"
    BY <2>2, LineNames DEF EndInv
  <2>7. EndInv'
    BY <2>1, <2>2, <2>3, <2>4, <2>5, <2>6 DEF EndInv
  <2>8. LineTypeOK'
    BY <2>1, <2>2 DEF LineTypeOK
  <2> QED
    BY <2>7, <2>8
<1>4. ASSUME NEW l \in Lines, Receive(l) PROVE EndInv' /\ LineTypeOK'
  <2>1. /\ holding' = [holding EXCEPT ![l] = Stream(Taken(l))]
        /\ at' = [at EXCEPT ![l] = IF Stream(Taken(l)) # END THEN "working"
                                   ELSE IF l = ExecuteLine THEN "closing" ELSE "sending"]
        /\ closed' = closed /\ wg' = wg /\ returned' = returned
        /\ at[l] = "range"
    BY <1>4, ReceiveMoves, ReceivesNext
  <2>2. \A m \in Lines :
            /\ at'[m] = IF m # l THEN at[m] ELSE IF Stream(Taken(l)) # END THEN "working"
                                   ELSE IF l = ExecuteLine THEN "closing" ELSE "sending"
            /\ holding'[m] = IF m # l THEN holding[m] ELSE Stream(Taken(l))
    BY <2>1 DEF LineTypeOK
  <2>3. {m \in Lines : at'[m] # "gone"} = Staying
    BY <2>1, <2>2
  <2>4. \A m \in Lines : m # GVCLine => (at'[m - 1] = "gone" <=> at[m - 1] = "gone")
    BY <2>1, <2>2, LineNames
  <2>5. returned = FALSE
    BY <2>1 DEF EndInv, LineTypeOK
  <2>6. at'[ExecuteLine] # "sending"
    BY <2>2, LineNames DEF EndInv
  <2>7. EndInv'
    BY <2>1, <2>2, <2>3, <2>4, <2>5, <2>6 DEF EndInv
  <2>8. Stream(Taken(l)) \in Blocks \cup {END}
    BY Positions, BlockNumbers DEF Stream
  <2>9. LineTypeOK'
    BY <1>0, <2>1, <2>2, <2>8 DEF LineTypeOK
  <2> QED
    BY <2>7, <2>9
<1>5. ASSUME NEW l \in Lines, Send(l) PROVE EndInv' /\ LineTypeOK'
  <2>1. /\ at' = [at EXCEPT ![l] = IF holding[l] = END THEN "closing" ELSE "range"]
        /\ at[l] = "sending" /\ l # ExecuteLine
        /\ UNCHANGED <<closed, holding, wg, returned>>
    BY <1>5, SendMoves DEF Send
  <2>2. \A m \in Lines : at'[m] = IF m # l THEN at[m] ELSE IF holding[l] = END THEN "closing" ELSE "range"
    BY <2>1 DEF LineTypeOK
  <2>3. {m \in Lines : at'[m] # "gone"} = Staying
    BY <2>1, <2>2
  <2>4. \A m \in Lines : m # GVCLine => (at'[m - 1] = "gone" <=> at[m - 1] = "gone")
    BY <2>1, <2>2, LineNames
  <2>5. returned = FALSE
    BY <2>1 DEF EndInv, LineTypeOK
  <2>6. at'[ExecuteLine] # "sending"
    BY <2>1, <2>2, LineNames DEF EndInv
  <2>7. EndInv'
    BY <2>1, <2>2, <2>3, <2>4, <2>5, <2>6 DEF EndInv
  <2>8. LineTypeOK'
    BY <1>0, <2>1, <2>2 DEF LineTypeOK
  <2> QED
    BY <2>7, <2>8
<1>6. ASSUME NEW l \in Lines, CloseAndDone(l) PROVE EndInv' /\ LineTypeOK'
  <2>1. /\ at' = [at EXCEPT ![l] = "gone"]
        /\ at[l] = "closing"
        /\ closed' = IF l = ExecuteLine THEN closed ELSE closed \cup {l + 1}
        /\ wg' = wg - 1
        /\ UNCHANGED <<chan, holding, returned>>
    BY <1>6 DEF CloseAndDone, Goto
  <2>2. \A m \in Lines : at'[m] = IF m # l THEN at[m] ELSE "gone"
    BY <2>1 DEF LineTypeOK
  <2>3. {m \in Lines : at'[m] # "gone"} = Staying \ {l}
    BY <2>2
  <2>4. /\ l \in Staying /\ Staying \in SUBSET Lines /\ wg = Cardinality(Staying)
    BY <2>1 DEF EndInv
  <2> HIDE DEF Staying
  <2>5. wg' = Cardinality(Staying \ {l}) /\ wg' \in 0 .. 4
    BY <2>1, <2>4, StayingLines
  <2>6. ASSUME NEW m \in Lines
        PROVE  m \in closed' <=> m = GVCLine \/ at'[m - 1] = "gone"
    <3>1. CASE m = GVCLine
      BY <2>1, <3>1 DEF EndInv
    <3>2. CASE m # GVCLine
      <4>1. m - 1 \in Lines /\ (m - 1 = l <=> m = l + 1) /\ (m - 1 = l => l # ExecuteLine)
        BY <3>2, LineNames
      <4> QED
        BY <2>1, <2>2, <3>2, <4>1 DEF EndInv
    <3> QED
      BY <3>1, <3>2
  <2>7. returned = FALSE
    BY <2>1 DEF EndInv, LineTypeOK
  <2>8. EndInv'
    <3>1. \A m \in Lines :
             /\ at'[m] = "working" => holding'[m] # END
             /\ at'[m] \in {"closing", "gone"} => holding'[m] = END
      BY <2>1, <2>2 DEF EndInv
    <3>2. at'[ExecuteLine] # "sending"
      BY <2>2, LineNames DEF EndInv
    <3>3. wg' = Cardinality({m \in Lines : at'[m] # "gone"})
      BY <2>3, <2>5
    <3>4. returned' => \A m \in Lines : at'[m] = "gone"
      BY <2>1, <2>7
    <3> QED
      BY <2>6, <3>1, <3>2, <3>3, <3>4 DEF EndInv
  <2>9. closed' \in SUBSET Lines
    BY <2>1, LineNames DEF LineTypeOK
  <2>10. LineTypeOK'
    BY <1>0, <2>1, <2>2, <2>5, <2>9 DEF LineTypeOK
  <2> QED
    BY <2>8, <2>10
<1> QED
  BY <1>1, <1>2, <1>3, <1>4, <1>5, <1>6, LineShapes

(***************************************************************************)
(* What the steps do to the tasks.                                         *)
(***************************************************************************)

(* The reads and the writes of a task.                                     *)
LEMMA OfMembers ==
    ASSUME NEW t
    PROVE  /\ \A k : <<"read", t, k>> \in Of(t) <=> k \in Reads(t)
           /\ \A k : <<"write", t, k>> \in Of(t) <=> k \in Writes(t)
           /\ \A S : Of(t) \subseteq S <=>
                 /\ \A k \in Reads(t) : <<"read", t, k>> \in S
                 /\ \A k \in Writes(t) : <<"write", t, k>> \in S
<1>1. \A x : x \in Of(t) <=> \/ \E k \in Reads(t) : x = <<"read", t, k>>
                             \/ \E k \in Writes(t) : x = <<"write", t, k>>
  BY DEF Of
<1> QED
  BY <1>1

(* The types, part by part.                                                *)
LEMMA TypeParts ==
    PipelineTypeOK <=> TypeOK /\ ChainTypeOK /\ LineTypeOK
                       /\ transferred \subseteq {"read", "write"} \X Tasks \X Keys
  BY DEF PipelineTypeOK, LineTypeOK

(* What has been transferred was predicted.                                *)
LEMMA TransferredPredicted ==
    ASSUME TransferInv, NEW t \in Tasks, NEW k \in Keys
    PROVE  /\ <<"read", t, k>> \in transferred => k \in Reads(t) /\ Block[t] < Taken(GVCLine)
           /\ <<"write", t, k>> \in transferred => k \in Writes(t) /\ Block[t] < Taken(GVCLine)
           /\ Of(t) \subseteq transferred /\ k \in Reads(t) => <<"read", t, k>> \in transferred
           /\ Of(t) \subseteq transferred /\ k \in Writes(t) => <<"write", t, k>> \in transferred
<1>1. /\ <<"read", t, k>> \in transferred => k \in Reads(t) /\ Block[t] < Taken(GVCLine)
      /\ <<"write", t, k>> \in transferred => k \in Writes(t) /\ Block[t] < Taken(GVCLine)
  BY Zenon DEF TransferInv
<1> QED
  BY <1>1, OfMembers

(* GVCLine is done with a block when Execution's PrepareBlock would be.    *)
LEMMA TransferredPrepares ==
    ASSUME PipelineInv, Transferred
    PROVE  holding[GVCLine] \in Blocks /\ PrepareBlock(holding[GVCLine])
<1> DEFINE b == holding[GVCLine]
<1>1. /\ LineTypeOK /\ EndInv /\ GVCLine \in Lines /\ at[GVCLine] = "working"
      /\ installing = Nil
      /\ \A t \in InBlock(b) : Of(t) \subseteq transferred
      /\ TypeOK /\ tail \in [Keys -> Tids]
  BY TypeParts, LineNames DEF PipelineInv, Transferred, Worked, Working, ChainTypeOK
<1>2. /\ b \in Blocks /\ b \in Nat /\ b = Handled(GVCLine)
      /\ Taken(GVCLine) = b + 1
  BY <1>1, Positions DEF Taken, EndInv
<1> HIDE DEF b
<1>3. \A t \in Tasks : Block[t] \in Nat
  BY BlockNumbers
<1>4. \A t \in Tasks : /\ pc[t] = "new" <=> b <= Block[t]
                       /\ Block[t] < b => Of(t) \subseteq transferred
  BY <1>2 DEF PipelineInv, PlaceInv, TransferInv
<1>5. \A t \in InBlock(b) : pc[t] = "new"
  BY <1>2, <1>4 DEF InBlock
<1>6. PastBefore(b, {"new"})
  BY <1>2, <1>3, <1>4 DEF PastBefore
<1>7. ASSUME NEW t \in Tasks, Block[t] <= b, NEW k \in Keys
      PROVE  <<"write", t, k>> \in transferred <=> k \in Writes(t)
  <2>1. Block[t] < b \/ t \in InBlock(b)
    BY <1>2, <1>3, <1>7 DEF InBlock
  <2>2. Of(t) \subseteq transferred
    BY <1>1, <1>4, <2>1
  <2> QED
    BY <2>2, TransferredPredicted DEF PipelineInv
<1>8. ASSUME NEW t \in Tasks, NEW k \in Keys, <<"write", t, k>> \in transferred
      PROVE  Block[t] <= b
  <2>1. Block[t] < Taken(GVCLine)
    BY <1>8, TransferredPredicted DEF PipelineInv
  <2> QED
    BY <1>2, <1>3, <2>1
<1>9. ASSUME NEW k \in Keys PROVE tail[k] = LastOf(Writers(UpTo(b), k))
  <2>1. Installed(k) = Writers(UpTo(b), k)
    BY <1>1, <1>7, <1>8 DEF Installed, Writers, UpTo
  <2> QED
    BY <2>1 DEF PipelineInv, ChainsLinked
<1>10. lastBlockTail' = [k \in Keys |-> LastOf(Writers(UpTo(b), k))]
  <2>1. lastBlockTail' = tail
    BY DEF Transferred, UpdateLastBlockTail
  <2> QED
    BY <1>1, <1>9, <2>1
<1>11. status' = [t \in Tasks |->
          IF Block[t] = b
          THEN [k \in Keys |-> IF k \in Writes(t) THEN "Pending" ELSE "none"]
          ELSE status[t]]
  <2>1. status' = [t \in Tasks |->
              IF Block[t] = b
              THEN [k \in Keys |-> IF <<"write", t, k>> \in transferred THEN "Pending" ELSE "none"]
              ELSE status[t]]
    BY DEF Transferred, b
  <2>2. ASSUME NEW t \in Tasks, Block[t] = b
        PROVE  [k \in Keys |-> IF <<"write", t, k>> \in transferred THEN "Pending" ELSE "none"]
               = [k \in Keys |-> IF k \in Writes(t) THEN "Pending" ELSE "none"]
    BY <1>2, <1>7, <2>2
  <2> QED
    BY <2>1, <2>2
<1> QED
  BY <1>2, <1>5, <1>6, <1>10, <1>11 DEF PrepareBlock, Transferred, b

(* ExecuteLine takes its next block when Execution would.                  *)
LEMMA ReceiveExecutes ==
    ASSUME PipelineInv, NEW l \in Lines, Receive(l)
    PROVE  UNCHANGED vars \/ NextBlock
<1>1. LineTypeOK /\ EndInv /\ StreamInv
  BY TypeParts DEF PipelineInv
<1>2. /\ holding' = [holding EXCEPT ![l] = Stream(Taken(l))]
      /\ at[l] = "range" /\ Taken(l) <= NBlocks
      /\ Taken(l) \in 0 .. NBlocks + 1
  BY <1>1, ReceiveMoves, ReceivesNext, Positions
<1>3. /\ executing' = IF l = ExecuteLine /\ holding'[l] # END THEN holding'[l] ELSE executing
      /\ UNCHANGED <<load, pc, lastBlockTail, readVersion, status, proc, rank,
                     waited, seen, wrote>>
  BY DEF Receive
<1>4. holding'[l] = Stream(Taken(l))
  BY <1>1, <1>2 DEF LineTypeOK
<1>5. CASE l # ExecuteLine \/ Stream(Taken(l)) = END
  BY <1>3, <1>4, <1>5 DEF vars
<1>6. CASE l = ExecuteLine /\ Stream(Taken(l)) # END
  <2>1. executing' = Taken(l) /\ Taken(l) < NBlocks
    BY <1>2, <1>3, <1>4, <1>6, BlockNumbers DEF Stream
  <2>2. CASE Taken(l) = 0
    BY <1>3, <1>6, <2>1, <2>2 DEF PipelineInv, PlaceInv, vars
  <2>3. CASE Taken(l) # 0
    <3>1. /\ holding[l] # END /\ holding[l] \in Nat /\ Taken(l) = holding[l] + 1
          /\ Handled(l) = Taken(l)
      BY <1>1, <1>2, <2>3, BlockNumbers DEF Taken, Handled, LineTypeOK
    <3>2. executing = holding[l]
      BY <1>6, <3>1 DEF PipelineInv, PlaceInv
    <3>3. executing + 1 \in Blocks /\ executing' = executing + 1
      BY <2>1, <3>1, <3>2, BlockNumbers
    <3>4. BlockFinished(executing)
      BY <1>6, <3>1, <3>2 DEF BlockFinished, InBlock, PipelineInv, PlaceInv
    <3> QED
      BY <1>3, <3>3, <3>4 DEF NextBlock
  <2> QED
    BY <2>2, <2>3
<1> QED
  BY <1>5, <1>6

(* A getter has returned a version of a key of its transaction.            *)
Returns(t) ==
    /\ pc[t] = "running" /\ walk[t] # Nil
    /\ walk[t].key \in Reads(t) /\ walk[t].at \in Tids
    /\ StatusOf(walk[t].key, walk[t].at) = "Committed"
    /\ seen' = [seen EXCEPT ![t][walk[t].key] = @ \cup {walk[t].at}]
    /\ UNCHANGED <<load, pc, lastBlockTail, readVersion, status, proc, rank,
                   executing, waited, wrote>>

(* Every step, as Execution sees it.                                       *)
LEMMA TaskShapes ==
    ASSUME PipelineInv, [PipelineNext]_allVars
    PROVE  [Next]_vars \/ \E t \in Tasks : Returns(t)
<1>1. CASE UNCHANGED allVars
  BY <1>1 DEF allVars
<1>2. ASSUME NEW l \in Lines, LineStep(l) PROVE [Next]_vars
  BY <1>2, ReceiveExecutes DEF LineStep, Send, CloseAndDone, Next
<1>3. CASE Transferred
  BY <1>3, TransferredPrepares DEF Next, Line
<1>4. ASSUME NEW t \in Tasks, NEW k \in Keys, TransferRead(t, k) \/ TransferWrite(t, k)
      PROVE  UNCHANGED vars
  BY <1>4 DEF TransferRead, TransferWrite
<1>5. CASE Install
  BY <1>5 DEF Install
<1>6. LineTypeOK /\ EndInv /\ \A l \in Lines : at[l] = "working" => holding[l] \in Blocks
  BY TypeParts, Positions DEF PipelineInv
<1>7. CASE LinkGraph \/ Schedule
  BY <1>6, <1>7, LineNames DEF LinkGraph, Schedule, Worked, Working, Next, Line
<1>8. CASE Executed \/ Wait \/ Ready
  BY <1>8 DEF Executed, Wait, Ready, allVars
<1>9. ASSUME NEW t \in Tasks, Process(t) PROVE [Next]_vars
  BY <1>9 DEF Process, Next
<1>10. ASSUME NEW t \in Tasks, Get(t) PROVE UNCHANGED vars \/ Returns(t)
  <2>1. CASE \E k \in Keys : StartWalk(t, k)
    BY <2>1 DEF StartWalk
  <2>2. CASE WalkBack(t)
    <3>1. /\ walk[t] # Nil /\ pc[t] = "running" /\ walk[t].key \in Reads(t)
          /\ walk[t].at \in Tids
      <4>1. walk[t] # Nil
        BY <2>2 DEF WalkBack
      <4>2. walk[t] \in GetterAt
        BY <4>1, TypeParts DEF PipelineInv, ChainTypeOK
      <4> QED
        BY <4>1, <4>2 DEF PipelineInv, WalkInv, GetterAt
    <3> QED
      BY <2>2, <3>1 DEF WalkBack, Returns, vars
  <2> QED
    BY <1>10, <2>1, <2>2 DEF Get
<1> QED
  BY <1>1, <1>2, <1>3, <1>4, <1>5, <1>7, <1>8, <1>9, <1>10 DEF PipelineNext, GVCStep

(* What a getter returns breaks none of the bookkeeping.                   *)
LEMMA ReturnsBookkeeping ==
    ASSUME Bookkeeping, NEW t \in Tasks, Returns(t) PROVE Bookkeeping'
<1> DEFINE k == walk[t].key
           v == walk[t].at
<1>1. /\ TypeOK /\ pc[t] = "running" /\ k \in Reads(t) /\ k \in Keys /\ v \in Tids
      /\ seen' = [seen EXCEPT ![t][k] = @ \cup {v}]
      /\ UNCHANGED <<load, pc, lastBlockTail, readVersion, status, proc, rank,
                     executing, waited, wrote>>
  BY FootprintKeys DEF Returns, Bookkeeping
<1> HIDE DEF k, v
<1>2. TypeOK'
  BY <1>1 DEF TypeOK
<1>3. StageInv'
  BY <1>1 DEF Bookkeeping, StageInv, Begun, TypeOK, Reads, Writes
<1>4. StatusInv' /\ LineInv' /\ BarrierInv' /\ TailInv' /\ LinkInv' /\ WaitInv'
  BY <1>1 DEF Bookkeeping, StatusInv, LineInv, BarrierInv, TailInv, LinkInv, WaitInv,
     Begun, Resolved, Prepared, Linked, IsLast, Writers, Reads, Writes
<1> QED
  BY <1>2, <1>3, <1>4 DEF Bookkeeping

(* So the bookkeeping of Execution holds of the pipeline.                  *)
LEMMA PipelineBookkeeping ==
    ASSUME PipelineInv, [PipelineNext]_allVars PROVE Bookkeeping'
  BY TaskShapes, ReturnsBookkeeping, NextBookkeeping DEF PipelineInv

(***************************************************************************)
(* Stages and positions.                                                   *)
(***************************************************************************)

(* A processor takes a task on from where the lines have left it.          *)
LEMMA WorkStages ==
    ASSUME TypeOK, NEW t \in Tasks, Work(t)
    PROVE  /\ \A u \in Tasks : pc'[u] # pc[u] =>
                 /\ pc[u] \notin {"new", "prepared", "linked"} \cup Ended
                 /\ pc'[u] \notin {"new", "prepared", "linked"}
           /\ UNCHANGED <<load, executing>>
<1>1. pc \in [Tasks -> Stages]
  BY DEF TypeOK
<1> USE DEF Ended
<1>2. CASE PopTask(t)
  BY <1>1, <1>2 DEF PopTask
<1>3. CASE StartTask(t)
  BY <1>1, <1>3 DEF StartTask
<1>4. CASE RejectTask(t)
  BY <1>1, <1>4 DEF RejectTask
<1>5. CASE \E W \in SUBSET Writes(t) : CommitLocalWrite(t, W)
  BY <1>1, <1>5 DEF CommitLocalWrite
<1>6. CASE TotallyAbort(t)
  BY <1>1, <1>6 DEF TotallyAbort
<1>7. CASE EndTask(t)
  BY <1>1, <1>7 DEF EndTask
<1>8. CASE \E k \in Keys : WaitVersion(t, k) \/ ResolveVersion(t, k)
  BY <1>1, <1>8 DEF WaitVersion, ResolveVersion
<1> QED
  BY <1>2, <1>3, <1>4, <1>5, <1>6, <1>7, <1>8 DEF Work

(* A line marks the stage of the block it has dealt with.                  *)
LEMMA NextPlace ==
    ASSUME PipelineInv, [PipelineNext]_allVars PROVE PlaceInv'
<1> DEFINE Place(g, r, s, e) ==
        \A t \in Tasks :
          /\ pc[t] = "new" <=> g <= Block[t]
          /\ pc[t] \in {"new", "prepared"} <=> r <= Block[t]
          /\ pc[t] \in {"new", "prepared", "linked"} <=> s <= Block[t]
          /\ Block[t] < e => pc[t] \in Ended
<1>0. /\ LineTypeOK /\ EndInv /\ StreamInv /\ PlaceInv /\ TypeOK
      /\ pc \in [Tasks -> Stages]
      /\ \A l \in Lines : Taken(l) \in 0 .. NBlocks + 1 /\ Handled(l) \in 0 .. NBlocks + 1
      /\ \A t \in Tasks : Block[t] \in Nat /\ Block[t] < NBlocks
      /\ NBlocks \in Nat
      /\ GVCLine \in Lines /\ GraphLine \in Lines /\ ScheduleLine \in Lines /\ ExecuteLine \in Lines
  BY TypeParts, Positions, BlockNumbers, LineNames DEF PipelineInv, TypeOK
<1>1. CASE /\ \A l \in Lines : Handled(l)' = Handled(l) /\ Taken(l)' = Taken(l)
           /\ UNCHANGED <<holding, executing>>
           /\ \A u \in Tasks : pc'[u] # pc[u] =>
                 /\ pc[u] \notin {"new", "prepared", "linked"} \cup Ended
                 /\ pc'[u] \notin {"new", "prepared", "linked"}
  BY <1>0, <1>1 DEF PlaceInv
<1>2. ASSUME UNCHANGED <<at, holding, pc, executing>> PROVE PlaceInv'
  BY <1>0, <1>2 DEF PlaceInv, Handled, Taken
<1>3. ASSUME NEW l \in Lines, Receive(l) PROVE PlaceInv'
  <2>1. /\ \A m \in Lines :
              /\ Taken(m)' = IF m = l THEN Taken(m) + 1 ELSE Taken(m)
              /\ Handled(m)' = IF m = l /\ Taken(m) = NBlocks THEN Handled(m) + 1 ELSE Handled(m)
        /\ holding' = [holding EXCEPT ![l] = Stream(Taken(l))]
        /\ Handled(l) = Taken(l)
    BY <1>0, <1>3, ReceiveMoves, ReceivesNext DEF Handled
  <2>2. /\ pc' = pc
        /\ executing' = IF l = ExecuteLine /\ holding'[l] # END THEN holding'[l] ELSE executing
    BY <1>3 DEF Receive
  <2>3. ASSUME NEW m \in Lines, NEW t \in Tasks
        PROVE  /\ Handled(m)' <= Block[t] <=> Handled(m) <= Block[t]
               /\ Block[t] < Handled(m)' <=> Block[t] < Handled(m)
    BY <1>0, <2>1
  <2>4. holding'[ExecuteLine] # END => executing' = holding'[ExecuteLine]
    BY <1>0, <2>1, <2>2 DEF PlaceInv, LineTypeOK
  <2>5. Taken(ExecuteLine)' = 0 => executing' = 0
    BY <1>0, <2>1, <2>2 DEF PlaceInv
  <2> QED
    BY <1>0, <2>2, <2>3, <2>4, <2>5 DEF PlaceInv
<1>4. ASSUME NEW l \in Lines, Send(l) \/ CloseAndDone(l) PROVE PlaceInv'
  <2>1. \A m \in Lines : Handled(m)' = Handled(m) /\ Taken(m)' = Taken(m)
    BY <1>0, <1>4, SendMoves, CloseMoves
  <2>2. UNCHANGED <<holding, executing, pc>>
    BY <1>4 DEF Send, CloseAndDone, vars
  <2> QED
    BY <1>1, <2>1, <2>2
<1>5. ASSUME NEW l \in Lines, WorkDone(l),
             UNCHANGED executing,
             Place(Handled(GVCLine), Handled(GraphLine), Handled(ScheduleLine), Handled(ExecuteLine))
             => Place(Handled(GVCLine), Handled(GraphLine), Handled(ScheduleLine), Handled(ExecuteLine))'
      PROVE  PlaceInv'
  <2>1. \A m \in Lines : Taken(m)' = Taken(m)
    BY <1>0, <1>5, DoneMoves
  <2>2. holding' = holding
    BY <1>5 DEF WorkDone
  <2> QED
    BY <1>0, <1>5, <2>1, <2>2 DEF PlaceInv
<1>6. CASE Transferred
  <2> DEFINE b == holding[GVCLine]
  <2>1. WorkDone(GVCLine) /\ executing' = executing /\ at[GVCLine] = "working"
    BY <1>6, LineNames DEF Transferred, Worked, Working, WorkDone
  <2>2. b = Handled(GVCLine) /\ b \in Nat
    BY <1>0, <2>1, Positions
  <2>3. \A m \in Lines : Handled(m)' = IF m = GVCLine THEN Handled(m) + 1 ELSE Handled(m)
    BY <1>0, <2>1, DoneMoves
  <2>4. pc' = [t \in Tasks |-> IF Block[t] = b THEN "prepared" ELSE pc[t]]
    BY <1>6 DEF Transferred
  <2> HIDE DEF b
  <2>5. Handled(GVCLine)' = b + 1 /\ Handled(GraphLine)' = Handled(GraphLine)
        /\ Handled(ScheduleLine)' = Handled(ScheduleLine) /\ Handled(ExecuteLine)' = Handled(ExecuteLine)
    BY <1>0, <2>2, <2>3, LineNames
  <2>6. ASSUME NEW t \in Tasks
        PROVE  /\ pc'[t] = "new" <=> Handled(GVCLine)' <= Block[t]
               /\ pc'[t] \in {"new", "prepared"} <=> Handled(GraphLine)' <= Block[t]
               /\ pc'[t] \in {"new", "prepared", "linked"} <=> Handled(ScheduleLine)' <= Block[t]
               /\ Block[t] < Handled(ExecuteLine)' => pc'[t] \in Ended
    <3>1. CASE Block[t] = b
      <4>1. pc[t] = "new" /\ pc'[t] = "prepared"
        BY <1>0, <2>2, <2>4, <3>1 DEF PlaceInv
      <4> QED
        BY <1>0, <2>2, <2>5, <3>1, <4>1 DEF PlaceInv, Ended
    <3>2. CASE Block[t] # b
      <4>1. pc'[t] = pc[t]
        BY <1>0, <2>4, <3>2
      <4>2. b + 1 <= Block[t] <=> b <= Block[t]
        BY <1>0, <2>2, <3>2
      <4> QED
        BY <1>0, <2>2, <2>5, <4>1, <4>2 DEF PlaceInv
    <3> QED
      BY <3>1, <3>2
  <2> QED
    BY <1>0, <1>5, <2>1, <2>6
<1>7. CASE LinkGraph
  <2> DEFINE b == holding[GraphLine]
  <2>1. WorkDone(GraphLine) /\ executing' = executing /\ at[GraphLine] = "working"
    BY <1>7, LineNames DEF LinkGraph, LinkBlock, Worked, Working, WorkDone
  <2>2. b = Handled(GraphLine) /\ b \in Nat
    BY <1>0, <2>1, Positions
  <2>3. \A m \in Lines : Handled(m)' = IF m = GraphLine THEN Handled(m) + 1 ELSE Handled(m)
    BY <1>0, <2>1, DoneMoves
  <2>4. /\ pc' = [t \in Tasks |-> IF Block[t] = b THEN "linked" ELSE pc[t]]
        /\ \A t \in InBlock(b) : pc[t] = "prepared"
    BY <1>7 DEF LinkGraph, LinkBlock
  <2> HIDE DEF b
  <2>5. Handled(GVCLine)' = Handled(GVCLine) /\ Handled(GraphLine)' = b + 1
        /\ Handled(ScheduleLine)' = Handled(ScheduleLine) /\ Handled(ExecuteLine)' = Handled(ExecuteLine)
    BY <1>0, <2>2, <2>3, LineNames
  <2>6. ASSUME NEW t \in Tasks
        PROVE  /\ pc'[t] = "new" <=> Handled(GVCLine)' <= Block[t]
               /\ pc'[t] \in {"new", "prepared"} <=> Handled(GraphLine)' <= Block[t]
               /\ pc'[t] \in {"new", "prepared", "linked"} <=> Handled(ScheduleLine)' <= Block[t]
               /\ Block[t] < Handled(ExecuteLine)' => pc'[t] \in Ended
    <3>1. CASE Block[t] = b
      <4>1. pc[t] = "prepared" /\ pc'[t] = "linked"
        BY <1>0, <2>2, <2>4, <3>1 DEF InBlock
      <4> QED
        BY <1>0, <2>2, <2>5, <3>1, <4>1 DEF PlaceInv, Ended
    <3>2. CASE Block[t] # b
      <4>1. pc'[t] = pc[t]
        BY <1>0, <2>4, <3>2
      <4>2. b + 1 <= Block[t] <=> b <= Block[t]
        BY <1>0, <2>2, <3>2
      <4> QED
        BY <1>0, <2>2, <2>5, <4>1, <4>2 DEF PlaceInv
    <3> QED
      BY <3>1, <3>2
  <2> QED
    BY <1>0, <1>5, <2>1, <2>6
<1>8. CASE Schedule
  <2> DEFINE b == holding[ScheduleLine]
  <2>1. WorkDone(ScheduleLine) /\ executing' = executing /\ at[ScheduleLine] = "working"
    BY <1>8, LineNames DEF Schedule, ScheduleBlock, Worked, Working, WorkDone
  <2>2. b = Handled(ScheduleLine) /\ b \in Nat
    BY <1>0, <2>1, Positions
  <2>3. \A m \in Lines : Handled(m)' = IF m = ScheduleLine THEN Handled(m) + 1 ELSE Handled(m)
    BY <1>0, <2>1, DoneMoves
  <2>4. /\ pc' = [t \in Tasks |-> IF Block[t] = b THEN "queued" ELSE pc[t]]
        /\ \A t \in InBlock(b) : pc[t] = "linked"
    BY <1>8 DEF Schedule, ScheduleBlock
  <2> HIDE DEF b
  <2>5. Handled(GVCLine)' = Handled(GVCLine) /\ Handled(GraphLine)' = Handled(GraphLine)
        /\ Handled(ScheduleLine)' = b + 1 /\ Handled(ExecuteLine)' = Handled(ExecuteLine)
    BY <1>0, <2>2, <2>3, LineNames
  <2>6. ASSUME NEW t \in Tasks
        PROVE  /\ pc'[t] = "new" <=> Handled(GVCLine)' <= Block[t]
               /\ pc'[t] \in {"new", "prepared"} <=> Handled(GraphLine)' <= Block[t]
               /\ pc'[t] \in {"new", "prepared", "linked"} <=> Handled(ScheduleLine)' <= Block[t]
               /\ Block[t] < Handled(ExecuteLine)' => pc'[t] \in Ended
    <3>1. CASE Block[t] = b
      <4>1. pc[t] = "linked" /\ pc'[t] = "queued"
        BY <1>0, <2>2, <2>4, <3>1 DEF InBlock
      <4> QED
        BY <1>0, <2>2, <2>5, <3>1, <4>1 DEF PlaceInv, Ended
    <3>2. CASE Block[t] # b
      <4>1. pc'[t] = pc[t]
        BY <1>0, <2>4, <3>2
      <4>2. b + 1 <= Block[t] <=> b <= Block[t]
        BY <1>0, <2>2, <3>2
      <4> QED
        BY <1>0, <2>2, <2>5, <4>1, <4>2 DEF PlaceInv
    <3> QED
      BY <3>1, <3>2
  <2> QED
    BY <1>0, <1>5, <2>1, <2>6
<1>9. CASE Executed
  <2> DEFINE b == holding[ExecuteLine]
  <2>1. WorkDone(ExecuteLine) /\ executing' = executing /\ pc' = pc /\ at[ExecuteLine] = "working"
    BY <1>9, LineNames DEF Executed, Working, WorkDone, vars
  <2>2. b = Handled(ExecuteLine) /\ b \in Nat
    BY <1>0, <2>1, Positions
  <2>3. \A m \in Lines : Handled(m)' = IF m = ExecuteLine THEN Handled(m) + 1 ELSE Handled(m)
    BY <1>0, <2>1, DoneMoves
  <2>4. \A t \in InBlock(b) : pc[t] \in Ended
    BY <1>9 DEF Executed, BlockFinished
  <2> HIDE DEF b
  <2>5. Handled(GVCLine)' = Handled(GVCLine) /\ Handled(GraphLine)' = Handled(GraphLine)
        /\ Handled(ScheduleLine)' = Handled(ScheduleLine) /\ Handled(ExecuteLine)' = b + 1
    BY <1>0, <2>2, <2>3, LineNames
  <2>6. ASSUME NEW t \in Tasks, Block[t] < b + 1 PROVE pc[t] \in Ended
    <3>1. CASE Block[t] = b
      BY <2>4, <3>1 DEF InBlock
    <3>2. CASE Block[t] # b
      BY <1>0, <2>2, <2>6, <3>2 DEF PlaceInv
    <3> QED
      BY <3>1, <3>2
  <2> QED
    BY <1>0, <1>5, <2>1, <2>5, <2>6
<1>10. ASSUME NEW t \in Tasks, Process(t) PROVE PlaceInv'
  <2>1. /\ UNCHANGED <<at, holding, executing>>
        /\ \A u \in Tasks : pc'[u] # pc[u] =>
                 /\ pc[u] \notin {"new", "prepared", "linked"} \cup Ended
                 /\ pc'[u] \notin {"new", "prepared", "linked"}
    BY <1>0, <1>10, WorkStages DEF Process, lineVars
  <2>2. \A l \in Lines : Handled(l)' = Handled(l) /\ Taken(l)' = Taken(l)
    BY <2>1 DEF Handled, Taken
  <2> QED
    BY <1>1, <2>1, <2>2
<1>11. ASSUME NEW t \in Tasks, Get(t) PROVE PlaceInv'
  BY <1>2, <1>11 DEF Get, StartWalk, WalkBack, lineVars, vars
<1>12. ASSUME NEW t \in Tasks, NEW k \in Keys, TransferRead(t, k) \/ TransferWrite(t, k)
       PROVE  PlaceInv'
  BY <1>2, <1>12 DEF TransferRead, TransferWrite, vars
<1>13. CASE Install \/ Wait \/ UNCHANGED allVars
  BY <1>2, <1>13 DEF Install, Wait, allVars, vars, lineVars
<1> QED
  BY <1>3, <1>4, <1>6, <1>7, <1>8, <1>9, <1>10, <1>11, <1>12, <1>13
  DEF PipelineNext, LineStep, GVCStep, Ready

(***************************************************************************)
(* The version chains.                                                     *)
(***************************************************************************)

(* The batch does not change.                                              *)
LEMMA LoadStays ==
    ASSUME PipelineInv, [PipelineNext]_allVars
    PROVE  /\ load' = load
           /\ \A t : Reads(t)' = Reads(t) /\ Writes(t)' = Writes(t) /\ Of(t)' = Of(t)
<1>1. load' = load
  BY TaskShapes, LinksStay DEF PipelineInv, Bookkeeping, Returns
<1> QED
  BY <1>1 DEF Reads, Writes, Of

(* Every step, as GVCLine's work sees it.                                  *)
LEMMA ChainShapes ==
    ASSUME [PipelineNext]_allVars
    PROVE  \/ UNCHANGED <<transferred, next, prev, tail, loaded, clears, installing>>
           \/ \E t \in Tasks, k \in Keys : TransferRead(t, k) \/ TransferWrite(t, k)
           \/ Install
<1>1. CASE UNCHANGED allVars
  BY <1>1 DEF allVars, chainVars, lineVars
<1>2. CASE \E l \in Lines : LineStep(l)
  BY <1>2 DEF LineStep, Receive, Send, CloseAndDone, chainVars
<1>3. CASE Transferred \/ LinkGraph \/ Schedule \/ Executed \/ Wait
  BY <1>3 DEF Transferred, LinkGraph, Schedule, Executed, Wait, chainVars
<1>4. CASE \E t \in Tasks : Process(t) \/ Get(t)
  BY <1>4 DEF Process, Get, StartWalk, WalkBack, chainVars, lineVars
<1> QED
  BY <1>1, <1>2, <1>3, <1>4 DEF PipelineNext, GVCStep, Ready

(* What GVCLine is at while it transfers a block.                          *)
LEMMA TransferringFacts ==
    ASSUME PipelineInv, NEW t \in Tasks, Transferring(t)
    PROVE  /\ at[GVCLine] = "working" /\ installing = Nil
           /\ Block[t] = holding[GVCLine] /\ Block[t] = Handled(GVCLine)
           /\ Taken(GVCLine) = Block[t] + 1
           /\ \A u \in Tasks : u < t => Of(u) \subseteq transferred
           /\ \A k \in Writes(t) : <<"write", t, k>> \notin transferred =>
                 \A u \in Installed(k) : u < t
<1>1. /\ at[GVCLine] = "working" /\ installing = Nil /\ Block[t] = holding[GVCLine]
      /\ \A u \in EarlierInBlock(t) : Of(u) \subseteq transferred
  BY DEF Transferring, Working
<1>2. LineTypeOK /\ EndInv /\ TransferInv /\ GVCLine \in Lines
  BY TypeParts, LineNames DEF PipelineInv
<1>3. /\ Block[t] = Handled(GVCLine) /\ Taken(GVCLine) = Block[t] + 1
  BY <1>1, <1>2, Positions, BlockNumbers DEF Taken
<1>4. ASSUME NEW u \in Tasks, u < t PROVE Of(u) \subseteq transferred
  <2>1. u \in Int /\ t \in Int
    BY NTasksAssumption DEF Tasks
  <2>2. Block[u] <= Block[t] /\ Block[u] \in Nat /\ Block[t] \in Nat
    BY <1>4, <2>1, BlockAssumption
  <2>3. CASE Block[u] = Block[t]
    BY <1>1, <1>4, <2>3 DEF EarlierInBlock
  <2>4. CASE Block[u] < Block[t]
    BY <1>2, <1>3, <2>4 DEF TransferInv
  <2> QED
    BY <2>2, <2>3, <2>4
<1>5. ASSUME NEW k \in Writes(t), <<"write", t, k>> \notin transferred,
             NEW u \in Installed(k)
      PROVE  u < t
  <2>1. u \in Tasks /\ <<"write", u, k>> \in transferred /\ u # t
    BY <1>5 DEF Installed
  <2>2. u \in Int /\ t \in Int
    BY <2>1, NTasksAssumption DEF Tasks
  <2>3. t < u => Of(t) \subseteq transferred
    <3>1. k \in Keys
      BY FootprintKeys DEF PipelineInv, Bookkeeping
    <3> QED
      BY <1>2, <2>1, <3>1 DEF TransferInv
  <2>4. ~ (Of(t) \subseteq transferred)
    BY <1>5, OfMembers
  <2> QED
    BY <2>1, <2>2, <2>3, <2>4
<1> QED
  BY <1>1, <1>3, <1>4, <1>5

(* GVCLine has done with a block when everything in it is transferred.     *)
LEMMA HandledBlocks ==
    ASSUME PipelineInv, [PipelineNext]_allVars, NEW t \in Tasks
    PROVE  /\ Block[t] < Taken(GVCLine) => Block[t] < Taken(GVCLine)'
           /\ Block[t] < Handled(GVCLine)' =>
                 \/ Block[t] < Handled(GVCLine)
                 \/ Transferred /\ Of(t) \subseteq transferred
<1>0. /\ LineTypeOK /\ EndInv /\ StreamInv
      /\ Block[t] \in Nat /\ Block[t] < NBlocks /\ NBlocks \in Nat
      /\ GVCLine \in Lines /\ ExecuteLine \in Lines
      /\ Taken(GVCLine) \in 0 .. NBlocks + 1 /\ Handled(GVCLine) \in 0 .. NBlocks + 1
  BY TypeParts, BlockNumbers, LineNames, Positions DEF PipelineInv
<1>1. ASSUME UNCHANGED <<at, holding>>
      PROVE  Taken(GVCLine)' = Taken(GVCLine) /\ Handled(GVCLine)' = Handled(GVCLine)
  BY <1>1 DEF Taken, Handled
<1>2. ASSUME NEW l \in Lines, Receive(l)
      PROVE  /\ Taken(GVCLine)' \in {Taken(GVCLine), Taken(GVCLine) + 1}
             /\ Block[t] < Handled(GVCLine)' => Block[t] < Handled(GVCLine)
  <2>1. /\ Taken(GVCLine)' = IF GVCLine = l THEN Taken(GVCLine) + 1 ELSE Taken(GVCLine)
        /\ Handled(GVCLine)' = IF GVCLine = l /\ Taken(GVCLine) = NBlocks
                               THEN Handled(GVCLine) + 1 ELSE Handled(GVCLine)
        /\ l = GVCLine => Handled(GVCLine) = Taken(GVCLine)
    BY <1>0, <1>2, ReceiveMoves, ReceivesNext DEF Handled
  <2> QED
    BY <1>0, <2>1
<1>3. ASSUME NEW l \in Lines, Send(l) \/ CloseAndDone(l)
      PROVE  Taken(GVCLine)' = Taken(GVCLine) /\ Handled(GVCLine)' = Handled(GVCLine)
  BY <1>0, <1>3, SendMoves, CloseMoves
<1>4. CASE Transferred
  <2>1. WorkDone(GVCLine) /\ at[GVCLine] = "working"
    BY <1>4, LineNames DEF Transferred, Worked, Working, WorkDone
  <2>2. /\ Taken(GVCLine)' = Taken(GVCLine) /\ Handled(GVCLine)' = Handled(GVCLine) + 1
        /\ holding[GVCLine] = Handled(GVCLine)
    BY <1>0, <2>1, DoneMoves, Positions
  <2>3. Block[t] = holding[GVCLine] => Of(t) \subseteq transferred
    BY <1>4 DEF Transferred, InBlock
  <2> QED
    BY <1>0, <1>4, <2>2, <2>3
<1>5. CASE LinkGraph \/ Schedule \/ Executed
  <2>1. \E l \in Lines : l # GVCLine /\ WorkDone(l)
    BY <1>5, LineNames DEF LinkGraph, Schedule, Executed, Worked, Working, WorkDone
  <2>2. Taken(GVCLine)' = Taken(GVCLine) /\ Handled(GVCLine)' = Handled(GVCLine)
    BY <1>0, <2>1, DoneMoves
  <2> QED
    BY <1>0, <2>2
<1>6. CASE \E u \in Tasks : Process(u) \/ Get(u)
  BY <1>0, <1>1, <1>6 DEF Process, Get, lineVars
<1>7. CASE \E u \in Tasks, k \in Keys : TransferRead(u, k) \/ TransferWrite(u, k)
  BY <1>0, <1>1, <1>7 DEF TransferRead, TransferWrite
<1>8. CASE Install \/ Wait \/ UNCHANGED allVars
  BY <1>0, <1>1, <1>8 DEF Install, Wait, allVars, lineVars
<1> QED
  BY <1>0, <1>2, <1>3, <1>4, <1>5, <1>6, <1>7, <1>8
  DEF PipelineNext, LineStep, GVCStep, Ready

(* What is transferred was predicted, and in the order of the tasks.       *)
LEMMA NextTransfer ==
    ASSUME PipelineInv, [PipelineNext]_allVars
    PROVE  TransferInv' /\ transferred' \subseteq {"read", "write"} \X Tasks \X Keys
<1>0. /\ TransferInv /\ TypeOK /\ transferred \subseteq {"read", "write"} \X Tasks \X Keys
      /\ \A t : Reads(t)' = Reads(t) /\ Writes(t)' = Writes(t) /\ Of(t)' = Of(t)
  BY TypeParts, LoadStays DEF PipelineInv
<1>1. ASSUME NEW t \in Tasks, NEW k \in Keys, TransferRead(t, k)
      PROVE  /\ transferred' = transferred \cup {<<"read", t, k>>}
             /\ k \in Reads(t) /\ Block[t] < Taken(GVCLine)
  <2>1. /\ transferred' = transferred \cup {<<"read", t, k>>}
        /\ <<"read", t, k>> \in Of(t) /\ Transferring(t)
    BY <1>1 DEF TransferRead
  <2> QED
    BY <2>1, OfMembers, TransferringFacts, BlockNumbers
<1>2. ASSUME NEW t \in Tasks, NEW k \in Keys, TransferWrite(t, k)
      PROVE  /\ transferred' = transferred \cup {<<"write", t, k>>}
             /\ k \in Writes(t) /\ Block[t] < Taken(GVCLine)
             /\ \A u \in Tasks : u < t => Of(u) \subseteq transferred
  <2>1. /\ transferred' = transferred \cup {<<"write", t, k>>}
        /\ <<"write", t, k>> \in Of(t) /\ Transferring(t)
    BY <1>2 DEF TransferWrite
  <2> QED
    BY <2>1, OfMembers, TransferringFacts, BlockNumbers
<1> DEFINE Ordered ==
        /\ transferred \subseteq transferred'
        /\ transferred' \subseteq {"read", "write"} \X Tasks \X Keys
        /\ \A t \in Tasks, k \in Keys :
              /\ <<"read", t, k>> \in transferred' =>
                    k \in Reads(t) /\ Block[t] < Taken(GVCLine)
              /\ <<"write", t, k>> \in transferred' =>
                    /\ k \in Writes(t) /\ Block[t] < Taken(GVCLine)
                    /\ \A u \in Tasks : u < t => Of(u) \subseteq transferred
<1>3. Ordered
  <2>1. CASE transferred' = transferred
    BY <1>0, <2>1 DEF TransferInv
  <2>2. ASSUME NEW t \in Tasks, NEW k \in Keys, TransferRead(t, k) PROVE Ordered
    BY <1>0, <1>1, <2>2 DEF TransferInv
  <2>3. ASSUME NEW t \in Tasks, NEW k \in Keys, TransferWrite(t, k) PROVE Ordered
    BY <1>0, <1>2, <2>3 DEF TransferInv
  <2> QED
    BY <2>1, <2>2, <2>3, ChainShapes DEF Install, lineVars
<1>4. \A t \in Tasks : Block[t] < Handled(GVCLine)' => Of(t) \subseteq transferred
  BY <1>0, HandledBlocks DEF TransferInv
<1>5. \A t \in Tasks : Block[t] < Taken(GVCLine) => Block[t] < Taken(GVCLine)'
  BY HandledBlocks
<1>6. TransferInv'
  <2> SUFFICES ASSUME NEW t \in Tasks
               PROVE  /\ \A k \in Keys :
                            /\ <<"read", t, k>> \in transferred' =>
                                  k \in Reads(t)' /\ Block[t] < Taken(GVCLine)'
                            /\ <<"write", t, k>> \in transferred' =>
                                  /\ k \in Writes(t)' /\ Block[t] < Taken(GVCLine)'
                                  /\ \A u \in Tasks : u < t => Of(u)' \subseteq transferred'
                      /\ Block[t] < Handled(GVCLine)' => Of(t)' \subseteq transferred'
    BY DEF TransferInv
  <2>1. Of(t)' = Of(t) /\ \A u \in Tasks : Of(u)' = Of(u)
    BY <1>0
  <2> QED
    BY <1>0, <1>3, <1>4, <1>5, <2>1
<1> QED
  BY <1>3, <1>6

(* The last of a set of tasks is the one that none of it exceeds.          *)
LEMMA LastOfUnique ==
    ASSUME NEW S \in SUBSET Tasks, NEW v \in S \cup {Snapshot}, \A u \in S : u <= v
    PROVE  LastOf(S) = v
<1>1. /\ LastOf(S) \in S \cup {Snapshot}
      /\ \A u \in S : u <= LastOf(S)
  BY LastOfSpec
<1>2. \A u \in S : u \in Int /\ u > Snapshot
  BY NTasksAssumption DEF Tasks, Snapshot
<1>3. v \in Int /\ LastOf(S) \in Int
  BY <1>1, <1>2 DEF Snapshot
<1> QED
  BY <1>1, <1>2, <1>3

(* Some tasks have a first one.                                            *)
LEMMA LeastTask ==
    ASSUME NEW S \in SUBSET Tasks, S # {}
    PROVE  \E m \in S : \A u \in S : m <= u
<1> DEFINE T == {n \in Int : - n \in S}
<1>1. \A u \in S : u \in Int /\ u >= 0 /\ - u \in Int /\ - (- u) = u
  BY NTasksAssumption DEF Tasks
<1>2. \A u \in S : - u \in T
  BY <1>1
<1>3. T # {} /\ T \in SUBSET Int /\ \A n \in T : n <= 0
  BY <1>1, <1>2
<1> HIDE DEF T
<1>4. PICK n \in T : \A x \in T : x <= n
  BY <1>3, MaxExists
<1>5. - n \in S /\ n \in Int
  BY DEF T
<1>6. \A u \in S : - n <= u
  BY <1>1, <1>2, <1>4, <1>5
<1> QED
  BY <1>5, <1>6

(* Along Next, a version leads to one after it, and only the last to none. *)
LEMMA Successor ==
    ASSUME ChainsLinked, NEW k \in Keys, NEW v \in Installed(k) \cup {Snapshot}
    PROVE  \/ v = LastOf(Installed(k)) /\ v = tail[k] /\ next[k][v] = Nil
           \/ next[k][v] \in Installed(k) /\ v < next[k][v]
<1> DEFINE In == Installed(k)
           After == {u \in In : v < u}
<1>1. /\ In \in SUBSET Tasks
      /\ tail[k] = LastOf(In) /\ next[k][tail[k]] = Nil
      /\ \A t \in In : /\ prev[k][t] = LastOf({u \in In : u < t})
                       /\ next[k][prev[k][t]] = t
  BY DEF ChainsLinked, Installed
<1> HIDE DEF In
<1>2. \A u \in In : u \in Int /\ u > Snapshot
  BY <1>1, NTasksAssumption DEF Tasks, Snapshot
<1>3. v \in In \cup {Snapshot} /\ v \in Int
  BY <1>2 DEF In, Snapshot
<1>4. CASE After = {}
  <2>1. \A u \in In : u <= v
    BY <1>2, <1>3, <1>4
  <2>2. LastOf(In) = v
    BY <1>1, <1>3, <2>1, LastOfUnique
  <2> QED
    BY <1>1, <2>2 DEF In
<1>5. CASE After # {}
  <2>1. PICK w \in After : \A u \in After : w <= u
    BY <1>1, <1>5, LeastTask
  <2>2. w \in In /\ v < w /\ w \in Int
    BY <1>2, <2>1
  <2>3. /\ {u \in In : u < w} \in SUBSET Tasks
        /\ v \in {u \in In : u < w} \cup {Snapshot}
    BY <1>1, <1>2, <1>3, <2>2
  <2>4. ASSUME NEW u \in {x \in In : x < w} PROVE u <= v
    <3>1. u \in In /\ u \in Int /\ u < w
      BY <1>2
    <3>2. ~ (v < u)
      BY <2>1, <2>2, <3>1
    <3> QED
      BY <1>3, <3>1, <3>2
  <2>5. LastOf({u \in In : u < w}) = v
    BY <2>3, <2>4, LastOfUnique
  <2>6. next[k][v] = w
    BY <1>1, <2>2, <2>5
  <2> QED
    BY <2>2, <2>6 DEF In
<1> QED
  BY <1>4, <1>5

(* One turn of InstallVersion's loop: on to the next version, or, at the   *)
(* end of the chain, in.  Nothing is ever inserted in the middle.          *)
LEMMA InstallTurns ==
    ASSUME PipelineInv, Install
    PROVE  LET k == installing.key
               v == installing.at
               iv == installing.task
           IN  /\ installing # Nil /\ k \in Keys /\ iv \in Tasks /\ v \in Tids
               /\ v \in Installed(k) \cup {Snapshot} /\ v < iv /\ iv \notin Installed(k)
               /\ \/ /\ v = LastOf(Installed(k))
                     /\ next' = [next EXCEPT ![k][iv] = Nil, ![k][v] = iv]
                     /\ prev' = [prev EXCEPT ![k][iv] = v]
                     /\ tail' = [tail EXCEPT ![k] = iv]
                     /\ installing' = Nil
                     /\ DoPrefetch(k)
                  \/ /\ next[k][v] \in Installed(k)
                     /\ installing' = [installing EXCEPT !.at = next[k][v]]
                     /\ UNCHANGED <<next, prev, tail, loaded, clears>>
               /\ UNCHANGED <<vars, lineVars, walk>>
<1> DEFINE k == installing.key
           v == installing.at
           iv == installing.task
           updatePrev == next[k][v] # Nil /\ iv < v
<1>1. installing # Nil /\ UNCHANGED <<vars, lineVars, walk>>
  BY DEF Install, InsertOrNext
<1>2. installing \in InstallAt
  BY <1>1, TypeParts DEF PipelineInv, ChainTypeOK
<1>3. k \in Keys /\ iv \in Tasks /\ v \in Tids
  BY <1>2 DEF InstallAt
<1>4. v \in Installed(k) \cup {Snapshot} /\ \A u \in Installed(k) : u < iv
  BY <1>1 DEF PipelineInv, InstallInv
<1>5. IF next[k][v] = Nil \/ updatePrev
           THEN /\ next' = [next EXCEPT ![k][iv] = next[k][v], ![k][v] = iv]
                /\ prev' = [prev EXCEPT ![k][v] = IF updatePrev THEN iv ELSE @, ![k][iv] = v]
                /\ tail' = IF next[k][v] = Nil THEN [tail EXCEPT ![k] = iv] ELSE tail
                /\ installing' = Nil
                /\ DoPrefetch(k)
           ELSE /\ installing' = [installing EXCEPT !.at = next[k][v]]
                /\ UNCHANGED <<next, prev, tail, loaded, clears>>
  BY DEF Install, InsertOrNext
<1> HIDE DEF k, v, iv
<1>6. iv \in Int /\ iv >= 0 /\ v \in Int
  BY <1>3, NTasksAssumption DEF Tids, Tasks, Snapshot
<1>7. v < iv /\ iv \notin Installed(k) /\ ~ updatePrev
  BY <1>4, <1>6 DEF Snapshot
<1>8. \/ v = LastOf(Installed(k)) /\ next[k][v] = Nil
      \/ next[k][v] \in Installed(k)
  BY <1>3, <1>4, Successor DEF PipelineInv
<1>9. Nil \notin Installed(k)
  BY NilAssumption DEF Installed, Tids
<1>10. CASE v = LastOf(Installed(k)) /\ next[k][v] = Nil
  <2>1. prev \in [Keys -> [Tids -> Tids \cup {Nil}]]
    BY TypeParts DEF PipelineInv, ChainTypeOK
  <2>2. prev' = [prev EXCEPT ![k][v] = @, ![k][iv] = v]
    BY <1>5, <1>7, <1>10
  <2>3. [prev EXCEPT ![k][v] = @] = prev
    BY <1>3, <2>1
  <2>4. prev' = [prev EXCEPT ![k][iv] = v]
    BY <2>2, <2>3
  <2>5. /\ next' = [next EXCEPT ![k][iv] = Nil, ![k][v] = iv]
        /\ tail' = [tail EXCEPT ![k] = iv]
        /\ installing' = Nil
        /\ DoPrefetch(k)
    BY <1>5, <1>10
  <2> QED
    BY <1>1, <1>3, <1>4, <1>7, <1>10, <2>4, <2>5 DEF k, v, iv
<1>11. CASE next[k][v] \in Installed(k)
  <2>1. next[k][v] # Nil
    BY <1>9, <1>11
  <2>2. /\ installing' = [installing EXCEPT !.at = next[k][v]]
        /\ UNCHANGED <<next, prev, tail, loaded, clears>>
    BY <1>5, <1>7, <2>1
  <2> QED
    BY <1>1, <1>3, <1>4, <1>7, <1>11, <2>2 DEF k, v, iv
<1> QED
  BY <1>8, <1>10, <1>11

(* While a version is being installed GVCLine keeps its block.             *)
LEMMA InstallingWorks ==
    ASSUME PipelineInv, [PipelineNext]_allVars, installing # Nil
    PROVE  at'[GVCLine] = "working" /\ holding'[GVCLine] = holding[GVCLine]
<1>0. /\ at[GVCLine] = "working" /\ at \in [Lines -> {"range", "working", "sending", "closing", "gone"}]
      /\ holding \in [Lines -> Blocks \cup {END}]
  BY TypeParts DEF PipelineInv, InstallInv, Working, LineTypeOK
<1>1. CASE UNCHANGED <<at, holding>>
  BY <1>0, <1>1
<1>2. ASSUME NEW l \in Lines, LineStep(l)
      PROVE  at'[GVCLine] = "working" /\ holding'[GVCLine] = holding[GVCLine]
  BY <1>0, <1>2, LineNames DEF LineStep, Receive, Send, CloseAndDone, Goto
<1>3. ~ Transferred /\ \A t \in Tasks, k \in Keys : ~ TransferRead(t, k) /\ ~ TransferWrite(t, k)
  BY DEF Transferred, TransferRead, TransferWrite, Transferring
<1>4. CASE LinkGraph \/ Schedule \/ Executed
  BY <1>0, <1>4, LineNames DEF LinkGraph, Schedule, Executed, Worked, Goto
<1>5. CASE Install \/ Wait \/ \E t \in Tasks : Process(t) \/ Get(t)
  BY <1>1, <1>5 DEF Install, Wait, Process, Get, lineVars
<1>6. CASE UNCHANGED allVars
  BY <1>1, <1>6 DEF allVars, lineVars
<1> QED
  BY <1>2, <1>3, <1>4, <1>5, <1>6 DEF PipelineNext, GVCStep, Ready

(* A chain gets a version when its install ends, and only then.            *)
LEMMA InstalledStays ==
    ASSUME PipelineInv, [PipelineNext]_allVars, ~ (Install /\ installing' = Nil), NEW k \in Keys
    PROVE  Installed(k)' = Installed(k)
<1>1. CASE UNCHANGED <<transferred, installing>>
  BY <1>1 DEF Installed
<1>2. ASSUME NEW t \in Tasks, NEW j \in Keys, TransferRead(t, j) PROVE Installed(k)' = Installed(k)
  BY <1>2 DEF TransferRead, Installed
<1>3. ASSUME NEW t \in Tasks, NEW j \in Keys, TransferWrite(t, j) PROVE Installed(k)' = Installed(k)
  <2>1. /\ transferred' = transferred \cup {<<"write", t, j>>}
        /\ <<"write", t, j>> \notin transferred
        /\ installing = Nil /\ installing' = [task |-> t, key |-> j, at |-> Snapshot]
    BY <1>3 DEF TransferWrite, InstallVersion
  <2>2. installing' # Nil /\ installing'.task = t /\ installing'.key = j
    <3>1. [task |-> t, key |-> j, at |-> Snapshot] \in InstallAt
      BY DEF Tids, InstallAt
    <3> QED
      BY <2>1, <3>1, NilAssumption
  <2> QED
    BY <2>1, <2>2 DEF Installed
<1>4. CASE Install
  <2>1. /\ installing # Nil /\ installing \in InstallAt /\ transferred' = transferred
        /\ installing' = [installing EXCEPT !.at = next[installing.key][installing.at]]
        /\ next[installing.key][installing.at] \in Tids
    <3>1. ChainTypeOK /\ installing # Nil
      BY <1>4, TypeParts DEF PipelineInv, Install, InsertOrNext
    <3>2. /\ transferred' = transferred
          /\ installing' = [installing EXCEPT !.at = next[installing.key][installing.at]]
          /\ next[installing.key][installing.at] \in Installed(installing.key)
      BY <1>4, InstallTurns DEF lineVars
    <3> QED
      BY <3>1, <3>2 DEF ChainTypeOK, Installed, Tids
  <2>2. /\ installing' \in InstallAt /\ installing'.task = installing.task
        /\ installing'.key = installing.key
    BY <2>1 DEF InstallAt
  <2> QED
    BY <2>1, <2>2, NilAssumption DEF Installed
<1> QED
  BY <1>1, <1>2, <1>3, <1>4, ChainShapes

(* The version that GVCLine has installed is the last of its chain.        *)
LEMMA InstalledGrows ==
    ASSUME PipelineInv, Install, installing' = Nil, NEW k \in Keys
    PROVE  Installed(k)' = IF k = installing.key THEN Installed(k) \cup {installing.task}
                                                 ELSE Installed(k)
<1>1. installing # Nil /\ installing.task \in Tasks /\ transferred' = transferred
  BY InstallTurns DEF lineVars
<1>2. <<"write", installing.task, installing.key>> \in transferred
  BY <1>1 DEF PipelineInv, InstallInv
<1> QED
  BY <1>1, <1>2 DEF Installed

(* The version under way stays younger than those in its chain.            *)
LEMMA NextInstall ==
    ASSUME PipelineInv, [PipelineNext]_allVars PROVE InstallInv'
<1> SUFFICES ASSUME installing' # Nil PROVE InstallInv'
  BY DEF InstallInv
<1>1. \A k \in Keys : Installed(k)' = Installed(k)
  BY InstalledStays
<1>2. ASSUME UNCHANGED <<transferred, next, prev, tail, loaded, clears, installing>>
      PROVE  InstallInv'
  <2>1. installing # Nil /\ installing' = installing /\ installing.key \in Keys
    BY <1>2, TypeParts DEF PipelineInv, ChainTypeOK, InstallAt
  <2>2. at'[GVCLine] = "working" /\ holding'[GVCLine] = holding[GVCLine]
    BY <2>1, InstallingWorks
  <2> QED
    BY <1>1, <1>2, <2>1, <2>2 DEF PipelineInv, InstallInv, Working
<1>3. ASSUME NEW t \in Tasks, NEW k \in Keys, TransferWrite(t, k)
      PROVE  InstallInv'
  <2>1. /\ Transferring(t) /\ <<"write", t, k>> \in Of(t) \ transferred
        /\ transferred' = transferred \cup {<<"write", t, k>>}
        /\ installing' = [task |-> t, key |-> k, at |-> Snapshot]
        /\ UNCHANGED <<at, holding>>
    BY <1>3 DEF TransferWrite, InstallVersion
  <2>2. k \in Writes(t)
    BY <2>1, OfMembers
  <2> QED
    BY <1>1, <2>1, <2>2, TransferringFacts DEF InstallInv, Working
<1>4. \A t \in Tasks, k \in Keys : ~ TransferRead(t, k)
  BY DEF TransferRead, Transferring
<1>5. ASSUME Install
      PROVE  InstallInv'
  <2>1. /\ installing # Nil /\ installing.key \in Keys
        /\ installing' = [installing EXCEPT !.at = next[installing.key][installing.at]]
        /\ next[installing.key][installing.at] \in Installed(installing.key)
        /\ UNCHANGED <<transferred, at, holding>>
    BY <1>5, InstallTurns DEF lineVars
  <2>2. installing \in InstallAt
    BY <2>1, TypeParts DEF PipelineInv, ChainTypeOK
  <2>3. /\ installing'.task = installing.task /\ installing'.key = installing.key
        /\ installing'.at = next[installing.key][installing.at]
    BY <2>1, <2>2 DEF InstallAt
  <2> QED
    BY <1>1, <2>1, <2>3 DEF PipelineInv, InstallInv, Working
<1> QED
  BY <1>2, <1>3, <1>4, <1>5, ChainShapes

(* A task whose block GVCLine has handed on has its versions in the chains.*)
LEMMA PreparedInstalled ==
    ASSUME PipelineInv, NEW u \in Tasks, pc[u] # "new", NEW k \in Writes(u)
    PROVE  u \in Installed(k)
<1>1. /\ LineTypeOK /\ EndInv /\ GVCLine \in Lines /\ Block[u] \in Nat
      /\ Handled(GVCLine) \in 0 .. NBlocks + 1 /\ k \in Keys
      /\ ~ (Handled(GVCLine) <= Block[u])
  BY TypeParts, LineNames, BlockNumbers, Positions, FootprintKeys DEF PipelineInv, PlaceInv, Bookkeeping
<1>2. Block[u] < Handled(GVCLine)
  BY <1>1, BlockNumbers
<1>3. <<"write", u, k>> \in transferred
  <2>1. Of(u) \subseteq transferred
    BY <1>2 DEF PipelineInv, TransferInv
  <2> QED
    BY <2>1, OfMembers
<1>4. installing # Nil => Block[installing.task] = Handled(GVCLine)
  BY <1>1, Positions DEF PipelineInv, InstallInv, Working
<1> QED
  BY <1>1, <1>2, <1>3, <1>4 DEF Installed

(* Behind a task that runs, every version of a key is in its chain.        *)
LEMMA EarlierInstalled ==
    ASSUME PipelineInv, NEW t \in Tasks, pc[t] # "new", NEW u \in Tasks, u < t,
           NEW k \in Writes(u)
    PROVE  u \in Installed(k)
<1>1. Block[u] <= Block[t]
  BY BlockOrder
<1>2. u \in Prepared
  BY <1>1 DEF PipelineInv, Bookkeeping, LineInv, Prepared
<1> QED
  BY <1>2, PreparedInstalled DEF Prepared

(* Linking a version behind the last one keeps a chain linked.             *)
LEMMA LinkedBehindLast ==
    ASSUME PipelineInv, Install, installing' = Nil PROVE ChainsLinked'
<1> DEFINE j == installing.key
           v == installing.at
           iv == installing.task
           In == Installed(j)
<1>1. /\ j \in Keys /\ iv \in Tasks /\ v \in Tids /\ installing # Nil
      /\ v \in In \cup {Snapshot} /\ v < iv /\ iv \notin In
      /\ ChainTypeOK /\ \A u \in In : u < iv
  BY InstallTurns, TypeParts DEF PipelineInv, InstallInv
<1>2. /\ v = LastOf(In)
      /\ next' = [next EXCEPT ![j][iv] = Nil, ![j][v] = iv]
      /\ prev' = [prev EXCEPT ![j][iv] = v]
      /\ tail' = [tail EXCEPT ![j] = iv]
  <2>1. ~ (installing' = [installing EXCEPT !.at = next[j][v]] /\ next[j][v] \in In)
    <3>1. [installing EXCEPT !.at = next[j][v]] \in InstallAt \/ next[j][v] \notin In
      BY <1>1 DEF ChainTypeOK, InstallAt, Installed, Tids
    <3> QED
      BY <3>1, NilAssumption
  <2> QED
    BY <2>1, InstallTurns
<1>3. \A k \in Keys : Installed(k)' = IF k = j THEN In \cup {iv} ELSE Installed(k)
  BY InstalledGrows
<1>4. \A k \in Keys : Installed(k) \in SUBSET Tasks
  BY DEF Installed
<1>5. /\ \A u \in Tasks : u \in Int /\ Snapshot < u
      /\ Snapshot \in Int
  BY BlockOrder DEF Snapshot
<1>6. /\ \A k \in Keys : /\ tail[k] = LastOf(Installed(k)) /\ next[k][tail[k]] = Nil
                         /\ \A t \in Installed(k) :
                               /\ prev[k][t] = LastOf({u \in Installed(k) : u < t})
                               /\ next[k][prev[k][t]] = t
  BY DEF PipelineInv, ChainsLinked
<1> HIDE DEF j, v, iv, In
<1>7. /\ next \in [Keys -> [Tids -> Tids \cup {Nil}]]
      /\ prev \in [Keys -> [Tids -> Tids \cup {Nil}]]
      /\ tail \in [Keys -> Tids] /\ iv \in Tids /\ iv # v
  <2>1. iv \in Int /\ v \in Int
    BY <1>1, <1>5 DEF Tids
  <2>2. iv \in Tids /\ iv # v
    BY <1>1, <2>1 DEF Tids
  <2>3. ChainTypeOK
    BY <1>1
  <2>4. /\ next \in [Keys -> [Tids -> Tids \cup {Nil}]]
        /\ prev \in [Keys -> [Tids -> Tids \cup {Nil}]]
        /\ tail \in [Keys -> Tids]
    BY <2>3 DEF ChainTypeOK
  <2> QED
    BY <2>2, <2>4
<1>8. \A x \in Tids : /\ next'[j][x] = IF x = v THEN iv ELSE IF x = iv THEN Nil ELSE next[j][x]
                      /\ prev'[j][x] = IF x = iv THEN v ELSE prev[j][x]
  BY <1>1, <1>2, <1>7
<1>9. ASSUME NEW k \in Keys, NEW Ik \in SUBSET Tasks,
             Ik = IF k = j THEN In \cup {iv} ELSE Installed(k)
      PROVE  /\ tail'[k] = LastOf(Ik) /\ next'[k][tail'[k]] = Nil
             /\ \A t \in Ik : /\ prev'[k][t] = LastOf({u \in Ik : u < t})
                              /\ next'[k][prev'[k][t]] = t
  <2>1. CASE k # j
    <3>1. next'[k] = next[k] /\ prev'[k] = prev[k] /\ tail'[k] = tail[k]
      BY <1>2, <1>7, <2>1
    <3> QED
      BY <1>6, <1>9, <2>1, <3>1
  <2>2. CASE k = j
    <3>1. /\ Ik = In \cup {iv} /\ In \in SUBSET Tasks
          /\ tail[j] = LastOf(In)
          /\ \A t \in In : /\ prev[j][t] = LastOf({u \in In : u < t})
                           /\ next[j][prev[j][t]] = t
      BY <1>1, <1>4, <1>6, <1>9, <2>2 DEF In
    <3>2. LastOf(Ik) = iv
      <4>1. iv \in Ik \cup {Snapshot} /\ \A u \in Ik : u <= iv
        BY <1>1, <1>5, <3>1
      <4> QED
        BY <4>1, LastOfUnique
    <3>3. tail'[k] = iv /\ next'[k][iv] = Nil
      BY <1>1, <1>2, <1>7, <1>8, <2>2
    <3>4. ASSUME NEW t \in In
          PROVE  /\ prev'[k][t] = LastOf({u \in Ik : u < t})
                 /\ next'[k][prev'[k][t]] = t
      <4>1. t \in Tasks /\ t \in Tids /\ t # iv /\ t < iv /\ t \in Int /\ iv \in Int
        BY <1>1, <1>5, <3>1 DEF Tids
      <4>2. {u \in Ik : u < t} = {u \in In : u < t}
        BY <1>5, <3>1, <4>1
      <4>3. prev'[j][t] = prev[j][t]
        BY <1>8, <4>1
      <4>4. {u \in In : u < t} \in SUBSET Tasks
        BY <3>1
      <4>5. prev[j][t] \in {u \in In : u < t} \cup {Snapshot}
        <5>1. prev[j][t] = LastOf({u \in In : u < t})
          BY <3>1
        <5> QED
          BY <4>4, <5>1, LastOfSpec
      <4>6. prev[j][t] \in Tids /\ prev[j][t] < t /\ prev[j][t] \in Int
        BY <1>5, <3>1, <4>1, <4>5 DEF Tids
      <4>7. t <= v /\ v \in Int
        BY <1>2, <1>5, <3>1, LastOfSpec
      <4>8. prev[j][t] # v /\ prev[j][t] # iv
        BY <4>1, <4>6, <4>7
      <4> QED
        BY <1>8, <2>2, <3>1, <4>2, <4>3, <4>6, <4>8
    <3>5. /\ prev'[k][iv] = LastOf({u \in Ik : u < iv})
          /\ next'[k][prev'[k][iv]] = iv
      <4>1. {u \in Ik : u < iv} = In
        BY <1>1, <1>5, <3>1 DEF In
      <4> QED
        BY <1>1, <1>2, <1>7, <1>8, <2>2, <4>1
    <3> QED
      BY <3>1, <3>2, <3>3, <3>4, <3>5
  <2> QED
    BY <2>1, <2>2
<1>10. ASSUME NEW k \in Keys
       PROVE  /\ tail'[k] = LastOf(Installed(k)') /\ next'[k][tail'[k]] = Nil
              /\ \A t \in Installed(k)' : /\ prev'[k][t] = LastOf({u \in Installed(k)' : u < t})
                                          /\ next'[k][prev'[k][t]] = t
  <2>1. Installed(k)' \in SUBSET Tasks
    BY DEF Installed
  <2>2. Installed(k)' = IF k = j THEN In \cup {iv} ELSE Installed(k)
    BY <1>3
  <2> HIDE DEF Installed
  <2> QED
    BY <1>9, <2>1, <2>2
<1> QED
  BY <1>10 DEF ChainsLinked

(* The chains stay linked.                                                 *)
LEMMA NextChains ==
    ASSUME PipelineInv, [PipelineNext]_allVars PROVE ChainsLinked'
<1>1. CASE Install /\ installing' = Nil
  BY <1>1, LinkedBehindLast
<1>2. CASE ~ (Install /\ installing' = Nil)
  <2>1. \A k \in Keys : Installed(k)' = Installed(k)
    BY <1>2, InstalledStays
  <2>2. next' = next /\ prev' = prev /\ tail' = tail
    BY <1>2, ChainShapes, InstallTurns DEF TransferRead, TransferWrite, InstallVersion
  <2>3. ASSUME NEW k \in Keys
        PROVE  /\ tail'[k] = LastOf(Installed(k)') /\ next'[k][tail'[k]] = Nil
               /\ \A t \in Installed(k)' : /\ prev'[k][t] = LastOf({u \in Installed(k)' : u < t})
                                           /\ next'[k][prev'[k][t]] = t
    BY <2>1, <2>2 DEF PipelineInv, ChainsLinked
  <2> QED
    BY <2>3 DEF ChainsLinked
<1> QED
  BY <1>1, <1>2

(***************************************************************************)
(* The snapshot's data.                                                    *)
(***************************************************************************)

(* After DoPrefetch the head has data, no head has lost it, and an integer *)
(* is cleared only if the head had none: a key that an earlier block wrote *)
(* was loaded with its first version.                                      *)
LEMMA PrefetchLoads ==
    ASSUME PipelineInv, NEW k \in Keys, DoPrefetch(k)
    PROVE  /\ k \in loaded' /\ loaded \subseteq loaded'
           /\ \A j \in Keys : clears'[j] # clears[j] => k \notin loaded /\ j \in Destroys[k]
           /\ loaded' \in SUBSET Keys
           /\ clears' \in [Keys -> Nat]
<1>1. loaded \in SUBSET Keys /\ clears \in [Keys -> Nat]
  BY TypeParts DEF PipelineInv, ChainTypeOK
<1>2. CASE k \in loaded
  BY <1>1, <1>2 DEF DoPrefetch
<1>3. CASE k \notin loaded /\ lastBlockTail[k] = Snapshot
  BY <1>1, <1>3 DEF DoPrefetch, SetVersion
<1>4. lastBlockTail[k] # Snapshot => k \in loaded
  <2> SUFFICES ASSUME lastBlockTail[k] # Snapshot PROVE k \in loaded
    OBVIOUS
  <2>1. lastBlockTail[k] \in Writers(Prepared, k)
    BY DEF PipelineInv, Bookkeeping, TailInv, IsLast
  <2>2. lastBlockTail[k] \in Installed(k)
    BY <2>1, PreparedInstalled DEF Writers, Prepared
  <2> QED
    BY <2>2 DEF PipelineInv, LoadInv, Installed
<1> QED
  BY <1>2, <1>3, <1>4

(* A head that is loaded stays so.                                         *)
LEMMA LoadedStays ==
    ASSUME PipelineInv, [PipelineNext]_allVars PROVE loaded \subseteq loaded'
<1>1. ASSUME NEW j \in Keys, DoPrefetch(j) PROVE loaded \subseteq loaded'
  BY <1>1, PrefetchLoads
<1>2. CASE Install
  BY <1>1, <1>2, InstallTurns
<1>3. ASSUME NEW t \in Tasks, NEW j \in Keys, TransferRead(t, j) \/ TransferWrite(t, j)
      PROVE  loaded \subseteq loaded'
  BY <1>1, <1>3 DEF TransferRead, TransferWrite, InstallVersion
<1> QED
  BY <1>2, <1>3, ChainShapes

(* What has been read or written stays loaded, and what is read or written *)
(* next is loaded by it.                                                   *)
LEMMA NextLoad ==
    ASSUME PipelineInv, [PipelineNext]_allVars PROVE LoadInv'
<1> SUFFICES ASSUME NEW k \in Keys, NEW t \in Tasks,
                    (<<"read", t, k>> \in transferred)' \/ t \in Installed(k)',
                    k \notin loaded
             PROVE  k \in loaded'
  BY LoadedStays DEF LoadInv
<1>1. <<"read", t, k>> \notin transferred /\ t \notin Installed(k)
  BY DEF PipelineInv, LoadInv
<1>2. CASE Install /\ installing' = Nil
  <2>1. transferred' = transferred /\ installing \in InstallAt
    BY <1>2, InstallTurns, TypeParts DEF lineVars, PipelineInv, ChainTypeOK
  <2>2. k = installing.key
    BY <1>1, <1>2, <2>1, InstalledGrows
  <2>3. ~ (installing' = [installing EXCEPT !.at = next[k][installing.at]]
           /\ next[k][installing.at] \in Installed(k))
    <3>1. [installing EXCEPT !.at = next[k][installing.at]] \in InstallAt
          \/ next[k][installing.at] \notin Installed(k)
      BY <2>1 DEF InstallAt, Installed, Tids
    <3> QED
      BY <1>2, <3>1, NilAssumption
  <2>4. DoPrefetch(k)
    BY <1>2, <2>2, <2>3, InstallTurns
  <2> QED
    BY <2>4, PrefetchLoads
<1>3. CASE ~ (Install /\ installing' = Nil)
  <2>1. Installed(k)' = Installed(k)
    BY <1>3, InstalledStays
  <2>2. <<"read", t, k>> \in transferred' \ transferred
    BY <1>1, <2>1
  <2>3. TransferRead(t, k)
    <3>1. ~ Install
      BY <2>2 DEF Install, lineVars
    <3>2. \A u \in Tasks, j \in Keys : ~ TransferWrite(u, j)
      BY <2>2 DEF TransferWrite
    <3>3. PICK u \in Tasks, j \in Keys : TransferRead(u, j)
      BY <2>2, <3>1, <3>2, ChainShapes
    <3>4. <<"read", t, k>> = <<"read", u, j>>
      BY <2>2, <3>3 DEF TransferRead
    <3> QED
      BY <3>3, <3>4
  <2> QED
    BY <2>3, PrefetchLoads DEF TransferRead
<1> QED
  BY <1>2, <1>3

(***************************************************************************)
(* The getters.                                                            *)
(***************************************************************************)

(* Every step, as the getters see it.                                      *)
LEMMA WalkShapes ==
    ASSUME [PipelineNext]_allVars
    PROVE  \/ walk' = walk
           \/ \E t \in Tasks : WalkBack(t) \/ \E k \in Keys : StartWalk(t, k)
<1>1. CASE UNCHANGED allVars
  BY <1>1 DEF allVars, chainVars
<1>2. CASE \E l \in Lines : LineStep(l)
  BY <1>2 DEF LineStep, Receive, Send, CloseAndDone, chainVars
<1>3. CASE GVCStep
  BY <1>3 DEF GVCStep, TransferRead, TransferWrite, InstallVersion, Install, InsertOrNext,
     Transferred, chainVars
<1>4. CASE LinkGraph \/ Schedule \/ Executed \/ Wait
  BY <1>4 DEF LinkGraph, Schedule, Executed, Wait, chainVars
<1>5. ASSUME NEW t \in Tasks, Process(t) PROVE walk' = walk
  BY <1>5 DEF Process, chainVars
<1> QED
  BY <1>1, <1>2, <1>3, <1>4, <1>5 DEF PipelineNext, Get, Ready

(* A step back leads to the version before, if the getter has not found a  *)
(* Committed one.                                                          *)
LEMMA StepBack ==
    ASSUME PipelineInv, NEW t \in Tasks, WalkBack(t)
    PROVE  LET k == walk[t].key
               v == walk[t].at
           IN  /\ walk[t] # Nil /\ k \in Keys /\ k \in Reads(t) /\ v \in Tids /\ pc[t] = "running"
               /\ \/ StatusOf(k, v) = "Committed" /\ walk' = [walk EXCEPT ![t] = Nil]
                  \/ /\ v \in Installed(k) /\ k \in Writes(v) /\ v < t
                     /\ status[v][k] # "Committed"
                     /\ walk' = [walk EXCEPT ![t].at = LastOf({u \in Installed(k) : u < v})]
<1> DEFINE k == walk[t].key
           v == walk[t].at
<1>1. walk[t] # Nil /\ walk[t] \in GetterAt
  BY TypeParts DEF WalkBack, PipelineInv, ChainTypeOK
<1>2. k \in Keys /\ v \in Tids
  BY <1>1 DEF GetterAt
<1>3. /\ pc[t] = "running" /\ k \in Reads(t)
      /\ v \in Writers({u \in Tasks : u < t}, k) \cup {Snapshot}
  BY <1>1 DEF PipelineInv, WalkInv
<1>4. IF StatusOf(k, v) = "Committed" THEN walk' = [walk EXCEPT ![t] = Nil]
                                      ELSE walk' = [walk EXCEPT ![t].at = prev[k][v]]
  BY DEF WalkBack
<1> HIDE DEF k, v
<1>5. CASE StatusOf(k, v) = "Committed"
  BY <1>1, <1>2, <1>3, <1>4, <1>5 DEF k, v
<1>6. CASE StatusOf(k, v) # "Committed"
  <2>1. v # Snapshot /\ status[v][k] # "Committed"
    BY <1>6 DEF StatusOf
  <2>2. v \in Tasks /\ v < t /\ k \in Writes(v)
    BY <1>3, <2>1 DEF Writers
  <2>3. v \in Installed(k)
    BY <1>3, <2>2, EarlierInstalled
  <2>4. prev[k][v] = LastOf({u \in Installed(k) : u < v})
    BY <1>2, <2>3 DEF PipelineInv, ChainsLinked
  <2> QED
    BY <1>1, <1>2, <1>3, <1>4, <1>6, <2>1, <2>2, <2>3, <2>4 DEF k, v
<1> QED
  BY <1>5, <1>6

(* The chains keep their types.                                            *)
LEMMA NextChainType ==
    ASSUME PipelineInv, [PipelineNext]_allVars PROVE ChainTypeOK'
<1>0. ChainTypeOK /\ TypeOK /\ LineTypeOK
  BY TypeParts DEF PipelineInv
<1>1. /\ next' \in [Keys -> [Tids -> Tids \cup {Nil}]]
      /\ prev' \in [Keys -> [Tids -> Tids \cup {Nil}]]
      /\ tail' \in [Keys -> Tids]
      /\ loaded' \in SUBSET Keys
      /\ clears' \in [Keys -> Nat]
      /\ installing' \in InstallAt \cup {Nil}
  <2>1. CASE UNCHANGED <<next, prev, tail, loaded, clears, installing>>
    BY <1>0, <2>1 DEF ChainTypeOK
  <2>2. ASSUME NEW t \in Tasks, NEW k \in Keys, TransferRead(t, k)
        PROVE  /\ UNCHANGED <<next, prev, tail, installing>>
               /\ loaded' \in SUBSET Keys
               /\ clears' \in [Keys -> Nat]
    BY <2>2, PrefetchLoads DEF TransferRead
  <2>3. ASSUME NEW t \in Tasks, NEW k \in Keys, TransferWrite(t, k)
        PROVE  UNCHANGED <<next, prev, tail, loaded, clears>> /\ installing' \in InstallAt
    BY <2>3 DEF TransferWrite, InstallVersion, InstallAt, Tids
  <2>4. CASE Install
    <3> DEFINE k == installing.key
               v == installing.at
               iv == installing.task
    <3>1. /\ k \in Keys /\ iv \in Tids /\ v \in Tids /\ installing \in InstallAt
      BY <1>0, <2>4, InstallTurns DEF Tids, ChainTypeOK
    <3>2. CASE /\ next' = [next EXCEPT ![k][iv] = Nil, ![k][v] = iv]
               /\ prev' = [prev EXCEPT ![k][iv] = v]
               /\ tail' = [tail EXCEPT ![k] = iv]
               /\ installing' = Nil
               /\ DoPrefetch(k)
      <4>1. /\ loaded' \in SUBSET Keys
            /\ clears' \in [Keys -> Nat]
        BY <3>1, <3>2, PrefetchLoads
      <4> HIDE DEF k, v, iv
      <4> QED
        BY <1>0, <3>1, <3>2, <4>1 DEF ChainTypeOK
    <3>3. CASE /\ next[k][v] \in Installed(k)
               /\ installing' = [installing EXCEPT !.at = next[k][v]]
               /\ UNCHANGED <<next, prev, tail, loaded, clears>>
      <4>1. next[k][v] \in Tids
        BY <3>3 DEF Installed, Tids
      <4>2. installing' \in InstallAt
        BY <3>1, <3>3, <4>1 DEF InstallAt
      <4> QED
        BY <1>0, <3>3, <4>2 DEF ChainTypeOK
    <3> QED
      BY <2>4, <3>2, <3>3, InstallTurns
  <2> QED
    BY <1>0, <2>1, <2>2, <2>3, <2>4, ChainShapes DEF ChainTypeOK
<1>2. walk' \in [Tasks -> GetterAt \cup {Nil}]
  <2>0. walk \in [Tasks -> GetterAt \cup {Nil}]
    BY <1>0 DEF ChainTypeOK
  <2>1. ASSUME NEW t \in Tasks, NEW k \in Keys, StartWalk(t, k)
        PROVE  walk' \in [Tasks -> GetterAt \cup {Nil}]
    BY <1>0, <2>0, <2>1 DEF StartWalk, GetterAt, TypeOK
  <2>2. ASSUME NEW t \in Tasks, WalkBack(t) PROVE walk' \in [Tasks -> GetterAt \cup {Nil}]
    <3> DEFINE before == LastOf({u \in Installed(walk[t].key) : u < walk[t].at})
    <3>1. walk' = [walk EXCEPT ![t] = Nil] \/ walk' = [walk EXCEPT ![t].at = before]
      BY <2>2, StepBack
    <3>2. walk[t] # Nil /\ walk[t] \in GetterAt
      BY <2>0, <2>2 DEF WalkBack
    <3>3. before \in Tids
      <4>1. {u \in Installed(walk[t].key) : u < walk[t].at} \in SUBSET Tasks
        BY DEF Installed
      <4> QED
        BY <4>1, LastOfSpec DEF Tids
    <3> HIDE DEF before
    <3>4. [walk[t] EXCEPT !.at = before] \in GetterAt
      BY <3>2, <3>3 DEF GetterAt
    <3>5. [walk EXCEPT ![t].at = before] = [walk EXCEPT ![t] = [walk[t] EXCEPT !.at = before]]
      BY <2>0
    <3> QED
      BY <2>0, <3>1, <3>4, <3>5
  <2> QED
    BY <2>0, <2>1, <2>2, WalkShapes
<1> QED
  BY <1>1, <1>2 DEF ChainTypeOK

(* A transaction that is in a getter does nothing else.                    *)
LEMMA GettingStays ==
    ASSUME PipelineInv, [PipelineNext]_allVars, NEW t \in Tasks, walk[t] # Nil
    PROVE  pc'[t] = "running" /\ \A k \in Keys : status'[t][k] = status[t][k]
<1>0. /\ TypeOK /\ pc[t] = "running"
      /\ pc \in [Tasks -> Stages] /\ status \in [Tasks -> [Keys -> Statuses]]
  BY TypeParts DEF PipelineInv, WalkInv, TypeOK
<1>1. CASE UNCHANGED <<pc, status>>
  BY <1>0, <1>1
<1>2. ASSUME NEW l \in Lines, LineStep(l) PROVE UNCHANGED <<pc, status>>
  BY <1>2 DEF LineStep, Receive, Send, CloseAndDone, vars
<1>3. CASE Transferred
  <2>1. PrepareBlock(holding[GVCLine])
    BY <1>3, TransferredPrepares
  <2>2. Block[t] # holding[GVCLine]
    BY <1>0, <2>1 DEF PrepareBlock, InBlock
  <2> QED
    BY <1>0, <2>1, <2>2 DEF PrepareBlock
<1>4. CASE LinkGraph \/ Schedule
  BY <1>0, <1>4 DEF LinkGraph, LinkBlock, Schedule, ScheduleBlock, InBlock
<1>5. ASSUME NEW u \in Tasks, Process(u)
      PROVE  pc'[t] = "running" /\ \A k \in Keys : status'[t][k] = status[t][k]
  <2>1. u # t /\ Work(u)
    BY <1>5 DEF Process
  <2>2. pc'[t] = pc[t] /\ status'[t] = status[t]
    BY <1>0, <2>1 DEF Work, PopTask, WaitVersion, StartTask, RejectTask, CommitLocalWrite,
       TotallyAbort, ResolveVersion, EndTask
  <2> QED
    BY <1>0, <2>2
<1>6. CASE \E u \in Tasks : Get(u)
  BY <1>1, <1>6 DEF Get, StartWalk, WalkBack, vars
<1>7. CASE \E u \in Tasks, k \in Keys : TransferRead(u, k) \/ TransferWrite(u, k)
  BY <1>1, <1>7 DEF TransferRead, TransferWrite, vars
<1>8. CASE Install \/ Executed \/ Wait \/ UNCHANGED allVars
  BY <1>1, <1>8 DEF Install, Executed, Wait, allVars, vars
<1> QED
  BY <1>1, <1>2, <1>3, <1>4, <1>5, <1>6, <1>7, <1>8 DEF PipelineNext, GVCStep, Ready

(* Where a getter can be after a step.                                     *)
LEMMA GetterMoves ==
    ASSUME PipelineInv, [PipelineNext]_allVars, NEW t \in Tasks, walk'[t] # Nil
    PROVE  LET k == walk'[t].key
               v == walk'[t].at
           IN  \/ walk'[t] = walk[t]
               \/ StartWalk(t, k) /\ v = readVersion[t][k] /\ k \in Keys
               \/ /\ walk[t] # Nil /\ walk[t].key = k /\ k \in Keys
                  /\ walk[t].at \in Installed(k) /\ k \in Writes(walk[t].at) /\ walk[t].at < t
                  /\ status[walk[t].at][k] # "Committed"
                  /\ v = LastOf({u \in Installed(k) : u < walk[t].at})
<1>0. walk \in [Tasks -> GetterAt \cup {Nil}]
  BY TypeParts DEF PipelineInv, ChainTypeOK
<1>1. ASSUME NEW k \in Keys, StartWalk(t, k)
      PROVE  walk'[t].key = k /\ walk'[t].at = readVersion[t][k]
  BY <1>0, <1>1 DEF StartWalk
<1>2. ASSUME NEW u \in Tasks, NEW k \in Keys, StartWalk(u, k), u # t
      PROVE  walk'[t] = walk[t]
  BY <1>0, <1>2 DEF StartWalk
<1>3. ASSUME NEW u \in Tasks, WalkBack(u), u # t
      PROVE  walk'[t] = walk[t]
  BY <1>0, <1>3 DEF WalkBack
<1>4. ASSUME WalkBack(t)
      PROVE  LET k == walk'[t].key
                 v == walk'[t].at
             IN  /\ walk[t] # Nil /\ walk[t].key = k /\ k \in Keys
                 /\ walk[t].at \in Installed(k) /\ k \in Writes(walk[t].at) /\ walk[t].at < t
                 /\ status[walk[t].at][k] # "Committed"
                 /\ v = LastOf({u \in Installed(k) : u < walk[t].at})
  <2> DEFINE before == LastOf({u \in Installed(walk[t].key) : u < walk[t].at})
  <2>1. /\ walk[t] # Nil /\ walk[t] \in GetterAt /\ walk[t].key \in Keys
        /\ walk' # [walk EXCEPT ![t] = Nil]
    BY <1>0, <1>4, StepBack DEF GetterAt
  <2>2. /\ walk[t].at \in Installed(walk[t].key) /\ walk[t].key \in Writes(walk[t].at)
        /\ walk[t].at < t /\ status[walk[t].at][walk[t].key] # "Committed"
        /\ walk' = [walk EXCEPT ![t].at = before]
    BY <1>4, <2>1, StepBack
  <2> HIDE DEF before
  <2>3. walk'[t] = [walk[t] EXCEPT !.at = before]
    BY <1>0, <2>2
  <2>4. walk'[t].key = walk[t].key /\ walk'[t].at = before
    BY <2>1, <2>3 DEF GetterAt
  <2> QED
    BY <2>1, <2>2, <2>4 DEF before
<1> QED
  BY <1>1, <1>2, <1>3, <1>4, WalkShapes

(* A getter stays at a version before its task.                            *)
LEMMA NextWalk ==
    ASSUME PipelineInv, [PipelineNext]_allVars PROVE WalkInv'
<1> SUFFICES ASSUME NEW t \in Tasks, walk'[t] # Nil
             PROVE  LET k == walk'[t].key
                        v == walk'[t].at
                    IN  /\ pc'[t] = "running" /\ k \in Reads(t)
                        /\ v \in Writers({u \in Tasks : u < t}, k) \cup {Snapshot}
  <2>1. load' = load
    BY LoadStays
  <2> QED
    BY <2>1 DEF WalkInv, Reads, Writes, Writers
<1> DEFINE k == walk'[t].key
           v == walk'[t].at
<1>1. CASE walk'[t] = walk[t]
  BY <1>1, GettingStays DEF PipelineInv, WalkInv
<1>2. CASE StartWalk(t, k) /\ v = readVersion[t][k] /\ k \in Keys
  <2>1. pc[t] = "running" /\ pc' = pc /\ k \in Reads(t)
    BY <1>2 DEF StartWalk, vars
  <2>2. t \in Linked
    BY <2>1 DEF Linked
  <2>3. IsLast(readVersion[t][k], {u \in Tasks : u < t}, k)
    BY <1>2, <2>1, <2>2 DEF PipelineInv, Bookkeeping, LinkInv
  <2> QED
    BY <1>2, <2>1, <2>3 DEF IsLast
<1>3. CASE /\ walk[t] # Nil /\ walk[t].key = k /\ k \in Keys
           /\ walk[t].at \in Installed(k) /\ k \in Writes(walk[t].at) /\ walk[t].at < t
           /\ status[walk[t].at][k] # "Committed"
           /\ v = LastOf({u \in Installed(k) : u < walk[t].at})
  <2> DEFINE S == {u \in Installed(k) : u < walk[t].at}
  <2>1. pc'[t] = "running" /\ k \in Reads(t)
    BY <1>3, GettingStays DEF PipelineInv, WalkInv
  <2>2. S \in SUBSET Tasks /\ v \in S \cup {Snapshot}
    <3>1. S \in SUBSET Tasks
      BY DEF Installed
    <3> HIDE DEF S
    <3>2. v = LastOf(S)
      BY <1>3 DEF S
    <3> QED
      BY <3>1, <3>2, LastOfSpec
  <2>3. ASSUME NEW u \in S PROVE u \in Writers({x \in Tasks : x < t}, k)
    <3>1. u \in Tasks /\ <<"write", u, k>> \in transferred /\ u < walk[t].at
      BY DEF Installed
    <3>2. k \in Writes(u)
      BY <1>3, <3>1, TransferredPredicted DEF PipelineInv
    <3>3. u < t
      <4>1. walk[t].at \in Tasks
        BY <1>3 DEF Installed
      <4> QED
        BY <1>3, <3>1, <4>1, BlockOrder
    <3> QED
      BY <3>1, <3>2, <3>3 DEF Writers
  <2> QED
    BY <2>1, <2>2, <2>3
<1> QED
  BY <1>1, <1>2, <1>3, GetterMoves

(***************************************************************************)
(* The invariant.                                                          *)
(***************************************************************************)

(* At the start the lines have taken nothing and the chains are bare heads.*)
LEMMA InitPipeline == PipelineInit => PipelineInv
<1> SUFFICES ASSUME PipelineInit PROVE PipelineInv
  OBVIOUS
<1>0. /\ Init /\ ChainInit
      /\ closed = {GVCLine} /\ at = [l \in Lines |-> "range"]
      /\ holding = [l \in Lines |-> END]
      /\ wg = 4 /\ transferred = {} /\ returned = FALSE
      /\ NBlocks \in Nat
  BY BlockNumbers DEF PipelineInit, Started
<1>1. Bookkeeping
  BY <1>0, InitBookkeeping
<1> DEFINE first == [i \in 1 .. NBlocks |-> i - 1]
<1>2. /\ first \o <<END>> \in Seq(Blocks \cup {END})
      /\ Len(first \o <<END>>) = NBlocks + 1
      /\ \A i \in 1 .. NBlocks + 1 : (first \o <<END>>)[i] = Stream(i - 1)
  <2>1. \A i \in 1 .. NBlocks : i - 1 \in Blocks
    BY <1>0, BlockNumbers
  <2>2. first \in Seq(Blocks \cup {END}) /\ Len(first) = NBlocks
    BY <1>0, <2>1
  <2>3. <<END>> \in Seq(Blocks \cup {END}) /\ Len(<<END>>) = 1 /\ <<END>>[1] = END
    OBVIOUS
  <2>4. \A i \in 1 .. NBlocks : first[i] = i - 1
    OBVIOUS
  <2> HIDE DEF first
  <2>5. /\ first \o <<END>> \in Seq(Blocks \cup {END})
        /\ Len(first \o <<END>>) = NBlocks + 1
        /\ \A i \in 1 .. NBlocks + 1 :
              (first \o <<END>>)[i] = IF i <= NBlocks THEN first[i] ELSE <<END>>[i - NBlocks]
    BY <1>0, <2>2, <2>3, ConcatProperties
  <2> QED
    BY <1>0, <2>3, <2>4, <2>5 DEF Stream
<1>3. chan = [l \in Lines |-> IF l = GVCLine THEN first \o <<END>> ELSE <<>>]
  BY DEF PipelineInit
<1> HIDE DEF first
<1>4. /\ chan[GVCLine] = first \o <<END>>
      /\ \A l \in Lines : l # GVCLine => chan[l] = <<>>
      /\ chan \in [Lines -> Seq(Blocks \cup {END})]
  <2>1. <<>> \in Seq(Blocks \cup {END})
    OBVIOUS
  <2> DEFINE c == first \o <<END>>
  <2>2. c \in Seq(Blocks \cup {END}) /\ chan = [l \in Lines |-> IF l = GVCLine THEN c ELSE <<>>]
    BY <1>2, <1>3
  <2> HIDE DEF c
  <2>3. /\ chan[GVCLine] = c
        /\ \A l \in Lines : l # GVCLine => chan[l] = <<>>
        /\ chan \in [Lines -> Seq(Blocks \cup {END})]
    BY <2>1, <2>2, LineNames
  <2> QED
    BY <2>3 DEF c
<1>5. \A l \in Lines : Taken(l) = 0 /\ Handled(l) = 0 /\ Passed(l) = 0
  BY <1>0 DEF Taken, Handled, Passed
<1>6. StreamInv
  <2> SUFFICES ASSUME NEW l \in Lines
               PROVE  /\ Len(chan[l]) = Produced(l) - Taken(l)
                      /\ \A i \in 1 .. Len(chan[l]) : chan[l][i] = Stream(Taken(l) + i - 1)
    BY DEF StreamInv
  <2>1. CASE l = GVCLine
    BY <1>0, <1>2, <1>4, <1>5, <2>1 DEF Produced
  <2>2. CASE l # GVCLine
    <3>1. Produced(l) = 0
      BY <1>5, <2>2, LineNames DEF Produced
    <3>2. Len(chan[l]) = 0
      BY <1>4, <2>2
    <3> QED
      BY <1>5, <3>1, <3>2
  <2> QED
    BY <2>1, <2>2
<1>7. LineTypeOK /\ EndInv
  <2>1. {l \in Lines : at[l] # "gone"} = 1 .. 4
    BY <1>0 DEF Lines
  <2>2. wg = Cardinality({l \in Lines : at[l] # "gone"})
    <3>1. ASSUME NEW a \in Int, NEW b \in Int, a = 1, b = 4
          PROVE  Cardinality(a .. b) = 4
      <4>1. Cardinality(a .. b) = IF a > b THEN 0 ELSE b - a + 1
        BY FS_Interval, Zenon
      <4>2. ~ (a > b) /\ b - a + 1 = 4
        BY <3>1
      <4> QED
        BY <4>1, <4>2, Zenon
    <3>2. 1 \in Int /\ 4 \in Int
      OBVIOUS
    <3>3. Cardinality(1 .. 4) = 4
      BY <3>1, <3>2, Zenon
    <3> QED
      BY <1>0, <2>1, <3>3
  <2>3. \A l \in Lines : l \in closed <=> l = GVCLine \/ at[l - 1] = "gone"
    BY <1>0, LineNames
  <2>4. LineTypeOK
    <3>1. closed \in SUBSET Lines /\ wg \in 0 .. 4 /\ returned \in BOOLEAN
      <4>1. closed \in SUBSET Lines
        <5>1. GVCLine \in Lines
          BY LineNames
        <5> QED
          BY <1>0, <5>1
      <4>2. wg \in 0 .. 4
        <5>1. wg = 4
          BY <1>0
        <5> QED
          BY <5>1
      <4>3. returned \in BOOLEAN
        BY <1>0, Zenon
      <4> QED
        BY <4>1, <4>2, <4>3
    <3>2. holding \in [Lines -> Blocks \cup {END}]
      BY <1>0
    <3>3. at \in [Lines -> {"range", "working", "sending", "closing", "gone"}]
      BY <1>0
    <3> QED
      BY <1>4, <3>1, <3>2, <3>3 DEF LineTypeOK
  <2>5. at[ExecuteLine] # "sending"
    BY <1>0, LineNames
  <2>6. \A l \in Lines : at[l] = "range"
    BY <1>0
  <2>7. EndInv
    BY <1>0, <2>2, <2>3, <2>5, <2>6 DEF EndInv
  <2> QED
    BY <2>4, <2>7
<1>8. PlaceInv
  <2>1. /\ \A t \in Tasks : pc[t] = "new" /\ Block[t] \in Nat
        /\ executing = 0 /\ holding[ExecuteLine] = END
    BY <1>0, LineNames, BlockNumbers DEF Init
  <2>2. \A l \in Lines : Handled(l) = 0
    BY <1>5
  <2> HIDE DEF Handled
  <2> QED
    BY <2>1, <2>2, LineNames DEF PlaceInv
<1>9. TransferInv
  BY <1>0, <1>5, LineNames, BlockNumbers DEF TransferInv
<1>10. ChainTypeOK /\ InstallInv /\ WalkInv
  BY <1>0 DEF ChainInit, ChainTypeOK, InstallInv, WalkInv, Tids
<1>11. \A k : Installed(k) = {}
  BY <1>0 DEF Installed
<1>12. ChainsLinked
  <2>1. LastOf({}) = Snapshot
    <3>1. {} \in SUBSET Tasks /\ Snapshot \in {} \cup {Snapshot}
      OBVIOUS
    <3> QED
      BY <3>1, LastOfUnique
  <2> QED
    BY <1>0, <1>11, <2>1 DEF ChainsLinked, ChainInit, Tids
<1>13. LoadInv
  BY <1>0, <1>11 DEF LoadInv
<1>14. PipelineTypeOK
  BY <1>0, <1>1, <1>7, <1>10, TypeParts DEF Bookkeeping
<1> QED
  BY <1>1, <1>6, <1>7, <1>8, <1>9, <1>10, <1>12, <1>13, <1>14 DEF PipelineInv

(* Every step keeps it.                                                    *)
LEMMA NextPipeline == PipelineInv /\ [PipelineNext]_allVars => PipelineInv'
<1> SUFFICES ASSUME PipelineInv, [PipelineNext]_allVars PROVE PipelineInv'
  OBVIOUS
<1>1. LineTypeOK /\ StreamInv /\ EndInv
  BY TypeParts DEF PipelineInv
<1>2. StreamInv' /\ EndInv' /\ LineTypeOK'
  BY <1>1, NextStream, NextEnd
<1>3. PlaceInv' /\ TransferInv' /\ transferred' \subseteq {"read", "write"} \X Tasks \X Keys
  BY NextPlace, NextTransfer
<1>4. InstallInv' /\ ChainsLinked' /\ LoadInv' /\ WalkInv' /\ ChainTypeOK'
  BY NextInstall, NextChains, NextLoad, NextWalk, NextChainType
<1>5. Bookkeeping'
  BY PipelineBookkeeping
<1>6. PipelineTypeOK'
  BY <1>2, <1>3, <1>4, <1>5 DEF PipelineTypeOK, LineTypeOK, Bookkeeping
<1> QED
  BY <1>2, <1>3, <1>4, <1>5, <1>6 DEF PipelineInv

(* The lines, their channels, the chains and the getters stay in step, in  *)
(* every run of every batch.                                               *)
THEOREM PipelineInvariantCorrect == PipelineSpec => []PipelineInv
  BY InitPipeline, NextPipeline, PTL DEF PipelineSpec

(* No line ever waits for room in a channel or sends on a closed one, and  *)
(* the wait group counts those that have still to leave.                   *)
THEOREM ChannelsNeverBlockCorrect == PipelineSpec => []ChannelsNeverBlock
<1>1. PipelineInv => ChannelsNeverBlock
  <2> SUFFICES ASSUME PipelineInv PROVE ChannelsNeverBlock
    OBVIOUS
  <2>1. LineTypeOK /\ EndInv /\ StreamInv /\ PipelineTypeOK
    BY TypeParts DEF PipelineInv
  <2>2. ASSUME NEW l \in Lines, at[l] \in {"sending", "closing"} PROVE l + 1 \notin closed
    <3>1. CASE l = ExecuteLine
      <4>1. l + 1 \notin Lines
        BY <3>1, LineNames
      <4> QED
        BY <2>1, <4>1 DEF LineTypeOK
    <3>2. CASE l # ExecuteLine
      <4>1. l + 1 \in Lines /\ l + 1 # GVCLine /\ (l + 1) - 1 = l
        <5>1. l \in {1, 2, 3}
          BY <3>2, LineNames
        <5> QED
          BY <5>1, LineNames
      <4> QED
        BY <2>1, <2>2, <4>1 DEF EndInv
    <3> QED
      BY <3>1, <3>2
  <2>3. ASSUME NEW l \in Lines, at[l] = "sending" PROVE Len(chan[l + 1]) < Capacity
    <3>1. l # ExecuteLine
      BY <2>1, <2>3 DEF EndInv
    <3>2. l + 1 \in Lines /\ l + 1 # GVCLine /\ (l + 1) - 1 = l
      <4>1. l \in {1, 2, 3}
        BY <3>1, LineNames
      <4> QED
        BY <4>1, LineNames
    <3>3. Len(chan[l + 1]) = Passed(l) - Taken(l + 1)
      BY <2>1, <3>2 DEF StreamInv, Produced
    <3>4. Passed(l) \in 0 .. NBlocks + 1 /\ Taken(l + 1) \in 0 .. NBlocks + 1
      BY <2>1, <3>2, Positions
    <3> HIDE DEF Passed, Taken
    <3> QED
      BY <3>3, <3>4, BlockNumbers DEF Capacity
  <2> QED
    BY <2>1, <2>2, <2>3 DEF ChannelsNeverBlock, EndInv
<1> QED
  BY PipelineInvariantCorrect, <1>1, PTL

(* When wg.Wait returns every transaction has been executed and nothing is *)
(* left in a channel.                                                      *)
THEOREM ReturnsWhenDoneCorrect == PipelineSpec => []ReturnsWhenDone
<1>1. PipelineInv => ReturnsWhenDone
  <2> SUFFICES ASSUME PipelineInv, returned PROVE AllEnded /\ \A l \in Lines : chan[l] = <<>>
    BY DEF ReturnsWhenDone
  <2>1. LineTypeOK /\ EndInv /\ StreamInv /\ PlaceInv
    BY TypeParts DEF PipelineInv
  <2>2. \A l \in Lines : at[l] = "gone" /\ holding[l] = END
    BY <2>1 DEF EndInv
  <2>3. \A l \in Lines : /\ Taken(l) = NBlocks + 1 /\ Handled(l) = NBlocks + 1
                         /\ Passed(l) = NBlocks + 1
    BY <2>2 DEF Taken, Handled, Passed
  <2>4. AllEnded
    BY <2>1, <2>3, BlockNumbers, LineNames DEF AllEnded, PlaceInv
  <2>5. ASSUME NEW l \in Lines PROVE chan[l] = <<>>
    <3>1. Produced(l) = NBlocks + 1
      BY <2>3, LineNames DEF Produced
    <3>2. Len(chan[l]) = 0
      BY <2>1, <2>3, <3>1, BlockNumbers DEF StreamInv
    <3> QED
      BY <2>1, <3>2, EmptySeq DEF LineTypeOK
  <2> QED
    BY <2>4, <2>5
<1> QED
  BY PipelineInvariantCorrect, <1>1, PTL

(* Every chain is doubly linked and ascending and holds what GVCLine has   *)
(* installed, also in the middle of a block and under the getters.         *)
THEOREM ChainsLinkedCorrect == PipelineSpec => []ChainsLinked
<1>1. PipelineInv => ChainsLinked
  BY DEF PipelineInv
<1> QED
  BY PipelineInvariantCorrect, <1>1, PTL

(* A getter that walks back to the head finds data there.                  *)
THEOREM LoadedBeforeReadCorrect == PipelineSpec => []LoadedBeforeRead
<1>1. PipelineInv => LoadedBeforeRead
  <2> SUFFICES ASSUME PipelineInv, NEW t \in Tasks, walk[t] # Nil
               PROVE  walk[t].at # Nil /\ walk[t].key \in loaded
    BY DEF LoadedBeforeRead
  <2>1. /\ pc[t] = "running" /\ walk[t] \in GetterAt /\ walk[t].key \in Reads(t)
        /\ LineTypeOK /\ EndInv /\ PlaceInv /\ TransferInv
    BY TypeParts DEF PipelineInv, WalkInv, ChainTypeOK
  <2>2. walk[t].at \in Tids /\ walk[t].key \in Keys
    BY <2>1 DEF GetterAt
  <2>3. Block[t] < Handled(GVCLine)
    <3>1. ~ (Handled(GVCLine) <= Block[t])
      BY <2>1 DEF PlaceInv
    <3>2. Handled(GVCLine) \in 0 .. NBlocks + 1 /\ Block[t] \in Nat
      BY <2>1, Positions, LineNames, BlockNumbers
    <3> QED
      BY <3>1, <3>2, BlockNumbers
  <2>4. <<"read", t, walk[t].key>> \in transferred
    BY <2>1, <2>3, OfMembers DEF TransferInv
  <2> QED
    BY <2>2, <2>4, NilAssumption DEF PipelineInv, LoadInv
<1> QED
  BY PipelineInvariantCorrect, <1>1, PTL

(* What has been loaded when a block is prepared: all that it reads and    *)
(* writes, and what the blocks before it do.                               *)
LEMMA PreparedLoaded ==
    ASSUME PipelineInv, NEW t \in Tasks, Block[t] < Handled(GVCLine)
    PROVE  Uses(t) \subseteq loaded
<1> SUFFICES ASSUME NEW k \in Uses(t) PROVE k \in loaded
  OBVIOUS
<1>1. k \in Keys /\ Of(t) \subseteq transferred
  BY FootprintKeys DEF Uses, PipelineInv, Bookkeeping, TransferInv
<1>2. CASE k \in Reads(t)
  <2>1. <<"read", t, k>> \in transferred
    BY <1>1, <1>2, OfMembers
  <2> QED
    BY <1>1, <2>1 DEF PipelineInv, LoadInv
<1>3. CASE k \in Writes(t)
  <2>1. <<"write", t, k>> \in transferred
    BY <1>1, <1>3, OfMembers
  <2>2. installing # Nil => <<installing.task, installing.key>> # <<t, k>>
    <3>1. installing # Nil => Handled(GVCLine) = Block[installing.task]
      <4> SUFFICES ASSUME installing # Nil PROVE Handled(GVCLine) = Block[installing.task]
        OBVIOUS
      <4>1. /\ at[GVCLine] = "working" /\ holding[GVCLine] = Block[installing.task]
            /\ LineTypeOK /\ EndInv
        BY TypeParts DEF PipelineInv, InstallInv, Working
      <4>2. holding[GVCLine] # END
        BY <4>1, LineNames DEF EndInv
      <4>3. installing.task \in Tasks
        BY TypeParts DEF PipelineInv, ChainTypeOK, InstallAt
      <4> QED
        BY <4>1, <4>2, <4>3, BlockNumbers DEF Handled, Taken
    <3>2. Block[t] \in Nat
      BY BlockNumbers
    <3> QED
      BY <3>1, <3>2
  <2>3. t \in Installed(k)
    BY <2>1, <2>2 DEF Installed
  <2> QED
    BY <1>1, <2>3 DEF PipelineInv, LoadInv
<1> QED
  BY <1>2, <1>3 DEF Uses

(* An integer is cleared when a transaction of GVCLine's block is the      *)
(* first to use the key that clears it.                                    *)
LEMMA ClearedByLoading ==
    ASSUME PipelineInv, [PipelineNext]_allVars, NEW j \in Keys, clears'[j] # clears[j]
    PROVE  \E k \in Keys, u \in Tasks : j \in Destroys[k] /\ k \in Uses(u) /\ k \notin loaded
<1>1. ASSUME NEW k \in Keys, DoPrefetch(k), NEW u \in Tasks, k \in Uses(u)
      PROVE  j \in Destroys[k] /\ k \in Uses(u) /\ k \notin loaded
  BY <1>1, PrefetchLoads
<1>2. ASSUME NEW u \in Tasks, NEW k \in Keys, TransferRead(u, k)
      PROVE  DoPrefetch(k) /\ k \in Uses(u)
  BY <1>2, OfMembers DEF TransferRead, Uses
<1>3. \A u \in Tasks, k \in Keys : ~ TransferWrite(u, k)
  BY DEF TransferWrite, InstallVersion
<1>4. CASE Install
  <2>1. /\ installing # Nil /\ installing.key \in Keys /\ installing.task \in Tasks
        /\ DoPrefetch(installing.key)
    BY <1>4, InstallTurns
  <2>2. installing.key \in Uses(installing.task)
    BY <2>1 DEF PipelineInv, InstallInv, TransferInv, Uses
  <2> QED
    BY <1>1, <2>1, <2>2
<1> QED
  BY <1>1, <1>2, <1>3, <1>4, ChainShapes

(* If the batch asks for liveness first, loading clears no balance that a  *)
(* running transaction holds or an earlier one has stored.                 *)
THEOREM ClearedBeforeUseCorrect == PipelineSpec => ClearedBeforeUse
<1>1. PipelineInv /\ [PipelineNext]_allVars => [LivenessFirst => Preserved]_allVars
  <2> SUFFICES ASSUME PipelineInv, [PipelineNext]_allVars, LivenessFirst,
                      NEW t \in Tasks, pc[t] \in {"running", "resolving", "done"},
                      NEW j \in Uses(t), clears'[j] # clears[j]
               PROVE  FALSE
    BY DEF Preserved
  <2>1. LineTypeOK /\ EndInv /\ PlaceInv /\ j \in Keys
    BY TypeParts, FootprintKeys DEF PipelineInv, Uses, Bookkeeping
  <2>2. PICK k \in Keys, u \in Tasks : j \in Destroys[k] /\ k \in Uses(u) /\ k \notin loaded
    BY <2>1, ClearedByLoading
  <2>3. PICK w \in Tasks : k \in Uses(w) /\ Block[w] <= Block[t]
    BY <2>1, <2>2 DEF LivenessFirst
  <2>4. Block[w] < Handled(GVCLine)
    <3>1. ~ (Handled(GVCLine) <= Block[t])
      BY <2>1 DEF PlaceInv
    <3>2. Handled(GVCLine) \in 0 .. NBlocks + 1 /\ Block[t] \in Nat /\ Block[w] \in Nat
      BY <2>1, Positions, LineNames, BlockNumbers
    <3> QED
      BY <2>3, <3>1, <3>2, BlockNumbers
  <2> QED
    BY <2>2, <2>3, <2>4, PreparedLoaded
<1> QED
  BY PipelineInvariantCorrect, <1>1, PTL DEF PipelineSpec, ClearedBeforeUse

(***************************************************************************)
(* The lines, the chains and the getters implement Execution.              *)
(***************************************************************************)

(* Versions are numbered.                                                  *)
LEMMA TidNumbers ==
    /\ Snapshot \in Int
    /\ \A v \in Tids : v \in Int
    /\ \A u \in Tasks : u \in Int /\ Snapshot < u
<1>1. Snapshot \in Int
  BY DEF Snapshot
<1>2. \A u \in Tasks : u \in Int /\ Snapshot < u
  BY BlockOrder
<1> QED
  BY <1>1, <1>2 DEF Tids

(* A version that a getter has passed stays without effect: it was         *)
(* resolved when the transaction began.                                    *)
LEMMA NextPassed ==
    ASSUME PipelineIInv, [PipelineNext]_allVars PROVE PassedInv'
<1> SUFFICES ASSUME NEW t \in Tasks, walk'[t] # Nil,
                    NEW u \in Writers(Tasks, walk'[t].key), walk'[t].at < u, u < t
             PROVE  status'[u][walk'[t].key] # "Committed"
  <2>1. load' = load
    BY LoadStays DEF PipelineIInv
  <2> QED
    BY <2>1 DEF PassedInv, Writers, Writes
<1> DEFINE k == walk'[t].key
           v == walk'[t].at
<1>0. /\ PipelineInv /\ TypeOK /\ StatusInv /\ SettledInv /\ PassedInv
      /\ u \in Tasks /\ k \in Writes(u) /\ u \in Int
  BY BlockOrder DEF PipelineIInv, PipelineInv, IInv, Bookkeeping, Writers
<1>1. ASSUME walk[t] # Nil, walk[t].key = k, k \in Keys, status[u][k] # "Committed"
      PROVE  status'[u][k] # "Committed"
  <2>1. pc[t] = "running" /\ k \in Reads(t)
    BY <1>0, <1>1 DEF PipelineInv, WalkInv
  <2>2. Resolved(u, k)
    BY <1>0, <2>1 DEF SettledInv, Begun
  <2>3. status'[u][k] = status[u][k]
    BY <1>0, <1>1, <2>2, TaskShapes, ResolvedStays DEF Returns
  <2> QED
    BY <1>1, <2>3
<1>2. CASE walk'[t] = walk[t]
  <2>1. walk[t] \in GetterAt
    BY <1>2, TypeParts DEF PipelineIInv, PipelineInv, ChainTypeOK
  <2>2. k \in Keys
    BY <1>2, <2>1 DEF GetterAt
  <2>3. status[u][k] # "Committed"
    BY <1>0, <1>2 DEF PassedInv
  <2> QED
    BY <1>1, <1>2, <2>2, <2>3
<1>3. CASE StartWalk(t, k) /\ v = readVersion[t][k] /\ k \in Keys
  <2>1. pc[t] = "running" /\ k \in Reads(t) /\ t \in Linked
    BY <1>3 DEF StartWalk, Linked
  <2>2. IsLast(readVersion[t][k], {x \in Tasks : x < t}, k)
    BY <1>3, <2>1 DEF PipelineIInv, PipelineInv, Bookkeeping, LinkInv
  <2>3. u <= v
    BY <1>0, <1>3, <2>2 DEF IsLast, Writers
  <2>4. v \in Int
    <3>1. readVersion[t][k] \in Tids
      BY <1>0, <1>3 DEF TypeOK
    <3> QED
      BY <1>3, <3>1, TidNumbers
  <2> QED
    BY <1>0, <2>3, <2>4
<1>4. CASE /\ walk[t] # Nil /\ walk[t].key = k /\ k \in Keys
           /\ walk[t].at \in Installed(k) /\ k \in Writes(walk[t].at) /\ walk[t].at < t
           /\ status[walk[t].at][k] # "Committed"
           /\ v = LastOf({x \in Installed(k) : x < walk[t].at})
  <2> DEFINE w == walk[t].at
  <2>1. w \in Tasks /\ w \in Int
    BY <1>4, BlockOrder DEF Installed
  <2>2. CASE w < u
    BY <1>0, <1>1, <1>4, <2>2 DEF PassedInv
  <2>3. CASE w = u
    BY <1>1, <1>4, <2>3
  <2>4. CASE u < w
    <3>1. pc[t] # "new"
      BY <1>0, <1>4 DEF PipelineInv, WalkInv
    <3>2. u \in {x \in Installed(k) : x < w}
      BY <1>0, <2>4, <3>1, EarlierInstalled
    <3>3. {x \in Installed(k) : x < w} \in SUBSET Tasks
      BY DEF Installed
    <3> DEFINE S == {x \in Installed(k) : x < w}
    <3>4. v = LastOf(S)
      BY <1>4
    <3> HIDE DEF S
    <3>5. u <= LastOf(S) /\ LastOf(S) \in Int
      <4>1. LastOf(S) \in S \cup {Snapshot} /\ \A x \in S : x <= LastOf(S)
        BY <3>3, LastOfSpec DEF S
      <4>2. u \in S /\ S \in SUBSET Int
        BY <3>2, <3>3, BlockOrder DEF S
      <4>3. LastOf(S) \in Int
        <5>1. Snapshot \in Int
          BY DEF Snapshot
        <5> QED
          BY <4>1, <4>2, <5>1
      <4> QED
        BY <4>1, <4>2, <4>3
    <3> QED
      BY <1>0, <3>4, <3>5
  <2> QED
    BY <1>0, <2>1, <2>2, <2>3, <2>4
<1> QED
  BY <1>2, <1>3, <1>4, GetterMoves DEF PipelineIInv

(* A walk along the chain returns what one look at the whole chain would   *)
(* when it ends.                                                           *)
LEMMA ReturnIsRead ==
    ASSUME PipelineIInv, NEW t \in Tasks, Returns(t)
    PROVE  \E k \in Keys : ReadVersion(t, k)
<1> DEFINE k == walk[t].key
           v == walk[t].at
           rv == readVersion[t][k]
           S == {u \in Writers(Tasks, k) : u <= rv /\ status[u][k] = "Committed"}
<1>0. /\ PipelineInv /\ TypeOK /\ PassedInv
      /\ pc[t] = "running" /\ walk[t] # Nil /\ k \in Reads(t) /\ v \in Tids
      /\ StatusOf(k, v) = "Committed"
      /\ seen' = [seen EXCEPT ![t][k] = @ \cup {v}]
      /\ UNCHANGED <<load, pc, lastBlockTail, readVersion, status, proc, rank,
                     executing, waited, wrote>>
  BY DEF PipelineIInv, PipelineInv, Bookkeeping, Returns
<1>1. k \in Keys
  BY <1>0, FootprintKeys
<1>2. v \in Writers({u \in Tasks : u < t}, k) \cup {Snapshot}
  BY <1>0 DEF PipelineInv, WalkInv
<1>3. IsLast(rv, {u \in Tasks : u < t}, k)
  <2>1. t \in Linked
    BY <1>0 DEF Linked
  <2> QED
    BY <1>0, <1>1, <2>1 DEF PipelineInv, Bookkeeping, LinkInv
<1>4. rv \in Int /\ rv < t
  <2>1. rv = Snapshot \/ (rv \in Tasks /\ rv < t)
    BY <1>3 DEF IsLast, Writers
  <2> QED
    BY <2>1, TidNumbers
<1>5. S \in SUBSET Tasks /\ S \in SUBSET Int
  BY BlockOrder DEF Writers
<1>6. v \in S \cup {Snapshot} /\ v \in Int
  <2>1. CASE v = Snapshot
    BY <2>1 DEF Snapshot
  <2>2. CASE v # Snapshot
    <3>1. v \in Tasks /\ k \in Writes(v) /\ v <= rv /\ status[v][k] = "Committed"
      BY <1>0, <1>2, <1>3, <2>2 DEF IsLast, Writers, StatusOf
    <3> QED
      BY <3>1, BlockOrder DEF Writers
  <2> QED
    BY <2>1, <2>2
<1>7. ASSUME NEW u \in S PROVE u <= v
  <2>1. u \in Writers(Tasks, k) /\ u \in Int /\ t \in Int /\ u < t /\ status[u][k] = "Committed"
    BY <1>4, <1>5, BlockOrder
  <2>2. ~ (v < u)
    BY <1>0, <2>1 DEF PassedInv
  <2> QED
    BY <1>6, <2>1, <2>2
<1> HIDE DEF S
<1>8. LastOf(S) = v
  BY <1>5, <1>6, <1>7, LastOfUnique
<1>9. GetVisible(k, rv) = v
  BY <1>8 DEF GetVisible, S
<1> QED
  BY <1>0, <1>1, <1>9 DEF ReadVersion

(* Every step of the pipeline is one of Execution, or none.                *)
LEMMA PipelineStep == PipelineIInv /\ [PipelineNext]_allVars => [Next]_vars
<1> SUFFICES ASSUME PipelineIInv, [PipelineNext]_allVars PROVE [Next]_vars
  OBVIOUS
<1>1. [Next]_vars \/ \E t \in Tasks : Returns(t)
  BY TaskShapes DEF PipelineIInv
<1> QED
  BY <1>1, ReturnIsRead DEF Next

(* What Execution and the getters keep, the whole keeps.                   *)
LEMMA NextPipelineIInv ==
    ASSUME AllReadBeforeWrite PROVE PipelineIInv /\ [PipelineNext]_allVars => PipelineIInv'
<1>1. PipelineIInv /\ [PipelineNext]_allVars => IInv'
  BY PipelineStep, NextIInv DEF PipelineIInv
<1> QED
  BY <1>1, NextPipeline, NextPassed DEF PipelineIInv

(* It holds at the start.                                                  *)
LEMMA InitPipelineIInv == PipelineInit => PipelineIInv
  BY InitPipeline, InitIInv DEF PipelineInit, PipelineIInv, ChainInit, PassedInv

(* The invariant of the pipeline and of Execution holds when predicted     *)
(* writers read first.                                                     *)
THEOREM PipelineIInvCorrect == ASSUME AllReadBeforeWrite PROVE PipelineSpec => []PipelineIInv
<1>1. PipelineIInv /\ [PipelineNext]_allVars => PipelineIInv'
  BY NextPipelineIInv
<1> QED
  BY InitPipelineIInv, <1>1, PTL DEF PipelineSpec

(* Channels, chains built node by node and getters that walk step by step  *)
(* amount to Execution's block steps and one-look reads.                   *)
THEOREM ImplementsExecutionCorrect ==
    ASSUME AllReadBeforeWrite PROVE PipelineSpec => ImplementsExecution
<1>1. PipelineInit => Init
  BY DEF PipelineInit
<1>2. PipelineIInv /\ [PipelineNext]_allVars => [Next]_vars
  BY PipelineStep
<1> QED
  BY PipelineIInvCorrect, <1>1, <1>2, PTL DEF PipelineSpec, ImplementsExecution, Spec

(* So what the lines and processors publish, as goroutines over linked     *)
(* lists, is a run of the transactions one by one.                         *)
THEOREM PipelineImplementsSerial ==
    ASSUME AllReadBeforeWrite PROVE PipelineSpec => ImplementsSerial
  BY ImplementsExecutionCorrect, ExecutionImplementsSerial, PTL DEF ImplementsExecution

(* And every value a getter returns is the one of the serial run.          *)
THEOREM PipelineSerialReadsCorrect ==
    ASSUME AllReadBeforeWrite PROVE PipelineSpec => []SerialReads
  BY ImplementsExecutionCorrect, SerialReadsCorrect, PTL DEF ImplementsExecution
=============================================================================
