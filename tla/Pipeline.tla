------------------------------ MODULE Pipeline ------------------------------
(***************************************************************************)
(* The four lines as goroutines: bounded channels between them, the END    *)
(* marker and close, the wait group the caller waits on, and the steps of  *)
(* GVCLine on the version chains.  What GraphLine, ScheduleLine and the    *)
(* processors do to the tasks is Execution's; that the whole implements    *)
(* Execution is a property.                                                *)
(***************************************************************************)
EXTENDS VersionChain, Sequences

Lines == 1 .. 4     \* GVCLine, GraphLine, ScheduleLine, ExecuteLine
GVCLine == 1
GraphLine == 2
ScheduleLine == 3
ExecuteLine == 4
END == -1           \* any other message is a block

VARIABLES
    chan,       \* chan[l]: what waits in the input channel of line l
    closed,     \* the lines whose input channel is closed
    at,         \* at[l]: where Run of line l is
    holding,    \* holding[l]: the message it took last
    wg,         \* the counter of the wait group
    transferred,\* the reads and writes GVCLine has dealt with
    returned    \* wg.Wait has returned

lineVars == <<chan, closed, at, holding, wg, transferred, returned>>
allVars == <<vars, chainVars, lineVars>>

(* PrepareTransactions numbers the blocks of a batch without a gap.        *)
NBlocks == Cardinality(Blocks)
ASSUME BlocksAssumption == Blocks = 0 .. NBlocks - 1
Capacity_Blocks == NBlocks
Capacity == NBlocks + 2
Started_ButOne == 3
Started == 4

PipelineTypeOK ==
    /\ TypeOK /\ ChainTypeOK
    /\ chan \in [Lines -> Seq(Blocks \cup {END})]
    /\ closed \in SUBSET Lines
    /\ at \in [Lines -> {"range", "working", "sending", "closing", "gone"}]
    /\ holding \in [Lines -> Blocks \cup {END}]
    /\ wg \in 0 .. 4
    /\ transferred \subseteq {"read", "write"} \X Tasks \X Keys
    /\ returned \in BOOLEAN

(* The caller has put the blocks and END into the first channel, closed it *)
(* and started the lines.                                                  *)
PipelineInit ==
    /\ Init /\ ChainInit
    /\ chan = [l \in Lines |->
          IF l = GVCLine THEN [i \in 1 .. NBlocks |-> i - 1] \o <<END>> ELSE <<>>]
    /\ closed = {GVCLine}
    /\ at = [l \in Lines |-> "range"]
    /\ holding = [l \in Lines |-> END]
    /\ wg = Started
    /\ transferred = {}
    /\ returned = FALSE
-----------------------------------------------------------------------------
(* What the lines have in common.                                          *)

Goto(l, place) == at' = [at EXCEPT ![l] = place]

Receive_DropsEND(l) ==
    /\ at[l] = "range"
    /\ chan[l] # <<>> \/ l \in closed
    /\ IF chan[l] = <<>> THEN Goto(l, "gone") /\ UNCHANGED <<chan, holding>>
       ELSE /\ chan' = [chan EXCEPT ![l] = Tail(@)]
            /\ holding' = [holding EXCEPT ![l] = Head(chan[l])]
            /\ Goto(l, IF Head(chan[l]) # END THEN "working"
                       ELSE "closing")
    /\ executing' = IF l = ExecuteLine /\ holding'[l] # END THEN holding'[l] ELSE executing
    /\ UNCHANGED <<load, pc, lastBlockTail, readVersion, status, proc, rank,
                   waited, seen, wrote, chainVars, closed, wg, transferred, returned>>

(* The for range: the next message, or, from a closed and empty channel,   *)
(* the end of Run without wg.Done.                                         *)
Receive(l) ==
    /\ at[l] = "range"
    /\ chan[l] # <<>> \/ l \in closed
    /\ IF chan[l] = <<>> THEN Goto(l, "gone") /\ UNCHANGED <<chan, holding>>
       ELSE /\ chan' = [chan EXCEPT ![l] = Tail(@)]
            /\ holding' = [holding EXCEPT ![l] = Head(chan[l])]
            /\ Goto(l, IF Head(chan[l]) # END THEN "working"
                       ELSE IF l = ExecuteLine THEN "closing" ELSE "sending")
    /\ executing' = IF l = ExecuteLine /\ holding'[l] # END THEN holding'[l] ELSE executing
    /\ UNCHANGED <<load, pc, lastBlockTail, readVersion, status, proc, rank,
                   waited, seen, wrote, chainVars, closed, wg, transferred, returned>>

(* A send blocks while the channel is full.                                *)
Send(l) ==
    /\ at[l] = "sending"
    /\ Len(chan[l + 1]) < Capacity
    /\ chan' = [chan EXCEPT ![l + 1] = Append(@, holding[l])]
    /\ Goto(l, IF holding[l] = END THEN "closing" ELSE "range")
    /\ UNCHANGED <<vars, chainVars, closed, holding, wg, transferred, returned>>

(* ExecuteLine has no channel to close.                                    *)
CloseAndDone(l) ==
    /\ at[l] = "closing"
    /\ closed' = IF l = ExecuteLine THEN closed ELSE closed \cup {l + 1}
    /\ wg' = wg - 1
    /\ Goto(l, "gone")
    /\ UNCHANGED <<vars, chainVars, chan, holding, transferred, returned>>

(* The caller's wg.Wait.                                                   *)
Wait ==
    /\ wg = 0 /\ ~ returned
    /\ returned' = TRUE
    /\ UNCHANGED <<vars, chainVars, chan, closed, at, holding, wg, transferred>>

Working(l) == at[l] = "working"
Worked(l) ==
    /\ Working(l) /\ Goto(l, "sending")
    /\ UNCHANGED <<chan, closed, holding, wg, returned>>
-----------------------------------------------------------------------------
(* GVCLine: TransferTxToTask for each transaction in turn, its reads and   *)
(* then its writes, in the order of the maps, which is any.                *)

Of(t) == ({"read"} \X {t} \X Reads(t)) \cup ({"write"} \X {t} \X Writes(t))
Transferring(t) ==
    /\ Working(GVCLine) /\ Block[t] = holding[GVCLine] /\ installing = Nil
    /\ \A u \in EarlierInBlock(t) : Of(u) \subseteq transferred

(* The read version is LastBlockTail, which stays until the block is done. *)
TransferRead(t, k) ==
    /\ Transferring(t) /\ <<"read", t, k>> \in Of(t) \ transferred
    /\ transferred' = transferred \cup {<<"read", t, k>>}
    /\ DoPrefetch(k)
    /\ UNCHANGED <<vars, next, prev, tail, installing, walk>>
    /\ UNCHANGED <<chan, closed, at, holding, wg, returned>>

TransferWrite(t, k) ==
    /\ Transferring(t) /\ {"read"} \X {t} \X Reads(t) \subseteq transferred
    /\ <<"write", t, k>> \in Of(t) \ transferred
    /\ transferred' = transferred \cup {<<"write", t, k>>}
    /\ InstallVersion(t, k)
    /\ UNCHANGED <<vars, chan, closed, at, holding, wg, returned>>

UpdateLastBlockTail_Late == lastBlockTail
UpdateLastBlockTail == tail

(* The last version is in: the tails move and the block is handed on.      *)
Transferred ==
    LET b == holding[GVCLine]
    IN  /\ \A t \in InBlock(b) : Of(t) \subseteq transferred
        /\ installing = Nil
        /\ pc' = [t \in Tasks |-> IF Block[t] = b THEN "prepared" ELSE pc[t]]
        /\ readVersion' = [t \in Tasks |->
              IF Block[t] = b THEN lastBlockTail ELSE readVersion[t]]
        /\ status' = [t \in Tasks |->
              IF Block[t] = b
              THEN [k \in Keys |-> IF <<"write", t, k>> \in transferred THEN "Pending" ELSE "none"]
              ELSE status[t]]
        /\ lastBlockTail' = UpdateLastBlockTail
        /\ Worked(GVCLine)
        /\ UNCHANGED <<load, proc, rank, executing, waited, seen, wrote, chainVars, transferred>>

LinkGraph ==
    LinkBlock(holding[GraphLine]) /\ Worked(GraphLine) /\ UNCHANGED <<chainVars, transferred>>

Schedule ==
    ScheduleBlock(holding[ScheduleLine]) /\ Worked(ScheduleLine)
    /\ UNCHANGED <<chainVars, transferred>>

(* execwg.Wait has returned.                                               *)
Executed ==
    /\ Working(ExecuteLine) /\ BlockFinished(holding[ExecuteLine])
    /\ Goto(ExecuteLine, "range")
    /\ UNCHANGED <<vars, chainVars, chan, closed, holding, wg, transferred, returned>>

(* A processor of the block that ExecuteLine holds; a transaction that is  *)
(* in a getter does nothing else.                                          *)
Process(t) ==
    /\ Working(ExecuteLine) /\ walk[t] = Nil
    /\ Work(t)
    /\ UNCHANGED <<chainVars, lineVars>>

Get(t) ==
    /\ (\E k \in Keys : StartWalk(t, k)) \/ WalkBack(t)
    /\ UNCHANGED lineVars

Install == InsertOrNext /\ UNCHANGED <<vars, lineVars>>

LineStep(l) == Receive(l) \/ Send(l) \/ CloseAndDone(l)

GVCStep ==
    \/ \E t \in Tasks, k \in Keys : TransferRead(t, k) \/ TransferWrite(t, k)
    \/ Install
    \/ Transferred

(* Nothing is left to do.                                                  *)
Ready == returned /\ UNCHANGED allVars

PipelineNext ==
    \/ \E l \in Lines : LineStep(l)
    \/ GVCStep \/ LinkGraph \/ Schedule \/ Executed
    \/ \E t \in Tasks : Process(t) \/ Get(t)
    \/ Wait
    \/ Ready

(* The four lines, the processors and the caller are goroutines: none is   *)
(* starved.  A getter that has begun goes on.                              *)
PipelineSpec ==
    /\ PipelineInit /\ [][PipelineNext]_allVars
    /\ \A l \in Lines : WF_allVars(LineStep(l))
    /\ WF_allVars(GVCStep) /\ WF_allVars(LinkGraph) /\ WF_allVars(Schedule)
    /\ WF_allVars(Executed) /\ WF_allVars(Wait)
    /\ \A t \in Tasks : WF_allVars(Process(t)) /\ WF_allVars(WalkBack(t) /\ UNCHANGED lineVars)
-----------------------------------------------------------------------------
(* All is of its type, no line ever waits for room in a channel or sends   *)
(* on a closed one, and the wait group counts the lines that have still to *)
(* leave (new_test.go:259-289, gvcline.go:33-41).                          *)
ChannelsNeverBlock ==
    /\ PipelineTypeOK
    /\ \A l \in Lines : at[l] \in {"sending", "closing"} =>
          l + 1 \notin closed /\ (at[l] = "sending" => Len(chan[l + 1]) < Capacity)
    /\ wg = Cardinality({l \in Lines : at[l] # "gone"})

(* When the caller goes on, every transaction has been executed and        *)
(* nothing is left in a channel (new_test.go:288).                         *)
ReturnsWhenDone == returned => AllEnded /\ \A l \in Lines : chan[l] = <<>>

(* The writers whose version of k is in its chain.                         *)
Installed(k) ==
    {t \in Tasks : /\ <<"write", t, k>> \in transferred
                   /\ installing # Nil => <<installing.task, installing.key>> # <<t, k>>}

(* A chain is doubly linked, its Tids ascend from the head to Tail, and it *)
(* holds the versions that GVCLine has installed, also in the middle of a  *)
(* block and while getters walk on it (version.go:37-73).                  *)

ChainsLinked ==
    \A k \in Keys :
        /\ tail[k] = LastOf(Installed(k)) /\ next[k][tail[k]] = Nil
        /\ \A t \in Installed(k) : /\ prev[k][t] = LastOf({u \in Installed(k) : u < t})
                                   /\ next[k][prev[k][t]] = t

(* A getter that reaches the head of a chain finds data there, although    *)
(* only the first block to touch a key loads it, while earlier blocks run  *)
(* (globalVersionChain.go:99-108).                                         *)
LoadedBeforeRead ==
    \A t \in Tasks : walk[t] # Nil => walk[t].at # Nil /\
        (walk[t].at = Snapshot => walk[t].key \in loaded)

Uses(t) == Reads(t) \cup Writes(t)

(* The snapshot's integer of a record is not cleared any more once a task  *)
(* that uses the record runs or has run.  It is the balance the task was   *)
(* handed and, as AddBalance stores what it was handed (state.go:343-351), *)
(* the one it has stored.                                                  *)
Preserved ==
    \A t \in Tasks : pc[t] \in {"running", "resolving", "done"} =>
        \A k \in Uses(t) : clears'[k] = clears[k]

(* An account's liveness is asked for, if ever, no later than its balance. *)
LivenessFirst ==
    \A k \in Keys : \A j \in Destroys[k] : \A t, u \in Tasks :
        j \in Uses(t) /\ k \in Uses(u) =>
            \E w \in Tasks : k \in Uses(w) /\ Block[w] <= Block[t]

(* If the batch asks for liveness first, loading for the next block        *)
(* (globalVersionChain.go:91-108) takes no balance from the transactions   *)
(* of the running block, nor from what earlier ones have committed: the    *)
(* clearing is behind them, and nothing loads the liveness again.  If only *)
(* a later block asks, the running one loses its balances.                 *)
ClearedBeforeUse == [][LivenessFirst => Preserved]_allVars

(* Channels, chains built node by node and getters that walk step by step  *)
(* amount to Execution: no line overtakes another, and a walk returns what *)
(* one look at the whole chain would when it ends.                         *)
ImplementsExecution == Spec

(* If AsMessage accepts every transaction, the lines all leave and the     *)
(* caller goes on.                                                         *)
PipelineReturns == (\A t \in Tasks : load[t].valid) => <>returned
-----------------------------------------------------------------------------
(* The inductive invariant behind the safety properties.                   *)

(* How many messages a line has taken, has done its work on and has sent.  *)
(* What it holds before the first is END, and it ranges only then with it. *)
Taken(l) == IF holding[l] # END THEN holding[l] + 1
            ELSE IF at[l] = "range" THEN 0 ELSE NBlocks + 1
Handled(l) == IF at[l] = "working" THEN Taken(l) - 1 ELSE Taken(l)
Passed(l) == IF at[l] \in {"working", "sending"} THEN Taken(l) - 1 ELSE Taken(l)

(* The messages in their order, and how many line l has been sent.         *)
Stream(i) == IF i < NBlocks THEN i ELSE END
Produced(l) == IF l = GVCLine THEN NBlocks + 1 ELSE Passed(l - 1)

(* A channel holds what its line has been sent and has not taken, in order.*)
StreamInv ==
    \A l \in Lines :
        /\ Len(chan[l]) = Produced(l) - Taken(l)
        /\ \A i \in 1 .. Len(chan[l]) : chan[l][i] = Stream(Taken(l) + i - 1)

(* END comes last, and the channels are closed behind it.                  *)
EndInv ==
    /\ \A l \in Lines :
          /\ at[l] = "working" => holding[l] # END
          /\ at[l] \in {"closing", "gone"} => holding[l] = END
          /\ l \in closed <=> l = GVCLine \/ at[l - 1] = "gone"
    /\ at[ExecuteLine] # "sending"
    /\ wg = Cardinality({l \in Lines : at[l] # "gone"})
    /\ returned => \A l \in Lines : at[l] = "gone"

(* The stage of a task tells which lines have dealt with its block.        *)
PlaceInv ==
    /\ \A t \in Tasks :
          /\ pc[t] = "new" <=> Handled(GVCLine) <= Block[t]
          /\ pc[t] \in {"new", "prepared"} <=> Handled(GraphLine) <= Block[t]
          /\ pc[t] \in {"new", "prepared", "linked"} <=> Handled(ScheduleLine) <= Block[t]
          /\ Block[t] < Handled(ExecuteLine) => pc[t] \in Ended
    /\ holding[ExecuteLine] # END => executing = holding[ExecuteLine]
    /\ Taken(ExecuteLine) = 0 => executing = 0

(* Reads and writes are transferred in the order of the tasks.             *)
TransferInv ==
    \A t \in Tasks :
        /\ \A k \in Keys :
              /\ <<"read", t, k>> \in transferred => k \in Reads(t) /\ Block[t] < Taken(GVCLine)
              /\ <<"write", t, k>> \in transferred =>
                    /\ k \in Writes(t) /\ Block[t] < Taken(GVCLine)
                    /\ \A u \in Tasks : u < t => Of(u) \subseteq transferred
        /\ Block[t] < Handled(GVCLine) => Of(t) \subseteq transferred

(* The version under way is younger than those in its chain.               *)
InstallInv ==
    installing # Nil =>
        /\ Working(GVCLine) /\ Block[installing.task] = holding[GVCLine]
        /\ <<"write", installing.task, installing.key>> \in transferred
        /\ installing.at \in Installed(installing.key) \cup {Snapshot}
        /\ \A u \in Installed(installing.key) : u < installing.task

(* What has been read or written has been loaded.                          *)
LoadInv ==
    \A k \in Keys :
        (\E t \in Tasks : <<"read", t, k>> \in transferred \/ t \in Installed(k)) => k \in loaded

(* A getter is at a version before its task.                               *)
WalkInv ==
    \A t \in Tasks : walk[t] # Nil =>
        /\ pc[t] = "running" /\ walk[t].key \in Reads(t)
        /\ walk[t].at \in Writers({u \in Tasks : u < t}, walk[t].key) \cup {Snapshot}

(* And it has passed no Committed one.                                     *)
PassedInv ==
    \A t \in Tasks : walk[t] # Nil =>
        \A u \in Writers(Tasks, walk[t].key) :
            walk[t].at < u /\ u < t => status[u][walk[t].key] # "Committed"

(* What holds whatever the batch.                                          *)
PipelineInv ==
    /\ PipelineTypeOK /\ Bookkeeping
    /\ StreamInv /\ EndInv /\ PlaceInv
    /\ TransferInv /\ InstallInv /\ ChainsLinked /\ LoadInv
    /\ WalkInv

(* And what holds when keys are read before they are written.              *)
PipelineIInv == PipelineInv /\ IInv /\ PassedInv
=============================================================================
