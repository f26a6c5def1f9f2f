----------------------------- MODULE Scheduler -----------------------------
(***************************************************************************)
(* Schedule places the tasks of one block on the processors.  It runs four *)
(* list schedulers and keeps the plan with the least makespan.  Each takes *)
(* the vertices of the dependency graph one by one, asks every processor   *)
(* for the free slot in which the task would end first, and cuts the task  *)
(* out of the best one.                                                    *)
(*                                                                         *)
(* The four run in goroutines that share only the finished graph, which    *)
(* they do not write, so here they run one after the other.  A processor's *)
(* slots are a set; the trees that hold them are left out.                 *)
(***************************************************************************)
EXTENDS Integers, FiniteSets, FiniteSetsExt

CONSTANTS
    NTasks,     \* how many tasks the block has
    NumWorkers, \* how many processors
    Graphs      \* the dependency graphs to schedule, with their properties

Tasks == 0 .. NTasks - 1
Entry == -1         \* taskEntry
End == NTasks       \* taskEnd: its ID is greater than that of any task
Vertices == Tasks \cup {Entry, End}
Procs == 0 .. NumWorkers - 1
NoProc == -1

Succ(g, n) == {v \in Vertices : <<n, v>> \in g.edges}
Pred(g, n) == {v \in Vertices : <<v, n>> \in g.edges}
Latest(a, b) == IF a > b THEN a ELSE b

(* m is the greatest of the numbers in S, 0 if there are none.             *)
IsMaxOf(m, S) ==
    /\ m \in S \cup {0}
    /\ \A x \in S : x <= m

(* The graph has an entry and an end, its edges follow the order of the    *)
(* IDs, and only tasks cost something.                                     *)
IsGraph(g) ==
    /\ g.edges \subseteq Vertices \X Vertices
    /\ \A e \in g.edges : e[1] < e[2]
    /\ \A t \in Tasks : Pred(g, t) # {} /\ Succ(g, t) # {}
    /\ g.cost \in [Vertices -> Nat]
    /\ \A n \in Vertices : g.cost[n] = 0 <=> n \notin Tasks
    /\ g.span \in Nat

(* The timespan: what all tasks cost together.                             *)
IsSummed(g) == g.span = MapThenSumSet(LAMBDA n : g.cost[n], Vertices)

(* What GenerateProperties leaves in the vertices.                         *)
IsRanked(g) ==
    /\ g.rankU \in [Vertices -> Nat]
    /\ g.rankD \in [Vertices -> Nat]
    /\ g.ct \in [Vertices -> Nat]
    /\ \A n \in Vertices :
          /\ IsMaxOf(g.rankU[n] - g.cost[n], {g.rankU[v] : v \in Succ(g, n)})
          /\ IsMaxOf(g.ct[n], {g.ct[v] + g.cost[v] : v \in Succ(g, n)})
          /\ IsMaxOf(g.rankD[n], {g.rankD[v] + g.cost[v] : v \in Pred(g, n)})
    /\ IsMaxOf(g.pathLen, {g.rankU[n] + g.rankD[n] : n \in Vertices})

ASSUME SizesAssumption == NTasks \in Nat \ {0} /\ NumWorkers \in Nat \ {0}
ASSUME GraphsAssumption == 
    \A g \in Graphs : IsGraph(g) /\ IsSummed(g) /\ IsRanked(g)

VARIABLES
    graph,      \* Scheduler.Graph, a member of Graphs, fixed
    method,     \* the list scheduler that is running
    popped,     \* the vertices taken from the queue so far
    indegree,   \* mapIndegree of pqSchedule
    slots,      \* slots[p]: the free slots of processor p
    proc,       \* proc[t]: the processor t was added to
    est,        \* EST, AST and EFT of each vertex's TaskWrapper
    ast,
    eft,
    plan        \* the best plan so far

vars == <<graph, method, popped, indegree, slots, proc, est, ast, eft, plan>>

Slots == [st: Nat, length: Nat]
Plans == [proc: [Vertices -> Procs \cup {NoProc}], ast: [Vertices -> Nat],
          makespan: Nat]
NoPlan == [makespan |-> -1]
Methods == {"EFT", "CPTL", "CT", "CPOP"}

(* The order in which Schedule compares their makespans.                   *)
Following(m) ==
    CASE m = "EFT" -> "CPTL" [] m = "CPTL" -> "CT" [] m = "CT" -> "CPOP"
      [] m = "CPOP" -> "chosen"

(* The graph is not a part of it: it never changes.                        *)
TypeOK ==
    /\ method \in Methods \cup {"chosen"}
    /\ popped \subseteq Vertices
    /\ indegree \in [Vertices -> Nat]
    /\ slots \in [Procs -> SUBSET Slots]
    /\ proc \in [Vertices -> Procs \cup {NoProc}]
    /\ est \in [Vertices -> Nat]
    /\ ast \in [Vertices -> Nat]
    /\ eft \in [Vertices -> Nat]
    /\ plan \in Plans \cup {NoPlan}

Horizon_Short(g) == g.span - 1

(* A new processor is free for twice the time all tasks take together.     *)
Horizon(g) == 2 * g.span
NewProcessor(g) == {[st |-> 0, length |-> Horizon(g)]}

(* A list scheduler starts with all vertices queued and free processors.   *)
Started ==
    /\ popped = {}
    /\ indegree = [n \in Vertices |-> Cardinality(Pred(graph, n))]
    /\ slots = [p \in Procs |-> NewProcessor(graph)]
    /\ proc = [n \in Vertices |-> NoProc]
    /\ est = [n \in Vertices |-> 0]
    /\ ast = [n \in Vertices |-> 0]
    /\ eft = [n \in Vertices |-> 0]

Init ==
    /\ graph \in Graphs
    /\ method = "EFT"
    /\ Started
    /\ plan = NoPlan
-----------------------------------------------------------------------------
(* The queue.                                                              *)

Priority(n) ==
    IF method = "EFT" THEN graph.rankU[n]
    ELSE IF method = "CT" THEN graph.ct[n]
    ELSE IF method = "CPTL" THEN graph.pathLen - graph.rankD[n]
    ELSE graph.rankD[n] + graph.rankU[n]

Before_Least(n, v) ==
    \/ Priority(n) < Priority(v)
    \/ Priority(n) = Priority(v) /\ n < v

(* PriorityTaskQueue.Less.                                                 *)
Before(n, v) ==
    \/ Priority(n) > Priority(v)
    \/ Priority(n) = Priority(v) /\ n < v

(* listSchedule puts every vertex into a heap; pqSchedule appends a vertex *)
(* when its in-degree has come down to 0, without restoring the order of   *)
(* the heap, so which of the queued vertices is on top is left open here.  *)
OnTop(n) ==
    /\ n \in Vertices \ popped
    /\ IF method \in {"EFT", "CT"}
       THEN \A v \in Vertices \ popped : v # n => Before(n, v)
       ELSE indegree[n] = 0
-----------------------------------------------------------------------------
(* SlotsMaintainer and Processor.                                          *)

(* FindMaxLessThan: the last slot that starts no later than time x.        *)
SlotAt(p, x) ==
    {s \in slots[p] : s.st <= x /\ \A r \in slots[p] : r.st <= x => r.st <= s.st}

FindSlot_NoSlotAt(p, x, c) ==
    LET ss == {r \in slots[p] : r.st >= x /\ r.length >= c}
    IN  {s \in ss : \A r \in ss : s.st <= r.st}

(* findSlot: the slot around x if the task fits behind x, else the first   *)
(* long enough slot from x on.  The set is empty if there is none.         *)
FindSlot(p, x, c) ==
    LET around == {s \in SlotAt(p, x) : s.st + s.length >= x + c}
        later == {s \in slots[p] : s.st >= x /\ s.length >= c}
    IN  IF around # {} THEN around
        ELSE {s \in later : \A r \in later : s.st <= r.st}

(* FindEFT: when a task of length c that may start at x ends in slot s.    *)
EFTin(s, x, c) == IF s.st <= x THEN x + c ELSE s.st + c

Cut_Reversed(s, a, e) ==
    {[st |-> s.st, length |-> s.st - a],
     [st |-> e, length |-> s.st + s.length - e]}
Cut_KeepSlot(s, a, e) == {s}
Cut_DropHead(s, a, e) == {[st |-> e, length |-> s.st + s.length - e]}

(* AddTask: what is left of slot s when a task takes it from a to e.  The  *)
(* second case (a start before the slot) is in the code but cannot arise.  *)
Cut(s, a, e) ==
    IF s.st <= a
    THEN {[st |-> s.st, length |-> a - s.st],
          [st |-> e, length |-> s.st + s.length - e]}
    ELSE {[st |-> e, length |-> s.length - (e - a)]}

NonEmpty(S) == {s \in S : s.length # 0}
-----------------------------------------------------------------------------
(* The schedulers.                                                         *)

(* What pqSchedule takes for the critical path.                            *)
IsCP(n) ==
    /\ method \in {"CPTL", "CPOP"}
    /\ n \in Tasks
    /\ Priority(n) = graph.pathLen

(* Critical tasks go to the first processor, the others to any.            *)
Eligible(n) == IF IsCP(n) THEN {0} ELSE Procs

(* selectBestProcessor: the least EFT, then the least processor.           *)
Best(n, p, s) ==
    /\ p \in Eligible(n)
    /\ s \in FindSlot(p, est[n], graph.cost[n])
    /\ \A q \in Eligible(n) : \A r \in FindSlot(q, est[n], graph.cost[n]) :
          LET e == EFTin(s, est[n], graph.cost[n])
              f == EFTin(r, est[n], graph.cost[n])
          IN  e < f \/ (e = f /\ p <= q)

ESTAfter_NoMax(n, e) ==
    [v \in Vertices |-> IF v \in Succ(graph, n) THEN e ELSE est[v]]

(* The successors of n start no earlier than n ends.                       *)
ESTAfter(n, e) ==
    [v \in Vertices |-> IF v \in Succ(graph, n) THEN Latest(est[v], e) ELSE est[v]]

(* n leaves the queue and its successors come closer to it.                *)
Pop(n) ==
    /\ OnTop(n)
    /\ popped' = popped \cup {n}
    /\ indegree' = [v \in Vertices |->
          IF v \in Succ(graph, n) THEN indegree[v] - 1 ELSE indegree[v]]

(* The entry and the end take no processor and no time.                    *)
PassVertex(n) ==
    /\ method \in Methods
    /\ n \notin Tasks
    /\ Pop(n)
    /\ est' = ESTAfter(n, eft[n])
    /\ UNCHANGED <<graph, method, slots, proc, ast, eft, plan>>

PlaceTask(n) ==
    /\ method \in Methods
    /\ n \in Tasks
    /\ Pop(n)
    /\ \E p \in Procs : \E s \in slots[p] :
          /\ Best(n, p, s)
          /\ LET e == EFTin(s, est[n], graph.cost[n])
                 a == e - graph.cost[n]
             IN  /\ eft' = [eft EXCEPT ![n] = e]
                 /\ ast' = [ast EXCEPT ![n] = a]
                 /\ est' = ESTAfter(n, e)
                 /\ proc' = [proc EXCEPT ![n] = p]
                 /\ slots' = [slots EXCEPT ![p] = (@ \ {s}) \cup NonEmpty(Cut(s, a, e))]
    /\ UNCHANGED <<graph, method, plan>>

(* A scheduler's queue is empty; Schedule keeps its plan if it is the      *)
(* first or strictly better.                                               *)
KeepBetter ==
    /\ method \in Methods
    /\ \A n \in Vertices : ~OnTop(n)
    /\ plan' = IF plan = NoPlan \/ est[End] < plan.makespan
               THEN [proc |-> proc, ast |-> ast, makespan |-> est[End]]
               ELSE plan
    /\ method' = Following(method)
    /\ popped' = {}
    /\ indegree' = [n \in Vertices |-> Cardinality(Pred(graph, n))]
    /\ slots' = [p \in Procs |-> NewProcessor(graph)]
    /\ proc' = [n \in Vertices |-> NoProc]
    /\ est' = [n \in Vertices |-> 0]
    /\ ast' = [n \in Vertices |-> 0]
    /\ eft' = [n \in Vertices |-> 0]
    /\ UNCHANGED graph

Chosen == method = "chosen" /\ UNCHANGED vars

Step == (\E n \in Vertices : PassVertex(n) \/ PlaceTask(n)) \/ KeepBetter

Next == Step \/ Chosen

Spec == Init /\ [][Next]_vars

(* Schedule is called and runs to its return.                              *)
FairSpec == Spec /\ WF_vars(Step)
-----------------------------------------------------------------------------
(* Properties.                                                             *)

Placed == {t \in Tasks : t \in popped}

(* Two tasks of one processor do not overlap in time: a slot handed out is *)
(* never handed out again.                                                 *)
NoOverlap ==
    \A t, u \in Placed : t # u /\ proc[t] = proc[u] =>
        eft[t] <= ast[u] \/ eft[u] <= ast[t]

(* A task starts when all the tasks it depends on have ended: its EST is   *)
(* final when it is taken from the queue.  For listSchedule this needs     *)
(* that the priorities order the tasks topologically.                      *)
Precedence ==
    \A t, u \in Placed : <<u, t>> \in graph.edges => eft[u] <= ast[t]

Busy(p, x) == \E t \in Placed : proc[t] = p /\ ast[t] <= x /\ x < eft[t]
Covers(s, x) == s.st <= x /\ x < s.st + s.length

(* The slots of a processor are its gaps: every instant is in one slot or  *)
(* in a task, and no gap is split in two slots.                            *)
SlotsAreGaps ==
    \A p \in Procs :
        /\ \A x \in 0 .. Horizon(graph) - 1 :
              Busy(p, x) <=> ~\E s \in slots[p] : Covers(s, x)
        /\ \A s, r \in slots[p] : s # r =>
              s.st + s.length < r.st \/ r.st + r.length < s.st

(* findSlot never comes back empty ("MAXUINT64 does not occur, since our   *)
(* interval is the whole timespan", segTree.go).                           *)
SlotFound ==
    \A t \in Tasks, p \in Procs :
        method \in Methods /\ OnTop(t) => FindSlot(p, est[t], graph.cost[t]) # {}

(* A task is put where it ends first: at no earlier instant from its EST   *)
(* on has an eligible processor room for it, counting the gaps between     *)
(* tasks placed before it.                                                 *)
EarliestFit ==
    [][\A t \in Tasks : t \in popped' \ popped =>
          \A p \in Eligible(t) : ~\E x \in est[t] .. ast'[t] - 1 :
              \A y \in x .. x + graph.cost[t] - 1 : ~Busy(p, y)]_vars

(* The order in which ASTTaskQueue gives tasks to their processor.         *)
StartsBefore(a, u, t) == a[u] < a[t] \/ (a[u] = a[t] /\ u < t)

(* The chosen plan is one that Execution's ScheduleBlock allows: all tasks *)
(* are placed, those of a processor follow each other, a task starts after *)
(* those it depends on; and the makespan is the time the last task ends.   *)
LegalPlan ==
    plan # NoPlan =>
        /\ \A t \in Tasks : plan.proc[t] \in Procs
        /\ \A t, u \in Tasks : t # u /\ plan.proc[t] = plan.proc[u] =>
              plan.ast[t] # plan.ast[u]
        /\ \A t, u \in Tasks : <<u, t>> \in graph.edges =>
              StartsBefore(plan.ast, u, t)
        /\ IsMaxOf(plan.makespan, {plan.ast[t] + graph.cost[t] : t \in Tasks})

(* Scheduling comes to an end.                                             *)
Termination == <>(method = "chosen")
-----------------------------------------------------------------------------
(* The inductive invariant behind NoOverlap and Precedence.                *)

(* Vertices are taken from the queue after all their predecessors.         *)
Topological == \A n \in popped : Pred(graph, n) \subseteq popped

(* The counters of pqSchedule.                                             *)
Degrees == \A n \in Vertices : indegree[n] = Cardinality(Pred(graph, n) \ popped)

(* A placed task runs for its cost, from its EST on; the EST of a vertex   *)
(* is past the end of each predecessor taken so far.                       *)
Times ==
    /\ \A t \in Placed :
          /\ proc[t] \in Procs
          /\ eft[t] = ast[t] + graph.cost[t]
          /\ est[t] <= ast[t]
    /\ \A u \in popped : \A v \in Succ(graph, u) : eft[u] <= est[v]

(* Slots of a processor are apart from one another and from its tasks.     *)
SlotsApart ==
    \A p \in Procs : \A s, r \in slots[p] :
        s # r => s.st + s.length <= r.st \/ r.st + r.length <= s.st
SlotsFree ==
    \A t \in Placed : \A s \in slots[proc[t]] :
        eft[t] <= s.st \/ s.st + s.length <= ast[t]

SchedulerInv ==
    /\ TypeOK
    /\ graph \in Graphs
    /\ Topological
    /\ Degrees
    /\ Times
    /\ SlotsApart
    /\ SlotsFree
    /\ NoOverlap
-----------------------------------------------------------------------------
(* What SlotsAreGaps, SlotFound, EarliestFit and LegalPlan need besides.   *)

(* What the vertices taken so far cost together.                           *)
CostOf(g, S) == MapThenSumSet(LAMBDA n : g.cost[n], S)
Spent == CostOf(graph, popped)

(* Nothing ends later than if the tasks placed so far had run one after    *)
(* the other, and from there on every processor is free up to the horizon. *)
Room ==
    /\ \A n \in Vertices : est[n] <= Spent /\ eft[n] <= Spent
    /\ \A p \in Procs :
          /\ \A s \in slots[p] : s.st + s.length <= Horizon(graph)
          /\ \E s \in slots[p] : s.st <= Spent /\ s.st + s.length = Horizon(graph)

(* An EST is the end of a predecessor; what is not placed has no end.      *)
Awaited ==
    /\ \A n \in Vertices :
          est[n] = 0 \/ \E u \in popped : n \in Succ(graph, u) /\ est[n] = eft[u]
    /\ \A n \in Vertices \ Placed : eft[n] = 0

PlanInv ==
    /\ SchedulerInv
    /\ SlotsAreGaps
    /\ Room
    /\ Awaited
    /\ LegalPlan
=============================================================================
