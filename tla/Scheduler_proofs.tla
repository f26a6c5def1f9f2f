------------------------- MODULE Scheduler_proofs --------------------------
(* Proofs about the list schedulers, for every dependency graph, any costs *)
(* and any number of processors: the queue, the times and that tasks do    *)
(* not overlap; the slots and the plan that wins; and last the two trees   *)
(* that hold the slots.                                                    *)
EXTENDS SlotsMaintainer, DataTheorems

(***************************************************************************)
(* The graph.                                                              *)
(***************************************************************************)

(* Vertices are integers, finite in number.                                *)
LEMMA VerticesFinite == IsFiniteSet(Vertices) /\ Vertices \subseteq Int
<1>1. IsFiniteSet(Tasks) /\ Tasks \subseteq Int
  BY SizesAssumption, FS_Interval DEF Tasks
<1>2. IsFiniteSet(Tasks \cup {Entry}) /\ IsFiniteSet((Tasks \cup {Entry}) \cup {End})
  BY <1>1, FS_AddElement
<1>3. Vertices = (Tasks \cup {Entry}) \cup {End}
  BY DEF Vertices
<1> QED
  BY <1>1, <1>2, <1>3, SizesAssumption DEF Vertices, Entry, End

(* So are the predecessors of a vertex.                                    *)
LEMMA PredFinite ==
    ASSUME NEW g, NEW n PROVE Pred(g, n) \subseteq Vertices /\ IsFiniteSet(Pred(g, n))
<1>1. Pred(g, n) \subseteq Vertices
  BY DEF Pred
<1> QED
  BY <1>1, VerticesFinite, FS_Subset

(* What the proofs use of a graph.                                         *)
LEMMA GraphFacts ==
    ASSUME NEW g \in Graphs
    PROVE  /\ g.cost \in [Vertices -> Nat]
           /\ g.span \in Nat
           /\ g.rankU \in [Vertices -> Nat]
           /\ g.ct \in [Vertices -> Nat]
           /\ \A n \in Vertices : \A u \in Pred(g, n) :
                 /\ u \in Vertices
                 /\ u < n
                 /\ n \in Succ(g, u)
                 /\ g.rankU[u] >= g.rankU[n]
                 /\ g.ct[u] >= g.ct[n]
<1>1. IsGraph(g) /\ IsRanked(g)
  BY GraphsAssumption
<1>2. g.cost \in [Vertices -> Nat] /\ g.span \in Nat
  BY <1>1 DEF IsGraph
<1>3. g.rankU \in [Vertices -> Nat] /\ g.ct \in [Vertices -> Nat]
  BY <1>1 DEF IsRanked
<1>4. ASSUME NEW n \in Vertices, NEW u \in Pred(g, n)
      PROVE  /\ u \in Vertices /\ u < n /\ n \in Succ(g, u)
             /\ g.rankU[u] >= g.rankU[n] /\ g.ct[u] >= g.ct[n]
  <2>1. u \in Vertices /\ <<u, n>> \in g.edges /\ n \in Succ(g, u)
    BY DEF Pred, Succ
  <2>2. u < n
    <3>1. <<u, n>>[1] < <<u, n>>[2]
      BY <1>1, <2>1 DEF IsGraph
    <3> QED
      BY <3>1
  <2>3. g.rankU[n] <= g.rankU[u] - g.cost[u]
    BY <1>1, <2>1 DEF IsRanked, IsMaxOf
  <2>4. g.ct[n] + g.cost[n] <= g.ct[u]
    BY <1>1, <2>1 DEF IsRanked, IsMaxOf
  <2>5. /\ g.rankU[u] \in Nat /\ g.rankU[n] \in Nat /\ g.cost[u] \in Nat
        /\ g.ct[u] \in Nat /\ g.ct[n] \in Nat /\ g.cost[n] \in Nat
    BY <1>2, <1>3, <2>1
  <2> QED
    BY <2>1, <2>2, <2>3, <2>4, <2>5
<1> QED
  BY <1>2, <1>3, <1>4

(***************************************************************************)
(* The queue.                                                              *)
(***************************************************************************)

(* Whatever the method, a vertex on top of the queue has no predecessor    *)
(* left: by the counters for pqSchedule, and for listSchedule because a    *)
(* predecessor has no lower priority and a smaller ID.                     *)
LEMMA OnTopIsReady ==
    ASSUME TypeOK, graph \in Graphs, Degrees, method \in Methods,
           NEW n \in Vertices, OnTop(n)
    PROVE  Pred(graph, n) \subseteq popped
<1>1. CASE method \in {"EFT", "CT"}
  <2> SUFFICES ASSUME NEW u \in Pred(graph, n), u \notin popped PROVE FALSE
    OBVIOUS
  <2>1. /\ u \in Vertices /\ u < n
        /\ graph.rankU[u] >= graph.rankU[n] /\ graph.ct[u] >= graph.ct[n]
        /\ graph.rankU \in [Vertices -> Nat] /\ graph.ct \in [Vertices -> Nat]
    BY GraphFacts
  <2>2. u \in Int /\ n \in Int /\ u # n
    BY <2>1, VerticesFinite
  <2>3. Before(n, u)
    BY <1>1, <2>1, <2>2 DEF OnTop
  <2>4. Priority(u) \in Nat /\ Priority(n) \in Nat /\ Priority(u) >= Priority(n)
    BY <1>1, <2>1 DEF Priority
  <2> QED
    BY <2>1, <2>2, <2>3, <2>4 DEF Before
<1>2. CASE method \notin {"EFT", "CT"}
  <2>1. indegree[n] = 0
    BY <1>2 DEF OnTop
  <2>2. Cardinality(Pred(graph, n) \ popped) = 0
    BY <2>1 DEF Degrees
  <2>3. IsFiniteSet(Pred(graph, n) \ popped)
    BY PredFinite, FS_Subset
  <2>4. Pred(graph, n) \ popped = {}
    BY <2>2, <2>3, FS_EmptySet
  <2> QED
    BY <2>4
<1> QED
  BY <1>1, <1>2

(* What taking a vertex from the queue does to the counters.               *)
LEMMA PopDegrees ==
    ASSUME TypeOK, graph \in Graphs, Degrees, graph' = graph,
           NEW n \in Vertices, Pop(n)
    PROVE  /\ Degrees'
           /\ indegree' \in [Vertices -> Nat]
           /\ popped' \subseteq Vertices
           /\ n \notin popped
<1>1. n \notin popped /\ popped' = popped \cup {n} /\ popped' \subseteq Vertices
  BY DEF Pop, OnTop, TypeOK
<1>2. ASSUME NEW v \in Vertices
      PROVE  /\ indegree'[v] = Cardinality(Pred(graph, v) \ popped')
             /\ indegree'[v] \in Nat
  <2> DEFINE R == Pred(graph, v) \ popped
  <2>1. IsFiniteSet(R) /\ indegree[v] = Cardinality(R)
    BY PredFinite, FS_Subset DEF Degrees
  <2>2. Pred(graph, v) \ popped' = R \ {n}
    BY <1>1
  <2>3. IsFiniteSet(R \ {n}) /\ Cardinality(R \ {n}) = IF n \in R THEN Cardinality(R) - 1
                                                              ELSE Cardinality(R)
    BY <2>1, FS_RemoveElement
  <2>4. Cardinality(R \ {n}) \in Nat
    BY <2>3, FS_CardinalityType
  <2>5. n \in R <=> v \in Succ(graph, n)
    BY <1>1 DEF Succ, Pred
  <2>6. indegree'[v] = IF v \in Succ(graph, n) THEN indegree[v] - 1 ELSE indegree[v]
    BY DEF Pop
  <2> HIDE DEF R
  <2>7. indegree'[v] = Cardinality(R \ {n})
    BY <2>1, <2>3, <2>5, <2>6
  <2> QED
    BY <2>2, <2>4, <2>7
<1>3. indegree' = [v \in Vertices |-> indegree'[v]]
  BY DEF Pop
<1>4. Degrees'
  BY <1>2 DEF Degrees
<1>5. indegree' \in [Vertices -> Nat]
  BY <1>2, <1>3
<1> QED
  BY <1>1, <1>4, <1>5

(* What follows for est of the vertices already taken when n is taken and  *)
(* ends at e: it stays, because no successor of n was taken before n; and  *)
(* no est gets smaller.                                                    *)
LEMMA ESTGrows ==
    ASSUME TypeOK, graph \in Graphs, Topological, NEW n \in Vertices,
           n \notin popped, NEW e \in Nat
    PROVE  /\ ESTAfter(n, e) \in [Vertices -> Nat]
           /\ \A v \in Vertices : est[v] <= ESTAfter(n, e)[v]
           /\ \A v \in popped \cup {n} : ESTAfter(n, e)[v] = est[v]
           /\ \A v \in Succ(graph, n) : e <= ESTAfter(n, e)[v]
<1> DEFINE after == ESTAfter(n, e)
<1>1. est \in [Vertices -> Nat] /\ popped \subseteq Vertices
  BY DEF TypeOK
<1>2. \A v \in Vertices : after[v] = IF v \in Succ(graph, n) THEN Latest(est[v], e)
                                                              ELSE est[v]
  BY DEF ESTAfter
<1>3. \A v \in Vertices : Latest(est[v], e) \in Nat /\ est[v] <= Latest(est[v], e)
                          /\ e <= Latest(est[v], e)
  BY <1>1 DEF Latest
<1>4. after \in [Vertices -> Nat]
  BY <1>1, <1>3 DEF ESTAfter
<1>5. ASSUME NEW v \in popped \cup {n} PROVE v \notin Succ(graph, n)
  <2> SUFFICES ASSUME v \in Succ(graph, n) PROVE FALSE
    OBVIOUS
  <2>1. v \in Vertices /\ n \in Pred(graph, v)
    BY <1>1 DEF Succ, Pred
  <2>2. CASE v = n
    BY <2>1, <2>2, GraphFacts, VerticesFinite
  <2>3. CASE v \in popped
    BY <2>1, <2>3 DEF Topological
  <2> QED
    BY <2>2, <2>3
<1>6. Succ(graph, n) \subseteq Vertices
  BY DEF Succ
<1> HIDE DEF after
<1>7. \A v \in Vertices : est[v] <= after[v]
  BY <1>1, <1>2, <1>3
<1>8. \A v \in popped \cup {n} : after[v] = est[v]
  BY <1>1, <1>2, <1>5
<1>9. \A v \in Succ(graph, n) : e <= after[v]
  BY <1>2, <1>3, <1>6
<1> QED
  BY <1>4, <1>7, <1>8, <1>9 DEF after

(* Taking a ready vertex keeps the taken set closed under predecessors.    *)
LEMMA PopTopological ==
    ASSUME TypeOK, graph \in Graphs, graph' = graph, Topological, Degrees,
           method \in Methods, NEW n \in Vertices, Pop(n)
    PROVE  Topological'
<1>1. Pred(graph, n) \subseteq popped
  BY OnTopIsReady DEF Pop
<1>2. popped' = popped \cup {n}
  BY DEF Pop
<1>3. ASSUME NEW v \in popped' PROVE Pred(graph, v) \subseteq popped'
  BY <1>1, <1>2, <1>3 DEF Topological
<1> QED
  BY <1>3 DEF Topological

(***************************************************************************)
(* The slots.                                                              *)
(***************************************************************************)

(* A slot that findSlot returns has room for the task at the time that     *)
(* FindEFT computes.                                                       *)
LEMMA FoundSlotFits ==
    ASSUME TypeOK, NEW p \in Procs, NEW x \in Nat, NEW c \in Nat,
           NEW s \in FindSlot(p, x, c), NEW e, e = EFTin(s, x, c)
    PROVE  /\ s \in slots[p] /\ s \in Slots
           /\ e \in Nat /\ e - c \in Nat
           /\ x <= e - c /\ s.st <= e - c /\ e <= s.st + s.length
<1>1. slots[p] \subseteq Slots
  BY DEF TypeOK
<1>2. /\ s \in slots[p]
      /\ \/ s.st <= x /\ s.st + s.length >= x + c
         \/ s.st >= x /\ s.length >= c
  BY DEF FindSlot, SlotAt
<1>3. s \in Slots
  BY <1>1, <1>2
<1>4. s.st \in Nat /\ s.length \in Nat
  BY <1>3 DEF Slots
<1>5. e = IF s.st <= x THEN x + c ELSE s.st + c
  BY DEF EFTin
<1> QED
  BY <1>2, <1>3, <1>4, <1>5

(* The pieces that AddTask leaves of a slot lie in the slot, on both sides *)
(* of the task, and apart.                                                 *)
LEMMA CutPieces ==
    ASSUME NEW s \in Slots, NEW a \in Nat, NEW e \in Nat,
           s.st <= a, a <= e, e <= s.st + s.length
    PROVE  /\ NonEmpty(Cut(s, a, e)) \subseteq Slots
           /\ \A r \in NonEmpty(Cut(s, a, e)) :
                 /\ s.st <= r.st
                 /\ r.st + r.length <= s.st + s.length
                 /\ e <= r.st \/ r.st + r.length <= a
           /\ \A q, r \in NonEmpty(Cut(s, a, e)) :
                 q # r => q.st + q.length <= r.st \/ r.st + r.length <= q.st
<1> DEFINE head == [st |-> s.st, length |-> a - s.st]
           tail == [st |-> e, length |-> s.st + s.length - e]
<1>1. s.st \in Nat /\ s.length \in Nat
  BY DEF Slots
<1>2. NonEmpty(Cut(s, a, e)) \subseteq {head, tail}
  BY DEF NonEmpty, Cut
<1>3. /\ head.st = s.st /\ head.length = a - s.st
      /\ tail.st = e /\ tail.length = s.st + s.length - e
  OBVIOUS
<1>4. a - s.st \in Nat /\ s.st + s.length - e \in Nat
  BY <1>1
<1>5. head \in Slots /\ tail \in Slots
  BY <1>1, <1>4 DEF Slots
<1> HIDE DEF head, tail
<1>6. /\ s.st <= head.st /\ head.st + head.length <= s.st + s.length
      /\ head.st + head.length <= a
      /\ s.st <= tail.st /\ tail.st + tail.length <= s.st + s.length
      /\ e <= tail.st
      /\ head.st + head.length <= tail.st
  BY <1>1, <1>3
<1>7. ASSUME NEW r \in NonEmpty(Cut(s, a, e))
      PROVE  /\ r \in Slots /\ s.st <= r.st
             /\ r.st + r.length <= s.st + s.length
             /\ e <= r.st \/ r.st + r.length <= a
  BY <1>2, <1>5, <1>6
<1>8. ASSUME NEW q \in NonEmpty(Cut(s, a, e)), NEW r \in NonEmpty(Cut(s, a, e)), q # r
      PROVE  q.st + q.length <= r.st \/ r.st + r.length <= q.st
  <2>1. (q = head /\ r = tail) \/ (q = tail /\ r = head)
    BY <1>2, <1>8
  <2> QED
    BY <2>1, <1>6
<1> QED
  BY <1>7, <1>8

(***************************************************************************)
(* The invariant.                                                          *)
(***************************************************************************)

(* A scheduler starts with free processors and nothing placed.             *)
LEMMA StartedInv ==
    /\ graph \in Graphs /\ method \in Methods \cup {"chosen"}
    /\ plan \in Plans \cup {NoPlan} /\ Started
    => SchedulerInv
<1> SUFFICES ASSUME graph \in Graphs, method \in Methods \cup {"chosen"},
                    plan \in Plans \cup {NoPlan}, Started
             PROVE  SchedulerInv
  OBVIOUS
<1>1. popped = {} /\ indegree = [n \in Vertices |-> Cardinality(Pred(graph, n))]
  BY DEF Started
<1>2. ASSUME NEW n \in Vertices
      PROVE  Cardinality(Pred(graph, n)) \in Nat /\ Pred(graph, n) \ popped = Pred(graph, n)
  BY <1>1, PredFinite, FS_CardinalityType
<1>3. Degrees
  BY <1>1, <1>2 DEF Degrees
<1>4. indegree \in [Vertices -> Nat]
  BY <1>1, <1>2
<1>5. slots = [p \in Procs |-> {[st |-> 0, length |-> Horizon(graph)]}]
  BY DEF Started, NewProcessor
<1>6. Horizon(graph) \in Nat
  BY GraphFacts DEF Horizon
<1>7. slots \in [Procs -> SUBSET Slots]
  BY <1>5, <1>6 DEF Slots
<1>8. SlotsApart
  BY <1>5 DEF SlotsApart
<1>9. /\ est \in [Vertices -> Nat] /\ ast \in [Vertices -> Nat] /\ eft \in [Vertices -> Nat]
      /\ proc \in [Vertices -> Procs \cup {NoProc}]
  BY DEF Started
<1>10. TypeOK
  BY <1>1, <1>4, <1>7, <1>9 DEF TypeOK
<1>11. Topological /\ Times /\ SlotsFree /\ NoOverlap
  BY <1>1 DEF Topological, Times, SlotsFree, NoOverlap, Placed
<1> QED
  BY <1>3, <1>8, <1>10, <1>11 DEF SchedulerInv

(* The invariant holds at the start.                                       *)
LEMMA InitInv == Init => SchedulerInv
<1> SUFFICES ASSUME Init PROVE SchedulerInv
  OBVIOUS
<1>1. method \in Methods \cup {"chosen"} /\ plan \in Plans \cup {NoPlan}
  BY DEF Init, Methods
<1> QED
  BY <1>1, StartedInv DEF Init

(* Taking the entry or the end keeps it: no processor is concerned.        *)
LEMMA PassVertexInv ==
    ASSUME SchedulerInv, NEW n \in Vertices, PassVertex(n) PROVE SchedulerInv'
<1>1. TypeOK /\ graph \in Graphs /\ Topological /\ Degrees /\ Times
      /\ SlotsApart /\ SlotsFree /\ NoOverlap
  BY DEF SchedulerInv
<1>2. /\ method \in Methods /\ n \notin Tasks /\ Pop(n) /\ est' = ESTAfter(n, eft[n])
      /\ UNCHANGED <<graph, method, slots, proc, ast, eft, plan>>
  BY DEF PassVertex
<1>3. /\ Degrees' /\ indegree' \in [Vertices -> Nat] /\ popped' \subseteq Vertices
      /\ n \notin popped
  BY <1>1, <1>2, PopDegrees
<1>4. Topological'
  BY <1>1, <1>2, PopTopological
<1>5. popped' = popped \cup {n} /\ Placed' = Placed
  BY <1>2 DEF Pop, Placed
<1>6. eft[n] \in Nat
  BY <1>1 DEF TypeOK
<1>7. /\ est' \in [Vertices -> Nat]
      /\ \A v \in Vertices : est[v] <= est'[v]
      /\ \A v \in popped \cup {n} : est'[v] = est[v]
      /\ \A v \in Succ(graph, n) : eft[n] <= est'[v]
  BY <1>1, <1>2, <1>3, <1>6, ESTGrows
<1>8. TypeOK'
  BY <1>1, <1>2, <1>3, <1>7 DEF TypeOK
<1>9. Times'
  <2>1. ASSUME NEW t \in Placed'
        PROVE  /\ proc'[t] \in Procs
               /\ eft'[t] = ast'[t] + graph'.cost[t]
               /\ est'[t] <= ast'[t]
    BY <1>1, <1>2, <1>5, <1>7 DEF Times, Placed
  <2>2. ASSUME NEW u \in popped', NEW v \in Succ(graph', u) PROVE eft'[u] <= est'[v]
    <3>1. v \in Vertices /\ v \in Succ(graph, u) /\ eft'[u] = eft[u]
      BY <1>2 DEF Succ
    <3>2. CASE u = n
      BY <1>7, <3>1, <3>2
    <3>3. CASE u \in popped
      <4>1. eft[u] <= est[v] /\ est[v] <= est'[v]
        BY <1>1, <1>7, <3>1, <3>3 DEF Times
      <4>2. eft[u] \in Nat /\ est[v] \in Nat /\ est'[v] \in Nat
        BY <1>1, <1>7, <3>1, <3>3 DEF TypeOK
      <4> QED
        BY <3>1, <4>1, <4>2
    <3> QED
      BY <1>5, <3>2, <3>3
  <2> QED
    BY <2>1, <2>2 DEF Times
<1>10. SlotsApart' /\ SlotsFree' /\ NoOverlap'
  BY <1>1, <1>2, <1>5 DEF SlotsApart, SlotsFree, NoOverlap
<1> QED
  BY <1>1, <1>2, <1>3, <1>4, <1>8, <1>9, <1>10 DEF SchedulerInv

(* Starting the next scheduler keeps it.                                   *)
LEMMA KeepBetterInv == ASSUME SchedulerInv, KeepBetter PROVE SchedulerInv'
<1>1. TypeOK /\ graph \in Graphs /\ graph' = graph
  BY DEF SchedulerInv, KeepBetter
<1>2. method' \in Methods \cup {"chosen"}
  <2>1. method \in Methods /\ method' = Following(method)
    BY DEF KeepBetter
  <2> QED
    BY <2>1, Zenon DEF Following, Methods
<1>3. plan' \in Plans \cup {NoPlan}
  <2> DEFINE kept == [proc |-> proc, ast |-> ast, makespan |-> est[End]]
  <2>1. kept \in Plans
    BY <1>1 DEF TypeOK, Plans, Vertices
  <2>2. plan' = kept \/ plan' = plan
    BY DEF KeepBetter
  <2>3. plan \in Plans \cup {NoPlan}
    BY <1>1 DEF TypeOK
  <2> HIDE DEF kept
  <2> QED
    BY <2>1, <2>2, <2>3
<1>4. /\ (graph \in Graphs)' /\ (method \in Methods \cup {"chosen"})'
      /\ (plan \in Plans \cup {NoPlan})' /\ Started'
  BY <1>1, <1>2, <1>3 DEF KeepBetter, Started
<1> QED
  BY <1>4, StartedInv, PTL

(* Placing a task keeps it: the slot was free of all other tasks, and what *)
(* is left of it lies on both sides of the task.                           *)
LEMMA PlaceTaskInv ==
    ASSUME SchedulerInv, NEW n \in Vertices, PlaceTask(n) PROVE SchedulerInv'
<1>1. TypeOK /\ graph \in Graphs /\ Topological /\ Degrees /\ Times
      /\ SlotsApart /\ SlotsFree /\ NoOverlap
  BY DEF SchedulerInv
<1>2. /\ method \in Methods /\ n \in Tasks /\ Pop(n)
      /\ UNCHANGED <<graph, method, plan>>
  BY DEF PlaceTask
<1>p. PICK p \in Procs : \E s \in slots[p] :
        /\ s \in FindSlot(p, est[n], graph.cost[n])
        /\ LET e == EFTin(s, est[n], graph.cost[n])
               a == e - graph.cost[n]
           IN  /\ eft' = [eft EXCEPT ![n] = e]
               /\ ast' = [ast EXCEPT ![n] = a]
               /\ est' = ESTAfter(n, e)
               /\ proc' = [proc EXCEPT ![n] = p]
               /\ slots' = [slots EXCEPT ![p] = (@ \ {s}) \cup NonEmpty(Cut(s, a, e))]
  BY DEF PlaceTask, Best
<1>3. PICK s \in slots[p] :
        /\ s \in FindSlot(p, est[n], graph.cost[n])
        /\ LET e == EFTin(s, est[n], graph.cost[n])
               a == e - graph.cost[n]
           IN  /\ eft' = [eft EXCEPT ![n] = e]
               /\ ast' = [ast EXCEPT ![n] = a]
               /\ est' = ESTAfter(n, e)
               /\ proc' = [proc EXCEPT ![n] = p]
               /\ slots' = [slots EXCEPT ![p] = (@ \ {s}) \cup NonEmpty(Cut(s, a, e))]
  BY <1>p
<1> DEFINE c == graph.cost[n]
           e == EFTin(s, est[n], c)
           a == e - c
           pieces == NonEmpty(Cut(s, a, e))
<1>4. c \in Nat /\ est[n] \in Nat
  BY <1>1, GraphFacts DEF TypeOK
<1>5. /\ s \in Slots /\ e \in Nat /\ a \in Nat
      /\ est[n] <= a /\ s.st <= a /\ e <= s.st + s.length
  BY <1>1, <1>3, <1>4, FoundSlotFits
<1>6. s.st \in Nat /\ s.length \in Nat /\ a <= e /\ e = a + c
  BY <1>4, <1>5 DEF Slots
<1>7. /\ eft' = [eft EXCEPT ![n] = e]
      /\ ast' = [ast EXCEPT ![n] = a]
      /\ est' = ESTAfter(n, e)
      /\ proc' = [proc EXCEPT ![n] = p]
      /\ slots' = [slots EXCEPT ![p] = (slots[p] \ {s}) \cup pieces]
  BY <1>3
<1>8. /\ pieces \subseteq Slots
      /\ \A r \in pieces :
            /\ s.st <= r.st /\ r.st + r.length <= s.st + s.length
            /\ e <= r.st \/ r.st + r.length <= a
      /\ \A q, r \in pieces :
            q # r => q.st + q.length <= r.st \/ r.st + r.length <= q.st
  BY <1>5, <1>6, CutPieces
<1> HIDE DEF c, e, a, pieces
<1>9. /\ Degrees' /\ indegree' \in [Vertices -> Nat] /\ popped' \subseteq Vertices
      /\ n \notin popped
  BY <1>1, <1>2, PopDegrees
<1>10. Topological'
  BY <1>1, <1>2, PopTopological
<1>11. popped' = popped \cup {n} /\ Placed' = Placed \cup {n} /\ n \notin Placed
  BY <1>2, <1>9 DEF Pop, Placed
<1>12. /\ est' \in [Vertices -> Nat]
       /\ \A v \in Vertices : est[v] <= est'[v]
       /\ \A v \in popped \cup {n} : est'[v] = est[v]
       /\ \A v \in Succ(graph, n) : e <= est'[v]
  BY <1>1, <1>5, <1>7, <1>9, ESTGrows
<1>13. /\ eft \in [Vertices -> Nat] /\ ast \in [Vertices -> Nat]
       /\ proc \in [Vertices -> Procs \cup {NoProc}] /\ slots \in [Procs -> SUBSET Slots]
       /\ est \in [Vertices -> Nat]
  BY <1>1 DEF TypeOK
<1>14. /\ eft'[n] = e /\ ast'[n] = a /\ proc'[n] = p
       /\ \A v \in Vertices : v # n => eft'[v] = eft[v] /\ ast'[v] = ast[v] /\ proc'[v] = proc[v]
       /\ slots'[p] = (slots[p] \ {s}) \cup pieces
       /\ \A q \in Procs : q # p => slots'[q] = slots[q]
  BY <1>7, <1>13
<1>15. TypeOK'
  <2>1. slots' \in [Procs -> SUBSET Slots]
    BY <1>7, <1>8, <1>13
  <2>2. /\ eft' \in [Vertices -> Nat] /\ ast' \in [Vertices -> Nat]
        /\ proc' \in [Vertices -> Procs \cup {NoProc}]
    BY <1>5, <1>7, <1>13
  <2> QED
    BY <1>1, <1>2, <1>9, <1>12, <2>1, <2>2 DEF TypeOK
<1>16. Placed \subseteq Vertices /\ Placed \subseteq popped
  BY DEF Placed, Vertices
<1>17. Times'
  <2>1. ASSUME NEW t \in Placed'
        PROVE  /\ proc'[t] \in Procs
               /\ eft'[t] = ast'[t] + graph'.cost[t]
               /\ est'[t] <= ast'[t]
    <3>1. CASE t = n
      BY <1>2, <1>5, <1>6, <1>12, <1>14, <3>1 DEF c
    <3>2. CASE t \in Placed
      BY <1>1, <1>2, <1>11, <1>12, <1>14, <1>16, <3>2 DEF Times
    <3> QED
      BY <1>11, <3>1, <3>2
  <2>2. ASSUME NEW u \in popped', NEW v \in Succ(graph', u) PROVE eft'[u] <= est'[v]
    <3>1. v \in Vertices /\ v \in Succ(graph, u)
      BY <1>2 DEF Succ
    <3>2. CASE u = n
      BY <1>12, <1>14, <3>1, <3>2
    <3>3. CASE u \in popped
      <4>1. u \in Vertices /\ u # n /\ eft'[u] = eft[u]
        BY <1>1, <1>9, <1>14, <3>3 DEF TypeOK
      <4>2. eft[u] <= est[v] /\ est[v] <= est'[v]
        BY <1>1, <1>12, <3>1, <3>3 DEF Times
      <4>3. eft[u] \in Nat /\ est[v] \in Nat /\ est'[v] \in Nat
        BY <1>12, <1>13, <3>1, <4>1
      <4> QED
        BY <4>1, <4>2, <4>3
    <3> QED
      BY <1>11, <3>2, <3>3
  <2> QED
    BY <2>1, <2>2 DEF Times
<1>18. SlotsApart'
  <2> SUFFICES ASSUME NEW q \in Procs, NEW r \in slots'[q], NEW r2 \in slots'[q], r # r2
               PROVE  r.st + r.length <= r2.st \/ r2.st + r2.length <= r.st
    BY DEF SlotsApart
  <2>1. r \in Slots /\ r2 \in Slots
    BY <1>15 DEF TypeOK
  <2>2. r.st \in Nat /\ r.length \in Nat /\ r2.st \in Nat /\ r2.length \in Nat
    BY <2>1 DEF Slots
  <2>3. CASE q # p \/ (r \notin pieces /\ r2 \notin pieces)
    BY <1>1, <1>14, <2>3 DEF SlotsApart
  <2>4. CASE q = p /\ r \in pieces /\ r2 \in pieces
    BY <1>8, <2>4
  <2>5. CASE q = p /\ r \in pieces /\ r2 \notin pieces
    <3>1. r2 \in slots[p] /\ r2 # s
      BY <1>14, <2>5
    <3>2. r2.st + r2.length <= s.st \/ s.st + s.length <= r2.st
      BY <1>1, <3>1 DEF SlotsApart
    <3> QED
      BY <1>6, <1>8, <2>2, <2>5, <3>2
  <2>6. CASE q = p /\ r \notin pieces /\ r2 \in pieces
    <3>1. r \in slots[p] /\ r # s
      BY <1>14, <2>6
    <3>2. r.st + r.length <= s.st \/ s.st + s.length <= r.st
      BY <1>1, <3>1 DEF SlotsApart
    <3> QED
      BY <1>6, <1>8, <2>2, <2>6, <3>2
  <2> QED
    BY <2>3, <2>4, <2>5, <2>6
<1>19. SlotsFree'
  <2> SUFFICES ASSUME NEW t \in Placed', NEW r \in slots'[proc'[t]]
               PROVE  eft'[t] <= r.st \/ r.st + r.length <= ast'[t]
    BY DEF SlotsFree
  <2>1. proc'[t] \in Procs
    BY <1>17 DEF Times
  <2>2. r \in Slots
    BY <1>15, <2>1 DEF TypeOK
  <2>3. r.st \in Nat /\ r.length \in Nat
    BY <2>2 DEF Slots
  <2>4. CASE t = n /\ r \in pieces
    BY <1>8, <1>14, <2>4
  <2>5. CASE t = n /\ r \notin pieces
    <3>1. r \in slots[p] /\ r # s
      BY <1>14, <2>5
    <3>2. r.st + r.length <= s.st \/ s.st + s.length <= r.st
      BY <1>1, <3>1 DEF SlotsApart
    <3> QED
      BY <1>5, <1>6, <1>14, <2>3, <2>5, <3>2
  <2>6. CASE t \in Placed /\ r \in slots[proc[t]]
    BY <1>1, <1>11, <1>14, <1>16, <2>6 DEF SlotsFree
  <2>7. CASE t \in Placed /\ r \notin slots[proc[t]]
    <3>1. t \in Vertices /\ t # n /\ proc'[t] = proc[t] /\ eft'[t] = eft[t] /\ ast'[t] = ast[t]
      BY <1>11, <1>14, <1>16, <2>7
    <3>2. proc[t] = p /\ r \in pieces
      BY <1>14, <2>1, <2>7, <3>1
    <3>3. eft[t] <= s.st \/ s.st + s.length <= ast[t]
      BY <1>1, <2>7, <3>2 DEF SlotsFree
    <3>4. eft[t] \in Nat /\ ast[t] \in Nat
      BY <1>13, <3>1
    <3> QED
      BY <1>6, <1>8, <2>3, <3>1, <3>2, <3>3, <3>4
  <2> QED
    BY <1>11, <2>4, <2>5, <2>6, <2>7
<1>20. NoOverlap'
  <2>1. ASSUME NEW u \in Placed, proc[u] = p PROVE eft[u] <= a \/ e <= ast[u]
    <3>1. eft[u] <= s.st \/ s.st + s.length <= ast[u]
      BY <1>1, <2>1 DEF SlotsFree
    <3>2. eft[u] \in Nat /\ ast[u] \in Nat
      BY <1>13, <1>16
    <3> QED
      BY <1>5, <1>6, <3>1, <3>2
  <2> SUFFICES ASSUME NEW t \in Placed', NEW u \in Placed', t # u, proc'[t] = proc'[u]
               PROVE  eft'[t] <= ast'[u] \/ eft'[u] <= ast'[t]
    BY DEF NoOverlap
  <2>2. CASE t = n
    BY <1>11, <1>14, <1>16, <2>1, <2>2
  <2>3. CASE u = n
    BY <1>11, <1>14, <1>16, <2>1, <2>3
  <2>4. CASE t # n /\ u # n
    BY <1>1, <1>11, <1>14, <1>16, <2>4 DEF NoOverlap
  <2> QED
    BY <2>2, <2>3, <2>4
<1> QED
  BY <1>1, <1>2, <1>9, <1>10, <1>15, <1>17, <1>18, <1>19, <1>20 DEF SchedulerInv

(* Every step keeps the invariant.                                         *)
LEMMA NextInv == SchedulerInv /\ [Next]_vars => SchedulerInv'
<1> SUFFICES ASSUME SchedulerInv, [Next]_vars PROVE SchedulerInv'
  OBVIOUS
<1>1. ASSUME NEW n \in Vertices, PassVertex(n) PROVE SchedulerInv'
  BY <1>1, PassVertexInv
<1>2. ASSUME NEW n \in Vertices, PlaceTask(n) PROVE SchedulerInv'
  BY <1>2, PlaceTaskInv
<1>3. CASE KeepBetter
  BY <1>3, KeepBetterInv
<1>4. CASE UNCHANGED vars
  BY <1>4 DEF vars, SchedulerInv, TypeOK, Topological, Degrees, Times, SlotsApart,
              SlotsFree, NoOverlap, Placed
<1> QED
  BY <1>1, <1>2, <1>3, <1>4 DEF Next, Step, Chosen

(* For every block, whatever its graph, its costs and the processors: the  *)
(* schedulers' state is always as SchedulerInv says.                       *)
THEOREM InvariantCorrect == Spec => []SchedulerInv
<1> QED
  BY InitInv, NextInv, PTL DEF Spec

(* TypeOK always holds.                                                    *)
THEOREM TypeCorrect == Spec => []TypeOK
<1>1. SchedulerInv => TypeOK
  BY DEF SchedulerInv
<1> QED
  BY InvariantCorrect, <1>1, PTL

(* A processor (AddTask on the slot FindEFT found) is never given two      *)
(* tasks at a time.                                                        *)
THEOREM NoOverlapCorrect == Spec => []NoOverlap
<1>1. SchedulerInv => NoOverlap
  BY DEF SchedulerInv
<1> QED
  BY InvariantCorrect, <1>1, PTL

(* The invariant has it that tasks start after those they depend on.       *)
LEMMA InvPrecedence == ASSUME SchedulerInv PROVE Precedence
<1> SUFFICES ASSUME NEW t \in Placed, NEW u \in Placed, <<u, t>> \in graph.edges
             PROVE  eft[u] <= ast[t]
  BY DEF Precedence
<1>1. t \in Vertices /\ u \in Vertices /\ u \in popped
  BY DEF Placed, Vertices
<1>2. t \in Succ(graph, u)
  BY <1>1 DEF Succ
<1>3. eft[u] <= est[t] /\ est[t] <= ast[t]
  BY <1>1, <1>2 DEF SchedulerInv, Times
<1>4. eft[u] \in Nat /\ est[t] \in Nat /\ ast[t] \in Nat
  BY <1>1 DEF SchedulerInv, TypeOK
<1> QED
  BY <1>3, <1>4

(* A task never starts before a task it depends on has ended, in any of    *)
(* the four orders in which the vertices are taken from the queue.         *)
THEOREM PrecedenceCorrect == Spec => []Precedence
<1>1. SchedulerInv => Precedence
  BY InvPrecedence
<1> QED
  BY InvariantCorrect, <1>1, PTL

(***************************************************************************)
(* The slots and the plan: the slots of a processor are the gaps between   *)
(* its tasks, and a task is put into the first gap that has room for it.   *)
(***************************************************************************)

(* A task costs something.                                                 *)
LEMMA TaskCosts ==
    ASSUME NEW g \in Graphs, NEW t \in Tasks
    PROVE  t \in Vertices /\ g.cost[t] \in Nat /\ g.cost[t] > 0
<1>1. t \in Vertices
  BY DEF Vertices
<1>2. IsGraph(g)
  BY GraphsAssumption
<1>3. g.cost \in [Vertices -> Nat] /\ (g.cost[t] = 0 <=> t \notin Tasks)
  BY <1>1, <1>2 DEF IsGraph
<1> QED
  BY <1>1, <1>3

(* What it is to place a task: it takes a stretch of its cost, [a, e), out *)
(* of a slot s that is the best choice, and nothing else changes on any    *)
(* processor.                                                              *)
LEMMA PlaceTaskStep ==
    ASSUME SchedulerInv, NEW n \in Vertices, PlaceTask(n)
    PROVE  /\ n \in Tasks /\ n \notin popped
           /\ popped' = popped \cup {n} /\ Placed' = Placed \cup {n} /\ n \notin Placed
           /\ UNCHANGED <<graph, method, plan>>
           /\ \E p \in Procs : \E s \in slots[p] : \E a, e \in Nat :
                 /\ Best(n, p, s)
                 /\ e = EFTin(s, est[n], graph.cost[n]) /\ e = a + graph.cost[n]
                 /\ est[n] <= a /\ a < e
                 /\ s \in Slots /\ s.st <= a /\ e <= s.st + s.length
                 /\ eft' = [eft EXCEPT ![n] = e]
                 /\ ast' = [ast EXCEPT ![n] = a]
                 /\ est' = ESTAfter(n, e)
                 /\ proc' = [proc EXCEPT ![n] = p]
                 /\ slots' = [slots EXCEPT ![p] = (slots[p] \ {s}) \cup NonEmpty(Cut(s, a, e))]
<1>1. TypeOK /\ graph \in Graphs
  BY DEF SchedulerInv
<1>2. /\ n \in Tasks /\ Pop(n) /\ UNCHANGED <<graph, method, plan>>
  BY DEF PlaceTask
<1>3. n \notin popped /\ popped' = popped \cup {n}
  BY <1>2 DEF Pop, OnTop
<1>4. Placed' = Placed \cup {n} /\ n \notin Placed
  BY <1>2, <1>3 DEF Placed
<1> DEFINE c == graph.cost[n]
<1>5. PICK p \in Procs : \E s \in slots[p] :
        /\ Best(n, p, s)
        /\ LET e == EFTin(s, est[n], c)
               a == e - c
           IN  /\ eft' = [eft EXCEPT ![n] = e]
               /\ ast' = [ast EXCEPT ![n] = a]
               /\ est' = ESTAfter(n, e)
               /\ proc' = [proc EXCEPT ![n] = p]
               /\ slots' = [slots EXCEPT ![p] = (@ \ {s}) \cup NonEmpty(Cut(s, a, e))]
  BY DEF PlaceTask
<1>6. PICK s \in slots[p] :
        /\ Best(n, p, s)
        /\ LET e == EFTin(s, est[n], c)
               a == e - c
           IN  /\ eft' = [eft EXCEPT ![n] = e]
               /\ ast' = [ast EXCEPT ![n] = a]
               /\ est' = ESTAfter(n, e)
               /\ proc' = [proc EXCEPT ![n] = p]
               /\ slots' = [slots EXCEPT ![p] = (@ \ {s}) \cup NonEmpty(Cut(s, a, e))]
  BY <1>5
<1> DEFINE e == EFTin(s, est[n], c)
           a == e - c
<1>7. c \in Nat /\ c > 0 /\ est[n] \in Nat
  BY <1>1, <1>2, TaskCosts DEF TypeOK
<1>8. s \in FindSlot(p, est[n], c)
  BY <1>6 DEF Best
<1>9. /\ s \in Slots /\ e \in Nat /\ a \in Nat
      /\ est[n] <= a /\ s.st <= a /\ e <= s.st + s.length
  BY <1>1, <1>7, <1>8, FoundSlotFits
<1>10. e = a + c /\ a < e
  BY <1>7, <1>9
<1>11. slots' = [slots EXCEPT ![p] = (slots[p] \ {s}) \cup NonEmpty(Cut(s, a, e))]
  BY <1>6
<1>12. /\ eft' = [eft EXCEPT ![n] = e] /\ ast' = [ast EXCEPT ![n] = a]
       /\ est' = ESTAfter(n, e) /\ proc' = [proc EXCEPT ![n] = p] /\ Best(n, p, s)
  BY <1>6
<1>13. \E a1, e1 \in Nat :
          /\ Best(n, p, s)
          /\ e1 = EFTin(s, est[n], graph.cost[n]) /\ e1 = a1 + graph.cost[n]
          /\ est[n] <= a1 /\ a1 < e1
          /\ s \in Slots /\ s.st <= a1 /\ e1 <= s.st + s.length
          /\ eft' = [eft EXCEPT ![n] = e1]
          /\ ast' = [ast EXCEPT ![n] = a1]
          /\ est' = ESTAfter(n, e1)
          /\ proc' = [proc EXCEPT ![n] = p]
          /\ slots' = [slots EXCEPT ![p] = (slots[p] \ {s}) \cup NonEmpty(Cut(s, a1, e1))]
  BY <1>9, <1>10, <1>11, <1>12, Zenon
<1> QED
  BY <1>2, <1>3, <1>4, <1>13

(* What AddTask leaves of a slot covers the slot but for the task, and     *)
(* does so with pieces that do not touch.                                  *)
LEMMA CutCovers ==
    ASSUME NEW s \in Slots, NEW a \in Nat, NEW e \in Nat,
           s.st <= a, a < e, e <= s.st + s.length
    PROVE  /\ \A x \in Int : (\E r \in NonEmpty(Cut(s, a, e)) : Covers(r, x))
                                <=> Covers(s, x) /\ ~(a <= x /\ x < e)
           /\ \A q, r \in NonEmpty(Cut(s, a, e)) :
                 q # r => q.st + q.length < r.st \/ r.st + r.length < q.st
<1> DEFINE head == [st |-> s.st, length |-> a - s.st]
           tail == [st |-> e, length |-> s.st + s.length - e]
<1>1. s.st \in Nat /\ s.length \in Nat
  BY DEF Slots
<1>2. NonEmpty(Cut(s, a, e)) = {r \in {head, tail} : r.length # 0}
  BY DEF NonEmpty, Cut
<1>3. /\ head.st = s.st /\ head.length = a - s.st
      /\ tail.st = e /\ tail.length = s.st + s.length - e
  OBVIOUS
<1> HIDE DEF head, tail
<1>4. ASSUME NEW x \in Int
      PROVE  (\E r \in NonEmpty(Cut(s, a, e)) : Covers(r, x))
                <=> Covers(s, x) /\ ~(a <= x /\ x < e)
  <2>1. ASSUME NEW r \in NonEmpty(Cut(s, a, e)), Covers(r, x)
        PROVE  Covers(s, x) /\ ~(a <= x /\ x < e)
    <3>1. r = head \/ r = tail
      BY <1>2
    <3> QED
      BY <1>1, <1>3, <2>1, <3>1 DEF Covers
  <2>2. CASE s.st <= x /\ x < a
    <3>1. Covers(head, x) /\ head.length # 0
      BY <1>1, <1>3, <2>2 DEF Covers
    <3> QED
      BY <1>2, <2>1, <3>1
  <2>3. CASE e <= x /\ x < s.st + s.length
    <3>1. Covers(tail, x) /\ tail.length # 0
      BY <1>1, <1>3, <2>3 DEF Covers
    <3> QED
      BY <1>2, <2>1, <3>1
  <2>4. CASE ~(s.st <= x /\ x < a) /\ ~(e <= x /\ x < s.st + s.length)
    <3>1. ~(Covers(s, x) /\ ~(a <= x /\ x < e))
      BY <1>1, <2>4 DEF Covers
    <3> QED
      BY <2>1, <3>1
  <2> QED
    BY <2>2, <2>3, <2>4
<1>5. ASSUME NEW q \in NonEmpty(Cut(s, a, e)), NEW r \in NonEmpty(Cut(s, a, e)), q # r
      PROVE  q.st + q.length < r.st \/ r.st + r.length < q.st
  <2>1. (q = head /\ r = tail) \/ (q = tail /\ r = head)
    BY <1>2, <1>5
  <2> QED
    BY <1>1, <1>3, <2>1
<1> QED
  BY <1>4, <1>5

(***************************************************************************)
(* The slots are the gaps.                                                 *)
(***************************************************************************)

(* A new processor has one slot and no task.                               *)
LEMMA StartedGaps == ASSUME graph \in Graphs, Started PROVE SlotsAreGaps
<1>1. popped = {} /\ slots = [p \in Procs |-> {[st |-> 0, length |-> Horizon(graph)]}]
  BY DEF Started, NewProcessor
<1>2. Horizon(graph) \in Nat
  BY GraphFacts DEF Horizon
<1> DEFINE new == [st |-> 0, length |-> Horizon(graph)]
<1>3. new.st = 0 /\ new.length = Horizon(graph)
  OBVIOUS
<1> HIDE DEF new
<1>4. \A p \in Procs : slots[p] = {new}
  BY <1>1 DEF new
<1>5. ASSUME NEW p \in Procs, NEW x \in 0 .. Horizon(graph) - 1
      PROVE  ~Busy(p, x) /\ \E s \in slots[p] : Covers(s, x)
  <2>1. ~Busy(p, x)
    BY <1>1 DEF Busy, Placed
  <2>2. Covers(new, x)
    BY <1>2, <1>3 DEF Covers
  <2> QED
    BY <1>4, <2>1, <2>2
<1> QED
  BY <1>4, <1>5 DEF SlotsAreGaps

(* Placing a task takes it out of one gap.                                 *)
LEMMA PlaceTaskGaps ==
    ASSUME SchedulerInv, SchedulerInv', SlotsAreGaps, NEW n \in Vertices, PlaceTask(n)
    PROVE  SlotsAreGaps'
<1>1. /\ n \in Tasks /\ Placed' = Placed \cup {n} /\ n \notin Placed
      /\ graph' = graph /\ graph \in Graphs /\ TypeOK
  BY PlaceTaskStep DEF SchedulerInv
<1>2. PICK p \in Procs : \E s \in slots[p] : \E a, e \in Nat :
         /\ s \in Slots /\ s.st <= a /\ a < e /\ e <= s.st + s.length
         /\ eft' = [eft EXCEPT ![n] = e] /\ ast' = [ast EXCEPT ![n] = a]
         /\ proc' = [proc EXCEPT ![n] = p]
         /\ slots' = [slots EXCEPT ![p] = (slots[p] \ {s}) \cup NonEmpty(Cut(s, a, e))]
  BY PlaceTaskStep
<1>3. PICK s \in slots[p], a \in Nat, e \in Nat :
         /\ s \in Slots /\ s.st <= a /\ a < e /\ e <= s.st + s.length
         /\ eft' = [eft EXCEPT ![n] = e] /\ ast' = [ast EXCEPT ![n] = a]
         /\ proc' = [proc EXCEPT ![n] = p]
         /\ slots' = [slots EXCEPT ![p] = (slots[p] \ {s}) \cup NonEmpty(Cut(s, a, e))]
  BY <1>2
<1> DEFINE pieces == NonEmpty(Cut(s, a, e))
<1>4. /\ \A x \in Int : (\E r \in pieces : Covers(r, x))
                            <=> Covers(s, x) /\ ~(a <= x /\ x < e)
      /\ \A q, r \in pieces : q # r => q.st + q.length < r.st \/ r.st + r.length < q.st
  BY <1>3, CutCovers
<1>5. /\ pieces \subseteq Slots
      /\ \A r \in pieces : s.st <= r.st /\ r.st + r.length <= s.st + s.length
  BY <1>3, CutPieces
<1>6. slots[p] \subseteq Slots /\ s.st \in Nat /\ s.length \in Nat
  BY <1>1, <1>3 DEF TypeOK, Slots
<1>7. /\ eft \in [Vertices -> Nat] /\ ast \in [Vertices -> Nat]
      /\ proc \in [Vertices -> Procs \cup {NoProc}] /\ slots \in [Procs -> SUBSET Slots]
  BY <1>1 DEF TypeOK
<1>8. /\ eft'[n] = e /\ ast'[n] = a /\ proc'[n] = p
      /\ \A v \in Vertices : v # n => eft'[v] = eft[v] /\ ast'[v] = ast[v] /\ proc'[v] = proc[v]
      /\ slots'[p] = (slots[p] \ {s}) \cup pieces
      /\ \A q \in Procs : q # p => slots'[q] = slots[q]
  BY <1>3, <1>7
<1> HIDE DEF pieces
<1>9. \A r \in Slots : r.st \in Nat /\ r.length \in Nat
  BY DEF Slots
<1>10. ASSUME NEW q \in Procs, NEW x \in Int
       PROVE  Busy(q, x)' <=> Busy(q, x) \/ (q = p /\ a <= x /\ x < e)
  <2>1. Placed \subseteq Vertices
    BY DEF Placed, Vertices
  <2>2. ASSUME NEW t \in Placed
        PROVE  t # n /\ proc'[t] = proc[t] /\ ast'[t] = ast[t] /\ eft'[t] = eft[t]
    BY <1>1, <1>8, <2>1
  <2>3. Busy(q, x)' <=> \E t \in Placed' : proc'[t] = q /\ ast'[t] <= x /\ x < eft'[t]
    BY DEF Busy
  <2> QED
    BY <1>1, <1>8, <2>2, <2>3 DEF Busy
<1>11. \A r \in slots[p] : r # s => s.st + s.length < r.st \/ r.st + r.length < s.st
  BY DEF SlotsAreGaps
<1>12. ASSUME NEW x \in 0 .. Horizon(graph) - 1
       PROVE  Busy(p, x)' <=> ~\E r \in slots'[p] : Covers(r, x)
  <2>1. x \in Int /\ (Busy(p, x) <=> ~\E r \in slots[p] : Covers(r, x))
    <3>1. x \in Int
      BY <1>1, GraphFacts DEF Horizon
    <3> QED
      BY <3>1 DEF SlotsAreGaps
  <2>2. Busy(p, x)' <=> Busy(p, x) \/ (a <= x /\ x < e)
    BY <1>10, <2>1
  <2>3. (\E r \in slots'[p] : Covers(r, x))
           <=> (\E r \in slots[p] \ {s} : Covers(r, x)) \/ (\E r \in pieces : Covers(r, x))
    BY <1>8
  <2>4. CASE a <= x /\ x < e
    <3>1. ASSUME NEW r \in slots[p] \ {s} PROVE ~Covers(r, x)
      <4>1. r.st \in Nat /\ r.length \in Nat
        BY <1>6, <1>9
      <4> QED
        BY <1>3, <1>6, <1>11, <2>1, <2>4, <4>1 DEF Covers
    <3> QED
      BY <1>4, <2>1, <2>2, <2>3, <2>4, <3>1
  <2>5. CASE ~(a <= x /\ x < e)
    BY <1>4, <2>1, <2>2, <2>3, <2>5
  <2> QED
    BY <2>4, <2>5
<1>13. ASSUME NEW r \in slots'[p], NEW r2 \in slots'[p], r # r2
       PROVE  r.st + r.length < r2.st \/ r2.st + r2.length < r.st
  <2>1. r \in Slots /\ r2 \in Slots
    BY <1>5, <1>6, <1>8
  <2>2. r.st \in Nat /\ r.length \in Nat /\ r2.st \in Nat /\ r2.length \in Nat
    BY <1>9, <2>1
  <2>3. CASE r \notin pieces /\ r2 \notin pieces
    BY <1>8, <1>13, <2>3 DEF SlotsAreGaps
  <2>4. CASE r \in pieces /\ r2 \in pieces
    BY <1>4, <1>13, <2>4
  <2>5. CASE r \in pieces /\ r2 \notin pieces
    <3>1. r2 \in slots[p] /\ r2 # s
      BY <1>8, <2>5
    <3> QED
      BY <1>5, <1>6, <1>11, <2>2, <2>5, <3>1
  <2>6. CASE r \notin pieces /\ r2 \in pieces
    <3>1. r \in slots[p] /\ r # s
      BY <1>8, <2>6
    <3> QED
      BY <1>5, <1>6, <1>11, <2>2, <2>6, <3>1
  <2> QED
    BY <2>3, <2>4, <2>5, <2>6
<1>14. ASSUME NEW q \in Procs, q # p
       PROVE  /\ \A x \in 0 .. Horizon(graph) - 1 :
                    Busy(q, x)' <=> ~\E r \in slots'[q] : Covers(r, x)
              /\ \A r, r2 \in slots'[q] : r # r2 =>
                    r.st + r.length < r2.st \/ r2.st + r2.length < r.st
  <2>1. slots'[q] = slots[q]
    BY <1>8, <1>14
  <2>2. ASSUME NEW x \in 0 .. Horizon(graph) - 1 PROVE Busy(q, x)' <=> Busy(q, x)
    <3>1. x \in Int
      BY <1>1, GraphFacts DEF Horizon
    <3> QED
      BY <1>10, <1>14, <3>1
  <2>3. /\ \A x \in 0 .. Horizon(graph) - 1 : Busy(q, x) <=> ~\E r \in slots[q] : Covers(r, x)
        /\ \A r, r2 \in slots[q] : r # r2 =>
              r.st + r.length < r2.st \/ r2.st + r2.length < r.st
    BY DEF SlotsAreGaps
  <2> QED
    BY <2>1, <2>2, <2>3
<1>15. \A q \in Procs :
          /\ \A x \in 0 .. Horizon(graph) - 1 :
                Busy(q, x)' <=> ~\E r \in slots'[q] : Covers(r, x)
          /\ \A r, r2 \in slots'[q] : r # r2 =>
                r.st + r.length < r2.st \/ r2.st + r2.length < r.st
  BY <1>12, <1>13, <1>14
<1>16. Horizon(graph)' = Horizon(graph)
  BY <1>1 DEF Horizon
<1> QED
  BY <1>15, <1>16 DEF SlotsAreGaps, Covers

(* Every step keeps the slots the gaps.                                    *)
LEMMA GapsNext ==
    SchedulerInv /\ SchedulerInv' /\ SlotsAreGaps /\ [Next]_vars => SlotsAreGaps'
<1> SUFFICES ASSUME SchedulerInv, SchedulerInv', SlotsAreGaps, [Next]_vars
             PROVE  SlotsAreGaps'
  OBVIOUS
<1>1. ASSUME NEW n \in Vertices, PassVertex(n) PROVE SlotsAreGaps'
  <2>1. UNCHANGED <<graph, slots, proc, ast, eft>> /\ Placed' = Placed
    BY <1>1 DEF PassVertex, Pop, Placed
  <2> QED
    BY <2>1 DEF SlotsAreGaps, Busy, Covers, Horizon
<1>2. ASSUME NEW n \in Vertices, PlaceTask(n) PROVE SlotsAreGaps'
  BY <1>2, PlaceTaskGaps
<1>3. CASE KeepBetter
  <2>1. (graph \in Graphs)' /\ Started'
    BY <1>3 DEF KeepBetter, SchedulerInv, Started
  <2> QED
    BY <2>1, StartedGaps, PTL
<1>4. CASE UNCHANGED vars
  BY <1>4 DEF vars, SlotsAreGaps, Busy, Covers, Placed, Horizon
<1> QED
  BY <1>1, <1>2, <1>3, <1>4 DEF Next, Step, Chosen

(* The free slots of a processor are exactly the gaps between its tasks,   *)
(* none of them split in two: AddTask loses no free time and leaves no     *)
(* task's time free.                                                       *)
THEOREM SlotsAreGapsCorrect == Spec => []SlotsAreGaps
<1>1. Init => SlotsAreGaps
  BY StartedGaps DEF Init
<1> QED
  BY InvariantCorrect, <1>1, GapsNext, PTL DEF Spec
(***************************************************************************)
(* Time.                                                                   *)
(***************************************************************************)

(* The processors that may take a task.                                    *)
LEMMA EligibleProcs == ASSUME NEW n PROVE Eligible(n) \subseteq Procs
<1>1. 0 \in Procs
  BY SizesAssumption DEF Procs
<1> QED
  BY <1>1 DEF Eligible

(* The vertices taken so far and one more cost no more than all.           *)
LEMMA SpentBound ==
    ASSUME graph \in Graphs, popped \subseteq Vertices,
           NEW n \in Vertices, n \notin popped
    PROVE  /\ Spent \in Nat
           /\ CostOf(graph, popped \cup {n}) = Spent + graph.cost[n]
           /\ Spent + graph.cost[n] <= graph.span
<1> DEFINE c == graph.cost
<1>1. \A S : CostOf(graph, S) = SumOver(c, S)
  BY DEF CostOf, SumOver
<1>2. graph.span = SumOver(c, Vertices)
  BY GraphsAssumption DEF IsSummed, SumOver
<1>3. c \in [Vertices -> Nat] /\ IsFiniteSet(Vertices)
  BY GraphFacts, VerticesFinite
<1>4. c \in [Vertices -> Int] /\ popped \cup {n} \in SUBSET Vertices
      /\ popped \in SUBSET Vertices /\ n \in Vertices \ popped
  BY <1>3
<1>5. Spent = SumOver(c, popped)
  BY <1>1 DEF Spent
<1> HIDE DEF c
<1>6. SumOver(c, popped \cup {n}) = SumOver(c, popped) + c[n]
  BY <1>3, <1>4, SumRules
<1>7. /\ SumOver(c, popped) \in Nat
      /\ SumOver(c, popped \cup {n}) <= SumOver(c, Vertices)
  BY <1>3, <1>4, SumMonotone
<1> QED
  BY <1>1, <1>2, <1>5, <1>6, <1>7 DEF c

(* What taking a vertex adds.                                              *)
LEMMA SpentPop ==
    ASSUME graph \in Graphs, graph' = graph, popped \subseteq Vertices,
           NEW n \in Vertices, n \notin popped, popped' = popped \cup {n}
    PROVE  /\ Spent \in Nat /\ Spent' = Spent + graph.cost[n]
           /\ Spent + graph.cost[n] <= graph.span
<1>1. Spent' = CostOf(graph', popped')
  BY DEF Spent
<1>2. Spent' = CostOf(graph, popped \cup {n})
  BY <1>1
<1> QED
  BY <1>2, SpentBound

(* If a slot has room for a task from x on, and x is not before the task's *)
(* EST, findSlot finds a slot in which the task ends no later than there.  *)
LEMMA RoomIsFound ==
    ASSUME TypeOK, SlotsAreGaps, NEW p \in Procs, NEW s \in slots[p],
           NEW start \in Nat, NEW x \in Nat, NEW c \in Nat, c > 0,
           start <= x, s.st <= x, x + c <= s.st + s.length
    PROVE  /\ FindSlot(p, start, c) # {}
           /\ \A r \in FindSlot(p, start, c) : EFTin(r, start, c) <= x + c
<1> DEFINE around == {r \in SlotAt(p, start) : r.st + r.length >= start + c}
           later == {r \in slots[p] : r.st >= start /\ r.length >= c}
           first == {r \in later : \A r2 \in later : r.st <= r2.st}
<1>1. FindSlot(p, start, c) = IF around # {} THEN around ELSE first
  BY DEF FindSlot
<1>2. \A r \in slots[p] : r.st \in Nat /\ r.length \in Nat
  BY DEF TypeOK, Slots
<1>3. \A r \in around : r \in slots[p] /\ r.st <= start
  BY DEF SlotAt
<1>4. CASE around # {}
  <2>1. ASSUME NEW r \in around PROVE EFTin(r, start, c) <= x + c
    BY <1>3 DEF EFTin
  <2> QED
    BY <1>1, <1>4, <2>1
<1>5. CASE around = {}
  <2>1. start < s.st
    <3> SUFFICES ASSUME s.st <= start PROVE FALSE
      BY <1>2
    <3>1. ASSUME NEW r \in slots[p], r.st <= start PROVE r.st <= s.st
      <4>1. r = s \/ r.st + r.length < s.st \/ s.st + s.length < r.st
        BY DEF SlotsAreGaps
      <4> QED
        BY <1>2, <3>1, <4>1
    <3>2. s \in around
      BY <1>2, <3>1 DEF SlotAt
    <3> QED
      BY <1>5, <3>2
  <2>2. s \in later
    BY <1>2, <2>1
  <2>3. first # {}
    <3> DEFINE Sts == {r.st : r \in later}
    <3>1. Sts \in SUBSET Nat /\ Sts # {}
      BY <1>2, <2>2
    <3>2. PICK m \in Sts : \A k \in Sts : m <= k
      <4> HIDE DEF Sts
      <4> QED
        BY <3>1, LeastNat
    <3>3. PICK r \in later : m = r.st
      OBVIOUS
    <3> QED
      BY <3>2, <3>3
  <2>4. ASSUME NEW r \in first PROVE EFTin(r, start, c) <= x + c
    <3>1. r \in slots[p] /\ r.st <= s.st /\ r.st \in Nat /\ s.st \in Nat
      BY <1>2, <2>2
    <3> QED
      BY <3>1 DEF EFTin
  <2> QED
    BY <1>1, <1>5, <2>3, <2>4
<1> QED
  BY <1>4, <1>5

(* The slot at the end of a processor always has room for one more task,   *)
(* which then ends within the time that all tasks so far take together.    *)
LEMMA TailHasRoom ==
    ASSUME TypeOK, graph \in Graphs, SlotsAreGaps, Room, NEW p \in Procs,
           NEW n \in Vertices, n \notin popped, n \in Tasks
    PROVE  /\ FindSlot(p, est[n], graph.cost[n]) # {}
           /\ \A r \in FindSlot(p, est[n], graph.cost[n]) :
                 EFTin(r, est[n], graph.cost[n]) <= Spent + graph.cost[n]
<1> DEFINE c == graph.cost[n]
<1>1. Spent \in Nat /\ Spent + c <= graph.span
  BY SpentBound DEF TypeOK
<1>2. PICK s \in slots[p] : s.st <= Spent /\ s.st + s.length = Horizon(graph)
  BY DEF Room
<1>3. est[n] \in Nat /\ est[n] <= Spent /\ c \in Nat /\ c > 0
  BY TaskCosts DEF TypeOK, Room
<1>4. graph.span \in Nat /\ Horizon(graph) = 2 * graph.span
  BY GraphFacts DEF Horizon
<1>5. Spent + c <= s.st + s.length
  <2> HIDE DEF c
  <2>1. Spent + c <= 2 * graph.span
    BY <1>1, <1>3, <1>4
  <2> QED
    BY <1>2, <1>4, <2>1
<1> HIDE DEF c
<1> QED
  BY <1>1, <1>2, <1>3, <1>5, RoomIsFound DEF c

(* A new processor is free from 0 to the horizon.                          *)
LEMMA StartedRoom == ASSUME graph \in Graphs, Started PROVE Room
<1>1. /\ popped = {} /\ slots = [p \in Procs |-> {[st |-> 0, length |-> Horizon(graph)]}]
      /\ est = [n \in Vertices |-> 0] /\ eft = [n \in Vertices |-> 0]
  BY DEF Started, NewProcessor
<1>2. Horizon(graph) \in Nat
  BY GraphFacts DEF Horizon
<1>3. Spent = 0
  <2>1. graph.cost \in [Vertices -> Int] /\ IsFiniteSet(Vertices)
    BY GraphFacts, VerticesFinite
  <2>2. SumOver(graph.cost, {}) = 0
    BY <2>1, SumRules
  <2> QED
    BY <1>1, <2>2 DEF Spent, CostOf, SumOver
<1> DEFINE new == [st |-> 0, length |-> Horizon(graph)]
<1>4. new.st = 0 /\ new.length = Horizon(graph)
  OBVIOUS
<1> HIDE DEF new
<1>5. \A p \in Procs : slots[p] = {new}
  BY <1>1 DEF new
<1>6. \A p \in Procs : \A s \in slots[p] :
         s.st <= Spent /\ s.st + s.length = Horizon(graph)
  BY <1>2, <1>3, <1>4, <1>5
<1> QED
  BY <1>1, <1>2, <1>3, <1>5, <1>6 DEF Room

(* Vertices without cost change nothing of it.                             *)
LEMMA PassVertexRoom ==
    ASSUME SchedulerInv, Room, NEW n \in Vertices, PassVertex(n) PROVE Room'
<1>1. TypeOK /\ graph \in Graphs /\ Topological
  BY DEF SchedulerInv
<1>2. /\ n \notin popped /\ popped' = popped \cup {n} /\ popped \subseteq Vertices
      /\ est' = ESTAfter(n, eft[n]) /\ UNCHANGED <<graph, slots, eft>>
  BY <1>1 DEF PassVertex, Pop, OnTop, TypeOK
<1>3. Spent \in Nat /\ Spent' = Spent
  <2>1. Spent \in Nat /\ Spent' = Spent + graph.cost[n]
    BY <1>1, <1>2, SpentPop
  <2>2. graph.cost[n] = 0
    BY <1>1, GraphsAssumption DEF PassVertex, IsGraph
  <2> QED
    BY <2>1, <2>2
<1>4. /\ est \in [Vertices -> Nat] /\ eft \in [Vertices -> Nat]
  BY <1>1 DEF TypeOK
<1>5. ASSUME NEW v \in Vertices PROVE est'[v] <= Spent' /\ eft'[v] <= Spent'
  <2>1. est[v] <= Spent /\ eft[v] <= Spent /\ eft[n] <= Spent
    BY DEF Room
  <2>2. est'[v] = est[v] \/ est'[v] = eft[n]
    BY <1>2 DEF ESTAfter, Latest
  <2> QED
    BY <1>2, <1>3, <2>1, <2>2
<1>6. Horizon(graph)' = Horizon(graph)
  BY <1>2
<1>7. \A p \in Procs :
          /\ \A s \in slots'[p] : s.st + s.length <= Horizon(graph)'
          /\ \E s \in slots'[p] : s.st <= Spent' /\ s.st + s.length = Horizon(graph)'
  BY <1>2, <1>3, <1>6 DEF Room
<1> QED
  BY <1>5, <1>7 DEF Room

(* A task ends within its cost of the former bound, and what is left       *)
(* behind it of the last slot, if it took that, reaches to the horizon.    *)
LEMMA PlaceTaskRoom ==
    ASSUME SchedulerInv, SlotsAreGaps, Room, NEW n \in Vertices, PlaceTask(n) PROVE Room'
<1>1. TypeOK /\ graph \in Graphs /\ Topological
  BY DEF SchedulerInv
<1>2. /\ n \in Tasks /\ n \notin popped /\ popped' = popped \cup {n} /\ graph' = graph
      /\ popped \subseteq Vertices
  BY <1>1, PlaceTaskStep DEF TypeOK
<1>3. PICK p \in Procs : \E s \in slots[p] : \E a, e \in Nat :
         /\ Best(n, p, s)
         /\ e = EFTin(s, est[n], graph.cost[n]) /\ a < e
         /\ s \in Slots /\ s.st <= a /\ e <= s.st + s.length
         /\ eft' = [eft EXCEPT ![n] = e] /\ est' = ESTAfter(n, e)
         /\ slots' = [slots EXCEPT ![p] = (slots[p] \ {s}) \cup NonEmpty(Cut(s, a, e))]
  BY PlaceTaskStep
<1>4. PICK s \in slots[p], a \in Nat, e \in Nat :
         /\ Best(n, p, s)
         /\ e = EFTin(s, est[n], graph.cost[n]) /\ a < e
         /\ s \in Slots /\ s.st <= a /\ e <= s.st + s.length
         /\ eft' = [eft EXCEPT ![n] = e] /\ est' = ESTAfter(n, e)
         /\ slots' = [slots EXCEPT ![p] = (slots[p] \ {s}) \cup NonEmpty(Cut(s, a, e))]
  BY <1>3
<1> DEFINE pieces == NonEmpty(Cut(s, a, e))
           tail == [st |-> e, length |-> s.st + s.length - e]
           c == graph.cost[n]
<1>5. e <= Spent + c
  <2>1. s \in FindSlot(p, est[n], graph.cost[n])
    BY <1>4 DEF Best
  <2> QED
    BY <1>1, <1>2, <1>4, <2>1, TailHasRoom
<1>6. Spent \in Nat /\ Spent' = Spent + c /\ Spent + c <= graph.span /\ c \in Nat /\ c > 0
      /\ graph.span \in Nat
  BY <1>1, <1>2, SpentPop, TaskCosts, GraphFacts
<1>7. /\ pieces \subseteq Slots
      /\ \A r \in pieces : r.st + r.length <= s.st + s.length
  BY <1>4, CutPieces
<1>8. tail \in {r \in Slots : r.st = e /\ r.st + r.length = s.st + s.length}
      /\ (tail.length # 0 => tail \in pieces)
      /\ tail.length = s.st + s.length - e
  <2>1. s.st \in Nat /\ s.length \in Nat
    BY <1>4 DEF Slots
  <2>2. s.st + s.length - e \in Nat
    BY <1>4, <2>1
  <2>3. tail \in Slots
    BY <1>4, <2>1, <2>2 DEF Slots
  <2>4. tail.st = e /\ tail.length = s.st + s.length - e
    OBVIOUS
  <2>5. tail \in Cut(s, a, e)
    BY <1>4 DEF Cut
  <2> HIDE DEF tail
  <2> QED
    BY <1>4, <2>1, <2>3, <2>4, <2>5 DEF NonEmpty
<1>9. /\ eft \in [Vertices -> Nat] /\ est \in [Vertices -> Nat] /\ slots \in [Procs -> SUBSET Slots]
  BY <1>1 DEF TypeOK
<1>10. /\ slots'[p] = (slots[p] \ {s}) \cup pieces
       /\ \A q \in Procs : q # p => slots'[q] = slots[q]
       /\ \A v \in Vertices : eft'[v] = IF v = n THEN e ELSE eft[v]
  BY <1>4, <1>9
<1> HIDE DEF pieces, tail, c
<1>11. ASSUME NEW v \in Vertices PROVE est'[v] <= Spent' /\ eft'[v] <= Spent'
  <2>1. est[v] <= Spent /\ eft[v] <= Spent
    BY DEF Room
  <2>2. est'[v] = est[v] \/ est'[v] = e
    BY <1>4 DEF ESTAfter, Latest
  <2>3. eft'[v] = e \/ eft'[v] = eft[v]
    BY <1>10
  <2>4. est[v] \in Nat /\ eft[v] \in Nat
    BY <1>9
  <2> QED
    BY <1>5, <1>6, <2>1, <2>2, <2>3, <2>4
<1>12. Horizon(graph)' = Horizon(graph) /\ Horizon(graph) = 2 * graph.span
  BY <1>2 DEF Horizon
<1>13. \A r \in Slots : r.st \in Nat /\ r.length \in Nat
  BY DEF Slots
<1>14. /\ \A r \in slots[p] : r.st + r.length <= Horizon(graph)
       /\ slots[p] \subseteq Slots
  BY <1>9 DEF Room
<1>15. \A r \in slots'[p] : r.st + r.length <= Horizon(graph)
  <2>1. ASSUME NEW r \in pieces PROVE r.st + r.length <= Horizon(graph)
    <3>1. r.st + r.length <= s.st + s.length /\ s.st + s.length <= Horizon(graph)
      BY <1>7, <1>14
    <3>2. r.st \in Nat /\ r.length \in Nat /\ s.st \in Nat /\ s.length \in Nat
      BY <1>4, <1>7, <1>13
    <3> QED
      BY <1>6, <1>12, <3>1, <3>2
  <2> QED
    BY <1>10, <1>14, <2>1
<1>16. \E r \in slots'[p] : r.st <= Spent' /\ r.st + r.length = Horizon(graph)
  <2>1. PICK r \in slots[p] : r.st <= Spent /\ r.st + r.length = Horizon(graph)
    BY DEF Room
  <2>2. r.st \in Nat /\ r.length \in Nat
    BY <1>13, <1>14
  <2>3. CASE r # s
    BY <1>6, <1>10, <2>1, <2>2, <2>3
  <2>4. CASE r = s
    <3>1. tail.length # 0
      BY <1>5, <1>6, <1>8, <1>12, <2>1, <2>2, <2>4
    <3>2. tail \in slots'[p] /\ tail.st = e /\ tail.st + tail.length = Horizon(graph)
      BY <1>8, <1>10, <2>1, <2>4, <3>1
    <3> QED
      BY <1>5, <1>6, <3>2
  <2> QED
    BY <2>3, <2>4
<1>17. ASSUME NEW q \in Procs, q # p
       PROVE  /\ \A r \in slots'[q] : r.st + r.length <= Horizon(graph)
              /\ \E r \in slots'[q] : r.st <= Spent' /\ r.st + r.length = Horizon(graph)
  <2>1. slots'[q] = slots[q]
    BY <1>10, <1>17
  <2>2. PICK r \in slots[q] : r.st <= Spent /\ r.st + r.length = Horizon(graph)
    BY DEF Room
  <2>3. r.st \in Nat
    BY <1>9, <1>13
  <2>4. r.st <= Spent'
    BY <1>6, <2>2, <2>3
  <2> QED
    BY <2>1, <2>2, <2>4 DEF Room
<1>18. \A q \in Procs :
          /\ \A r \in slots'[q] : r.st + r.length <= Horizon(graph)'
          /\ \E r \in slots'[q] : r.st <= Spent' /\ r.st + r.length = Horizon(graph)'
  BY <1>12, <1>15, <1>16, <1>17
<1> QED
  BY <1>11, <1>18 DEF Room

(* Every step leaves room.                                                 *)
LEMMA RoomNext ==
    SchedulerInv /\ SchedulerInv' /\ SlotsAreGaps /\ Room /\ [Next]_vars => Room'
<1> SUFFICES ASSUME SchedulerInv, SchedulerInv', SlotsAreGaps, Room, [Next]_vars
             PROVE  Room'
  OBVIOUS
<1>1. ASSUME NEW n \in Vertices, PassVertex(n) PROVE Room'
  BY <1>1, PassVertexRoom
<1>2. ASSUME NEW n \in Vertices, PlaceTask(n) PROVE Room'
  BY <1>2, PlaceTaskRoom
<1>3. CASE KeepBetter
  <2>1. (graph \in Graphs)' /\ Started'
    BY <1>3 DEF KeepBetter, SchedulerInv, Started
  <2> QED
    BY <2>1, StartedRoom, PTL
<1>4. CASE UNCHANGED vars
  BY <1>4 DEF vars, Room, Spent
<1> QED
  BY <1>1, <1>2, <1>3, <1>4 DEF Next, Step, Chosen

(* The room is always there.                                               *)
THEOREM RoomCorrect == Spec => []Room
<1>1. Init => Room
  BY StartedRoom DEF Init
<1> QED
  BY InvariantCorrect, SlotsAreGapsCorrect, <1>1, RoomNext, PTL DEF Spec

(* findSlot never comes back empty, so MAXUINT64 never reaches the sums:   *)
(* twice the timespan is more than any processor can need.                 *)
THEOREM SlotFoundCorrect == Spec => []SlotFound
<1>1. ASSUME SchedulerInv, SlotsAreGaps, Room PROVE SlotFound
  <2> SUFFICES ASSUME NEW t \in Tasks, NEW p \in Procs, method \in Methods, OnTop(t)
               PROVE  FindSlot(p, est[t], graph.cost[t]) # {}
    BY DEF SlotFound
  <2>1. t \in Vertices /\ t \notin popped
    BY DEF OnTop
  <2> QED
    BY <1>1, <2>1, TailHasRoom DEF SchedulerInv
<1> QED
  BY InvariantCorrect, SlotsAreGapsCorrect, RoomCorrect, <1>1, PTL

(* A stretch in which a processor is idle lies in one slot: where a slot   *)
(* ends, a task begins.                                                    *)
LEMMA IdleInSlot ==
    ASSUME TypeOK, graph \in Graphs, SlotsAreGaps, NEW p \in Procs,
           NEW x \in Nat, NEW c \in Nat, c > 0, x + c <= Horizon(graph),
           \A y \in x .. x + c - 1 : ~Busy(p, y)
    PROVE  \E s \in slots[p] : s.st <= x /\ x + c <= s.st + s.length
<1>1. \A r \in slots[p] : r.st \in Nat /\ r.length \in Nat
  BY DEF TypeOK, Slots
<1>2. Horizon(graph) \in Nat
  BY GraphFacts DEF Horizon
<1>3. ASSUME NEW y \in x .. x + c - 1 PROVE \E r \in slots[p] : Covers(r, y)
  <2>1. y \in 0 .. Horizon(graph) - 1 /\ ~Busy(p, y)
    BY <1>2
  <2> QED
    BY <2>1 DEF SlotsAreGaps
<1>4. x \in x .. x + c - 1
  OBVIOUS
<1>5. PICK s \in slots[p] : Covers(s, x)
  BY <1>3, <1>4
<1>6. s.st <= x /\ x < s.st + s.length
  BY <1>5 DEF Covers
<1>7. ASSUME s.st + s.length < x + c PROVE FALSE
  <2>1. s.st + s.length \in x .. x + c - 1
    BY <1>1, <1>6, <1>7
  <2>2. PICK r \in slots[p] : Covers(r, s.st + s.length)
    BY <1>3, <2>1
  <2>3. r = s \/ s.st + s.length < r.st \/ r.st + r.length < s.st
    BY DEF SlotsAreGaps
  <2> QED
    BY <1>1, <2>2, <2>3 DEF Covers
<1> QED
  BY <1>1, <1>6, <1>7

(* A task is put where it ends first: no eligible processor is idle for    *)
(* long enough at any earlier time from the task's EST on, the gaps        *)
(* between the tasks placed before it included.                            *)
THEOREM EarliestFitCorrect == Spec => EarliestFit
<1> DEFINE Earliest ==
              \A t \in Tasks : t \in popped' \ popped =>
                 \A p \in Eligible(t) : ~\E x \in est[t] .. ast'[t] - 1 :
                    \A y \in x .. x + graph.cost[t] - 1 : ~Busy(p, y)
<1>1. ASSUME SchedulerInv, SlotsAreGaps, Room, [Next]_vars PROVE [Earliest]_vars
  <2>1. ASSUME NEW n \in Vertices, PlaceTask(n) PROVE Earliest
    <3>1. /\ TypeOK /\ graph \in Graphs /\ n \in Tasks /\ popped' = popped \cup {n}
      BY <1>1, <2>1, PlaceTaskStep DEF SchedulerInv
    <3>2. PICK p \in Procs : \E s \in slots[p] : \E a, e \in Nat :
             /\ Best(n, p, s)
             /\ e = EFTin(s, est[n], graph.cost[n]) /\ e = a + graph.cost[n]
             /\ s \in Slots /\ e <= s.st + s.length
             /\ ast' = [ast EXCEPT ![n] = a]
      BY <1>1, <2>1, PlaceTaskStep
    <3>3. PICK s \in slots[p], a \in Nat, e \in Nat :
             /\ Best(n, p, s)
             /\ e = EFTin(s, est[n], graph.cost[n]) /\ e = a + graph.cost[n]
             /\ s \in Slots /\ e <= s.st + s.length
             /\ ast' = [ast EXCEPT ![n] = a]
      BY <3>2
    <3> DEFINE c == graph.cost[n]
    <3>4. /\ c \in Nat /\ c > 0 /\ est[n] \in Nat /\ ast'[n] = a
          /\ s.st \in Nat /\ s.length \in Nat /\ Horizon(graph) \in Nat
          /\ s.st + s.length <= Horizon(graph)
      <4>1. ast \in [Vertices -> Nat] /\ est[n] \in Nat
        BY <3>1 DEF TypeOK
      <4>2. c \in Nat /\ c > 0 /\ Horizon(graph) \in Nat
        BY <3>1, TaskCosts, GraphFacts DEF Horizon
      <4>3. s.st \in Nat /\ s.length \in Nat /\ s.st + s.length <= Horizon(graph)
        BY <1>1, <3>3 DEF Slots, Room
      <4> QED
        BY <3>3, <4>1, <4>2, <4>3
    <3>5. ASSUME NEW q \in Eligible(n), NEW x \in est[n] .. a - 1,
                 \A y \in x .. x + c - 1 : ~Busy(q, y)
          PROVE  FALSE
      <4>1. q \in Procs
        BY EligibleProcs
      <4>2. x \in Nat /\ est[n] <= x /\ x <= a - 1
        BY <3>4
      <4>3. x + c <= Horizon(graph)
        BY <3>3, <3>4, <4>2
      <4>4. PICK r \in slots[q] : r.st <= x /\ x + c <= r.st + r.length
        <5> HIDE DEF c
        <5> QED
          BY <1>1, <3>1, <3>4, <3>5, <4>1, <4>2, <4>3, IdleInSlot
      <4>5. /\ FindSlot(q, est[n], c) # {}
            /\ \A r2 \in FindSlot(q, est[n], c) : EFTin(r2, est[n], c) <= x + c
        <5> HIDE DEF c
        <5> QED
          BY <1>1, <3>1, <3>4, <4>1, <4>2, <4>4, RoomIsFound
      <4>6. PICK r2 \in FindSlot(q, est[n], c) : EFTin(r2, est[n], c) <= x + c
        BY <4>5
      <4>7. r2 \in slots[q] /\ EFTin(r2, est[n], c) \in Nat
        <5> HIDE DEF c
        <5> QED
          BY <3>1, <3>4, <4>1, <4>6, FoundSlotFits
      <4>8. e <= EFTin(r2, est[n], c)
        BY <3>3, <4>7 DEF Best
      <4> QED
        BY <3>3, <3>4, <4>2, <4>6, <4>7, <4>8
    <3>6. \A t \in Tasks : t \in popped' \ popped => t = n
      BY <3>1
    <3> QED
      BY <3>4, <3>5, <3>6
  <2>2. ASSUME NEW n \in Vertices, PassVertex(n) PROVE Earliest
    BY <2>2 DEF PassVertex, Pop
  <2>3. CASE KeepBetter
    BY <2>3 DEF KeepBetter
  <2>4. CASE UNCHANGED vars
    BY <2>4
  <2> QED
    BY <1>1, <2>1, <2>2, <2>3, <2>4 DEF Next, Step, Chosen
<1>2. SchedulerInv /\ SlotsAreGaps /\ Room /\ [Next]_vars => [Earliest]_vars
  BY <1>1
<1>3. Spec => [][Earliest]_vars
  <2> HIDE DEF Earliest
  <2> QED
    BY InvariantCorrect, SlotsAreGapsCorrect, RoomCorrect, <1>2, PTL DEF Spec
<1> QED
  BY <1>3 DEF EarliestFit

(***************************************************************************)
(* The plan.                                                               *)
(***************************************************************************)

(* An EST is 0 or the end of a predecessor, and stays it.                  *)
LEMMA AwaitedNext ==
    SchedulerInv /\ Awaited /\ [Next]_vars => Awaited'
<1> SUFFICES ASSUME SchedulerInv, Awaited, [Next]_vars PROVE Awaited'
  OBVIOUS
<1>1. TypeOK /\ popped \subseteq Vertices
  BY DEF SchedulerInv, TypeOK
<1>2. ASSUME NEW n \in Vertices, PassVertex(n) PROVE Awaited'
  <2>1. /\ popped' = popped \cup {n} /\ Placed' = Placed
        /\ est' = ESTAfter(n, eft[n]) /\ UNCHANGED <<graph, eft>>
    BY <1>2 DEF PassVertex, Pop, Placed
  <2>2. ASSUME NEW v \in Vertices
        PROVE  est'[v] = 0 \/ \E u \in popped' : v \in Succ(graph', u) /\ est'[v] = eft'[u]
    <3>1. est'[v] = est[v] \/ (v \in Succ(graph, n) /\ est'[v] = eft[n])
      BY <2>1 DEF ESTAfter, Latest
    <3> QED
      BY <2>1, <3>1 DEF Awaited
  <2> QED
    BY <2>1, <2>2 DEF Awaited
<1>3. ASSUME NEW n \in Vertices, PlaceTask(n) PROVE Awaited'
  <2>1. /\ n \notin popped /\ popped' = popped \cup {n} /\ Placed' = Placed \cup {n}
        /\ graph' = graph
    BY <1>3, PlaceTaskStep
  <2>2. PICK e \in Nat : eft' = [eft EXCEPT ![n] = e] /\ est' = ESTAfter(n, e)
    BY <1>3, PlaceTaskStep
  <2>3. eft'[n] = e /\ \A v \in Vertices : v # n => eft'[v] = eft[v]
    BY <1>1, <2>2 DEF TypeOK
  <2>4. ASSUME NEW v \in Vertices
        PROVE  est'[v] = 0 \/ \E u \in popped' : v \in Succ(graph', u) /\ est'[v] = eft'[u]
    <3>1. est'[v] = est[v] \/ (v \in Succ(graph, n) /\ est'[v] = e)
      BY <2>2 DEF ESTAfter, Latest
    <3>2. \A u \in popped : eft'[u] = eft[u]
      BY <1>1, <2>1, <2>3
    <3> QED
      BY <2>1, <2>3, <3>1, <3>2 DEF Awaited
  <2> QED
    BY <2>1, <2>3, <2>4 DEF Awaited
<1>4. CASE KeepBetter
  <2>1. \A v \in Vertices : est'[v] = 0 /\ eft'[v] = 0
    BY <1>4 DEF KeepBetter
  <2> QED
    BY <2>1 DEF Awaited
<1>5. CASE UNCHANGED vars
  BY <1>5 DEF vars, Awaited, Placed
<1> QED
  BY <1>2, <1>3, <1>4, <1>5 DEF Next, Step, Chosen

(* The queue is empty only when all vertices are taken.  For listSchedule: *)
(* of the vertices left, one with the fewest others before it has none.    *)
(* For pqSchedule: the first vertex left has no predecessor left.          *)
LEMMA AllTaken ==
    ASSUME TypeOK, graph \in Graphs, Degrees, method \in Methods,
           \A n \in Vertices : ~OnTop(n)
    PROVE  popped = Vertices
<1> DEFINE left == Vertices \ popped
<1> SUFFICES ASSUME left # {} PROVE FALSE
  BY DEF TypeOK
<1>1. CASE method \in {"EFT", "CT"}
  <2>1. graph.rankU \in [Vertices -> Nat] /\ graph.ct \in [Vertices -> Nat]
    BY GraphFacts
  <2>2. \A v \in left : Priority(v) \in Nat /\ v \in Int
    BY <1>1, <2>1, VerticesFinite DEF Priority
  <2> DEFINE first(v) == {w \in left : Before(w, v)}
             Sizes == {Cardinality(first(v)) : v \in left}
  <2>3. \A v \in left : IsFiniteSet(first(v)) /\ Cardinality(first(v)) \in Nat
    <3>1. \A v \in left : first(v) \subseteq Vertices
      OBVIOUS
    <3> HIDE DEF first
    <3> QED
      BY <3>1, VerticesFinite, FS_Subset, FS_CardinalityType
  <2>4. Sizes \in SUBSET Nat /\ Sizes # {}
    BY <2>3
  <2>5. PICK m \in Sizes : \A k \in Sizes : m <= k
    <3> HIDE DEF Sizes
    <3> QED
      BY <2>4, LeastNat
  <2>6. PICK v \in left : m = Cardinality(first(v))
    OBVIOUS
  <2>7. ASSUME NEW w \in left, Before(w, v) PROVE FALSE
    <3>1. first(w) \subseteq first(v) /\ w \in first(v) /\ w \notin first(w)
      BY <2>2, <2>7 DEF Before
    <3>2. Cardinality(first(w)) \in Sizes
      OBVIOUS
    <3> HIDE DEF first, Sizes
    <3>3. Cardinality(first(w)) < Cardinality(first(v))
      <4>1. first(w) # first(v)
        BY <3>1
      <4>2. Cardinality(first(w)) <= Cardinality(first(v))
        BY <2>3, <3>1, FS_Subset
      <4>3. Cardinality(first(w)) # Cardinality(first(v))
        BY <2>3, <3>1, <4>1, FS_Subset
      <4> QED
        BY <2>3, <4>2, <4>3
    <3> QED
      BY <2>3, <2>5, <2>6, <3>2, <3>3
  <2>8. \A w \in left : w # v => Before(v, w)
    BY <2>2, <2>7 DEF Before
  <2>9. OnTop(v)
    BY <1>1, <2>8 DEF OnTop
  <2> QED
    BY <2>9
<1>2. CASE method \notin {"EFT", "CT"}
  <2>1. left \in SUBSET Int /\ -1 \in Int /\ \A v \in left : -1 <= v
    BY VerticesFinite, SizesAssumption DEF Vertices, Tasks, Entry, End
  <2>2. PICK v \in left : \A w \in left : v <= w
    <3> HIDE DEF left
    <3> QED
      BY <2>1, LeastInt
  <2>3. Pred(graph, v) \ popped = {}
    <3> SUFFICES ASSUME NEW u \in Pred(graph, v), u \notin popped PROVE FALSE
      OBVIOUS
    <3>1. u \in left /\ u < v
      BY GraphFacts
    <3> QED
      BY <2>1, <2>2, <3>1
  <2>4. indegree[v] = 0
    BY <2>3, FS_EmptySet DEF Degrees
  <2>5. OnTop(v)
    BY <1>2, <2>4 DEF OnTop
  <2> QED
    BY <2>5
<1> QED
  BY <1>1, <1>2

(* When all is placed, every task has ended at the end's EST: one that had *)
(* not would have a successor that ends later still, and a later one is    *)
(* the last of these.                                                      *)
LEMMA AllEnded ==
    ASSUME SchedulerInv, popped = Vertices, NEW t \in Tasks
    PROVE  eft[t] <= est[End]
<1>1. TypeOK /\ graph \in Graphs /\ Times
  BY DEF SchedulerInv
<1>2. /\ eft \in [Vertices -> Nat] /\ est \in [Vertices -> Nat] /\ ast \in [Vertices -> Nat]
      /\ End \in Vertices /\ Tasks \subseteq Vertices
  BY <1>1 DEF TypeOK, Vertices
<1> DEFINE late == {u \in Tasks : eft[u] > est[End]}
<1> SUFFICES ASSUME late # {} PROVE FALSE
  BY <1>2
<1>3. late \in SUBSET Int /\ NTasks \in Int /\ \A u \in late : u <= NTasks
  BY SizesAssumption DEF Tasks
<1>4. PICK u \in late : \A w \in late : w <= u
  <2> HIDE DEF late
  <2> QED
    BY <1>3, GreatestInt
<1>5. PICK v \in Vertices : v \in Succ(graph, u)
  <2>1. Succ(graph, u) # {}
    BY <1>1, GraphsAssumption DEF IsGraph
  <2> QED
    BY <2>1 DEF Succ
<1>6. u \in Vertices /\ u \in Pred(graph, v) /\ u < v
  <2>1. u \in Vertices /\ u \in Pred(graph, v)
    BY <1>2, <1>5 DEF Succ, Pred
  <2> QED
    BY <1>1, <2>1, GraphFacts
<1>7. eft[u] <= est[v]
  BY <1>1, <1>5, <1>6 DEF Times
<1>8. v # End
  BY <1>2, <1>7
<1>9. v \in Tasks /\ v \in Placed
  <2>1. v \in Tasks
    BY <1>6, <1>8, SizesAssumption DEF Vertices, Tasks, Entry
  <2> QED
    BY <1>5, <2>1 DEF Placed
<1>10. est[v] <= ast[v] /\ eft[v] = ast[v] + graph.cost[v] /\ graph.cost[v] \in Nat
  BY <1>1, <1>9, TaskCosts DEF Times
<1>11. v \in late
  BY <1>2, <1>7, <1>9, <1>10
<1> QED
  BY <1>3, <1>4, <1>6, <1>11

(* What a list scheduler ends with is a legal plan.                        *)
LEMMA EndIsLegal ==
    ASSUME SchedulerInv, Awaited, popped = Vertices
    PROVE  /\ \A t \in Tasks : proc[t] \in Procs
           /\ \A t, u \in Tasks : t # u /\ proc[t] = proc[u] => ast[t] # ast[u]
           /\ \A t, u \in Tasks : <<u, t>> \in graph.edges => StartsBefore(ast, u, t)
           /\ IsMaxOf(est[End], {ast[t] + graph.cost[t] : t \in Tasks})
<1>1. TypeOK /\ graph \in Graphs /\ Times /\ NoOverlap /\ Precedence
  BY InvPrecedence DEF SchedulerInv
<1>2. Placed = Tasks /\ Tasks \subseteq Vertices /\ End \in Vertices
  BY DEF Placed, Vertices
<1>3. \A t \in Tasks : /\ proc[t] \in Procs
                       /\ eft[t] = ast[t] + graph.cost[t]
                       /\ ast[t] < eft[t] /\ ast[t] \in Nat /\ eft[t] \in Nat
  <2> SUFFICES ASSUME NEW t \in Tasks
               PROVE  /\ proc[t] \in Procs
                      /\ eft[t] = ast[t] + graph.cost[t]
                      /\ ast[t] < eft[t] /\ ast[t] \in Nat /\ eft[t] \in Nat
    OBVIOUS
  <2>1. proc[t] \in Procs /\ eft[t] = ast[t] + graph.cost[t]
    BY <1>1, <1>2 DEF Times
  <2>2. graph.cost[t] \in Nat /\ graph.cost[t] > 0
    BY <1>1, TaskCosts
  <2>3. ast[t] \in Nat /\ eft[t] \in Nat
    BY <1>1, <1>2 DEF TypeOK
  <2> QED
    BY <2>1, <2>2, <2>3
<1>4. ASSUME NEW t \in Tasks, NEW u \in Tasks, t # u, proc[t] = proc[u]
      PROVE  ast[t] # ast[u]
  <2>1. eft[t] <= ast[u] \/ eft[u] <= ast[t]
    BY <1>1, <1>2, <1>4 DEF NoOverlap
  <2> QED
    BY <1>3, <2>1
<1>5. ASSUME NEW t \in Tasks, NEW u \in Tasks, <<u, t>> \in graph.edges
      PROVE  StartsBefore(ast, u, t)
  <2>1. eft[u] <= ast[t]
    BY <1>1, <1>2, <1>5 DEF Precedence
  <2> QED
    BY <1>3, <2>1 DEF StartsBefore
<1>6. \A x \in {ast[t] + graph.cost[t] : t \in Tasks} : x <= est[End]
  BY <1>3, AllEnded
<1>7. est[End] \in {ast[t] + graph.cost[t] : t \in Tasks} \cup {0}
  <2>1. CASE est[End] = 0
    BY <2>1
  <2>2. CASE est[End] # 0
    <3>1. PICK u \in popped : est[End] = eft[u]
      BY <1>2, <2>2 DEF Awaited
    <3>2. u \in Tasks
      BY <1>2, <2>2, <3>1 DEF Awaited
    <3> QED
      BY <1>3, <3>1, <3>2
  <2> QED
    BY <2>1, <2>2
<1> QED
  BY <1>3, <1>4, <1>5, <1>6, <1>7 DEF IsMaxOf

(* Only KeepBetter touches the plan.                                       *)
LEMMA LegalNext ==
    SchedulerInv /\ Awaited /\ LegalPlan /\ [Next]_vars => LegalPlan'
<1> SUFFICES ASSUME SchedulerInv, Awaited, LegalPlan, [Next]_vars PROVE LegalPlan'
  OBVIOUS
<1>1. CASE UNCHANGED <<graph, plan>>
  BY <1>1 DEF LegalPlan
<1>2. CASE KeepBetter
  <2>1. popped = Vertices
    BY <1>2, AllTaken DEF KeepBetter, SchedulerInv
  <2> DEFINE kept == [proc |-> proc, ast |-> ast, makespan |-> est[End]]
  <2>2. graph' = graph /\ (plan' = kept \/ plan' = plan)
    BY <1>2 DEF KeepBetter
  <2>3. CASE plan' = plan
    BY <2>2, <2>3 DEF LegalPlan
  <2>4. CASE plan' = kept
    <3>1. plan'.proc = proc /\ plan'.ast = ast /\ plan'.makespan = est[End]
      BY <2>4
    <3> HIDE DEF kept
    <3>2. /\ \A t \in Tasks : plan'.proc[t] \in Procs
          /\ \A t, u \in Tasks : t # u /\ plan'.proc[t] = plan'.proc[u] =>
                plan'.ast[t] # plan'.ast[u]
          /\ \A t, u \in Tasks : <<u, t>> \in graph'.edges => StartsBefore(plan'.ast, u, t)
          /\ IsMaxOf(plan'.makespan, {plan'.ast[t] + graph'.cost[t] : t \in Tasks})
      BY <2>1, <2>2, <3>1, EndIsLegal
    <3> QED
      BY <3>2 DEF LegalPlan
  <2> QED
    BY <2>2, <2>3, <2>4
<1>3. ASSUME NEW n \in Vertices, PassVertex(n) \/ PlaceTask(n)
      PROVE  UNCHANGED <<graph, plan>>
  BY <1>3 DEF PassVertex, PlaceTask
<1> QED
  BY <1>1, <1>2, <1>3 DEF Next, Step, Chosen, vars

(* The four list schedulers in whole: the slots, the times, the sums and   *)
(* the plan are always as they should be.                                  *)
THEOREM PlanInvCorrect == Spec => []PlanInv
<1>1. Init => Awaited /\ LegalPlan
  BY DEF Init, Started, Awaited, LegalPlan
<1>2. Spec => [](Awaited /\ LegalPlan)
  BY InvariantCorrect, <1>1, AwaitedNext, LegalNext, PTL DEF Spec
<1>3. SchedulerInv /\ SlotsAreGaps /\ Room /\ (Awaited /\ LegalPlan) => PlanInv
  BY DEF PlanInv
<1> QED
  BY InvariantCorrect, SlotsAreGapsCorrect, RoomCorrect, <1>2, <1>3, PTL

(* The plan that Schedule chooses is one that Execution may be given: each *)
(* task on a processor, at a time of its own there, after the tasks it     *)
(* depends on; and the makespan by which the plans are compared is the     *)
(* time at which the last task ends.                                       *)
THEOREM LegalPlanCorrect == Spec => []LegalPlan
<1>1. PlanInv => LegalPlan
  BY DEF PlanInv
<1> QED
  BY PlanInvCorrect, <1>1, PTL

(***************************************************************************)
(* The segment tree: its nodes.                                            *)
(***************************************************************************)

(* The two halves of an interval.                                          *)
LEMMA Halves ==
    ASSUME Horizon(graph) \in Nat, NEW iv \in Intervals
    PROVE  /\ iv[1] \in Nat /\ iv[2] \in Nat /\ iv = <<iv[1], iv[2]>> /\ iv[1] <= iv[2]
           /\ ~IsLeaf(iv) =>
                /\ Mid(iv) \in Nat /\ iv[1] <= Mid(iv) /\ Mid(iv) < iv[2]
                /\ LeftOf(iv) \in Intervals /\ RightOf(iv) \in Intervals
<1>1. iv[1] \in Nat /\ iv[2] \in Nat /\ iv = <<iv[1], iv[2]>> /\ iv[1] <= iv[2]
      /\ iv[2] <= Horizon(graph)
  BY DEF Intervals
<1>2. ASSUME iv[1] # iv[2]
      PROVE  Mid(iv) \in Nat /\ iv[1] <= Mid(iv) /\ Mid(iv) < iv[2]
  BY <1>1, <1>2 DEF Mid
<1>3. ASSUME iv[1] # iv[2]
      PROVE  LeftOf(iv) \in Intervals /\ RightOf(iv) \in Intervals
  <2>1. Mid(iv) \in Nat /\ iv[1] <= Mid(iv) /\ Mid(iv) < iv[2]
    BY <1>2, <1>3
  <2> DEFINE mid == Mid(iv)
  <2>2. LeftOf(iv) = <<iv[1], mid>> /\ RightOf(iv) = <<mid + 1, iv[2]>>
    BY DEF LeftOf, RightOf
  <2> HIDE DEF mid
  <2>3. mid \in Nat /\ iv[1] <= mid /\ mid < iv[2]
    BY <2>1 DEF mid
  <2> QED
    BY <1>1, <2>2, <2>3 DEF Intervals
<1> QED
  BY <1>1, <1>2, <1>3 DEF IsLeaf

(* How many steps it is to a leaf, at most.                                *)
Widths == [iv \in Intervals |-> iv[2] - iv[1]]

LEMMA WidthsShrink ==
    ASSUME Horizon(graph) \in Nat
    PROVE  /\ Widths \in [Intervals -> 0 .. Horizon(graph)]
           /\ \A iv \in Intervals : ~IsLeaf(iv) =>
                 Widths[LeftOf(iv)] < Widths[iv] /\ Widths[RightOf(iv)] < Widths[iv]
<1>1. Widths \in [Intervals -> 0 .. Horizon(graph)]
  BY DEF Widths, Intervals
<1>2. ASSUME NEW iv \in Intervals, ~IsLeaf(iv)
      PROVE  Widths[LeftOf(iv)] < Widths[iv] /\ Widths[RightOf(iv)] < Widths[iv]
  <2>1. /\ Mid(iv) \in Nat /\ iv[1] <= Mid(iv) /\ Mid(iv) < iv[2]
        /\ LeftOf(iv) \in Intervals /\ RightOf(iv) \in Intervals
        /\ iv[1] \in Nat /\ iv[2] \in Nat
    BY <1>2, Halves
  <2>2. \A j \in Intervals : Widths[j] = j[2] - j[1]
    BY DEF Widths
  <2>3. /\ LeftOf(iv)[1] = iv[1] /\ LeftOf(iv)[2] = Mid(iv)
        /\ RightOf(iv)[1] = Mid(iv) + 1 /\ RightOf(iv)[2] = iv[2]
    BY DEF LeftOf, RightOf
  <2> QED
    BY <2>1, <2>2, <2>3
<1> QED
  BY <1>1, <1>2

(* Where modify goes from iv on its way to x.                              *)
Towards(iv, x) == IF x <= Mid(iv) THEN LeftOf(iv) ELSE RightOf(iv)
PathsFor(F, x) ==
    /\ F \in [Intervals -> SUBSET Intervals]
    /\ \A iv \in Intervals :
          F[iv] = {iv} \cup (IF IsLeaf(iv) THEN {} ELSE F[Towards(iv, x)])

(* The recursion in PathTo is one.                                         *)
LEMMA PathIs ==
    ASSUME Horizon(graph) \in Nat, NEW x
    PROVE  \E F : PathsFor(F, x) /\ PathTo(x) = F[Root]
<1> DEFINE S == Intervals
           D == SUBSET Intervals
           Value(F, iv) == {iv} \cup (IF IsLeaf(iv) THEN {} ELSE F[Towards(iv, x)])
           st == [vf \in S \X [S -> D] |-> Value(vf[2], vf[1])]
           Body(F) == [iv \in S |-> Value(F, iv)]
           path == CHOOSE F : F = Body(F)
<1>1. PathTo(x) = path[Root]
  BY DEF PathTo, Towards
<1>2. \A iv \in S : ~IsLeaf(iv) => Towards(iv, x) \in S /\ Widths[Towards(iv, x)] < Widths[iv]
  BY Halves, WidthsShrink DEF Towards
<1>3. \A iv \in S : \A F \in [S -> D] : Value(F, iv) \in D
  BY <1>2
<1>4. st \in [S \X [S -> D] -> D] /\ \A iv \in S : \A F \in [S -> D] : st[<<iv, F>>] = Value(F, iv)
  BY <1>3
<1>5. LooksDown(S, Widths, D, st)
  <2> SUFFICES ASSUME NEW iv \in S, NEW F \in [S -> D], NEW G \in [S -> D],
                      \A y \in S : Widths[y] < Widths[iv] => F[y] = G[y]
               PROVE  st[<<iv, F>>] = st[<<iv, G>>]
    BY DEF LooksDown
  <2>1. ~IsLeaf(iv) => F[Towards(iv, x)] = G[Towards(iv, x)]
    BY <1>2
  <2> HIDE DEF st
  <2> QED
    BY <1>4, <2>1
<1>6. PICK F : Solution(F, S, D, st)
  <2>1. {} \in D /\ Widths \in [S -> 0 .. Horizon(graph)]
    BY WidthsShrink
  <2> HIDE DEF D, st, S
  <2> QED
    BY <1>4, <1>5, <2>1, SolutionExists
<1> HIDE DEF st
<1>7. F = Body(F)
  <2>1. F \in [S -> D] /\ \A iv \in S : F[iv] = Value(F, iv)
    BY <1>4, <1>6 DEF Solution
  <2> HIDE DEF S, D, Value
  <2> QED
    BY <2>1, Zenon
<1>8. path = Body(path)
  <2> HIDE DEF Body
  <2> QED
    BY <1>7
<1>9. path \in [S -> D] /\ \A iv \in S : path[iv] = Value(path, iv)
  <2> HIDE DEF path
  <2>1. \A iv \in S : path[iv] = Value(path, iv)
    BY <1>8, Zenon
  <2>2. DOMAIN path = S
    BY <1>8
  <2> DEFINE G == {iv \in S : path[iv] \in D}
  <2>3. \A iv \in S : (\A j \in S : Widths[j] < Widths[iv] => j \in G) => iv \in G
    BY <1>2, <2>1
  <2>4. S \subseteq G
    <3>1. Widths \in [S -> Nat]
      BY WidthsShrink
    <3> HIDE DEF G, S
    <3> QED
      BY <2>3, <3>1, MeasureInduction
  <2>5. path = [iv \in S |-> path[iv]]
    BY <1>8, Zenon
  <2> QED
    BY <2>1, <2>4, <2>5
<1> HIDE DEF path
<1>10. PathsFor(path, x)
  BY <1>9 DEF PathsFor
<1> QED
  BY <1>1, <1>10

(* The intervals of the tree's nodes.                                      *)
Has(iv, x) == iv[1] <= x /\ x <= iv[2]
TreeNodes == {iv \in Intervals : iv \in PathTo(iv[1])}
Instants == 0 .. Horizon(graph)

(* A path goes through intervals with x, each followed by its half with x, *)
(* down to a leaf.                                                         *)
LEMMA PathFacts ==
    ASSUME Horizon(graph) \in Nat, NEW x \in Nat, NEW F, PathsFor(F, x), NEW iv \in Intervals,
           Has(iv, x)
    PROVE  /\ iv \in F[iv] /\ <<x, x>> \in F[iv]
           /\ \A j \in F[iv] : /\ j \in Intervals /\ Has(j, x)
                               /\ iv[1] <= j[1] /\ j[2] <= iv[2]
                               /\ ~IsLeaf(j) => Towards(j, x) \in F[iv]
<1> DEFINE Through(i) == {j \in F[i] : /\ j \in Intervals /\ Has(j, x)
                                       /\ i[1] <= j[1] /\ j[2] <= i[2]
                                       /\ ~IsLeaf(j) => Towards(j, x) \in F[i]}
           G == {i \in Intervals : Has(i, x) =>
                    i \in F[i] /\ <<x, x>> \in F[i] /\ F[i] \subseteq Through(i)}
<1>1. ASSUME NEW i \in Intervals, Has(i, x),
             \A k \in Intervals : Widths[k] < Widths[i] => k \in G
      PROVE  i \in F[i] /\ <<x, x>> \in F[i] /\ F[i] \subseteq Through(i)
  <2>1. i[1] \in Nat /\ i[2] \in Nat /\ i = <<i[1], i[2]>> /\ i[1] <= i[2]
    BY Halves
  <2>2. CASE IsLeaf(i)
    <3>1. F[i] = {i}
      BY <2>2 DEF PathsFor
    <3>2. i = <<x, x>>
      BY <1>1, <2>1, <2>2 DEF IsLeaf, Has
    <3> QED
      BY <1>1, <2>1, <2>2, <3>1, <3>2
  <2>3. CASE ~IsLeaf(i)
    <3> DEFINE k == Towards(i, x)
    <3>1. F[i] = {i} \cup F[k]
      BY <2>3 DEF PathsFor
    <3>2. k \in Intervals /\ Widths[k] < Widths[i] /\ Has(k, x) /\ i[1] <= k[1] /\ k[2] <= i[2]
          /\ k[1] \in Nat /\ k[2] \in Nat
      <4>1. /\ Mid(i) \in Nat /\ i[1] <= Mid(i) /\ Mid(i) < i[2]
            /\ LeftOf(i) \in Intervals /\ RightOf(i) \in Intervals
            /\ Widths[LeftOf(i)] < Widths[i] /\ Widths[RightOf(i)] < Widths[i]
        BY <2>3, Halves, WidthsShrink
      <4>2. /\ LeftOf(i)[1] = i[1] /\ LeftOf(i)[2] = Mid(i)
            /\ RightOf(i)[1] = Mid(i) + 1 /\ RightOf(i)[2] = i[2]
        BY DEF LeftOf, RightOf
      <4>3. CASE x <= Mid(i)
        <5>1. k = LeftOf(i)
          BY <4>3 DEF Towards
        <5> HIDE DEF k
        <5> QED
          BY <1>1, <2>1, <4>1, <4>2, <4>3, <5>1 DEF Has
      <4>4. CASE ~(x <= Mid(i))
        <5>1. k = RightOf(i)
          BY <4>4 DEF Towards
        <5> HIDE DEF k
        <5> QED
          BY <1>1, <2>1, <4>1, <4>2, <4>4, <5>1 DEF Has
      <4> QED
        BY <4>3, <4>4
    <3> HIDE DEF k
    <3>3. k \in F[k] /\ <<x, x>> \in F[k] /\ F[k] \subseteq Through(k)
      BY <1>1, <3>2
    <3>4. ASSUME NEW j \in F[k] PROVE j \in Through(i)
      <4>1. /\ j \in Intervals /\ Has(j, x) /\ k[1] <= j[1] /\ j[2] <= k[2]
            /\ ~IsLeaf(j) => Towards(j, x) \in F[k]
        BY <3>3
      <4>2. j[1] \in Nat /\ j[2] \in Nat
        BY <4>1, Halves
      <4>3. i[1] <= j[1] /\ j[2] <= i[2]
        BY <2>1, <3>2, <4>1, <4>2
      <4> QED
        BY <3>1, <4>1, <4>3
    <3>5. i \in Through(i)
      BY <1>1, <2>1, <3>1, <3>3 DEF k
    <3> QED
      BY <3>1, <3>3, <3>4, <3>5
  <2> QED
    BY <2>2, <2>3
<1>2. Intervals \subseteq G
  <2>1. Widths \in [Intervals -> Nat]
    BY WidthsShrink
  <2>2. \A i \in Intervals : (\A k \in Intervals : Widths[k] < Widths[i] => k \in G) => i \in G
    BY <1>1
  <2> HIDE DEF G
  <2> QED
    BY <2>1, <2>2, MeasureInduction
<1> QED
  BY <1>2

(* Of two points in a node's interval the paths both go through it.        *)
LEMMA PathsMeet ==
    ASSUME Horizon(graph) \in Nat, NEW x \in Nat, NEW y \in Nat,
           NEW F, PathsFor(F, x), NEW E, PathsFor(E, y),
           NEW iv \in Intervals, Has(iv, x), Has(iv, y), NEW j \in F[iv], Has(j, y)
    PROVE  j \in E[iv]
<1> DEFINE G == {i \in Intervals : Has(i, x) /\ Has(i, y) /\ j \in F[i] => j \in E[i]}
<1>1. ASSUME NEW i \in Intervals, Has(i, x), Has(i, y), j \in F[i],
             \A k \in Intervals : Widths[k] < Widths[i] => k \in G
      PROVE  j \in E[i]
  <2>1. CASE j = i
    BY <1>1, <2>1, PathFacts
  <2>2. CASE j # i
    <3>1. ~IsLeaf(i) /\ j \in F[Towards(i, x)]
      BY <1>1, <2>2 DEF PathsFor
    <3> DEFINE k == Towards(i, x)
    <3>2. /\ Mid(i) \in Nat /\ i[1] <= Mid(i) /\ Mid(i) < i[2]
          /\ LeftOf(i) \in Intervals /\ RightOf(i) \in Intervals
          /\ Widths[LeftOf(i)] < Widths[i] /\ Widths[RightOf(i)] < Widths[i]
          /\ i[1] \in Nat /\ i[2] \in Nat
      BY <3>1, Halves, WidthsShrink
    <3>3. /\ LeftOf(i)[1] = i[1] /\ LeftOf(i)[2] = Mid(i)
          /\ RightOf(i)[1] = Mid(i) + 1 /\ RightOf(i)[2] = i[2]
      BY DEF LeftOf, RightOf
    <3>4. k \in Intervals /\ Widths[k] < Widths[i] /\ Has(k, x)
      BY <1>1, <3>2, <3>3 DEF Towards, Has
    <3> HIDE DEF k
    <3>5. j \in Intervals /\ k[1] <= j[1] /\ j[2] <= k[2]
      BY <3>1, <3>4, PathFacts DEF k
    <3>6. Has(k, y)
      <4>1. j[1] \in Nat /\ j[2] \in Nat /\ k[1] \in Nat /\ k[2] \in Nat
        BY <3>4, <3>5, Halves
      <4> QED
        BY <3>5, <4>1 DEF Has
    <3>7. Towards(i, y) = k
      <4>1. CASE x <= Mid(i)
        <5>1. k = LeftOf(i)
          BY <4>1 DEF k, Towards
        <5>2. y <= Mid(i)
          BY <3>3, <3>6, <5>1 DEF Has
        <5> QED
          BY <5>1, <5>2 DEF Towards
      <4>2. CASE ~(x <= Mid(i))
        <5>1. k = RightOf(i)
          BY <4>2 DEF k, Towards
        <5>2. ~(y <= Mid(i))
          BY <3>2, <3>3, <3>6, <5>1 DEF Has
        <5> QED
          BY <5>1, <5>2 DEF Towards
      <4> QED
        BY <4>1, <4>2
    <3>8. j \in E[k]
      BY <1>1, <3>1, <3>4, <3>6 DEF k
    <3> QED
      BY <3>1, <3>7, <3>8 DEF PathsFor
  <2> QED
    BY <2>1, <2>2
<1>2. Intervals \subseteq G
  <2>1. Widths \in [Intervals -> Nat]
    BY WidthsShrink
  <2>2. \A i \in Intervals : (\A k \in Intervals : Widths[k] < Widths[i] => k \in G) => i \in G
    BY <1>1
  <2> HIDE DEF G
  <2> QED
    BY <2>1, <2>2, MeasureInduction
<1> QED
  BY <1>2

(* The nodes modify goes through are those whose intervals have x.         *)
LEMMA PathNodes ==
    ASSUME Horizon(graph) \in Nat
    PROVE  /\ Root \in TreeNodes
           /\ \A x \in Instants : PathTo(x) = {iv \in TreeNodes : Has(iv, x)}
           /\ \A x \in Instants : <<x, x>> \in TreeNodes
           /\ \A iv \in TreeNodes : ~IsLeaf(iv) =>
                 LeftOf(iv) \in TreeNodes /\ RightOf(iv) \in TreeNodes
<1>0. Root \in Intervals /\ \A x \in Instants : Has(Root, x) /\ x \in Nat
  BY DEF Root, Intervals, Has, Instants
<1>1. \A iv \in Intervals : /\ iv[1] \in Instants /\ iv[2] \in Instants
                            /\ Has(iv, iv[1]) /\ Has(iv, iv[2])
  BY DEF Intervals, Instants, Has
<1>2. ASSUME NEW x \in Instants PROVE PathTo(x) = {iv \in TreeNodes : Has(iv, x)}
  <2>1. PICK F : PathsFor(F, x) /\ PathTo(x) = F[Root]
    BY PathIs
  <2>2. \A iv \in PathTo(x) : iv \in Intervals /\ Has(iv, x)
    BY <1>0, <2>1, PathFacts
  <2>3. ASSUME NEW iv \in PathTo(x) PROVE iv \in TreeNodes
    <3>1. PICK E : PathsFor(E, iv[1]) /\ PathTo(iv[1]) = E[Root]
      BY PathIs
    <3>2. iv[1] \in Instants /\ Has(iv, iv[1])
      BY <1>1, <2>2
    <3>3. iv \in E[Root]
      BY <1>0, <2>1, <3>1, <3>2, PathsMeet
    <3> QED
      BY <2>2, <3>1, <3>3 DEF TreeNodes
  <2>4. ASSUME NEW iv \in TreeNodes, Has(iv, x) PROVE iv \in PathTo(x)
    <3>1. PICK E : PathsFor(E, iv[1]) /\ PathTo(iv[1]) = E[Root]
      BY PathIs
    <3>2. iv \in Intervals /\ iv \in E[Root]
      BY <3>1 DEF TreeNodes
    <3>3. iv[1] \in Instants
      BY <1>1, <3>2
    <3> QED
      BY <1>0, <2>1, <2>4, <3>1, <3>2, <3>3, PathsMeet
  <2> QED
    BY <2>2, <2>3, <2>4
<1>3. ASSUME NEW x \in Instants
      PROVE  /\ Root \in PathTo(x) /\ <<x, x>> \in PathTo(x)
             /\ \A iv \in PathTo(x) : ~IsLeaf(iv) => Towards(iv, x) \in PathTo(x)
  <2>1. PICK F : PathsFor(F, x) /\ PathTo(x) = F[Root]
    BY PathIs
  <2> QED
    BY <1>0, <2>1, PathFacts
<1>4. Root \in TreeNodes
  <2>1. 0 \in Instants
    BY DEF Instants
  <2> QED
    BY <1>2, <1>3, <2>1
<1>5. ASSUME NEW iv \in TreeNodes, ~IsLeaf(iv)
      PROVE  LeftOf(iv) \in TreeNodes /\ RightOf(iv) \in TreeNodes
  <2>1. iv \in Intervals /\ iv \in PathTo(iv[1]) /\ iv \in PathTo(iv[2])
    <3>1. iv \in Intervals
      BY DEF TreeNodes
    <3> QED
      BY <1>1, <1>2, <3>1
  <2>2. /\ Mid(iv) \in Nat /\ iv[1] <= Mid(iv) /\ Mid(iv) < iv[2]
        /\ iv[1] \in Nat /\ iv[2] \in Nat
    BY <1>5, <2>1, Halves
  <2>3. Towards(iv, iv[1]) = LeftOf(iv) /\ Towards(iv, iv[2]) = RightOf(iv)
    <3>1. ~(iv[2] <= Mid(iv))
      BY <2>2
    <3> QED
      BY <2>2, <3>1 DEF Towards
  <2>4. LeftOf(iv) \in PathTo(iv[1]) /\ RightOf(iv) \in PathTo(iv[2])
    BY <1>1, <1>3, <1>5, <2>1, <2>3
  <2> QED
    BY <1>1, <1>2, <2>1, <2>4
<1> QED
  BY <1>2, <1>3, <1>4, <1>5

(***************************************************************************)
(* The segment tree: its maxima.                                           *)
(***************************************************************************)

(* Every node of the tree, made or not, has the maximum of its sons.       *)
SegTrees ==
    {t \in UNION {[A -> Nat] : A \in SUBSET Intervals} :
        \A iv \in TreeNodes : ~IsLeaf(iv) =>
            SegMax(t, iv) = Latest(SegMax(t, LeftOf(iv)), SegMax(t, RightOf(iv)))}

(* What the tree has at x.                                                 *)
Leaf(t, x) == SegMax(t, <<x, x>>)

(* A maximum is a natural number.                                          *)
LEMMA SegMaxNat ==
    ASSUME NEW t \in SegTrees, NEW iv PROVE SegMax(t, iv) \in Nat
<1>1. PICK A \in SUBSET Intervals : t \in [A -> Nat]
  BY DEF SegTrees
<1> QED
  BY <1>1 DEF SegMax

(* modify changes the value at x, and the maxima are right again.          *)
LEMMA ModifyIs ==
    ASSUME Horizon(graph) \in Nat, NEW t \in SegTrees, NEW x \in Instants, NEW val \in Nat
    PROVE  /\ Modify(t, x, val) \in SegTrees
           /\ \A y \in Instants : Leaf(Modify(t, x, val), y) = IF y = x THEN val ELSE Leaf(t, y)
<1> DEFINE S == Intervals
           path == PathTo(x)
           Value(F, iv) == IF iv \notin path THEN SegMax(t, iv)
                           ELSE IF IsLeaf(iv) THEN val
                           ELSE Latest(F[LeftOf(iv)], F[RightOf(iv)])
           st == [vf \in S \X [S -> Nat] |-> Value(vf[2], vf[1])]
           Body(F) == [iv \in S |-> Value(F, iv)]
           max == CHOOSE F : F = Body(F)
           new == Modify(t, x, val)
<1>1. new = [iv \in DOMAIN t \cup path |-> max[iv]]
  BY DEF Modify
<1>2. /\ \A iv \in S : SegMax(t, iv) \in Nat
      /\ \A iv \in S : ~IsLeaf(iv) =>
            /\ LeftOf(iv) \in S /\ Widths[LeftOf(iv)] < Widths[iv]
            /\ RightOf(iv) \in S /\ Widths[RightOf(iv)] < Widths[iv]
  BY Halves, WidthsShrink, SegMaxNat
<1>3. \A iv \in S : \A F \in [S -> Nat] : Value(F, iv) \in Nat
  BY <1>2 DEF Latest
<1>4. st \in [S \X [S -> Nat] -> Nat]
      /\ \A iv \in S : \A F \in [S -> Nat] : st[<<iv, F>>] = Value(F, iv)
  BY <1>3
<1>5. LooksDown(S, Widths, Nat, st)
  <2> SUFFICES ASSUME NEW iv \in S, NEW F \in [S -> Nat], NEW G \in [S -> Nat],
                      \A y \in S : Widths[y] < Widths[iv] => F[y] = G[y]
               PROVE  st[<<iv, F>>] = st[<<iv, G>>]
    BY DEF LooksDown
  <2>1. ~IsLeaf(iv) => F[LeftOf(iv)] = G[LeftOf(iv)] /\ F[RightOf(iv)] = G[RightOf(iv)]
    BY <1>2
  <2> HIDE DEF st
  <2> QED
    BY <1>4, <2>1
<1>6. PICK F : Solution(F, S, Nat, st)
  <2>1. Widths \in [S -> 0 .. Horizon(graph)]
    BY WidthsShrink
  <2> HIDE DEF st, S
  <2> QED
    BY <1>4, <1>5, <2>1, SolutionExists
<1> HIDE DEF st
<1>7. F = Body(F)
  <2>1. F \in [S -> Nat] /\ \A iv \in S : F[iv] = Value(F, iv)
    BY <1>4, <1>6 DEF Solution
  <2> HIDE DEF S, Value
  <2> QED
    BY <2>1, Zenon
<1>8. max = Body(max)
  <2> HIDE DEF Body
  <2> QED
    BY <1>7
<1> HIDE DEF max
<1>9. \A iv \in S : max[iv] = Value(max, iv)
  <2> HIDE DEF Value
  <2> QED
    BY <1>8, Zenon
<1>10. \A iv \in S : max[iv] \in Nat
  <2> DEFINE G == {iv \in S : max[iv] \in Nat}
  <2>1. \A iv \in S : (\A j \in S : Widths[j] < Widths[iv] => j \in G) => iv \in G
    BY <1>2, <1>9 DEF Latest
  <2>2. Widths \in [S -> Nat]
    BY WidthsShrink
  <2>3. S \subseteq G
    <3> HIDE DEF G, S
    <3> QED
      BY <2>1, <2>2, MeasureInduction
  <2> QED
    BY <2>3
<1>11. PICK A \in SUBSET S : t \in [A -> Nat]
  BY DEF SegTrees
<1>12. path = {iv \in TreeNodes : Has(iv, x)} /\ TreeNodes \subseteq S
  BY PathNodes DEF TreeNodes
<1> HIDE DEF path
<1>13. new \in [A \cup path -> Nat] /\ A \cup path \in SUBSET S
  BY <1>1, <1>10, <1>11, <1>12
<1>14. \A iv \in S : SegMax(new, iv) = max[iv]
  <2> SUFFICES ASSUME NEW iv \in S PROVE SegMax(new, iv) = max[iv]
    OBVIOUS
  <2>1. CASE iv \in A \cup path
    BY <1>1, <1>11, <2>1 DEF SegMax
  <2>2. CASE iv \notin A \cup path
    <3>1. max[iv] = SegMax(t, iv)
      BY <1>9, <2>2
    <3> HIDE DEF new
    <3> QED
      BY <1>11, <1>13, <2>2, <3>1 DEF SegMax
  <2> QED
    BY <2>1, <2>2
<1> HIDE DEF new
<1>15. ASSUME NEW iv \in TreeNodes, ~IsLeaf(iv)
       PROVE  SegMax(new, iv) = Latest(SegMax(new, LeftOf(iv)), SegMax(new, RightOf(iv)))
  <2>1. iv \in S /\ LeftOf(iv) \in S /\ RightOf(iv) \in S
    BY <1>2, <1>12, <1>15
  <2>2. CASE iv \in path
    BY <1>9, <1>14, <1>15, <2>1, <2>2
  <2>3. CASE iv \notin path
    <3>1. LeftOf(iv) \notin path /\ RightOf(iv) \notin path
      <4>1. ~Has(iv, x)
        BY <1>12, <2>3
      <4>2. /\ Mid(iv) \in Nat /\ iv[1] <= Mid(iv) /\ Mid(iv) < iv[2]
            /\ iv[1] \in Nat /\ iv[2] \in Nat
        BY <1>15, <2>1, Halves
      <4>3. ~Has(LeftOf(iv), x) /\ ~Has(RightOf(iv), x)
        BY <4>1, <4>2 DEF Has, LeftOf, RightOf, Instants
      <4> QED
        BY <1>12, <4>3
    <3>2. SegMax(t, iv) = Latest(SegMax(t, LeftOf(iv)), SegMax(t, RightOf(iv)))
      BY <1>15 DEF SegTrees
    <3> QED
      BY <1>9, <1>14, <2>1, <2>3, <3>1, <3>2
  <2> QED
    BY <2>2, <2>3
<1>16. new \in SegTrees
  BY <1>13, <1>15 DEF SegTrees
<1>17. ASSUME NEW y \in Instants PROVE Leaf(new, y) = IF y = x THEN val ELSE Leaf(t, y)
  <2>1. <<y, y>> \in TreeNodes /\ IsLeaf(<<y, y>>)
    BY PathNodes DEF IsLeaf
  <2>2. <<y, y>> \in path <=> y = x
    BY <1>12, <2>1 DEF Has, Instants
  <2>3. <<y, y>> \in S
    BY <1>12, <2>1
  <2> QED
    BY <1>9, <1>14, <2>1, <2>2, <2>3 DEF Leaf
<1> QED
  BY <1>16, <1>17 DEF new

(* A node's maximum is no less than what is below it.                      *)
LEMMA LeavesBelow ==
    ASSUME Horizon(graph) \in Nat, NEW t \in SegTrees, NEW iv \in TreeNodes,
           NEW x \in Nat, Has(iv, x)
    PROVE  Leaf(t, x) <= SegMax(t, iv)
<1> DEFINE G == {i \in Intervals : i \in TreeNodes /\ Has(i, x) => Leaf(t, x) <= SegMax(t, i)}
<1>1. ASSUME NEW i \in Intervals, i \in TreeNodes, Has(i, x),
             \A k \in Intervals : Widths[k] < Widths[i] => k \in G
      PROVE  Leaf(t, x) <= SegMax(t, i)
  <2>0. SegMax(t, i) \in Nat /\ Leaf(t, x) \in Nat
    BY SegMaxNat DEF Leaf
  <2>1. i[1] \in Nat /\ i[2] \in Nat /\ i = <<i[1], i[2]>> /\ i[1] <= i[2]
    BY Halves
  <2>2. CASE IsLeaf(i)
    <3>1. i = <<x, x>>
      BY <1>1, <2>1, <2>2 DEF IsLeaf, Has
    <3> QED
      BY <2>0, <3>1 DEF Leaf
  <2>3. CASE ~IsLeaf(i)
    <3>1. /\ Mid(i) \in Nat
          /\ LeftOf(i) \in Intervals /\ RightOf(i) \in Intervals
          /\ Widths[LeftOf(i)] < Widths[i] /\ Widths[RightOf(i)] < Widths[i]
          /\ LeftOf(i) \in TreeNodes /\ RightOf(i) \in TreeNodes
      BY <1>1, <2>3, Halves, WidthsShrink, PathNodes
    <3>2. Has(LeftOf(i), x) \/ Has(RightOf(i), x)
      BY <1>1, <2>1, <3>1 DEF Has, LeftOf, RightOf
    <3>3. Leaf(t, x) <= SegMax(t, LeftOf(i)) \/ Leaf(t, x) <= SegMax(t, RightOf(i))
      BY <1>1, <3>1, <3>2
    <3>4. SegMax(t, i) = Latest(SegMax(t, LeftOf(i)), SegMax(t, RightOf(i)))
      BY <1>1, <2>3 DEF SegTrees
    <3>5. SegMax(t, LeftOf(i)) \in Nat /\ SegMax(t, RightOf(i)) \in Nat
      BY SegMaxNat
    <3> QED
      BY <2>0, <3>3, <3>4, <3>5 DEF Latest
  <2> QED
    BY <2>2, <2>3
<1>2. Intervals \subseteq G
  <2>1. Widths \in [Intervals -> Nat]
    BY WidthsShrink
  <2>2. \A i \in Intervals : (\A k \in Intervals : Widths[k] < Widths[i] => k \in G) => i \in G
    BY <1>1
  <2> HIDE DEF G
  <2> QED
    BY <2>1, <2>2, MeasureInduction
<1> QED
  BY <1>2 DEF TreeNodes

(***************************************************************************)
(* The segment tree: what query finds.                                     *)
(***************************************************************************)

(* The first of from .. to where the tree has thr or more, with what it has *)
(* there: a set of one slot, or none.                                      *)
LongEnough(t, from, to, thr) == {y \in from .. to : Leaf(t, y) >= thr}
FirstOf(t, Ys) ==
    {[st |-> y, length |-> Leaf(t, y)] : y \in {z \in Ys : \A w \in Ys : z <= w}}
Earliest(t, from, to, thr) == FirstOf(t, LongEnough(t, from, to, thr))

LEMMA EarliestFacts ==
    ASSUME NEW t, NEW from \in Nat, NEW to \in Nat, NEW thr, from <= to
    PROVE  /\ (\A y \in from .. to : ~(Leaf(t, y) >= thr)) => Earliest(t, from, to, thr) = {}
           /\ from = to /\ Leaf(t, from) >= thr =>
                 Earliest(t, from, to, thr) = {[st |-> from, length |-> Leaf(t, from)]}
           /\ \A mid \in from .. to : mid < to =>
                 Earliest(t, from, to, thr) =
                     IF Earliest(t, from, mid, thr) # {} THEN Earliest(t, from, mid, thr)
                     ELSE Earliest(t, mid + 1, to, thr)
<1> DEFINE Ys == LongEnough(t, from, to, thr)
<1>1. ASSUME \A y \in from .. to : ~(Leaf(t, y) >= thr) PROVE Earliest(t, from, to, thr) = {}
  BY <1>1 DEF Earliest, FirstOf, LongEnough
<1>2. ASSUME from = to, Leaf(t, from) >= thr
      PROVE  Earliest(t, from, to, thr) = {[st |-> from, length |-> Leaf(t, from)]}
  <2>1. Ys = {from}
    BY <1>2 DEF LongEnough
  <2>2. {z \in Ys : \A w \in Ys : z <= w} = {from}
    BY <2>1
  <2> QED
    BY <2>2 DEF Earliest, FirstOf
<1>3. ASSUME NEW mid \in from .. to, mid < to
      PROVE  Earliest(t, from, to, thr) =
                     IF Earliest(t, from, mid, thr) # {} THEN Earliest(t, from, mid, thr)
                     ELSE Earliest(t, mid + 1, to, thr)
  <2> DEFINE Ls == LongEnough(t, from, mid, thr)
             Rs == LongEnough(t, mid + 1, to, thr)
  <2>1. Ys = Ls \cup Rs /\ Ls \subseteq Nat /\ Rs \subseteq Nat
        /\ \A y \in Ls, z \in Rs : y < z
    BY <1>3 DEF LongEnough
  <2>2. CASE Ls = {}
    <3>1. Ys = Rs
      BY <2>1, <2>2
    <3>2. Earliest(t, from, mid, thr) = {}
      BY <2>2 DEF Earliest, FirstOf
    <3> QED
      BY <3>1, <3>2 DEF Earliest
  <2>3. CASE Ls # {}
    <3>1. PICK y \in Ls : \A w \in Ls : y <= w
      <4> HIDE DEF Ls
      <4> QED
        BY <2>1, <2>3, LeastNat
    <3>2. {z \in Ys : \A w \in Ys : z <= w} = {z \in Ls : \A w \in Ls : z <= w}
      <4> HIDE DEF Ls, Rs, Ys
      <4>1. ASSUME NEW z \in Ls, \A w \in Ls : z <= w, NEW w \in Ys PROVE z <= w
        BY <2>1, <4>1
      <4>2. ASSUME NEW z \in Ys, \A w \in Ys : z <= w PROVE z \in Ls
        BY <2>1, <2>3, <4>2
      <4> QED
        BY <2>1, <4>1, <4>2
    <3>3. Earliest(t, from, to, thr) = Earliest(t, from, mid, thr)
      BY <3>2 DEF Earliest, FirstOf
    <3>4. Earliest(t, from, mid, thr) # {}
      BY <3>1 DEF Earliest, FirstOf
    <3> QED
      BY <3>3, <3>4
  <2> QED
    BY <2>2, <2>3
<1> QED
  BY <1>1, <1>2, <1>3

(* query finds it.                                                         *)
LEMMA QueryIs ==
    ASSUME Horizon(graph) \in Nat, NEW t \in SegTrees, NEW thr \in Nat,
           NEW l \in Nat, l <= Horizon(graph)
    PROVE  Query(t, l, Horizon(graph), thr) = Earliest(t, l, Horizon(graph), thr)
<1> DEFINE S == Intervals \X Nat \X Nat
           D == SUBSET [st : Nat, length : Nat]
           m == [q \in S |-> Widths[q[1]]]
           Value(F, q) ==
               LET iv == q[1]
                   from == q[2]
                   to == q[3]
               IN  IF SegMax(t, iv) < thr THEN {}
                   ELSE IF IsLeaf(iv) THEN {[st |-> iv[1], length |-> SegMax(t, iv)]}
                   ELSE IF to <= Mid(iv) THEN F[<<LeftOf(iv), from, to>>]
                   ELSE IF from > Mid(iv) THEN F[<<RightOf(iv), from, to>>]
                   ELSE LET left == F[<<LeftOf(iv), from, Mid(iv)>>]
                        IN  IF left # {} THEN left
                            ELSE F[<<RightOf(iv), Mid(iv) + 1, to>>]
           st == [vf \in S \X [S -> D] |-> Value(vf[2], vf[1])]
           Body(F) == [q \in S |-> Value(F, q)]
           query == CHOOSE F : F = Body(F)
           Below(q) == {<<LeftOf(q[1]), q[2], q[3]>>, <<RightOf(q[1]), q[2], q[3]>>,
                        <<LeftOf(q[1]), q[2], Mid(q[1])>>,
                        <<RightOf(q[1]), Mid(q[1]) + 1, q[3]>>}
<1>1. Query(t, l, Horizon(graph), thr) = query[<<Root, l, Horizon(graph)>>]
  BY DEF Query
<1>2. m \in [S -> 0 .. Horizon(graph)] /\ \A q \in S : m[q] = Widths[q[1]]
  BY WidthsShrink
<1>3. ASSUME NEW q \in S, ~IsLeaf(q[1]), NEW b \in Below(q) PROVE b \in S /\ m[b] < m[q]
  <2>1. /\ LeftOf(q[1]) \in Intervals /\ RightOf(q[1]) \in Intervals /\ Mid(q[1]) \in Nat
        /\ Widths[LeftOf(q[1])] < Widths[q[1]] /\ Widths[RightOf(q[1])] < Widths[q[1]]
    BY <1>3, Halves, WidthsShrink
  <2>2. b \in S /\ (b[1] = LeftOf(q[1]) \/ b[1] = RightOf(q[1]))
    BY <1>3, <2>1
  <2> QED
    BY <1>2, <2>1, <2>2
<1>4. ASSUME NEW q \in S, NEW F \in [S -> D] PROVE Value(F, q) \in D
  <2>1. \A b \in Below(q) : ~IsLeaf(q[1]) => F[b] \in D
    BY <1>3
  <2>2. {} \in D /\ {[st |-> q[1][1], length |-> SegMax(t, q[1])]} \in D
    BY SegMaxNat, Halves
  <2>3. ASSUME ~IsLeaf(q[1])
        PROVE  /\ F[<<LeftOf(q[1]), q[2], q[3]>>] \in D
               /\ F[<<RightOf(q[1]), q[2], q[3]>>] \in D
               /\ F[<<LeftOf(q[1]), q[2], Mid(q[1])>>] \in D
               /\ F[<<RightOf(q[1]), Mid(q[1]) + 1, q[3]>>] \in D
    BY <2>1, <2>3
  <2> HIDE DEF D, S
  <2> QED
    BY <2>2, <2>3
<1>5. st \in [S \X [S -> D] -> D]
      /\ \A q \in S : \A F \in [S -> D] : st[<<q, F>>] = Value(F, q)
  <2> HIDE DEF Value, S, D
  <2> QED
    BY <1>4
<1>6. LooksDown(S, m, D, st)
  <2> SUFFICES ASSUME NEW q \in S, NEW F \in [S -> D], NEW G \in [S -> D],
                      \A y \in S : m[y] < m[q] => F[y] = G[y]
               PROVE  st[<<q, F>>] = st[<<q, G>>]
    BY DEF LooksDown
  <2>1. ~IsLeaf(q[1]) => \A b \in Below(q) : F[b] = G[b]
    BY <1>3
  <2>2. Value(F, q) = Value(G, q)
    <3> HIDE DEF S, D, m
    <3> QED
      BY <2>1
  <2> HIDE DEF st
  <2> QED
    BY <1>5, <2>2
<1>7. PICK F : Solution(F, S, D, st)
  <2>1. {} \in D
    OBVIOUS
  <2> HIDE DEF D, st, S, m
  <2> QED
    BY <1>2, <1>5, <1>6, <2>1, SolutionExists
<1> HIDE DEF st
<1>8. F = Body(F)
  <2>1. F \in [S -> D] /\ \A q \in S : F[q] = Value(F, q)
    BY <1>5, <1>7 DEF Solution
  <2> HIDE DEF S, D, Value
  <2> QED
    BY <2>1, Zenon
<1>9. query = Body(query)
  <2> HIDE DEF Body
  <2> QED
    BY <1>8
<1> HIDE DEF query
<1>10. \A q \in S : query[q] = Value(query, q)
  <2> HIDE DEF Value, S
  <2> QED
    BY <1>9, Zenon
<1> DEFINE Fine(q) == /\ q[1] \in TreeNodes
                      /\ q[1][1] <= q[2] /\ q[2] <= q[3] /\ q[3] <= q[1][2]
           G == {q \in S : Fine(q) => query[q] = Earliest(t, q[2], q[3], thr)}
<1>11. ASSUME NEW q \in S, Fine(q), \A y \in S : m[y] < m[q] => y \in G
       PROVE  query[q] = Earliest(t, q[2], q[3], thr)
  <2> DEFINE iv == q[1]
             from == q[2]
             to == q[3]
  <2>1. /\ iv \in Intervals /\ iv \in TreeNodes /\ from \in Nat /\ to \in Nat
        /\ iv[1] \in Nat /\ iv[2] \in Nat /\ iv = <<iv[1], iv[2]>>
        /\ iv[1] <= from /\ from <= to /\ to <= iv[2]
    BY <1>11, Halves
  <2>2. query[q] = Value(query, q)
    BY <1>10
  <2>3. SegMax(t, iv) \in Nat /\ \A y \in Nat : Leaf(t, y) \in Nat
    BY SegMaxNat DEF Leaf
  <2>4. CASE SegMax(t, iv) < thr
    <3>1. ASSUME NEW y \in from .. to PROVE ~(Leaf(t, y) >= thr)
      <4>1. y \in Nat /\ Has(iv, y)
        BY <2>1 DEF Has
      <4>2. Leaf(t, y) <= SegMax(t, iv)
        BY <2>1, <4>1, LeavesBelow
      <4> QED
        BY <2>3, <2>4, <4>1, <4>2
    <3>2. Earliest(t, from, to, thr) = {}
      BY <2>1, <3>1, EarliestFacts
    <3> QED
      BY <2>2, <2>4, <3>2
  <2>5. CASE ~(SegMax(t, iv) < thr) /\ IsLeaf(iv)
    <3>1. iv[1] = from /\ from = to /\ iv = <<from, from>>
      BY <2>1, <2>5 DEF IsLeaf
    <3>2. SegMax(t, iv) = Leaf(t, from)
      BY <3>1 DEF Leaf
    <3>3. Earliest(t, from, to, thr) = {[st |-> from, length |-> Leaf(t, from)]}
      BY <2>1, <2>3, <2>5, <3>1, <3>2, EarliestFacts
    <3> QED
      BY <2>2, <2>5, <3>1, <3>2, <3>3
  <2>6. CASE ~(SegMax(t, iv) < thr) /\ ~IsLeaf(iv)
    <3>1. /\ Mid(iv) \in Nat /\ iv[1] <= Mid(iv) /\ Mid(iv) < iv[2]
          /\ LeftOf(iv) \in TreeNodes /\ RightOf(iv) \in TreeNodes
      BY <2>1, <2>6, Halves, PathNodes
    <3>2. /\ LeftOf(iv)[1] = iv[1] /\ LeftOf(iv)[2] = Mid(iv)
          /\ RightOf(iv)[1] = Mid(iv) + 1 /\ RightOf(iv)[2] = iv[2]
      BY DEF LeftOf, RightOf
    <3>3. \A b \in Below(q) : b \in G
      BY <1>3, <1>11, <2>6
    <3> HIDE DEF iv, from, to, m, S
    <3>4. CASE to <= Mid(iv)
      <4> DEFINE b == <<LeftOf(iv), from, to>>
      <4>1. b \in G
        BY <3>3 DEF iv, from, to
      <4>2. Fine(b)
        BY <2>1, <3>1, <3>2, <3>4
      <4>3. query[b] = Earliest(t, from, to, thr)
        BY <4>1, <4>2
      <4> QED
        BY <2>2, <2>6, <3>4, <4>3 DEF iv, from, to
    <3>5. CASE ~(to <= Mid(iv)) /\ from > Mid(iv)
      <4> DEFINE b == <<RightOf(iv), from, to>>
      <4>1. b \in G
        BY <3>3 DEF iv, from, to
      <4>2. Fine(b)
        BY <2>1, <3>1, <3>2, <3>5
      <4>3. query[b] = Earliest(t, from, to, thr)
        BY <4>1, <4>2
      <4> QED
        BY <2>2, <2>6, <3>5, <4>3 DEF iv, from, to
    <3>6. CASE ~(to <= Mid(iv)) /\ ~(from > Mid(iv))
      <4> DEFINE b == <<LeftOf(iv), from, Mid(iv)>>
                 c == <<RightOf(iv), Mid(iv) + 1, to>>
      <4>1. b \in G /\ c \in G
        BY <3>3 DEF iv, from, to
      <4>2. Fine(b) /\ Fine(c)
        BY <2>1, <3>1, <3>2, <3>6
      <4>3. /\ query[b] = Earliest(t, from, Mid(iv), thr)
            /\ query[c] = Earliest(t, Mid(iv) + 1, to, thr)
        BY <4>1, <4>2
      <4>4. Mid(iv) \in from .. to /\ Mid(iv) < to
        BY <2>1, <3>1, <3>6
      <4>5. Earliest(t, from, to, thr) = IF query[b] # {} THEN query[b] ELSE query[c]
        <5>1. Earliest(t, from, to, thr) =
                IF Earliest(t, from, Mid(iv), thr) # {} THEN Earliest(t, from, Mid(iv), thr)
                ELSE Earliest(t, Mid(iv) + 1, to, thr)
          <6>1. from \in Nat /\ to \in Nat /\ from <= to
            BY <2>1
          <6>2. \A mid \in from .. to : mid < to =>
                 Earliest(t, from, to, thr) =
                     IF Earliest(t, from, mid, thr) # {} THEN Earliest(t, from, mid, thr)
                     ELSE Earliest(t, mid + 1, to, thr)
            BY <6>1, EarliestFacts
          <6> QED
            BY <4>4, <6>2
        <5> HIDE DEF b, c
        <5> QED
          BY <4>3, <5>1
      <4> QED
        BY <2>2, <2>6, <3>6, <4>5 DEF iv, from, to
    <3> QED
      BY <3>4, <3>5, <3>6
  <2> QED
    BY <2>4, <2>5, <2>6
<1>12. S \subseteq G
  <2>1. m \in [S -> Nat]
    BY <1>2
  <2>2. \A q \in S : (\A y \in S : m[y] < m[q] => y \in G) => q \in G
    BY <1>11
  <2> HIDE DEF G, S, m
  <2> QED
    BY <2>1, <2>2, MeasureInduction
<1>13. <<Root, l, Horizon(graph)>> \in S /\ Fine(<<Root, l, Horizon(graph)>>)
  <2>1. Root \in TreeNodes /\ Root[1] = 0 /\ Root[2] = Horizon(graph)
    BY PathNodes DEF Root
  <2> QED
    BY <2>1 DEF TreeNodes
<1> QED
  BY <1>1, <1>12, <1>13

(***************************************************************************)
(* The AVL tree: its nodes.                                                *)
(***************************************************************************)

IsSlot(s) == s.st \in Nat /\ s.length \in Nat
SlotOf(s) == [st |-> s.st, length |-> s.length]

(* The members of N are nil or nodes with sons in N.                       *)
TreeSet(N) ==
    \A m \in N : \/ m = Nil
                 \/ /\ IsSlot(m) /\ m.height \in Nat /\ m = Node(m, m.lson, m.rson)
                    /\ m.lson \in N /\ m.rson \in N
IsTree(n) == \E N : n \in N /\ TreeSet(N)

LEMMA HeightFacts ==
    ASSUME NEW N, TreeSet(N), NEW m \in N
    PROVE  /\ m.height \in Nat /\ Nil.height = 0
           /\ m # Nil => /\ m.height = 1 + Latest(m.lson.height, m.rson.height)
                         /\ m.lson \in N /\ m.lson.height \in Nat /\ m.lson.height < m.height
                         /\ m.rson \in N /\ m.rson.height \in Nat /\ m.rson.height < m.height
<1>1. Nil.height = 0 /\ \A k \in N : k.height \in Nat
  BY DEF TreeSet, Nil
<1>2. ASSUME m # Nil
      PROVE  /\ m.height = 1 + Latest(m.lson.height, m.rson.height)
             /\ m.lson \in N /\ m.rson \in N
  BY <1>2 DEF TreeSet, Node
<1> QED
  BY <1>1, <1>2 DEF Latest

(* Nodes(n) has n and with a node its sons, and nothing that need not be.  *)
LEMMA NodesIs ==
    ASSUME NEW N, TreeSet(N), NEW n \in N
    PROVE  n \in Nodes(n) /\ TreeSet(Nodes(n)) /\ Nodes(n) \subseteq N
<1> DEFINE h == n.height
           S == 0 .. h
           D == SUBSET N
           With(A) == A \cup UNION {{m.lson, m.rson} : m \in A \ {Nil}}
           Value(F, i) == IF i = 0 THEN {n} ELSE With(F[i - 1])
           st == [vf \in S \X [S -> D] |-> Value(vf[2], vf[1])]
           Body(F) == [i \in S |-> Value(F, i)]
           below == CHOOSE F : F = Body(F)
           id == [i \in S |-> i]
<1>1. Nodes(n) = below[h]
  BY DEF Nodes
<1>2. h \in Nat
  BY HeightFacts
<1>3. ASSUME NEW A \in D PROVE With(A) \in D
  <2>1. \A m \in A \ {Nil} : m.lson \in N /\ m.rson \in N
    BY HeightFacts
  <2> QED
    BY <2>1
<1>4. st \in [S \X [S -> D] -> D]
      /\ \A i \in S : \A F \in [S -> D] : st[<<i, F>>] = Value(F, i)
  <2>1. ASSUME NEW i \in S, NEW F \in [S -> D] PROVE Value(F, i) \in D
    <3>1. CASE i = 0
      BY <3>1
    <3>2. CASE i # 0
      <4>1. i - 1 \in S
        BY <1>2, <3>2
      <4>2. F[i - 1] \in D
        BY <4>1
      <4>3. With(F[i - 1]) \in D
        <5> HIDE DEF With, D
        <5> QED
          BY <1>3, <4>2
      <4> QED
        BY <3>2, <4>3
    <3> QED
      BY <3>1, <3>2
  <2> HIDE DEF Value, S, D
  <2> QED
    BY <2>1
<1> HIDE DEF With
<1>5. LooksDown(S, id, D, st)
  <2> SUFFICES ASSUME NEW i \in S, NEW F \in [S -> D], NEW G \in [S -> D],
                      \A y \in S : id[y] < id[i] => F[y] = G[y]
               PROVE  st[<<i, F>>] = st[<<i, G>>]
    BY DEF LooksDown
  <2>1. i # 0 => F[i - 1] = G[i - 1]
    <3>1. i # 0 => i - 1 \in S /\ i - 1 < i
      BY <1>2
    <3> QED
      BY <3>1
  <2>2. Value(F, i) = Value(G, i)
    BY <2>1
  <2> HIDE DEF st
  <2> QED
    BY <1>4, <2>2
<1>6. PICK F : Solution(F, S, D, st)
  <2>1. {} \in D /\ id \in [S -> 0 .. h]
    OBVIOUS
  <2> HIDE DEF D, st, S, id, h
  <2> QED
    BY <1>2, <1>4, <1>5, <2>1, SolutionExists
<1> HIDE DEF st
<1>7. F = Body(F)
  <2>1. F \in [S -> D] /\ \A i \in S : F[i] = Value(F, i)
    BY <1>4, <1>6 DEF Solution
  <2> HIDE DEF S, D, Value
  <2> QED
    BY <2>1, Zenon
<1>8. below = Body(below)
  <2> HIDE DEF Body
  <2> QED
    BY <1>7
<1> HIDE DEF below
<1>9. below[0] = {n} /\ \A i \in 0 .. h - 1 : below[i + 1] = With(below[i])
  <2>1. \A i \in S : below[i] = Value(below, i)
    <3> HIDE DEF Value, S
    <3> QED
      BY <1>8, Zenon
  <2>2. 0 \in S /\ \A i \in 0 .. h - 1 : i + 1 \in S /\ (i + 1) - 1 = i /\ i + 1 # 0
    BY <1>2
  <2> HIDE DEF S
  <2> QED
    BY <2>1, <2>2
<1> DEFINE Fine(i) ==
               /\ n \in below[i] /\ below[i] \in D
               /\ \A m \in below[i] : \/ m = Nil \/ m.height <= h - i
                                      \/ m.lson \in below[i] /\ m.rson \in below[i]
<1>10. \A i \in S : Fine(i)
  <2> DEFINE G == {i \in S : Fine(i)}
  <2>1. ASSUME NEW i \in S, \A j \in S : id[j] < id[i] => j \in G PROVE Fine(i)
    <3>1. CASE i = 0
      <4>1. n \in below[0] /\ below[0] \in D /\ \A m \in below[0] : m = n
        BY <1>9
      <4> QED
        BY <1>2, <3>1, <4>1
    <3>2. CASE i # 0
      <4> DEFINE j == i - 1
      <4>1. j \in S /\ j < i /\ j \in 0 .. h - 1 /\ i = j + 1
        BY <1>2, <3>2
      <4>2. Fine(j)
        BY <2>1, <4>1
      <4> HIDE DEF j
      <4>3. below[i] = With(below[j])
        BY <1>9, <4>1
      <4>4. below[i] \in D
        BY <1>3, <4>2, <4>3
      <4>5. below[j] \subseteq below[i]
            /\ \A m \in below[j] \ {Nil} : m.lson \in below[i] /\ m.rson \in below[i]
        BY <4>3 DEF With
      <4>6. ASSUME NEW m \in below[i], m # Nil, m \notin below[j]
            PROVE  m.height <= h - i
        <5>1. PICK k \in below[j] \ {Nil} : m \in {k.lson, k.rson}
          BY <4>3, <4>6 DEF With
        <5>2. k.height <= h - j
          BY <4>2, <4>6, <5>1
        <5>3. m.height \in Nat /\ k.height \in Nat /\ m.height < k.height
          BY <4>2, <5>1, HeightFacts
        <5> QED
          BY <1>2, <4>1, <5>2, <5>3
      <4> QED
        BY <4>2, <4>4, <4>5, <4>6
    <3> QED
      BY <3>1, <3>2
  <2>2. id \in [S -> Nat]
    OBVIOUS
  <2>3. S \subseteq G
    <3>1. \A i \in S : (\A j \in S : id[j] < id[i] => j \in G) => i \in G
      BY <2>1
    <3> HIDE DEF G, S, id
    <3> QED
      BY <2>2, <3>1, MeasureInduction
  <2> QED
    BY <2>3
<1>11. Fine(h)
  BY <1>2, <1>10
<1>12. TreeSet(Nodes(n))
  <2>1. ASSUME NEW m \in Nodes(n), m # Nil
        PROVE  m \in N /\ m.lson \in Nodes(n) /\ m.rson \in Nodes(n)
    <3>1. m \in N /\ (m.height <= h - h \/ (m.lson \in below[h] /\ m.rson \in below[h]))
      BY <1>1, <1>11, <2>1
    <3>2. ~(m.height <= h - h)
      <4>1. m.height \in Nat /\ m.lson.height \in Nat /\ m.lson.height < m.height
        BY <2>1, <3>1, HeightFacts
      <4> QED
        BY <1>2, <4>1
    <3> QED
      BY <1>1, <3>1, <3>2
  <2> QED
    BY <2>1 DEF TreeSet
<1> QED
  BY <1>1, <1>11, <1>12

(* The same, of a tree.                                                    *)
LEMMA TreeFacts ==
    ASSUME NEW n, IsTree(n)
    PROVE  n \in Nodes(n) /\ TreeSet(Nodes(n)) /\ n.height \in Nat
           /\ \A m \in Nodes(n) : IsTree(m) /\ Nodes(m) \subseteq Nodes(n)
<1>1. n \in Nodes(n) /\ TreeSet(Nodes(n))
  BY NodesIs DEF IsTree
<1>2. \A m \in Nodes(n) : IsTree(m) /\ Nodes(m) \subseteq Nodes(n)
  BY <1>1, NodesIs DEF IsTree
<1> QED
  BY <1>1, <1>2, HeightFacts

LEMMA NilTree ==
    IsTree(Nil) /\ Nodes(Nil) = {Nil} /\ SlotsIn(Nil) = {} /\ Nil.height = 0
<1>1. TreeSet({Nil})
  BY DEF TreeSet
<1>2. IsTree(Nil) /\ Nil \in Nodes(Nil) /\ Nodes(Nil) \subseteq {Nil}
  BY <1>1, NodesIs DEF IsTree
<1>3. SlotsIn(Nil) = {}
  BY <1>2 DEF SlotsIn
<1> QED
  BY <1>2, <1>3 DEF Nil

(* A node made of a slot and two trees.                                    *)
LEMMA NodeTree ==
    ASSUME NEW s, IsSlot(s), NEW l, IsTree(l), NEW r, IsTree(r)
    PROVE  LET n == Node(s, l, r)
           IN  /\ IsTree(n) /\ n # Nil
               /\ n.st = s.st /\ n.length = s.length /\ n.lson = l /\ n.rson = r
               /\ n.height = 1 + Latest(l.height, r.height) /\ n.height \in Nat
               /\ l.height \in Nat /\ r.height \in Nat
               /\ Nodes(n) = {n} \cup Nodes(l) \cup Nodes(r)
               /\ SlotsIn(n) = {SlotOf(s)} \cup SlotsIn(l) \cup SlotsIn(r)
<1> DEFINE n == Node(s, l, r)
           N == {n} \cup Nodes(l) \cup Nodes(r)
<1>1. l \in Nodes(l) /\ TreeSet(Nodes(l)) /\ r \in Nodes(r) /\ TreeSet(Nodes(r))
      /\ l.height \in Nat /\ r.height \in Nat
  BY TreeFacts
<1>2. /\ n.st = s.st /\ n.length = s.length /\ n.lson = l /\ n.rson = r
      /\ n.height = 1 + Latest(l.height, r.height)
  BY DEF Node
<1>3. n.height \in Nat /\ n.height # 0
  BY <1>1, <1>2 DEF Latest
<1>4. n # Nil /\ IsSlot(n) /\ n = Node(n, n.lson, n.rson)
  <2>1. n # Nil
    BY <1>3 DEF Nil
  <2>2. n = Node(n, n.lson, n.rson)
    BY <1>2 DEF Node
  <2> QED
    BY <1>2, <2>1, <2>2 DEF IsSlot
<1> HIDE DEF n
<1>5. TreeSet(N) /\ n \in N
  BY <1>1, <1>2, <1>3, <1>4 DEF TreeSet
<1>6. IsTree(n) /\ Nodes(n) \subseteq N /\ n \in Nodes(n) /\ TreeSet(Nodes(n))
  <2> HIDE DEF N
  <2> QED
    BY <1>5, NodesIs DEF IsTree
<1>7. Nodes(l) \subseteq Nodes(n) /\ Nodes(r) \subseteq Nodes(n)
  <2>1. l \in Nodes(n) /\ r \in Nodes(n)
    BY <1>2, <1>4, <1>6, HeightFacts
  <2> QED
    BY <1>6, <2>1, NodesIs
<1>8. Nodes(n) = N
  BY <1>6, <1>7
<1>9. SlotsIn(n) = {SlotOf(s)} \cup SlotsIn(l) \cup SlotsIn(r)
  BY <1>2, <1>4, <1>8 DEF SlotsIn, SlotOf
<1> QED
  BY <1>2, <1>3, <1>4, <1>1, <1>6, <1>8, <1>9 DEF n

(***************************************************************************)
(* The AVL tree: order and balance.                                        *)
(***************************************************************************)

AllBefore(A, x) == \A s \in A : s.st < x
AllAfter(A, x) == \A s \in A : s.st > x

(* What TreeHoldsSlots asks of a node.                                     *)
InPlace(n) == /\ AllBefore(SlotsIn(n.lson), n.st)
              /\ AllAfter(SlotsIn(n.rson), n.st)
              /\ n.lson.height - n.rson.height \in -1 .. 1
AVL(n) == IsTree(n) /\ \A m \in Nodes(n) \ {Nil} : InPlace(m)

LEMMA AVLNil == AVL(Nil)
  BY NilTree DEF AVL

(* A node made of a slot and two such trees on its sides.                  *)
LEMMA AVLNode ==
    ASSUME NEW s, IsSlot(s), NEW l, AVL(l), NEW r, AVL(r),
           AllBefore(SlotsIn(l), s.st), AllAfter(SlotsIn(r), s.st),
           l.height - r.height \in -1 .. 1
    PROVE  AVL(Node(s, l, r))
<1> DEFINE n == Node(s, l, r)
<1>1. /\ IsTree(n)
      /\ n.st = s.st /\ n.lson = l /\ n.rson = r
      /\ Nodes(n) = {n} \cup Nodes(l) \cup Nodes(r)
  BY NodeTree DEF AVL
<1> HIDE DEF n
<1>2. InPlace(n)
  BY <1>1 DEF InPlace
<1>3. AVL(n)
  BY <1>1, <1>2 DEF AVL
<1> QED
  BY <1>3 DEF n

(* A node's sons are such trees, and their slots are the others it has.    *)
LEMMA AVLParts ==
    ASSUME NEW n, AVL(n), n # Nil
    PROVE  /\ IsSlot(n) /\ IsTree(n) /\ n = Node(n, n.lson, n.rson)
           /\ AVL(n.lson) /\ AVL(n.rson) /\ InPlace(n)
           /\ n.lson \in Nodes(n) /\ n.rson \in Nodes(n) /\ n \in Nodes(n)
           /\ Nodes(n) = {n} \cup Nodes(n.lson) \cup Nodes(n.rson)
           /\ SlotsIn(n) = {SlotOf(n)} \cup SlotsIn(n.lson) \cup SlotsIn(n.rson)
           /\ n.height = 1 + Latest(n.lson.height, n.rson.height)
           /\ n.height \in Nat /\ n.lson.height \in Nat /\ n.rson.height \in Nat
<1>1. /\ n \in Nodes(n) /\ TreeSet(Nodes(n)) /\ n.height \in Nat /\ IsTree(n)
      /\ \A m \in Nodes(n) : IsTree(m) /\ Nodes(m) \subseteq Nodes(n)
  BY TreeFacts DEF AVL
<1>2. IsSlot(n) /\ n = Node(n, n.lson, n.rson) /\ n.lson \in Nodes(n) /\ n.rson \in Nodes(n)
  BY <1>1 DEF TreeSet
<1>3. AVL(n.lson) /\ AVL(n.rson) /\ InPlace(n)
  BY <1>1, <1>2 DEF AVL
<1>4. LET m == Node(n, n.lson, n.rson)
      IN  /\ m.height = 1 + Latest(n.lson.height, n.rson.height)
          /\ n.lson.height \in Nat /\ n.rson.height \in Nat
          /\ Nodes(m) = {m} \cup Nodes(n.lson) \cup Nodes(n.rson)
          /\ SlotsIn(m) = {SlotOf(n)} \cup SlotsIn(n.lson) \cup SlotsIn(n.rson)
  BY <1>2, <1>3, NodeTree DEF AVL
<1> QED
  BY <1>1, <1>2, <1>3, <1>4

(* A tree is nil exactly when it has no height, and it has slots.          *)
LEMMA AVLFacts ==
    ASSUME NEW n, AVL(n)
    PROVE  /\ n.height \in Nat /\ (n = Nil <=> n.height = 0)
           /\ \A s \in SlotsIn(n) : s = SlotOf(s) /\ IsSlot(s)
           /\ \A m \in Nodes(n) : AVL(m) /\ SlotsIn(m) \subseteq SlotsIn(n)
           /\ \A m \in Nodes(n) \ {Nil} : SlotOf(m) \in SlotsIn(n) /\ IsSlot(m)
           /\ \A s \in SlotsIn(n) : \E m \in Nodes(n) \ {Nil} : s = SlotOf(m)
<1>1. /\ n \in Nodes(n) /\ TreeSet(Nodes(n)) /\ n.height \in Nat /\ IsTree(n)
      /\ \A m \in Nodes(n) : IsTree(m) /\ Nodes(m) \subseteq Nodes(n)
  BY TreeFacts DEF AVL
<1>2. n = Nil <=> n.height = 0
  <2>1. n # Nil => n.height = 1 + Latest(n.lson.height, n.rson.height)
                   /\ n.lson.height \in Nat /\ n.rson.height \in Nat
    BY <1>1, HeightFacts
  <2>2. Nil.height = 0
    BY DEF Nil
  <2> QED
    BY <2>1, <2>2 DEF Latest
<1>3. \A m \in Nodes(n) \ {Nil} : IsSlot(m)
  BY <1>1 DEF TreeSet
<1>4. \A s \in SlotsIn(n) : s = SlotOf(s) /\ IsSlot(s)
  <2> SUFFICES ASSUME NEW s \in SlotsIn(n) PROVE s = SlotOf(s) /\ IsSlot(s)
    OBVIOUS
  <2>1. PICK m \in Nodes(n) \ {Nil} : s = [st |-> m.st, length |-> m.length]
    BY DEF SlotsIn
  <2> QED
    BY <1>3, <2>1 DEF IsSlot, SlotOf
<1>5. \A m \in Nodes(n) : AVL(m) /\ SlotsIn(m) \subseteq SlotsIn(n)
  BY <1>1 DEF AVL, SlotsIn
<1>6. /\ \A m \in Nodes(n) \ {Nil} : SlotOf(m) \in SlotsIn(n)
      /\ \A s \in SlotsIn(n) : \E m \in Nodes(n) \ {Nil} : s = SlotOf(m)
  BY DEF SlotsIn, SlotOf
<1> QED
  BY <1>1, <1>2, <1>3, <1>4, <1>5, <1>6

(* The order of what is put together.                                      *)
LEMMA JoinedOrder ==
    ASSUME NEW S, NEW s, NEW A, NEW B, NEW x, S = {SlotOf(s)} \cup A \cup B
    PROVE  /\ AllBefore(S, x) <=> s.st < x /\ AllBefore(A, x) /\ AllBefore(B, x)
           /\ AllAfter(S, x) <=> s.st > x /\ AllAfter(A, x) /\ AllAfter(B, x)
<1>1. SlotOf(s).st = s.st
  BY DEF SlotOf
<1> QED
  BY <1>1 DEF AllBefore, AllAfter

LEMMA OrderTransitive ==
    ASSUME NEW A, NEW x \in Nat, NEW y \in Nat, x < y, \A s \in A : IsSlot(s)
    PROVE  (AllBefore(A, x) => AllBefore(A, y)) /\ (AllAfter(A, y) => AllAfter(A, x))
  BY DEF AllBefore, AllAfter, IsSlot

(* There are no two slots with one start time.                             *)
LEMMA AVLUnique ==
    ASSUME NEW n, AVL(n), NEW a \in SlotsIn(n), NEW b \in SlotsIn(n), a.st = b.st
    PROVE  a = b
<1> DEFINE N == Nodes(n)
           h == [m \in N |-> m.height]
           G == {m \in N : a \in SlotsIn(m) /\ b \in SlotsIn(m) => a = b}
<1>1. ASSUME NEW m \in N, a \in SlotsIn(m), b \in SlotsIn(m),
             \A k \in N : h[k] < h[m] => k \in G
      PROVE  a = b
  <2>1. AVL(m)
    BY AVLFacts
  <2>2. m # Nil
    BY <1>1, NilTree
  <2>3. /\ InPlace(m) /\ IsSlot(m) /\ m.lson \in Nodes(m) /\ m.rson \in Nodes(m)
        /\ SlotsIn(m) = {SlotOf(m)} \cup SlotsIn(m.lson) \cup SlotsIn(m.rson)
        /\ m.height = 1 + Latest(m.lson.height, m.rson.height)
        /\ m.lson.height \in Nat /\ m.rson.height \in Nat
    BY <2>1, <2>2, AVLParts
  <2>4. m.lson \in N /\ m.rson \in N
    BY <2>3, TreeFacts DEF AVL
  <2>5. m.lson \in G /\ m.rson \in G
    BY <1>1, <2>3, <2>4 DEF Latest
  <2>6. SlotOf(m).st = m.st
    BY DEF SlotOf
  <2>7. a.st \in Nat /\ m.st \in Nat
    BY <2>3, AVLFacts DEF IsSlot
  <2> HIDE DEF N, h
  <2> QED
    BY <1>1, <2>3, <2>5, <2>6, <2>7 DEF InPlace, AllBefore, AllAfter
<1>2. N \subseteq G
  <2>1. \A m \in N : m.height \in Nat
    BY AVLFacts
  <2>2. h \in [N -> Nat]
    BY <2>1
  <2>3. \A m \in N : (\A k \in N : h[k] < h[m] => k \in G) => m \in G
    BY <1>1
  <2> HIDE DEF G, N, h
  <2> QED
    BY <2>2, <2>3, MeasureInduction
<1>3. n \in N
  BY TreeFacts DEF AVL
<1> QED
  BY <1>2, <1>3

(* rebalanceTree: where one side has lost or gained a level, the new tree  *)
(* has the same slots, in order and balanced.                              *)
RebalancesTo(n, s, l, r) ==
    /\ AVL(n) /\ n # Nil
    /\ SlotsIn(n) = {SlotOf(s)} \cup SlotsIn(l) \cup SlotsIn(r)
    /\ n.height \in {Latest(l.height, r.height), 1 + Latest(l.height, r.height)}
    /\ l.height - r.height \in -1 .. 1 => n.height = 1 + Latest(l.height, r.height)

LEMMA Rotations ==
    ASSUME NEW s, NEW t, NEW a, NEW b, NEW c
    PROVE  /\ RotateLeft(Node(s, a, Node(t, b, c))) = Node(t, Node(s, a, b), c)
           /\ RotateRight(Node(s, Node(t, a, b), c)) = Node(t, a, Node(s, b, c))
  BY DEF RotateLeft, RotateRight, Node

(* Two trees put together by a slot between them.                          *)
LEMMA Join ==
    ASSUME NEW s, IsSlot(s), NEW l, AVL(l), NEW r, AVL(r),
           AllBefore(SlotsIn(l), s.st), AllAfter(SlotsIn(r), s.st),
           l.height - r.height \in -1 .. 1
    PROVE  /\ AVL(Node(s, l, r)) /\ Node(s, l, r) # Nil
           /\ Node(s, l, r).height = 1 + Latest(l.height, r.height)
           /\ SlotsIn(Node(s, l, r)) = {SlotOf(s)} \cup SlotsIn(l) \cup SlotsIn(r)
  BY AVLNode, NodeTree DEF AVL

(* rebalanceTree, with the right side two levels higher.                   *)
LEMMA RebalanceLeft ==
    ASSUME NEW s, IsSlot(s), NEW l, AVL(l), NEW r, AVL(r),
           AllBefore(SlotsIn(l), s.st), AllAfter(SlotsIn(r), s.st), r.height = l.height + 2
    PROVE  RebalancesTo(Rebalance(s, l, r), s, l, r)
<1> DEFINE a == r.lson
           c == r.rson
<1>1. l.height \in Nat /\ r.height \in Nat /\ r # Nil
  BY AVLFacts
<1>2. Rebalance(s, l, r) = RotateLeft(Node(s, l, IF a.height > c.height THEN RotateRight(r) ELSE r))
  BY <1>1 DEF Rebalance
<1>3. /\ IsSlot(r) /\ r = Node(r, a, c) /\ AVL(a) /\ AVL(c)
      /\ SlotsIn(r) = {SlotOf(r)} \cup SlotsIn(a) \cup SlotsIn(c)
      /\ r.height = 1 + Latest(a.height, c.height)
      /\ a.height \in Nat /\ c.height \in Nat
  BY <1>1, AVLParts
<1>4. AllBefore(SlotsIn(a), r.st) /\ AllAfter(SlotsIn(c), r.st) /\ a.height - c.height \in -1 .. 1
  BY <1>1, AVLParts DEF InPlace
<1>5. s.st \in Nat /\ r.st \in Nat
  BY <1>3 DEF IsSlot
<1>6. s.st < r.st /\ AllAfter(SlotsIn(a), s.st) /\ AllAfter(SlotsIn(c), s.st)
  <2>1. SlotOf(r) \in SlotsIn(r) /\ SlotOf(r).st = r.st
    BY <1>3 DEF SlotOf
  <2> QED
    BY <1>3, <1>5, <2>1 DEF AllAfter
<1>7. AllBefore(SlotsIn(l), r.st)
  <2>1. \A x \in SlotsIn(l) : IsSlot(x)
    BY AVLFacts
  <2> QED
    BY <1>5, <1>6, <2>1, OrderTransitive
<1> HIDE DEF a, c
<1>8. CASE ~(a.height > c.height)
  <2> DEFINE p == Node(s, l, a)
             n == Node(r, p, c)
  <2>1. Rebalance(s, l, r) = n
    <3>1. Rebalance(s, l, r) = RotateLeft(Node(s, l, r))
      BY <1>2, <1>8
    <3>2. RotateLeft(Node(s, l, Node(r, a, c))) = n
      BY Rotations
    <3> HIDE DEF n
    <3> QED
      BY <1>3, <3>1, <3>2
  <2>2. c.height = l.height + 1 /\ a.height \in {l.height, l.height + 1}
    BY <1>1, <1>3, <1>4, <1>8 DEF Latest
  <2>3. /\ AVL(p) /\ p.height = 1 + Latest(l.height, a.height)
        /\ SlotsIn(p) = {SlotOf(s)} \cup SlotsIn(l) \cup SlotsIn(a)
    <3>1. l.height - a.height \in -1 .. 1
      BY <1>1, <2>2
    <3> QED
      BY <1>3, <1>6, <3>1, Join
  <2> HIDE DEF p
  <2>4. AllBefore(SlotsIn(p), r.st)
    BY <1>4, <1>6, <1>7, <2>3, JoinedOrder
  <2>5. p.height \in {l.height + 1, l.height + 2} /\ p.height - c.height \in -1 .. 1
    BY <1>1, <2>2, <2>3 DEF Latest
  <2>6. /\ AVL(n) /\ n # Nil /\ n.height = 1 + Latest(p.height, c.height)
        /\ SlotsIn(n) = {SlotOf(r)} \cup SlotsIn(p) \cup SlotsIn(c)
    <3>1. /\ IsSlot(r) /\ AVL(p) /\ AVL(c) /\ AllBefore(SlotsIn(p), r.st)
          /\ AllAfter(SlotsIn(c), r.st) /\ p.height - c.height \in -1 .. 1
      BY <1>3, <1>4, <2>3, <2>4, <2>5
    <3> QED
      BY <3>1, Join
  <2> HIDE DEF n
  <2>7. SlotsIn(n) = {SlotOf(s)} \cup SlotsIn(l) \cup SlotsIn(r)
    BY <1>3, <2>3, <2>6
  <2>8. n.height \in {l.height + 2, l.height + 3}
    BY <1>1, <2>2, <2>5, <2>6 DEF Latest
  <2> QED
    BY <1>1, <2>1, <2>6, <2>7, <2>8 DEF RebalancesTo, Latest
<1>9. CASE a.height > c.height
  <2> DEFINE b == a.lson
             d == a.rson
             p == Node(s, l, b)
             q == Node(r, d, c)
             n == Node(a, p, q)
  <2>0. a # Nil
    BY <1>3, <1>9, AVLFacts
  <2>1. /\ IsSlot(a) /\ a = Node(a, b, d) /\ AVL(b) /\ AVL(d)
        /\ SlotsIn(a) = {SlotOf(a)} \cup SlotsIn(b) \cup SlotsIn(d)
        /\ a.height = 1 + Latest(b.height, d.height)
        /\ b.height \in Nat /\ d.height \in Nat
    BY <1>3, <2>0, AVLParts
  <2>2. AllBefore(SlotsIn(b), a.st) /\ AllAfter(SlotsIn(d), a.st) /\ b.height - d.height \in -1 .. 1
    BY <1>3, <2>0, AVLParts DEF InPlace
  <2>3. Rebalance(s, l, r) = n
    <3> HIDE DEF b, d
    <3>1. Rebalance(s, l, r) = RotateLeft(Node(s, l, RotateRight(r)))
      BY <1>2, <1>9
    <3>2. RotateRight(Node(r, Node(a, b, d), c)) = Node(a, b, q)
      BY Rotations
    <3>3. RotateLeft(Node(s, l, Node(a, b, q))) = n
      BY Rotations
    <3> HIDE DEF n, q
    <3>4. RotateRight(r) = Node(a, b, q)
      BY <1>3, <2>1, <3>2
    <3> QED
      BY <3>1, <3>3, <3>4
  <2>4. /\ c.height = l.height /\ a.height = l.height + 1
        /\ b.height \in {l.height - 1, l.height} /\ d.height \in {l.height - 1, l.height}
        /\ (b.height = l.height \/ d.height = l.height)
    <3>1. l.height \in Nat /\ r.height \in Nat /\ a.height \in Nat /\ c.height \in Nat
      BY <1>1, <1>3
    <3>2. c.height = l.height /\ a.height = l.height + 1
      BY <1>3, <1>4, <1>9, <3>1 DEF Latest
    <3>3. b.height \in Nat /\ d.height \in Nat /\ a.height = 1 + Latest(b.height, d.height)
          /\ b.height - d.height \in -1 .. 1
      BY <2>1, <2>2
    <3> HIDE DEF b, d
    <3> QED
      BY <3>1, <3>2, <3>3 DEF Latest
  <2>5. a.st \in Nat /\ s.st < a.st /\ a.st < r.st
        /\ AllAfter(SlotsIn(b), s.st) /\ AllBefore(SlotsIn(d), r.st)
    <3>1. SlotOf(a) \in SlotsIn(a) /\ SlotOf(a).st = a.st
      BY <2>1 DEF SlotOf
    <3> QED
      BY <1>4, <1>6, <2>1, <3>1 DEF AllAfter, AllBefore, IsSlot
  <2>6. AllBefore(SlotsIn(l), a.st) /\ AllAfter(SlotsIn(c), a.st)
    <3>1. \A x \in SlotsIn(l) \cup SlotsIn(c) : IsSlot(x)
      BY <1>3, AVLFacts
    <3> QED
      BY <1>4, <1>5, <2>5, <3>1, OrderTransitive
  <2> HIDE DEF b, d
  <2>7. /\ AVL(p) /\ p.height = 1 + Latest(l.height, b.height)
        /\ SlotsIn(p) = {SlotOf(s)} \cup SlotsIn(l) \cup SlotsIn(b)
    <3>1. l.height - b.height \in -1 .. 1
      BY <1>1, <2>4
    <3> QED
      BY <2>1, <2>5, <3>1, Join
  <2>8. /\ AVL(q) /\ q.height = 1 + Latest(d.height, c.height)
        /\ SlotsIn(q) = {SlotOf(r)} \cup SlotsIn(d) \cup SlotsIn(c)
    <3>1. d.height - c.height \in -1 .. 1
      BY <1>1, <2>4
    <3> QED
      BY <1>3, <1>4, <2>1, <2>5, <3>1, Join
  <2> HIDE DEF p, q
  <2>9. p.height = l.height + 1 /\ q.height = l.height + 1
    BY <1>1, <2>4, <2>7, <2>8 DEF Latest
  <2>10. AllBefore(SlotsIn(p), a.st) /\ AllAfter(SlotsIn(q), a.st)
    BY <2>2, <2>5, <2>6, <2>7, <2>8, JoinedOrder
  <2>11. p.height - q.height \in -1 .. 1
    BY <1>1, <2>9
  <2>12. /\ AVL(n) /\ n # Nil /\ n.height = 1 + Latest(p.height, q.height)
         /\ SlotsIn(n) = {SlotOf(a)} \cup SlotsIn(p) \cup SlotsIn(q)
    <3>1. /\ IsSlot(a) /\ AVL(p) /\ AVL(q) /\ AllBefore(SlotsIn(p), a.st)
          /\ AllAfter(SlotsIn(q), a.st) /\ p.height - q.height \in -1 .. 1
      BY <2>1, <2>7, <2>8, <2>10, <2>11
    <3> QED
      BY <3>1, Join
  <2> HIDE DEF n
  <2>13. SlotsIn(n) = {SlotOf(s)} \cup SlotsIn(l) \cup SlotsIn(r)
    BY <1>3, <2>1, <2>7, <2>8, <2>12
  <2>14. n.height = l.height + 2
    BY <1>1, <2>9, <2>12 DEF Latest
  <2> QED
    BY <1>1, <2>3, <2>12, <2>13, <2>14 DEF RebalancesTo, Latest
<1> QED
  BY <1>8, <1>9

(* rebalanceTree, with the left side two levels higher.                    *)
LEMMA RebalanceRight ==
    ASSUME NEW s, IsSlot(s), NEW l, AVL(l), NEW r, AVL(r),
           AllBefore(SlotsIn(l), s.st), AllAfter(SlotsIn(r), s.st), l.height = r.height + 2
    PROVE  RebalancesTo(Rebalance(s, l, r), s, l, r)
<1> DEFINE a == l.rson
           c == l.lson
<1>1. l.height \in Nat /\ r.height \in Nat /\ l # Nil
  BY AVLFacts
<1>2. Rebalance(s, l, r) = RotateRight(Node(s, IF a.height > c.height THEN RotateLeft(l) ELSE l, r))
  BY <1>1 DEF Rebalance
<1>3. /\ IsSlot(l) /\ l = Node(l, c, a) /\ AVL(a) /\ AVL(c)
      /\ SlotsIn(l) = {SlotOf(l)} \cup SlotsIn(c) \cup SlotsIn(a)
      /\ l.height = 1 + Latest(c.height, a.height)
      /\ a.height \in Nat /\ c.height \in Nat
  BY <1>1, AVLParts
<1>4. AllAfter(SlotsIn(a), l.st) /\ AllBefore(SlotsIn(c), l.st) /\ c.height - a.height \in -1 .. 1
  BY <1>1, AVLParts DEF InPlace
<1>5. s.st \in Nat /\ l.st \in Nat
  BY <1>3 DEF IsSlot
<1>6. l.st < s.st /\ AllBefore(SlotsIn(a), s.st) /\ AllBefore(SlotsIn(c), s.st)
  <2>1. SlotOf(l) \in SlotsIn(l) /\ SlotOf(l).st = l.st
    BY <1>3 DEF SlotOf
  <2> QED
    BY <1>3, <1>5, <2>1 DEF AllBefore
<1>7. AllAfter(SlotsIn(r), l.st)
  <2>1. \A x \in SlotsIn(r) : IsSlot(x)
    BY AVLFacts
  <2> QED
    BY <1>5, <1>6, <2>1, OrderTransitive
<1> HIDE DEF a, c
<1>8. CASE ~(a.height > c.height)
  <2> DEFINE p == Node(s, a, r)
             n == Node(l, c, p)
  <2>1. Rebalance(s, l, r) = n
    <3>1. Rebalance(s, l, r) = RotateRight(Node(s, l, r))
      BY <1>2, <1>8
    <3>2. RotateRight(Node(s, Node(l, c, a), r)) = n
      BY Rotations
    <3> HIDE DEF n
    <3> QED
      BY <1>3, <3>1, <3>2
  <2>2. c.height = r.height + 1 /\ a.height \in {r.height, r.height + 1}
    BY <1>1, <1>3, <1>4, <1>8 DEF Latest
  <2>3. /\ AVL(p) /\ p.height = 1 + Latest(a.height, r.height)
        /\ SlotsIn(p) = {SlotOf(s)} \cup SlotsIn(a) \cup SlotsIn(r)
    <3>1. a.height - r.height \in -1 .. 1
      BY <1>1, <2>2
    <3> QED
      BY <1>3, <1>6, <3>1, Join
  <2> HIDE DEF p
  <2>4. AllAfter(SlotsIn(p), l.st)
    BY <1>4, <1>6, <1>7, <2>3, JoinedOrder
  <2>5. p.height \in {r.height + 1, r.height + 2} /\ c.height - p.height \in -1 .. 1
    BY <1>1, <2>2, <2>3 DEF Latest
  <2>6. /\ AVL(n) /\ n # Nil /\ n.height = 1 + Latest(c.height, p.height)
        /\ SlotsIn(n) = {SlotOf(l)} \cup SlotsIn(c) \cup SlotsIn(p)
    <3>1. /\ IsSlot(l) /\ AVL(p) /\ AVL(c) /\ AllBefore(SlotsIn(c), l.st)
          /\ AllAfter(SlotsIn(p), l.st) /\ c.height - p.height \in -1 .. 1
      BY <1>3, <1>4, <2>3, <2>4, <2>5
    <3> QED
      BY <3>1, Join
  <2> HIDE DEF n
  <2>7. SlotsIn(n) = {SlotOf(s)} \cup SlotsIn(l) \cup SlotsIn(r)
    BY <1>3, <2>3, <2>6
  <2>8. n.height \in {r.height + 2, r.height + 3}
    BY <1>1, <2>2, <2>5, <2>6 DEF Latest
  <2> QED
    BY <1>1, <2>1, <2>6, <2>7, <2>8 DEF RebalancesTo, Latest
<1>9. CASE a.height > c.height
  <2> DEFINE b == a.lson
             d == a.rson
             p == Node(l, c, b)
             q == Node(s, d, r)
             n == Node(a, p, q)
  <2>0. a # Nil
    BY <1>3, <1>9, AVLFacts
  <2>1. /\ IsSlot(a) /\ a = Node(a, b, d) /\ AVL(b) /\ AVL(d)
        /\ SlotsIn(a) = {SlotOf(a)} \cup SlotsIn(b) \cup SlotsIn(d)
        /\ a.height = 1 + Latest(b.height, d.height)
        /\ b.height \in Nat /\ d.height \in Nat
    BY <1>3, <2>0, AVLParts
  <2>2. AllBefore(SlotsIn(b), a.st) /\ AllAfter(SlotsIn(d), a.st) /\ b.height - d.height \in -1 .. 1
    BY <1>3, <2>0, AVLParts DEF InPlace
  <2>3. Rebalance(s, l, r) = n
    <3> HIDE DEF b, d
    <3>1. Rebalance(s, l, r) = RotateRight(Node(s, RotateLeft(l), r))
      BY <1>2, <1>9
    <3>2. RotateLeft(Node(l, c, Node(a, b, d))) = Node(a, p, d)
      BY Rotations
    <3>3. RotateRight(Node(s, Node(a, p, d), r)) = n
      BY Rotations
    <3> HIDE DEF n, p
    <3>4. RotateLeft(l) = Node(a, p, d)
      BY <1>3, <2>1, <3>2
    <3> QED
      BY <3>1, <3>3, <3>4
  <2>4. /\ c.height = r.height /\ a.height = r.height + 1
        /\ b.height \in {r.height - 1, r.height} /\ d.height \in {r.height - 1, r.height}
        /\ (b.height = r.height \/ d.height = r.height)
    <3>1. l.height \in Nat /\ r.height \in Nat /\ a.height \in Nat /\ c.height \in Nat
      BY <1>1, <1>3
    <3>2. c.height = r.height /\ a.height = r.height + 1
      BY <1>3, <1>4, <1>9, <3>1 DEF Latest
    <3>3. b.height \in Nat /\ d.height \in Nat /\ a.height = 1 + Latest(b.height, d.height)
          /\ b.height - d.height \in -1 .. 1
      BY <2>1, <2>2
    <3> HIDE DEF b, d
    <3> QED
      BY <3>1, <3>2, <3>3 DEF Latest
  <2>5. a.st \in Nat /\ l.st < a.st /\ a.st < s.st
        /\ AllAfter(SlotsIn(b), l.st) /\ AllBefore(SlotsIn(d), s.st)
    <3>1. SlotOf(a) \in SlotsIn(a) /\ SlotOf(a).st = a.st
      BY <2>1 DEF SlotOf
    <3> QED
      BY <1>4, <1>6, <2>1, <3>1 DEF AllAfter, AllBefore, IsSlot
  <2>6. AllBefore(SlotsIn(c), a.st) /\ AllAfter(SlotsIn(r), a.st)
    <3>1. \A x \in SlotsIn(r) \cup SlotsIn(c) : IsSlot(x)
      BY <1>3, AVLFacts
    <3> QED
      BY <1>4, <1>5, <2>5, <3>1, OrderTransitive
  <2> HIDE DEF b, d
  <2>7. /\ AVL(p) /\ p.height = 1 + Latest(c.height, b.height)
        /\ SlotsIn(p) = {SlotOf(l)} \cup SlotsIn(c) \cup SlotsIn(b)
    <3>1. c.height - b.height \in -1 .. 1
      BY <1>1, <2>4
    <3> QED
      BY <1>3, <1>4, <2>1, <2>5, <3>1, Join
  <2>8. /\ AVL(q) /\ q.height = 1 + Latest(d.height, r.height)
        /\ SlotsIn(q) = {SlotOf(s)} \cup SlotsIn(d) \cup SlotsIn(r)
    <3>1. d.height - r.height \in -1 .. 1
      BY <1>1, <2>4
    <3> QED
      BY <2>1, <2>5, <3>1, Join
  <2> HIDE DEF p, q
  <2>9. p.height = r.height + 1 /\ q.height = r.height + 1
    BY <1>1, <2>4, <2>7, <2>8 DEF Latest
  <2>10. AllBefore(SlotsIn(p), a.st) /\ AllAfter(SlotsIn(q), a.st)
    BY <2>2, <2>5, <2>6, <2>7, <2>8, JoinedOrder
  <2>11. p.height - q.height \in -1 .. 1
    BY <1>1, <2>9
  <2>12. /\ AVL(n) /\ n # Nil /\ n.height = 1 + Latest(p.height, q.height)
         /\ SlotsIn(n) = {SlotOf(a)} \cup SlotsIn(p) \cup SlotsIn(q)
    <3>1. /\ IsSlot(a) /\ AVL(p) /\ AVL(q) /\ AllBefore(SlotsIn(p), a.st)
          /\ AllAfter(SlotsIn(q), a.st) /\ p.height - q.height \in -1 .. 1
      BY <2>1, <2>7, <2>8, <2>10, <2>11
    <3> QED
      BY <3>1, Join
  <2> HIDE DEF n
  <2>13. SlotsIn(n) = {SlotOf(s)} \cup SlotsIn(l) \cup SlotsIn(r)
    BY <1>3, <2>1, <2>7, <2>8, <2>12
  <2>14. n.height = r.height + 2
    BY <1>1, <2>9, <2>12 DEF Latest
  <2> QED
    BY <1>1, <2>3, <2>12, <2>13, <2>14 DEF RebalancesTo, Latest
<1> QED
  BY <1>8, <1>9

LEMMA RebalanceIs ==
    ASSUME NEW s, IsSlot(s), NEW l, AVL(l), NEW r, AVL(r),
           AllBefore(SlotsIn(l), s.st), AllAfter(SlotsIn(r), s.st),
           l.height - r.height \in -2 .. 2
    PROVE  RebalancesTo(Rebalance(s, l, r), s, l, r)
<1>1. l.height \in Nat /\ r.height \in Nat
  BY AVLFacts
<1>2. CASE l.height - r.height = -2
  <2>1. r.height = l.height + 2
    BY <1>1, <1>2
  <2> QED
    BY <2>1, RebalanceLeft
<1>3. CASE l.height - r.height = 2
  <2>1. l.height = r.height + 2
    BY <1>1, <1>3
  <2> QED
    BY <2>1, RebalanceRight
<1>4. CASE l.height - r.height \in -1 .. 1
  <2>1. Rebalance(s, l, r) = Node(s, l, r)
    BY <1>1, <1>4 DEF Rebalance
  <2>2. /\ AVL(Node(s, l, r)) /\ Node(s, l, r) # Nil
        /\ Node(s, l, r).height = 1 + Latest(l.height, r.height)
        /\ SlotsIn(Node(s, l, r)) = {SlotOf(s)} \cup SlotsIn(l) \cup SlotsIn(r)
    BY <1>4, Join
  <2> QED
    BY <2>1, <2>2 DEF RebalancesTo
<1> QED
  BY <1>1, <1>2, <1>3, <1>4

(***************************************************************************)
(* The AVL tree: its operations.                                           *)
(***************************************************************************)

(* A node's depth below it, and its sons'.                                 *)
Heights(S) == [m \in S |-> m.height]

LEMMA HeightsShrink ==
    ASSUME NEW n, AVL(n)
    PROVE  /\ n \in Nodes(n) /\ Heights(Nodes(n)) \in [Nodes(n) -> Nat]
           /\ Heights(Nodes(n)) \in [Nodes(n) -> 0 .. n.height]
           /\ \A m \in Nodes(n) : Heights(Nodes(n))[m] = m.height /\ m.height \in Nat
           /\ \A m \in Nodes(n) \ {Nil} :
                 /\ m.lson \in Nodes(n) /\ m.lson.height \in Nat /\ m.lson.height < m.height
                 /\ m.rson \in Nodes(n) /\ m.rson.height \in Nat /\ m.rson.height < m.height
<1> DEFINE S == Nodes(n)
           h == [m \in S |-> m.height]
<1>1. n \in S /\ TreeSet(S)
  BY TreeFacts DEF AVL
<1> HIDE DEF S
<1>2. /\ \A m \in S : m.height \in Nat
      /\ \A m \in S \ {Nil} :
            /\ m.lson \in S /\ m.lson.height \in Nat /\ m.lson.height < m.height
            /\ m.rson \in S /\ m.rson.height \in Nat /\ m.rson.height < m.height
  BY <1>1, HeightFacts
<1>3. h \in [S -> Nat] /\ \A m \in S : h[m] = m.height
  BY <1>2
<1>4. \A m \in S : m.height <= n.height
  <2> DEFINE Low == {m \in S : m.height <= n.height}
  <2>1. TreeSet(Low)
    <3>1. \A m \in Low : m \in S
      OBVIOUS
    <3>2. \A m \in Low \ {Nil} : m.lson \in Low /\ m.rson \in Low
      BY <1>1, <1>2
    <3> QED
      BY <1>1, <3>1, <3>2 DEF TreeSet
  <2>2. n \in Low
    BY <1>1, <1>2
  <2>3. Nodes(n) \subseteq Low
    <3> HIDE DEF Low
    <3> QED
      BY <2>1, <2>2, NodesIs
  <2> QED
    BY <2>3 DEF S
<1>5. h \in [S -> 0 .. n.height]
  BY <1>1, <1>2, <1>4
<1> QED
  BY <1>1, <1>2, <1>3, <1>5 DEF S, Heights

(* add puts the slot where it belongs.                                     *)
AddsTo(new, n, s) ==
    /\ AVL(new) /\ new # Nil /\ SlotsIn(new) = {SlotOf(s)} \cup SlotsIn(n)
    /\ new.height \in {n.height, n.height + 1}

LEMMA AddNodeIs ==
    ASSUME NEW n, AVL(n), NEW s, IsSlot(s), \A x \in SlotsIn(n) : x.st # s.st
    PROVE  AddsTo(AddNode(n, s), n, s)
<1> DEFINE S == Nodes(n)
           h == Heights(S)
           K == n.height + 1
           Value(F, m) == IF m = Nil THEN Node(s, Nil, Nil)
                          ELSE IF s.st < m.st THEN Rebalance(m, F[m.lson], m.rson)
                          ELSE Rebalance(m, m.lson, F[m.rson])
           Body(F) == [m \in S |-> Value(F, m)]
           add == CHOOSE F : F = Body(F)
           Fits(F, k) == /\ F = [m \in S |-> F[m]]
                         /\ \A m \in S : m.height < k => F[m] = Value(F, m)
           Depths == 0 .. K
           Good == {k \in Depths : \E F : Fits(F, k)}
           id == [k \in Depths |-> k]
<1>1. AddNode(n, s) = add[n]
  BY DEF AddNode
<1>2. /\ n \in S /\ h \in [S -> Nat] /\ h \in [S -> 0 .. n.height] /\ n.height \in Nat
      /\ \A m \in S : h[m] = m.height /\ m.height \in Nat
      /\ \A m \in S \ {Nil} :
            /\ m.lson \in S /\ m.lson.height \in Nat /\ m.lson.height < m.height
            /\ m.rson \in S /\ m.rson.height \in Nat /\ m.rson.height < m.height
  BY HeightsShrink
<1> HIDE DEF S, h
<1>3. ASSUME NEW k \in Depths, \A j \in Depths : j < k => j \in Good
      PROVE  \E F : Fits(F, k)
  <2>1. CASE k = 0
    <3> DEFINE F == [m \in S |-> m]
    <3>1. F = [m \in S |-> F[m]]
      OBVIOUS
    <3>2. \A m \in S : ~(m.height < k)
      BY <1>2, <2>1
    <3> HIDE DEF F, Value
    <3>3. Fits(F, k)
      BY <3>1, <3>2
    <3> QED
      BY <3>3
  <2>2. CASE k # 0
    <3>1. k - 1 \in Depths /\ k - 1 < k /\ k \in Nat
      <4>1. n.height \in Nat
        BY <1>2
      <4> QED
        BY <2>2, <4>1
    <3>2. PICK F : Fits(F, k - 1)
      BY <1>3, <3>1
    <3> DEFINE E == [m \in S |-> IF m.height < k - 1 THEN F[m] ELSE Value(F, m)]
    <3>3. \A m \in S : E[m] = IF m.height < k - 1 THEN F[m] ELSE Value(F, m)
      OBVIOUS
    <3>4. E = [m \in S |-> E[m]]
      OBVIOUS
    <3> HIDE DEF E
    <3>5. ASSUME NEW m \in S, m.height < k PROVE E[m] = Value(E, m)
      <4>1. E[m] = Value(F, m)
        <5> HIDE DEF Value
        <5> QED
          BY <3>2, <3>3
      <4>2. m # Nil => F[m.lson] = E[m.lson] /\ F[m.rson] = E[m.rson]
        <5>1. m # Nil => /\ m.lson \in S /\ m.lson.height < k - 1
                         /\ m.rson \in S /\ m.rson.height < k - 1
          BY <1>2, <3>1, <3>5
        <5> HIDE DEF Value
        <5> QED
          BY <3>3, <5>1
      <4>3. Value(F, m) = Value(E, m)
        BY <4>2
      <4> QED
        BY <4>1, <4>3
    <3> HIDE DEF Value
    <3>6. Fits(E, k)
      BY <3>4, <3>5
    <3> QED
      BY <3>6
  <2> QED
    BY <2>1, <2>2
<1>4. PICK F : Fits(F, K)
  <2>1. id \in [Depths -> Nat] /\ K \in Depths
    BY <1>2
  <2>2. \A k \in Depths : (\A j \in Depths : id[j] < id[k] => j \in Good) => k \in Good
    <3> HIDE DEF Fits
    <3> QED
      BY <1>3
  <2>3. Depths \subseteq Good
    <3> HIDE DEF Good, Depths, id
    <3> QED
      BY <2>1, <2>2, MeasureInduction
  <2> HIDE DEF Fits
  <2> QED
    BY <2>1, <2>3
<1>5. F = Body(F)
  <2>1. \A m \in S : m.height < K
    BY <1>2
  <2>2. \A m \in S : F[m] = Value(F, m)
    <3> HIDE DEF Value
    <3> QED
      BY <1>4, <2>1
  <2>3. F = [m \in S |-> F[m]]
    BY <1>4
  <2> HIDE DEF Value
  <2> QED
    BY <2>2, <2>3, Zenon
<1>6. add = Body(add)
  <2> HIDE DEF Body
  <2> QED
    BY <1>5
<1> HIDE DEF add
<1>7. \A m \in S : add[m] = Value(add, m)
  <2> HIDE DEF Value
  <2> QED
    BY <1>6, Zenon
<1> DEFINE G == {m \in S : AddsTo(add[m], m, s)}
<1>8. ASSUME NEW m \in S, \A k \in S : h[k] < h[m] => k \in G
      PROVE  AddsTo(add[m], m, s)
  <2>1. AVL(m) /\ SlotsIn(m) \subseteq SlotsIn(n)
    BY AVLFacts DEF S
  <2>2. CASE m = Nil
    <3>1. add[m] = Node(s, Nil, Nil)
      BY <1>7, <2>2
    <3>2. SlotsIn(Nil) = {} /\ Nil.height = 0
      BY NilTree
    <3>3. AllBefore(SlotsIn(Nil), s.st) /\ AllAfter(SlotsIn(Nil), s.st)
          /\ Nil.height - Nil.height \in -1 .. 1
      BY <3>2 DEF AllBefore, AllAfter
    <3>4. /\ AVL(Node(s, Nil, Nil)) /\ Node(s, Nil, Nil) # Nil
          /\ Node(s, Nil, Nil).height = 1 + Latest(Nil.height, Nil.height)
          /\ SlotsIn(Node(s, Nil, Nil)) = {SlotOf(s)} \cup SlotsIn(Nil) \cup SlotsIn(Nil)
      BY <3>3, AVLNil, Join
    <3> QED
      BY <2>2, <3>1, <3>2, <3>4 DEF AddsTo, Latest
  <2>3. CASE m # Nil
    <3> DEFINE l == m.lson
               r == m.rson
    <3>1. /\ IsSlot(m) /\ AVL(l) /\ AVL(r)
          /\ SlotsIn(m) = {SlotOf(m)} \cup SlotsIn(l) \cup SlotsIn(r)
          /\ m.height = 1 + Latest(l.height, r.height)
          /\ l.height \in Nat /\ r.height \in Nat
      BY <2>1, <2>3, AVLParts
    <3>2. AllBefore(SlotsIn(l), m.st) /\ AllAfter(SlotsIn(r), m.st) /\ l.height - r.height \in -1 .. 1
      BY <2>1, <2>3, AVLParts DEF InPlace
    <3>3. l \in G /\ r \in G
      BY <1>2, <1>8, <2>3
    <3>4. m.st \in Nat /\ s.st \in Nat /\ m.st # s.st
      <4>1. SlotOf(m) \in SlotsIn(n) /\ SlotOf(m).st = m.st
        BY <2>1, <3>1 DEF SlotOf
      <4> QED
        BY <3>1, <4>1 DEF IsSlot
    <3>5. CASE s.st < m.st
      <4> DEFINE new == add[l]
      <4>1. add[m] = Rebalance(m, new, r)
        BY <1>7, <2>3, <3>5
      <4>2. /\ AVL(new) /\ SlotsIn(new) = {SlotOf(s)} \cup SlotsIn(l)
            /\ new.height \in {l.height, l.height + 1}
        BY <3>3 DEF AddsTo
      <4> HIDE DEF new, l, r
      <4>3. AllBefore(SlotsIn(new), m.st) /\ new.height - r.height \in -2 .. 2
        <5>1. SlotOf(s).st = s.st
          BY DEF SlotOf
        <5> QED
          BY <3>1, <3>2, <3>5, <4>2, <5>1 DEF AllBefore
      <4>4. RebalancesTo(add[m], m, new, r)
        BY <3>1, <3>2, <4>1, <4>2, <4>3, RebalanceIs
      <4>5. add[m].height \in {m.height, m.height + 1}
        <5>1. /\ add[m].height \in {Latest(new.height, r.height), 1 + Latest(new.height, r.height)}
              /\ new.height - r.height \in -1 .. 1 => add[m].height = 1 + Latest(new.height, r.height)
          BY <4>4 DEF RebalancesTo
        <5> QED
          BY <3>1, <3>2, <4>2, <5>1 DEF Latest
      <4>6. SlotsIn(add[m]) = {SlotOf(s)} \cup SlotsIn(m)
        <5>1. SlotsIn(add[m]) = {SlotOf(m)} \cup SlotsIn(new) \cup SlotsIn(r)
          BY <4>4 DEF RebalancesTo
        <5> QED
          BY <3>1, <4>2, <5>1
      <4> QED
        BY <4>4, <4>5, <4>6 DEF AddsTo, RebalancesTo
    <3>6. CASE ~(s.st < m.st)
      <4> DEFINE new == add[r]
      <4>1. add[m] = Rebalance(m, l, new)
        BY <1>7, <2>3, <3>6
      <4>2. /\ AVL(new) /\ SlotsIn(new) = {SlotOf(s)} \cup SlotsIn(r)
            /\ new.height \in {r.height, r.height + 1}
        BY <3>3 DEF AddsTo
      <4> HIDE DEF new, l, r
      <4>3. AllAfter(SlotsIn(new), m.st) /\ l.height - new.height \in -2 .. 2
        <5>1. SlotOf(s).st = s.st
          BY DEF SlotOf
        <5> QED
          BY <3>1, <3>2, <3>4, <3>6, <4>2, <5>1 DEF AllAfter
      <4>4. RebalancesTo(add[m], m, l, new)
        BY <3>1, <3>2, <4>1, <4>2, <4>3, RebalanceIs
      <4>5. add[m].height \in {m.height, m.height + 1}
        <5>1. /\ add[m].height \in {Latest(l.height, new.height), 1 + Latest(l.height, new.height)}
              /\ l.height - new.height \in -1 .. 1 => add[m].height = 1 + Latest(l.height, new.height)
          BY <4>4 DEF RebalancesTo
        <5> QED
          BY <3>1, <3>2, <4>2, <5>1 DEF Latest
      <4>6. SlotsIn(add[m]) = {SlotOf(s)} \cup SlotsIn(m)
        <5>1. SlotsIn(add[m]) = {SlotOf(m)} \cup SlotsIn(l) \cup SlotsIn(new)
          BY <4>4 DEF RebalancesTo
        <5> QED
          BY <3>1, <4>2, <5>1
      <4> QED
        BY <4>4, <4>5, <4>6 DEF AddsTo, RebalancesTo
    <3> QED
      BY <3>5, <3>6
  <2> QED
    BY <2>2, <2>3
<1>9. S \subseteq G
  <2>1. \A m \in S : (\A k \in S : h[k] < h[m] => k \in G) => m \in G
    BY <1>8
  <2> HIDE DEF G
  <2> QED
    BY <1>2, <2>1, MeasureInduction
<1> QED
  BY <1>1, <1>2, <1>9

(* findMin and findMaxLessThan follow one branch down: what they give is a *)
(* node of the tree.                                                       *)
LEMMA FindMinIs ==
    ASSUME NEW n, AVL(n), n # Nil
    PROVE  /\ FindMin(n) \in Nodes(n) \ {Nil}
           /\ \A s \in SlotsIn(n) : FindMin(n).st <= s.st
<1> DEFINE S == Nodes(n)
           h == Heights(S)
           Value(F, m) == IF m = Nil \/ m.lson = Nil THEN m ELSE F[m.lson]
           st == [vf \in S \X [S -> S] |-> Value(vf[2], vf[1])]
           Body(F) == [m \in S |-> Value(F, m)]
           min == CHOOSE F : F = Body(F)
<1>1. FindMin(n) = min[n]
  BY DEF FindMin
<1>2. /\ n \in S /\ h \in [S -> Nat] /\ h \in [S -> 0 .. n.height] /\ n.height \in Nat
      /\ \A m \in S : h[m] = m.height /\ m.height \in Nat
      /\ \A m \in S \ {Nil} :
            /\ m.lson \in S /\ m.lson.height \in Nat /\ m.lson.height < m.height
            /\ m.rson \in S /\ m.rson.height \in Nat /\ m.rson.height < m.height
  BY HeightsShrink
<1> HIDE DEF S, h
<1>3. st \in [S \X [S -> S] -> S]
      /\ \A m \in S : \A F \in [S -> S] : st[<<m, F>>] = Value(F, m)
  <2>1. \A m \in S : \A F \in [S -> S] : Value(F, m) \in S
    BY <1>2
  <2> HIDE DEF Value
  <2> QED
    BY <2>1
<1> HIDE DEF st
<1>4. LooksDown(S, h, S, st)
  <2> SUFFICES ASSUME NEW m \in S, NEW F \in [S -> S], NEW G \in [S -> S],
                      \A y \in S : h[y] < h[m] => F[y] = G[y]
               PROVE  st[<<m, F>>] = st[<<m, G>>]
    BY DEF LooksDown
  <2>1. m # Nil => F[m.lson] = G[m.lson]
    BY <1>2
  <2>2. Value(F, m) = Value(G, m)
    BY <2>1
  <2> QED
    BY <1>3, <2>2
<1>5. PICK F : Solution(F, S, S, st)
  BY <1>2, <1>3, <1>4, SolutionExists
<1>6. F = Body(F)
  <2>1. F \in [S -> S] /\ \A m \in S : F[m] = Value(F, m)
    BY <1>3, <1>5 DEF Solution
  <2> HIDE DEF Value
  <2> QED
    BY <2>1, Zenon
<1>7. min = Body(min)
  <2> HIDE DEF Body
  <2> QED
    BY <1>6
<1> HIDE DEF min
<1>8. \A m \in S : min[m] = Value(min, m)
  <2> HIDE DEF Value
  <2> QED
    BY <1>7, Zenon
<1> DEFINE Fine(m) == /\ min[m] \in Nodes(m) \ {Nil}
                      /\ \A s \in SlotsIn(m) : min[m].st <= s.st
           G == {m \in S : m # Nil => Fine(m)}
<1>9. ASSUME NEW m \in S, m # Nil, \A k \in S : h[k] < h[m] => k \in G
      PROVE  Fine(m)
  <2>1. AVL(m)
    BY AVLFacts DEF S
  <2> DEFINE l == m.lson
             r == m.rson
  <2>2. /\ IsSlot(m) /\ AVL(l) /\ AVL(r) /\ m \in Nodes(m)
        /\ Nodes(m) = {m} \cup Nodes(l) \cup Nodes(r)
        /\ SlotsIn(m) = {SlotOf(m)} \cup SlotsIn(l) \cup SlotsIn(r)
    BY <1>9, <2>1, AVLParts
  <2>3. AllBefore(SlotsIn(l), m.st) /\ AllAfter(SlotsIn(r), m.st)
    BY <1>9, <2>1, AVLParts DEF InPlace
  <2>4. SlotOf(m).st = m.st /\ m.st \in Nat /\ \A s \in SlotsIn(m) : s.st \in Nat
    BY <2>1, <2>2, AVLFacts DEF SlotOf, IsSlot
  <2>5. CASE l = Nil
    <3>1. min[m] = m
      BY <1>8, <2>5
    <3>2. SlotsIn(l) = {}
      BY <2>5, NilTree
    <3>3. \A s \in SlotsIn(m) : m.st <= s.st
      BY <2>2, <2>3, <2>4, <3>2 DEF AllAfter
    <3> QED
      BY <1>9, <2>2, <3>1, <3>3
  <2>6. CASE l # Nil
    <3>1. min[m] = min[l]
      BY <1>8, <1>9, <2>6
    <3>2. Fine(l)
      BY <1>2, <1>9, <2>6
    <3>3. SlotOf(min[l]) \in SlotsIn(l) /\ SlotOf(min[l]).st = min[l].st
      BY <2>2, <3>2, AVLFacts DEF SlotOf
    <3> HIDE DEF l, r
    <3>4. min[l].st < m.st /\ min[l].st \in Nat
      BY <2>2, <2>3, <2>4, <3>3 DEF AllBefore
    <3>5. \A s \in SlotsIn(m) : min[l].st <= s.st
      BY <2>2, <2>3, <2>4, <3>2, <3>4 DEF AllAfter
    <3> QED
      BY <2>2, <3>1, <3>2, <3>5
  <2> QED
    BY <2>5, <2>6
<1>10. S \subseteq G
  <2>1. \A m \in S : (\A k \in S : h[k] < h[m] => k \in G) => m \in G
    BY <1>9
  <2> HIDE DEF G
  <2> QED
    BY <1>2, <2>1, MeasureInduction
<1> QED
  BY <1>1, <1>2, <1>10 DEF S

(* f is the tree's last slot up to x.                                      *)
LastUpTo(f, n, x) ==
    /\ f \in Nodes(n)
    /\ f = Nil => AllAfter(SlotsIn(n), x)
    /\ f # Nil => f.st <= x /\ \A s \in SlotsIn(n) : s.st <= x => s.st <= f.st

LEMMA FindMaxLessThanIs ==
    ASSUME NEW n, AVL(n), NEW x \in Nat
    PROVE  LastUpTo(FindMaxLessThan(n, x), n, x)
<1> DEFINE S == Nodes(n)
           h == Heights(S)
           Value(F, m) ==
               IF m = Nil \/ m.st = x THEN m
               ELSE IF m.st > x THEN F[m.lson]
               ELSE LET max == F[m.rson] IN IF max = Nil THEN m ELSE max
           st == [vf \in S \X [S -> S] |-> Value(vf[2], vf[1])]
           Body(F) == [m \in S |-> Value(F, m)]
           find == CHOOSE F : F = Body(F)
<1>1. FindMaxLessThan(n, x) = find[n]
  BY DEF FindMaxLessThan
<1>2. /\ n \in S /\ h \in [S -> Nat] /\ h \in [S -> 0 .. n.height] /\ n.height \in Nat
      /\ \A m \in S : h[m] = m.height /\ m.height \in Nat
      /\ \A m \in S \ {Nil} :
            /\ m.lson \in S /\ m.lson.height \in Nat /\ m.lson.height < m.height
            /\ m.rson \in S /\ m.rson.height \in Nat /\ m.rson.height < m.height
  BY HeightsShrink
<1> HIDE DEF S, h
<1>3. st \in [S \X [S -> S] -> S]
      /\ \A m \in S : \A F \in [S -> S] : st[<<m, F>>] = Value(F, m)
  <2>1. \A m \in S : \A F \in [S -> S] : Value(F, m) \in S
    BY <1>2
  <2> HIDE DEF Value
  <2> QED
    BY <2>1
<1> HIDE DEF st
<1>4. LooksDown(S, h, S, st)
  <2> SUFFICES ASSUME NEW m \in S, NEW F \in [S -> S], NEW G \in [S -> S],
                      \A y \in S : h[y] < h[m] => F[y] = G[y]
               PROVE  st[<<m, F>>] = st[<<m, G>>]
    BY DEF LooksDown
  <2>1. m # Nil => F[m.lson] = G[m.lson] /\ F[m.rson] = G[m.rson]
    BY <1>2
  <2>2. Value(F, m) = Value(G, m)
    BY <2>1
  <2> QED
    BY <1>3, <2>2
<1>5. PICK F : Solution(F, S, S, st)
  BY <1>2, <1>3, <1>4, SolutionExists
<1>6. F = Body(F)
  <2>1. F \in [S -> S] /\ \A m \in S : F[m] = Value(F, m)
    BY <1>3, <1>5 DEF Solution
  <2> HIDE DEF Value
  <2> QED
    BY <2>1, Zenon
<1>7. find = Body(find)
  <2> HIDE DEF Body
  <2> QED
    BY <1>6
<1> HIDE DEF find
<1>8. \A m \in S : find[m] = Value(find, m)
  <2> HIDE DEF Value
  <2> QED
    BY <1>7, Zenon
<1> DEFINE G == {m \in S : LastUpTo(find[m], m, x)}
<1>9. ASSUME NEW m \in S, \A k \in S : h[k] < h[m] => k \in G
      PROVE  LastUpTo(find[m], m, x)
  <2>1. AVL(m)
    BY AVLFacts DEF S
  <2>2. CASE m = Nil
    <3>1. find[m] = Nil
      BY <1>8, <2>2
    <3>2. Nodes(Nil) = {Nil} /\ SlotsIn(Nil) = {}
      BY NilTree
    <3> QED
      BY <2>2, <3>1, <3>2 DEF LastUpTo, AllAfter
  <2>3. CASE m # Nil
    <3> DEFINE l == m.lson
               r == m.rson
    <3>1. /\ IsSlot(m) /\ AVL(l) /\ AVL(r) /\ m \in Nodes(m)
          /\ Nodes(m) = {m} \cup Nodes(l) \cup Nodes(r)
          /\ SlotsIn(m) = {SlotOf(m)} \cup SlotsIn(l) \cup SlotsIn(r)
      BY <2>1, <2>3, AVLParts
    <3>2. AllBefore(SlotsIn(l), m.st) /\ AllAfter(SlotsIn(r), m.st)
      BY <2>1, <2>3, AVLParts DEF InPlace
    <3>3. SlotOf(m).st = m.st /\ m.st \in Nat /\ \A s \in SlotsIn(m) : s.st \in Nat
      BY <2>1, <3>1, AVLFacts DEF SlotOf, IsSlot
    <3>4. LastUpTo(find[l], l, x) /\ LastUpTo(find[r], r, x)
      BY <1>2, <1>9, <2>3
    <3>5. find[m] = Value(find, m)
      BY <1>8
    <3> HIDE DEF l, r
    <3>6. CASE m.st = x
      <4>1. find[m] = m
        BY <3>5, <3>6
      <4> QED
        BY <2>3, <3>1, <3>3, <3>6, <4>1 DEF LastUpTo
    <3>7. CASE m.st > x
      <4>1. find[m] = find[l]
        BY <2>3, <3>3, <3>5, <3>7 DEF l
      <4>2. \A s \in {SlotOf(m)} \cup SlotsIn(r) : s.st > x
        BY <3>1, <3>2, <3>3, <3>7 DEF AllAfter
      <4>3. find[l] = Nil => AllAfter(SlotsIn(m), x)
        BY <3>1, <3>4, <4>2 DEF LastUpTo, AllAfter
      <4>4. find[l] # Nil => find[l].st <= x /\ \A s \in SlotsIn(m) : s.st <= x => s.st <= find[l].st
        BY <3>1, <3>3, <3>4, <4>2 DEF LastUpTo
      <4> QED
        BY <3>1, <3>4, <4>1, <4>3, <4>4 DEF LastUpTo
    <3>8. CASE m.st < x
      <4>1. \A s \in {SlotOf(m)} \cup SlotsIn(l) : s.st <= m.st
        BY <3>1, <3>2, <3>3 DEF AllBefore
      <4>2. CASE find[r] = Nil
        <5>1. find[m] = m
          BY <2>3, <3>3, <3>5, <3>8, <4>2 DEF r
        <5>2. \A s \in SlotsIn(r) : s.st > x
          BY <3>4, <4>2 DEF LastUpTo, AllAfter
        <5>3. \A s \in SlotsIn(m) : s.st <= x => s.st <= m.st
          BY <3>1, <3>3, <4>1, <5>2
        <5> QED
          BY <2>3, <3>1, <3>3, <3>8, <5>1, <5>3 DEF LastUpTo
      <4>3. CASE find[r] # Nil
        <5>1. find[m] = find[r]
          BY <2>3, <3>3, <3>5, <3>8, <4>3 DEF r
        <5>2. SlotOf(find[r]) \in SlotsIn(r) /\ SlotOf(find[r]).st = find[r].st
          BY <3>1, <3>4, <4>3, AVLFacts DEF LastUpTo, SlotOf
        <5>3. find[r].st > m.st /\ find[r].st \in Nat
          BY <3>1, <3>2, <3>3, <5>2 DEF AllAfter
        <5>4. \A s \in SlotsIn(m) : s.st <= x => s.st <= find[r].st
          BY <3>1, <3>3, <3>4, <4>1, <4>3, <5>3 DEF LastUpTo
        <5> QED
          BY <3>1, <3>4, <4>3, <5>1, <5>4 DEF LastUpTo
      <4> QED
        BY <4>2, <4>3
    <3> QED
      BY <3>3, <3>6, <3>7, <3>8
  <2> QED
    BY <2>2, <2>3
<1>10. S \subseteq G
  <2>1. \A m \in S : (\A k \in S : h[k] < h[m] => k \in G) => m \in G
    BY <1>9
  <2> HIDE DEF G
  <2> QED
    BY <1>2, <2>1, MeasureInduction
<1> QED
  BY <1>1, <1>2, <1>10

(* remove takes out the slot that starts at x, if there is one.            *)
RemovesFrom(new, n, x) ==
    /\ AVL(new) /\ SlotsIn(new) = {s \in SlotsIn(n) : s.st # x}
    /\ new.height \in {n.height - 1, n.height}

LEMMA RemoveNodeIs ==
    ASSUME NEW n, AVL(n), NEW st \in Nat
    PROVE  RemovesFrom(RemoveNode(n, st), n, st)
<1> DEFINE N == Nodes(n)
           S == N \X Nat
           h == [q \in S |-> q[1].height]
           Value(F, q) ==
               LET m == q[1]
                   x == q[2]
               IN  IF m = Nil THEN Nil
                   ELSE IF x < m.st THEN Rebalance(m, F[<<m.lson, x>>], m.rson)
                   ELSE IF x > m.st THEN Rebalance(m, m.lson, F[<<m.rson, x>>])
                   ELSE IF m.lson = Nil THEN m.rson
                   ELSE IF m.rson = Nil THEN m.lson
                   ELSE LET min == FindMin(m.rson)
                        IN  Rebalance(min, m.lson, F[<<m.rson, min.st>>])
           Body(F) == [q \in S |-> Value(F, q)]
           remove == CHOOSE F : F = Body(F)
           Fits(F, k) == /\ F = [q \in S |-> F[q]]
                         /\ \A q \in S : q[1].height < k => F[q] = Value(F, q)
           K == n.height + 1
           Depths == 0 .. K
           Good == {k \in Depths : \E F : Fits(F, k)}
           id == [k \in Depths |-> k]
           Below(q) == {<<q[1].lson, q[2]>>, <<q[1].rson, q[2]>>,
                        <<q[1].rson, FindMin(q[1].rson).st>>}
<1>1. RemoveNode(n, st) = remove[<<n, st>>]
  BY DEF RemoveNode
<1>2. /\ n \in N /\ n.height \in Nat
      /\ \A m \in N : m.height \in Nat /\ m.height < K /\ AVL(m)
      /\ \A m \in N \ {Nil} :
            /\ m.lson \in N /\ m.lson.height \in Nat /\ m.lson.height < m.height
            /\ m.rson \in N /\ m.rson.height \in Nat /\ m.rson.height < m.height
  <2>1. /\ n \in N /\ n.height \in Nat /\ Heights(N) \in [N -> 0 .. n.height]
        /\ \A m \in N : Heights(N)[m] = m.height /\ m.height \in Nat
        /\ \A m \in N \ {Nil} :
              /\ m.lson \in N /\ m.lson.height \in Nat /\ m.lson.height < m.height
              /\ m.rson \in N /\ m.rson.height \in Nat /\ m.rson.height < m.height
    BY HeightsShrink
  <2>2. \A m \in N : m.height \in 0 .. n.height
    <3> HIDE DEF N
    <3> QED
      BY <2>1
  <2>3. \A m \in N : AVL(m)
    BY AVLFacts
  <2> HIDE DEF N
  <2> QED
    BY <2>1, <2>2, <2>3
<1>3. \A m \in N \ {Nil} : m.rson # Nil => FindMin(m.rson).st \in Nat
  <2> SUFFICES ASSUME NEW m \in N \ {Nil}, m.rson # Nil PROVE FindMin(m.rson).st \in Nat
    OBVIOUS
  <2>1. AVL(m.rson)
    BY <1>2
  <2>2. FindMin(m.rson) \in Nodes(m.rson) \ {Nil}
    BY <2>1, FindMinIs
  <2>3. IsSlot(FindMin(m.rson))
    BY <2>1, <2>2, AVLFacts
  <2> QED
    BY <2>3 DEF IsSlot
<1> HIDE DEF N
<1>4. h \in [S -> Nat] /\ \A q \in S : h[q] = q[1].height /\ q[1] \in N /\ q[2] \in Nat
  BY <1>2
<1>5. ASSUME NEW q \in S, q[1] # Nil
      PROVE  /\ <<q[1].lson, q[2]>> \in S /\ <<q[1].rson, q[2]>> \in S
             /\ q[1].rson # Nil => <<q[1].rson, FindMin(q[1].rson).st>> \in S
             /\ \A b \in Below(q) : b[1].height \in Nat /\ b[1].height < q[1].height
  BY <1>2, <1>3, <1>4, <1>5
<1>6. ASSUME NEW q \in S, NEW F, NEW E, \A b \in Below(q) : b \in S /\ q[1] # Nil => F[b] = E[b]
      PROVE  Value(F, q) = Value(E, q)
  <2>1. q[1] # Nil => /\ F[<<q[1].lson, q[2]>>] = E[<<q[1].lson, q[2]>>]
                      /\ F[<<q[1].rson, q[2]>>] = E[<<q[1].rson, q[2]>>]
    BY <1>5, <1>6
  <2>2. q[1] # Nil /\ q[1].rson # Nil =>
           F[<<q[1].rson, FindMin(q[1].rson).st>>] = E[<<q[1].rson, FindMin(q[1].rson).st>>]
    BY <1>5, <1>6
  <2> HIDE DEF S, Below
  <2> QED
    BY <2>1, <2>2
<1> HIDE DEF S, h
<1>7. ASSUME NEW k \in Depths, \A j \in Depths : j < k => j \in Good
      PROVE  \E F : Fits(F, k)
  <2>1. CASE k = 0
    <3> DEFINE F == [q \in S |-> q]
    <3>1. F = [q \in S |-> F[q]]
      OBVIOUS
    <3>2. \A q \in S : ~(q[1].height < k)
      BY <1>2, <1>4, <2>1
    <3> HIDE DEF F, Value
    <3>3. Fits(F, k)
      BY <3>1, <3>2
    <3> QED
      BY <3>3
  <2>2. CASE k # 0
    <3>1. k - 1 \in Depths /\ k - 1 < k /\ k \in Nat
      <4>1. n.height \in Nat
        BY <1>2
      <4> QED
        BY <2>2, <4>1
    <3>2. PICK F : Fits(F, k - 1)
      BY <1>7, <3>1
    <3> DEFINE E == [q \in S |-> IF q[1].height < k - 1 THEN F[q] ELSE Value(F, q)]
    <3>3. \A q \in S : E[q] = IF q[1].height < k - 1 THEN F[q] ELSE Value(F, q)
      OBVIOUS
    <3>4. E = [q \in S |-> E[q]]
      OBVIOUS
    <3> HIDE DEF E
    <3>5. ASSUME NEW q \in S, q[1].height < k PROVE E[q] = Value(E, q)
      <4>1. E[q] = Value(F, q)
        <5> HIDE DEF Value
        <5> QED
          BY <3>2, <3>3
      <4>2. \A b \in Below(q) : b \in S /\ q[1] # Nil => F[b] = E[b]
        <5> SUFFICES ASSUME NEW b \in Below(q), b \in S, q[1] # Nil PROVE F[b] = E[b]
          OBVIOUS
        <5>1. b[1].height \in Nat /\ b[1].height < q[1].height
          BY <1>5
        <5>2. q[1].height \in Nat
          BY <1>2, <1>4
        <5>3. b[1].height < k - 1
          BY <3>1, <3>5, <5>1, <5>2
        <5> HIDE DEF Value, Below
        <5> QED
          BY <3>3, <5>3
      <4>3. Value(F, q) = Value(E, q)
        <5> HIDE DEF Value, Below
        <5> QED
          BY <1>6, <4>2
      <4> QED
        BY <4>1, <4>3
    <3> HIDE DEF Value
    <3>6. Fits(E, k)
      BY <3>4, <3>5
    <3> QED
      BY <3>6
  <2> QED
    BY <2>1, <2>2
<1>8. PICK F : Fits(F, K)
  <2>1. id \in [Depths -> Nat] /\ K \in Depths
    BY <1>2
  <2>2. \A k \in Depths : (\A j \in Depths : id[j] < id[k] => j \in Good) => k \in Good
    <3> HIDE DEF Fits
    <3> QED
      BY <1>7
  <2>3. Depths \subseteq Good
    <3> HIDE DEF Good, Depths, id
    <3> QED
      BY <2>1, <2>2, MeasureInduction
  <2> HIDE DEF Fits
  <2> QED
    BY <2>1, <2>3
<1>9. F = Body(F)
  <2>1. \A q \in S : q[1].height < K
    BY <1>2, <1>4
  <2>2. \A q \in S : F[q] = Value(F, q)
    <3> HIDE DEF Value
    <3> QED
      BY <1>8, <2>1
  <2>3. F = [q \in S |-> F[q]]
    BY <1>8
  <2> HIDE DEF Value
  <2> QED
    BY <2>2, <2>3, Zenon
<1>10. remove = Body(remove)
  <2> HIDE DEF Body
  <2> QED
    BY <1>9
<1> HIDE DEF remove
<1>11. \A q \in S : remove[q] = Value(remove, q)
  <2> HIDE DEF Value
  <2> QED
    BY <1>10, Zenon
<1> DEFINE G == {q \in S : RemovesFrom(remove[q], q[1], q[2])}
<1>12. ASSUME NEW q \in S, \A k \in S : h[k] < h[q] => k \in G
       PROVE  RemovesFrom(remove[q], q[1], q[2])
  <2> DEFINE m == q[1]
             x == q[2]
             l == m.lson
             r == m.rson
  <2>0. AVL(m) /\ m \in N /\ x \in Nat
    BY <1>2, <1>4
  <2>1. remove[q] = Value(remove, q)
    BY <1>11
  <2>2. CASE m = Nil
    <3>1. remove[q] = Nil
      BY <2>1, <2>2
    <3>2. SlotsIn(Nil) = {} /\ Nil.height = 0
      BY NilTree
    <3> QED
      BY <2>0, <2>2, <3>1, <3>2 DEF RemovesFrom
  <2>3. CASE m # Nil
    <3>1. /\ IsSlot(m) /\ AVL(l) /\ AVL(r)
          /\ SlotsIn(m) = {SlotOf(m)} \cup SlotsIn(l) \cup SlotsIn(r)
          /\ m.height = 1 + Latest(l.height, r.height)
          /\ l.height \in Nat /\ r.height \in Nat
      BY <2>0, <2>3, AVLParts
    <3>2. AllBefore(SlotsIn(l), m.st) /\ AllAfter(SlotsIn(r), m.st) /\ l.height - r.height \in -1 .. 1
      BY <2>0, <2>3, AVLParts DEF InPlace
    <3>3. SlotOf(m).st = m.st /\ m.st \in Nat /\ \A s \in SlotsIn(m) : s.st \in Nat
      BY <2>0, <3>1, AVLFacts DEF SlotOf, IsSlot
    <3>4. \A b \in Below(q) : b \in S => b \in G /\ RemovesFrom(remove[b], b[1], b[2])
      <4> SUFFICES ASSUME NEW b \in Below(q), b \in S PROVE b \in G
        OBVIOUS
      <4>1. b[1].height < q[1].height
        BY <1>5, <2>3
      <4>2. h[b] = b[1].height /\ h[q] = q[1].height
        BY <1>4
      <4>3. h[b] < h[q]
        <5> HIDE DEF Below
        <5> QED
          BY <4>1, <4>2
      <4> QED
        BY <1>12, <4>3
    <3>5. /\ RemovesFrom(remove[<<l, x>>], l, x) /\ RemovesFrom(remove[<<r, x>>], r, x)
          /\ r # Nil => RemovesFrom(remove[<<r, FindMin(r).st>>], r, FindMin(r).st)
      <4>1. /\ <<l, x>> \in S /\ <<r, x>> \in S
            /\ r # Nil => <<r, FindMin(r).st>> \in S
        BY <1>5, <2>3
      <4>2. <<l, x>> \in Below(q) /\ <<r, x>> \in Below(q) /\ <<r, FindMin(r).st>> \in Below(q)
        OBVIOUS
      <4> HIDE DEF Below, l, r, x, G
      <4> QED
        BY <3>4, <4>1, <4>2
    <3> HIDE DEF G, Below
    <3>6. CASE x < m.st
      <4> DEFINE new == remove[<<l, x>>]
      <4>1. remove[q] = Rebalance(m, new, r)
        BY <2>1, <2>3, <3>6
      <4>2. /\ AVL(new) /\ SlotsIn(new) = {s \in SlotsIn(l) : s.st # x}
            /\ new.height \in {l.height - 1, l.height}
        BY <3>5 DEF RemovesFrom
      <4> HIDE DEF new, l, r, m, x, Value
      <4>3. AllBefore(SlotsIn(new), m.st) /\ new.height - r.height \in -2 .. 2
        BY <3>1, <3>2, <4>2 DEF AllBefore
      <4>4. RebalancesTo(remove[q], m, new, r)
        BY <3>1, <3>2, <4>1, <4>2, <4>3, RebalanceIs
      <4>5. remove[q].height \in {m.height - 1, m.height}
        <5>1. /\ remove[q].height \in {Latest(new.height, r.height), 1 + Latest(new.height, r.height)}
              /\ new.height - r.height \in -1 .. 1 => remove[q].height = 1 + Latest(new.height, r.height)
          BY <4>4 DEF RebalancesTo
        <5>2. new.height \in Nat
          BY <4>2, AVLFacts
        <5> QED
          BY <3>1, <3>2, <4>2, <5>1, <5>2 DEF Latest
      <4>6. SlotsIn(remove[q]) = {s \in SlotsIn(m) : s.st # x}
        <5>1. SlotsIn(remove[q]) = {SlotOf(m)} \cup SlotsIn(new) \cup SlotsIn(r)
          BY <4>4 DEF RebalancesTo
        <5>2. \A s \in SlotsIn(r) \cup {SlotOf(m)} : s.st # x
          BY <2>0, <3>1, <3>2, <3>3, <3>6 DEF AllAfter
        <5> QED
          BY <3>1, <4>2, <5>1, <5>2
      <4> QED
        BY <4>4, <4>5, <4>6 DEF RemovesFrom, RebalancesTo, m, x
    <3>7. CASE x > m.st
      <4> DEFINE new == remove[<<r, x>>]
      <4>1. remove[q] = Rebalance(m, l, new)
        BY <2>0, <2>1, <2>3, <3>3, <3>7
      <4>2. /\ AVL(new) /\ SlotsIn(new) = {s \in SlotsIn(r) : s.st # x}
            /\ new.height \in {r.height - 1, r.height}
        BY <3>5 DEF RemovesFrom
      <4> HIDE DEF new, l, r, m, x, Value
      <4>3. AllAfter(SlotsIn(new), m.st) /\ l.height - new.height \in -2 .. 2
        BY <3>1, <3>2, <4>2 DEF AllAfter
      <4>4. RebalancesTo(remove[q], m, l, new)
        BY <3>1, <3>2, <4>1, <4>2, <4>3, RebalanceIs
      <4>5. remove[q].height \in {m.height - 1, m.height}
        <5>1. /\ remove[q].height \in {Latest(l.height, new.height), 1 + Latest(l.height, new.height)}
              /\ l.height - new.height \in -1 .. 1 => remove[q].height = 1 + Latest(l.height, new.height)
          BY <4>4 DEF RebalancesTo
        <5>2. new.height \in Nat
          BY <4>2, AVLFacts
        <5> QED
          BY <3>1, <3>2, <4>2, <5>1, <5>2 DEF Latest
      <4>6. SlotsIn(remove[q]) = {s \in SlotsIn(m) : s.st # x}
        <5>1. SlotsIn(remove[q]) = {SlotOf(m)} \cup SlotsIn(l) \cup SlotsIn(new)
          BY <4>4 DEF RebalancesTo
        <5>2. \A s \in SlotsIn(l) \cup {SlotOf(m)} : s.st # x
          BY <2>0, <3>1, <3>2, <3>3, <3>7 DEF AllBefore
        <5> QED
          BY <3>1, <4>2, <5>1, <5>2
      <4> QED
        BY <4>4, <4>5, <4>6 DEF RemovesFrom, RebalancesTo, m, x
    <3>8. CASE x = m.st
      <4>1. {s \in SlotsIn(m) : s.st # x} = SlotsIn(l) \cup SlotsIn(r)
        <5>1. \A s \in SlotsIn(l) \cup SlotsIn(r) : s.st # x
          BY <3>1, <3>2, <3>3, <3>8 DEF AllBefore, AllAfter
        <5> HIDE DEF l, r, m, x
        <5> QED
          BY <3>1, <3>3, <3>8, <5>1
      <4>2. CASE l = Nil
        <5>1. remove[q] = r
          BY <2>1, <2>3, <3>3, <3>8, <4>2
        <5>2. SlotsIn(l) = {} /\ l.height = 0
          BY <4>2, NilTree
        <5>3. r.height \in {m.height - 1, m.height}
          BY <3>1, <3>2, <5>2 DEF Latest
        <5> HIDE DEF l, r, Value
        <5> QED
          BY <3>1, <4>1, <5>1, <5>2, <5>3 DEF RemovesFrom
      <4>3. CASE l # Nil /\ r = Nil
        <5>1. remove[q] = l
          BY <2>1, <2>3, <3>3, <3>8, <4>3
        <5>2. SlotsIn(r) = {} /\ r.height = 0
          BY <4>3, NilTree
        <5>3. l.height \in {m.height - 1, m.height}
          BY <3>1, <3>2, <5>2 DEF Latest
        <5> HIDE DEF l, r, Value
        <5> QED
          BY <3>1, <4>1, <5>1, <5>2, <5>3 DEF RemovesFrom
      <4>4. CASE l # Nil /\ r # Nil
        <5> DEFINE min == FindMin(r)
                   new == remove[<<r, min.st>>]
        <5>1. remove[q] = Rebalance(min, l, new)
          BY <2>1, <2>3, <3>3, <3>8, <4>4
        <5>2. /\ AVL(new) /\ SlotsIn(new) = {s \in SlotsIn(r) : s.st # min.st}
              /\ new.height \in {r.height - 1, r.height}
          BY <3>5, <4>4 DEF RemovesFrom
        <5>3. /\ min \in Nodes(r) \ {Nil} /\ \A s \in SlotsIn(r) : min.st <= s.st
          BY <3>1, <4>4, FindMinIs
        <5>4. SlotOf(min) \in SlotsIn(r) /\ IsSlot(min) /\ SlotOf(min).st = min.st
          BY <3>1, <5>3, AVLFacts DEF SlotOf
        <5>5. \A s \in SlotsIn(r) : s.st = min.st => s = SlotOf(min)
          BY <3>1, <5>4, AVLUnique
        <5>6. {SlotOf(min)} \cup SlotsIn(new) = SlotsIn(r)
          <6> HIDE DEF new, r, min
          <6> QED
            BY <5>2, <5>4, <5>5
        <5>7. m.st < min.st /\ min.st \in Nat
          BY <3>2, <3>3, <5>4 DEF AllAfter, IsSlot
        <5>8. AllBefore(SlotsIn(l), min.st)
          <6>1. \A s \in SlotsIn(l) : IsSlot(s)
            BY <3>1, AVLFacts
          <6> HIDE DEF l, m, min
          <6> QED
            BY <3>2, <3>3, <5>7, <6>1, OrderTransitive
        <5>9. AllAfter(SlotsIn(new), min.st)
          <6>1. \A s \in SlotsIn(r) : s.st \in Nat
            BY <3>1, <3>3
          <6> HIDE DEF new, min
          <6> QED
            BY <5>2, <5>3, <5>7, <6>1 DEF AllAfter
        <5> HIDE DEF new, min, l, r, m, x, Value
        <5>10. l.height - new.height \in -2 .. 2
          BY <3>1, <3>2, <5>2
        <5>11. RebalancesTo(remove[q], min, l, new)
          BY <3>1, <5>1, <5>2, <5>4, <5>8, <5>9, <5>10, RebalanceIs
        <5>12. remove[q].height \in {m.height - 1, m.height}
          <6>1. /\ remove[q].height \in {Latest(l.height, new.height), 1 + Latest(l.height, new.height)}
                /\ l.height - new.height \in -1 .. 1 => remove[q].height = 1 + Latest(l.height, new.height)
            BY <5>11 DEF RebalancesTo
          <6>2. new.height \in Nat
            BY <5>2, AVLFacts
          <6> QED
            BY <3>1, <3>2, <5>2, <6>1, <6>2 DEF Latest
        <5>13. SlotsIn(remove[q]) = {s \in SlotsIn(m) : s.st # x}
          <6>1. SlotsIn(remove[q]) = {SlotOf(min)} \cup SlotsIn(l) \cup SlotsIn(new)
            BY <5>11 DEF RebalancesTo
          <6> QED
            BY <4>1, <5>6, <6>1
        <5> QED
          BY <5>11, <5>12, <5>13 DEF RemovesFrom, RebalancesTo, m, x
      <4> QED
        BY <4>2, <4>3, <4>4
    <3> HIDE DEF m, x
    <3> QED
      BY <2>0, <3>3, <3>6, <3>7, <3>8
  <2> QED
    BY <2>2, <2>3
<1>13. S \subseteq G
  <2>1. \A q \in S : (\A k \in S : h[k] < h[q] => k \in G) => q \in G
    BY <1>12
  <2> HIDE DEF G
  <2> QED
    BY <1>4, <2>1, MeasureInduction
<1>14. <<n, st>> \in S
  BY <1>2 DEF S
<1> QED
  BY <1>1, <1>13, <1>14

(***************************************************************************)
(* The two trees together.                                                 *)
(***************************************************************************)

(* The trees b and t hold the slots Z; t may be wrong at y.                *)
MatchBut(b, t, Z, y) ==
    /\ AVL(b) /\ SlotsIn(b) = Z
    /\ t \in SegTrees
    /\ \A s \in Z : s.st # y => Leaf(t, s.st) = s.length
    /\ \A x \in Instants : x # y /\ (\A s \in Z : s.st # x) => Leaf(t, x) = 0

Match(b, t, Z) ==
    /\ AVL(b) /\ SlotsIn(b) = Z
    /\ t \in SegTrees
    /\ \A s \in Z : Leaf(t, s.st) = s.length
    /\ \A x \in Instants : (\A s \in Z : s.st # x) => Leaf(t, x) = 0

(* Slots as SlotsAreGaps and Room have them.                               *)
Apart(Z) ==
    /\ Z \subseteq Slots
    /\ \A s \in Z : s.st + s.length <= Horizon(graph)
    /\ \A s, r \in Z : s # r => s.st + s.length < r.st \/ r.st + r.length < s.st

(* Without trees there is nothing to hold.                                 *)
LEMMA EmptyMatch ==
    ASSUME Horizon(graph) \in Nat
    PROVE  Match(Nil, <<>>, {})
<1>1. \A iv : SegMax(<<>>, iv) = 0
  BY DEF SegMax
<1>2. <<>> \in [{} -> Nat] /\ {} \in SUBSET Intervals
  OBVIOUS
<1>3. <<>> \in SegTrees
  <2> DEFINE t == <<>>
             Maps == {[A -> Nat] : A \in SUBSET Intervals}
  <2>1. [{} -> Nat] \in Maps
    BY <1>2
  <2>2. t \in UNION Maps
    BY <1>2, <2>1
  <2>3. \A iv \in TreeNodes : SegMax(t, iv) = Latest(SegMax(t, LeftOf(iv)), SegMax(t, RightOf(iv)))
    BY <1>1 DEF Latest
  <2> HIDE DEF t
  <2>4. t \in SegTrees
    BY <2>2, <2>3 DEF SegTrees
  <2> QED
    BY <2>4 DEF t
<1>4. \A x : Leaf(<<>>, x) = 0
  BY <1>1 DEF Leaf
<1> QED
  BY <1>3, <1>4, AVLNil, NilTree DEF Match

(* AddSlot, where no slot starts: one of no length goes into the segment   *)
(* tree alone.                                                             *)
LEMMA AddSlotIs ==
    ASSUME Horizon(graph) \in Nat, NEW sm, NEW Z, NEW s, s \in Slots, s.st \in Instants,
           MatchBut(sm.bst, sm.segt, Z, s.st), \A r \in Z : r.st # s.st
    PROVE  /\ Match(AddSlot(sm, s).bst, AddSlot(sm, s).segt, Z \cup NonEmpty({s}))
           /\ AddSlot(sm, s) = [bst |-> AddSlot(sm, s).bst, segt |-> AddSlot(sm, s).segt]
<1> DEFINE b == AddSlot(sm, s).bst
           t == AddSlot(sm, s).segt
           Y == Z \cup NonEmpty({s})
<1>1. /\ b = IF s.length # 0 THEN AddNode(sm.bst, s) ELSE sm.bst
      /\ t = Modify(sm.segt, s.st, s.length)
      /\ AddSlot(sm, s) = [bst |-> b, segt |-> t]
  BY DEF AddSlot
<1>2. AVL(sm.bst) /\ SlotsIn(sm.bst) = Z /\ sm.segt \in SegTrees
  BY DEF MatchBut
<1>3. s = SlotOf(s) /\ IsSlot(s) /\ s.length \in Nat
  BY DEF Slots, SlotOf, IsSlot
<1>4. Y = IF s.length # 0 THEN {s} \cup Z ELSE Z
  BY DEF NonEmpty
<1>5. /\ t \in SegTrees
      /\ \A y \in Instants : Leaf(t, y) = IF y = s.st THEN s.length ELSE Leaf(sm.segt, y)
  BY <1>1, <1>2, <1>3, ModifyIs
<1> HIDE DEF b, t, Y
<1>6. AVL(b) /\ SlotsIn(b) = Y
  <2>1. CASE s.length # 0
    <3>1. AddsTo(AddNode(sm.bst, s), sm.bst, s)
      BY <1>2, <1>3, AddNodeIs
    <3> QED
      BY <1>1, <1>2, <1>3, <1>4, <2>1, <3>1 DEF AddsTo
  <2>2. CASE s.length = 0
    BY <1>1, <1>2, <1>4, <2>2
  <2> QED
    BY <2>1, <2>2
<1>7. ASSUME NEW r \in Y PROVE Leaf(t, r.st) = r.length
  <2>1. CASE r = s
    BY <1>5, <2>1
  <2>2. CASE r # s
    <3>1. r \in Z /\ r.st # s.st
      BY <1>4, <1>7, <2>2
    <3>2. Leaf(sm.segt, r.st) = r.length
      BY <3>1 DEF MatchBut
    <3>3. CASE r.st \in Instants
      BY <1>5, <3>1, <3>2, <3>3
    <3>4. CASE r.st \notin Instants
      <4>1. PICK A \in SUBSET Intervals : sm.segt \in [A -> Nat]
        BY <1>2 DEF SegTrees
      <4>2. PICK B \in SUBSET Intervals : t \in [B -> Nat]
        BY <1>5 DEF SegTrees
      <4>3. <<r.st, r.st>> \notin Intervals
        BY <3>4 DEF Intervals, Instants
      <4> QED
        BY <3>2, <4>1, <4>2, <4>3 DEF Leaf, SegMax
    <3> QED
      BY <3>3, <3>4
  <2> QED
    BY <2>1, <2>2
<1>8. ASSUME NEW x \in Instants, \A r \in Y : r.st # x PROVE Leaf(t, x) = 0
  <2>1. CASE x = s.st
    BY <1>4, <1>5, <1>8, <2>1
  <2>2. CASE x # s.st
    <3>1. \A r \in Z : r.st # x
      BY <1>4, <1>8
    <3>2. Leaf(sm.segt, x) = 0
      BY <2>2, <3>1 DEF MatchBut
    <3> QED
      BY <1>5, <2>2, <3>2
  <2> QED
    BY <2>1, <2>2
<1>9. Match(b, t, Y)
  BY <1>5, <1>6, <1>7, <1>8 DEF Match
<1> QED
  BY <1>1, <1>9 DEF b, t, Y

(* A new processor's trees.                                                *)
LEMMA NewTreesMatch ==
    ASSUME Horizon(graph) \in Nat
    PROVE  Match(NewSlotsMaintainer.bst, NewSlotsMaintainer.segt, NewProcessor(graph))
<1> DEFINE s == [st |-> 0, length |-> Horizon(graph)]
           b == AddNode(Nil, s)
           t == Modify(<<>>, 0, Horizon(graph))
<1>1. Match(Nil, <<>>, {})
  BY EmptyMatch
<1>2. s.st = 0 /\ s.length = Horizon(graph) /\ s = SlotOf(s) /\ IsSlot(s) /\ 0 \in Instants
  BY DEF SlotOf, IsSlot, Instants
<1>3. NewSlotsMaintainer.bst = b /\ NewSlotsMaintainer.segt = t /\ NewProcessor(graph) = {s}
  BY DEF NewSlotsMaintainer, NewProcessor
<1>4. AddsTo(b, Nil, s)
  <2> HIDE DEF s
  <2>1. AVL(Nil) /\ SlotsIn(Nil) = {}
    BY AVLNil, NilTree
  <2> QED
    BY <1>2, <2>1, AddNodeIs
<1>5. /\ t \in SegTrees
      /\ \A y \in Instants : Leaf(t, y) = IF y = 0 THEN Horizon(graph) ELSE Leaf(<<>>, y)
  BY <1>1, <1>2, ModifyIs DEF Match
<1> HIDE DEF s, b, t
<1>6. AVL(b) /\ SlotsIn(b) = {s}
  BY <1>2, <1>4, NilTree DEF AddsTo
<1>7. Match(b, t, {s})
  BY <1>1, <1>2, <1>5, <1>6 DEF Match
<1> QED
  BY <1>3, <1>7

(* AddTask takes the task's time out of a slot.                            *)
LEMMA AddTaskIs ==
    ASSUME Horizon(graph) \in Nat, NEW b, NEW t, NEW Z, Match(b, t, Z), Apart(Z),
           NEW s \in Z, NEW a \in Nat, NEW e \in Nat,
           s.st <= a, a < e, e <= s.st + s.length
    PROVE  LET new == AddTask([bst |-> b, segt |-> t], s, a, e)
           IN  Match(new.bst, new.segt, (Z \ {s}) \cup NonEmpty(Cut(s, a, e)))
<1> DEFINE sm == [bst |-> b, segt |-> t]
           head == [st |-> s.st, length |-> a - s.st]
           tail == [st |-> e, length |-> s.st + s.length - e]
           gone == [bst |-> RemoveNode(b, s.st), segt |-> t]
           cut == AddSlot(gone, head)
           Y == Z \ {s}
           X == Y \cup NonEmpty({head})
<1>1. /\ AVL(b) /\ SlotsIn(b) = Z /\ t \in SegTrees
      /\ \A r \in Z : Leaf(t, r.st) = r.length
      /\ \A x \in Instants : (\A r \in Z : r.st # x) => Leaf(t, x) = 0
  BY DEF Match
<1>2. s.st \in Nat /\ s.length \in Nat /\ s.st + s.length <= Horizon(graph)
  BY DEF Apart, Slots
<1>3. head \in Slots /\ tail \in Slots /\ head.st = s.st /\ tail.st = e
  BY <1>2 DEF Slots
<1>4. s.st \in Instants /\ e \in Instants
  BY <1>2 DEF Instants
<1>5. AddTask(sm, s, a, e) = AddSlot(cut, tail)
  <2>1. [sm EXCEPT !.bst = RemoveNode(@, head.st)] = gone
    BY <1>3
  <2>2. ModifySlot(sm, head) = cut
    BY <2>1 DEF ModifySlot
  <2> QED
    BY <2>2 DEF AddTask
<1>6. NonEmpty(Cut(s, a, e)) = NonEmpty({head}) \cup NonEmpty({tail})
  BY DEF NonEmpty, Cut
<1> HIDE DEF sm, head, tail
<1>7. \A r \in Y : r \in Slots /\ r.st \in Nat /\ r.length \in Nat /\ r.st # s.st /\ r.st # e
  <2> SUFFICES ASSUME NEW r \in Y
               PROVE  r \in Slots /\ r.st \in Nat /\ r.length \in Nat /\ r.st # s.st /\ r.st # e
    OBVIOUS
  <2>1. r \in Slots /\ r.st \in Nat /\ r.length \in Nat
    BY DEF Apart, Slots
  <2>2. s.st + s.length < r.st \/ r.st + r.length < s.st
    BY DEF Apart
  <2> QED
    BY <1>2, <2>1, <2>2
<1>8. MatchBut(gone.bst, gone.segt, Y, head.st)
  <2>1. RemovesFrom(gone.bst, b, s.st)
    BY <1>1, <1>2, RemoveNodeIs
  <2>2. gone.segt = t
    OBVIOUS
  <2> HIDE DEF gone
  <2>3. {r \in Z : r.st # s.st} = Y
    BY <1>7
  <2>4. AVL(gone.bst) /\ SlotsIn(gone.bst) = Y
    BY <1>1, <2>1, <2>3 DEF RemovesFrom
  <2>5. ASSUME NEW x \in Instants, x # s.st, \A r \in Y : r.st # x PROVE Leaf(t, x) = 0
    BY <1>1, <2>5
  <2> QED
    BY <1>1, <1>3, <2>2, <2>4, <2>5 DEF MatchBut
<1> HIDE DEF gone
<1>9. Match(cut.bst, cut.segt, X)
  <2>1. \A r \in Y : r.st # head.st
    BY <1>3, <1>7
  <2> HIDE DEF Y
  <2> QED
    BY <1>3, <1>4, <1>8, <2>1, AddSlotIs
<1> HIDE DEF cut
<1>10. MatchBut(cut.bst, cut.segt, X, tail.st)
  BY <1>9 DEF Match, MatchBut
<1>11. \A r \in X : r.st # tail.st
  <2>1. \A r \in NonEmpty({head}) : r = head
    BY DEF NonEmpty
  <2>2. s.st # e
    BY <1>2
  <2> QED
    BY <1>3, <1>7, <2>1, <2>2
<1>12. Match(AddSlot(cut, tail).bst, AddSlot(cut, tail).segt, X \cup NonEmpty({tail}))
  <2> HIDE DEF X
  <2> QED
    BY <1>3, <1>4, <1>10, <1>11, AddSlotIs
<1>13. X \cup NonEmpty({tail}) = Y \cup NonEmpty(Cut(s, a, e))
  BY <1>6
<1>14. Match(AddTask(sm, s, a, e).bst, AddTask(sm, s, a, e).segt, Y \cup NonEmpty(Cut(s, a, e)))
  BY <1>5, <1>12, <1>13
<1> QED
  BY <1>14 DEF sm

(* findSlot in the trees, and in the set of slots that they hold.          *)
LEMMA FindAgrees ==
    ASSUME Horizon(graph) \in Nat, NEW p \in Procs, Match(bst[p], segt[p], slots[p]),
           Apart(slots[p]), NEW x \in Nat, x <= Horizon(graph), NEW c \in Nat, c > 0
    PROVE  FindInTrees(p, x, c) = FindSlot(p, x, c)
<1> DEFINE Z == slots[p]
           b == bst[p]
           t == segt[p]
           f == FindMaxLessThan(b, x)
           later == {s \in Z : s.st >= x /\ s.length >= c}
           first == {s \in later : \A r \in later : s.st <= r.st}
           Ys == LongEnough(t, x, Horizon(graph), c)
           query == Query(t, x, Horizon(graph), c)
<1>1. /\ AVL(b) /\ SlotsIn(b) = Z /\ t \in SegTrees
      /\ \A r \in Z : Leaf(t, r.st) = r.length
      /\ \A y \in Instants : (\A r \in Z : r.st # y) => Leaf(t, y) = 0
  BY DEF Match
<1>2. \A r \in Z : /\ r \in Slots /\ r.st \in Nat /\ r.length \in Nat
                   /\ r.st <= Horizon(graph) /\ r = SlotOf(r)
  BY DEF Apart, Slots, SlotOf
<1>3. query = FirstOf(t, Ys)
  BY <1>1, QueryIs DEF Earliest
<1>4. Ys = {r.st : r \in later}
  <2>1. ASSUME NEW y \in Ys PROVE \E r \in later : y = r.st
    <3>1. y \in Instants /\ y >= x /\ Leaf(t, y) >= c
      BY DEF LongEnough, Instants
    <3>2. PICK r \in Z : r.st = y
      BY <1>1, <3>1
    <3>3. r.length >= c
      BY <1>1, <3>1, <3>2
    <3> QED
      BY <3>1, <3>2, <3>3
  <2>2. ASSUME NEW r \in later PROVE r.st \in Ys
    <3>1. r \in Z /\ r.st >= x /\ r.length >= c
      OBVIOUS
    <3>2. Leaf(t, r.st) >= c /\ r.st \in x .. Horizon(graph)
      BY <1>1, <1>2, <3>1
    <3> QED
      BY <3>2 DEF LongEnough
  <2> HIDE DEF Ys, later
  <2> QED
    BY <2>1, <2>2
<1>5. FirstOf(t, Ys) = first
  <2> DEFINE At(y) == [st |-> y, length |-> Leaf(t, y)]
             ys == {z \in Ys : \A w \in Ys : z <= w}
  <2>1. \A r \in Z : At(r.st) = r
    <3>1. \A r \in Z : r = [st |-> r.st, length |-> r.length]
      BY <1>2 DEF SlotOf
    <3> QED
      BY <1>1, <3>1
  <2>2. later \subseteq Z
    OBVIOUS
  <2>3. FirstOf(t, Ys) = {At(y) : y \in ys}
    BY DEF FirstOf
  <2> HIDE DEF later, Ys, Z, At
  <2>4. ys = {r.st : r \in first}
    BY <1>4
  <2>5. \A r \in first : r \in Z
    BY <2>2
  <2> HIDE DEF ys, first
  <2>6. {At(y) : y \in ys} = first
    BY <2>1, <2>4, <2>5
  <2> QED
    BY <2>3, <2>6
<1>6. LastUpTo(f, b, x)
  BY <1>1, FindMaxLessThanIs
<1>7. CASE f = Nil
  <2>1. SlotAt(p, x) = {}
    BY <1>1, <1>2, <1>6, <1>7 DEF LastUpTo, AllAfter, SlotAt
  <2>2. FindSlot(p, x, c) = first
    BY <2>1 DEF FindSlot
  <2>3. FindInTrees(p, x, c) = query
    BY <1>7 DEF FindInTrees
  <2> HIDE DEF query, first, Ys
  <2> QED
    BY <1>3, <1>5, <2>2, <2>3
<1>8. CASE f # Nil
  <2>1. /\ f \in Nodes(b) \ {Nil} /\ f.st <= x
        /\ \A r \in Z : r.st <= x => r.st <= f.st
    BY <1>1, <1>6, <1>8 DEF LastUpTo
  <2> DEFINE s == SlotOf(f)
  <2>2. s = [st |-> f.st, length |-> f.length] /\ s.st = f.st /\ s.length = f.length
    BY DEF SlotOf
  <2>3. s \in Z
    BY <1>1, <2>1, AVLFacts
  <2> HIDE DEF s, f
  <2>4. SlotAt(p, x) = {s}
    <3>1. ASSUME NEW r \in SlotAt(p, x) PROVE r = s
      <4>1. r \in Z /\ r.st <= x /\ \A q \in Z : q.st <= x => q.st <= r.st
        BY DEF SlotAt
      <4>2. r.st = s.st
        <5>1. r.st <= s.st /\ s.st <= r.st
          BY <2>1, <2>2, <2>3, <4>1
        <5> QED
          BY <1>2, <2>3, <4>1, <5>1
      <4> QED
        BY <1>1, <2>3, <4>1, <4>2, AVLUnique
    <3>2. s \in SlotAt(p, x)
      BY <2>1, <2>2, <2>3 DEF SlotAt
    <3> QED
      BY <3>1, <3>2
  <2>5. FindSlot(p, x, c) = IF s.st + s.length >= x + c THEN {s} ELSE first
    <3>1. {r \in SlotAt(p, x) : r.st + r.length >= x + c} =
            IF s.st + s.length >= x + c THEN {s} ELSE {}
      BY <2>4
    <3> QED
      BY <3>1 DEF FindSlot
  <2>6. FindInTrees(p, x, c) = IF s.st + s.length >= x + c THEN {s} ELSE query
    BY <1>8, <2>2 DEF FindInTrees, f
  <2> HIDE DEF query, first, Ys
  <2> QED
    BY <1>3, <1>5, <2>5, <2>6
<1> QED
  BY <1>7, <1>8

(* There is one slot to be found at most.                                  *)
LEMMA OneFound ==
    ASSUME NEW p \in Procs, NEW x, NEW c, Apart(slots[p]),
           NEW s \in FindSlot(p, x, c), NEW r \in FindSlot(p, x, c)
    PROVE  s = r
<1>1. s \in slots[p] /\ r \in slots[p] /\ s.st <= r.st /\ r.st <= s.st
  BY DEF FindSlot, SlotAt
<1>2. s.st \in Nat /\ r.st \in Nat /\ s.length \in Nat /\ r.length \in Nat
  BY <1>1 DEF Apart, Slots
<1> QED
  BY <1>1, <1>2 DEF Apart

(* The trees of every processor hold its slots.                            *)
TreesMatch ==
    /\ DOMAIN bst = Procs /\ DOMAIN segt = Procs
    /\ \A p \in Procs : Match(bst[p], segt[p], slots[p])

LEMMA PlanApart ==
    ASSUME PlanInv PROVE Horizon(graph) \in Nat /\ \A p \in Procs : Apart(slots[p])
<1>1. Horizon(graph) \in Nat
  BY GraphFacts DEF PlanInv, SchedulerInv, Horizon
<1>2. ASSUME NEW p \in Procs PROVE Apart(slots[p])
  <2>1. slots[p] \subseteq Slots
    BY DEF PlanInv, SchedulerInv, TypeOK
  <2>2. \A s \in slots[p] : s.st + s.length <= Horizon(graph)
    BY DEF PlanInv, Room
  <2>3. \A s, r \in slots[p] : s # r => s.st + s.length < r.st \/ r.st + r.length < s.st
    BY DEF PlanInv, SlotsAreGaps
  <2> QED
    BY <2>1, <2>2, <2>3 DEF Apart
<1> QED
  BY <1>1, <1>2

LEMMA NewMatch ==
    ASSUME graph \in Graphs, FreshTrees, slots = [p \in Procs |-> NewProcessor(graph)]
    PROVE  TreesMatch
<1>1. Horizon(graph) \in Nat
  BY GraphFacts DEF Horizon
<1>2. Match(NewSlotsMaintainer.bst, NewSlotsMaintainer.segt, NewProcessor(graph))
  BY <1>1, NewTreesMatch
<1> QED
  BY <1>2 DEF TreesMatch, FreshTrees

(* The segment tree's shape is the graph's, which does not change.         *)
LEMMA MatchStays ==
    ASSUME graph' = graph, NEW b, NEW t, NEW Z
    PROVE  Match(b, t, Z)' <=> Match(b, t, Z)
<1>1. Intervals' = Intervals /\ Instants' = Instants
  BY DEF Intervals, Instants, Horizon
<1>2. \A x : PathTo(x)' = PathTo(x)
  BY <1>1 DEF PathTo, Root, Horizon
<1>3. TreeNodes' = TreeNodes
  BY <1>1, <1>2 DEF TreeNodes
<1>4. SegTrees' = SegTrees
  BY <1>1, <1>3 DEF SegTrees
<1> QED
  BY <1>1, <1>4 DEF Match

SMInv == PlanInv /\ TreesMatch

(* A step beside the trees is one of the scheduler.                        *)
LEMMA StepIsStep == ASSUME [SMNext]_smVars PROVE [Next]_vars
<1>1. ASSUME SMNext PROVE Next
  <2>1. CASE Chosen /\ UNCHANGED <<bst, segt>>
    BY <2>1 DEF Next
  <2>2. CASE SMKeepBetter
    BY <2>2 DEF SMKeepBetter, Next, Step
  <2>3. ASSUME NEW n \in Vertices, SMPass(n) PROVE Next
    BY <2>3 DEF SMPass, Next, Step
  <2>4. ASSUME NEW n \in Vertices, SMPlace(n) PROVE Next
    BY <2>4 DEF SMPlace, Next, Step
  <2> QED
    BY <1>1, <2>1, <2>2, <2>3, <2>4 DEF SMNext, SMStep
<1> QED
  BY <1>1 DEF smVars

(* The trees of a new processor do not change either.                      *)
LEMMA NewStays ==
    ASSUME graph' = graph PROVE NewSlotsMaintainer' = NewSlotsMaintainer
<1>1. Intervals' = Intervals
  BY DEF Intervals, Horizon
<1>2. \A x : PathTo(x)' = PathTo(x)
  BY <1>1 DEF PathTo, Root, Horizon
<1> DEFINE Modified(S, path, t, val) ==
               LET max[iv \in S] ==
                     IF iv \notin path THEN SegMax(t, iv)
                     ELSE IF IsLeaf(iv) THEN val
                     ELSE Latest(max[LeftOf(iv)], max[RightOf(iv)])
               IN  [iv \in DOMAIN t \cup path |-> max[iv]]
<1>3. ASSUME NEW val
      PROVE  Modify(<<>>, 0, val)' = Modify(<<>>, 0, val)
  <2>1. /\ Modify(<<>>, 0, val) = Modified(Intervals, PathTo(0), <<>>, val)
        /\ Modify(<<>>, 0, val)' = Modified(Intervals', PathTo(0)', <<>>, val)
    BY DEF Modify
  <2> HIDE DEF Modified
  <2> QED
    BY <1>1, <1>2, <2>1
<1> QED
  BY <1>3 DEF NewSlotsMaintainer, Horizon

(* Nothing changes.                                                        *)
LEMMA TreesStay ==
    ASSUME TreesMatch, UNCHANGED <<graph, slots, bst, segt>>
    PROVE  TreesMatch'
<1>1. ASSUME NEW p \in Procs PROVE Match(bst[p], segt[p], slots[p])'
  <2>1. Match(bst[p], segt[p], slots[p])
    BY DEF TreesMatch
  <2> DEFINE b == bst[p]
             t == segt[p]
             Z == slots[p]
  <2>2. bst[p]' = b /\ segt[p]' = t /\ slots[p]' = Z
    OBVIOUS
  <2> QED
    BY <2>1, <2>2, MatchStays
<1> QED
  BY <1>1 DEF TreesMatch

(* PlaceTask gives the trees the slots it gives the processor: the slot    *)
(* found in the trees is the one that was chosen.                          *)
LEMMA PlaceMatch ==
    ASSUME PlanInv, TreesMatch, NEW n \in Vertices, SMPlace(n)
    PROVE  TreesMatch'
<1>1. PlaceTask(n) /\ SchedulerInv
  BY DEF SMPlace, PlanInv
<1> DEFINE Taken(p, s, a, e) ==
               /\ Best(n, p, s)
               /\ e = EFTin(s, est[n], graph.cost[n]) /\ e = a + graph.cost[n]
               /\ est[n] <= a /\ a < e
               /\ s \in Slots /\ s.st <= a /\ e <= s.st + s.length
               /\ eft' = [eft EXCEPT ![n] = e]
               /\ ast' = [ast EXCEPT ![n] = a]
               /\ est' = ESTAfter(n, e)
               /\ proc' = [proc EXCEPT ![n] = p]
               /\ slots' = [slots EXCEPT ![p] = (slots[p] \ {s}) \cup NonEmpty(Cut(s, a, e))]
<1>2. /\ n \in Tasks
      /\ graph' = graph
      /\ \E p \in Procs : \E s \in slots[p] : \E a, e \in Nat : Taken(p, s, a, e)
  BY <1>1, PlaceTaskStep
<1>21. PICK p \in Procs : \E s \in slots[p] : \E a, e \in Nat : Taken(p, s, a, e)
  BY <1>2
<1>22. PICK s \in slots[p] : \E a, e \in Nat : Taken(p, s, a, e)
  BY <1>21
<1>3. PICK a \in Nat, e \in Nat : Taken(p, s, a, e)
  BY <1>22
<1>4. TypeOK /\ graph \in Graphs
  BY <1>1 DEF SchedulerInv
<1>5. proc'[n] = p /\ ast'[n] = a /\ eft'[n] = e
  BY <1>3, <1>4 DEF TypeOK
<1> DEFINE c == graph.cost[n]
           sm == [bst |-> bst[p], segt |-> segt[p]]
           new == AddTask(sm, s, a, e)
<1>6. PICK r \in FindInTrees(p, est[n], c) :
        /\ bst' = [bst EXCEPT ![p] = AddTask(sm, r, a, e).bst]
        /\ segt' = [segt EXCEPT ![p] = AddTask(sm, r, a, e).segt]
  BY <1>5 DEF SMPlace
<1>7. /\ Horizon(graph) \in Nat /\ Apart(slots[p]) /\ Match(bst[p], segt[p], slots[p])
  BY PlanApart DEF TreesMatch
<1>8. r = s
  <2>1. c \in Nat /\ c > 0 /\ est[n] \in Nat
    BY <1>2, <1>4, TaskCosts DEF TypeOK
  <2>2. est[n] <= Horizon(graph)
    <3>1. s.st \in Nat /\ s.length \in Nat /\ s.st + s.length <= Horizon(graph)
      BY <1>7 DEF Apart, Slots
    <3> QED
      BY <1>3, <1>7, <2>1, <3>1
  <2>3. FindInTrees(p, est[n], c) = FindSlot(p, est[n], c)
    BY <1>7, <2>1, <2>2, FindAgrees
  <2>4. s \in FindSlot(p, est[n], c)
    BY <1>3 DEF Best
  <2> QED
    BY <1>6, <1>7, <2>3, <2>4, OneFound
<1>9. Match(new.bst, new.segt, (slots[p] \ {s}) \cup NonEmpty(Cut(s, a, e)))
  BY <1>3, <1>7, AddTaskIs
<1>10. bst' = [bst EXCEPT ![p] = new.bst] /\ segt' = [segt EXCEPT ![p] = new.segt]
  BY <1>6, <1>8
<1>11. DOMAIN bst' = Procs /\ DOMAIN segt' = Procs /\ DOMAIN slots = Procs
  BY <1>4, <1>10 DEF TreesMatch, TypeOK
<1> HIDE DEF new, sm
<1>12. ASSUME NEW q \in Procs PROVE Match(bst'[q], segt'[q], slots'[q])
  <2>1. CASE q = p
    <3>1. /\ bst'[q] = new.bst /\ segt'[q] = new.segt
          /\ slots'[q] = (slots[p] \ {s}) \cup NonEmpty(Cut(s, a, e))
      BY <1>3, <1>10, <1>11, <2>1 DEF TreesMatch
    <3> QED
      BY <1>9, <3>1
  <2>2. CASE q # p
    <3>1. bst'[q] = bst[q] /\ segt'[q] = segt[q] /\ slots'[q] = slots[q]
      BY <1>3, <1>10, <1>11, <2>2 DEF TreesMatch
    <3>2. Match(bst[q], segt[q], slots[q])
      BY DEF TreesMatch
    <3> QED
      BY <3>1, <3>2
  <2> QED
    BY <2>1, <2>2
<1>13. ASSUME NEW q \in Procs PROVE Match(bst[q], segt[q], slots[q])'
  BY <1>2, <1>12, MatchStays
<1> QED
  BY <1>11, <1>13 DEF TreesMatch

(* The invariant, step by step.                                            *)
LEMMA SMInitInv == SMInit => TreesMatch
  BY NewMatch DEF SMInit, Init, Started

LEMMA SMNextInv == PlanInv /\ TreesMatch /\ [SMNext]_smVars => TreesMatch'
<1> SUFFICES ASSUME PlanInv, TreesMatch, [SMNext]_smVars PROVE TreesMatch'
  OBVIOUS
<1>1. CASE UNCHANGED smVars
  BY <1>1, TreesStay DEF smVars, vars
<1>2. CASE Chosen /\ UNCHANGED <<bst, segt>>
  BY <1>2, TreesStay DEF Chosen, vars
<1>3. CASE SMKeepBetter
  <2>0. graph' = graph /\ graph \in Graphs
    BY <1>3 DEF SMKeepBetter, KeepBetter, PlanInv, SchedulerInv
  <2>1. /\ (graph \in Graphs)' /\ FreshTrees'
        /\ (slots = [p \in Procs |-> NewProcessor(graph)])'
    <3>1. NewSlotsMaintainer' = NewSlotsMaintainer
      BY <2>0, NewStays
    <3>2. FreshTrees'
      BY <1>3, <3>1 DEF SMKeepBetter, FreshTrees
    <3> QED
      BY <1>3, <2>0, <3>2 DEF SMKeepBetter, KeepBetter
  <2> QED
    BY <2>1, NewMatch, PTL
<1>4. ASSUME NEW n \in Vertices, SMPass(n) PROVE TreesMatch'
  BY <1>4, TreesStay DEF SMPass, PassVertex
<1>5. ASSUME NEW n \in Vertices, SMPlace(n) PROVE TreesMatch'
  BY <1>5, PlaceMatch
<1> QED
  BY <1>1, <1>2, <1>3, <1>4, <1>5 DEF SMNext, SMStep

(* The trees are carried beside the scheduler: leaving them out of a       *)
(* behaviour of SlotsMaintainer leaves one of Scheduler, so that all that  *)
(* is proved of the schedulers holds of them with their trees.             *)
THEOREM TreesBesideScheduler == SMFairSpec => Spec
<1>1. SMInit => Init
  BY DEF SMInit
<1> QED
  BY <1>1, StepIsStep, PTL DEF SMFairSpec, Spec

(* In every state of the scheduler with its trees, the trees hold what the *)
(* set of slots has.                                                       *)
THEOREM SMInvCorrect == SMFairSpec => []SMInv
<1>1. SMFairSpec => [](PlanInv /\ TreesMatch)
  BY TreesBesideScheduler, PlanInvCorrect, SMInitInv, SMNextInv, PTL
     DEF SMFairSpec
<1> QED
  BY <1>1, PTL DEF SMInv

(* The AVL trees hold the slots in order and balanced.                     *)
LEMMA InvTreeHoldsSlots == ASSUME SMInv PROVE TreeHoldsSlots
<1> SUFFICES ASSUME NEW p \in Procs
             PROVE  /\ SlotsIn(bst[p]) = slots[p]
                    /\ \A n \in Nodes(bst[p]) \ {Nil} : InPlace(n)
  BY DEF TreeHoldsSlots, InPlace, AllBefore, AllAfter
<1> QED
  BY DEF SMInv, TreesMatch, Match, AVL

(* Through any sequence of placements, for any graph, costs and number of  *)
(* processors, the AVL tree (add, remove and their rotations) keeps the    *)
(* slots in order and balanced, and findSlot, which asks it and then the   *)
(* segment tree, gives the slot that the set of slots gives.               *)
THEOREM TreesFindTheSlotCorrect == SMFairSpec => []TreesFindTheSlot
<1>1. ASSUME SMInv PROVE TreesFindTheSlot
  <2>1. TreeHoldsSlots
    BY <1>1, InvTreeHoldsSlots
  <2>2. ASSUME NEW p \in Procs, NEW x \in 0 .. graph.span, NEW t \in Tasks
        PROVE  FindInTrees(p, x, graph.cost[t]) = FindSlot(p, x, graph.cost[t])
    <3>1. Horizon(graph) \in Nat /\ Apart(slots[p]) /\ Match(bst[p], segt[p], slots[p])
      BY <1>1, PlanApart DEF SMInv, TreesMatch
    <3>2. graph \in Graphs
      BY <1>1 DEF SMInv, PlanInv, SchedulerInv
    <3>3. graph.cost[t] \in Nat /\ graph.cost[t] > 0 /\ graph.span \in Nat
      BY <3>2, TaskCosts, GraphFacts
    <3>4. x \in Nat /\ x <= Horizon(graph)
      BY <3>3 DEF Horizon
    <3> QED
      BY <3>1, <3>3, <3>4, FindAgrees
  <2> QED
    BY <2>1, <2>2 DEF TreesFindTheSlot
<1> QED
  BY SMInvCorrect, <1>1, PTL
=============================================================================
