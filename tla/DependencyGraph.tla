-------------------------- MODULE DependencyGraph --------------------------
(***************************************************************************)
(* GraphLine turns what the tasks of a block read and write into the graph *)
(* that Schedule works on: GenerateGraph adds an edge from a writer to     *)
(* every later reader of a record, an entry and an end, and                *)
(* GenerateProperties computes the ranks along a topological order.        *)
(*                                                                         *)
(* Where the code ranges over a Go map the order is open and leaves no     *)
(* trace in the result; here it is that of a fold.  A topological order is *)
(* given by its levels, whose vertices getTopo appends in any order.       *)
(***************************************************************************)
EXTENDS Scheduler, SequencesExt

CONSTANT
    Accesses(_) \* the accesses (readBy, writeBy) that lead to a graph

(* Who reads and who writes each record of the block.                      *)
IsAccesses(acc) ==
    /\ IsFiniteSet(DOMAIN acc.writeBy)
    /\ \A k \in DOMAIN acc.writeBy :
          acc.writeBy[k] \subseteq Tasks /\ acc.readBy[k] \subseteq Tasks

(* A task depends on each earlier one that writes what it reads ...        *)
Dependences(acc) ==
    {e \in Tasks \X Tasks :
        /\ e[1] < e[2]
        /\ \E k \in DOMAIN acc.writeBy :
              e[1] \in acc.writeBy[k] /\ e[2] \in acc.readBy[k]}

(* ... and what depends on nothing follows the entry, what nothing depends *)
(* on precedes the end.                                                    *)
Joined(es) ==
    es \cup {<<Entry, t>> : t \in {t \in Tasks : ~\E e \in es : e[2] = t}}
       \cup {<<t, End>> : t \in {t \in Tasks : ~\E e \in es : e[1] = t}}

ASSUME AccessesAssumption ==
    \A g \in Graphs : \A acc \in Accesses(g) :
        IsAccesses(acc) /\ g.edges = Joined(Dependences(acc))
-----------------------------------------------------------------------------
(* The graph.                                                              *)

(* AccessedBy.TxIds: who accesses record k, by ID.                         *)
TxIds(by, k) ==
    CHOOSE ids \in [1 .. Cardinality(by[k]) -> by[k]] :
        \A i, j \in DOMAIN ids : i < j => ids[i] < ids[j]

(* A second edge between the same vertices (for another record) is not     *)
(* counted in the degrees.                                                 *)
AddEdge(g, s, d) ==
    IF <<s, d>> \in g.edges THEN g
    ELSE [g EXCEPT !.edges = @ \cup {<<s, d>>},
                   !.outDegree[s] = @ + 1,
                   !.inDegree[d] = @ + 1]

(* The loop over the writers ends at the first that does not precede r.    *)
WritersBefore(ws, r) ==
    LET stop == {i \in DOMAIN ws : ws[i] >= r}
    IN  IF stop = {} THEN ws ELSE SubSeq(ws, 1, Min(stop) - 1)

(* The edges into a reader, from each of the writers ws.                   *)
EdgesInto(g, ws, r) == FoldLeft(LAMBDA h, w : AddEdge(h, w, r), g, ws)

(* The edges that record k adds to g.                                      *)
DataEdges(g, acc, k) ==
    LET writers == TxIds(acc.writeBy, k)
    IN  FoldLeft(LAMBDA h, r : EdgesInto(h, WritersBefore(writers, r), r),
                 g, TxIds(acc.readBy, k))

(* The edges that join task t to the entry and to the end.                 *)
JoinEnds(g, t) ==
    LET h == IF g.inDegree[t] = 0 THEN AddEdge(g, Entry, t) ELSE g
    IN  IF h.outDegree[t] = 0 THEN AddEdge(h, t, End) ELSE h

Zeros == [n \in Vertices |-> 0]
EmptyGraph == [edges |-> {}, inDegree |-> Zeros, outDegree |-> Zeros]

GraphOfData(acc) ==
    FoldSet(LAMBDA k, g : DataEdges(g, acc, k), EmptyGraph, DOMAIN acc.writeBy)
GenerateGraph(acc) ==
    FoldSet(LAMBDA t, g : JoinEnds(g, t), GraphOfData(acc), Tasks)
-----------------------------------------------------------------------------
(* The ranks.                                                              *)

(* getTopo goes along the edges or, if rev, against them.                  *)
Onward(g, rev, n) == IF rev THEN Pred(g, n) ELSE Succ(g, n)

(* mapDegree and degreeZero before the loop, ...                           *)
FirstRound(g, rev) ==
    LET degree == IF rev THEN g.outDegree ELSE g.inDegree
    IN  [left |-> degree, zero |-> {n \in Vertices : degree[n] = 0}]

(* ... and after one more pass: degreeZero has the vertices whose degree   *)
(* just came down to 0.                                                    *)
NextRound(g, rev, last) ==
    LET left == [v \in Vertices |-> last.left[v]
                    - Cardinality({n \in last.zero : v \in Onward(g, rev, n)})]
    IN  [left |-> left,
         zero |-> {v \in Vertices : last.left[v] # 0 /\ left[v] = 0}]

(* There are no more passes than vertices.                                 *)
Rounds(g, rev) ==
    LET round[i \in 0 .. NTasks + 2] ==
            IF i = 0 THEN FirstRound(g, rev) ELSE NextRound(g, rev, round[i - 1])
    IN  round

(* The loop ends when degreeZero is empty.                                 *)
GetTopo(g, rev) ==
    LET round == Rounds(g, rev)
        stop == Min({i \in 0 .. NTasks + 2 : round[i].zero = {}})
    IN  [i \in 1 .. stop |-> round[i - 1].zero]

(* A pass over the vertices of a level: each takes its value from those of *)
(* the vertices before it, `from`.                                         *)
RankLevel(rank, level, from, own, step) ==
    [n \in Vertices |->
        IF n \in level
        THEN own[n] + Max({0} \cup {rank[v] + step[v] : v \in from[n]})
        ELSE rank[n]]

(* Level by level; the values of later levels are still 0.                 *)
Along(levels, from, own, step) ==
    FoldLeft(LAMBDA rank, level : RankLevel(rank, level, from, own, step),
             Zeros, levels)

Preds(g) == [n \in Vertices |-> Pred(g, n)]
Succs(g) == [n \in Vertices |-> Succ(g, n)]

CalcRankD_Reversed(g, cost) == Along(GetTopo(g, TRUE), Preds(g), Zeros, cost)
CalcRankD(g, cost) == Along(GetTopo(g, FALSE), Preds(g), Zeros, cost)

(* The two results of calcRankUCT.                                         *)
CalcRankU(g, cost) == Along(GetTopo(g, TRUE), Succs(g), cost, Zeros)
CalcCT(g, cost) == Along(GetTopo(g, TRUE), Succs(g), Zeros, cost)

GenerateProperties(g, cost) ==
    LET u == CalcRankU(g, cost)
        d == CalcRankD(g, cost)
    IN  [edges |-> g.edges, cost |-> cost, span |-> graph.span,
         rankU |-> u, rankD |-> d, ct |-> CalcCT(g, cost),
         pathLen |-> Max({u[n] + d[n] : n \in Vertices})]
-----------------------------------------------------------------------------
(* Properties.  They speak of the graph the schedulers begin with.         *)

(* InDegree, from which pqSchedule counts down, is the number of           *)
(* predecessors, also where a task depends on another by several records   *)
(* (counted twice, the task would never be queued); and one pass along     *)
(* getTopo's order gives the ranks that Graphs, and with it every property *)
(* of Scheduler, assumes: each value is final before it is used.           *)
PropertiesGenerated ==
    method = "EFT" /\ popped = {} =>
        \A acc \in Accesses(graph) :
            LET g == GenerateGraph(acc)
                r == GenerateProperties(g, graph.cost)
            IN  /\ \A n \in Vertices : /\ g.inDegree[n] = Cardinality(Pred(graph, n))
                                      /\ g.outDegree[n] = Cardinality(Succ(graph, n))
                /\ IsGraph(r) /\ IsRanked(r) /\ r.edges = graph.edges
=============================================================================
