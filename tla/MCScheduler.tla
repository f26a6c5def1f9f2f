---------------------------- MODULE MCScheduler ----------------------------
(* All dependency graphs of a few tasks, with their ranks, and accesses    *)
(* that lead to them.                                                      *)
EXTENDS SlotsMaintainer, DependencyGraph, TLC

CONSTANT Costs

MaxOf(S) == Max(S \cup {0})

Order == {e \in Tasks \X Tasks : e[1] < e[2]}

Ranked(es, c) ==
    LET g == [edges |-> Joined(es), cost |-> c]
        rankU[n \in Vertices] == c[n] + MaxOf({rankU[v] : v \in Succ(g, n)})
        ct[n \in Vertices] == MaxOf({ct[v] + c[v] : v \in Succ(g, n)})
        rankD[n \in Vertices] == MaxOf({rankD[v] + c[v] : v \in Pred(g, n)})
    IN  [edges |-> g.edges, cost |-> c,
         span |-> MapThenSumSet(LAMBDA n : c[n], Vertices),
         rankU |-> rankU, ct |-> ct, rankD |-> rankD,
         pathLen |-> MaxOf({rankU[n] + rankD[n] : n \in Vertices})]

(* All graphs of the tasks but the last, which is short and depends on the  *)
(* first.                                                                   *)
LastTask == NTasks - 1
MCGraphs ==
    {Ranked(es \cup {<<0, LastTask>>}, [n \in Vertices |-> IF n \in Tasks THEN c[n] ELSE 0]) :
        es \in SUBSET {e \in Order : e[2] # LastTask},
        c \in {c \in [Tasks -> Costs] : c[LastTask] = 1}}

(* Each task writes one record or two, read by the tasks that depend on it  *)
(* and by itself and all before it, who do not.                             *)
Writes(n) == [k \in Tasks \X (1 .. n) |-> {k[1]}]
Reads(g, n) ==
    [k \in Tasks \X (1 .. n) |->
        {t \in Tasks : <<k[1], t>> \in g.edges \/ t <= k[1]}]
MCAccesses(g) == {[writeBy |-> Writes(n), readBy |-> Reads(g, n)] : n \in 1 .. 2}
=============================================================================
