-------------------------- MODULE SlotsMaintainer --------------------------
(***************************************************************************)
(* How a processor keeps its free slots: in an AVL tree by start time, and *)
(* in a segment tree that holds, for an interval of start times, the       *)
(* length of the longest slot.  Scheduler has a set of slots in their      *)
(* place; here the two trees run beside it, changed by the same AddTask.   *)
(***************************************************************************)
EXTENDS Scheduler, Sequences

VARIABLES
    bst,    \* bst[p]: SlotsMaintainer.Slots of processor p
    segt    \* segt[p]: its TimeSpan

smVars == <<vars, bst, segt>>
-----------------------------------------------------------------------------
(* The AVL tree.  nil has height 0.                                        *)

Nil == [height |-> 0]

(* A node with s's slot and these children, its height recalculated.       *)
Node(s, l, r) ==
    [st |-> s.st, length |-> s.length, lson |-> l, rson |-> r,
     height |-> 1 + Latest(l.height, r.height)]

(* The nodes of the tree with root n; nil is one of them.                  *)
Nodes(n) ==
    LET below[i \in 0 .. n.height] ==
          IF i = 0 THEN {n}
          ELSE LET above == below[i - 1]
               IN  above \cup UNION {{m.lson, m.rson} : m \in above \ {Nil}}
    IN  below[n.height]

RotateLeft(n) == Node(n.rson, Node(n, n.lson, n.rson.lson), n.rson.rson)
RotateRight(n) == Node(n.lson, n.lson.lson, Node(n, n.lson.rson, n.rson))

(* rebalanceTree, of the node made of s, l and r.                          *)
Rebalance(s, l, r) ==
    LET factor == l.height - r.height
    IN  IF factor = -2
        THEN RotateLeft(Node(s, l,
                IF r.lson.height > r.rson.height THEN RotateRight(r) ELSE r))
        ELSE IF factor = 2
        THEN RotateRight(Node(s,
                IF l.rson.height > l.lson.height THEN RotateLeft(l) ELSE l, r))
        ELSE Node(s, l, r)

AddNode(n, s) ==
    LET add[m \in Nodes(n)] ==
          IF m = Nil THEN Node(s, Nil, Nil)
          ELSE IF s.st < m.st THEN Rebalance(m, add[m.lson], m.rson)
          ELSE Rebalance(m, m.lson, add[m.rson])
    IN  add[n]

FindMin(n) ==
    LET min[m \in Nodes(n)] ==
          IF m = Nil \/ m.lson = Nil THEN m ELSE min[m.lson]
    IN  min[n]

(* A node with two sons takes over the least slot on its right, where the  *)
(* node of that slot is removed in its place.                              *)
RemoveNode(n, st) ==
    LET remove[mx \in Nodes(n) \X Nat] ==
          LET m == mx[1]
              x == mx[2]
          IN  IF m = Nil THEN Nil
              ELSE IF x < m.st THEN Rebalance(m, remove[<<m.lson, x>>], m.rson)
              ELSE IF x > m.st THEN Rebalance(m, m.lson, remove[<<m.rson, x>>])
              ELSE IF m.lson = Nil THEN m.rson
              ELSE IF m.rson = Nil THEN m.lson
              ELSE LET min == FindMin(m.rson)
                   IN  Rebalance(min, m.lson, remove[<<m.rson, min.st>>])
    IN  remove[<<n, st>>]

(* The node with the greatest start time up to st, or nil.                 *)
FindMaxLessThan(n, st) ==
    LET find[m \in Nodes(n)] ==
          IF m = Nil \/ m.st = st THEN m
          ELSE IF m.st > st THEN find[m.lson]
          ELSE LET max == find[m.rson] IN IF max = Nil THEN m ELSE max
    IN  find[n]
-----------------------------------------------------------------------------
(* The segment tree over 0 .. Horizon(graph): the maxima (seg_max) of the  *)
(* nodes made so far, a node being named by its interval.                  *)

Intervals == {iv \in Nat \X Nat : iv[1] <= iv[2] /\ iv[2] <= Horizon(graph)}

Mid(iv) == (iv[1] + iv[2]) \div 2
LeftOf(iv) == <<iv[1], Mid(iv)>>
RightOf(iv) == <<Mid(iv) + 1, iv[2]>>
IsLeaf(iv) == iv[1] = iv[2]
Root == <<0, Horizon(graph)>>

(* Of a child that was never made, the code takes no maximum.              *)
SegMax(t, iv) == IF iv \in DOMAIN t THEN t[iv] ELSE 0

(* The nodes whose interval has x: those that modify goes through.         *)
PathTo(x) ==
    LET path[iv \in Intervals] ==
          {iv} \cup (IF IsLeaf(iv) THEN {}
                    ELSE path[IF x <= Mid(iv) THEN LeftOf(iv) ELSE RightOf(iv)])
    IN  path[Root]

Modify_Overwrite(t, x, val) ==
    LET path == PathTo(x)
    IN  [iv \in DOMAIN t \cup path |-> IF iv \in path THEN val ELSE SegMax(t, iv)]

(* modify: x gets the value val, then the nodes above it their maxima.     *)
Modify(t, x, val) ==
    LET path == PathTo(x)
        max[iv \in Intervals] ==
          IF iv \notin path THEN SegMax(t, iv)
          ELSE IF IsLeaf(iv) THEN val
          ELSE Latest(max[LeftOf(iv)], max[RightOf(iv)])
    IN  [iv \in DOMAIN t \cup path |-> max[iv]]

(* query: the first slot that starts in l .. r and is long enough, as a    *)
(* set, empty for MAXUINT64.  A node that was never made has none.         *)
Query(t, l, r, threshold) ==
    LET query[q \in Intervals \X Nat \X Nat] ==
          LET iv == q[1]
              from == q[2]
              to == q[3]
          IN  IF SegMax(t, iv) < threshold THEN {}
              ELSE IF IsLeaf(iv) THEN {[st |-> iv[1], length |-> SegMax(t, iv)]}
              ELSE IF to <= Mid(iv) THEN query[<<LeftOf(iv), from, to>>]
              ELSE IF from > Mid(iv) THEN query[<<RightOf(iv), from, to>>]
              ELSE LET left == query[<<LeftOf(iv), from, Mid(iv)>>]
                   IN  IF left # {} THEN left
                       ELSE query[<<RightOf(iv), Mid(iv) + 1, to>>]
    IN  query[<<Root, l, r>>]
-----------------------------------------------------------------------------
(* SlotsMaintainer: a pair of trees.                                       *)

NewSlotsMaintainer ==
    [bst |-> AddNode(Nil, [st |-> 0, length |-> Horizon(graph)]),
     segt |-> Modify(<<>>, 0, Horizon(graph))]

(* findSlot.                                                               *)
FindInTrees(p, x, c) ==
    LET slot == FindMaxLessThan(bst[p], x)
    IN  IF slot # Nil /\ slot.st + slot.length >= x + c
        THEN {[st |-> slot.st, length |-> slot.length]}
        ELSE Query(segt[p], x, Horizon(graph), c)

AddSlot(sm, s) ==
    [bst |-> IF s.length # 0 THEN AddNode(sm.bst, s) ELSE sm.bst,
     segt |-> Modify(sm.segt, s.st, s.length)]

ModifySlot(sm, s) == AddSlot([sm EXCEPT !.bst = RemoveNode(@, s.st)], s)

(* Processor.AddTask: a task takes slot s from a to e.                     *)
AddTask(sm, s, a, e) ==
    IF s.st <= a
    THEN AddSlot(ModifySlot(sm, [st |-> s.st, length |-> a - s.st]),
                 [st |-> e, length |-> s.st + s.length - e])
    ELSE AddSlot(ModifySlot(sm, [st |-> s.st, length |-> 0]),
                 [st |-> e, length |-> s.length - (e - a)])

FreshTrees ==
    /\ bst = [p \in Procs |-> NewSlotsMaintainer.bst]
    /\ segt = [p \in Procs |-> NewSlotsMaintainer.segt]

SMInit == Init /\ FreshTrees

SMPass(n) == PassVertex(n) /\ UNCHANGED <<bst, segt>>

(* PlaceTask, with the trees of the processor that n goes to.              *)
SMPlace(n) ==
    /\ PlaceTask(n)
    /\ LET p == proc'[n]
           sm == [bst |-> bst[p], segt |-> segt[p]]
       IN  \E s \in FindInTrees(p, est[n], graph.cost[n]) :
             LET new == AddTask(sm, s, ast'[n], eft'[n])
             IN  /\ bst' = [bst EXCEPT ![p] = new.bst]
                 /\ segt' = [segt EXCEPT ![p] = new.segt]

(* The next list scheduler makes processors of its own.                    *)
SMKeepBetter ==
    /\ KeepBetter
    /\ bst' = [p \in Procs |-> NewSlotsMaintainer.bst]
    /\ segt' = [p \in Procs |-> NewSlotsMaintainer.segt]

SMStep == (\E n \in Vertices : SMPass(n) \/ SMPlace(n)) \/ SMKeepBetter
SMNext == SMStep \/ (Chosen /\ UNCHANGED <<bst, segt>>)

(* Fairness is Scheduler's: a step that the set of slots allows is taken,  *)
(* so the trees must not stand in its way.                                 *)
SMFairSpec == SMInit /\ [][SMNext]_smVars /\ WF_vars(Step)
-----------------------------------------------------------------------------
(* Properties.                                                             *)

SlotsIn(n) == {[st |-> m.st, length |-> m.length] : m \in Nodes(n) \ {Nil}}

(* The AVL tree holds the processor's slots, in the order of their start   *)
(* times, and stays balanced.                                              *)
TreeHoldsSlots ==
    \A p \in Procs :
        /\ SlotsIn(bst[p]) = slots[p]
        /\ \A n \in Nodes(bst[p]) \ {Nil} :
              /\ \A s \in SlotsIn(n.lson) : s.st < n.st
              /\ \A s \in SlotsIn(n.rson) : s.st > n.st
              /\ n.lson.height - n.rson.height \in -1 .. 1

(* Through all rotations and removals the AVL tree holds the slots; and    *)
(* whatever is asked, the two trees together give the slot that the set of *)
(* slots gives: no stale maximum of the segment tree, which is changed     *)
(* separately from the AVL tree, hides a slot or names one that is gone.   *)
TreesFindTheSlot ==
    /\ TreeHoldsSlots
    /\ \A p \in Procs, x \in 0 .. graph.span, c \in {graph.cost[t] : t \in Tasks} :
           FindInTrees(p, x, c) = FindSlot(p, x, c)
=============================================================================
