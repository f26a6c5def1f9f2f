----------------------- MODULE DependencyGraph_proofs -----------------------
(* Proofs about GraphLine, for every block: whatever its tasks read and    *)
(* write and whatever they cost, the graph has the edges, the degrees and  *)
(* the ranks that Schedule relies on.                                      *)
EXTENDS DependencyGraph, Scheduler_proofs

(***************************************************************************)
(* Recursion.                                                              *)
(***************************************************************************)

(* A recursion on S: p is where it goes and m how deep it still may go.    *)
Descends(S, N, m, p) ==
    /\ N \in Nat
    /\ m \in [S -> 0 .. N]
    /\ p \in [S -> S]
    /\ \A x \in S : m[x] # 0 => m[p[x]] < m[x]

(* F is the function that starts from base and does step.                  *)
Recurses(F, S, m, p, D, base, step) ==
    /\ F \in [S -> D]
    /\ \A x \in S : F[x] = IF m[x] = 0 THEN base ELSE step[<<x, F[p[x]]>>]

(* There is one.                                                           *)
LEMMA RecursionExists ==
    ASSUME NEW S, NEW N, NEW m, NEW p, Descends(S, N, m, p),
           NEW D, NEW base, base \in D, NEW step, step \in [S \X D -> D]
    PROVE  \E F : Recurses(F, S, m, p, D, base, step)
<1>1. /\ N \in Nat
      /\ m \in [S -> 0 .. N]
      /\ p \in [S -> S]
      /\ \A x \in S : m[x] # 0 => m[p[x]] < m[x]
  BY DEF Descends
<1> DEFINE Value(x, F) == IF m[x] = 0 THEN base ELSE step[<<x, F[p[x]]>>]
           st == [xf \in S \X [S -> D] |-> Value(xf[1], xf[2])]
<1>2. /\ st \in [S \X [S -> D] -> D]
      /\ \A x \in S : \A F \in [S -> D] : st[<<x, F>>] = Value(x, F)
  <2>1. ASSUME NEW x \in S, NEW F \in [S -> D] PROVE Value(x, F) \in D
    <3>1. <<x, F[p[x]]>> \in S \X D
      BY <1>1
    <3> QED
      BY <3>1
  <2> HIDE DEF Value
  <2> QED
    BY <2>1
<1> HIDE DEF st
<1>3. LooksDown(S, m, D, st)
  <2> SUFFICES ASSUME NEW x \in S, NEW F \in [S -> D], NEW G \in [S -> D],
                      \A y \in S : m[y] < m[x] => F[y] = G[y]
               PROVE  st[<<x, F>>] = st[<<x, G>>]
    BY DEF LooksDown
  <2>1. m[x] # 0 => F[p[x]] = G[p[x]]
    BY <1>1
  <2>2. Value(x, F) = Value(x, G)
    BY <2>1
  <2> HIDE DEF Value
  <2>3. st[<<x, F>>] = Value(x, F) /\ st[<<x, G>>] = Value(x, G)
    BY <1>2
  <2> QED
    BY <2>2, <2>3
<1>4. PICK F : Solution(F, S, D, st)
  BY <1>1, <1>2, <1>3, SolutionExists
<1>5. ASSUME NEW x \in S PROVE F[x] = Value(x, F)
  <2> HIDE DEF Value
  <2> QED
    BY <1>2, <1>4 DEF Solution
<1>6. F \in [S -> D]
  BY <1>4 DEF Solution
<1> QED
  BY <1>5, <1>6 DEF Recurses

(***************************************************************************)
(* Folds over sequences.                                                   *)
(***************************************************************************)

(* The function that a fold over X is defined by: it takes the elements    *)
(* e[x] in the order in which c chooses the x.                             *)
Folds(F, X, c, e, D, base, step) ==
    /\ F \in [SUBSET X -> D]
    /\ \A s \in SUBSET X :
          F[s] = IF s = {} THEN base ELSE step[<<F[s \ {c[s]}], e[c[s]]>>]

(* c chooses an element of every set but the empty one.                    *)
Chooses(c, X) == \A s \in SUBSET X : s # {} => c[s] \in s

(* There is one if X is finite.                                            *)
LEMMA FoldExists ==
    ASSUME NEW X, IsFiniteSet(X), NEW c, Chooses(c, X), NEW E, NEW e, e \in [X -> E],
           NEW D, NEW base, base \in D, NEW step, step \in [D \X E -> D]
    PROVE  \E F : Folds(F, X, c, e, D, base, step)
<1>c. \A s \in SUBSET X : s # {} => c[s] \in s
  BY DEF Chooses
<1> DEFINE S == SUBSET X
           N == Cardinality(X)
           m == [s \in S |-> Cardinality(s)]
           p == [s \in S |-> s \ {c[s]}]
           st == [sd \in S \X D |-> IF sd[1] = {} THEN base ELSE step[<<sd[2], e[c[sd[1]]]>>]]
<1>1. \A s \in S : /\ IsFiniteSet(s) /\ Cardinality(s) \in 0 .. N
                   /\ (Cardinality(s) = 0 <=> s = {})
  <2>1. N \in Nat
    BY FS_CardinalityType
  <2> QED
    BY <2>1, FS_Subset, FS_CardinalityType, FS_EmptySet
<1>2. N \in Nat /\ m \in [S -> 0 .. N] /\ p \in [S -> S]
  <2>1. \A s \in S : s \ {c[s]} \in S
    OBVIOUS
  <2> QED
    BY <1>1, <2>1, FS_CardinalityType
<1>3. ASSUME NEW s \in S, m[s] # 0 PROVE m[p[s]] < m[s]
  <2>1. s # {} /\ c[s] \in s /\ IsFiniteSet(s)
    BY <1>1, <1>3, <1>c
  <2>2. Cardinality(s \ {c[s]}) = Cardinality(s) - 1
    BY <2>1, FS_RemoveElement
  <2>3. m[p[s]] = Cardinality(s \ {c[s]}) /\ m[s] = Cardinality(s)
    OBVIOUS
  <2>4. Cardinality(s) \in Int
    BY <1>1, <1>2
  <2> QED
    BY <2>2, <2>3, <2>4
<1>4. st \in [S \X D -> D]
  <2>1. ASSUME NEW s \in S, NEW d \in D
        PROVE  (IF s = {} THEN base ELSE step[<<d, e[c[s]]>>]) \in D
    BY <1>c
  <2> QED
    BY <2>1
<1>5. \A s \in S, d \in D : st[<<s, d>>] = IF s = {} THEN base ELSE step[<<d, e[c[s]]>>]
  OBVIOUS
<1>6. \A s \in S : (m[s] = 0 <=> s = {}) /\ p[s] = s \ {c[s]}
  BY <1>1
<1> HIDE DEF S, N, m, p, st
<1>a. Descends(S, N, m, p)
  BY <1>2, <1>3 DEF Descends
<1>b. PICK F : Recurses(F, S, m, p, D, base, st)
  BY <1>4, <1>a, RecursionExists
<1>7. /\ F \in [S -> D]
      /\ \A s \in S : F[s] = IF m[s] = 0 THEN base ELSE st[<<s, F[p[s]]>>]
  BY <1>b DEF Recurses
<1>8. ASSUME NEW s \in S
      PROVE  F[s] = IF s = {} THEN base ELSE step[<<F[s \ {c[s]}], e[c[s]]>>]
  <2>1. F[p[s]] \in D
    BY <1>2, <1>7
  <2>2. F[s] = IF m[s] = 0 THEN base ELSE st[<<s, F[p[s]]>>]
    BY <1>7
  <2>3. st[<<s, F[p[s]]>>] = IF s = {} THEN base ELSE step[<<F[p[s]], e[c[s]]>>]
    BY <1>5, <2>1
  <2> QED
    BY <1>6, <2>2, <2>3
<1> QED
  BY <1>7, <1>8 DEF S, Folds

(* Where such a function is for the first i places of a sequence.          *)
LEMMA FirstPlaces ==
    ASSUME NEW E, NEW seq \in Seq(E)
    PROVE  /\ IsFiniteSet(DOMAIN seq) /\ DOMAIN seq = 1 .. Len(seq) /\ Len(seq) \in Nat
           /\ \A s \in SUBSET DOMAIN seq : s # {} => Max(s) \in s
           /\ \A i \in 1 .. Len(seq) : /\ Max(1 .. i) = i
                                       /\ (1 .. i) \ {i} = 1 .. (i - 1)
                                       /\ 1 .. i \in SUBSET DOMAIN seq
                                       /\ 1 .. i # {}
<1>1. DOMAIN seq = 1 .. Len(seq) /\ Len(seq) \in Nat
  OBVIOUS
<1>2. IsFiniteSet(DOMAIN seq)
  BY <1>1, FS_Interval
<1>3. ASSUME NEW s \in SUBSET DOMAIN seq, s # {} PROVE Max(s) \in s
  <2>1. s \in SUBSET Int /\ \A x \in s : x <= Len(seq)
    BY <1>1
  <2> DEFINE b == Len(seq)
  <2>0. b \in Int
    BY <1>1
  <2>2. PICK x \in s : \A y \in s : y <= x
    <3> HIDE DEF b
    <3> QED
      BY <1>3, <2>0, <2>1, GreatestInt DEF b
  <2>3. \A y \in s : x >= y
    BY <2>1, <2>2
  <2> QED
    BY <2>3 DEF Max
<1>4. ASSUME NEW i \in 1 .. Len(seq)
      PROVE  /\ Max(1 .. i) = i /\ (1 .. i) \ {i} = 1 .. (i - 1)
             /\ 1 .. i \in SUBSET DOMAIN seq /\ 1 .. i # {}
  <2>1. i \in 1 .. i /\ \A y \in 1 .. i : i >= y
    BY <1>1
  <2>2. \A x \in 1 .. i : (\A y \in 1 .. i : x >= y) => x = i
    BY <1>1, <2>1
  <2>3. Max(1 .. i) = i
    BY <2>1, <2>2 DEF Max
  <2>4. (1 .. i) \ {i} = 1 .. (i - 1)
    BY <1>1
  <2>5. 1 .. i \in SUBSET DOMAIN seq
    BY <1>1
  <2> QED
    BY <2>1, <2>3, <2>4, <2>5
<1> QED
  BY <1>1, <1>2, <1>3, <1>4

(* A fold over a sequence does step from left to right: F has its values,  *)
(* and I those that it may have after the first i places.                  *)
GoesLeft(F, seq, D, base, step) ==
    /\ F[{}] = base
    /\ \A s \in SUBSET DOMAIN seq : s # {} /\ F[s \ {Max(s)}] \in D =>
          F[s] = step[<<F[s \ {Max(s)}], seq[Max(s)]>>]
Keeps(I, seq, D, base, step) ==
    /\ <<0, base>> \in I
    /\ \A i \in 1 .. Len(seq) : \A d \in D :
          <<i - 1, d>> \in I => <<i, step[<<d, seq[i]>>]>> \in I

(* If the steps keep I, the whole fold has a value that I allows.          *)
LEMMA FoldSteps ==
    ASSUME NEW E, NEW seq, seq \in Seq(E), NEW D, NEW base, base \in D,
           NEW step, step \in [D \X E -> D],
           NEW F, GoesLeft(F, seq, D, base, step), NEW I, Keeps(I, seq, D, base, step)
    PROVE  F[DOMAIN seq] \in D /\ <<Len(seq), F[DOMAIN seq]>> \in I
<1>a. /\ F[{}] = base
      /\ \A s \in SUBSET DOMAIN seq : s # {} /\ F[s \ {Max(s)}] \in D =>
            F[s] = step[<<F[s \ {Max(s)}], seq[Max(s)]>>]
  BY DEF GoesLeft
<1>b. /\ <<0, base>> \in I
      /\ \A i \in 1 .. Len(seq) : \A d \in D :
            <<i - 1, d>> \in I => <<i, step[<<d, seq[i]>>]>> \in I
  BY DEF Keeps
<1> DEFINE n == Len(seq)
           Places == 0 .. n
           Good == {i \in Places : F[1 .. i] \in D /\ <<i, F[1 .. i]>> \in I}
           id == [i \in Places |-> i]
<1>1. DOMAIN seq = 1 .. n /\ n \in Nat
  BY FirstPlaces
<1>2. \A i \in Places : (\A k \in Places : id[k] < id[i] => k \in Good) => i \in Good
  <2> SUFFICES ASSUME NEW i \in Places, \A k \in Places : k < i => k \in Good
               PROVE  F[1 .. i] \in D /\ <<i, F[1 .. i]>> \in I
    OBVIOUS
  <2>1. CASE i = 0
    <3>1. 1 .. i = {} /\ {} \in SUBSET DOMAIN seq
      BY <2>1
    <3>2. F[1 .. i] = base
      BY <1>a, <3>1
    <3> QED
      BY <1>b, <2>1, <3>2
  <2>2. CASE i # 0
    <3>1. i \in 1 .. Len(seq) /\ i - 1 \in Places /\ i - 1 < i
      BY <1>1, <2>2
    <3>2. F[1 .. (i - 1)] \in D /\ <<i - 1, F[1 .. (i - 1)]>> \in I
      BY <3>1
    <3>3. F[1 .. i] = step[<<F[1 .. (i - 1)], seq[i]>>]
      <4>1. Max(1 .. i) = i /\ (1 .. i) \ {i} = 1 .. (i - 1)
            /\ 1 .. i \in SUBSET DOMAIN seq /\ 1 .. i # {}
        BY <3>1, FirstPlaces
      <4> HIDE DEF Places, Good
      <4>2. F[(1 .. i) \ {Max(1 .. i)}] \in D
        BY <3>2, <4>1
      <4>3. F[1 .. i] = step[<<F[(1 .. i) \ {Max(1 .. i)}], seq[Max(1 .. i)]>>]
        BY <1>a, <4>1, <4>2
      <4> QED
        BY <4>1, <4>3
    <3>4. seq[i] \in E
      BY <3>1
    <3> HIDE DEF Places, Good
    <3>5. step[<<F[1 .. (i - 1)], seq[i]>>] \in D
      BY <3>2, <3>4
    <3> QED
      BY <1>b, <3>1, <3>2, <3>3, <3>5
  <2> QED
    BY <2>1, <2>2
<1>3. Places \subseteq Good
  <2>1. id \in [Places -> Nat]
    BY <1>1
  <2> HIDE DEF id, Good, Places
  <2> QED
    BY <1>2, <2>1, MeasureInduction
<1>4. n \in Places
  BY <1>1
<1> QED
  BY <1>1, <1>3, <1>4

(***************************************************************************)
(* Who accesses a record, in the order of the IDs.                         *)
(***************************************************************************)

(* The numbers of a finite set of tasks can be put in ascending order.     *)
LEMMA SortedExists ==
    ASSUME NEW S \in SUBSET Tasks
    PROVE  \E q \in [1 .. Cardinality(S) -> S] :
              \A i, j \in DOMAIN q : i < j => q[i] < q[j]
<1> DEFINE Sorted(T, q) == /\ q \in [1 .. Cardinality(T) -> T]
                           /\ \A i, j \in 1 .. Cardinality(T) : i < j => q[i] < q[j]
           U == SUBSET Tasks
           Good == {T \in U : \E q : Sorted(T, q)}
           m == [T \in U |-> Cardinality(T)]
<1>1. IsFiniteSet(Tasks) /\ Tasks \in SUBSET Int /\ \A t \in Tasks : t <= NTasks
  BY SizesAssumption, FS_Interval DEF Tasks
<1>2. \A T \in U : IsFiniteSet(T) /\ Cardinality(T) \in Nat
  BY <1>1, FS_Subset, FS_CardinalityType
<1>3. ASSUME NEW T \in U, \A V \in U : Cardinality(V) < Cardinality(T) => V \in Good
      PROVE  \E q : Sorted(T, q)
  <2>1. CASE T = {}
    <3> DEFINE q == [i \in 1 .. 0 |-> 0]
    <3>1. Cardinality(T) = 0
      BY <2>1, FS_EmptySet
    <3>2. 1 .. Cardinality(T) = 1 .. 0 /\ 1 .. 0 = {}
      BY <3>1
    <3>3. q \in [1 .. 0 -> T]
      BY <3>2
    <3> HIDE DEF q
    <3>4. Sorted(T, q)
      BY <3>2, <3>3
    <3> QED
      BY <3>4
  <2>2. CASE T # {}
    <3>1. T \in SUBSET Int /\ \A t \in T : t <= NTasks
      BY <1>1
    <3>2. PICK top \in T : \A t \in T : t <= top
      <4>1. NTasks \in Int
        BY SizesAssumption
      <4> QED
        BY <2>2, <3>1, <4>1, GreatestInt, SMTT(30)
    <3> DEFINE n == Cardinality(T)
               V == T \ {top}
    <3>3. Cardinality(V) = n - 1 /\ V \in U /\ n \in Nat /\ Cardinality(V) \in Nat
      BY <1>2, <3>2, FS_RemoveElement
    <3>4. Cardinality(V) < n
      BY <3>3
    <3>5. V \in Good
      BY <1>3, <3>3, <3>4
    <3>6. PICK p : Sorted(V, p)
      BY <3>5
    <3> DEFINE q == [i \in 1 .. n |-> IF i = n THEN top ELSE p[i]]
    <3>7. p \in [1 .. (n - 1) -> V] /\ \A i, j \in 1 .. (n - 1) : i < j => p[i] < p[j]
      BY <3>3, <3>6
    <3>8. \A i \in 1 .. n : /\ i # n => i \in 1 .. (n - 1) /\ p[i] \in T /\ p[i] < top
                            /\ q[i] = IF i = n THEN top ELSE p[i]
      <4>1. ASSUME NEW i \in 1 .. n, i # n
            PROVE  i \in 1 .. (n - 1) /\ p[i] \in T /\ p[i] < top
        <5>1. i \in 1 .. (n - 1)
          BY <3>3, <4>1
        <5>2. p[i] \in V
          BY <3>7, <5>1
        <5>3. p[i] \in T /\ p[i] # top /\ p[i] \in Int /\ top \in Int
          BY <3>1, <5>2
        <5> QED
          BY <3>2, <5>1, <5>3
      <4> QED
        BY <4>1
    <3>9. q \in [1 .. n -> T]
      BY <3>8
    <3> HIDE DEF n, q
    <3>10. ASSUME NEW i \in 1 .. n, NEW j \in 1 .. n, i < j PROVE q[i] < q[j]
      <4>1. i # n
        BY <3>3, <3>10
      <4>2. CASE j = n
        BY <3>8, <4>1, <4>2
      <4>3. CASE j # n
        <5>1. i \in 1 .. (n - 1) /\ j \in 1 .. (n - 1)
          BY <3>8, <4>1, <4>3
        <5> QED
          BY <3>7, <3>8, <3>10, <4>1, <4>3, <5>1
      <4> QED
        BY <4>2, <4>3
    <3>11. Sorted(T, q)
      BY <3>9, <3>10 DEF n
    <3> QED
      BY <3>11
  <2> QED
    BY <2>1, <2>2
<1>4. U \subseteq Good
  <2>1. m \in [U -> Nat]
    BY <1>2
  <2>2. \A T \in U : (\A V \in U : m[V] < m[T] => V \in Good) => T \in Good
    BY <1>3
  <2> HIDE DEF U, Good, m
  <2> QED
    BY <2>1, <2>2, MeasureInduction
<1>5. PICK q : Sorted(S, q)
  BY <1>4
<1> QED
  BY <1>5

(* TxIds has the IDs of those who access the record, in ascending order.   *)
LEMMA TxIdsSorted ==
    ASSUME NEW by, NEW k, by[k] \subseteq Tasks
    PROVE  LET ids == TxIds(by, k)
           IN  /\ ids \in Seq(Tasks)
               /\ \A i, j \in 1 .. Len(ids) : i < j => ids[i] < ids[j]
               /\ {ids[i] : i \in 1 .. Len(ids)} = by[k]
<1> DEFINE S == by[k]
           ids == TxIds(by, k)
           n == Cardinality(S)
<1>1. IsFiniteSet(Tasks)
  BY SizesAssumption, FS_Interval DEF Tasks
<1>2. S \in SUBSET Tasks
  OBVIOUS
<1>2a. IsFiniteSet(S) /\ n \in Nat
  BY <1>1, <1>2, FS_Subset, FS_CardinalityType
<1>3. /\ ids \in [1 .. n -> S]
      /\ \A i, j \in DOMAIN ids : i < j => ids[i] < ids[j]
  <2>1. \E q \in [1 .. Cardinality(S) -> S] : \A i, j \in DOMAIN q : i < j => q[i] < q[j]
    <3> HIDE DEF S
    <3> QED
      BY <1>2, SortedExists
  <2> QED
    BY <2>1 DEF TxIds
<1> HIDE DEF ids, S
<1>4. DOMAIN ids = 1 .. n
  BY <1>3
<1>5. ids \in Seq(S) /\ Len(ids) = n
  <2> HIDE DEF n
  <2> QED
    BY <1>2a, <1>3
<1>6. ids \in Injection(1 .. n, S)
  <2>1. ASSUME NEW i \in 1 .. n, NEW j \in 1 .. n, ids[i] = ids[j] PROVE i = j
    <3>0. i \in Int /\ j \in Int /\ Tasks \subseteq Int
      BY SizesAssumption DEF Tasks
    <3>1. ids[i] \in Int /\ ids[j] \in Int
      BY <1>2, <1>3, <3>0
    <3>2. ~ (i < j) /\ ~ (j < i)
      BY <1>3, <1>4, <2>1, <3>1
    <3> QED
      BY <3>0, <3>2
  <2> QED
    BY <1>3, <1>4, <2>1 DEF Injection, IsInjective
<1>7. ids \in Surjection(1 .. n, S)
  <2>1. Cardinality(1 .. n) = n /\ IsFiniteSet(1 .. n)
    BY <1>2a, FS_Interval
  <2> QED
    BY <1>2a, <1>6, <2>1, FS_Injection DEF n
<1>8. {ids[i] : i \in 1 .. n} = S
  BY <1>3, <1>7 DEF Surjection
<1>9. ids \in Seq(Tasks)
  <2> HIDE DEF n
  <2> QED
    BY <1>2, <1>5
<1>10. \A i, j \in 1 .. Len(ids) : i < j => ids[i] < ids[j]
  BY <1>3, <1>4, <1>5
<1> QED
  BY <1>5, <1>8, <1>9, <1>10 DEF ids, S

(* The writers before r are those whose ID is less.                        *)
LEMMA WritersBeforeAll ==
    ASSUME NEW ws \in Seq(Tasks), NEW r \in Tasks,
           \A i, j \in 1 .. Len(ws) : i < j => ws[i] < ws[j]
    PROVE  LET b == WritersBefore(ws, r)
           IN  /\ b \in Seq(Tasks)
               /\ {b[i] : i \in 1 .. Len(b)} =
                     {w \in {ws[i] : i \in 1 .. Len(ws)} : w < r}
<1> DEFINE stop == {i \in DOMAIN ws : ws[i] >= r}
           b == WritersBefore(ws, r)
           n == Len(ws)
<1>1. n \in Nat /\ DOMAIN ws = 1 .. n /\ Tasks \subseteq Int
  BY SizesAssumption DEF Tasks
<1>2. \A i \in 1 .. n : ws[i] \in Tasks /\ ws[i] \in Int
  <2>1. \A i \in 1 .. n : ws[i] \in Tasks
    OBVIOUS
  <2> QED
    BY <1>1, <2>1
<1>3. r \in Int
  BY <1>1
<1>4. CASE stop = {}
  <2>1. b = ws
    BY <1>4 DEF WritersBefore
  <2>2. \A i \in 1 .. n : ws[i] < r
    BY <1>1, <1>2, <1>3, <1>4
  <2> HIDE DEF b, stop
  <2>3. {ws[i] : i \in 1 .. n} = {w \in {ws[i] : i \in 1 .. n} : w < r}
    BY <2>2
  <2> QED
    BY <2>1, <2>3 DEF b
<1>5. CASE stop # {}
  <2> DEFINE k == Min(stop)
  <2>1. k \in stop /\ \A i \in stop : k <= i
    <3>1. stop \in SUBSET Nat
      BY <1>1
    <3>2. PICK x \in stop : \A y \in stop : x <= y
      <4> HIDE DEF stop
      <4> QED
        BY <1>5, <3>1, LeastNat
    <3> HIDE DEF stop
    <3> QED
      BY <3>2 DEF Min
  <2> HIDE DEF k
  <2>2. k \in 1 .. n /\ ws[k] >= r
    BY <1>1, <2>1
  <2>3. b = SubSeq(ws, 1, k - 1)
    BY <1>5 DEF WritersBefore, k
  <2> HIDE DEF b
  <2>4. b \in Seq(Tasks) /\ Len(b) = k - 1 /\ \A i \in 1 .. (k - 1) : b[i] = ws[i]
    BY <1>1, <2>2, <2>3
  <2>5. \A i \in 1 .. (k - 1) : i \in 1 .. n /\ ws[i] < r
    <3> SUFFICES ASSUME NEW i \in 1 .. (k - 1) PROVE i \in 1 .. n /\ ws[i] < r
      OBVIOUS
    <3>1. i \in 1 .. n /\ i \in Int /\ k \in Int /\ i < k
      BY <1>1, <2>2
    <3>2. i \notin stop
      <4> HIDE DEF stop
      <4> QED
        BY <2>1, <3>1
    <3> QED
      BY <1>1, <1>2, <1>3, <3>1, <3>2
  <2>6. \A i \in 1 .. n : ws[i] < r => i \in 1 .. (k - 1)
    <3> SUFFICES ASSUME NEW i \in 1 .. n, ws[i] < r PROVE i \in 1 .. (k - 1)
      OBVIOUS
    <3>1. ws[i] \in Int /\ ws[k] \in Int
      BY <1>2, <2>2
    <3>2. i # k
      BY <1>3, <2>2, <3>1
    <3>3. ~ (k < i)
      BY <1>3, <2>2, <3>1
    <3> QED
      BY <1>1, <2>2, <3>2, <3>3
  <2>7. {b[i] : i \in 1 .. (k - 1)} = {w \in {ws[i] : i \in 1 .. n} : w < r}
    <3>1. \A i \in 1 .. (k - 1) : b[i] = ws[i] /\ i \in 1 .. n /\ ws[i] < r
      BY <2>4, <2>5
    <3> HIDE DEF n
    <3> QED
      BY <2>6, <3>1
  <2> QED
    BY <2>4, <2>7 DEF b
<1> QED
  BY <1>4, <1>5

(***************************************************************************)
(* The edges and the degrees.                                              *)
(***************************************************************************)

(* The graphs whose degrees are the numbers of their edges.                *)
GraphStates ==
    [edges: SUBSET (Vertices \X Vertices),
     inDegree: [Vertices -> Nat], outDegree: [Vertices -> Nat]]
CountedGraphs ==
    {g \in GraphStates : \A n \in Vertices :
        /\ g.inDegree[n] = Cardinality(Pred(g, n))
        /\ g.outDegree[n] = Cardinality(Succ(g, n))}

(* AddEdge adds the edge and keeps the degrees right.                      *)
LEMMA AddEdgeCounts ==
    ASSUME NEW g \in CountedGraphs, NEW s \in Vertices, NEW d \in Vertices
    PROVE  /\ AddEdge(g, s, d) \in CountedGraphs
           /\ AddEdge(g, s, d).edges = g.edges \cup {<<s, d>>}
<1> DEFINE h == AddEdge(g, s, d)
<1>1. /\ g \in GraphStates
      /\ \A n \in Vertices : /\ g.inDegree[n] = Cardinality(Pred(g, n))
                             /\ g.outDegree[n] = Cardinality(Succ(g, n))
  BY DEF CountedGraphs
<1>2. CASE <<s, d>> \in g.edges
  BY <1>2 DEF AddEdge
<1>3. CASE <<s, d>> \notin g.edges
  <2>1. /\ h = [g EXCEPT !.edges = @ \cup {<<s, d>>},
                         !.outDegree[s] = @ + 1, !.inDegree[d] = @ + 1]
    BY <1>3 DEF AddEdge
  <2>2. /\ g.edges \in SUBSET (Vertices \X Vertices)
        /\ g.inDegree \in [Vertices -> Nat] /\ g.outDegree \in [Vertices -> Nat]
        /\ g = [edges |-> g.edges, inDegree |-> g.inDegree, outDegree |-> g.outDegree]
    BY <1>1 DEF GraphStates
  <2>3. /\ h = [edges |-> g.edges \cup {<<s, d>>},
                inDegree |-> [g.inDegree EXCEPT ![d] = @ + 1],
                outDegree |-> [g.outDegree EXCEPT ![s] = @ + 1]]
    BY <1>1, <2>1 DEF GraphStates
  <2> HIDE DEF h
  <2>4. /\ h.edges = g.edges \cup {<<s, d>>}
        /\ h.inDegree = [g.inDegree EXCEPT ![d] = @ + 1]
        /\ h.outDegree = [g.outDegree EXCEPT ![s] = @ + 1]
    BY <2>3
  <2>5. h \in GraphStates
    <3>1. h.edges \in SUBSET (Vertices \X Vertices)
      BY <2>2, <2>4
    <3>2. h.inDegree \in [Vertices -> Nat] /\ h.outDegree \in [Vertices -> Nat]
      BY <2>2, <2>4
    <3> QED
      BY <2>3, <2>4, <3>1, <3>2 DEF GraphStates
  <2>6. ASSUME NEW n \in Vertices
        PROVE  /\ h.inDegree[n] = Cardinality(Pred(h, n))
               /\ h.outDegree[n] = Cardinality(Succ(h, n))
    <3>1. IsFiniteSet(Pred(g, n)) /\ IsFiniteSet(Succ(g, n))
      BY PredFinite, VerticesFinite, FS_Subset DEF Succ
    <3>2. h.inDegree[n] = Cardinality(Pred(h, n))
      <4>1. CASE n = d
        <5>1. Pred(h, n) = Pred(g, n) \cup {s} /\ s \notin Pred(g, n)
          BY <1>3, <2>4, <4>1 DEF Pred
        <5>2. Cardinality(Pred(h, n)) = Cardinality(Pred(g, n)) + 1
          BY <3>1, <5>1, FS_AddElement
        <5> QED
          BY <1>1, <2>2, <2>4, <4>1, <5>2
      <4>2. CASE n # d
        <5>1. Pred(h, n) = Pred(g, n)
          BY <2>4, <4>2 DEF Pred
        <5> QED
          BY <1>1, <2>2, <2>4, <4>2, <5>1
      <4> QED
        BY <4>1, <4>2
    <3>3. h.outDegree[n] = Cardinality(Succ(h, n))
      <4>1. CASE n = s
        <5>1. Succ(h, n) = Succ(g, n) \cup {d} /\ d \notin Succ(g, n)
          BY <1>3, <2>4, <4>1 DEF Succ
        <5>2. Cardinality(Succ(h, n)) = Cardinality(Succ(g, n)) + 1
          BY <3>1, <5>1, FS_AddElement
        <5> QED
          BY <1>1, <2>2, <2>4, <4>1, <5>2
      <4>2. CASE n # s
        <5>1. Succ(h, n) = Succ(g, n)
          BY <2>4, <4>2 DEF Succ
        <5> QED
          BY <1>1, <2>2, <2>4, <4>2, <5>1
      <4> QED
        BY <4>1, <4>2
    <3> QED
      BY <3>2, <3>3
  <2> QED
    BY <2>4, <2>5, <2>6 DEF CountedGraphs, h
<1> QED
  BY <1>2, <1>3

(* The writers of one reader.                                              *)
LEMMA EdgesIntoAdds ==
    ASSUME NEW g \in CountedGraphs, NEW ws \in Seq(Tasks), NEW r \in Tasks
    PROVE  /\ EdgesInto(g, ws, r) \in CountedGraphs
           /\ EdgesInto(g, ws, r).edges = g.edges \cup {<<ws[i], r>> : i \in 1 .. Len(ws)}
<1> DEFINE X == DOMAIN ws
           c == [s \in SUBSET X |-> Max(s)]
           D == CountedGraphs
           st == [hw \in D \X Tasks |-> AddEdge(hw[1], hw[2], r)]
           Body(F) == [s \in SUBSET X |->
                         IF s = {} THEN g ELSE AddEdge(F[s \ {Max(s)}], ws[Max(s)], r)]
           iter == CHOOSE F : F = Body(F)
           I == {v \in Nat \X D : v[2].edges = g.edges \cup {<<ws[i], r>> : i \in 1 .. v[1]}}
<1>1. EdgesInto(g, ws, r) = iter[X]
  BY DEF EdgesInto, FoldLeft, MapThenFoldSet
<1>2. /\ IsFiniteSet(X) /\ X = 1 .. Len(ws) /\ Len(ws) \in Nat
      /\ \A s \in SUBSET X : s # {} => Max(s) \in s
  BY FirstPlaces
<1>3. \A s \in SUBSET X : c[s] = Max(s)
  OBVIOUS
<1>4. ws \in [X -> Tasks]
  BY <1>2
<1>5. Tasks \subseteq Vertices
  BY DEF Vertices
<1>6. \A h \in D, w \in Tasks : st[<<h, w>>] = AddEdge(h, w, r) /\ st[<<h, w>>] \in D
                                /\ st[<<h, w>>].edges = h.edges \cup {<<w, r>>}
  BY <1>5, AddEdgeCounts
<1>7. st \in [D \X Tasks -> D]
  BY <1>5, AddEdgeCounts
<1> HIDE DEF X, c, D, st
<1>g. g \in D
  BY DEF D
<1>8. PICK F : /\ F \in [SUBSET X -> D]
               /\ \A s \in SUBSET X :
                     F[s] = IF s = {} THEN g ELSE st[<<F[s \ {c[s]}], ws[c[s]]>>]
  <2>1. Chooses(c, X)
    BY <1>2, <1>3 DEF Chooses
  <2>2. \E F : Folds(F, X, c, ws, D, g, st)
    BY <1>2, <1>4, <1>7, <1>g, <2>1, FoldExists
  <2> QED
    BY <2>2 DEF Folds
<1>9. F = Body(F)
  <2>1. \A s \in SUBSET X :
           F[s] = IF s = {} THEN g ELSE AddEdge(F[s \ {Max(s)}], ws[Max(s)], r)
    <3> SUFFICES ASSUME NEW s \in SUBSET X, s # {}
                 PROVE  F[s] = AddEdge(F[s \ {Max(s)}], ws[Max(s)], r)
      BY <1>8
    <3>1. F[s \ {Max(s)}] \in D /\ ws[Max(s)] \in Tasks
      BY <1>2, <1>4, <1>8
    <3>2. F[s] = st[<<F[s \ {Max(s)}], ws[Max(s)]>>]
      BY <1>3, <1>8
    <3> QED
      BY <1>6, <3>1, <3>2
  <2> QED
    BY <1>8, <2>1, Zenon
<1>10. iter = Body(iter)
  <2> HIDE DEF Body
  <2> QED
    BY <1>9
<1> HIDE DEF iter
<1>11. \A s \in SUBSET X :
          iter[s] = IF s = {} THEN g ELSE AddEdge(iter[s \ {Max(s)}], ws[Max(s)], r)
  BY <1>10
<1>12. \A s \in SUBSET DOMAIN ws : s # {} /\ iter[s \ {Max(s)}] \in D =>
          iter[s] = st[<<iter[s \ {Max(s)}], ws[Max(s)]>>]
  BY <1>2, <1>4, <1>6, <1>11 DEF X
<1>13. <<0, g>> \in I
  BY <1>g
<1>14. ASSUME NEW i \in 1 .. Len(ws), NEW h \in D, <<i - 1, h>> \in I
       PROVE  <<i, st[<<h, ws[i]>>]>> \in I
  <2>1. i \in X /\ ws[i] \in Tasks /\ i \in Nat /\ 1 .. i = (1 .. (i - 1)) \cup {i}
    BY <1>2, <1>4
  <2>2. h.edges = g.edges \cup {<<ws[j], r>> : j \in 1 .. (i - 1)}
    BY <1>14
  <2>3. st[<<h, ws[i]>>].edges = h.edges \cup {<<ws[i], r>>} /\ st[<<h, ws[i]>>] \in D
    BY <1>6, <2>1
  <2>4. st[<<h, ws[i]>>].edges = g.edges \cup {<<ws[j], r>> : j \in 1 .. i}
    BY <2>1, <2>2, <2>3
  <2> QED
    BY <2>1, <2>3, <2>4
<1>15. iter[{}] = g
  BY <1>11
<1> HIDE DEF I
<1>16. GoesLeft(iter, ws, D, g, st) /\ Keeps(I, ws, D, g, st)
  BY <1>12, <1>13, <1>14, <1>15 DEF GoesLeft, Keeps
<1>17. iter[DOMAIN ws] \in D /\ <<Len(ws), iter[DOMAIN ws]>> \in I
  BY <1>7, <1>g, <1>16, FoldSteps
<1> QED
  BY <1>1, <1>17 DEF I, X, D

(* The edges of one record: to each reader from each earlier writer.       *)
RecordEdges(acc, k) ==
    {e \in Tasks \X Tasks :
        e[1] < e[2] /\ e[1] \in acc.writeBy[k] /\ e[2] \in acc.readBy[k]}

(* DataEdges adds these edges.                                             *)
LEMMA DataEdgesAdds ==
    ASSUME NEW acc, IsAccesses(acc), NEW k \in DOMAIN acc.writeBy, NEW g \in CountedGraphs
    PROVE  /\ DataEdges(g, acc, k) \in CountedGraphs
           /\ DataEdges(g, acc, k).edges = g.edges \cup RecordEdges(acc, k)
<1> DEFINE W == acc.writeBy[k]
           R == acc.readBy[k]
           ws == TxIds(acc.writeBy, k)
           rs == TxIds(acc.readBy, k)
           X == DOMAIN rs
           c == [s \in SUBSET X |-> Max(s)]
           D == CountedGraphs
           Op(h, r) == EdgesInto(h, WritersBefore(ws, r), r)
           st == [hr \in D \X Tasks |-> Op(hr[1], hr[2])]
           Body(F) == [s \in SUBSET X |->
                         IF s = {} THEN g ELSE Op(F[s \ {Max(s)}], rs[Max(s)])]
           iter == CHOOSE F : F = Body(F)
           Added(n) == {e \in W \X {rs[j] : j \in 1 .. n} : e[1] < e[2]}
           I == {v \in Nat \X D : v[2].edges = g.edges \cup Added(v[1])}
<1>1. DataEdges(g, acc, k) = iter[X]
  BY DEF DataEdges, FoldLeft, MapThenFoldSet
<1>2. W \subseteq Tasks /\ R \subseteq Tasks
  BY DEF IsAccesses
<1>3. /\ ws \in Seq(Tasks) /\ {ws[i] : i \in 1 .. Len(ws)} = W
      /\ \A i, j \in 1 .. Len(ws) : i < j => ws[i] < ws[j]
  BY <1>2, TxIdsSorted
<1>4. rs \in Seq(Tasks) /\ {rs[i] : i \in 1 .. Len(rs)} = R
  BY <1>2, TxIdsSorted
<1> HIDE DEF W, R, ws, rs
<1>5. /\ IsFiniteSet(X) /\ X = 1 .. Len(rs) /\ Len(rs) \in Nat
      /\ \A s \in SUBSET X : s # {} => Max(s) \in s
  BY <1>4, FirstPlaces
<1>6. \A s \in SUBSET X : c[s] = Max(s)
  OBVIOUS
<1>7. rs \in [X -> Tasks]
  BY <1>4, <1>5
<1>8. ASSUME NEW h \in D, NEW r \in Tasks
      PROVE  Op(h, r) \in D /\ Op(h, r).edges = h.edges \cup {<<w, r>> : w \in {w \in W : w < r}}
  <2> DEFINE b == WritersBefore(ws, r)
  <2>1. b \in Seq(Tasks) /\ {b[i] : i \in 1 .. Len(b)} = {w \in W : w < r}
    BY <1>3, WritersBeforeAll
  <2> HIDE DEF b
  <2>2. /\ EdgesInto(h, b, r) \in D
        /\ EdgesInto(h, b, r).edges = h.edges \cup {<<b[i], r>> : i \in 1 .. Len(b)}
    BY <2>1, EdgesIntoAdds
  <2>3. {<<b[i], r>> : i \in 1 .. Len(b)} = {<<w, r>> : w \in {w \in W : w < r}}
    BY <2>1
  <2> QED
    BY <2>2, <2>3 DEF b
<1> HIDE DEF Op
<1>9. \A h \in D, r \in Tasks : st[<<h, r>>] = Op(h, r)
  OBVIOUS
<1>10. st \in [D \X Tasks -> D]
  BY <1>8
<1>g. g \in D
  OBVIOUS
<1> HIDE DEF X, c, D, st
<1>11. PICK F : /\ F \in [SUBSET X -> D]
                /\ \A s \in SUBSET X :
                      F[s] = IF s = {} THEN g ELSE st[<<F[s \ {c[s]}], rs[c[s]]>>]
  <2>1. Chooses(c, X)
    BY <1>5, <1>6 DEF Chooses
  <2>2. \E F : Folds(F, X, c, rs, D, g, st)
    BY <1>5, <1>7, <1>10, <1>g, <2>1, FoldExists
  <2> QED
    BY <2>2 DEF Folds
<1>12. F = Body(F)
  <2>1. \A s \in SUBSET X : F[s] = IF s = {} THEN g ELSE Op(F[s \ {Max(s)}], rs[Max(s)])
    <3> SUFFICES ASSUME NEW s \in SUBSET X, s # {}
                 PROVE  F[s] = Op(F[s \ {Max(s)}], rs[Max(s)])
      BY <1>11
    <3>1. F[s \ {Max(s)}] \in D /\ rs[Max(s)] \in Tasks
      BY <1>5, <1>7, <1>11
    <3>2. F[s] = st[<<F[s \ {Max(s)}], rs[Max(s)]>>]
      BY <1>6, <1>11
    <3> QED
      BY <1>9, <3>1, <3>2
  <2> QED
    BY <1>11, <2>1, Zenon
<1>13. iter = Body(iter)
  <2> HIDE DEF Body
  <2> QED
    BY <1>12
<1> HIDE DEF iter
<1>14. \A s \in SUBSET X :
          iter[s] = IF s = {} THEN g ELSE Op(iter[s \ {Max(s)}], rs[Max(s)])
  BY <1>13
<1>15. \A s \in SUBSET DOMAIN rs : s # {} /\ iter[s \ {Max(s)}] \in D =>
          iter[s] = st[<<iter[s \ {Max(s)}], rs[Max(s)]>>]
  BY <1>5, <1>7, <1>9, <1>14 DEF X
<1>16. <<0, g>> \in I
  BY <1>g
<1>17. ASSUME NEW i \in 1 .. Len(rs), NEW h \in D, <<i - 1, h>> \in I
       PROVE  <<i, st[<<h, rs[i]>>]>> \in I
  <2>1. i \in X /\ rs[i] \in Tasks /\ i \in Nat /\ 1 .. i = (1 .. (i - 1)) \cup {i}
    BY <1>5, <1>7
  <2>2. h.edges = g.edges \cup Added(i - 1)
    BY <1>17
  <2>3. /\ st[<<h, rs[i]>>] \in D
        /\ st[<<h, rs[i]>>].edges = h.edges \cup {<<w, rs[i]>> : w \in {w \in W : w < rs[i]}}
    BY <1>8, <1>9, <2>1
  <2>4. Added(i) = Added(i - 1) \cup {<<w, rs[i]>> : w \in {w \in W : w < rs[i]}}
    BY <2>1
  <2>5. st[<<h, rs[i]>>].edges = g.edges \cup Added(i)
    BY <2>2, <2>3, <2>4
  <2> QED
    BY <2>1, <2>3, <2>5
<1>18. GoesLeft(iter, rs, D, g, st) /\ Keeps(I, rs, D, g, st)
  <2> HIDE DEF I
  <2> QED
    BY <1>14, <1>15, <1>16, <1>17 DEF GoesLeft, Keeps
<1>19. iter[DOMAIN rs] \in D /\ <<Len(rs), iter[DOMAIN rs]>> \in I
  <2> HIDE DEF I
  <2> QED
    BY <1>4, <1>10, <1>g, <1>18, FoldSteps
<1>20. Added(Len(rs)) = RecordEdges(acc, k)
  <2>1. Added(Len(rs)) = {e \in W \X R : e[1] < e[2]}
    BY <1>4
  <2> HIDE DEF Added
  <2> QED
    BY <1>2, <2>1 DEF RecordEdges, W, R
<1> QED
  BY <1>1, <1>19, <1>20 DEF X, D

(***************************************************************************)
(* Folds over sets.                                                        *)
(***************************************************************************)

(* A fold over a set, in whatever order: F has its values, and I those     *)
(* that it may have when the elements of s are done.                       *)
GoesThrough(F, X, c, D, base, step) ==
    /\ F[{}] = base
    /\ \A s \in SUBSET X : s # {} /\ F[s \ {c[s]}] \in D =>
          F[s] = step[<<F[s \ {c[s]}], c[s]>>]
KeepsSets(I, X, D, base, step) ==
    /\ <<{}, base>> \in I
    /\ \A s \in SUBSET X : \A x \in X \ s : \A d \in D :
          <<s, d>> \in I => <<s \cup {x}, step[<<d, x>>]>> \in I

(* If the steps keep I, the whole fold has a value that I allows.          *)
LEMMA FoldSetSteps ==
    ASSUME NEW X, IsFiniteSet(X), NEW c, Chooses(c, X), NEW D, NEW base, base \in D,
           NEW step, step \in [D \X X -> D],
           NEW F, GoesThrough(F, X, c, D, base, step), NEW I, KeepsSets(I, X, D, base, step)
    PROVE  F[X] \in D /\ <<X, F[X]>> \in I
<1> DEFINE U == SUBSET X
           Good == {s \in U : F[s] \in D /\ <<s, F[s]>> \in I}
           m == [s \in U |-> Cardinality(s)]
<1>1. \A s \in U : IsFiniteSet(s) /\ Cardinality(s) \in Nat
  BY FS_Subset, FS_CardinalityType
<1>2. ASSUME NEW s \in U, \A t \in U : Cardinality(t) < Cardinality(s) => t \in Good
      PROVE  F[s] \in D /\ <<s, F[s]>> \in I
  <2>1. CASE s = {}
    BY <2>1 DEF GoesThrough, KeepsSets
  <2>2. CASE s # {}
    <3> DEFINE x == c[s]
               t == s \ {x}
    <3>1. x \in s
      BY <2>2 DEF Chooses
    <3>2. t \in U /\ x \in X \ t /\ s = t \cup {x} /\ x \in X
      BY <3>1
    <3>3. Cardinality(t) = Cardinality(s) - 1
      BY <1>1, <3>1, FS_RemoveElement
    <3>4. Cardinality(t) < Cardinality(s)
      BY <1>1, <3>3
    <3>5. t \in Good
      BY <1>2, <3>2, <3>4
    <3>6. F[t] \in D /\ <<t, F[t]>> \in I
      BY <3>5
    <3>7. F[s] = step[<<F[t], x>>]
      BY <2>2, <3>6 DEF GoesThrough
    <3> HIDE DEF t, x
    <3>8. <<t \cup {x}, step[<<F[t], x>>]>> \in I
      BY <3>2, <3>6 DEF KeepsSets
    <3>9. step[<<F[t], x>>] \in D
      BY <3>2, <3>6
    <3> QED
      BY <3>2, <3>7, <3>8, <3>9
  <2> QED
    BY <2>1, <2>2
<1>3. U \subseteq Good
  <2>1. m \in [U -> Nat]
    BY <1>1
  <2>2. \A s \in U : (\A t \in U : m[t] < m[s] => t \in Good) => s \in Good
    BY <1>2
  <2> HIDE DEF U, Good, m
  <2> QED
    BY <2>1, <2>2, MeasureInduction
<1> QED
  BY <1>3

(* GenerateGraph begins with no edge.                                      *)
LEMMA EmptyGraphCounts == EmptyGraph \in CountedGraphs /\ EmptyGraph.edges = {}
<1>1. /\ EmptyGraph.edges = {} /\ EmptyGraph.inDegree = Zeros
      /\ EmptyGraph.outDegree = Zeros
      /\ EmptyGraph = [edges |-> {}, inDegree |-> Zeros, outDegree |-> Zeros]
  BY DEF EmptyGraph
<1>2. Zeros \in [Vertices -> Nat] /\ \A n \in Vertices : Zeros[n] = 0
  BY DEF Zeros
<1>3. EmptyGraph \in GraphStates
  BY <1>1, <1>2 DEF GraphStates
<1>4. \A n \in Vertices : Pred(EmptyGraph, n) = {} /\ Succ(EmptyGraph, n) = {}
  BY <1>1 DEF Pred, Succ
<1> QED
  BY <1>1, <1>2, <1>3, <1>4, FS_EmptySet DEF CountedGraphs

(* The edges between tasks are the dependences.                            *)
LEMMA GraphOfDataIs ==
    ASSUME NEW acc, IsAccesses(acc)
    PROVE  GraphOfData(acc) \in CountedGraphs /\ GraphOfData(acc).edges = Dependences(acc)
<1> DEFINE X == DOMAIN acc.writeBy
           D == CountedGraphs
           g == EmptyGraph
           Op(h, k) == DataEdges(h, acc, k)
           c == [s \in SUBSET X |-> CHOOSE k \in s : TRUE]
           e == [k \in X |-> k]
           st == [hk \in D \X X |-> Op(hk[1], hk[2])]
           Body(F) == [s \in SUBSET X |->
                         IF s = {} THEN g ELSE Op(F[s \ {CHOOSE k \in s : TRUE}], CHOOSE k \in s : TRUE)]
           iter == CHOOSE F : F = Body(F)
           Of == [s \in SUBSET X |-> UNION {RecordEdges(acc, k) : k \in s}]
           I == {v \in (SUBSET X) \X D : v[2].edges = Of[v[1]]}
<1>1. GraphOfData(acc) = iter[X]
  BY DEF GraphOfData, FoldSet, MapThenFoldSet
<1>2. IsFiniteSet(X) /\ g \in D /\ g.edges = {}
  BY EmptyGraphCounts DEF IsAccesses
<1>3. ASSUME NEW h \in D, NEW k \in X
      PROVE  Op(h, k) \in D /\ Op(h, k).edges = h.edges \cup RecordEdges(acc, k)
  BY DataEdgesAdds
<1> HIDE DEF g, Op
<1>4. \A h \in D, k \in X : st[<<h, k>>] = Op(h, k)
  OBVIOUS
<1>5. st \in [D \X X -> D]
  BY <1>3
<1>6. \A s \in SUBSET X : c[s] = CHOOSE k \in s : TRUE
  OBVIOUS
<1>7. Chooses(c, X)
  BY <1>6 DEF Chooses
<1>8. e \in [X -> X] /\ \A k \in X : e[k] = k
  OBVIOUS
<1> HIDE DEF X, D, c, e, st
<1>9. PICK F : /\ F \in [SUBSET X -> D]
               /\ \A s \in SUBSET X :
                     F[s] = IF s = {} THEN g ELSE st[<<F[s \ {c[s]}], e[c[s]]>>]
  <2>1. \E F : Folds(F, X, c, e, D, g, st)
    BY <1>2, <1>5, <1>7, <1>8, FoldExists
  <2> QED
    BY <2>1 DEF Folds
<1>10. F = Body(F)
  <2>1. \A s \in SUBSET X :
           F[s] = IF s = {} THEN g ELSE Op(F[s \ {CHOOSE k \in s : TRUE}], CHOOSE k \in s : TRUE)
    <3> SUFFICES ASSUME NEW s \in SUBSET X, s # {}
                 PROVE  F[s] = Op(F[s \ {c[s]}], c[s])
      BY <1>6, <1>9
    <3>1. c[s] \in X /\ F[s \ {c[s]}] \in D
      BY <1>7, <1>9 DEF Chooses
    <3>2. F[s] = st[<<F[s \ {c[s]}], c[s]>>]
      BY <1>8, <1>9, <3>1
    <3> QED
      BY <1>4, <3>1, <3>2
  <2> QED
    BY <1>9, <2>1, Zenon
<1>11. iter = Body(iter)
  <2> HIDE DEF Body
  <2> QED
    BY <1>10
<1> HIDE DEF iter
<1>12. \A s \in SUBSET X :
          iter[s] = IF s = {} THEN g ELSE Op(iter[s \ {CHOOSE k \in s : TRUE}], CHOOSE k \in s : TRUE)
  BY <1>11
<1>13. GoesThrough(iter, X, c, D, g, st)
  <2>1. ASSUME NEW s \in SUBSET X, s # {}, iter[s \ {c[s]}] \in D
        PROVE  iter[s] = st[<<iter[s \ {c[s]}], c[s]>>]
    <3>1. c[s] \in X
      BY <1>7, <2>1 DEF Chooses
    <3>2. iter[s] = Op(iter[s \ {c[s]}], c[s])
      BY <1>6, <1>12, <2>1
    <3> QED
      BY <1>4, <2>1, <3>1, <3>2
  <2>2. iter[{}] = g
    BY <1>12
  <2> QED
    BY <2>1, <2>2 DEF GoesThrough
<1>14. KeepsSets(I, X, D, g, st)
  <2>1. ASSUME NEW s \in SUBSET X, NEW k \in X \ s, NEW h \in D, <<s, h>> \in I
        PROVE  <<s \cup {k}, st[<<h, k>>]>> \in I
    <3>1. h.edges = Of[s]
      BY <2>1
    <3>2. st[<<h, k>>] \in D /\ st[<<h, k>>].edges = h.edges \cup RecordEdges(acc, k)
      BY <1>3, <1>4
    <3>3. s \cup {k} \in SUBSET X
      OBVIOUS
    <3>4. st[<<h, k>>].edges = Of[s \cup {k}]
      BY <3>1, <3>2, <3>3
    <3> HIDE DEF Of
    <3> QED
      BY <3>2, <3>3, <3>4
  <2>2. <<{}, g>> \in I
    <3>1. g.edges = Of[{}] /\ {} \in SUBSET X
      BY <1>2
    <3> HIDE DEF Of
    <3> QED
      BY <1>2, <3>1
  <2> HIDE DEF I
  <2> QED
    BY <2>1, <2>2 DEF KeepsSets
<1>15. iter[X] \in D /\ <<X, iter[X]>> \in I
  <2> HIDE DEF I
  <2> QED
    BY <1>2, <1>5, <1>7, <1>13, <1>14, FoldSetSteps
<1>16. Of[X] = Dependences(acc)
  BY DEF RecordEdges, Dependences, X
<1>17. iter[X].edges = Of[X]
  <2> HIDE DEF Of
  <2> QED
    BY <1>15
<1> QED
  BY <1>1, <1>15, <1>16, <1>17 DEF D

(***************************************************************************)
(* The entry and the end.                                                  *)
(***************************************************************************)

(* A task is joined to the entry if it depends on nothing, and to the end  *)
(* if nothing depends on it.                                               *)
LEMMA JoinEndsAdds ==
    ASSUME NEW g \in CountedGraphs, NEW t \in Tasks
    PROVE  /\ JoinEnds(g, t) \in CountedGraphs
           /\ JoinEnds(g, t).edges =
                 g.edges \cup (IF Pred(g, t) = {} THEN {<<Entry, t>>} ELSE {})
                         \cup (IF Succ(g, t) = {} THEN {<<t, End>>} ELSE {})
<1>1. t \in Vertices /\ Entry \in Vertices /\ End \in Vertices /\ t # Entry
  BY SizesAssumption DEF Vertices, Tasks, Entry, End
<1>2. ASSUME NEW h \in CountedGraphs
      PROVE  /\ h.inDegree[t] = 0 <=> Pred(h, t) = {}
             /\ h.outDegree[t] = 0 <=> Succ(h, t) = {}
  <2>1. h.inDegree[t] = Cardinality(Pred(h, t)) /\ h.outDegree[t] = Cardinality(Succ(h, t))
    BY <1>1 DEF CountedGraphs
  <2>2. IsFiniteSet(Pred(h, t)) /\ IsFiniteSet(Succ(h, t))
    BY PredFinite, VerticesFinite, FS_Subset DEF Succ
  <2> QED
    BY <2>1, <2>2, FS_EmptySet
<1> DEFINE h == IF g.inDegree[t] = 0 THEN AddEdge(g, Entry, t) ELSE g
<1>3. /\ h \in CountedGraphs
      /\ h.edges = g.edges \cup (IF Pred(g, t) = {} THEN {<<Entry, t>>} ELSE {})
  BY <1>1, <1>2, AddEdgeCounts
<1>4. JoinEnds(g, t) = IF h.outDegree[t] = 0 THEN AddEdge(h, t, End) ELSE h
  BY DEF JoinEnds
<1> HIDE DEF h
<1>5. Succ(h, t) = Succ(g, t)
  BY <1>1, <1>3 DEF Succ
<1>6. CASE Succ(g, t) = {}
  <2>1. JoinEnds(g, t) = AddEdge(h, t, End)
    BY <1>2, <1>3, <1>4, <1>5, <1>6
  <2>2. AddEdge(h, t, End) \in CountedGraphs
        /\ AddEdge(h, t, End).edges = h.edges \cup {<<t, End>>}
    BY <1>1, <1>3, AddEdgeCounts
  <2> QED
    BY <1>3, <1>6, <2>1, <2>2
<1>7. CASE Succ(g, t) # {}
  <2>1. JoinEnds(g, t) = h
    BY <1>2, <1>3, <1>4, <1>5, <1>7
  <2> QED
    BY <1>3, <1>7, <2>1
<1> QED
  BY <1>6, <1>7

(* GenerateGraph gives the dependences, joined to the entry and the end,   *)
(* and the degrees are the numbers of edges.                               *)
THEOREM GenerateGraphCorrect ==
    ASSUME NEW acc, IsAccesses(acc)
    PROVE  /\ GenerateGraph(acc) \in CountedGraphs
           /\ GenerateGraph(acc).edges = Joined(Dependences(acc))
<1> DEFINE X == Tasks
           D == CountedGraphs
           g == GraphOfData(acc)
           dep == Dependences(acc)
           c == [s \in SUBSET X |-> CHOOSE t \in s : TRUE]
           e == [t \in X |-> t]
           st == [ht \in D \X X |-> JoinEnds(ht[1], ht[2])]
           Body(F) == [s \in SUBSET X |->
                         IF s = {} THEN g ELSE JoinEnds(F[s \ {CHOOSE t \in s : TRUE}], CHOOSE t \in s : TRUE)]
           iter == CHOOSE F : F = Body(F)
           Source(t) == ~\E v \in dep : v[2] = t
           Sink(t) == ~\E v \in dep : v[1] = t
           Of == [s \in SUBSET X |-> dep \cup {<<Entry, t>> : t \in {t \in s : Source(t)}}
                                         \cup {<<t, End>> : t \in {t \in s : Sink(t)}}]
           I == {v \in (SUBSET X) \X D : v[2].edges = Of[v[1]]}
<1>1. GenerateGraph(acc) = iter[X]
  BY DEF GenerateGraph, FoldSet, MapThenFoldSet
<1>2. IsFiniteSet(X) /\ g \in D /\ g.edges = dep
  BY SizesAssumption, FS_Interval, GraphOfDataIs DEF Tasks
<1>3. \A h \in D, t \in X : st[<<h, t>>] = JoinEnds(h, t)
  OBVIOUS
<1>4. st \in [D \X X -> D]
  BY JoinEndsAdds
<1>5. \A s \in SUBSET X : c[s] = CHOOSE t \in s : TRUE
  OBVIOUS
<1>6. Chooses(c, X)
  BY <1>5 DEF Chooses
<1>7. e \in [X -> X] /\ \A t \in X : e[t] = t
  OBVIOUS
<1> HIDE DEF D, g, c, e, st
<1>8. PICK F : /\ F \in [SUBSET X -> D]
               /\ \A s \in SUBSET X :
                     F[s] = IF s = {} THEN g ELSE st[<<F[s \ {c[s]}], e[c[s]]>>]
  <2>1. \E F : Folds(F, X, c, e, D, g, st)
    BY <1>2, <1>4, <1>6, <1>7, FoldExists
  <2> QED
    BY <2>1 DEF Folds
<1>9. F = Body(F)
  <2>1. \A s \in SUBSET X :
           F[s] = IF s = {} THEN g ELSE JoinEnds(F[s \ {CHOOSE t \in s : TRUE}], CHOOSE t \in s : TRUE)
    <3> SUFFICES ASSUME NEW s \in SUBSET X, s # {}
                 PROVE  F[s] = JoinEnds(F[s \ {c[s]}], c[s])
      BY <1>5, <1>8
    <3>1. c[s] \in X /\ F[s \ {c[s]}] \in D
      BY <1>6, <1>8 DEF Chooses
    <3>2. F[s] = st[<<F[s \ {c[s]}], c[s]>>]
      BY <1>7, <1>8, <3>1
    <3> QED
      BY <1>3, <3>1, <3>2
  <2> QED
    BY <1>8, <2>1, Zenon
<1>10. iter = Body(iter)
  <2> HIDE DEF Body
  <2> QED
    BY <1>9
<1> HIDE DEF iter
<1>11. \A s \in SUBSET X :
          iter[s] = IF s = {} THEN g ELSE JoinEnds(iter[s \ {CHOOSE t \in s : TRUE}], CHOOSE t \in s : TRUE)
  BY <1>10
<1>12. GoesThrough(iter, X, c, D, g, st)
  <2>1. ASSUME NEW s \in SUBSET X, s # {}, iter[s \ {c[s]}] \in D
        PROVE  iter[s] = st[<<iter[s \ {c[s]}], c[s]>>]
    <3>1. c[s] \in X
      BY <1>6, <2>1 DEF Chooses
    <3>2. iter[s] = JoinEnds(iter[s \ {c[s]}], c[s])
      BY <1>5, <1>11, <2>1
    <3> QED
      BY <1>3, <2>1, <3>1, <3>2
  <2>2. iter[{}] = g
    BY <1>11
  <2> QED
    BY <2>1, <2>2 DEF GoesThrough
<1>13. dep \subseteq Tasks \X Tasks /\ Tasks \subseteq Vertices /\ Entry \notin Tasks /\ End \notin Tasks
  BY SizesAssumption DEF Dependences, Vertices, Entry, End, Tasks
<1>14. KeepsSets(I, X, D, g, st)
  <2>1. ASSUME NEW s \in SUBSET X, NEW t \in X \ s, NEW h \in D, <<s, h>> \in I
        PROVE  <<s \cup {t}, st[<<h, t>>]>> \in I
    <3>1. h.edges = dep \cup {<<Entry, u>> : u \in {u \in s : Source(u)}}
                        \cup {<<u, End>> : u \in {u \in s : Sink(u)}}
      BY <2>1
    <3>2. Pred(h, t) = {} <=> Source(t)
      <4>1. \A v \in Vertices : <<v, t>> \in h.edges <=> <<v, t>> \in dep
        BY <1>13, <3>1
      <4>2. \A v \in dep : v = <<v[1], v[2]>> /\ v[1] \in Vertices
        BY <1>13
      <4> QED
        BY <4>1, <4>2 DEF Pred
    <3>3. Succ(h, t) = {} <=> Sink(t)
      <4>1. \A v \in Vertices : <<t, v>> \in h.edges <=> <<t, v>> \in dep
        BY <1>13, <3>1
      <4>2. \A v \in dep : v = <<v[1], v[2]>> /\ v[2] \in Vertices
        BY <1>13
      <4> QED
        BY <4>1, <4>2 DEF Succ
    <3> HIDE DEF Source, Sink
    <3>4. /\ st[<<h, t>>] \in D
          /\ st[<<h, t>>].edges = h.edges \cup (IF Source(t) THEN {<<Entry, t>>} ELSE {})
                                          \cup (IF Sink(t) THEN {<<t, End>>} ELSE {})
      BY <1>3, <3>2, <3>3, JoinEndsAdds DEF D
    <3>5. s \cup {t} \in SUBSET X
      OBVIOUS
    <3>6. {u \in s \cup {t} : Source(u)} = {u \in s : Source(u)} \cup (IF Source(t) THEN {t} ELSE {})
      OBVIOUS
    <3>7. {u \in s \cup {t} : Sink(u)} = {u \in s : Sink(u)} \cup (IF Sink(t) THEN {t} ELSE {})
      OBVIOUS
    <3>8. st[<<h, t>>].edges = Of[s \cup {t}]
      BY <3>1, <3>4, <3>5, <3>6, <3>7
    <3> HIDE DEF Of
    <3> QED
      BY <3>4, <3>5, <3>8
  <2>2. <<{}, g>> \in I
    <3>1. g.edges = Of[{}] /\ {} \in SUBSET X
      BY <1>2
    <3> HIDE DEF Of
    <3> QED
      BY <1>2, <3>1
  <2> HIDE DEF I
  <2> QED
    BY <2>1, <2>2 DEF KeepsSets
<1>15. iter[X] \in D /\ <<X, iter[X]>> \in I
  <2> HIDE DEF I
  <2> QED
    BY <1>2, <1>4, <1>6, <1>12, <1>14, FoldSetSteps
<1>16. Of[X] = Joined(dep)
  BY DEF Joined
<1>17. iter[X].edges = Of[X]
  <2> HIDE DEF Of
  <2> QED
    BY <1>15
<1> QED
  BY <1>1, <1>15, <1>16, <1>17 DEF D

(***************************************************************************)
(* The topological order.                                                  *)
(***************************************************************************)

(* What a vertex comes after, and how many may come before it.             *)
Waited(g, rev, n) == IF rev THEN Succ(g, n) ELSE Pred(g, n)
Place(rev, n) == IF rev THEN NTasks - n ELSE n + 1

(* The graphs whose edges follow the order of the IDs.                     *)
Directed(g) == g \in CountedGraphs /\ \A e \in g.edges : e[1] < e[2]

(* The degree that getTopo counts down is the number of vertices that n    *)
(* comes after, and those have earlier places.                             *)
LEMMA WaitedFacts ==
    ASSUME NEW g, Directed(g), NEW rev \in BOOLEAN, NEW n \in Vertices
    PROVE  /\ Waited(g, rev, n) \subseteq Vertices
           /\ IsFiniteSet(Waited(g, rev, n))
           /\ (IF rev THEN g.outDegree ELSE g.inDegree)[n] = Cardinality(Waited(g, rev, n))
           /\ \A u \in Vertices : n \in Onward(g, rev, u) <=> u \in Waited(g, rev, n)
           /\ Place(rev, n) \in 0 .. NTasks + 1
           /\ \A u \in Waited(g, rev, n) : Place(rev, u) < Place(rev, n)
<1>1. /\ g \in CountedGraphs
      /\ \A e \in g.edges : e[1] < e[2]
      /\ g.inDegree[n] = Cardinality(Pred(g, n)) /\ g.outDegree[n] = Cardinality(Succ(g, n))
  BY DEF Directed, CountedGraphs
<1>2. Waited(g, rev, n) \subseteq Vertices /\ IsFiniteSet(Waited(g, rev, n))
  <2>1. Waited(g, rev, n) \subseteq Vertices
    BY DEF Waited, Succ, Pred
  <2> QED
    BY <2>1, VerticesFinite, FS_Subset
<1>3. \A v \in Vertices : v \in Int /\ -1 <= v /\ v <= NTasks
  BY SizesAssumption DEF Vertices, Tasks, Entry, End
<1>4. Place(rev, n) \in 0 .. NTasks + 1
  BY <1>3, SizesAssumption DEF Place
<1>5. ASSUME NEW u \in Waited(g, rev, n) PROVE Place(rev, u) < Place(rev, n)
  <2>1. u \in Vertices /\ u \in Int /\ n \in Int /\ NTasks \in Int
    BY <1>2, <1>3, SizesAssumption
  <2>2. CASE rev
    <3>1. <<n, u>> \in g.edges
      BY <2>2 DEF Waited, Succ
    <3>2. n < u
      BY <1>1, <3>1
    <3> QED
      BY <2>1, <2>2, <3>2 DEF Place
  <2>3. CASE ~rev
    <3>1. <<u, n>> \in g.edges
      BY <2>3 DEF Waited, Pred
    <3>2. u < n
      BY <1>1, <3>1
    <3> QED
      BY <2>1, <2>3, <3>2 DEF Place
  <2> QED
    BY <2>2, <2>3
<1>6. \A u \in Vertices : n \in Onward(g, rev, u) <=> u \in Waited(g, rev, n)
  BY DEF Onward, Waited, Succ, Pred
<1>7. (IF rev THEN g.outDegree ELSE g.inDegree)[n] = Cardinality(Waited(g, rev, n))
  BY <1>1 DEF Waited
<1> QED
  BY <1>2, <1>4, <1>5, <1>6, <1>7

(* The rounds of the loop.                                                 *)
LEMMA RoundsAre ==
    ASSUME NEW g, Directed(g), NEW rev \in BOOLEAN
    PROVE  /\ Rounds(g, rev)[0] = FirstRound(g, rev)
           /\ \A i \in 1 .. NTasks + 2 :
                 Rounds(g, rev)[i] = NextRound(g, rev, Rounds(g, rev)[i - 1])
<1> DEFINE N == NTasks + 2
           S == 0 .. N
           m == [i \in S |-> i]
           p == [i \in S |-> IF i = 0 THEN 0 ELSE i - 1]
           D == [left: [Vertices -> Int], zero: SUBSET Vertices]
           first == FirstRound(g, rev)
           Op(r) == NextRound(g, rev, r)
           st == [ir \in S \X D |-> Op(ir[2])]
           Body(F) == [i \in S |-> IF i = 0 THEN first ELSE Op(F[i - 1])]
           iter == CHOOSE F : F = Body(F)
<1>1. Rounds(g, rev) = iter
  BY DEF Rounds
<1>2. N \in Nat /\ \A i \in S : i - 1 \in S \/ i = 0
  BY SizesAssumption
<1>3. Descends(S, N, m, p)
  <2>1. m \in [S -> 0 .. N] /\ \A i \in S : m[i] = i
    OBVIOUS
  <2>2. p \in [S -> S] /\ \A i \in S : p[i] = IF i = 0 THEN 0 ELSE i - 1
    BY <1>2
  <2>3. \A i \in S : m[i] # 0 => m[p[i]] < m[i]
    BY <1>2, <2>1, <2>2
  <2> HIDE DEF m, p
  <2> QED
    BY <1>2, <2>1, <2>2, <2>3 DEF Descends
<1>4. first \in D
  <2>1. \A n \in Vertices : (IF rev THEN g.outDegree ELSE g.inDegree)[n] \in Int
    BY DEF Directed, CountedGraphs, GraphStates
  <2>2. (IF rev THEN g.outDegree ELSE g.inDegree) \in [Vertices -> Int]
    BY DEF Directed, CountedGraphs, GraphStates
  <2> QED
    BY <2>2 DEF FirstRound
<1>5. \A r \in D : Op(r) \in D
  <2> SUFFICES ASSUME NEW r \in D PROVE Op(r) \in D
    OBVIOUS
  <2> DEFINE done(v) == {n \in r.zero : v \in Onward(g, rev, n)}
             left == [v \in Vertices |-> r.left[v] - Cardinality(done(v))]
  <2>1. Op(r) = [left |-> left, zero |-> {v \in Vertices : r.left[v] # 0 /\ left[v] = 0}]
    BY DEF NextRound
  <2>2. \A v \in Vertices : Cardinality(done(v)) \in Nat
    BY VerticesFinite, FS_Subset, FS_CardinalityType
  <2> HIDE DEF done
  <2>3. left \in [Vertices -> Int]
    BY <2>2
  <2> HIDE DEF left, Op
  <2> QED
    BY <2>1, <2>3
<1> HIDE DEF Op
<1>6. st \in [S \X D -> D]
  BY <1>5
<1>7. \A i \in S, r \in D : st[<<i, r>>] = Op(r)
  OBVIOUS
<1>8. \A i \in S : m[i] = i /\ p[i] = IF i = 0 THEN 0 ELSE i - 1
  OBVIOUS
<1> HIDE DEF m, p, st, D, first
<1>9. PICK F : /\ F \in [S -> D]
               /\ \A i \in S : F[i] = IF m[i] = 0 THEN first ELSE st[<<i, F[p[i]]>>]
  <2>1. \E F : Recurses(F, S, m, p, D, first, st)
    BY <1>3, <1>4, <1>6, RecursionExists
  <2> QED
    BY <2>1 DEF Recurses
<1>10. F = Body(F)
  <2>1. \A i \in S : F[i] = IF i = 0 THEN first ELSE Op(F[i - 1])
    <3> SUFFICES ASSUME NEW i \in S, i # 0 PROVE F[i] = Op(F[i - 1])
      BY <1>8, <1>9
    <3>1. i - 1 \in S
      BY <1>2
    <3>2. F[i - 1] \in D
      BY <1>9, <3>1
    <3>3. m[i] # 0 /\ p[i] = i - 1
      BY <1>8
    <3>4. F[i] = st[<<i, F[i - 1]>>]
      BY <1>9, <3>3
    <3> QED
      BY <1>7, <3>2, <3>4
  <2> HIDE DEF S
  <2> QED
    BY <1>9, <2>1, Zenon
<1>11. iter = Body(iter)
  <2> HIDE DEF Body
  <2> QED
    BY <1>10
<1> HIDE DEF iter
<1>12. \A i \in S : iter[i] = IF i = 0 THEN first ELSE Op(iter[i - 1])
  <2> HIDE DEF S
  <2> QED
    BY <1>11
<1>13. 0 \in S /\ \A i \in 1 .. NTasks + 2 : i \in S /\ i # 0
  BY <1>2
<1> QED
  BY <1>1, <1>12, <1>13 DEF Op, first

(* The vertices whose turn came before round i.                            *)
DoneBefore(g, rev, i) == UNION {Rounds(g, rev)[j].zero : j \in 0 .. i - 1}

(* Round i has what each vertex still waits for, and takes those that wait *)
(* for nothing more; what it takes has come after all it waited for, and   *)
(* by place i everything is done.                                          *)
RoundInv(g, rev, i) ==
    LET r == Rounds(g, rev)[i]
        done == DoneBefore(g, rev, i)
    IN  /\ r.left = [v \in Vertices |-> Cardinality(Waited(g, rev, v) \ done)]
        /\ r.zero = {v \in Vertices \ done : Waited(g, rev, v) \subseteq done}
        /\ done \subseteq Vertices
        /\ \A v \in done : Waited(g, rev, v) \subseteq done
        /\ \A v \in Vertices : Place(rev, v) < i => v \in done

(* Before the loop nothing is done.                                        *)
LEMMA FirstRoundInv ==
    ASSUME NEW g, Directed(g), NEW rev \in BOOLEAN
    PROVE  RoundInv(g, rev, 0)
<1> DEFINE r == Rounds(g, rev)[0]
           done == DoneBefore(g, rev, 0)
           degree == IF rev THEN g.outDegree ELSE g.inDegree
<1>1. done = {}
  BY DEF DoneBefore
<1>2. r = [left |-> degree, zero |-> {n \in Vertices : degree[n] = 0}]
  BY RoundsAre DEF FirstRound
<1>3. degree \in [Vertices -> Nat]
  BY DEF Directed, CountedGraphs, GraphStates
<1>4. ASSUME NEW v \in Vertices
      PROVE  /\ degree[v] = Cardinality(Waited(g, rev, v) \ done)
             /\ degree[v] = 0 <=> Waited(g, rev, v) \subseteq done
             /\ ~ (Place(rev, v) < 0)
  <2>1. /\ degree[v] = Cardinality(Waited(g, rev, v)) /\ IsFiniteSet(Waited(g, rev, v))
        /\ Place(rev, v) \in 0 .. NTasks + 1
    BY WaitedFacts
  <2>2. Waited(g, rev, v) \ done = Waited(g, rev, v)
    BY <1>1
  <2>3. degree[v] = 0 <=> Waited(g, rev, v) = {}
    BY <2>1, FS_EmptySet
  <2>4. ~ (Place(rev, v) < 0)
    BY <2>1, SizesAssumption
  <2> HIDE DEF done, degree
  <2> QED
    BY <1>1, <2>1, <2>2, <2>3, <2>4
<1> HIDE DEF r, done, degree
<1>5. r.left = degree /\ r.zero = {n \in Vertices : degree[n] = 0}
  BY <1>2
<1>6. degree = [v \in Vertices |-> Cardinality(Waited(g, rev, v) \ done)]
  BY <1>3, <1>4
<1>7. r.zero = {v \in Vertices \ done : Waited(g, rev, v) \subseteq done}
  BY <1>1, <1>4, <1>5
<1> QED
  BY <1>1, <1>4, <1>5, <1>6, <1>7 DEF RoundInv, r, done

(* A pass of the loop keeps it.                                            *)
LEMMA NextRoundInv ==
    ASSUME NEW g, Directed(g), NEW rev \in BOOLEAN, NEW i \in 0 .. NTasks + 1,
           RoundInv(g, rev, i)
    PROVE  RoundInv(g, rev, i + 1)
<1> DEFINE r == Rounds(g, rev)[i]
           q == Rounds(g, rev)[i + 1]
           done == DoneBefore(g, rev, i)
           more == DoneBefore(g, rev, i + 1)
           W(v) == Waited(g, rev, v)
<1>1. /\ r.left = [v \in Vertices |-> Cardinality(W(v) \ done)]
      /\ r.zero = {v \in Vertices \ done : W(v) \subseteq done}
      /\ done \subseteq Vertices
      /\ \A v \in done : W(v) \subseteq done
      /\ \A v \in Vertices : Place(rev, v) < i => v \in done
  BY DEF RoundInv
<1>2. q = NextRound(g, rev, r)
  <2>1. i + 1 \in 1 .. NTasks + 2 /\ (i + 1) - 1 = i
    BY SizesAssumption
  <2> QED
    BY <2>1, RoundsAre
<1>3. more = done \cup r.zero
  <2>1. 0 .. (i + 1) - 1 = (0 .. i - 1) \cup {i}
    OBVIOUS
  <2> QED
    BY <2>1 DEF DoneBefore
<1> DEFINE taken(v) == {n \in r.zero : v \in Onward(g, rev, n)}
<1>4. /\ q.left = [v \in Vertices |-> r.left[v] - Cardinality(taken(v))]
      /\ q.zero = {v \in Vertices : r.left[v] # 0 /\ q.left[v] = 0}
  BY <1>2 DEF NextRound
<1> HIDE DEF r, q, done, more
<1>5. \A v \in Vertices : W(v) \subseteq Vertices /\ IsFiniteSet(W(v))
  BY WaitedFacts
<1>6. ASSUME NEW v \in Vertices
      PROVE  /\ q.left[v] = Cardinality(W(v) \ more)
             /\ r.left[v] = 0 <=> W(v) \subseteq done
             /\ q.left[v] = 0 <=> W(v) \subseteq more
  <2>1. taken(v) = W(v) \cap r.zero
    BY <1>1, WaitedFacts
  <2>2. W(v) \ done = (W(v) \ more) \cup taken(v) /\ (W(v) \ more) \cap taken(v) = {}
    BY <1>1, <1>3, <1>5, <2>1
  <2>3. /\ IsFiniteSet(W(v) \ more) /\ IsFiniteSet(taken(v)) /\ IsFiniteSet(W(v) \ done)
    <3>1. W(v) \ more \in SUBSET W(v) /\ taken(v) \in SUBSET W(v) /\ W(v) \ done \in SUBSET W(v)
      BY <2>1
    <3> HIDE DEF W, taken
    <3> QED
      BY <1>5, <3>1, FS_Subset
  <2> HIDE DEF W, taken
  <2>4. Cardinality(W(v) \ done) = Cardinality(W(v) \ more) + Cardinality(taken(v))
    <3> DEFINE A == W(v) \ more
               B == taken(v)
    <3>1. /\ IsFiniteSet(A) /\ IsFiniteSet(B) /\ A \cap B = {} /\ W(v) \ done = A \cup B
      BY <2>2, <2>3
    <3> HIDE DEF A, B
    <3>2. Cardinality(A \cup B) = Cardinality(A) + Cardinality(B) - Cardinality(A \cap B)
      BY <3>1, FS_Union
    <3>3. Cardinality(A \cap B) = 0 /\ Cardinality(A) \in Nat /\ Cardinality(B) \in Nat
      BY <3>1, FS_EmptySet, FS_CardinalityType
    <3>4. Cardinality(A \cup B) = Cardinality(A) + Cardinality(B)
      BY <3>2, <3>3
    <3>5. Cardinality(W(v) \ done) = Cardinality(A \cup B)
      BY <3>1, Zenon
    <3> QED
      BY <3>4, <3>5 DEF A, B
  <2>5. /\ Cardinality(W(v) \ more) \in Nat /\ Cardinality(taken(v)) \in Nat
        /\ Cardinality(W(v) \ done) \in Nat
    BY <2>3, FS_CardinalityType
  <2>6. q.left[v] = Cardinality(W(v) \ more) /\ r.left[v] = Cardinality(W(v) \ done)
    BY <1>1, <1>4, <2>4, <2>5
  <2>7. r.left[v] = 0 <=> W(v) \ done = {}
    BY <2>3, <2>6, FS_EmptySet
  <2>8. q.left[v] = 0 <=> W(v) \ more = {}
    BY <2>3, <2>6, FS_EmptySet
  <2> QED
    BY <2>6, <2>7, <2>8
<1> HIDE DEF W
<1>7. q.left = [v \in Vertices |-> Cardinality(W(v) \ more)]
  <2>1. q.left = [v \in Vertices |-> q.left[v]]
    BY <1>4
  <2> QED
    BY <1>6, <2>1
<1>8. more \subseteq Vertices /\ \A v \in more : W(v) \subseteq more
  BY <1>1, <1>3
<1>9. q.zero = {v \in Vertices \ more : W(v) \subseteq more}
  BY <1>1, <1>3, <1>4, <1>6
<1>10. ASSUME NEW v \in Vertices, Place(rev, v) < i + 1 PROVE v \in more
  <2>1. /\ Place(rev, v) \in 0 .. NTasks + 1
        /\ \A u \in W(v) : Place(rev, u) < Place(rev, v)
    BY WaitedFacts DEF W
  <2>2. \A u \in W(v) : Place(rev, u) \in 0 .. NTasks + 1 /\ u \in Vertices
    BY <1>5, WaitedFacts
  <2>3. \A u \in W(v) : Place(rev, u) < i
    BY <1>10, <2>1, <2>2, SizesAssumption
  <2>4. W(v) \subseteq done
    BY <1>1, <2>2, <2>3
  <2> QED
    BY <1>1, <1>3, <2>4
<1> QED
  BY <1>7, <1>8, <1>9, <1>10 DEF RoundInv, q, more, W

(* So it is of every round.                                                *)
LEMMA RoundsInv ==
    ASSUME NEW g, Directed(g), NEW rev \in BOOLEAN
    PROVE  \A i \in 0 .. NTasks + 2 : RoundInv(g, rev, i)
<1> DEFINE S == 0 .. NTasks + 2
           m == [i \in S |-> i]
           Good == {i \in S : RoundInv(g, rev, i)}
<1>1. \A i \in S : (\A j \in S : m[j] < m[i] => j \in Good) => i \in Good
  <2> SUFFICES ASSUME NEW i \in S, \A j \in S : j < i => j \in Good
               PROVE  RoundInv(g, rev, i)
    OBVIOUS
  <2>1. CASE i = 0
    BY <2>1, FirstRoundInv
  <2>2. CASE i # 0
    <3>1. i - 1 \in 0 .. NTasks + 1 /\ i - 1 \in S /\ i - 1 < i /\ (i - 1) + 1 = i
      BY <2>2, SizesAssumption
    <3>2. RoundInv(g, rev, i - 1)
      BY <3>1
    <3> HIDE DEF Good, S
    <3> QED
      BY <3>1, <3>2, NextRoundInv
  <2> QED
    BY <2>1, <2>2
<1>2. S \subseteq Good
  <2>1. m \in [S -> Nat]
    BY SizesAssumption
  <2> HIDE DEF S, m, Good
  <2> QED
    BY <1>1, <2>1, MeasureInduction
<1> QED
  BY <1>2

(* Levels in topological order: each has vertices that come after nothing  *)
(* but vertices of earlier levels, none of them for a second time, and     *)
(* every vertex has its turn.                                              *)
Earlier(levels, i) == UNION {levels[j] : j \in 1 .. i - 1}
TopoOrder(levels, from) ==
    /\ levels \in Seq(SUBSET Vertices)
    /\ \A i \in 1 .. Len(levels) : \A v \in levels[i] :
          v \notin Earlier(levels, i) /\ from[v] \subseteq Earlier(levels, i)
    /\ Vertices = UNION {levels[i] : i \in 1 .. Len(levels)}

(* The loop of getTopo ends when every vertex has had its turn.            *)
THEOREM GetTopoCorrect ==
    ASSUME NEW g, Directed(g), NEW rev \in BOOLEAN, NEW from,
           \A n \in Vertices : from[n] = Waited(g, rev, n)
    PROVE  TopoOrder(GetTopo(g, rev), from)
<1> DEFINE N == NTasks + 2
           round == Rounds(g, rev)
           empty == {i \in 0 .. N : round[i].zero = {}}
           stop == Min(empty)
           levels == GetTopo(g, rev)
           Done(i) == DoneBefore(g, rev, i)
           W(v) == Waited(g, rev, v)
<1>1. N \in Nat
  BY SizesAssumption
<1>2. ASSUME NEW i \in 0 .. N
      PROVE  /\ round[i].zero = {v \in Vertices \ Done(i) : W(v) \subseteq Done(i)}
             /\ Done(i) \subseteq Vertices
             /\ \A v \in Vertices : Place(rev, v) < i => v \in Done(i)
  <2>1. RoundInv(g, rev, i)
    BY RoundsInv
  <2> QED
    BY <2>1 DEF RoundInv
<1>3. \A v \in Vertices : /\ W(v) \subseteq Vertices
                          /\ Place(rev, v) \in 0 .. NTasks + 1
                          /\ \A u \in W(v) : Place(rev, u) < Place(rev, v)
  BY WaitedFacts
<1>4. N \in empty
  <2>1. \A v \in Vertices : Place(rev, v) < N
    BY <1>3, SizesAssumption
  <2>2. N \in 0 .. N
    BY <1>1
  <2>3. round[N].zero = {}
    <3> HIDE DEF N, Done, W, round
    <3> QED
      BY <1>2, <2>1, <2>2
  <2> QED
    BY <2>2, <2>3
<1>5. stop \in empty /\ \A i \in empty : stop <= i
  <2>1. empty \in SUBSET Nat
    BY <1>1
  <2>2. PICK x \in empty : \A y \in empty : x <= y
    <3> HIDE DEF empty
    <3> QED
      BY <1>4, <2>1, LeastNat
  <2> HIDE DEF empty
  <2> QED
    BY <2>2 DEF Min
<1>6. levels = [i \in 1 .. stop |-> round[i - 1].zero]
  BY DEF GetTopo
<1> HIDE DEF levels, stop
<1>7. stop \in 0 .. N /\ stop \in Nat /\ round[stop].zero = {}
  BY <1>1, <1>5
<1> HIDE DEF empty, round, N
<1>8. Done(stop) = Vertices
  <2> DEFINE m == [v \in Vertices |-> Place(rev, v)]
             G == Done(stop)
  <2>1. ASSUME NEW v \in Vertices, \A u \in Vertices : m[u] < m[v] => u \in G
        PROVE  v \in G
    <3>1. \A u \in W(v) : u \in Vertices /\ m[u] < m[v]
      BY <1>3
    <3>2. W(v) \subseteq G
      BY <2>1, <3>1
    <3> QED
      BY <1>2, <1>7, <3>2
  <2>2. m \in [Vertices -> Nat]
    BY <1>3, SizesAssumption
  <2>3. Vertices \subseteq G
    <3> HIDE DEF m, G
    <3> QED
      BY <2>1, <2>2, MeasureInduction
  <2> QED
    BY <1>2, <1>7, <2>3
<1>9. \A i \in 1 .. stop : levels[i] = round[i - 1].zero /\ i - 1 \in 0 .. N /\ i - 1 \in 0 .. stop
  BY <1>1, <1>6, <1>7
<1>10. levels \in Seq(SUBSET Vertices) /\ Len(levels) = stop
  <2>1. \A i \in 1 .. stop : round[i - 1].zero \in SUBSET Vertices
    BY <1>2, <1>9
  <2>2. levels \in [1 .. stop -> SUBSET Vertices]
    BY <1>6, <2>1
  <2> QED
    BY <1>7, <2>2
<1>11. ASSUME NEW i \in 0 .. stop
       PROVE  Done(i) = UNION {levels[j] : j \in 1 .. i}
  <2>1. Done(i) = UNION {round[j].zero : j \in 0 .. i - 1}
    BY DEF DoneBefore, round
  <2>2. \A j \in 0 .. i - 1 : j + 1 \in 1 .. i /\ levels[j + 1] = round[j].zero
    <3> SUFFICES ASSUME NEW j \in 0 .. i - 1
                 PROVE  j + 1 \in 1 .. i /\ levels[j + 1] = round[j].zero
      OBVIOUS
    <3>1. j + 1 \in 1 .. i /\ j + 1 \in 1 .. stop /\ (j + 1) - 1 = j
      BY <1>7
    <3> QED
      BY <1>9, <3>1
  <2>3. \A j \in 1 .. i : j - 1 \in 0 .. i - 1 /\ levels[j] = round[j - 1].zero
    <3> SUFFICES ASSUME NEW j \in 1 .. i
                 PROVE  j - 1 \in 0 .. i - 1 /\ levels[j] = round[j - 1].zero
      OBVIOUS
    <3>1. j - 1 \in 0 .. i - 1 /\ j \in 1 .. stop
      BY <1>7
    <3> QED
      BY <1>9, <3>1
  <2> HIDE DEF Done
  <2> QED
    BY <2>1, <2>2, <2>3
<1>12. ASSUME NEW i \in 1 .. stop, NEW v \in levels[i]
       PROVE  v \notin Earlier(levels, i) /\ from[v] \subseteq Earlier(levels, i)
  <2>1. Earlier(levels, i) = Done(i - 1)
    BY <1>9, <1>11 DEF Earlier
  <2>2. v \in Vertices \ Done(i - 1) /\ W(v) \subseteq Done(i - 1)
    <3> HIDE DEF Done, W
    <3> QED
      BY <1>2, <1>9
  <2> QED
    BY <2>1, <2>2
<1>13. Vertices = UNION {levels[i] : i \in 1 .. stop}
  BY <1>7, <1>8, <1>11
<1> QED
  BY <1>10, <1>12, <1>13 DEF TopoOrder, levels

(***************************************************************************)
(* The ranks.                                                              *)
(***************************************************************************)

(* Natural numbers, one for each element of a finite set, have a bound.    *)
LEMMA BoundExists ==
    ASSUME NEW S, IsFiniteSet(S), NEW f \in [S -> Nat]
    PROVE  \E b \in Nat : \A x \in S : f[x] <= b
<1> DEFINE U == SUBSET S
           Bounded(s) == \E b \in Nat : \A x \in s : f[x] <= b
           Good == {s \in U : Bounded(s)}
           m == [s \in U |-> Cardinality(s)]
<1>1. \A s \in U : IsFiniteSet(s) /\ Cardinality(s) \in Nat
  BY FS_Subset, FS_CardinalityType
<1>2. ASSUME NEW s \in U, \A t \in U : Cardinality(t) < Cardinality(s) => t \in Good
      PROVE  Bounded(s)
  <2>1. CASE s = {}
    BY <2>1
  <2>2. CASE s # {}
    <3>1. PICK y \in s : TRUE
      BY <2>2
    <3>2. s \ {y} \in U /\ Cardinality(s \ {y}) < Cardinality(s)
      BY <1>1, <3>1, FS_RemoveElement
    <3>3. PICK b \in Nat : \A x \in s \ {y} : f[x] <= b
      BY <1>2, <3>2
    <3>4. f[y] \in Nat /\ b + f[y] \in Nat
      BY <3>1
    <3>5. \A x \in s : f[x] <= b + f[y]
      BY <3>3, <3>4
    <3> QED
      BY <3>4, <3>5
  <2> QED
    BY <2>1, <2>2
<1>3. U \subseteq Good
  <2>1. m \in [U -> Nat]
    BY <1>1
  <2>2. \A s \in U : (\A t \in U : m[t] < m[s] => t \in Good) => s \in Good
    BY <1>2
  <2> HIDE DEF U, m, Good
  <2> QED
    BY <2>1, <2>2, MeasureInduction
<1> QED
  BY <1>3

(* The greatest of 0 and of some natural numbers.                          *)
LEMMA MaxIs ==
    ASSUME NEW S, IsFiniteSet(S), NEW f \in [S -> Nat], NEW T \in SUBSET S
    PROVE  LET M == {f[x] : x \in T}
               x == Max({0} \cup M)
           IN  x \in Nat /\ IsMaxOf(x, M)
<1> DEFINE M == {f[x] : x \in T}
           Z == {0} \cup M
<1>1. PICK b \in Nat : \A x \in S : f[x] <= b
  BY BoundExists
<1>2. Z \in SUBSET Nat /\ Z # {} /\ \A z \in Z : z <= b
  BY <1>1
<1>3. PICK z \in Z : \A y \in Z : y <= z
  <2>1. Z \in SUBSET Int /\ b \in Int /\ Z # {} /\ \A z \in Z : z <= b
    BY <1>2
  <2> HIDE DEF Z
  <2> QED
    BY <2>1, GreatestInt
<1>4. Max(Z) \in Z /\ \A y \in Z : y <= Max(Z)
  <2>1. \A y \in Z : z >= y
    BY <1>2, <1>3
  <2>2. Max(Z) \in Z /\ \A y \in Z : Max(Z) >= y
    <3> HIDE DEF Z
    <3> QED
      BY <1>3, <2>1 DEF Max
  <2> HIDE DEF Z
  <2> QED
    BY <1>2, <2>2
<1> QED
  BY <1>2, <1>4 DEF IsMaxOf

(* One pass over levels in topological order leaves every vertex with the  *)
(* value that its equation gives it.                                       *)
Solves(rank, from, own, step) ==
    /\ rank \in [Vertices -> Nat]
    /\ \A n \in Vertices :
          rank[n] = own[n] + Max({0} \cup {rank[v] + step[v] : v \in from[n]})

(* The pass over one level.                                                *)
LEMMA RankLevelNat ==
    ASSUME NEW rank \in [Vertices -> Nat], NEW level, NEW from \in [Vertices -> SUBSET Vertices],
           NEW own \in [Vertices -> Nat], NEW step \in [Vertices -> Nat]
    PROVE  RankLevel(rank, level, from, own, step) \in [Vertices -> Nat]
<1> DEFINE f == [v \in Vertices |-> rank[v] + step[v]]
<1>1. f \in [Vertices -> Nat] /\ IsFiniteSet(Vertices)
  BY VerticesFinite
<1>2. ASSUME NEW n \in Vertices
      PROVE  Max({0} \cup {rank[v] + step[v] : v \in from[n]}) \in Nat
  <2>1. {rank[v] + step[v] : v \in from[n]} = {f[v] : v \in from[n]}
    OBVIOUS
  <2>2. from[n] \in SUBSET Vertices
    OBVIOUS
  <2> HIDE DEF f
  <2> QED
    BY <1>1, <2>1, <2>2, MaxIs
<1>3. ASSUME NEW n \in Vertices
      PROVE  (IF n \in level THEN own[n] + Max({0} \cup {rank[v] + step[v] : v \in from[n]})
              ELSE rank[n]) \in Nat
  <2> DEFINE x == Max({0} \cup {rank[v] + step[v] : v \in from[n]})
  <2>1. x \in Nat
    BY <1>2
  <2> HIDE DEF x
  <2>2. own[n] + x \in Nat /\ rank[n] \in Nat
    BY <2>1
  <2> QED
    BY <2>2 DEF x
<1> QED
  BY <1>3 DEF RankLevel

(* Level by level, the equations of all vertices are solved: what a later  *)
(* level takes is not changed any more.                                    *)
LEMMA AlongSolves ==
    ASSUME NEW from \in [Vertices -> SUBSET Vertices], NEW levels, TopoOrder(levels, from),
           NEW own \in [Vertices -> Nat], NEW step \in [Vertices -> Nat]
    PROVE  Solves(Along(levels, from, own, step), from, own, step)
<1> DEFINE X == DOMAIN levels
           E == SUBSET Vertices
           c == [s \in SUBSET X |-> Max(s)]
           D == [Vertices -> Nat]
           Op(rank, level) == RankLevel(rank, level, from, own, step)
           st == [rl \in D \X E |-> Op(rl[1], rl[2])]
           Body(F) == [s \in SUBSET X |->
                         IF s = {} THEN Zeros ELSE Op(F[s \ {Max(s)}], levels[Max(s)])]
           iter == CHOOSE F : F = Body(F)
           Value(rank, n) == own[n] + Max({0} \cup {rank[v] + step[v] : v \in from[n]})
           I == {v \in Nat \X D : \A n \in Earlier(levels, v[1] + 1) : v[2][n] = Value(v[2], n)}
<1>1. Along(levels, from, own, step) = iter[X]
  BY DEF Along, FoldLeft, MapThenFoldSet
<1>2. /\ levels \in Seq(E)
      /\ \A i \in 1 .. Len(levels) : \A v \in levels[i] :
            v \notin Earlier(levels, i) /\ from[v] \subseteq Earlier(levels, i)
      /\ Vertices = UNION {levels[i] : i \in 1 .. Len(levels)}
  BY DEF TopoOrder
<1>3. /\ IsFiniteSet(X) /\ X = 1 .. Len(levels) /\ Len(levels) \in Nat
      /\ \A s \in SUBSET X : s # {} => Max(s) \in s
  BY <1>2, FirstPlaces
<1>4. \A s \in SUBSET X : c[s] = Max(s)
  OBVIOUS
<1>5. levels \in [X -> E]
  BY <1>2, <1>3
<1>6. \A rank \in D, level \in E : st[<<rank, level>>] = Op(rank, level)
  OBVIOUS
<1>7. st \in [D \X E -> D]
  BY RankLevelNat
<1>g. Zeros \in D
  BY DEF Zeros
<1>8. ASSUME NEW rank \in D, NEW level \in E, NEW n \in Vertices
      PROVE  Op(rank, level)[n] = IF n \in level THEN Value(rank, n) ELSE rank[n]
  BY DEF RankLevel
<1> HIDE DEF X, E, c, D, st, Op
<1>9. PICK F : /\ F \in [SUBSET X -> D]
               /\ \A s \in SUBSET X :
                     F[s] = IF s = {} THEN Zeros ELSE st[<<F[s \ {c[s]}], levels[c[s]]>>]
  <2>1. Chooses(c, X)
    BY <1>3, <1>4 DEF Chooses
  <2>2. \E F : Folds(F, X, c, levels, D, Zeros, st)
    BY <1>3, <1>5, <1>7, <1>g, <2>1, FoldExists
  <2> QED
    BY <2>2 DEF Folds
<1>10. F = Body(F)
  <2>1. \A s \in SUBSET X : F[s] = IF s = {} THEN Zeros ELSE Op(F[s \ {Max(s)}], levels[Max(s)])
    <3> SUFFICES ASSUME NEW s \in SUBSET X, s # {}
                 PROVE  F[s] = Op(F[s \ {Max(s)}], levels[Max(s)])
      BY <1>9
    <3>1. F[s \ {Max(s)}] \in D /\ levels[Max(s)] \in E
      BY <1>3, <1>5, <1>9
    <3>2. F[s] = st[<<F[s \ {Max(s)}], levels[Max(s)]>>]
      BY <1>4, <1>9
    <3> QED
      BY <1>6, <3>1, <3>2
  <2> QED
    BY <1>9, <2>1, Zenon
<1>11. iter = Body(iter)
  <2> HIDE DEF Body
  <2> QED
    BY <1>10
<1> HIDE DEF iter
<1>12. \A s \in SUBSET X :
          iter[s] = IF s = {} THEN Zeros ELSE Op(iter[s \ {Max(s)}], levels[Max(s)])
  BY <1>11
<1>13. GoesLeft(iter, levels, D, Zeros, st)
  <2>1. ASSUME NEW s \in SUBSET DOMAIN levels, s # {}, iter[s \ {Max(s)}] \in D
        PROVE  iter[s] = st[<<iter[s \ {Max(s)}], levels[Max(s)]>>]
    BY <1>3, <1>5, <1>6, <1>12, <2>1 DEF X
  <2>2. iter[{}] = Zeros
    BY <1>12
  <2> QED
    BY <2>1, <2>2 DEF GoesLeft
<1>14. ASSUME NEW i \in 1 .. Len(levels), NEW rank \in D, <<i - 1, rank>> \in I
       PROVE  <<i, st[<<rank, levels[i]>>]>> \in I
  <2> DEFINE new == st[<<rank, levels[i]>>]
             before == Earlier(levels, i)
             after == Earlier(levels, i + 1)
  <2>0. i \in X /\ i \in Nat
    BY <1>3
  <2>1. i \in X /\ i \in Nat /\ levels[i] \in E /\ (i - 1) + 1 = i
    BY <1>5, <2>0
  <2>2. \A n \in before : rank[n] = Value(rank, n)
    <3> DEFINE p == <<i - 1, rank>>
    <3>1. \A n \in Earlier(levels, p[1] + 1) : p[2][n] = Value(p[2], n)
      <4> HIDE DEF Value
      <4> QED
        BY <1>14
    <3>2. p[1] = i - 1 /\ p[2] = rank
      OBVIOUS
    <3> HIDE DEF p, Value
    <3> QED
      BY <2>1, <3>1, <3>2
  <2>3. after = before \cup levels[i]
    <3>1. 1 .. (i + 1) - 1 = (1 .. i - 1) \cup {i}
      BY <2>1
    <3> QED
      BY <3>1 DEF Earlier
  <2>4. before \subseteq Vertices
    <3>1. \A j \in 1 .. i - 1 : j \in X /\ levels[j] \in E
      BY <1>3, <1>5
    <3> QED
      BY <3>1 DEF Earlier, E
  <2>5. new = Op(rank, levels[i]) /\ new \in D
    BY <1>6, <1>7, <2>1
  <2> HIDE DEF new, before, after
  <2>6. \A n \in levels[i] : n \notin before /\ from[n] \subseteq before
    BY <1>2 DEF before
  <2>7. \A n \in Vertices : new[n] = IF n \in levels[i] THEN Value(rank, n) ELSE rank[n]
    <3> SUFFICES ASSUME NEW n \in Vertices
                 PROVE  new[n] = IF n \in levels[i] THEN Value(rank, n) ELSE rank[n]
      OBVIOUS
    <3> HIDE DEF Value
    <3>1. Op(rank, levels[i])[n] = IF n \in levels[i] THEN Value(rank, n) ELSE rank[n]
      BY <1>8, <2>1
    <3> QED
      BY <2>5, <3>1
  <2>8. \A n \in before : n \in Vertices /\ from[n] \subseteq before
    <3> SUFFICES ASSUME NEW n \in before PROVE from[n] \subseteq before
      BY <2>4
    <3>1. PICK j \in 1 .. i - 1 : n \in levels[j]
      BY DEF before, Earlier
    <3>2. j \in 1 .. Len(levels) /\ 1 .. j - 1 \subseteq 1 .. i - 1
      BY <1>3
    <3>3. from[n] \subseteq Earlier(levels, j)
      BY <1>2, <3>1, <3>2
    <3>4. Earlier(levels, j) \subseteq before
      BY <3>2 DEF before, Earlier
    <3> QED
      BY <3>3, <3>4
  <2>9. ASSUME NEW n \in after PROVE new[n] = Value(new, n)
    <3>1. n \in Vertices /\ from[n] \subseteq before
      BY <2>1, <2>3, <2>6, <2>8, <2>9 DEF E
    <3>2. \A v \in from[n] : new[v] = rank[v]
      BY <2>4, <2>6, <2>7, <3>1
    <3>3. {new[v] + step[v] : v \in from[n]} = {rank[v] + step[v] : v \in from[n]}
      BY <3>2
    <3>4. Value(new, n) = Value(rank, n)
      BY <3>3
    <3> HIDE DEF Value
    <3> QED
      BY <2>2, <2>3, <2>7, <2>9, <3>1, <3>4
  <2> HIDE DEF Value
  <2> QED
    BY <2>1, <2>5, <2>9 DEF after, new
<1>15. <<0, Zeros>> \in I
  <2>1. Earlier(levels, 0 + 1) = {}
    BY DEF Earlier
  <2> HIDE DEF Value
  <2> QED
    BY <1>g, <2>1
<1>16. Keeps(I, levels, D, Zeros, st)
  <2> HIDE DEF I
  <2> QED
    BY <1>14, <1>15 DEF Keeps
<1>17. iter[DOMAIN levels] \in D /\ <<Len(levels), iter[DOMAIN levels]>> \in I
  <2> HIDE DEF I
  <2> QED
    BY <1>2, <1>7, <1>g, <1>13, <1>16, FoldSteps
<1>18. Vertices = Earlier(levels, Len(levels) + 1)
  <2>1. 1 .. (Len(levels) + 1) - 1 = 1 .. Len(levels)
    BY <1>3
  <2> QED
    BY <1>2, <2>1 DEF Earlier
<1>19. \A n \in Vertices : iter[X][n] = Value(iter[X], n)
  <2> DEFINE p == <<Len(levels), iter[DOMAIN levels]>>
  <2>1. \A n \in Earlier(levels, p[1] + 1) : p[2][n] = Value(p[2], n)
    <3> HIDE DEF Value
    <3> QED
      BY <1>17
  <2>2. p[1] = Len(levels) /\ p[2] = iter[X]
    BY DEF X
  <2> HIDE DEF p, Value
  <2> QED
    BY <1>18, <2>1, <2>2
<1>20. iter[X] \in [Vertices -> Nat]
  BY <1>17 DEF X, D
<1> DEFINE last == iter[X]
<1>21. \A n \in Vertices :
          last[n] = own[n] + Max({0} \cup {last[v] + step[v] : v \in from[n]})
  BY <1>19
<1> HIDE DEF last
<1>22. last \in [Vertices -> Nat] /\ Along(levels, from, own, step) = last
  BY <1>1, <1>20 DEF last
<1> QED
  BY <1>21, <1>22 DEF Solves

(* The ranks of S with what it takes to get past it.                       *)
Through(rank, step, S) == {rank[v] + step[v] : v \in S}

(* What a solved equation says of a vertex.                                *)
LEMMA SolvedIsMax ==
    ASSUME NEW from \in [Vertices -> SUBSET Vertices], NEW own \in [Vertices -> Nat],
           NEW step \in [Vertices -> Nat], NEW rank, Solves(rank, from, own, step),
           NEW n \in Vertices
    PROVE  IsMaxOf(rank[n] - own[n], Through(rank, step, from[n]))
<1> DEFINE f == [v \in Vertices |-> rank[v] + step[v]]
           M == {f[v] : v \in from[n]}
           x == Max({0} \cup M)
<1>1. rank \in [Vertices -> Nat] /\ IsFiniteSet(Vertices)
  BY VerticesFinite DEF Solves
<1>2. f \in [Vertices -> Nat] /\ from[n] \in SUBSET Vertices
  BY <1>1
<1>3. {rank[v] + step[v] : v \in from[n]} = M
  BY <1>2
<1>4. rank[n] = own[n] + x
  BY <1>3 DEF Solves
<1> HIDE DEF f
<1>5. x \in Nat /\ IsMaxOf(x, M)
  BY <1>1, <1>2, MaxIs
<1> HIDE DEF x, M
<1>6. rank[n] - own[n] = x
  BY <1>4, <1>5
<1> QED
  BY <1>3, <1>5, <1>6 DEF Through

(* The ranks of a graph whose edges follow the order of the IDs.           *)
LEMMA RanksSolve ==
    ASSUME NEW g, Directed(g), NEW cost \in [Vertices -> Nat]
    PROVE  /\ Solves(CalcRankU(g, cost), Succs(g), cost, Zeros)
           /\ Solves(CalcCT(g, cost), Succs(g), Zeros, cost)
           /\ Solves(CalcRankD(g, cost), Preds(g), Zeros, cost)
<1>1. Zeros \in [Vertices -> Nat]
  BY DEF Zeros
<1>2. /\ Succs(g) \in [Vertices -> SUBSET Vertices]
      /\ Preds(g) \in [Vertices -> SUBSET Vertices]
  BY DEF Succs, Preds, Succ, Pred
<1>3. TopoOrder(GetTopo(g, TRUE), Succs(g))
  <2>1. \A n \in Vertices : Succs(g)[n] = Waited(g, TRUE, n)
    BY DEF Succs, Waited
  <2> QED
    BY <2>1, GetTopoCorrect
<1>4. TopoOrder(GetTopo(g, FALSE), Preds(g))
  <2>1. \A n \in Vertices : Preds(g)[n] = Waited(g, FALSE, n)
    BY DEF Preds, Waited
  <2> QED
    BY <2>1, GetTopoCorrect
<1>5. Solves(CalcRankU(g, cost), Succs(g), cost, Zeros)
  BY <1>1, <1>2, <1>3, AlongSolves DEF CalcRankU
<1>6. Solves(CalcCT(g, cost), Succs(g), Zeros, cost)
  BY <1>1, <1>2, <1>3, AlongSolves DEF CalcCT
<1>7. Solves(CalcRankD(g, cost), Preds(g), Zeros, cost)
  BY <1>1, <1>2, <1>4, AlongSolves DEF CalcRankD
<1> QED
  BY <1>5, <1>6, <1>7

(* GenerateProperties leaves in every vertex of a graph whose edges follow *)
(* the order of the IDs the lengths of the longest paths that Schedule     *)
(* ranks by, and the length of the critical path in the graph.             *)
THEOREM RanksGenerated ==
    ASSUME NEW g, Directed(g), NEW cost \in [Vertices -> Nat]
    PROVE  IsRanked(GenerateProperties(g, cost))
<1> DEFINE u == CalcRankU(g, cost)
           d == CalcRankD(g, cost)
           ct == CalcCT(g, cost)
           r == GenerateProperties(g, cost)
           sum == [n \in Vertices |-> u[n] + d[n]]
           S == {sum[n] : n \in Vertices}
<1>1. /\ r.edges = g.edges /\ r.cost = cost /\ r.rankU = u /\ r.rankD = d /\ r.ct = ct
      /\ r.pathLen = Max({u[n] + d[n] : n \in Vertices})
  BY DEF GenerateProperties
<1>2. \A n \in Vertices :
         /\ Succ(r, n) = Succ(g, n) /\ Pred(r, n) = Pred(g, n)
         /\ Succs(g)[n] = Succ(g, n) /\ Preds(g)[n] = Pred(g, n)
         /\ Zeros[n] = 0
  BY <1>1 DEF Succ, Pred, Succs, Preds, Zeros
<1>3. /\ Solves(u, Succs(g), cost, Zeros)
      /\ Solves(ct, Succs(g), Zeros, cost)
      /\ Solves(d, Preds(g), Zeros, cost)
  BY RanksSolve
<1> HIDE DEF u, d, ct, r
<1>4. u \in [Vertices -> Nat] /\ d \in [Vertices -> Nat] /\ ct \in [Vertices -> Nat]
  BY <1>3 DEF Solves
<1>5. /\ Succs(g) \in [Vertices -> SUBSET Vertices]
      /\ Preds(g) \in [Vertices -> SUBSET Vertices]
      /\ Zeros \in [Vertices -> Nat]
  BY DEF Succs, Preds, Succ, Pred, Zeros
<1>6. ASSUME NEW n \in Vertices
      PROVE  /\ IsMaxOf(r.rankU[n] - r.cost[n], {r.rankU[v] : v \in Succ(r, n)})
             /\ IsMaxOf(r.ct[n], {r.ct[v] + r.cost[v] : v \in Succ(r, n)})
             /\ IsMaxOf(r.rankD[n], {r.rankD[v] + r.cost[v] : v \in Pred(r, n)})
  <2>1. /\ IsMaxOf(u[n] - cost[n], Through(u, Zeros, Succs(g)[n]))
        /\ IsMaxOf(ct[n] - Zeros[n], Through(ct, cost, Succs(g)[n]))
        /\ IsMaxOf(d[n] - Zeros[n], Through(d, cost, Preds(g)[n]))
    BY <1>3, <1>5, SolvedIsMax
  <2>2. Through(u, Zeros, Succs(g)[n]) = {r.rankU[v] : v \in Succ(r, n)}
    <3>1. \A v \in Succs(g)[n] : u[v] + Zeros[v] = r.rankU[v]
      BY <1>1, <1>2, <1>4, <1>5
    <3>2. Succs(g)[n] = Succ(r, n)
      BY <1>2
    <3> QED
      BY <3>1, <3>2 DEF Through
  <2>3. Through(ct, cost, Succs(g)[n]) = {r.ct[v] + r.cost[v] : v \in Succ(r, n)}
    BY <1>1, <1>2 DEF Through
  <2>4. Through(d, cost, Preds(g)[n]) = {r.rankD[v] + r.cost[v] : v \in Pred(r, n)}
    BY <1>1, <1>2 DEF Through
  <2>5. /\ u[n] - cost[n] = r.rankU[n] - r.cost[n]
        /\ ct[n] - Zeros[n] = r.ct[n] /\ d[n] - Zeros[n] = r.rankD[n]
    BY <1>1, <1>2, <1>4
  <2> QED
    BY <2>1, <2>2, <2>3, <2>4, <2>5, Zenon
<1>7. IsMaxOf(r.pathLen, {r.rankU[n] + r.rankD[n] : n \in Vertices})
  <2>1. sum \in [Vertices -> Nat] /\ S = {u[n] + d[n] : n \in Vertices}
    BY <1>4
  <2>2. S \in SUBSET Nat /\ S # {}
    BY <2>1 DEF Vertices
  <2>3. IsFiniteSet(Vertices) /\ Vertices \in SUBSET Vertices
    BY VerticesFinite
  <2> HIDE DEF sum
  <2>4. Max({0} \cup S) \in Nat /\ IsMaxOf(Max({0} \cup S), S)
    BY <2>1, <2>3, MaxIs
  <2> HIDE DEF S
  <2>5. Max({0} \cup S) \in S
    <3>1. PICK s \in S : s \in Nat
      BY <2>2
    <3> QED
      BY <2>2, <2>4, <3>1 DEF IsMaxOf
  <2>6. Max(S) \in S /\ \A s \in S : s <= Max(S)
    <3>1. \E x \in S : \A y \in S : x >= y
      BY <2>2, <2>4, <2>5 DEF IsMaxOf
    <3>2. Max(S) \in S /\ \A y \in S : Max(S) >= y
      BY <3>1 DEF Max
    <3> QED
      BY <2>2, <3>2
  <2>7. IsMaxOf(Max(S), S)
    BY <2>6 DEF IsMaxOf
  <2> QED
    BY <1>1, <2>1, <2>7
<1>8. IsRanked(r)
  BY <1>1, <1>4, <1>6, <1>7 DEF IsRanked
<1> QED
  BY <1>8 DEF r

(***************************************************************************)
(* The graphs of GraphLine.                                                *)
(***************************************************************************)

(* The dependences, joined to the entry and the end, follow the order of   *)
(* the IDs, and every task comes after and before something.               *)
LEMMA JoinedFollows ==
    ASSUME NEW acc
    PROVE  LET es == Joined(Dependences(acc))
           IN  /\ \A e \in es : e[1] < e[2]
               /\ \A t \in Tasks : \E u, v \in Vertices : <<u, t>> \in es /\ <<t, v>> \in es
<1> DEFINE dep == Dependences(acc)
           es == Joined(dep)
<1>1. /\ Tasks \subseteq Vertices /\ Entry \in Vertices /\ End \in Vertices
      /\ \A t \in Tasks : Entry < t /\ t < End
  BY SizesAssumption DEF Vertices, Tasks, Entry, End
<1>2. \A e \in dep : e \in Tasks \X Tasks /\ e[1] < e[2]
  BY DEF Dependences
<1> HIDE DEF dep
<1>3. \A e \in es : e[1] < e[2]
  <2> SUFFICES ASSUME NEW e \in es PROVE e[1] < e[2]
    OBVIOUS
  <2>1. \/ e \in dep
        \/ \E t \in Tasks : e = <<Entry, t>>
        \/ \E t \in Tasks : e = <<t, End>>
    BY DEF Joined
  <2> QED
    BY <1>1, <1>2, <2>1
<1>4. ASSUME NEW t \in Tasks
      PROVE  /\ \E u \in Vertices : <<u, t>> \in es
             /\ \E v \in Vertices : <<t, v>> \in es
  <2>1. dep \subseteq es
    BY DEF Joined
  <2>2. \E u \in Vertices : <<u, t>> \in es
    <3>1. CASE \E e \in dep : e[2] = t
      <4>1. PICK e \in dep : e[2] = t
        BY <3>1
      <4>2. e = <<e[1], t>> /\ e[1] \in Vertices
        BY <1>1, <1>2, <4>1
      <4> QED
        BY <2>1, <4>1, <4>2
    <3>2. CASE ~\E e \in dep : e[2] = t
      BY <1>1, <3>2 DEF Joined
    <3> QED
      BY <3>1, <3>2
  <2>3. \E v \in Vertices : <<t, v>> \in es
    <3>1. CASE \E e \in dep : e[1] = t
      <4>1. PICK e \in dep : e[1] = t
        BY <3>1
      <4>2. e = <<t, e[2]>> /\ e[2] \in Vertices
        BY <1>1, <1>2, <4>1
      <4> QED
        BY <2>1, <4>1, <4>2
    <3>2. CASE ~\E e \in dep : e[1] = t
      BY <1>1, <3>2 DEF Joined
    <3> QED
      BY <3>1, <3>2
  <2> QED
    BY <2>2, <2>3
<1> HIDE DEF es
<1>5. \A t \in Tasks : \E u, v \in Vertices : <<u, t>> \in es /\ <<t, v>> \in es
  BY <1>4
<1> QED
  BY <1>3, <1>5 DEF es, dep

(* Whatever the tasks of a block access and cost: GraphLine makes a graph  *)
(* of what depends on what, with the degrees that count its edges, and of  *)
(* the kind that Schedule relies on (what GraphsAssumption assumes).       *)
THEOREM GeneratedGraphs ==
    ASSUME NEW acc, IsAccesses(acc),
           NEW cost \in [Vertices -> Nat], \A n \in Vertices : cost[n] = 0 <=> n \notin Tasks,
           graph.span \in Nat
    PROVE  LET g == GenerateGraph(acc)
               r == GenerateProperties(g, cost)
           IN  /\ r.edges = Joined(Dependences(acc))
               /\ \A n \in Vertices : /\ g.inDegree[n] = Cardinality(Pred(r, n))
                                      /\ g.outDegree[n] = Cardinality(Succ(r, n))
               /\ IsGraph(r) /\ IsRanked(r)
<1> DEFINE g == GenerateGraph(acc)
           r == GenerateProperties(g, cost)
           es == Joined(Dependences(acc))
<1>1. g \in CountedGraphs /\ g.edges = es
  BY GenerateGraphCorrect
<1>2. /\ \A e \in es : e[1] < e[2]
      /\ \A t \in Tasks : \E u, v \in Vertices : <<u, t>> \in es /\ <<t, v>> \in es
  BY JoinedFollows
<1> HIDE DEF g, es
<1>3. r.edges = es /\ r.cost = cost /\ r.span = graph.span
  BY <1>1 DEF GenerateProperties
<1>4. \A n \in Vertices : Pred(r, n) = Pred(g, n) /\ Succ(r, n) = Succ(g, n)
  BY <1>1, <1>3 DEF Pred, Succ
<1>5. IsRanked(r)
  <2>1. Directed(g)
    BY <1>1, <1>2 DEF Directed
  <2> QED
    BY <2>1, RanksGenerated
<1> HIDE DEF r
<1>6. \A n \in Vertices : /\ g.inDegree[n] = Cardinality(Pred(r, n))
                          /\ g.outDegree[n] = Cardinality(Succ(r, n))
  <2> SUFFICES ASSUME NEW n \in Vertices
               PROVE  /\ g.inDegree[n] = Cardinality(Pred(r, n))
                      /\ g.outDegree[n] = Cardinality(Succ(r, n))
    OBVIOUS
  <2>1. /\ g.inDegree[n] = Cardinality(Pred(g, n))
        /\ g.outDegree[n] = Cardinality(Succ(g, n))
    BY <1>1 DEF CountedGraphs
  <2> QED
    BY <1>4, <2>1, Zenon
<1>7. IsGraph(r)
  <2>1. es \subseteq Vertices \X Vertices
    BY <1>1 DEF CountedGraphs, GraphStates
  <2>2. \A t \in Tasks : Pred(r, t) # {} /\ Succ(r, t) # {}
    BY <1>2, <1>3 DEF Pred, Succ
  <2> QED
    BY <1>2, <1>3, <2>1, <2>2 DEF IsGraph
<1> QED
  BY <1>3, <1>5, <1>6, <1>7 DEF g, r, es

(* Of every block's graph, whatever its tasks access: GenerateGraph gives  *)
(* the degrees that pqSchedule counts down from, and GenerateProperties    *)
(* the ranks that the schedulers choose by, each of them final.            *)
THEOREM PropertiesGeneratedCorrect == Spec => []PropertiesGenerated
<1>1. ASSUME graph \in Graphs PROVE PropertiesGenerated
  <2>1. /\ graph.cost \in [Vertices -> Nat] /\ graph.span \in Nat
        /\ \A n \in Vertices : graph.cost[n] = 0 <=> n \notin Tasks
    BY <1>1, GraphsAssumption DEF IsGraph
  <2>2. ASSUME NEW acc \in Accesses(graph)
        PROVE  LET g == GenerateGraph(acc)
                   r == GenerateProperties(g, graph.cost)
               IN  /\ \A n \in Vertices : /\ g.inDegree[n] = Cardinality(Pred(graph, n))
                                          /\ g.outDegree[n] = Cardinality(Succ(graph, n))
                   /\ IsGraph(r) /\ IsRanked(r) /\ r.edges = graph.edges
    <3> DEFINE g == GenerateGraph(acc)
               r == GenerateProperties(g, graph.cost)
    <3>1. IsAccesses(acc) /\ graph.edges = Joined(Dependences(acc))
      BY <1>1, AccessesAssumption
    <3>2. /\ r.edges = Joined(Dependences(acc))
          /\ \A n \in Vertices : /\ g.inDegree[n] = Cardinality(Pred(r, n))
                                 /\ g.outDegree[n] = Cardinality(Succ(r, n))
          /\ IsGraph(r) /\ IsRanked(r)
      BY <2>1, <3>1, GeneratedGraphs
    <3> HIDE DEF g, r
    <3>3. \A n \in Vertices : Pred(r, n) = Pred(graph, n) /\ Succ(r, n) = Succ(graph, n)
      BY <3>1, <3>2 DEF Pred, Succ
    <3>4. \A n \in Vertices : /\ g.inDegree[n] = Cardinality(Pred(graph, n))
                              /\ g.outDegree[n] = Cardinality(Succ(graph, n))
      BY <3>2, <3>3, Zenon
    <3> QED
      BY <3>1, <3>2, <3>4 DEF g, r
  <2> QED
    BY <2>2 DEF PropertiesGenerated
<1>2. SchedulerInv => graph \in Graphs
  BY DEF SchedulerInv
<1> QED
  BY InvariantCorrect, <1>1, <1>2, PTL
===============================================================================
