---------------------------- MODULE DataTheorems ----------------------------
(* What several proofs need of data: the least and the greatest of a set   *)
(* of numbers, what a sum over a finite set is, whatever order the fold    *)
(* that computes it takes, and that a recursion along a measure has a      *)
(* solution, which is what a recursive function is then known to be.       *)
EXTENDS Integers, FiniteSets, FiniteSetsExt, WellFoundedInduction,
        FiniteSetTheorems, TLAPS

(* The sum of the c[x] for the x in S.                                     *)
SumOver(c, S) == MapThenSumSet(LAMBDA x : c[x], S)

(***************************************************************************)
(* Least and greatest.                                                     *)
(***************************************************************************)

(* A nonempty set of natural numbers has a least element.                  *)
LEMMA LeastNat ==
    ASSUME NEW S \in SUBSET Nat, S # {}
    PROVE  \E m \in S : \A x \in S : m <= x
<1> DEFINE R == {ss \in Nat \X Nat : ss[1] < ss[2]}
<1>1. PICK m \in S : \A y \in S : ~ (<<y, m>> \in R)
  <2> HIDE DEF R
  <2>1. IsWellFoundedOn(R, Nat)
    BY NatLessThanWellFounded DEF R, OpToRel
  <2> QED
    BY <2>1, WFMin
<1>2. ASSUME NEW y \in S PROVE m <= y
  <2>1. ~ (y < m) /\ y \in Nat /\ m \in Nat
    BY <1>1
  <2> QED
    BY <2>1
<1> QED
  BY <1>2

(* A nonempty set of integers bounded from below has a least element.      *)
LEMMA LeastInt ==
    ASSUME NEW S \in SUBSET Int, S # {}, NEW b \in Int, \A x \in S : b <= x
    PROVE  \E m \in S : \A x \in S : m <= x
<1> DEFINE T == {n \in Nat : n + b \in S}
<1>1. \A x \in S : x - b \in Nat /\ (x - b) + b = x
  OBVIOUS
<1>2. T \in SUBSET Nat /\ T # {}
  BY <1>1
<1>3. PICK n \in T : \A y \in T : n <= y
  <2> HIDE DEF T
  <2> QED
    BY <1>2, LeastNat
<1>4. n + b \in S /\ n \in Nat
  OBVIOUS
<1>5. ASSUME NEW x \in S PROVE n + b <= x
  <2>1. x - b \in T
    BY <1>1
  <2>2. n <= x - b
    BY <1>3, <2>1
  <2> QED
    BY <1>4, <2>2
<1> QED
  BY <1>4, <1>5

(* A nonempty set of integers bounded from above has a greatest element.   *)
LEMMA GreatestInt ==
    ASSUME NEW S \in SUBSET Int, S # {}, NEW b \in Int, \A x \in S : x <= b
    PROVE  \E m \in S : \A x \in S : x <= m
<1> DEFINE T == {n \in Nat : b - n \in S}
<1>1. \A x \in S : b - x \in Nat /\ b - (b - x) = x
  OBVIOUS
<1>2. T \in SUBSET Nat /\ T # {}
  BY <1>1
<1>3. PICK n \in T : \A y \in T : n <= y
  <2> HIDE DEF T
  <2> QED
    BY <1>2, LeastNat
<1>4. b - n \in S /\ n \in Nat
  OBVIOUS
<1>5. ASSUME NEW x \in S PROVE x <= b - n
  <2>1. b - x \in T
    BY <1>1
  <2>2. n <= b - x
    BY <1>3, <2>1
  <2> QED
    BY <1>4, <2>2
<1> QED
  BY <1>4, <1>5

(***************************************************************************)
(* Sums.                                                                   *)
(***************************************************************************)

(* F gives every subset of S a value that grows by c[x] with the element x. *)
Additive(F, c, S) ==
    /\ F \in [SUBSET S -> Int]
    /\ F[{}] = 0
    /\ \A t \in SUBSET S : \A x \in S \ t : F[t \cup {x}] = c[x] + F[t]

(* An additive function on the subsets of S, from one on those of S        *)
(* without y.                                                              *)
LEMMA AdditiveStep ==
    ASSUME NEW S, NEW c \in [S -> Int], NEW y \in S, NEW G, Additive(G, c, S \ {y})
    PROVE  \E F : Additive(F, c, S)
<1> DEFINE F == [t \in SUBSET S |-> IF y \in t THEN c[y] + G[t \ {y}] ELSE G[t]]
<1>1. /\ G \in [SUBSET (S \ {y}) -> Int] /\ G[{}] = 0
      /\ \A t \in SUBSET (S \ {y}) : \A x \in (S \ {y}) \ t : G[t \cup {x}] = c[x] + G[t]
  BY DEF Additive
<1>2. ASSUME NEW t \in SUBSET S
      PROVE  /\ F[t] = IF y \in t THEN c[y] + G[t \ {y}] ELSE G[t]
             /\ F[t] \in Int
  <2>1. t \ {y} \in SUBSET (S \ {y}) /\ (y \notin t => t \in SUBSET (S \ {y}))
    OBVIOUS
  <2>2. c[y] \in Int /\ G[t \ {y}] \in Int /\ (y \notin t => G[t] \in Int)
    BY <1>1, <2>1
  <2> QED
    BY <2>2
<1>3. F \in [SUBSET S -> Int]
  BY <1>2
<1> HIDE DEF F
<1>4. F[{}] = 0
  BY <1>1, <1>2
<1>5. ASSUME NEW t \in SUBSET S, NEW x \in S \ t PROVE F[t \cup {x}] = c[x] + F[t]
  <2>1. t \cup {x} \in SUBSET S /\ c[x] \in Int /\ c[y] \in Int
    OBVIOUS
  <2>2. CASE x = y
    <3>1. (t \cup {x}) \ {y} = t
      BY <2>2
    <3>2. F[t \cup {x}] = c[y] + G[t] /\ F[t] = G[t]
      BY <1>2, <2>1, <2>2, <3>1
    <3> QED
      BY <2>2, <3>2
  <2>3. CASE x # y /\ y \in t
    <3>1. (t \cup {x}) \ {y} = (t \ {y}) \cup {x}
      BY <2>3
    <3>2. t \ {y} \in SUBSET (S \ {y}) /\ x \in (S \ {y}) \ (t \ {y})
      BY <2>3
    <3>3. G[(t \ {y}) \cup {x}] = c[x] + G[t \ {y}] /\ G[t \ {y}] \in Int
      BY <1>1, <3>2
    <3>4. F[t \cup {x}] = c[y] + G[(t \ {y}) \cup {x}] /\ F[t] = c[y] + G[t \ {y}]
      BY <1>2, <2>1, <2>3, <3>1
    <3> QED
      BY <2>1, <3>3, <3>4
  <2>4. CASE x # y /\ y \notin t
    <3>1. t \in SUBSET (S \ {y}) /\ x \in (S \ {y}) \ t /\ y \notin t \cup {x}
      BY <2>4
    <3>2. F[t \cup {x}] = G[t \cup {x}] /\ F[t] = G[t]
      BY <1>2, <2>1, <2>4, <3>1
    <3> QED
      BY <1>1, <3>1, <3>2
  <2> QED
    BY <2>2, <2>3, <2>4
<1>6. Additive(F, c, S)
  BY <1>3, <1>4, <1>5 DEF Additive
<1> QED
  BY <1>6

(* There is an additive function on the subsets of a finite set: a         *)
(* smallest subset of S without one would be larger by one element than a  *)
(* subset that has one.                                                    *)
LEMMA AdditiveExists ==
    ASSUME NEW S, IsFiniteSet(S), NEW c \in [S -> Int]
    PROVE  \E F : Additive(F, c, S)
<1> DEFINE Bad == {t \in SUBSET S : ~\E F : Additive(F, c, t)}
           Sizes == {Cardinality(t) : t \in Bad}
<1>1. \A t \in SUBSET S : IsFiniteSet(t) /\ Cardinality(t) \in Nat
  BY FS_Subset, FS_CardinalityType
<1> SUFFICES ASSUME Bad # {} PROVE FALSE
  <2>1. S \in SUBSET S
    OBVIOUS
  <2> QED
    BY <2>1
<1>2. Sizes \in SUBSET Nat /\ Sizes # {}
  BY <1>1
<1>3. PICK m \in Sizes : \A k \in Sizes : m <= k
  <2> HIDE DEF Sizes
  <2> QED
    BY <1>2, LeastNat
<1>4. PICK t \in Bad : m = Cardinality(t)
  OBVIOUS
<1>5. t \in SUBSET S /\ IsFiniteSet(t) /\ Cardinality(t) \in Nat /\ ~\E F : Additive(F, c, t)
  BY <1>1
<1>6. CASE t = {}
  <2> DEFINE F == [u \in SUBSET {} |-> 0]
  <2>1. F \in [SUBSET {} -> Int] /\ F[{}] = 0
    OBVIOUS
  <2>2. \A u \in SUBSET {} : \A x \in {} \ u : F[u \cup {x}] = c[x] + F[u]
    OBVIOUS
  <2> HIDE DEF F
  <2>3. Additive(F, c, {})
    BY <2>1, <2>2 DEF Additive
  <2> QED
    BY <1>5, <1>6, <2>3
<1>7. CASE t # {}
  <2>1. PICK y \in t : TRUE
    BY <1>7
  <2>2. Cardinality(t \ {y}) = Cardinality(t) - 1
    BY <1>5, <2>1, FS_RemoveElement
  <2>3. t \ {y} \in SUBSET S /\ Cardinality(t \ {y}) \in Nat
    BY <1>1, <1>5
  <2>4. t \ {y} \notin Bad
    BY <1>3, <1>4, <1>5, <2>2, <2>3
  <2>5. PICK G : Additive(G, c, t \ {y})
    BY <2>3, <2>4
  <2> DEFINE d == [x \in t |-> c[x]]
  <2>6. d \in [t -> Int] /\ \A x \in t : d[x] = c[x]
    BY <1>5
  <2> HIDE DEF d
  <2>7. Additive(G, d, t \ {y})
    BY <2>5, <2>6 DEF Additive
  <2>8. PICK F : Additive(F, d, t)
    BY <2>1, <2>6, <2>7, AdditiveStep
  <2>9. Additive(F, c, t)
    BY <2>6, <2>8 DEF Additive
  <2> QED
    BY <1>5, <2>9
<1> QED
  BY <1>6, <1>7

(* The sum is what an additive function says: the fold's function is the   *)
(* only one that its definition allows.                                    *)
LEMMA SumIsAdditive ==
    ASSUME NEW S, IsFiniteSet(S), NEW c \in [S -> Int], NEW F, Additive(F, c, S),
           NEW T \in SUBSET S
    PROVE  SumOver(c, T) = F[T]
<1> DEFINE Ch(s) == CHOOSE x \in s : TRUE
           Body(I) == [s \in SUBSET T |-> IF s = {} THEN 0 ELSE c[Ch(s)] + I[s \ {Ch(s)}]]
           iter == CHOOSE I : I = Body(I)
           H == [s \in SUBSET T |-> F[s]]
<1>1. SumOver(c, T) = iter[T]
  BY DEF SumOver, MapThenSumSet, MapThenFoldSet
<1>2. /\ F \in [SUBSET S -> Int] /\ F[{}] = 0
      /\ \A t \in SUBSET S : \A x \in S \ t : F[t \cup {x}] = c[x] + F[t]
  BY DEF Additive
<1>3. \A s \in SUBSET T : s # {} => Ch(s) \in s
  OBVIOUS
<1>4. ASSUME NEW s \in SUBSET T, s # {} PROVE F[s] = c[Ch(s)] + F[s \ {Ch(s)}]
  <2> DEFINE y == Ch(s)
  <2>1. y \in s
    BY <1>3, <1>4
  <2> HIDE DEF y
  <2>2. s \ {y} \in SUBSET S /\ y \in S \ (s \ {y}) /\ (s \ {y}) \cup {y} = s
    BY <2>1
  <2>3. F[s] = c[y] + F[s \ {y}]
    BY <1>2, <2>2
  <2> QED
    BY <2>3 DEF y
<1>5. H = Body(H)
  <2>1. ASSUME NEW s \in SUBSET T
        PROVE  F[s] = IF s = {} THEN 0 ELSE c[Ch(s)] + H[s \ {Ch(s)}]
    <3>1. s \ {Ch(s)} \in SUBSET T
      OBVIOUS
    <3>2. H[s \ {Ch(s)}] = F[s \ {Ch(s)}]
      BY <3>1
    <3> HIDE DEF Ch, H
    <3> QED
      BY <1>2, <1>4, <3>2
  <2> QED
    BY <2>1, Zenon
<1>6. iter = Body(iter)
  <2> HIDE DEF Body, H
  <2> QED
    BY <1>5
<1>7. \A s \in SUBSET T : iter[s] = IF s = {} THEN 0 ELSE c[Ch(s)] + iter[s \ {Ch(s)}]
  <2> HIDE DEF iter, Ch
  <2> QED
    BY <1>6
<1> HIDE DEF iter, Ch
<1> DEFINE Bad == {s \in SUBSET T : iter[s] # F[s]}
           Sizes == {Cardinality(s) : s \in Bad}
<1>8. \A s \in SUBSET T : IsFiniteSet(s) /\ Cardinality(s) \in Nat
  BY FS_Subset, FS_CardinalityType
<1> SUFFICES ASSUME Bad # {} PROVE FALSE
  <2>1. T \in SUBSET T
    OBVIOUS
  <2> QED
    BY <1>1, <2>1
<1>9. Sizes \in SUBSET Nat /\ Sizes # {}
  BY <1>8
<1>10. PICK m \in Sizes : \A k \in Sizes : m <= k
  <2> HIDE DEF Sizes
  <2> QED
    BY <1>9, LeastNat
<1>11. PICK s \in Bad : m = Cardinality(s)
  OBVIOUS
<1>12. s \in SUBSET T /\ iter[s] # F[s] /\ IsFiniteSet(s) /\ Cardinality(s) \in Nat
  BY <1>8
<1>13. s # {}
  BY <1>2, <1>7, <1>12
<1> DEFINE y == Ch(s)
<1>14. y \in s
  BY <1>3, <1>12, <1>13
<1>15. iter[s] = c[y] + iter[s \ {y}] /\ F[s] = c[y] + F[s \ {y}]
  BY <1>4, <1>7, <1>12, <1>13
<1> HIDE DEF y
<1>16. Cardinality(s \ {y}) = Cardinality(s) - 1 /\ s \ {y} \in SUBSET T
  BY <1>12, <1>14, FS_RemoveElement
<1>17. s \ {y} \notin Bad
  <2>1. Cardinality(s \ {y}) \in Nat
    BY <1>8, <1>16
  <2> QED
    BY <1>10, <1>11, <1>12, <1>16, <2>1
<1> QED
  BY <1>12, <1>15, <1>16, <1>17

(* A sum is an integer; of nothing it is 0; an element adds its value.     *)
LEMMA SumRules ==
    ASSUME NEW S, IsFiniteSet(S), NEW c \in [S -> Int]
    PROVE  /\ SumOver(c, {}) = 0
           /\ \A T \in SUBSET S : SumOver(c, T) \in Int
           /\ \A T \in SUBSET S : \A x \in S \ T :
                 SumOver(c, T \cup {x}) = SumOver(c, T) + c[x]
<1>1. PICK F : Additive(F, c, S)
  BY AdditiveExists
<1>2. /\ F \in [SUBSET S -> Int] /\ F[{}] = 0
      /\ \A t \in SUBSET S : \A x \in S \ t : F[t \cup {x}] = c[x] + F[t]
  BY <1>1 DEF Additive
<1>3. \A T \in SUBSET S : SumOver(c, T) = F[T]
  BY <1>1, SumIsAdditive
<1>4. ASSUME NEW T \in SUBSET S, NEW x \in S \ T
      PROVE  SumOver(c, T \cup {x}) = SumOver(c, T) + c[x]
  <2>1. T \cup {x} \in SUBSET S /\ c[x] \in Int /\ F[T] \in Int
    BY <1>2
  <2> QED
    BY <1>2, <1>3, <2>1
<1> QED
  BY <1>2, <1>3, <1>4
(* A sum of natural numbers is one, and no greater for fewer elements: the *)
(* largest set between T and U whose sum is at least that of T is U.       *)
LEMMA SumMonotone ==
    ASSUME NEW S, IsFiniteSet(S), NEW c \in [S -> Nat], NEW U \in SUBSET S,
           NEW T \in SUBSET U
    PROVE  SumOver(c, T) \in Nat /\ SumOver(c, T) <= SumOver(c, U)
<1>1. c \in [S -> Int]
  OBVIOUS
<1>2. /\ SumOver(c, {}) = 0
      /\ \A V \in SUBSET S : SumOver(c, V) \in Int
      /\ \A V \in SUBSET S : \A x \in S \ V :
            SumOver(c, V \cup {x}) = SumOver(c, V) + c[x]
  BY <1>1, SumRules
<1>3. ASSUME NEW W \in SUBSET S, NEW V \in SUBSET W
      PROVE  SumOver(c, V) <= SumOver(c, W)
  <2> DEFINE Good == {X \in SUBSET W : V \subseteq X /\ SumOver(c, V) <= SumOver(c, X)}
             Sizes == {Cardinality(X) : X \in Good}
  <2>1. \A X \in SUBSET W : /\ IsFiniteSet(X) /\ Cardinality(X) \in Nat
                            /\ Cardinality(X) <= Cardinality(W)
    <3>1. IsFiniteSet(W)
      BY FS_Subset
    <3> QED
      BY <3>1, FS_Subset, FS_CardinalityType
  <2>2. V \in Good
    BY <1>2
  <2>3. Sizes \in SUBSET Int /\ Sizes # {} /\ Cardinality(W) \in Int
        /\ \A k \in Sizes : k <= Cardinality(W)
    BY <2>1, <2>2
  <2>4. PICK m \in Sizes : \A k \in Sizes : k <= m
    <3> HIDE DEF Sizes
    <3> QED
      BY <2>3, GreatestInt
  <2>5. PICK X \in Good : m = Cardinality(X)
    OBVIOUS
  <2>6. X = W
    <3> SUFFICES ASSUME NEW x \in W, x \notin X PROVE FALSE
      OBVIOUS
    <3>1. X \cup {x} \in SUBSET W /\ x \in S \ X /\ X \in SUBSET S
      OBVIOUS
    <3>2. SumOver(c, X \cup {x}) = SumOver(c, X) + c[x]
      BY <1>2, <3>1
    <3>3. SumOver(c, V) \in Int /\ SumOver(c, X) \in Int /\ c[x] \in Nat
      BY <1>2, <3>1
    <3>4. X \cup {x} \in Good
      BY <3>1, <3>2, <3>3
    <3>5. Cardinality(X \cup {x}) = Cardinality(X) + 1
      BY <2>1, <3>1, FS_AddElement
    <3>6. Cardinality(X \cup {x}) <= m
      BY <2>4, <3>4
    <3> QED
      BY <2>1, <2>5, <3>5, <3>6
  <2> QED
    BY <2>5, <2>6
<1>4. SumOver(c, {}) <= SumOver(c, T) /\ SumOver(c, T) <= SumOver(c, U)
  BY <1>3
<1> QED
  BY <1>2, <1>4

(* Terms that are 0 may be left out, and functions with the same terms     *)
(* have the same sum.                                                      *)
LEMMA SumAgree ==
    ASSUME NEW S, IsFiniteSet(S), NEW c \in [S -> Int], NEW d \in [S -> Int],
           NEW T \in SUBSET S, NEW U \in SUBSET S,
           \A x \in S : (IF x \in T THEN c[x] ELSE 0) = (IF x \in U THEN d[x] ELSE 0)
    PROVE  SumOver(c, T) = SumOver(d, U)
<1> DEFINE Cut(f, V) == [x \in S |-> IF x \in V THEN f[x] ELSE 0]
<1>1. ASSUME NEW f \in [S -> Int], NEW V \in SUBSET S
      PROVE  SumOver(f, V) = SumOver(Cut(f, V), S)
  <2>1. PICK F : Additive(F, f, S)
    BY AdditiveExists
  <2>2. /\ F \in [SUBSET S -> Int] /\ F[{}] = 0
        /\ \A t \in SUBSET S : \A x \in S \ t : F[t \cup {x}] = f[x] + F[t]
    BY <2>1 DEF Additive
  <2> DEFINE g == Cut(f, V)
             G == [t \in SUBSET S |-> F[t \cap V]]
  <2>3. \A x \in S : g[x] = IF x \in V THEN f[x] ELSE 0
    OBVIOUS
  <2>4. g \in [S -> Int]
    OBVIOUS
  <2> HIDE DEF Cut, g
  <2>5. \A t \in SUBSET S : G[t] = F[t \cap V]
    OBVIOUS
  <2>6. G \in [SUBSET S -> Int]
    BY <2>2
  <2>7. G[{}] = 0
    <3>1. {} \in SUBSET S /\ {} \cap V = {}
      OBVIOUS
    <3> QED
      BY <2>2, <2>5, <3>1
  <2> HIDE DEF G
  <2>8. ASSUME NEW t \in SUBSET S, NEW x \in S \ t
        PROVE  G[t \cup {x}] = g[x] + G[t]
    <3>1. t \cup {x} \in SUBSET S /\ t \cap V \in SUBSET S /\ x \notin t \cap V
      OBVIOUS
    <3>2. CASE x \in V
      <4>1. (t \cup {x}) \cap V = (t \cap V) \cup {x}
        BY <3>2
      <4>2. G[t \cup {x}] = F[(t \cap V) \cup {x}] /\ G[t] = F[t \cap V]
        BY <2>5, <3>1, <4>1
      <4>3. F[(t \cap V) \cup {x}] = f[x] + F[t \cap V]
        BY <2>2, <3>1
      <4> QED
        BY <2>3, <3>2, <4>2, <4>3
    <3>3. CASE x \notin V
      <4>1. (t \cup {x}) \cap V = t \cap V
        BY <3>3
      <4>2. G[t] \in Int /\ G[t \cup {x}] = G[t]
        BY <2>5, <2>6, <3>1, <4>1
      <4> QED
        BY <2>3, <3>3, <4>2
    <3> QED
      BY <3>2, <3>3
  <2>9. Additive(G, g, S)
    BY <2>6, <2>7, <2>8 DEF Additive
  <2>10. SumOver(g, S) = G[S]
    <3>1. S \in SUBSET S
      OBVIOUS
    <3> QED
      BY <2>4, <2>9, <3>1, SumIsAdditive
  <2>11. SumOver(f, V) = F[V]
    BY <2>1, SumIsAdditive
  <2>12. S \cap V = V /\ S \in SUBSET S
    OBVIOUS
  <2> QED
    BY <2>5, <2>10, <2>11, <2>12 DEF g
<1>2. Cut(c, T) = Cut(d, U)
  OBVIOUS
<1> HIDE DEF Cut
<1> QED
  BY <1>1, <1>2

(* A sum depends on nothing but the summands, not on what else the         *)
(* function is defined on.                                                 *)
LEMMA SumRestrict ==
    ASSUME NEW S, IsFiniteSet(S), NEW c \in [S -> Int], NEW R \in SUBSET S,
           NEW d \in [R -> Int], \A x \in R : d[x] = c[x]
    PROVE  SumOver(d, R) = SumOver(c, R)
<1>1. PICK F : Additive(F, c, S)
  BY AdditiveExists
<1>2. /\ F \in [SUBSET S -> Int] /\ F[{}] = 0
      /\ \A t \in SUBSET S : \A x \in S \ t : F[t \cup {x}] = c[x] + F[t]
  BY <1>1 DEF Additive
<1> DEFINE G == [t \in SUBSET R |-> F[t]]
<1>3. Additive(G, d, R)
  <2>1. G \in [SUBSET R -> Int] /\ G[{}] = 0
    BY <1>2
  <2>2. ASSUME NEW t \in SUBSET R, NEW x \in R \ t PROVE G[t \cup {x}] = d[x] + G[t]
    <3>1. t \cup {x} \in SUBSET R /\ t \in SUBSET S /\ x \in S \ t
      OBVIOUS
    <3> QED
      BY <1>2, <3>1
  <2> HIDE DEF G
  <2> QED
    BY <2>1, <2>2 DEF Additive
<1>4. SumOver(c, R) = F[R]
  BY <1>1, SumIsAdditive
<1>5. SumOver(d, R) = G[R]
  <2>1. IsFiniteSet(R) /\ R \in SUBSET R
    BY FS_Subset
  <2> HIDE DEF G
  <2> QED
    BY <1>3, <2>1, SumIsAdditive
<1> QED
  BY <1>4, <1>5

(* With one more element.                                                  *)
LEMMA SumExtend ==
    ASSUME NEW S, IsFiniteSet(S), NEW c \in [S -> Int], NEW y, y \notin S,
           NEW d \in [S \cup {y} -> Int], \A x \in S : d[x] = c[x]
    PROVE  /\ SumOver(c, S) \in Int
           /\ SumOver(d, S \cup {y}) = SumOver(c, S) + d[y]
<1> DEFINE T == S \cup {y}
<1>1. IsFiniteSet(T)
  BY FS_AddElement
<1>2. S \in SUBSET T /\ S \in SUBSET S /\ y \in T \ S /\ T = S \cup {y} /\ d \in [T -> Int]
  OBVIOUS
<1> HIDE DEF T
<1>3. SumOver(d, S \cup {y}) = SumOver(d, S) + d[y]
  BY <1>1, <1>2, SumRules
<1>4. SumOver(c, S) = SumOver(d, S)
  BY <1>1, <1>2, SumRestrict
<1>5. SumOver(c, S) \in Int
  BY <1>2, SumRules
<1> QED
  BY <1>3, <1>4, <1>5

(* With one summand changed.                                               *)
LEMMA SumChange ==
    ASSUME NEW S, IsFiniteSet(S), NEW c \in [S -> Int], NEW d \in [S -> Int],
           NEW y \in S, \A x \in S : x # y => d[x] = c[x]
    PROVE  /\ SumOver(c, S) \in Int
           /\ SumOver(d, S) = SumOver(c, S) - c[y] + d[y]
<1> DEFINE R == S \ {y}
<1>1. /\ R \in SUBSET S /\ S \in SUBSET S /\ y \in S \ R /\ R \cup {y} = S
      /\ d[y] \in Int /\ c[y] \in Int
      /\ \A x \in S : (IF x \in R THEN c[x] ELSE 0) = (IF x \in R THEN d[x] ELSE 0)
  OBVIOUS
<1> HIDE DEF R
<1>2. SumOver(c, R) = SumOver(d, R)
  BY <1>1, SumAgree
<1>3. /\ SumOver(c, S) = SumOver(c, R) + c[y]
      /\ SumOver(d, S) = SumOver(d, R) + d[y]
      /\ SumOver(c, R) \in Int /\ SumOver(c, S) \in Int
  BY <1>1, SumRules
<1> QED
  BY <1>1, <1>2, <1>3

(***************************************************************************)
(* Induction over a measure, and recursion.                                *)
(***************************************************************************)

(* A set has every element of S if it has each whose smaller ones it has.  *)
LEMMA MeasureInduction ==
    ASSUME NEW S, NEW m \in [S -> Nat], NEW G,
           \A x \in S : (\A y \in S : m[y] < m[x] => y \in G) => x \in G
    PROVE  S \subseteq G
<1> DEFINE Sizes == {m[x] : x \in S \ G}
<1> SUFFICES ASSUME S \ G # {} PROVE FALSE
  OBVIOUS
<1>1. Sizes \in SUBSET Nat /\ Sizes # {}
  OBVIOUS
<1>2. PICK n \in Sizes : \A k \in Sizes : n <= k
  <2> HIDE DEF Sizes
  <2> QED
    BY <1>1, LeastNat
<1>3. PICK x \in S \ G : n = m[x]
  OBVIOUS
<1>4. ASSUME NEW y \in S, m[y] < m[x] PROVE y \in G
  <2>1. y \notin G => m[y] \in Sizes
    OBVIOUS
  <2>2. m[x] \in Nat /\ m[y] \in Nat
    OBVIOUS
  <2> HIDE DEF Sizes
  <2> QED
    BY <1>2, <1>3, <1>4, <2>1, <2>2
<1> QED
  BY <1>3, <1>4

(* A recursion on S: step[x, F] is the value at x of whatever function has *)
(* the values of F at all that are smaller, by the measure m, than x.      *)
LooksDown(S, m, D, step) ==
    \A x \in S : \A F, G \in [S -> D] :
        (\A y \in S : m[y] < m[x] => F[y] = G[y]) => step[<<x, F>>] = step[<<x, G>>]
Solution(F, S, D, step) == F \in [S -> D] /\ \A x \in S : F[x] = step[<<x, F>>]

(* It has a solution if measures are bounded.                              *)
LEMMA SolutionExists ==
    ASSUME NEW S, NEW N \in Nat, NEW m \in [S -> 0 .. N], NEW D, NEW base \in D,
           NEW step \in [S \X [S -> D] -> D], LooksDown(S, m, D, step)
    PROVE  \E F : Solution(F, S, D, step)
<1> DEFINE Fits(F, n) == \A x \in S : m[x] < n => F[x] = step[<<x, F>>]
           Depths == 0 .. N + 1
           Good == {n \in Depths : \E F \in [S -> D] : Fits(F, n)}
           id == [n \in Depths |-> n]
<1>1. ASSUME NEW n \in Depths, \A k \in Depths : k < n => k \in Good
      PROVE  \E F \in [S -> D] : Fits(F, n)
  <2>1. CASE n = 0
    <3> DEFINE F == [x \in S |-> base]
    <3>1. F \in [S -> D]
      OBVIOUS
    <3>2. \A x \in S : m[x] \in 0 .. N
      OBVIOUS
    <3>3. \A x \in S : ~ (m[x] < n)
      BY <2>1, <3>2
    <3> HIDE DEF F
    <3> QED
      BY <3>1, <3>3
  <2>2. CASE n # 0
    <3>0. n - 1 \in Depths /\ n - 1 < n
      BY <2>2
    <3>1. n - 1 \in Good
      BY <1>1, <3>0
    <3>2. PICK F \in [S -> D] : Fits(F, n - 1)
      BY <3>1
    <3> DEFINE G == [x \in S |-> IF m[x] < n - 1 THEN F[x] ELSE step[<<x, F>>]]
    <3>3. /\ G \in [S -> D]
          /\ \A x \in S : G[x] = IF m[x] < n - 1 THEN F[x] ELSE step[<<x, F>>]
      OBVIOUS
    <3> HIDE DEF G
    <3>4. ASSUME NEW x \in S, m[x] < n PROVE G[x] = step[<<x, G>>]
      <4>1. G[x] = step[<<x, F>>]
        BY <3>2, <3>3
      <4>2. ASSUME NEW y \in S, m[y] < m[x] PROVE F[y] = G[y]
        <5>1. m[x] \in 0 .. N /\ m[y] \in 0 .. N
          OBVIOUS
        <5>2. m[y] < n - 1
          BY <3>4, <4>2, <5>1
        <5> QED
          BY <3>3, <5>2
      <4>3. step[<<x, F>>] = step[<<x, G>>]
        BY <3>3, <4>2 DEF LooksDown
      <4> QED
        BY <4>1, <4>3
    <3> QED
      BY <3>3, <3>4
  <2> QED
    BY <2>1, <2>2
<1>2. Depths \subseteq Good
  <2>1. id \in [Depths -> Nat]
    OBVIOUS
  <2>2. \A n \in Depths : (\A k \in Depths : id[k] < id[n] => k \in Good) => n \in Good
    BY <1>1
  <2> HIDE DEF id, Good, Depths
  <2> QED
    BY <2>1, <2>2, MeasureInduction
<1>3. PICK F \in [S -> D] : Fits(F, N + 1)
  <2>1. N + 1 \in Depths
    OBVIOUS
  <2> QED
    BY <1>2, <2>1
<1>4. \A x \in S : m[x] < N + 1
  <2>1. \A x \in S : m[x] \in 0 .. N
    OBVIOUS
  <2> QED
    BY <2>1
<1> QED
  BY <1>3, <1>4 DEF Solution
=============================================================================
