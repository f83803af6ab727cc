-------------------------- MODULE StateTreeProofs ---------------------------
(***************************************************************************)
(* Proofs about StateTree, for any census, any sets of ballot indices,     *)
(* vote IDs and messages, any number of slots and cells, and any number of *)
(* batches of any of the votes.                                            *)
(***************************************************************************)
EXTENDS StateTree, FiniteSetTheorems, SequenceTheorems, WellFoundedInduction, TLAPS

----------------------------------------------------------------------------
(* Induction                                                               *)

\* Every non-empty set of natural numbers has a least element.
LEMMA LeastNat ==
    ASSUME NEW S \in SUBSET Nat, S # {}
    PROVE  \E n \in S : \A m \in S : n <= m
<1>1. PICK n \in S : \A m \in S : ~(<<m, n>> \in OpToRel(<, Nat))
  BY NatLessThanWellFounded, WFMin
<1>2. \A m \in S : n <= m
  <2> SUFFICES ASSUME NEW m \in S, m < n PROVE FALSE
    OBVIOUS
  <2>1. <<m, n>> \in Nat \X Nat /\ <<m, n>>[1] < <<m, n>>[2]
    OBVIOUS
  <2>2. <<m, n>> \in OpToRel(<, Nat)
    BY <2>1, Zenon DEF OpToRel
  <2> QED
    BY <1>1, <2>2
<1> QED
  BY <1>2

\* A set of natural numbers that holds 0 and the successor of each of its members
\* is all of them.
LEMMA AllNat ==
    ASSUME NEW S \in SUBSET Nat, 0 \in S, \A n \in S : n + 1 \in S
    PROVE  S = Nat
<1> SUFFICES ASSUME Nat \ S # {} PROVE FALSE
  OBVIOUS
<1>1. Nat \ S \in SUBSET Nat
  OBVIOUS
<1>2. PICK n \in Nat \ S : \A m \in Nat \ S : n <= m
  BY <1>1, LeastNat
<1>3. n # 0 /\ n \in Nat
  OBVIOUS
<1>4. n - 1 \in Nat /\ n - 1 < n /\ (n - 1) + 1 = n
  BY <1>3
<1>5. n - 1 \in S
  BY <1>2, <1>4
<1> QED
  BY <1>4, <1>5

\* The element of a set that the folds of the library take first.
Pick(s) == CHOOSE x \in s : TRUE

\* The subsets by size, for inductions on it.
LEMMA SubsetsBySize ==
    ASSUME NEW S, IsFiniteSet(S), NEW Q \in SUBSET SUBSET S,
           {} \in Q,
           \A s \in SUBSET S : s # {} /\ s \ {Pick(s)} \in Q => s \in Q
    PROVE  S \in Q
<1> DEFINE M == {n \in Nat : \A s \in SUBSET S : Cardinality(s) <= n => s \in Q}
<1>1. \A s \in SUBSET S : IsFiniteSet(s) /\ Cardinality(s) \in Nat
  BY FS_Subset, FS_CardinalityType
<1>2. 0 \in M
  <2>1. \A s \in SUBSET S : Cardinality(s) <= 0 => s = {}
    BY <1>1, FS_EmptySet
  <2> QED
    BY <2>1
<1>3. \A n \in M : n + 1 \in M
  <2> SUFFICES ASSUME NEW n \in M, NEW s \in SUBSET S, Cardinality(s) <= n + 1, s # {}
               PROVE  s \in Q
    OBVIOUS
  <2>1. Pick(s) \in s
    BY DEF Pick
  <2>2. Cardinality(s \ {Pick(s)}) = Cardinality(s) - 1 /\ s \ {Pick(s)} \in SUBSET S
    BY <1>1, <2>1, FS_RemoveElement
  <2>3. s \ {Pick(s)} \in Q
    BY <1>1, <2>2
  <2> QED
    BY <2>3
<1>4. Cardinality(S) \in M
  <2>1. M \in SUBSET Nat /\ Cardinality(S) \in Nat
    BY <1>1
  <2> HIDE DEF M
  <2> QED
    BY <1>2, <1>3, <2>1, AllNat
<1> QED
  BY <1>1, <1>4

----------------------------------------------------------------------------
(* Adding ballots                                                          *)

Ballots == Int \X Int

\* Ballots are a commutative group.
LEMMA BallotGroup ==
    ASSUME NEW a \in Ballots, NEW b \in Ballots, NEW c \in Ballots
    PROVE  /\ Zero \in Ballots /\ BallotAdd(a, b) \in Ballots /\ BallotNeg(a) \in Ballots
           /\ BallotAdd(a, b) = BallotAdd(b, a) /\ BallotAdd(Zero, a) = a /\ BallotAdd(a, Zero) = a
           /\ BallotAdd(BallotAdd(a, b), c) = BallotAdd(a, BallotAdd(b, c))
           /\ BallotAdd(a, BallotNeg(a)) = Zero /\ BallotNeg(Zero) = Zero
           /\ BallotNeg(BallotAdd(a, b)) = BallotAdd(BallotNeg(a), BallotNeg(b))
<1>1. PICK a1 \in Int, a2 \in Int : a = <<a1, a2>>
  BY DEF Ballots
<1>2. PICK b1 \in Int, b2 \in Int : b = <<b1, b2>>
  BY DEF Ballots
<1>3. PICK c1 \in Int, c2 \in Int : c = <<c1, c2>>
  BY DEF Ballots
<1>4. Zero \in Ballots /\ BallotAdd(a, b) \in Ballots /\ BallotNeg(a) \in Ballots
  BY <1>1, <1>2 DEF Ballots, Zero, BallotAdd, BallotNeg
<1>5. BallotAdd(a, b) = BallotAdd(b, a) /\ BallotAdd(Zero, a) = a /\ BallotAdd(a, Zero) = a
  BY <1>1, <1>2 DEF Zero, BallotAdd
<1>6. BallotAdd(BallotAdd(a, b), c) = BallotAdd(a, BallotAdd(b, c))
  BY <1>1, <1>2, <1>3 DEF BallotAdd
<1>7. BallotAdd(a, BallotNeg(a)) = Zero /\ BallotNeg(Zero) = Zero
  <2>1. a1 + (-a1) = 0 /\ a2 + (-a2) = 0
    OBVIOUS
  <2>4. \A z \in Int : z + (-z) = 0 /\ -z \in Int
    OBVIOUS
  <2>5. 0 + (-0) = 0 /\ -0 \in Int
    BY <2>4
  <2>6. \A z \in Int : 0 + z = 0 => z = 0
    OBVIOUS
  <2>7. -0 = 0
    BY <2>5, <2>6
  <2>2. BallotNeg(a) = <<-a1, -a2>> /\ BallotNeg(Zero) = <<-0, -0>>
    BY <1>1 DEF BallotNeg, Zero
  <2>3. BallotAdd(a, <<-a1, -a2>>) = <<a1 + (-a1), a2 + (-a2)>>
    BY <1>1 DEF BallotAdd
  <2> QED
    BY <2>1, <2>2, <2>3, <2>7 DEF Zero
<1>8. BallotNeg(BallotAdd(a, b)) = BallotAdd(BallotNeg(a), BallotNeg(b))
  BY <1>1, <1>2 DEF BallotAdd, BallotNeg
<1> QED
  BY <1>4, <1>5, <1>6, <1>7, <1>8

\* The order of summands does not matter.
LEMMA BallotSwap ==
    ASSUME NEW a \in Ballots, NEW b \in Ballots, NEW c \in Ballots
    PROVE  BallotAdd(BallotAdd(a, b), c) = BallotAdd(BallotAdd(a, c), b)
<1>1. BallotAdd(BallotAdd(a, b), c) = BallotAdd(a, BallotAdd(b, c))
  BY BallotGroup
<1>2. BallotAdd(BallotAdd(a, c), b) = BallotAdd(a, BallotAdd(c, b))
  BY BallotGroup
<1>3. BallotAdd(b, c) = BallotAdd(c, b)
  BY BallotGroup
<1> QED
  BY <1>1, <1>2, <1>3

\* What the fold of the weights w over subsets of S does.
Up(g, w, s) == IF s = {} THEN Zero ELSE BallotAdd(g[s \ {Pick(s)}], w[Pick(s)])
Folds(g, w, S) == \A s \in SUBSET S : g[s] \in Ballots /\ g[s] = Up(g, w, s)

\* There is such a fold, by induction on the size of the subsets.
LEMMA FoldExists ==
    ASSUME NEW S, IsFiniteSet(S), NEW w, \A k \in S : w[k] \in Ballots
    PROVE  \E g : g = [s \in SUBSET S |-> Up(g, w, s)] /\ g \in [SUBSET S -> Ballots]
<1> DEFINE Small(n) == {s \in SUBSET S : Cardinality(s) <= n}
           Good(n, g) == /\ g \in [Small(n) -> Ballots]
                         /\ \A s \in Small(n) : g[s] = Up(g, w, s)
           N == {n \in Nat : \E g : Good(n, g)}
<1>0. Zero \in Ballots /\ \A a, b \in Ballots : BallotAdd(a, b) \in Ballots
  BY BallotGroup DEF Zero, Ballots
<1>1. \A s \in SUBSET S : IsFiniteSet(s) /\ Cardinality(s) \in Nat
  BY FS_Subset, FS_CardinalityType
<1>2. \A s \in SUBSET S : s # {} =>
        /\ Pick(s) \in s /\ s \ {Pick(s)} \in SUBSET S
        /\ Cardinality(s \ {Pick(s)}) = Cardinality(s) - 1
  BY <1>1, FS_RemoveElement DEF Pick
<1>3. \A s \in SUBSET S : Cardinality(s) <= 0 => s = {}
  BY <1>1, FS_EmptySet
<1>4. 0 \in N
  <2>1. Good(0, [s \in Small(0) |-> Zero])
    BY <1>0, <1>3 DEF Up
  <2> QED
    BY <2>1
<1>5. \A n \in N : n + 1 \in N
  <2> SUFFICES ASSUME NEW n \in N PROVE n + 1 \in N
    OBVIOUS
  <2>1. PICK g : Good(n, g)
    OBVIOUS
  <2> DEFINE h == [s \in Small(n + 1) |-> Up(g, w, s)]
  <2>2. \A s \in Small(n + 1) : s # {} => s \ {Pick(s)} \in Small(n)
    BY <1>1, <1>2
  <2>3. \A s \in Small(n) : s \in Small(n + 1)
    BY <1>1
  <2>4. h \in [Small(n + 1) -> Ballots]
    <3> SUFFICES ASSUME NEW s \in Small(n + 1) PROVE Up(g, w, s) \in Ballots
      OBVIOUS
    <3>1. CASE s = {}
      BY <1>0, <3>1 DEF Up
    <3>2. CASE s # {}
      <4>1. g[s \ {Pick(s)}] \in Ballots /\ w[Pick(s)] \in Ballots
        BY <1>2, <2>1, <2>2, <3>2
      <4> QED
        BY <1>0, <3>2, <4>1 DEF Up
    <3> QED
      BY <3>1, <3>2
  <2>5. \A s \in Small(n) : h[s] = g[s]
    BY <2>1, <2>3
  <2>6. \A s \in Small(n + 1) : h[s] = Up(h, w, s)
    BY <2>2, <2>5 DEF Up
  <2>7. Good(n + 1, h)
    BY <2>4, <2>6
  <2> HIDE DEF Good
  <2>8. \E x : Good(n + 1, x)
    BY <2>7
  <2> QED
    BY <2>8
<1>6. Cardinality(S) \in N
  <2>1. N \in SUBSET Nat /\ Cardinality(S) \in Nat
    BY FS_CardinalityType
  <2> HIDE DEF N
  <2> QED
    BY <1>4, <1>5, <2>1, AllNat
<1>7. Small(Cardinality(S)) = SUBSET S
  BY FS_Subset
<1>8. PICK g : g \in [SUBSET S -> Ballots] /\ \A s \in SUBSET S : g[s] = Up(g, w, s)
  BY <1>6, <1>7
<1>9. g = [s \in SUBSET S |-> Up(g, w, s)]
  BY <1>8
<1> QED
  BY <1>8, <1>9

\* It adds the weight of any element to the rest, not only of the one picked.
LEMMA FoldRemoves ==
    ASSUME NEW S, IsFiniteSet(S), NEW w, \A k \in S : w[k] \in Ballots, NEW g, Folds(g, w, S)
    PROVE  \A s \in SUBSET S : \A x \in s : g[s] = BallotAdd(g[s \ {x}], w[x])
<1> DEFINE M == {n \in Nat : \A s \in SUBSET S : Cardinality(s) <= n =>
                                \A x \in s : g[s] = BallotAdd(g[s \ {x}], w[x])}
<1>1. \A s \in SUBSET S : IsFiniteSet(s) /\ Cardinality(s) \in Nat
  BY FS_Subset, FS_CardinalityType
<1>2. 0 \in M
  <2>1. \A s \in SUBSET S : Cardinality(s) <= 0 => s = {}
    BY <1>1, FS_EmptySet
  <2> QED
    BY <2>1
<1>3. \A n \in M : n + 1 \in M
  <2> SUFFICES ASSUME NEW n \in M PROVE n + 1 \in M
    OBVIOUS
  <2> SUFFICES ASSUME NEW s \in SUBSET S, Cardinality(s) <= n + 1, NEW x \in s
               PROVE  g[s] = BallotAdd(g[s \ {x}], w[x])
    OBVIOUS
  <2> DEFINE p == Pick(s)
             r == (s \ {p}) \ {x}
  <2>1. p \in s
    BY DEF Pick
  <2>2. g[s] = BallotAdd(g[s \ {p}], w[p])
    BY DEF Folds, Up
  <2> HIDE DEF p
  <2>3. CASE p = x
    BY <2>2, <2>3
  <2>4. CASE p # x
    <3>1. /\ s \ {p} \in SUBSET S /\ Cardinality(s \ {p}) = Cardinality(s) - 1 /\ x \in s \ {p}
          /\ s \ {x} \in SUBSET S /\ Cardinality(s \ {x}) = Cardinality(s) - 1 /\ p \in s \ {x}
      BY <1>1, <2>1, <2>4, FS_RemoveElement
    <3>2. Cardinality(s \ {p}) <= n /\ Cardinality(s \ {x}) <= n
      BY <1>1, <3>1
    <3>3. g[s \ {p}] = BallotAdd(g[r], w[x])
      BY <3>1, <3>2
    <3>4. (s \ {x}) \ {p} = r
      OBVIOUS
    <3>5. g[s \ {x}] = BallotAdd(g[r], w[p])
      BY <3>1, <3>2, <3>4
    <3>6. r \in SUBSET S
      OBVIOUS
    <3>7. g[r] \in Ballots /\ w[x] \in Ballots /\ w[p] \in Ballots
      BY <2>1, <3>6 DEF Folds
    <3> HIDE DEF r
    <3>8. BallotAdd(BallotAdd(g[r], w[x]), w[p]) = BallotAdd(BallotAdd(g[r], w[p]), w[x])
      <4> HIDE DEF M
      <4> QED
        BY <3>7, BallotSwap
    <3> QED
      BY <2>2, <3>3, <3>5, <3>8
  <2> QED
    BY <2>3, <2>4
<1>4. Cardinality(S) \in M
  <2>1. M \in SUBSET Nat /\ Cardinality(S) \in Nat
    BY <1>1
  <2> HIDE DEF M
  <2> QED
    BY <1>2, <1>3, <2>1, AllNat
<1>5. \A s \in SUBSET S : Cardinality(s) <= Cardinality(S)
  BY FS_Subset
<1> QED
  BY <1>4, <1>5

\* It depends on nothing but the weights of the elements.
LEMMA FoldsAgree ==
    ASSUME NEW S, IsFiniteSet(S), NEW R, NEW T, S \subseteq R, S \subseteq T, NEW v, NEW w,
           \A k \in S : v[k] = w[k], NEW g, NEW h, Folds(g, v, R), Folds(h, w, T)
    PROVE  g[S] = h[S]
<1> DEFINE Q == {s \in SUBSET S : g[s] = h[s]}
<1>1. {} \in Q
  <2>1. {} \in SUBSET R /\ {} \in SUBSET T
    OBVIOUS
  <2>2. g[{}] = Zero /\ h[{}] = Zero
    BY <2>1, Zenon DEF Folds, Up
  <2> QED
    BY <2>2
<1>2. \A s \in SUBSET S : s # {} /\ s \ {Pick(s)} \in Q => s \in Q
  <2> SUFFICES ASSUME NEW s \in SUBSET S, s # {}, g[s \ {Pick(s)}] = h[s \ {Pick(s)}]
               PROVE  g[s] = h[s]
    OBVIOUS
  <2>1. Pick(s) \in S
    BY DEF Pick
  <2>2. s \in SUBSET R /\ s \in SUBSET T
    OBVIOUS
  <2>3. g[s] = BallotAdd(g[s \ {Pick(s)}], v[Pick(s)]) /\ h[s] = BallotAdd(h[s \ {Pick(s)}], w[Pick(s)])
    BY <2>2 DEF Folds, Up
  <2> QED
    BY <2>1, <2>3
<1>3. S \in Q
  <2> Q \in SUBSET SUBSET S
    OBVIOUS
  <2> HIDE DEF Q
  <2> QED
    BY <1>1, <1>2, SubsetsBySize
<1> QED
  BY <1>3

\* A function that folds has ballots as its values.
LEMMA FoldsTyped ==
    ASSUME NEW S, IsFiniteSet(S), NEW w, \A k \in S : w[k] \in Ballots, NEW g,
           \A s \in SUBSET S : g[s] = Up(g, w, s)
    PROVE  Folds(g, w, S)
<1> SUFFICES ASSUME NEW T \in SUBSET S PROVE g[T] \in Ballots
  BY DEF Folds
<1> DEFINE P == {s \in SUBSET T : g[s] \in Ballots}
<1>1. {} \in P
  <2>1. g[{}] = Zero
    BY DEF Up
  <2> QED
    BY <2>1, BallotGroup DEF Zero, Ballots
<1>2. \A s \in SUBSET T : s # {} /\ s \ {Pick(s)} \in P => s \in P
  <2> SUFFICES ASSUME NEW s \in SUBSET T, s # {}, g[s \ {Pick(s)}] \in Ballots
               PROVE  g[s] \in Ballots
    OBVIOUS
  <2>1. Pick(s) \in S
    BY DEF Pick
  <2>2. g[s] = BallotAdd(g[s \ {Pick(s)}], w[Pick(s)])
    BY DEF Up
  <2> QED
    BY <2>1, <2>2, BallotGroup
<1>3. IsFiniteSet(T) /\ P \in SUBSET SUBSET T
  BY FS_Subset
<1> HIDE DEF P
<1>4. T \in P
  BY <1>1, <1>2, <1>3, SubsetsBySize
<1> QED
  BY <1>4 DEF P

\* The sums of ballots are such folds,
LEMMA SumFolds ==
    ASSUME NEW n \in Nat, NEW f, \A i \in 1..n : f[i] \in Ballots
    PROVE  \E g : Folds(g, f, 1..n) /\ SumOf(f, n) = g[1..n]
<1> DEFINE S == 1..n
           Iter(x) == x = [s \in SUBSET S |-> Up(x, f, s)]
           it == CHOOSE x : Iter(x)
<1>1. IsFiniteSet(S)
  BY FS_Interval
<1>2. PICK g : Iter(g) /\ g \in [SUBSET S -> Ballots]
  BY <1>1, FoldExists
<1>3. Iter(it)
  BY <1>2
<1>4. SumOf(f, n) = it[S]
  BY DEF SumOf, FoldFunctionOnSet, MapThenFoldSet, Pick, Up
<1>5. it = [s \in SUBSET S |-> Up(it, f, s)]
  BY <1>3
<1> HIDE DEF it
<1>6. \A s \in SUBSET S : it[s] = Up(it, f, s)
  BY <1>5
<1>7. Folds(it, f, S)
  BY <1>1, <1>6, FoldsTyped
<1> QED
  BY <1>4, <1>7

\* and so is the tally of a tree, with the ballots of its leaves for weights.
Weights(t) == [k \in Leaves(t) |-> t[k][1]]

LEMMA TallyFolds ==
    ASSUME NEW t, IsFiniteSet(Leaves(t)), \A k \in Leaves(t) : t[k][1] \in Ballots
    PROVE  \E g : /\ Folds(g, Weights(t), Leaves(t)) /\ BallotTally(t) = g[Leaves(t)]
                  /\ \A k \in Leaves(t) :
                         g[Leaves(t)] = BallotAdd(g[Leaves(t) \ {k}], Weights(t)[k])
<1> DEFINE S == Leaves(t)
           w == Weights(t)
           Iter(x) == x = [s \in SUBSET S |->
                              IF s = {} THEN Zero ELSE BallotAdd(x[s \ {Pick(s)}], t[Pick(s)][1])]
           it == CHOOSE x : Iter(x)
<1>1. \A k \in S : w[k] = t[k][1] /\ w[k] \in Ballots
  BY DEF Weights
<1>2. \A s \in SUBSET S : s # {} => Pick(s) \in S
  BY DEF Pick
<1>3. PICK g : g = [s \in SUBSET S |-> Up(g, w, s)] /\ g \in [SUBSET S -> Ballots]
  <2>1. IsFiniteSet(S)
    OBVIOUS
  <2> HIDE DEF w, S
  <2> QED
    BY <1>1, <2>1, FoldExists
<1>4. BallotTally(t) = it[S]
  BY DEF BallotTally, FoldFunctionOnSet, MapThenFoldSet, Pick
<1> HIDE DEF w, S
<1>5. \A x : \A s \in SUBSET S :
        (IF s = {} THEN Zero ELSE BallotAdd(x[s \ {Pick(s)}], t[Pick(s)][1])) = Up(x, w, s)
  BY <1>1, <1>2 DEF Up
<1>6. Iter(g)
  BY <1>3, <1>5
<1>7. Iter(it)
  BY <1>6
<1>8. it = [s \in SUBSET S |->
                IF s = {} THEN Zero ELSE BallotAdd(it[s \ {Pick(s)}], t[Pick(s)][1])]
  BY <1>7
<1> HIDE DEF it
<1>9. \A s \in SUBSET S : it[s] = Up(it, w, s)
  BY <1>5, <1>8
<1>10. IsFiniteSet(S)
  BY DEF S
<1>11. Folds(it, w, S)
  BY <1>1, <1>9, <1>10, FoldsTyped
<1>12. \A k \in S : it[S] = BallotAdd(it[S \ {k}], w[k])
  BY <1>1, <1>10, <1>11, FoldRemoves
<1> QED
  BY <1>4, <1>11, <1>12 DEF w, S

\* A sum is a ballot, nothing for no ballots, and takes them in one by one.
LEMMA SumSteps ==
    ASSUME NEW n \in Nat, NEW f, \A i \in 1..(n + 1) : f[i] \in Ballots
    PROVE  SumOf(f, n) \in Ballots /\ SumOf(f, n + 1) = BallotAdd(SumOf(f, n), f[n + 1])
<1>1. 1..n \subseteq 1..(n + 1) /\ n + 1 \in Nat /\ n + 1 \in 1..(n + 1)
      /\ 1..(n + 1) \ {n + 1} = 1..n
  OBVIOUS
<1>2. IsFiniteSet(1..n) /\ IsFiniteSet(1..(n + 1))
  BY <1>1, FS_Interval
<1>3. PICK g : Folds(g, f, 1..n) /\ SumOf(f, n) = g[1..n]
  BY <1>1, SumFolds
<1>4. PICK h : Folds(h, f, 1..(n + 1)) /\ SumOf(f, n + 1) = h[1..(n + 1)]
  BY <1>1, SumFolds
<1>5. h[1..(n + 1)] = BallotAdd(h[1..(n + 1) \ {n + 1}], f[n + 1])
  BY <1>1, <1>2, <1>4, FoldRemoves
<1>6. g[1..n] = h[1..n]
  BY <1>1, <1>2, <1>3, <1>4, FoldsAgree
<1>7. g[1..n] \in Ballots
  BY <1>3 DEF Folds
<1> QED
  BY <1>1, <1>3, <1>4, <1>5, <1>6, <1>7

\* See SumSteps.
LEMMA SumOfNone == ASSUME NEW f PROVE SumOf(f, 0) = Zero
<1>1. 1..0 = {} /\ 0 \in Nat
  OBVIOUS
<1>2. \A i \in 1..0 : f[i] \in Ballots
  BY <1>1
<1>3. PICK g : Folds(g, f, 1..0) /\ SumOf(f, 0) = g[1..0]
  BY <1>1, <1>2, SumFolds
<1>4. {} \in SUBSET (1..0)
  OBVIOUS
<1>5. g[{}] = Zero
  BY <1>3, <1>4, Zenon DEF Folds, Up
<1> QED
  BY <1>1, <1>3, <1>5

\* See SumSteps.
LEMMA SumsAgree ==
    ASSUME NEW n \in Nat, NEW f, NEW h, \A i \in 1..n : f[i] \in Ballots /\ f[i] = h[i]
    PROVE  SumOf(f, n) = SumOf(h, n) /\ SumOf(f, n) \in Ballots
<1>1. IsFiniteSet(1..n) /\ 1..n \subseteq 1..n
  BY FS_Interval
<1>2. PICK g : Folds(g, f, 1..n) /\ SumOf(f, n) = g[1..n]
  BY SumFolds
<1>3. PICK k : Folds(k, h, 1..n) /\ SumOf(h, n) = k[1..n]
  BY SumFolds
<1>4. g[1..n] = k[1..n]
  BY <1>1, <1>2, <1>3, FoldsAgree
<1>5. g[1..n] \in Ballots
  BY <1>2 DEF Folds
<1> QED
  BY <1>2, <1>3, <1>4, <1>5

----------------------------------------------------------------------------
(* Trees                                                                   *)

BallotLeaf(l) == l = <<l[1], l[2], l[3]>> /\ l[1] \in Ballots

\* A tree has finitely many ballots, each with its address and its weight.
TreeOK(t) ==
    /\ t = [k \in Keys |-> t[k]]
    /\ IsFiniteSet(Leaves(t)) /\ \A k \in Leaves(t) : BallotLeaf(t[k])

\* Leaves differ from no leaf.
LEMMA LeavesAreThere ==
    /\ \A a, b, c : <<a, b, c>> # NoLeaf
    /\ \A a : <<a>> # NoLeaf
    /\ \A l : BallotLeaf(l) => l # NoLeaf
<1>1. \A a, b, c : <<a, b, c>> # NoLeaf
  BY DEF NoLeaf
<1>2. \A a : <<a>> # NoLeaf
  BY DEF NoLeaf
<1>3. \A l : BallotLeaf(l) => l # NoLeaf
  BY <1>1 DEF BallotLeaf
<1> QED
  BY <1>1, <1>2, <1>3

\* The tally of a tree is a ballot.
LEMMA TallyIsBallot == ASSUME NEW t, TreeOK(t) PROVE BallotTally(t) \in Ballots
<1>1. PICK g : Folds(g, Weights(t), Leaves(t)) /\ BallotTally(t) = g[Leaves(t)]
  BY TallyFolds DEF TreeOK, BallotLeaf
<1> QED
  BY <1>1 DEF Folds

\* Another leaf for a ballot adds that one to the tally and takes the one it
\* replaces off.
LEMMA TallyChanges ==
    ASSUME NEW t, TreeOK(t), NEW k \in BallotIndices, NEW leaf, BallotLeaf(leaf)
    PROVE  LET u == [t EXCEPT ![k] = leaf]
               old == IF t[k] = NoLeaf THEN Zero ELSE t[k][1]
           IN  /\ TreeOK(u) /\ old \in Ballots
               /\ BallotTally(u) = BallotAdd(BallotAdd(BallotTally(t), leaf[1]), BallotNeg(old))
<1> DEFINE u == [t EXCEPT ![k] = leaf]
           old == IF t[k] = NoLeaf THEN Zero ELSE t[k][1]
           rest == Leaves(t) \ {k}
           l == leaf[1]
<1>1. k \in Keys /\ t = [j \in Keys |-> t[j]]
  BY DEF Keys, TreeOK
<1>2. u = [j \in Keys |-> u[j]] /\ u[k] = leaf /\ \A j \in Keys : j # k => u[j] = t[j]
  BY <1>1
<1>3. BallotIndices \subseteq Keys /\ leaf # NoLeaf
  BY LeavesAreThere DEF Keys
<1> HIDE DEF u
<1>4. Leaves(u) = rest \cup {k} /\ Leaves(u) \ {k} = rest /\ k \in Leaves(u)
  BY <1>2, <1>3 DEF Leaves
<1>5. IsFiniteSet(Leaves(t)) /\ IsFiniteSet(rest) /\ IsFiniteSet(Leaves(u))
  <2>1. IsFiniteSet(Leaves(t)) /\ IsFiniteSet(rest)
    BY FS_Subset DEF TreeOK
  <2>2. IsFiniteSet(rest \cup {k})
    BY <2>1, FS_AddElement
  <2> QED
    BY <1>4, <2>1, <2>2
<1>6. \A j \in rest : u[j] = t[j]
  BY <1>2, <1>3 DEF Leaves
<1>7. TreeOK(u)
  <2>1. \A j \in Leaves(u) : BallotLeaf(u[j])
    BY <1>2, <1>4, <1>6 DEF TreeOK
  <2> QED
    BY <1>2, <1>5, <2>1 DEF TreeOK
<1>8. PICK g : /\ Folds(g, Weights(t), Leaves(t)) /\ BallotTally(t) = g[Leaves(t)]
               /\ \A j \in Leaves(t) :
                      g[Leaves(t)] = BallotAdd(g[Leaves(t) \ {j}], Weights(t)[j])
  BY TallyFolds DEF TreeOK, BallotLeaf
<1>9. PICK h : /\ Folds(h, Weights(u), Leaves(u)) /\ BallotTally(u) = h[Leaves(u)]
               /\ \A j \in Leaves(u) :
                      h[Leaves(u)] = BallotAdd(h[Leaves(u) \ {j}], Weights(u)[j])
  BY <1>7, TallyFolds DEF TreeOK, BallotLeaf
<1>10. /\ \A j \in Leaves(t) : Weights(t)[j] = t[j][1] /\ Weights(t)[j] \in Ballots
       /\ \A j \in Leaves(u) : Weights(u)[j] = u[j][1] /\ Weights(u)[j] \in Ballots
  BY <1>7 DEF TreeOK, BallotLeaf, Weights
<1>11. g[rest] = h[rest]
  <2>1. rest \subseteq Leaves(t) /\ rest \subseteq Leaves(u)
    BY <1>4
  <2>2. \A j \in rest : Weights(t)[j] = Weights(u)[j]
    BY <1>6, <1>10, <2>1
  <2> HIDE DEF rest
  <2> QED
    BY <1>5, <1>8, <1>9, <2>1, <2>2, FoldsAgree
<1>12. h[Leaves(u)] = BallotAdd(h[rest], l)
  <2>1. h[Leaves(u)] = BallotAdd(h[Leaves(u) \ {k}], Weights(u)[k])
    BY <1>4, <1>9
  <2>2. Weights(u)[k] = l
    BY <1>2, <1>4, <1>10
  <2> QED
    BY <1>4, <2>1, <2>2
<1>13. g[rest] \in Ballots /\ l \in Ballots /\ g[Leaves(t)] \in Ballots
  <2>1. rest \in SUBSET Leaves(t)
    OBVIOUS
  <2> QED
    BY <1>8, <2>1 DEF Folds, BallotLeaf
<1>14. CASE t[k] = NoLeaf
  <2>1. rest = Leaves(t)
    BY <1>14 DEF Leaves
  <2>2. old = Zero /\ Zero \in Ballots
    BY <1>13, <1>14, BallotGroup
  <2> DEFINE b == BallotAdd(g[rest], l)
  <2>3. b \in Ballots
    BY <1>13, BallotGroup
  <2> HIDE DEF b
  <2>4. BallotAdd(b, BallotNeg(Zero)) = b
    <3>1. BallotNeg(Zero) = Zero /\ BallotAdd(b, Zero) = b
      BY <2>3, BallotGroup
    <3> QED
      BY <3>1
  <2>5. BallotTally(u) = b /\ BallotTally(t) = g[rest]
    BY <1>8, <1>9, <1>11, <1>12, <2>1 DEF b
  <2>6. BallotTally(u) = BallotAdd(BallotAdd(BallotTally(t), l), BallotNeg(old))
    <3> HIDE DEF old, rest
    <3> QED
      BY <2>2, <2>4, <2>5 DEF b
  <2> QED
    BY <1>7, <2>2, <2>6 DEF u
<1>15. CASE t[k] # NoLeaf
  <2>1. k \in Leaves(t) /\ old = t[k][1]
    BY <1>15 DEF Leaves
  <2>2. old \in Ballots /\ Weights(t)[k] = old
    BY <1>10, <2>1
  <2>3. g[Leaves(t)] = BallotAdd(g[rest], old)
    <3>1. g[Leaves(t)] = BallotAdd(g[Leaves(t) \ {k}], Weights(t)[k])
      BY <1>8, <2>1
    <3> QED
      BY <2>2, <3>1
  <2> DEFINE G == g[rest]
  <2> HIDE DEF old, G
  <2>4. G \in Ballots /\ l \in Ballots /\ old \in Ballots
    BY <1>13, <2>2 DEF G
  <2> HIDE DEF l
  <2>5. BallotAdd(BallotAdd(BallotAdd(G, old), l), BallotNeg(old)) = BallotAdd(G, l)
    <3>1. BallotAdd(BallotAdd(G, old), l) = BallotAdd(BallotAdd(G, l), old)
      BY <2>4, BallotSwap
    <3> DEFINE b == BallotAdd(G, l)
    <3>2. b \in Ballots /\ BallotNeg(old) \in Ballots
      BY <2>4, BallotGroup
    <3> HIDE DEF b
    <3>3. BallotAdd(BallotAdd(b, old), BallotNeg(old)) = BallotAdd(b, BallotAdd(old, BallotNeg(old)))
      BY <2>4, <3>2, BallotGroup
    <3>4. BallotAdd(old, BallotNeg(old)) = Zero
      BY <2>4, BallotGroup
    <3>5. BallotAdd(b, Zero) = b
      BY <3>2, BallotGroup
    <3> QED
      BY <3>1, <3>3, <3>4, <3>5 DEF b
  <2>6. BallotTally(u) = BallotAdd(BallotAdd(BallotTally(t), l), BallotNeg(old))
    BY <1>8, <1>9, <1>11, <1>12, <2>3, <2>5 DEF G
  <2> QED
    BY <1>7, <2>2, <2>6 DEF u, old, l
<1> QED
  BY <1>14, <1>15

\* Other leaves do not matter to it.
LEMMA TallyStays ==
    ASSUME NEW t, TreeOK(t), NEW k \in Keys \ BallotIndices, NEW leaf
    PROVE  LET u == [t EXCEPT ![k] = leaf] IN TreeOK(u) /\ BallotTally(u) = BallotTally(t)
<1> DEFINE u == [t EXCEPT ![k] = leaf]
<1>1. t = [j \in Keys |-> t[j]] /\ BallotIndices \subseteq Keys
  BY DEF TreeOK, Keys
<1>2. u = [j \in Keys |-> u[j]] /\ \A j \in BallotIndices : u[j] = t[j]
  BY <1>1
<1> HIDE DEF u
<1>3. Leaves(u) = Leaves(t)
  BY <1>2 DEF Leaves
<1>4. \A j \in Leaves(t) : u[j] = t[j]
  BY <1>2 DEF Leaves
<1>5. TreeOK(u)
  BY <1>2, <1>3, <1>4 DEF TreeOK
<1>6. PICK g : Folds(g, Weights(t), Leaves(t)) /\ BallotTally(t) = g[Leaves(t)]
  BY TallyFolds DEF TreeOK, BallotLeaf
<1>7. PICK h : Folds(h, Weights(u), Leaves(u)) /\ BallotTally(u) = h[Leaves(u)]
  BY <1>5, TallyFolds DEF TreeOK, BallotLeaf
<1>8. Weights(u) = Weights(t)
  BY <1>3, <1>4 DEF Weights
<1>9. IsFiniteSet(Leaves(t))
  BY DEF TreeOK
<1>10. g[Leaves(t)] = h[Leaves(t)]
  BY <1>3, <1>6, <1>7, <1>8, <1>9, FoldsAgree
<1> QED
  BY <1>3, <1>5, <1>6, <1>7, <1>10 DEF u

\* The empty tree.
LEMMA EmptyTreeOK == TreeOK(EmptyTree) /\ EmptyTree[ResultsKey] = <<BallotTally(EmptyTree)>>
<1>1. EmptyTree = [k \in Keys |-> EmptyTree[k]] /\ ResultsKey \in Keys /\ EmptyTree[ResultsKey] = <<Zero>>
  BY DEF EmptyTree, Keys
<1>2. Leaves(EmptyTree) = {}
  BY StateTreeAssumption DEF Leaves, EmptyTree, Keys
<1>3. TreeOK(EmptyTree)
  BY <1>1, <1>2, FS_EmptySet DEF TreeOK
<1>4. PICK g : Folds(g, Weights(EmptyTree), Leaves(EmptyTree)) /\ BallotTally(EmptyTree) = g[Leaves(EmptyTree)]
  BY <1>3, TallyFolds DEF TreeOK, BallotLeaf
<1>5. {} \in SUBSET Leaves(EmptyTree)
  OBVIOUS
<1>6. g[{}] = Zero
  BY <1>4, <1>5, Zenon DEF Folds, Up
<1> QED
  BY <1>1, <1>2, <1>3, <1>4, <1>6

----------------------------------------------------------------------------
(* What the circuit accepts, whoever made the witness                      *)

\* The tree after the first i slots of batch b.
After(b, i) == IF i = 0 THEN b.before ELSE b.ids[i].new

\* The summands of VerifyBallots.
Added(b) ==
    [i \in 1..b.votersCount |-> IF b.ballots[i].fnc = "noop" THEN Zero ELSE b.votes[i].reencrypted]
Replaced(b) ==
    [i \in 1..b.votersCount |-> IF b.ballots[i].fnc = "update" THEN b.over[i] ELSE Zero]

\* A witness: it starts from a tree, and ballots are ballots.
WitnessOK(b) == TreeOK(b.before) /\ \A i \in 1..b.votersCount : b.votes[i].reencrypted \in Ballots

\* The votes have slots.
LEMMA VotesHaveSlots ==
    ASSUME NEW b, CircuitAccepts(b) PROVE b.votersCount \in 0..VotesPerBatch /\ b.votersCount \in Nat
<1> DEFINE S == {i \in 1..VotesPerBatch : b.ballots[i].fnc # "noop"}
<1>1. b.votersCount = Cardinality(S)
  BY DEF CircuitAccepts, VerifyBallots
<1>2. IsFiniteSet(1..VotesPerBatch) /\ Cardinality(1..VotesPerBatch) = VotesPerBatch
  <2>1. VotesPerBatch \in Nat /\ VotesPerBatch \in Int /\ 1 \in Int
    BY StateTreeAssumption
  <2> QED
    BY <2>1, FS_Interval
<1>3. S \subseteq 1..VotesPerBatch
  OBVIOUS
<1> HIDE DEF S
<1>4. IsFiniteSet(S) /\ Cardinality(S) <= VotesPerBatch /\ Cardinality(S) \in Nat
  BY <1>2, <1>3, FS_Subset, FS_CardinalityType
<1> QED
  BY <1>1, <1>4, StateTreeAssumption

\* The slot of a vote puts its ballot and its vote ID, which was not there, into
\* the tree; the ballot that an update replaces is the one the witness names.
LEMMA SlotOfVote ==
    ASSUME NEW b, CircuitAccepts(b), NEW i \in 1..b.votersCount,
           After(b, i - 1) = [k \in Keys |-> After(b, i - 1)[k]]
    PROVE  LET v == b.votes[i]
               t == After(b, i - 1)
               u == [t EXCEPT ![v.index] = TreeLeafValues(v, v.reencrypted)]
           IN  /\ v.index \in BallotIndices /\ v.id \in VoteIDs
               /\ After(b, i) = [u EXCEPT ![v.id] = VoteIDLeaf]
               /\ t[v.id] = NoLeaf
               /\ \/ b.ballots[i].fnc = "insert" /\ t[v.index] = NoLeaf
                  \/ b.ballots[i].fnc = "update" /\ t[v.index] = TreeLeafValues(v, b.over[i])
<1> DEFINE v == b.votes[i]
           t == After(b, i - 1)
           leaf == TreeLeafValues(v, v.reencrypted)
           u == [t EXCEPT ![v.index] = leaf]
           tr == b.ballots[i]
           id == b.ids[i]
<1>1. i \in 1..VotesPerBatch /\ IsReal(b, i) /\ i \in Int /\ i # 0
  <2>1. b.votersCount \in 0..VotesPerBatch /\ b.votersCount \in Nat
    BY VotesHaveSlots
  <2> QED
    BY <2>1, StateTreeAssumption DEF IsReal
<1>2. v.id \in VoteIDs /\ <<v.address, v.index, v.weight>> \in CensusEntries
  BY DEF CircuitAccepts, VerifyBlobs, VerifyCensusProofs
<1>3. v.index \in BallotIndices
  <2>1. <<v.address, v.index, v.weight>>[2] = v.index
    OBVIOUS
  <2> QED
    BY <1>2, <2>1, StateTreeAssumption
<1>4. v.index \in Keys /\ v.id \in Keys /\ v.id # v.index
  BY <1>2, <1>3, StateTreeAssumption DEF Keys
<1>5. tr.fnc \in {"insert", "update"} /\ id.fnc = "insert"
  BY <1>1 DEF CircuitAccepts, VerifyMerkleTransitions
<1>6. tr.key = v.index /\ id.key = v.id
  BY <1>1, <1>5 DEF CircuitAccepts, VerifyMerkleTransitionKeys, VerifyNewKey
<1>7. VerifyTransition(tr, t) /\ VerifyTransition(id, tr.new)
  <2>1. VerifyTransition(tr, IF i = 1 THEN b.before ELSE b.ids[i - 1].new) /\ VerifyTransition(id, tr.new)
    BY <1>1 DEF CircuitAccepts, VerifyRootTransition
  <2>2. t = IF i = 1 THEN b.before ELSE b.ids[i - 1].new
    BY <1>1 DEF After
  <2> QED
    BY <2>1, <2>2
<1>8. tr.newLeaf = leaf /\ id.newLeaf = VoteIDLeaf
      /\ (tr.fnc = "update" => tr.oldLeaf = TreeLeafValues(v, b.over[i]))
  BY <1>1, <1>5 DEF CircuitAccepts, VerifyLeafHashes, VerifyNewLeafHash, VerifyOverwrittenBallot
<1>9. tr.old = t /\ tr.new = u
  BY <1>5, <1>6, <1>7, <1>8 DEF VerifyTransition
<1>10. id.old = u /\ id.new = [u EXCEPT ![v.id] = VoteIDLeaf] /\ u[v.id] = NoLeaf
  BY <1>5, <1>6, <1>7, <1>8, <1>9 DEF VerifyTransition
<1>11. After(b, i) = id.new
  BY <1>1 DEF After
<1>12. tr.fnc = "insert" => t[v.index] = NoLeaf
  BY <1>6, <1>7, <1>9 DEF VerifyTransition
<1>13. tr.fnc = "update" => t[v.index] = TreeLeafValues(v, b.over[i])
  BY <1>6, <1>7, <1>8, <1>9 DEF VerifyTransition
<1>14. t[v.id] = NoLeaf
  <2> HIDE DEF t
  <2>1. u[v.id] = t[v.id]
    BY <1>4 DEF t
  <2> QED
    BY <1>10, <2>1
<1> QED
  BY <1>2, <1>3, <1>5, <1>10, <1>11, <1>12, <1>13, <1>14

\* A slot without a vote leaves the tree.
LEMMA SlotOfNone ==
    ASSUME NEW b, CircuitAccepts(b), NEW i \in 1..VotesPerBatch, ~(i <= b.votersCount)
    PROVE  After(b, i) = After(b, i - 1)
<1>1. b.ballots[i].fnc = "noop" /\ b.ids[i].fnc = "noop"
  BY DEF CircuitAccepts, VerifyMerkleTransitions, IsReal
<1>2. /\ VerifyTransition(b.ballots[i], IF i = 1 THEN b.before ELSE b.ids[i - 1].new)
      /\ VerifyTransition(b.ids[i], b.ballots[i].new)
  BY DEF CircuitAccepts, VerifyRootTransition
<1>3. After(b, i - 1) = (IF i = 1 THEN b.before ELSE b.ids[i - 1].new) /\ After(b, i) = b.ids[i].new
  BY DEF After
<1> QED
  BY <1>1, <1>2, <1>3 DEF VerifyTransition

\* Along the slots of the votes the trees are trees, with the results untouched.
LEMMA TreesAlong ==
    ASSUME NEW b, CircuitAccepts(b), WitnessOK(b)
    PROVE  \A m \in 0..b.votersCount :
               TreeOK(After(b, m)) /\ After(b, m)[ResultsKey] = b.before[ResultsKey]
<1> DEFINE n == b.votersCount
           S == {m \in Nat : m <= n =>
                    TreeOK(After(b, m)) /\ After(b, m)[ResultsKey] = b.before[ResultsKey]}
<1>1. n \in Nat
  BY VotesHaveSlots
<1>2. 0 \in S
  BY DEF After, WitnessOK
<1>3. \A m \in S : m + 1 \in S
  <2> SUFFICES ASSUME NEW m \in S, m + 1 <= n
               PROVE  TreeOK(After(b, m + 1)) /\ After(b, m + 1)[ResultsKey] = b.before[ResultsKey]
    OBVIOUS
  <2> DEFINE i == m + 1
             v == b.votes[i]
             t == After(b, m)
             leaf == TreeLeafValues(v, v.reencrypted)
             u == [t EXCEPT ![v.index] = leaf]
  <2>1. i \in 1..n /\ i - 1 = m
    BY <1>1
  <2>2. TreeOK(t) /\ t[ResultsKey] = b.before[ResultsKey]
    BY <1>1
  <2>3. t = [k \in Keys |-> t[k]]
    BY <2>2 DEF TreeOK
  <2>4. v.index \in BallotIndices /\ v.id \in VoteIDs /\ After(b, i) = [u EXCEPT ![v.id] = VoteIDLeaf]
    <3> HIDE DEF i
    <3> QED
      BY <2>1, <2>3, SlotOfVote
  <2>5. BallotLeaf(leaf)
    BY <2>1 DEF WitnessOK, BallotLeaf, TreeLeafValues
  <2> HIDE DEF i, v, t, leaf
  <2>6. TreeOK(u)
    BY <2>2, <2>4, <2>5, TallyChanges
  <2>7. v.id \in Keys \ BallotIndices /\ v.id # ResultsKey /\ v.index # ResultsKey /\ ResultsKey \in Keys
    BY <2>4, StateTreeAssumption DEF Keys
  <2>8. u[ResultsKey] = t[ResultsKey] /\ u = [k \in Keys |-> u[k]]
    BY <2>3, <2>7
  <2> HIDE DEF u
  <2>9. TreeOK(After(b, i))
    <3>1. TreeOK([u EXCEPT ![v.id] = VoteIDLeaf])
      BY <2>6, <2>7, TallyStays
    <3> QED
      BY <2>4, <3>1
  <2>10. After(b, i)[ResultsKey] = t[ResultsKey]
    BY <2>4, <2>7, <2>8
  <2> QED
    BY <2>2, <2>9, <2>10 DEF i
<1>4. S = Nat
  <2>1. S \in SUBSET Nat
    OBVIOUS
  <2> HIDE DEF S
  <2> QED
    BY <1>2, <1>3, <2>1, AllNat
<1> QED
  BY <1>1, <1>4

\* Sums of sums.
LEMMA BallotSums ==
    ASSUME NEW t \in Ballots, NEW s \in Ballots, NEW r \in Ballots, NEW a \in Ballots, NEW o \in Ballots
    PROVE  BallotAdd(BallotAdd(BallotAdd(t, BallotAdd(s, BallotNeg(r))), a), BallotNeg(o))
             = BallotAdd(t, BallotAdd(BallotAdd(s, a), BallotNeg(BallotAdd(r, o))))
<1>1. PICK t1 \in Int, t2 \in Int : t = <<t1, t2>>
  BY DEF Ballots
<1>2. PICK s1 \in Int, s2 \in Int : s = <<s1, s2>>
  BY DEF Ballots
<1>3. PICK r1 \in Int, r2 \in Int : r = <<r1, r2>>
  BY DEF Ballots
<1>4. PICK a1 \in Int, a2 \in Int : a = <<a1, a2>>
  BY DEF Ballots
<1>5. PICK o1 \in Int, o2 \in Int : o = <<o1, o2>>
  BY DEF Ballots
<1>6. ((t1 + (s1 + (-r1))) + a1) + (-o1) = t1 + ((s1 + a1) + (-(r1 + o1)))
      /\ ((t2 + (s2 + (-r2))) + a2) + (-o2) = t2 + ((s2 + a2) + (-(r2 + o2)))
  OBVIOUS
<1> QED
  BY <1>1, <1>2, <1>3, <1>4, <1>5, <1>6 DEF BallotAdd, BallotNeg

\* The tally after a slot, from the one before.
LEMMA TallyOfSlot ==
    ASSUME NEW b, CircuitAccepts(b), WitnessOK(b), NEW i \in 1..b.votersCount
    PROVE  /\ Added(b)[i] \in Ballots /\ Replaced(b)[i] \in Ballots
           /\ BallotTally(After(b, i))
                = BallotAdd(BallotAdd(BallotTally(After(b, i - 1)), Added(b)[i]), BallotNeg(Replaced(b)[i]))
<1> DEFINE v == b.votes[i]
           t == After(b, i - 1)
           leaf == TreeLeafValues(v, v.reencrypted)
           u == [t EXCEPT ![v.index] = leaf]
           old == IF t[v.index] = NoLeaf THEN Zero ELSE t[v.index][1]
<1>1. i - 1 \in 0..b.votersCount
  BY VotesHaveSlots
<1>2. TreeOK(t)
  BY <1>1, TreesAlong
<1>3. t = [k \in Keys |-> t[k]]
  BY <1>2 DEF TreeOK
<1>4. /\ v.index \in BallotIndices /\ v.id \in VoteIDs
      /\ After(b, i) = [u EXCEPT ![v.id] = VoteIDLeaf]
      /\ \/ b.ballots[i].fnc = "insert" /\ t[v.index] = NoLeaf
         \/ b.ballots[i].fnc = "update" /\ t[v.index] = TreeLeafValues(v, b.over[i])
  BY <1>3, SlotOfVote
<1>5. BallotLeaf(leaf) /\ leaf[1] = v.reencrypted /\ v.reencrypted \in Ballots
  BY DEF WitnessOK, BallotLeaf, TreeLeafValues
<1>6. TreeLeafValues(v, b.over[i]) # NoLeaf /\ TreeLeafValues(v, b.over[i])[1] = b.over[i]
  BY LeavesAreThere DEF TreeLeafValues
<1>7. Added(b)[i] = v.reencrypted
  BY <1>4 DEF Added
<1>8. Replaced(b)[i] = old
  <2>1. Replaced(b)[i] = IF b.ballots[i].fnc = "update" THEN b.over[i] ELSE Zero
    BY DEF Replaced
  <2>2. CASE b.ballots[i].fnc = "insert" /\ t[v.index] = NoLeaf
    BY <2>1, <2>2
  <2>3. CASE b.ballots[i].fnc = "update" /\ t[v.index] = TreeLeafValues(v, b.over[i])
    BY <1>6, <2>1, <2>3
  <2> QED
    BY <1>4, <2>2, <2>3
<1>9. v.id \in Keys \ BallotIndices
  BY <1>4, StateTreeAssumption DEF Keys
<1> HIDE DEF t, leaf
<1>10. TreeOK(u) /\ old \in Ballots
       /\ BallotTally(u) = BallotAdd(BallotAdd(BallotTally(t), leaf[1]), BallotNeg(old))
  BY <1>2, <1>4, <1>5, TallyChanges
<1> HIDE DEF u, old
<1>11. BallotTally([u EXCEPT ![v.id] = VoteIDLeaf]) = BallotTally(u)
  BY <1>9, <1>10, TallyStays
<1> QED
  BY <1>4, <1>5, <1>7, <1>8, <1>10, <1>11 DEF t

\* The tally along the slots.
LEMMA TallyAlong ==
    ASSUME NEW b, CircuitAccepts(b), WitnessOK(b)
    PROVE  \A m \in 0..b.votersCount :
             /\ SumOf(Added(b), m) \in Ballots /\ SumOf(Replaced(b), m) \in Ballots
             /\ BallotTally(After(b, m)) = BallotAdd(BallotTally(b.before),
                    BallotAdd(SumOf(Added(b), m), BallotNeg(SumOf(Replaced(b), m))))
<1> DEFINE n == b.votersCount
           A(m) == SumOf(Added(b), m)
           R(m) == SumOf(Replaced(b), m)
           T(m) == BallotTally(After(b, m))
           start == BallotTally(b.before)
           S == {m \in Nat : m <= n => /\ A(m) \in Ballots /\ R(m) \in Ballots
                                       /\ T(m) = BallotAdd(start, BallotAdd(A(m), BallotNeg(R(m))))}
<1>1. n \in Nat
  BY VotesHaveSlots
<1>2. start \in Ballots /\ T(0) = start
  BY TallyIsBallot DEF WitnessOK, After
<1>3. A(0) = Zero /\ R(0) = Zero /\ Zero \in Ballots
  BY <1>2, SumOfNone, BallotGroup
<1>4. \A i \in 1..n : Added(b)[i] \in Ballots /\ Replaced(b)[i] \in Ballots
  BY TallyOfSlot
<1>5. ASSUME NEW m \in Nat, m + 1 <= n
      PROVE  /\ A(m) \in Ballots /\ R(m) \in Ballots
             /\ A(m + 1) = BallotAdd(A(m), Added(b)[m + 1]) /\ R(m + 1) = BallotAdd(R(m), Replaced(b)[m + 1])
             /\ Added(b)[m + 1] \in Ballots /\ Replaced(b)[m + 1] \in Ballots
             /\ T(m + 1) = BallotAdd(BallotAdd(T(m), Added(b)[m + 1]), BallotNeg(Replaced(b)[m + 1]))
  <2>1. 1..(m + 1) \subseteq 1..n /\ m + 1 \in 1..n /\ (m + 1) - 1 = m
    BY <1>1, <1>5
  <2>2. \A i \in 1..(m + 1) : Added(b)[i] \in Ballots /\ Replaced(b)[i] \in Ballots
    BY <1>4, <2>1
  <2>3. A(m) \in Ballots /\ A(m + 1) = BallotAdd(A(m), Added(b)[m + 1])
    BY <2>2, SumSteps
  <2>4. R(m) \in Ballots /\ R(m + 1) = BallotAdd(R(m), Replaced(b)[m + 1])
    BY <2>2, SumSteps
  <2> DEFINE i == m + 1
  <2> HIDE DEF i
  <2>5. i \in 1..n /\ i - 1 = m
    BY <2>1 DEF i
  <2>6. T(i) = BallotAdd(BallotAdd(T(i - 1), Added(b)[i]), BallotNeg(Replaced(b)[i]))
    BY <2>5, TallyOfSlot
  <2> QED
    BY <2>1, <2>2, <2>3, <2>4, <2>5, <2>6 DEF i
<1> HIDE DEF A, R, T, start
<1>6. 0 \in S
  <2>1. BallotNeg(Zero) = Zero /\ BallotAdd(Zero, Zero) = Zero /\ BallotAdd(start, Zero) = start
    BY <1>2, <1>3, BallotGroup
  <2> QED
    BY <1>2, <1>3, <2>1
<1>7. \A m \in S : m + 1 \in S
  <2> SUFFICES ASSUME NEW m \in S, m + 1 <= n
               PROVE  /\ A(m + 1) \in Ballots /\ R(m + 1) \in Ballots
                      /\ T(m + 1) = BallotAdd(start, BallotAdd(A(m + 1), BallotNeg(R(m + 1))))
    OBVIOUS
  <2> DEFINE a == Added(b)[m + 1]
             o == Replaced(b)[m + 1]
  <2>1. T(m) = BallotAdd(start, BallotAdd(A(m), BallotNeg(R(m))))
    BY <1>1
  <2>2. /\ A(m) \in Ballots /\ R(m) \in Ballots /\ a \in Ballots /\ o \in Ballots
        /\ A(m + 1) = BallotAdd(A(m), a) /\ R(m + 1) = BallotAdd(R(m), o)
        /\ T(m + 1) = BallotAdd(BallotAdd(T(m), a), BallotNeg(o))
    BY <1>5
  <2> HIDE DEF a, o
  <2>3. BallotAdd(BallotAdd(BallotAdd(start, BallotAdd(A(m), BallotNeg(R(m)))), a), BallotNeg(o))
          = BallotAdd(start, BallotAdd(BallotAdd(A(m), a), BallotNeg(BallotAdd(R(m), o))))
    BY <1>2, <2>2, BallotSums
  <2>4. BallotAdd(A(m), a) \in Ballots /\ BallotAdd(R(m), o) \in Ballots
    BY <2>2, BallotGroup
  <2> QED
    BY <2>1, <2>2, <2>3, <2>4
<1>8. S = Nat
  <2>1. S \in SUBSET Nat
    OBVIOUS
  <2> HIDE DEF S
  <2> QED
    BY <1>6, <1>7, <2>1, AllNat
<1>9. \A m \in 0..n : /\ A(m) \in Ballots /\ R(m) \in Ballots
                      /\ T(m) = BallotAdd(start, BallotAdd(A(m), BallotNeg(R(m))))
  BY <1>1, <1>8
<1> QED
  BY <1>9 DEF A, R, T, start

\* The slots after the votes leave the tree to the results.
LEMMA LastSlot ==
    ASSUME NEW b, CircuitAccepts(b)
    PROVE  After(b, VotesPerBatch) = After(b, b.votersCount)
<1> DEFINE n == b.votersCount
           S == {m \in Nat : n + m <= VotesPerBatch => After(b, n + m) = After(b, n)}
<1>1. n \in 0..VotesPerBatch /\ n \in Nat /\ VotesPerBatch \in Nat
  BY VotesHaveSlots, StateTreeAssumption
<1>2. 0 \in S
  BY <1>1
<1>3. \A m \in S : m + 1 \in S
  <2> SUFFICES ASSUME NEW m \in S, n + (m + 1) <= VotesPerBatch PROVE After(b, n + (m + 1)) = After(b, n)
    OBVIOUS
  <2> DEFINE i == n + (m + 1)
  <2>1. i \in 1..VotesPerBatch /\ ~(i <= n) /\ i - 1 = n + m /\ n + m <= VotesPerBatch
    BY <1>1
  <2> HIDE DEF i
  <2>2. After(b, i) = After(b, i - 1)
    BY <2>1, SlotOfNone
  <2> QED
    BY <2>1, <2>2 DEF i
<1>4. S = Nat
  <2>1. S \in SUBSET Nat
    OBVIOUS
  <2> HIDE DEF S
  <2> QED
    BY <1>2, <1>3, <2>1, AllNat
<1>5. PICK d \in Nat : n + d = VotesPerBatch
  <2>1. VotesPerBatch - n \in Nat /\ n + (VotesPerBatch - n) = VotesPerBatch
    BY <1>1
  <2> QED
    BY <2>1
<1>6. d \in S
  BY <1>4
<1>7. n + d <= VotesPerBatch
  BY <1>1, <1>5
<1>8. After(b, n + d) = After(b, n)
  BY <1>6, <1>7
<1> QED
  BY <1>5, <1>8

\* Whatever witness the circuit accepts from a tree whose results are its tally,
\* it leads to such a tree, that of the votes with the new results.
LEMMA AcceptedTreeTallies ==
    ASSUME NEW b, CircuitAccepts(b), WitnessOK(b), b.before[ResultsKey] = <<BallotTally(b.before)>>
    PROVE  /\ TreeOK(b.after) /\ b.after[ResultsKey] = <<BallotTally(b.after)>>
           /\ b.after = [After(b, b.votersCount) EXCEPT ![ResultsKey] = <<b.newResults>>]
           /\ b.newResults \in Ballots
<1> DEFINE n == b.votersCount
           last == After(b, n)
           r == b.results
           sum == BallotAdd(SumOf(Added(b), n), BallotNeg(SumOf(Replaced(b), n)))
<1>1. n \in 0..n /\ VotesPerBatch # 0 /\ VotesPerBatch \in Nat
  BY VotesHaveSlots, StateTreeAssumption
<1>2. b.ids[VotesPerBatch].new = last
  BY <1>1, LastSlot DEF After
<1>3. TreeOK(last) /\ last[ResultsKey] = <<BallotTally(b.before)>>
  BY <1>1, TreesAlong
<1>4. r.fnc = "update" /\ r.key = ResultsKey /\ r.newLeaf = <<b.newResults>> /\ r.oldLeaf = <<b.oldResults>>
  BY DEF CircuitAccepts, VerifyMerkleTransitions, VerifyMerkleTransitionKeys, VerifyNewKey,
         VerifyLeafHashes, VerifyNewLeafHash, VerifyOldLeafHash
<1>5. VerifyTransition(r, last) /\ r.new = b.after
  BY <1>2 DEF CircuitAccepts, VerifyRootTransition
<1>6. /\ b.after = [last EXCEPT ![ResultsKey] = <<b.newResults>>]
      /\ last[ResultsKey] = <<b.oldResults>>
  BY <1>4, <1>5 DEF VerifyTransition
<1>7. b.newResults = BallotAdd(b.oldResults, sum)
  BY Zenon DEF CircuitAccepts, VerifyBallots, Added, Replaced
<1>8. BallotTally(last) = BallotAdd(BallotTally(b.before), sum)
  BY <1>1, TallyAlong
<1> HIDE DEF last, sum
<1>9. b.oldResults = BallotTally(b.before)
  <2>1. <<b.oldResults>>[1] = <<BallotTally(b.before)>>[1]
    BY <1>3, <1>6
  <2> QED
    BY <2>1
<1>10. b.newResults = BallotTally(last)
  BY <1>7, <1>8, <1>9
<1>11. ResultsKey \in Keys \ BallotIndices
  BY StateTreeAssumption DEF Keys
<1>12. TreeOK(b.after) /\ BallotTally(b.after) = BallotTally(last)
  BY <1>3, <1>6, <1>11, TallyStays
<1>13. b.after[ResultsKey] = <<b.newResults>>
  BY <1>3, <1>6, <1>11 DEF TreeOK
<1>14. b.newResults \in Ballots
  BY <1>3, <1>10, TallyIsBallot
<1> QED
  BY <1>6, <1>10, <1>12, <1>13, <1>14 DEF last

----------------------------------------------------------------------------
(* What a blob says of the batch                                           *)

\* The cells as the circuit lays them out.
VoteCells(v) == <<v.id, v.address, v.index, v.weight>> \o v.reencrypted
CellOf(b, j) ==
    LET slot == 1 + ((j - 4) \div CellsPerVote)
        v == b.votes[slot]
    IN  CASE j <= 2 -> b.newResults[j]
          [] j = 3 -> b.votersCount
          [] j > 3 /\ ~IsReal(b, slot) -> 0
          [] OTHER -> (<<v.id, v.address, v.index, v.weight>> \o v.reencrypted)[1 + ((j - 4) % CellsPerVote)]

\* The cells of a vote one by one.
LEMMA CellsOfVote ==
    ASSUME NEW v, v.reencrypted \in Ballots
    PROVE  /\ VoteCells(v)[1] = v.id /\ VoteCells(v)[2] = v.address /\ VoteCells(v)[3] = v.index
           /\ VoteCells(v)[4] = v.weight /\ <<VoteCells(v)[5], VoteCells(v)[6]>> = v.reencrypted
<1>1. PICK x \in Int, y \in Int : v.reencrypted = <<x, y>>
  BY DEF Ballots
<1>2. VoteCells(v) = <<v.id, v.address, v.index, v.weight>> \o <<x, y>>
  BY <1>1 DEF VoteCells
<1> DEFINE four == <<v.id, v.address, v.index, v.weight>>
           two == <<x, y>>
           S == {v.id, v.address, v.index, v.weight, x, y}
<1>3. four \in Seq(S) /\ two \in Seq(S) /\ Len(four) = 4 /\ Len(two) = 2
  OBVIOUS
<1>4. \A i \in 1..6 : (four \o two)[i] = IF i <= 4 THEN four[i] ELSE two[i - 4]
  <2> HIDE DEF four, two, S
  <2>1. \A i \in 1..(Len(four) + Len(two)) :
            (four \o two)[i] = IF i <= Len(four) THEN four[i] ELSE two[i - Len(four)]
    BY <1>3, ConcatProperties, Zenon
  <2>2. Len(four) + Len(two) = 6
    BY <1>3
  <2> QED
    BY <1>3, <2>1, <2>2
<1>5. /\ (four \o two)[1] = v.id /\ (four \o two)[2] = v.address /\ (four \o two)[3] = v.index
      /\ (four \o two)[4] = v.weight /\ (four \o two)[5] = x /\ (four \o two)[6] = y
  BY <1>4
<1> QED
  BY <1>1, <1>2, <1>5

\* The cells of the vote in slot i.
LEMMA CellsOfSlot ==
    ASSUME NEW b, b.votersCount \in Nat, NEW i \in 1..b.votersCount, NEW c \in 1..6
    PROVE  CellOf(b, 3 + (i - 1) * CellsPerVote + c) = VoteCells(b.votes[i])[c]
<1> DEFINE j == 3 + (i - 1) * CellsPerVote + c
           slot == 1 + ((j - 4) \div CellsPerVote)
           at == 1 + ((j - 4) % CellsPerVote)
<1>1. i \in Int /\ c \in Int /\ i >= 1 /\ c >= 1 /\ c <= 6 /\ i <= b.votersCount
  OBVIOUS
<1>2. j \in Int /\ j > 3 /\ j - 4 = 6 * (i - 1) + (c - 1)
  BY <1>1 DEF CellsPerVote
<1>3. slot = i /\ at = c
  <2>1. (j - 4) \div 6 = i - 1 /\ (j - 4) % 6 = c - 1
    BY <1>1, <1>2
  <2> QED
    BY <1>1, <2>1 DEF CellsPerVote
<1>4. IsReal(b, slot)
  BY <1>1, <1>3 DEF IsReal
<1>5. CellOf(b, j) = VoteCells(b.votes[slot])[at]
  <2>1. ~(j <= 2) /\ j # 3
    BY <1>2
  <2> HIDE DEF j, slot, at
  <2> QED
    BY <1>4, <2>1 DEF CellOf, VoteCells, j, slot, at
<1> QED
  BY <1>3, <1>5

\* The blob of an accepted batch parses to its results and its votes.
LEMMA BlobParses ==
    ASSUME NEW b, CircuitAccepts(b), WitnessOK(b), b.newResults \in Ballots,
           3 + b.votersCount * CellsPerVote <= BlobCells
    PROVE  LET data == ParseBlobData(BlobOf(b))
           IN  /\ data.results = b.newResults /\ Len(data.votes) = b.votersCount
               /\ \A i \in 1..b.votersCount :
                    /\ data.votes[i].id = b.votes[i].id /\ data.votes[i].index = b.votes[i].index
                    /\ TreeLeafValues(data.votes[i], data.votes[i].reencrypted)
                         = TreeLeafValues(b.votes[i], b.votes[i].reencrypted)
<1> DEFINE n == b.votersCount
           cells == BlobOf(b)
           data == ParseBlobData(cells)
<1>1. n \in Nat /\ BlobCells \in Nat
  BY VotesHaveSlots, StateTreeAssumption
<1>2. cells = [j \in 1..BlobCells |-> CellOf(b, j)]
  BY Zenon DEF CircuitAccepts, VerifyBlobs, CellOf
<1>3. 1 \in 1..BlobCells /\ 2 \in 1..BlobCells /\ 3 \in 1..BlobCells
  BY <1>1 DEF CellsPerVote
<1>4. cells[1] = b.newResults[1] /\ cells[2] = b.newResults[2] /\ cells[3] = n
  <2>1. CellOf(b, 1) = b.newResults[1] /\ CellOf(b, 2) = b.newResults[2] /\ CellOf(b, 3) = n
    BY DEF CellOf
  <2> QED
    BY <1>2, <1>3, <2>1
<1>5. \A i \in 1..n : \A c \in 1..6 : cells[3 + (i - 1) * CellsPerVote + c] = VoteCells(b.votes[i])[c]
  <2> SUFFICES ASSUME NEW i \in 1..n, NEW c \in 1..6
               PROVE  cells[3 + (i - 1) * CellsPerVote + c] = VoteCells(b.votes[i])[c]
    OBVIOUS
  <2>1. 3 + (i - 1) * CellsPerVote + c \in 1..BlobCells
    BY <1>1 DEF CellsPerVote
  <2>2. CellOf(b, 3 + (i - 1) * CellsPerVote + c) = VoteCells(b.votes[i])[c]
    BY <1>1, CellsOfSlot
  <2> HIDE DEF cells
  <2> QED
    BY <1>2, <2>1, <2>2
<1> HIDE DEF cells
<1>6. data.results = b.newResults
  <2>1. data.results = <<cells[1], cells[2]>>
    BY DEF ParseBlobData
  <2> QED
    BY <1>4, <2>1 DEF Ballots
<1>7. DOMAIN data.votes = 1..n /\ Len(data.votes) = n
  BY <1>1, <1>4 DEF ParseBlobData
<1>8. ASSUME NEW i \in 1..n
      PROVE  /\ data.votes[i].id = b.votes[i].id /\ data.votes[i].index = b.votes[i].index
             /\ data.votes[i].address = b.votes[i].address /\ data.votes[i].weight = b.votes[i].weight
             /\ data.votes[i].reencrypted = b.votes[i].reencrypted
  <2> DEFINE at == 3 + (i - 1) * CellsPerVote
             v == b.votes[i]
  <2>1. data.votes[i] = [id |-> cells[at + 1], address |-> cells[at + 2], index |-> cells[at + 3],
                         weight |-> cells[at + 4], reencrypted |-> <<cells[at + 5], cells[at + 6]>>]
    BY <1>4 DEF ParseBlobData
  <2>2. \A c \in 1..6 : cells[at + c] = VoteCells(v)[c]
    BY <1>5
  <2>3. v.reencrypted \in Ballots
    BY DEF WitnessOK
  <2> HIDE DEF at, v
  <2>4. /\ cells[at + 1] = v.id /\ cells[at + 2] = v.address /\ cells[at + 3] = v.index
        /\ cells[at + 4] = v.weight /\ <<cells[at + 5], cells[at + 6]>> = v.reencrypted
    <3>1. /\ cells[at + 1] = VoteCells(v)[1] /\ cells[at + 2] = VoteCells(v)[2]
          /\ cells[at + 3] = VoteCells(v)[3] /\ cells[at + 4] = VoteCells(v)[4]
          /\ cells[at + 5] = VoteCells(v)[5] /\ cells[at + 6] = VoteCells(v)[6]
      BY <2>2
    <3> QED
      BY <2>3, <3>1, CellsOfVote
  <2> QED
    BY <2>1, <2>4 DEF v
<1> HIDE DEF data
<1>9. \A i \in 1..n : TreeLeafValues(data.votes[i], data.votes[i].reencrypted)
                        = TreeLeafValues(b.votes[i], b.votes[i].reencrypted)
  BY <1>8 DEF TreeLeafValues
<1> QED
  BY <1>6, <1>7, <1>8, <1>9 DEF data, cells

\* Applied to the tree before, what the blob says leads to the tree after.
LEMMA BlobReplays ==
    ASSUME NEW b, CircuitAccepts(b), WitnessOK(b), NEW data, Len(data.votes) = b.votersCount,
           \A i \in 1..b.votersCount :
              /\ data.votes[i].id = b.votes[i].id /\ data.votes[i].index = b.votes[i].index
              /\ TreeLeafValues(data.votes[i], data.votes[i].reencrypted)
                   = TreeLeafValues(b.votes[i], b.votes[i].reencrypted)
    PROVE  LET rebuilt == ApplyBlobData(b.before, data)
           IN  /\ rebuilt.ok
               /\ rebuilt.tree = [After(b, b.votersCount) EXCEPT ![ResultsKey] = <<data.results>>]
<1> DEFINE n == b.votersCount
           Next(t, v) == [t EXCEPT ![v.index] = TreeLeafValues(v, v.reencrypted), ![v.id] = VoteIDLeaf]
           Iter(x) == x = [i \in 0..Len(data.votes) |->
                              IF i = 0 THEN b.before ELSE Next(x[i - 1], data.votes[i])]
           it == CHOOSE x : Iter(x)
           trees == [i \in 0..n |-> After(b, i)]
<1>1. n \in Nat /\ n <= VotesPerBatch
  BY VotesHaveSlots, StateTreeAssumption
<1>2. ApplyBlobData(b.before, data) =
        [ok |-> /\ Len(data.votes) <= VotesPerBatch
                /\ \A i \in 1..Len(data.votes) :
                       data.votes[i].index \in BallotIndices /\ data.votes[i].id \in VoteIDs
                /\ \A i \in 1..Len(data.votes) : it[i - 1][data.votes[i].id] = NoLeaf,
         tree |-> [it[Len(data.votes)] EXCEPT ![ResultsKey] = <<data.results>>]]
  BY DEF ApplyBlobData
<1>3. ASSUME NEW i \in 1..n
      PROVE  /\ After(b, i) = Next(After(b, i - 1), data.votes[i])
             /\ After(b, i - 1)[data.votes[i].id] = NoLeaf
             /\ data.votes[i].index \in BallotIndices /\ data.votes[i].id \in VoteIDs
  <2> DEFINE t == After(b, i - 1)
             v == b.votes[i]
             leaf == TreeLeafValues(v, v.reencrypted)
  <2>1. i - 1 \in 0..n
    BY <1>1
  <2>2. t = [k \in Keys |-> t[k]]
    BY <2>1, TreesAlong DEF TreeOK
  <2>3. /\ v.index \in BallotIndices /\ v.id \in VoteIDs
        /\ After(b, i) = [[t EXCEPT ![v.index] = leaf] EXCEPT ![v.id] = VoteIDLeaf]
        /\ t[v.id] = NoLeaf
    BY <2>2, SlotOfVote
  <2>4. data.votes[i].id = v.id /\ data.votes[i].index = v.index
        /\ TreeLeafValues(data.votes[i], data.votes[i].reencrypted) = leaf
    OBVIOUS
  <2> HIDE DEF t, v, leaf
  <2> QED
    BY <2>3, <2>4 DEF t
<1> HIDE DEF Next
<1>4. Iter(trees)
  <2>1. After(b, 0) = b.before
    BY DEF After
  <2>2. \A i \in 0..n : trees[i] = IF i = 0 THEN b.before ELSE Next(trees[i - 1], data.votes[i])
    BY <1>1, <1>3, <2>1
  <2> QED
    BY <2>2
<1>5. Iter(it)
  BY <1>4
<1>6. it = [i \in 0..n |-> IF i = 0 THEN b.before ELSE Next(it[i - 1], data.votes[i])]
  BY <1>5
<1> HIDE DEF it
<1>7. \A i \in 0..n : it[i] = After(b, i)
  <2> DEFINE S == {m \in Nat : m <= n => it[m] = After(b, m)}
  <2>1. 0 \in S
    BY <1>1, <1>6 DEF After
  <2>2. \A m \in S : m + 1 \in S
    BY <1>1, <1>3, <1>6
  <2>3. S = Nat
    <3>1. S \in SUBSET Nat
      OBVIOUS
    <3> HIDE DEF S
    <3> QED
      BY <2>1, <2>2, <3>1, AllNat
  <2> QED
    BY <1>1, <2>3
<1>8. n \in 0..n /\ \A i \in 1..n : i - 1 \in 0..n
  BY <1>1
<1>9. \A i \in 1..n : it[i - 1][data.votes[i].id] = NoLeaf
  BY <1>3, <1>7, <1>8
<1>10. ApplyBlobData(b.before, data).tree = [it[n] EXCEPT ![ResultsKey] = <<data.results>>]
  BY <1>2
<1>11. ApplyBlobData(b.before, data).ok
  BY <1>1, <1>2, <1>3, <1>9
<1>12. it[n] = After(b, n)
  BY <1>7, <1>8
<1> QED
  BY <1>10, <1>11, <1>12

----------------------------------------------------------------------------
(* The trees of the two nodes                                              *)

TreeRight(t) == TreeOK(t) /\ t[ResultsKey] = <<BallotTally(t)>>

Rebuilds(e) ==
    LET rebuilt == ApplyBlobData(e.before, ParseBlobData(e.blob))
    IN  rebuilt.ok /\ rebuilt.tree = e.after

\* The staged batch starts from a right tree and fits its blob.
StagedRight ==
    staged.there => /\ WitnessOK(staged) /\ TreeRight(staged.before)
                    /\ 3 + staged.votersCount * CellsPerVote <= BlobCells

\* The transitions on chain lead to right trees and can be rebuilt.
ChainRight ==
    /\ \E S : onchain \in Seq(S)
    /\ \A i \in DOMAIN onchain : Rebuilds(onchain[i]) /\ TreeRight(onchain[i].after)

\* The other node has no other trees.
ReplicaRight == replicaRoots \subseteq {EmptyTree} \cup {onchain[i].after : i \in DOMAIN onchain}

StInv == TreeRight(current) /\ StagedRight /\ ChainRight /\ ReplicaRight

\* A batch that the circuit accepts leads from a right tree to a right tree, and
\* its blob rebuilds that one.
LEMMA AcceptedBatchRight ==
    ASSUME NEW b, CircuitAccepts(b), WitnessOK(b), TreeRight(b.before),
           3 + b.votersCount * CellsPerVote <= BlobCells
    PROVE  /\ TreeRight(b.after)
           /\ LET rebuilt == ApplyBlobData(b.before, ParseBlobData(BlobOf(b)))
              IN  rebuilt.ok /\ rebuilt.tree = b.after
<1> DEFINE data == ParseBlobData(BlobOf(b))
<1>1. /\ TreeOK(b.after) /\ b.after[ResultsKey] = <<BallotTally(b.after)>>
      /\ b.after = [After(b, b.votersCount) EXCEPT ![ResultsKey] = <<b.newResults>>]
      /\ b.newResults \in Ballots
  BY AcceptedTreeTallies DEF TreeRight
<1>2. /\ data.results = b.newResults /\ Len(data.votes) = b.votersCount
      /\ \A i \in 1..b.votersCount :
           /\ data.votes[i].id = b.votes[i].id /\ data.votes[i].index = b.votes[i].index
           /\ TreeLeafValues(data.votes[i], data.votes[i].reencrypted)
                = TreeLeafValues(b.votes[i], b.votes[i].reencrypted)
  BY <1>1, BlobParses
<1> HIDE DEF data
<1>3. /\ ApplyBlobData(b.before, data).ok
      /\ ApplyBlobData(b.before, data).tree
           = [After(b, b.votersCount) EXCEPT ![ResultsKey] = <<data.results>>]
  BY <1>2, BlobReplays
<1> QED
  BY <1>1, <1>2, <1>3 DEF TreeRight, data

\* The votes of a batch are as many as were cast, and their ballots are ballots.
LEMMA VotesReencrypt ==
    ASSUME NEW n \in Nat, NEW votes \in [1..n -> CastVotes]
    PROVE  LET w == ReencryptVotes(votes)
           IN  DOMAIN w = 1..n /\ Len(w) = n /\ \A i \in 1..n : w[i].reencrypted \in Ballots
<1> DEFINE w == ReencryptVotes(votes)
<1>1. DOMAIN w = 1..n /\ Len(w) = n
  BY DEF ReencryptVotes
<1>2. ASSUME NEW i \in 1..n PROVE w[i].reencrypted \in Ballots
  <2>1. w[i].reencrypted = ReencryptBallot(votes[i].ballot, i)
    BY DEF ReencryptVotes
  <2>2. PICK m \in Messages : votes[i].ballot = <<m, 0>>
    BY DEF CastVotes
  <2>3. m \in Int
    BY StateTreeAssumption
  <2> QED
    BY <2>1, <2>2, <2>3 DEF ReencryptBallot, BallotAdd, Ballots
<1> QED
  BY <1>1, <1>2

\* The fields of a prepared batch that say where it starts and what it holds.
LEMMA PreparedFields ==
    ASSUME NEW t, NEW votes
    PROVE  LET b == PrepareVotesBatch(t, votes)
           IN  /\ b.there /\ b.before = t /\ b.votes = votes /\ b.votersCount = Len(votes)
  BY DEF PrepareVotesBatch

\* What the invariant says of StInit.
LEMMA StInvInit == StInit => StInv
<1> SUFFICES ASSUME StInit PROVE StInv
  OBVIOUS
<1>1. TreeRight(current)
  BY EmptyTreeOK DEF StInit, TreeRight
<1>2. StagedRight
  BY DEF StInit, StagedRight, NoBatch
<1>3. ChainRight
  <2>1. onchain \in Seq({}) /\ DOMAIN onchain = {}
    BY DEF StInit
  <2> QED
    BY <2>1 DEF ChainRight
<1>4. ReplicaRight
  BY DEF StInit, ReplicaRight
<1> QED
  BY <1>1, <1>2, <1>3, <1>4 DEF StInv

\* Staging.
LEMMA StInvStage ==
    ASSUME StInv, NEW n \in 1..VotesPerBatch, NEW votes \in [1..n -> CastVotes],
           StageBatch(ReencryptVotes(votes))
    PROVE  StInv'
<1> DEFINE w == ReencryptVotes(votes)
           b == PrepareVotesBatch(current, w)
<1>1. n \in Nat
  OBVIOUS
<1>2. Len(w) = n /\ \A i \in 1..n : w[i].reencrypted \in Ballots
  BY <1>1, VotesReencrypt
<1>3. b.there /\ b.before = current /\ b.votes = w /\ b.votersCount = Len(w)
  <2> HIDE DEF w
  <2> QED
    BY PreparedFields
<1>4. /\ staged' = b /\ UNCHANGED <<current, onchain, replica, replicaRoots>>
      /\ 3 + Len(w) * CellsPerVote <= BlobCells
  BY DEF StageBatch
<1> HIDE DEF w, b
<1>5. TreeRight(current)
  BY DEF StInv
<1>6. StagedRight'
  BY <1>2, <1>3, <1>4, <1>5 DEF StagedRight, WitnessOK, TreeRight
<1> QED
  BY <1>4, <1>6 DEF StInv, ChainRight, ReplicaRight

\* Committing.
LEMMA StInvCommit == ASSUME StInv, CommitBatch PROVE StInv'
<1> DEFINE b == staged
           e == [before |-> b.before, after |-> b.after, blob |-> BlobOf(b),
                 votersCount |-> b.votersCount, overwrittenCount |-> b.overwrittenCount]
<1>1. CircuitAccepts(b) /\ b.there
  BY DEF CommitBatch
<1>2. WitnessOK(b) /\ TreeRight(b.before) /\ 3 + b.votersCount * CellsPerVote <= BlobCells
  BY <1>1 DEF StInv, StagedRight
<1>3. current' = b.after /\ onchain' = Append(onchain, e) /\ staged' = NoBatch
      /\ UNCHANGED <<replica, replicaRoots>>
  BY DEF CommitBatch
<1>4. e.before = b.before /\ e.after = b.after /\ e.blob = BlobOf(b)
  OBVIOUS
<1> HIDE DEF e
<1>5. TreeRight(b.after) /\ Rebuilds(e)
  <2> HIDE DEF b
  <2>1. /\ TreeRight(b.after)
        /\ ApplyBlobData(b.before, ParseBlobData(BlobOf(b))).ok
        /\ ApplyBlobData(b.before, ParseBlobData(BlobOf(b))).tree = b.after
    BY <1>1, <1>2, AcceptedBatchRight
  <2> QED
    BY <1>4, <2>1 DEF Rebuilds
<1>6. PICK S : onchain \in Seq(S)
  BY DEF StInv, ChainRight
<1>7. /\ onchain' \in Seq(S \cup {e})
      /\ DOMAIN onchain \subseteq DOMAIN onchain'
      /\ \A i \in DOMAIN onchain : onchain'[i] = onchain[i]
      /\ \A i \in DOMAIN onchain' : i \in DOMAIN onchain \/ onchain'[i] = e
  <2>1. onchain \in Seq(S \cup {e}) /\ e \in S \cup {e}
    BY <1>6
  <2> QED
    BY <1>3, <2>1, AppendProperties
<1>8. TreeRight(current)'
  BY <1>3, <1>5 DEF TreeRight
<1>9. StagedRight'
  BY <1>3 DEF StagedRight, NoBatch
<1>10. ChainRight'
  <2>1. \A i \in DOMAIN onchain : Rebuilds(onchain[i]) /\ TreeRight(onchain[i].after)
    BY DEF StInv, ChainRight
  <2>2. \A i \in DOMAIN onchain' : Rebuilds(onchain'[i]) /\ TreeRight(onchain'[i].after)
    BY <1>4, <1>5, <1>7, <2>1
  <2> QED
    BY <1>7, <2>2 DEF ChainRight
<1>11. ReplicaRight'
  <2>1. \A i \in DOMAIN onchain : onchain[i].after \in {onchain'[j].after : j \in DOMAIN onchain'}
    BY <1>7
  <2>2. replicaRoots \subseteq {EmptyTree} \cup {onchain'[j].after : j \in DOMAIN onchain'}
    BY <2>1 DEF StInv, ReplicaRight
  <2> QED
    BY <1>3, <2>2 DEF ReplicaRight
<1> QED
  BY <1>8, <1>9, <1>10, <1>11 DEF StInv

\* The invariant of both nodes.
LEMMA StInvHolds == StSpec => []StInv
<1>1. StInit => StInv
  BY StInvInit
<1>2. StInv /\ [StNext]_stVars => StInv'
  <2> SUFFICES ASSUME StInv, [StNext]_stVars PROVE StInv'
    OBVIOUS
  <2>1. ASSUME NEW n \in 1..VotesPerBatch, NEW votes \in [1..n -> CastVotes],
               StageBatch(ReencryptVotes(votes))
        PROVE  StInv'
    BY <2>1, StInvStage
  <2>2. CASE CommitBatch
    BY <2>2, StInvCommit
  <2>3. CASE DiscardBatch
    <3>1. staged' = NoBatch /\ UNCHANGED <<current, onchain, replica, replicaRoots>>
      BY <2>3 DEF DiscardBatch
    <3>2. StagedRight'
      BY <3>1 DEF StagedRight, NoBatch
    <3> QED
      BY <3>1, <3>2 DEF StInv, ChainRight, ReplicaRight
  <2>4. ASSUME NEW i \in DOMAIN onchain, ApplyBlobSidecarFromRoot(i) PROVE StInv'
    <3>1. replicaRoots' = replicaRoots \cup {onchain[i].after} /\ UNCHANGED <<current, staged, onchain>>
      BY <2>4 DEF ApplyBlobSidecarFromRoot
    <3>2. ReplicaRight'
      BY <3>1 DEF StInv, ReplicaRight
    <3> QED
      BY <3>1, <3>2 DEF StInv, StagedRight, ChainRight
  <2>5. ASSUME NEW i \in DOMAIN onchain, PromoteConfirmedStateRoot(i) PROVE StInv'
    BY <2>5 DEF PromoteConfirmedStateRoot, StInv, StagedRight, ChainRight, ReplicaRight
  <2>6. CASE UNCHANGED stVars
    BY <2>6 DEF stVars, StInv, StagedRight, ChainRight, ReplicaRight
  <2> QED
    BY <2>1, <2>2, <2>3, <2>4, <2>5, <2>6 DEF StNext
<1> QED
  BY <1>1, <1>2, PTL DEF StSpec

\* In every tree that the circuit let through, on both nodes, the results are the
\* sum of each voter's last ballot, for any number of voters, slots and batches.
THEOREM ResultsTallyEverywhere == StSpec => []ResultsAreTheTally
<1>1. StInv => ResultsAreTheTally
  <2> SUFFICES ASSUME StInv, NEW t \in {current} \cup replicaRoots PROVE t[ResultsKey] = <<BallotTally(t)>>
    BY DEF ResultsAreTheTally
  <2>1. t = current \/ t = EmptyTree \/ \E i \in DOMAIN onchain : t = onchain[i].after
    BY DEF StInv, ReplicaRight
  <2>2. TreeRight(t)
    BY <2>1, EmptyTreeOK DEF StInv, ChainRight, TreeRight
  <2> QED
    BY <2>2 DEF TreeRight
<1> QED
  BY <1>1, StInvHolds, PTL

\* The other node rebuilds every accepted transition from its blob alone, and
\* has no tree that is not on chain.
THEOREM BlobsCarryTheTree == StSpec => []BlobsRebuildTheTree
<1>1. StInv => BlobsRebuildTheTree
  BY DEF StInv, ChainRight, ReplicaRight, Rebuilds, BlobsRebuildTheTree
<1> QED
  BY <1>1, StInvHolds, PTL

----------------------------------------------------------------------------
(* Sequences of sixes                                                      *)

Sixes(six, n, S) == n \in Nat /\ six \in [1..n -> Seq(S)] /\ \A i \in 1..n : Len(six[i]) = 6

\* The elements of the first m of the sequences of six, one after the other.
Laid(six, m) == [j \in 1..(6 * m) |-> six[1 + ((j - 1) \div 6)][1 + ((j - 1) % 6)]]

\* Where an element is.
LEMMA Places ==
    ASSUME NEW m \in Nat, NEW j \in 1..(6 * m)
    PROVE  1 + ((j - 1) \div 6) \in 1..m /\ 1 + ((j - 1) % 6) \in 1..6
<1>1. j \in Int /\ j - 1 >= 0 /\ j - 1 < 6 * m
  OBVIOUS
<1>2. (j - 1) \div 6 >= 0 /\ (j - 1) \div 6 < m /\ (j - 1) \div 6 \in Int
  BY <1>1
<1>3. (j - 1) % 6 \in 0..5
  BY <1>1
<1> QED
  BY <1>2, <1>3

\* See Laid.
LEMMA LaidIsSeq ==
    ASSUME NEW S, NEW n, NEW six, Sixes(six, n, S), NEW m \in 0..n
    PROVE  Laid(six, m) \in Seq(S) /\ Len(Laid(six, m)) = 6 * m /\ DOMAIN Laid(six, m) = 1..(6 * m)
<1> USE DEF Sixes
<1>1. m \in Nat /\ 6 * m \in Nat
  OBVIOUS
<1>2. \A i \in 1..n : \A c \in 1..6 : six[i][c] \in S
  BY ElementOfSeq
<1>3. \A j \in 1..(6 * m) : six[1 + ((j - 1) \div 6)][1 + ((j - 1) % 6)] \in S
  <2> SUFFICES ASSUME NEW j \in 1..(6 * m) PROVE six[1 + ((j - 1) \div 6)][1 + ((j - 1) % 6)] \in S
    OBVIOUS
  <2>1. 1 + ((j - 1) \div 6) \in 1..m /\ 1 + ((j - 1) % 6) \in 1..6
    BY <1>1, Places
  <2>2. 1..m \subseteq 1..n
    OBVIOUS
  <2> QED
    BY <1>2, <2>1, <2>2
<1>4. Laid(six, m) \in [1..(6 * m) -> S]
  BY <1>3 DEF Laid
<1> HIDE DEF Laid
<1> QED
  BY <1>1, <1>4

\* One more of the sequences.
LEMMA LaidNext ==
    ASSUME NEW S, NEW n, NEW six, Sixes(six, n, S), NEW m \in 0..n, m + 1 <= n
    PROVE  Laid(six, m) \o six[m + 1] = Laid(six, m + 1)
<1> DEFINE a == Laid(six, m)
           z == six[m + 1]
           u == Laid(six, m + 1)
<1>1. m + 1 \in 0..n /\ m + 1 \in 1..n /\ m \in Nat
  BY DEF Sixes
<1>2. a \in Seq(S) /\ Len(a) = 6 * m
  BY LaidIsSeq
<1>3. u \in Seq(S) /\ Len(u) = 6 * (m + 1)
  <2> DEFINE k == m + 1
  <2>1. k \in 0..n
    BY <1>1
  <2> HIDE DEF k
  <2>2. Laid(six, k) \in Seq(S) /\ Len(Laid(six, k)) = 6 * k
    BY <2>1, LaidIsSeq
  <2> QED
    BY <2>2 DEF k
<1>4. z \in Seq(S) /\ Len(z) = 6
  BY <1>1 DEF Sixes
<1>5. /\ a \o z \in Seq(S) /\ Len(a \o z) = Len(a) + Len(z)
      /\ \A j \in 1..(Len(a) + Len(z)) : (a \o z)[j] = IF j <= Len(a) THEN a[j] ELSE z[j - Len(a)]
  <2> HIDE DEF a, z
  <2> QED
    BY <1>2, <1>4, ConcatProperties, Zenon
<1>6. Len(a \o z) = Len(u) /\ Len(a) + Len(z) = 6 * (m + 1)
  BY <1>1, <1>2, <1>3, <1>4, <1>5
<1>7. ASSUME NEW j \in 1..(6 * (m + 1)) PROVE (a \o z)[j] = u[j]
  <2>1. u[j] = six[1 + ((j - 1) \div 6)][1 + ((j - 1) % 6)]
    BY DEF Laid
  <2>2. (a \o z)[j] = IF j <= 6 * m THEN a[j] ELSE z[j - 6 * m]
    BY <1>2, <1>5, <1>6
  <2>3. CASE j <= 6 * m
    <3>1. j \in 1..(6 * m)
      BY <1>1, <2>3
    <3>2. a[j] = six[1 + ((j - 1) \div 6)][1 + ((j - 1) % 6)]
      BY <3>1 DEF Laid
    <3> QED
      BY <2>1, <2>2, <2>3, <3>2
  <2>4. CASE ~(j <= 6 * m)
    <3>1. PICK c \in 1..6 : j = 6 * m + c
      <4>1. j - 6 * m \in 1..6 /\ j = 6 * m + (j - 6 * m)
        BY <1>1, <2>4
      <4> QED
        BY <4>1
    <3>2. (j - 1) \div 6 = m /\ (j - 1) % 6 = c - 1
      <4>1. j - 1 = 6 * m + (c - 1) /\ c - 1 \in 0..5
        BY <1>1, <3>1
      <4> QED
        BY <1>1, <4>1
    <3>3. j - 6 * m = c /\ 1 + ((j - 1) \div 6) = m + 1 /\ 1 + ((j - 1) % 6) = c
      BY <1>1, <3>1, <3>2
    <3> QED
      BY <2>1, <2>2, <2>4, <3>3
  <2> QED
    BY <2>3, <2>4
<1> HIDE DEF a, z, u
<1>8. \A j \in 1..Len(a \o z) : (a \o z)[j] = u[j]
  BY <1>5, <1>6, <1>7
<1>9. a \o z = u
  BY <1>3, <1>5, <1>6, <1>8, SeqEqual
<1> QED
  BY <1>9 DEF a, z, u

\* FlattenSeq of sequences of six.
LEMMA FlattenSixes ==
    ASSUME NEW S, NEW n, NEW six, Sixes(six, n, S), n # 0
    PROVE  FlattenSeq(six) = Laid(six, n)
<1> DEFINE Iter(x) == x = [i \in 1..Len(six) |-> IF i = 1 THEN six[i] ELSE x[i - 1] \o six[i]]
           it == CHOOSE x : Iter(x)
           laid == [i \in 1..n |-> Laid(six, i)]
<1>1. Len(six) = n /\ n # 0 /\ n \in Nat
  BY DEF Sixes
<1>2. FlattenSeq(six) = it[Len(six)]
  BY <1>1 DEF FlattenSeq
<1>3. Laid(six, 1) = six[1]
  <2>1. six[1] \in Seq(S) /\ Len(six[1]) = 6
    BY <1>1 DEF Sixes
  <2>2. six[1] = [j \in 1..6 |-> six[1][j]]
    BY <2>1
  <2>3. 6 * 1 = 6 /\ \A j \in 1..6 : 1 + ((j - 1) \div 6) = 1 /\ 1 + ((j - 1) % 6) = j
    OBVIOUS
  <2>4. Laid(six, 1) = [j \in 1..6 |-> six[1][j]]
    BY <2>3 DEF Laid
  <2> QED
    BY <2>2, <2>4
<1>4. \A i \in 1..n : i # 1 => Laid(six, i) = Laid(six, i - 1) \o six[i]
  <2> SUFFICES ASSUME NEW i \in 1..n, i # 1 PROVE Laid(six, i) = Laid(six, i - 1) \o six[i]
    OBVIOUS
  <2> DEFINE m == i - 1
  <2>1. m \in 0..n /\ m + 1 <= n /\ m + 1 = i
    BY <1>1
  <2> HIDE DEF m
  <2>2. Laid(six, m) \o six[m + 1] = Laid(six, m + 1)
    BY <2>1, LaidNext
  <2> QED
    BY <2>1, <2>2 DEF m
<1> HIDE DEF Laid
<1>5. Iter(laid)
  BY <1>1, <1>3, <1>4
<1>6. Iter(it)
  BY <1>5
<1>7. it = [i \in 1..n |-> IF i = 1 THEN six[i] ELSE it[i - 1] \o six[i]]
  BY <1>1, <1>6
<1> HIDE DEF it
<1>8. n \in {m \in Nat : m \in 1..n => it[m] = Laid(six, m)}
  <2> DEFINE Q == {m \in Nat : m \in 1..n => it[m] = Laid(six, m)}
  <2>1. 0 \in Q
    OBVIOUS
  <2>2. \A m \in Q : m + 1 \in Q
    <3> SUFFICES ASSUME NEW m \in Q, m + 1 \in 1..n PROVE it[m + 1] = Laid(six, m + 1)
      OBVIOUS
    <3>1. CASE m = 0
      BY <1>1, <1>3, <1>7, <3>1
    <3>2. CASE m # 0
      <4>1. m \in 1..n /\ m + 1 # 1 /\ (m + 1) - 1 = m
        BY <1>1, <3>2
      <4>2. it[m + 1] = it[m] \o six[m + 1]
        BY <1>7, <4>1
      <4>3. Laid(six, m + 1) = Laid(six, m) \o six[m + 1]
        BY <1>4, <4>1
      <4>4. it[m] = Laid(six, m)
        BY <4>1
      <4> QED
        BY <4>2, <4>3, <4>4
    <3> QED
      BY <3>1, <3>2
  <2>3. Q = Nat
    <3>1. Q \in SUBSET Nat
      OBVIOUS
    <3> HIDE DEF Q
    <3> QED
      BY <2>1, <2>2, <3>1, AllNat
  <2> QED
    BY <1>1, <2>3
<1> QED
  BY <1>1, <1>2, <1>8

\* Functions that are sequences.
LEMMA FunIsSeq == ASSUME NEW S, NEW k \in Nat, NEW f \in [1..k -> S] PROVE f \in Seq(S) /\ Len(f) = k
  OBVIOUS

\* The cells of a vote are six.
LEMMA CellsAreSix ==
    ASSUME NEW v, v.reencrypted \in Ballots, NEW S, \A c \in 1..6 : VoteCells(v)[c] \in S
    PROVE  VoteCells(v) \in Seq(S) /\ Len(VoteCells(v)) = 6
<1> DEFINE four == <<v.id, v.address, v.index, v.weight>>
           two == v.reencrypted
           T == {v.id, v.address, v.index, v.weight} \cup Int
<1>1. PICK x \in Int, y \in Int : two = <<x, y>>
  BY DEF Ballots
<1>2. four \in Seq(T) /\ two \in Seq(T) /\ Len(four) = 4 /\ Len(two) = 2
  BY <1>1
<1>3. VoteCells(v) = four \o two
  BY DEF VoteCells
<1>4. four \o two \in Seq(T) /\ Len(four \o two) = Len(four) + Len(two)
  <2> HIDE DEF four, two, T
  <2> QED
    BY <1>2, ConcatProperties, Zenon
<1> HIDE DEF four, two, T
<1>5. VoteCells(v) \in Seq(T) /\ Len(VoteCells(v)) = 6
  BY <1>2, <1>3, <1>4
<1>6. VoteCells(v) = [c \in 1..6 |-> VoteCells(v)[c]]
  BY <1>5
<1>7. VoteCells(v) \in [1..6 -> S]
  BY <1>6
<1>8. 6 \in Nat
  OBVIOUS
<1> QED
  BY <1>7, <1>8, FunIsSeq

\* Concatenation, element by element.
SeqLen(S, a, k) == a \in Seq(S) /\ Len(a) = k /\ k \in Nat
Joined(S, a, z, k, l) ==
    /\ SeqLen(S, a \o z, k + l)
    /\ \A j \in 1..(k + l) : (a \o z)[j] = IF j <= k THEN a[j] ELSE z[j - k]

LEMMA ConcatAt ==
    ASSUME NEW S, NEW a, NEW z, NEW k, NEW l, SeqLen(S, a, k), SeqLen(S, z, l)
    PROVE  Joined(S, a, z, k, l)
<1>1. /\ a \o z \in Seq(S) /\ Len(a \o z) = Len(a) + Len(z)
      /\ \A j \in 1..(Len(a) + Len(z)) : (a \o z)[j] = IF j <= Len(a) THEN a[j] ELSE z[j - Len(a)]
  BY ConcatProperties, Zenon DEF SeqLen
<1>2. Len(a) = k /\ Len(z) = l /\ k \in Nat /\ l \in Nat
  BY DEF SeqLen
<1> QED
  BY <1>1, <1>2 DEF SeqLen, Joined

\* The sequencer lays the blob out as the circuit does.
LEMMA BlobLaidOut ==
    ASSUME NEW b, b.votersCount \in Nat, b.votersCount # 0, b.newResults \in Ballots,
           \A i \in 1..b.votersCount : b.votes[i].reencrypted \in Ballots,
           3 + b.votersCount * CellsPerVote <= BlobCells
    PROVE  BlobOf(b) = [j \in 1..BlobCells |-> CellOf(b, j)]
<1> DEFINE n == b.votersCount
           S == Int \cup {VoteCells(b.votes[i])[c] : i \in 1..n, c \in 1..6}
           six == [i \in 1..n |-> VoteCells(b.votes[i])]
           flat == FlattenSeq(six)
           res == b.newResults
           one == <<n>>
           head == res \o one
           used == head \o flat
           zeros == [i \in 1..(BlobCells - Len(used)) |-> 0]
           blob == used \o zeros
           rest == BlobCells - (3 + 6 * n)
<1>1. n \in Nat /\ n # 0 /\ BlobCells \in Nat /\ 6 * n \in Nat /\ rest \in Nat /\ (3 + 6 * n) + rest = BlobCells
  BY StateTreeAssumption DEF CellsPerVote
<1>2. BlobOf(b) = blob
  BY DEF BlobOf, VoteCells
<1>3. Sixes(six, n, S)
  <2>1. ASSUME NEW i \in 1..n PROVE six[i] \in Seq(S) /\ Len(six[i]) = 6
    <3>1. \A c \in 1..6 : VoteCells(b.votes[i])[c] \in S
      OBVIOUS
    <3>2. b.votes[i].reencrypted \in Ballots /\ six[i] = VoteCells(b.votes[i])
      OBVIOUS
    <3> HIDE DEF S, six
    <3> QED
      BY <3>1, <3>2, CellsAreSix
  <2>2. six = [i \in 1..n |-> six[i]]
    OBVIOUS
  <2> HIDE DEF S, six
  <2> QED
    BY <1>1, <2>1, <2>2 DEF Sixes
<1>4. flat = Laid(six, n) /\ flat \in Seq(S) /\ Len(flat) = 6 * n
  <2> HIDE DEF S, six
  <2>1. flat = Laid(six, n)
    BY <1>1, <1>3, FlattenSixes
  <2>2. n \in 0..n
    BY <1>1
  <2> QED
    BY <1>3, <2>1, <2>2, LaidIsSeq
<1>5. SeqLen(S, res, 2) /\ SeqLen(S, one, 1) /\ SeqLen(S, flat, 6 * n) /\ one[1] = n
  <2>1. PICK x \in Int, y \in Int : res = <<x, y>>
    BY DEF Ballots
  <2>2. Int \subseteq S
    OBVIOUS
  <2> HIDE DEF S, res, flat
  <2>3. res \in Seq(S) /\ Len(res) = 2
    BY <2>1, <2>2
  <2>4. one \in Seq(S) /\ Len(one) = 1 /\ one[1] = n
    BY <1>1, <2>2
  <2> QED
    BY <1>1, <1>4, <2>3, <2>4 DEF SeqLen
<1> HIDE DEF S, six, flat, res, one
<1>6. SeqLen(S, head, 3) /\ \A j \in 1..3 : head[j] = IF j <= 2 THEN res[j] ELSE one[j - 2]
  <2>1. Joined(S, res, one, 2, 1)
    BY <1>5, ConcatAt
  <2>2. 2 + 1 = 3
    OBVIOUS
  <2>3. /\ SeqLen(S, res \o one, 2 + 1)
        /\ \A j \in 1..(2 + 1) : (res \o one)[j] = IF j <= 2 THEN res[j] ELSE one[j - 2]
    BY <2>1, Zenon DEF Joined
  <2> QED
    BY <2>2, <2>3
<1> HIDE DEF head
<1>7. /\ SeqLen(S, used, 3 + 6 * n)
      /\ \A j \in 1..(3 + 6 * n) : used[j] = IF j <= 3 THEN head[j] ELSE flat[j - 3]
  <2>1. Joined(S, head, flat, 3, 6 * n)
    BY <1>5, <1>6, ConcatAt
  <2> QED
    BY <2>1, Zenon DEF Joined
<1>8. SeqLen(S, zeros, rest) /\ \A j \in 1..rest : zeros[j] = 0
  <2>1. 0 \in S
    BY DEF S
  <2>2. zeros = [i \in 1..rest |-> 0]
    BY <1>7 DEF SeqLen
  <2> HIDE DEF rest, zeros
  <2>3. zeros \in [1..rest -> S]
    BY <2>1, <2>2
  <2> QED
    BY <1>1, <2>2, <2>3, FunIsSeq DEF SeqLen
<1> HIDE DEF used, zeros, rest
<1>9. /\ SeqLen(S, blob, (3 + 6 * n) + rest)
      /\ \A j \in 1..((3 + 6 * n) + rest) : blob[j] = IF j <= 3 + 6 * n THEN used[j] ELSE zeros[j - (3 + 6 * n)]
  <2>1. Joined(S, used, zeros, 3 + 6 * n, rest)
    BY <1>7, <1>8, ConcatAt
  <2> QED
    BY <2>1, Zenon DEF Joined
<1> HIDE DEF blob
<1>10. ASSUME NEW j \in 1..BlobCells PROVE blob[j] = CellOf(b, j)
  <2> DEFINE slot == 1 + ((j - 4) \div 6)
             at == 1 + ((j - 4) % 6)
  <2>1. j \in Int /\ j >= 1 /\ j <= BlobCells
    BY <1>1
  <2>2. blob[j] = IF j <= 3 + 6 * n THEN used[j] ELSE zeros[j - (3 + 6 * n)]
    BY <1>1, <1>9
  <2>3. CASE j <= 3
    <3>1. j \in 1..3 /\ j \in 1..(3 + 6 * n) /\ j <= 3 + 6 * n
      BY <1>1, <2>1, <2>3
    <3>2. blob[j] = IF j <= 2 THEN res[j] ELSE one[j - 2]
      BY <1>6, <1>7, <2>2, <2>3, <3>1
    <3>3. CASE j <= 2
      BY <2>3, <3>2, <3>3 DEF CellOf, res
    <3>4. CASE j = 3
      <4>1. blob[j] = n
        BY <1>5, <3>2, <3>4
      <4>2. CellOf(b, 3) = n
        BY DEF CellOf
      <4> QED
        BY <3>4, <4>1, <4>2
    <3> QED
      BY <2>1, <2>3, <3>3, <3>4
  <2>4. CASE j > 3 /\ j <= 3 + 6 * n
    <3>1. j \in 1..(3 + 6 * n) /\ ~(j <= 3) /\ j - 3 \in 1..(6 * n) /\ (j - 3) - 1 = j - 4
      BY <1>1, <2>1, <2>4
    <3>2. blob[j] = flat[j - 3]
      BY <1>7, <2>2, <2>4, <3>1
    <3>3. flat[j - 3] = six[slot][at]
      BY <1>4, <3>1 DEF Laid
    <3>4. slot \in 1..n
      <4> DEFINE q == j - 3
      <4>1. q \in 1..(6 * n) /\ q - 1 = j - 4
        BY <3>1
      <4> HIDE DEF q
      <4>2. 1 + ((q - 1) \div 6) \in 1..n
        BY <1>1, <4>1, Places
      <4> QED
        BY <4>1, <4>2
    <3>5. six[slot] = VoteCells(b.votes[slot])
      BY <3>4 DEF six
    <3>6. CellOf(b, j) = VoteCells(b.votes[slot])[at]
      <4>1. IsReal(b, slot) /\ ~(j <= 2) /\ j # 3
        BY <1>1, <2>4, <3>4 DEF IsReal
      <4> HIDE DEF slot, at
      <4> QED
        BY <4>1 DEF CellOf, VoteCells, CellsPerVote, slot, at
    <3> QED
      BY <3>2, <3>3, <3>5, <3>6
  <2>5. CASE ~(j <= 3 + 6 * n)
    <3>1. j - (3 + 6 * n) \in 1..rest
      BY <1>1, <2>1, <2>5
    <3>2. blob[j] = 0
      BY <1>8, <2>2, <2>5, <3>1
    <3>3. j > 3 /\ ~(slot <= n)
      BY <1>1, <2>1, <2>5
    <3>4. CellOf(b, j) = 0
      <4>1. ~IsReal(b, slot) /\ ~(j <= 2) /\ j # 3
        BY <2>1, <3>3 DEF IsReal
      <4> HIDE DEF slot, at
      <4> QED
        BY <3>3, <4>1 DEF CellOf, CellsPerVote, slot, at
    <3> QED
      BY <3>2, <3>4
  <2> QED
    BY <1>1, <2>1, <2>3, <2>4, <2>5
<1>11. blob = [j \in 1..BlobCells |-> blob[j]]
  BY <1>1, <1>9 DEF SeqLen
<1> QED
  BY <1>2, <1>10, <1>11

----------------------------------------------------------------------------
(* The batches that the sequencer prepares                                 *)

\* The transitions of slot i on the tree that the slot before left.
SlotPair(w, i, before) ==
    LET ballot == IF i <= Len(w)
                  THEN Transition(before, w[i].index, TreeLeafValues(w[i], w[i].reencrypted))
                  ELSE Noop(before)
    IN  [ballot |-> ballot,
         id |-> IF i <= Len(w) THEN Transition(ballot.new, w[i].id, VoteIDLeaf) ELSE Noop(before)]

PairsUpTo(m, x, t, w) ==
    x = [i \in 0..m |-> IF i = 0 THEN [ballot |-> Noop(t), id |-> Noop(t)]
                        ELSE SlotPair(w, i, x[i - 1].id.new)]

\* The pairs of PrepareVotesBatch are defined.
LEMMA PairsExist == ASSUME NEW t, NEW w PROVE \A m \in Nat : \E g : PairsUpTo(m, g, t, w)
<1> DEFINE S == {m \in Nat : \E g : PairsUpTo(m, g, t, w)}
           none == [ballot |-> Noop(t), id |-> Noop(t)]
<1>1. 0 \in S
  <2>1. PairsUpTo(0, [i \in 0..0 |-> none], t, w)
    <3> HIDE DEF none
    <3>1. \A i \in 0..0 : i = 0
      OBVIOUS
    <3> QED
      BY <3>1 DEF PairsUpTo, none
  <2> HIDE DEF none
  <2> QED
    BY <2>1
<1>2. \A m \in S : m + 1 \in S
  <2> SUFFICES ASSUME NEW m \in S PROVE \E h : PairsUpTo(m + 1, h, t, w)
    OBVIOUS
  <2>1. PICK g : PairsUpTo(m, g, t, w)
    OBVIOUS
  <2> HIDE DEF none
  <2>2. g = [i \in 0..m |-> IF i = 0 THEN none ELSE SlotPair(w, i, g[i - 1].id.new)]
    BY <2>1 DEF PairsUpTo, none
  <2> DEFINE h == [i \in 0..(m + 1) |-> IF i = 0 THEN none ELSE SlotPair(w, i, g[i - 1].id.new)]
  <2>3. \A i \in 0..m : h[i] = g[i]
    BY <2>2
  <2>4. \A i \in 0..(m + 1) : i # 0 => i - 1 \in 0..m
    OBVIOUS
  <2>5. h = [i \in 0..(m + 1) |-> IF i = 0 THEN none ELSE SlotPair(w, i, h[i - 1].id.new)]
    BY <2>3, <2>4
  <2> HIDE DEF h
  <2>6. PairsUpTo(m + 1, h, t, w)
    BY <2>5 DEF PairsUpTo, none
  <2> QED
    BY <2>6
<1>3. S = Nat
  <2>1. S \in SUBSET Nat
    OBVIOUS
  <2> HIDE DEF S
  <2> QED
    BY <1>1, <1>2, <2>1, AllNat
<1> QED
  BY <1>3

\* What PrepareVotesBatch makes of votes w on tree t.
Prepared(b, t, w) ==
    /\ b.before = t /\ b.votes = w /\ b.votersCount = Len(w)
    /\ b.over = [i \in 1..Len(w) |-> Overwritten(t, w[i])]
    /\ \A i \in 1..VotesPerBatch : /\ b.ballots[i] = SlotPair(w, i, After(b, i - 1)).ballot
                                   /\ b.ids[i] = SlotPair(w, i, After(b, i - 1)).id
    /\ b.results = Transition(After(b, VotesPerBatch), ResultsKey, <<b.newResults>>)
    /\ b.after = b.results.new
    /\ b.oldResults = After(b, VotesPerBatch)[ResultsKey][1]
    /\ b.newResults = BallotAdd(BallotAdd(b.oldResults, SumOf([i \in 1..Len(w) |-> w[i].reencrypted], Len(w))),
                                BallotNeg(SumOf(b.over, Len(w))))
    /\ b.overwrittenCount = Cardinality({i \in 1..Len(w) : t[w[i].index] # NoLeaf})

\* It does.
LEMMA PrepareMakes == ASSUME NEW t, NEW w PROVE Prepared(PrepareVotesBatch(t, w), t, w)
<1> DEFINE Iter(x) == PairsUpTo(VotesPerBatch, x, t, w)
           g == CHOOSE x : Iter(x)
           b == PrepareVotesBatch(t, w)
           V == VotesPerBatch
           last == g[V].id.new
           over == [i \in 1..Len(w) |-> Overwritten(t, w[i])]
           new == BallotAdd(BallotAdd(last[ResultsKey][1], SumOf([i \in 1..Len(w) |-> w[i].reencrypted], Len(w))),
                            BallotNeg(SumOf(over, Len(w))))
<1>1. V \in Nat /\ V # 0
  BY StateTreeAssumption
<1>2. Iter(g)
  <2>1. \E x : Iter(x)
    BY <1>1, PairsExist
  <2> QED
    BY <2>1, Zenon
<1>3. b = [there |-> TRUE, before |-> t, after |-> Transition(last, ResultsKey, <<new>>).new,
           votes |-> w, over |-> over,
           ballots |-> [i \in 1..V |-> g[i].ballot], ids |-> [i \in 1..V |-> g[i].id],
           results |-> Transition(last, ResultsKey, <<new>>),
           oldResults |-> last[ResultsKey][1], newResults |-> new, votersCount |-> Len(w),
           overwrittenCount |-> Cardinality({i \in 1..Len(w) : t[w[i].index] # NoLeaf})]
  BY Zenon DEF PrepareVotesBatch, PairsUpTo, SlotPair
<1> HIDE DEF g, b, last, over, new
<1>4. /\ b.before = t /\ b.votes = w /\ b.votersCount = Len(w) /\ b.over = over
      /\ b.ballots = [i \in 1..V |-> g[i].ballot] /\ b.ids = [i \in 1..V |-> g[i].id]
      /\ b.results = Transition(last, ResultsKey, <<new>>)
      /\ b.after = Transition(last, ResultsKey, <<new>>).new
      /\ b.oldResults = last[ResultsKey][1] /\ b.newResults = new
      /\ b.overwrittenCount = Cardinality({i \in 1..Len(w) : t[w[i].index] # NoLeaf})
  BY <1>3
<1>5. g[0].id.new = t /\ \A i \in 1..V : g[i] = SlotPair(w, i, g[i - 1].id.new)
  <2>1. Noop(t).new = t
    BY DEF Noop
  <2>2. g = [i \in 0..V |-> IF i = 0 THEN [ballot |-> Noop(t), id |-> Noop(t)]
                            ELSE SlotPair(w, i, g[i - 1].id.new)]
    BY <1>2 DEF PairsUpTo
  <2> QED
    BY <1>1, <2>1, <2>2
<1>6. \A i \in 0..V : After(b, i) = g[i].id.new
  BY <1>1, <1>4, <1>5 DEF After
<1>7. After(b, V) = last
  BY <1>1, <1>6 DEF last
<1>8. ASSUME NEW i \in 1..V
      PROVE  b.ballots[i] = SlotPair(w, i, After(b, i - 1)).ballot /\ b.ids[i] = SlotPair(w, i, After(b, i - 1)).id
  <2>1. i - 1 \in 0..V
    BY <1>1
  <2>2. g[i] = SlotPair(w, i, After(b, i - 1))
    BY <1>5, <1>6, <2>1
  <2> QED
    BY <1>4, <2>2
<1>9. Prepared(b, t, w)
  BY <1>4, <1>7, <1>8 DEF Prepared, over, new
<1> QED
  BY <1>9 DEF b

\* A batch of different voters with fresh vote IDs, as the aggregator makes it.
Honest(t, w) ==
    /\ Len(w) \in 1..VotesPerBatch /\ DOMAIN w = 1..Len(w)
    /\ \A i \in 1..Len(w) :
         /\ w[i].index \in BallotIndices /\ w[i].id \in VoteIDs
         /\ <<w[i].address, w[i].index, w[i].weight>> \in CensusEntries
         /\ w[i].reencrypted \in Ballots /\ w[i].reencrypted = ReencryptBallot(w[i].ballot, i)
         /\ MetadataMatches(t, w[i]) /\ t[w[i].id] = NoLeaf
    /\ \A i, j \in 1..Len(w) : i # j => w[i].index # w[j].index /\ w[i].id # w[j].id

\* The slot of a vote.
LEMMA PreparedVote ==
    ASSUME NEW t, NEW w, NEW b, Prepared(b, t, w), NEW i \in 1..VotesPerBatch, i <= Len(w)
    PROVE  LET s == After(b, i - 1)
           IN  /\ b.ballots[i] = Transition(s, w[i].index, TreeLeafValues(w[i], w[i].reencrypted))
               /\ b.ids[i] = Transition(b.ballots[i].new, w[i].id, VoteIDLeaf)
  BY Zenon DEF Prepared, SlotPair

\* The slot of none.
LEMMA PreparedNone ==
    ASSUME NEW t, NEW w, NEW b, Prepared(b, t, w), NEW i \in 1..VotesPerBatch, ~(i <= Len(w))
    PROVE  LET s == After(b, i - 1)
           IN  b.ballots[i] = Noop(s) /\ b.ids[i] = Noop(s) /\ After(b, i) = s
<1>1. b.ballots[i] = Noop(After(b, i - 1)) /\ b.ids[i] = Noop(After(b, i - 1))
  BY DEF Prepared, SlotPair
<1>2. After(b, i) = b.ids[i].new
  BY DEF After
<1> QED
  BY <1>1, <1>2 DEF Noop

\* The fields of a transition.
FieldsOf(tr, s, k, leaf) ==
    /\ tr.old = s /\ tr.new = [s EXCEPT ![k] = leaf] /\ tr.key = k
    /\ tr.oldLeaf = s[k] /\ tr.newLeaf = leaf
    /\ tr.fnc = (IF s[k] = NoLeaf THEN "insert" ELSE "update")
    /\ VerifyTransition(tr, s)

LEMMA TransitionFields ==
    ASSUME NEW s, NEW k, NEW leaf, NEW tr, tr = Transition(s, k, leaf) PROVE FieldsOf(tr, s, k, leaf)
<1>1. /\ tr.old = s /\ tr.new = [s EXCEPT ![k] = leaf] /\ tr.key = k
      /\ tr.oldLeaf = s[k] /\ tr.newLeaf = leaf
      /\ tr.fnc = (IF s[k] = NoLeaf THEN "insert" ELSE "update")
  BY DEF Transition
<1>2. VerifyTransition(tr, s)
  BY <1>1 DEF VerifyTransition
<1> QED
  BY <1>1, <1>2 DEF FieldsOf

\* The first slots touch the leaves of their votes and no other.
LEMMA HonestTrees ==
    ASSUME NEW t, TreeOK(t), NEW w, NEW b, Prepared(b, t, w), Honest(t, w)
    PROVE  \A m \in 0..Len(w) :
             /\ After(b, m) = [k \in Keys |-> After(b, m)[k]]
             /\ \A k \in Keys : (\A j \in 1..m : k # w[j].index /\ k # w[j].id) => After(b, m)[k] = t[k]
<1> DEFINE n == Len(w)
           Same(m) == /\ After(b, m) = [k \in Keys |-> After(b, m)[k]]
                      /\ \A k \in Keys : (\A j \in 1..m : k # w[j].index /\ k # w[j].id) => After(b, m)[k] = t[k]
           S == {m \in Nat : m <= n => Same(m)}
<1>1. n \in Nat /\ n <= VotesPerBatch /\ VotesPerBatch \in Nat
  BY StateTreeAssumption DEF Honest
<1>2. 0 \in S
  BY DEF After, Prepared, TreeOK
<1>3. \A m \in S : m + 1 \in S
  <2> SUFFICES ASSUME NEW m \in S, m + 1 <= n PROVE Same(m + 1)
    <3> HIDE DEF Same, n
    <3> QED
      OBVIOUS
  <2> DEFINE i == m + 1
             s == After(b, m)
             v == w[i]
             leaf == TreeLeafValues(v, v.reencrypted)
             u == [s EXCEPT ![v.index] = leaf]
  <2>1. i \in 1..VotesPerBatch /\ i \in 1..n /\ i <= Len(w) /\ i - 1 = m /\ i # 0
    BY <1>1
  <2>2. Same(m)
    BY <1>1
  <2>3. v.index \in Keys /\ v.id \in Keys
    BY <2>1 DEF Honest, Keys
  <2>4. After(b, i) = [u EXCEPT ![v.id] = VoteIDLeaf]
    <3> HIDE DEF i
    <3>1. b.ballots[i] = Transition(s, v.index, leaf) /\ b.ids[i] = Transition(b.ballots[i].new, v.id, VoteIDLeaf)
      BY <2>1, PreparedVote
    <3> HIDE DEF s, v, leaf
    <3>2. FieldsOf(b.ballots[i], s, v.index, leaf) /\ FieldsOf(b.ids[i], b.ballots[i].new, v.id, VoteIDLeaf)
      BY <3>1, TransitionFields
    <3>3. b.ids[i].new = [u EXCEPT ![v.id] = VoteIDLeaf]
      BY <3>2, Zenon DEF FieldsOf
    <3> QED
      BY <2>1, <3>3 DEF After
  <2> HIDE DEF s, v, leaf
  <2>5. s = [k \in Keys |-> s[k]]
    BY <2>2 DEF s
  <2>6. After(b, i) = [k \in Keys |-> After(b, i)[k]]
    BY <2>4, <2>5
  <2>7. \A k \in Keys : k # v.index /\ k # v.id => After(b, i)[k] = s[k]
    BY <2>4, <2>5
  <2>8. ASSUME NEW k \in Keys, \A j \in 1..i : k # w[j].index /\ k # w[j].id PROVE After(b, i)[k] = t[k]
    <3>1. k # v.index /\ k # v.id
      BY <2>1, <2>8 DEF v
    <3>2. \A j \in 1..m : k # w[j].index /\ k # w[j].id
      BY <2>1, <2>8
    <3>3. s[k] = t[k]
      BY <2>2, <3>2 DEF s
    <3> QED
      BY <2>7, <3>1, <3>3
  <2> QED
    BY <2>6, <2>8
<1>4. S = Nat
  <2>1. S \in SUBSET Nat
    OBVIOUS
  <2> HIDE DEF S
  <2> QED
    BY <1>2, <1>3, <2>1, AllNat
<1>5. \A m \in 0..n : Same(m)
  BY <1>1, <1>4
<1> QED
  BY <1>5

\* The transitions of a vote are those that the circuit wants.
LEMMA HonestSlot ==
    ASSUME NEW t, TreeOK(t), NEW w, NEW b, Prepared(b, t, w), Honest(t, w), NEW i \in 1..Len(w)
    PROVE  /\ b.ballots[i].fnc = (IF t[w[i].index] = NoLeaf THEN "insert" ELSE "update")
           /\ b.ballots[i].key = w[i].index /\ b.ballots[i].oldLeaf = t[w[i].index]
           /\ b.ballots[i].newLeaf = TreeLeafValues(w[i], w[i].reencrypted)
           /\ VerifyTransition(b.ballots[i], After(b, i - 1))
           /\ b.ids[i].fnc = "insert" /\ b.ids[i].key = w[i].id /\ b.ids[i].newLeaf = VoteIDLeaf
           /\ VerifyTransition(b.ids[i], b.ballots[i].new)
<1> DEFINE s == After(b, i - 1)
           v == w[i]
           leaf == TreeLeafValues(v, v.reencrypted)
           u == [s EXCEPT ![v.index] = leaf]
<1>1. i \in 1..VotesPerBatch /\ i <= Len(w) /\ i - 1 \in 0..Len(w) /\ i \notin 1..(i - 1) /\ 1..(i - 1) \subseteq 1..Len(w)
  BY StateTreeAssumption DEF Honest
<1>2. /\ s = [k \in Keys |-> s[k]]
      /\ \A k \in Keys : (\A j \in 1..(i - 1) : k # w[j].index /\ k # w[j].id) => s[k] = t[k]
  BY <1>1, HonestTrees
<1>3. v.index \in BallotIndices /\ v.id \in VoteIDs /\ t[v.id] = NoLeaf
  BY DEF Honest
<1>4. v.index \in Keys /\ v.id \in Keys /\ v.index # v.id
  BY <1>3, StateTreeAssumption DEF Keys
<1>5. \A j \in 1..(i - 1) : /\ v.index # w[j].index /\ v.index # w[j].id
                            /\ v.id # w[j].index /\ v.id # w[j].id
  <2> SUFFICES ASSUME NEW j \in 1..(i - 1)
               PROVE  v.index # w[j].index /\ v.index # w[j].id /\ v.id # w[j].index /\ v.id # w[j].id
    OBVIOUS
  <2>1. j \in 1..Len(w) /\ j # i
    BY <1>1
  <2>2. v.index # w[j].index /\ v.id # w[j].id
    BY <2>1 DEF Honest
  <2>3. w[j].index \in BallotIndices /\ w[j].id \in VoteIDs
    BY <2>1 DEF Honest
  <2> QED
    BY <1>3, <2>2, <2>3, StateTreeAssumption
<1>6. s[v.index] = t[v.index] /\ s[v.id] = NoLeaf
  BY <1>2, <1>3, <1>4, <1>5
<1>7. b.ballots[i] = Transition(s, v.index, leaf) /\ b.ids[i] = Transition(b.ballots[i].new, v.id, VoteIDLeaf)
  BY <1>1, PreparedVote
<1> HIDE DEF s, v, leaf
<1>8. u[v.id] = NoLeaf
  BY <1>2, <1>4, <1>6
<1> HIDE DEF u
<1>9. /\ b.ballots[i].new = u /\ b.ballots[i].key = v.index /\ b.ballots[i].oldLeaf = s[v.index]
      /\ b.ballots[i].newLeaf = leaf /\ VerifyTransition(b.ballots[i], s)
      /\ b.ballots[i].fnc = (IF s[v.index] = NoLeaf THEN "insert" ELSE "update")
  <2>1. FieldsOf(b.ballots[i], s, v.index, leaf)
    BY <1>7, TransitionFields
  <2> QED
    BY <2>1, Zenon DEF FieldsOf, u
<1>10. /\ b.ids[i].key = v.id /\ b.ids[i].newLeaf = VoteIDLeaf /\ VerifyTransition(b.ids[i], u)
       /\ b.ids[i].fnc = (IF u[v.id] = NoLeaf THEN "insert" ELSE "update")
  <2>1. FieldsOf(b.ids[i], u, v.id, VoteIDLeaf)
    BY <1>7, <1>9, TransitionFields
  <2> QED
    BY <2>1, Zenon DEF FieldsOf
<1> QED
  BY <1>6, <1>8, <1>9, <1>10 DEF s, v, leaf

\* The results are untouched until the last transition.
LEMMA HonestLast ==
    ASSUME NEW t, TreeOK(t), NEW w, NEW b, Prepared(b, t, w), Honest(t, w)
    PROVE  After(b, VotesPerBatch)[ResultsKey] = t[ResultsKey]
<1> DEFINE n == Len(w)
           S == {m \in Nat : n + m <= VotesPerBatch => After(b, n + m) = After(b, n)}
<1>1. n \in Nat /\ n \in 0..n /\ n <= VotesPerBatch /\ VotesPerBatch \in Nat
  BY StateTreeAssumption DEF Honest
<1>2. 0 \in S
  BY <1>1
<1>3. \A m \in S : m + 1 \in S
  <2> SUFFICES ASSUME NEW m \in S, n + (m + 1) <= VotesPerBatch PROVE After(b, n + (m + 1)) = After(b, n)
    OBVIOUS
  <2> DEFINE i == n + (m + 1)
  <2>1. i \in 1..VotesPerBatch /\ ~(i <= Len(w)) /\ i - 1 = n + m /\ n + m <= VotesPerBatch
    BY <1>1
  <2> HIDE DEF i
  <2>2. After(b, i) = After(b, i - 1)
    BY <2>1, PreparedNone
  <2> QED
    BY <2>1, <2>2 DEF i
<1>4. S = Nat
  <2>1. S \in SUBSET Nat
    OBVIOUS
  <2> HIDE DEF S
  <2> QED
    BY <1>2, <1>3, <2>1, AllNat
<1>5. PICK d \in Nat : n + d = VotesPerBatch
  <2>1. VotesPerBatch - n \in Nat /\ n + (VotesPerBatch - n) = VotesPerBatch
    BY <1>1
  <2> QED
    BY <2>1
<1>6. d \in S
  BY <1>4
<1>7. n + d <= VotesPerBatch
  BY <1>1, <1>5
<1>8. After(b, VotesPerBatch) = After(b, n)
  BY <1>5, <1>6, <1>7
<1>9. ResultsKey \in Keys /\ \A j \in 1..n : ResultsKey # w[j].index /\ ResultsKey # w[j].id
  BY StateTreeAssumption DEF Keys, Honest
<1>10. After(b, n)[ResultsKey] = t[ResultsKey]
  BY <1>1, <1>9, HonestTrees
<1> QED
  BY <1>8, <1>10

\* A padded slot.
LEMMA NoopFields ==
    ASSUME NEW s, NEW tr, tr = Noop(s) PROVE tr.fnc = "noop" /\ tr.new = s /\ VerifyTransition(tr, s)
<1>1. tr.fnc = "noop" /\ tr.old = s /\ tr.new = s
  BY DEF Noop
<1> QED
  BY <1>1 DEF VerifyTransition

\* The ballots that an honest batch replaces are those of the same voters.
LEMMA HonestOver ==
    ASSUME NEW t, TreeOK(t), NEW w, NEW b, Prepared(b, t, w), Honest(t, w), NEW i \in 1..Len(w)
    PROVE  /\ b.over[i] \in Ballots
           /\ t[w[i].index] = NoLeaf => b.over[i] = Zero
           /\ t[w[i].index] # NoLeaf => t[w[i].index] = TreeLeafValues(w[i], b.over[i])
<1> DEFINE leaf == t[w[i].index]
<1>1. w[i].index \in BallotIndices /\ MetadataMatches(t, w[i])
  BY DEF Honest
<1>2. b.over[i] = IF leaf = NoLeaf THEN Zero ELSE leaf[1]
  BY DEF Prepared, Overwritten
<1>3. Zero \in Ballots
  BY DEF Zero, Ballots
<1>4. leaf # NoLeaf => BallotLeaf(leaf)
  BY <1>1 DEF TreeOK, Leaves
<1>5. leaf # NoLeaf => leaf = <<leaf[1], leaf[2], leaf[3]>> /\ leaf[1] \in Ballots
                       /\ leaf[2] = w[i].address /\ leaf[3] = w[i].weight
  BY <1>1, <1>4 DEF BallotLeaf, MetadataMatches
<1> QED
  BY <1>2, <1>3, <1>5 DEF TreeLeafValues

\* The results of an honest batch are those that the circuit adds up.
LEMMA HonestResults ==
    ASSUME NEW t, TreeRight(t), NEW w, NEW b, Prepared(b, t, w), Honest(t, w)
    PROVE  /\ b.oldResults \in Ballots /\ b.newResults \in Ballots
           /\ b.newResults = BallotAdd(b.oldResults,
                 BallotAdd(SumOf(Added(b), Len(w)), BallotNeg(SumOf(Replaced(b), Len(w)))))
<1> DEFINE n == Len(w)
           all == [i \in 1..n |-> w[i].reencrypted]
           A == SumOf(Added(b), n)
           R == SumOf(Replaced(b), n)
           old == b.oldResults
<1>1. n \in Nat /\ b.votersCount = n /\ b.votes = w
  BY DEF Honest, Prepared
<1>2. TreeOK(t) /\ t[ResultsKey] = <<BallotTally(t)>> /\ BallotTally(t) \in Ballots
  BY TallyIsBallot DEF TreeRight
<1>3. old = BallotTally(t)
  <2>1. After(b, VotesPerBatch)[ResultsKey] = t[ResultsKey]
    BY <1>2, HonestLast
  <2> QED
    BY <1>2, <2>1 DEF Prepared
<1>4. ASSUME NEW i \in 1..n
      PROVE  /\ Added(b)[i] \in Ballots /\ Added(b)[i] = all[i]
             /\ Replaced(b)[i] \in Ballots /\ Replaced(b)[i] = b.over[i]
  <2>1. b.ballots[i].fnc = (IF t[w[i].index] = NoLeaf THEN "insert" ELSE "update")
    BY <1>2, HonestSlot
  <2>2. Added(b)[i] = w[i].reencrypted
    BY <1>1, <2>1 DEF Added
  <2>3. Replaced(b)[i] = IF t[w[i].index] = NoLeaf THEN Zero ELSE b.over[i]
    BY <1>1, <2>1 DEF Replaced
  <2>4. b.over[i] \in Ballots /\ (t[w[i].index] = NoLeaf => b.over[i] = Zero)
    BY <1>2, HonestOver
  <2>5. w[i].reencrypted \in Ballots
    BY DEF Honest
  <2> QED
    BY <2>2, <2>3, <2>4, <2>5
<1> HIDE DEF all
<1>5. A = SumOf(all, n) /\ A \in Ballots
  BY <1>1, <1>4, SumsAgree
<1>6. R = SumOf(b.over, n) /\ R \in Ballots
  BY <1>1, <1>4, SumsAgree
<1>7. b.newResults = BallotAdd(BallotAdd(old, SumOf(all, n)), BallotNeg(SumOf(b.over, n)))
  BY DEF Prepared, all
<1> HIDE DEF A, R, old
<1>8. old \in Ballots
  BY <1>2, <1>3
<1>9. /\ BallotAdd(BallotAdd(old, A), BallotNeg(R)) = BallotAdd(old, BallotAdd(A, BallotNeg(R)))
      /\ BallotAdd(BallotAdd(old, A), BallotNeg(R)) \in Ballots
  <2>1. BallotNeg(R) \in Ballots /\ BallotAdd(old, A) \in Ballots
    BY <1>5, <1>6, <1>8, BallotGroup
  <2> QED
    BY <1>5, <1>8, <2>1, BallotGroup
<1> QED
  BY <1>5, <1>6, <1>7, <1>8, <1>9 DEF A, R, old

\* The circuit accepts every honest batch.
LEMMA HonestAccepted ==
    ASSUME NEW t, TreeRight(t), NEW w, NEW b, Prepared(b, t, w), Honest(t, w),
           3 + Len(w) * CellsPerVote <= BlobCells
    PROVE  CircuitAccepts(b)
<1> DEFINE n == Len(w)
           V == VotesPerBatch
           last == After(b, V)
<1>1. /\ n \in Nat /\ n # 0 /\ V \in Nat /\ V # 0 /\ 1..n \subseteq 1..V
      /\ b.votersCount = n /\ b.votes = w /\ b.before = t
  BY StateTreeAssumption DEF Honest, Prepared
<1>2. TreeOK(t) /\ t[ResultsKey] = <<BallotTally(t)>>
  BY DEF TreeRight
<1>3. \A i \in 1..n :
         /\ b.ballots[i].fnc = (IF t[w[i].index] = NoLeaf THEN "insert" ELSE "update")
         /\ b.ballots[i].key = w[i].index /\ b.ballots[i].oldLeaf = t[w[i].index]
         /\ b.ballots[i].newLeaf = TreeLeafValues(w[i], w[i].reencrypted)
         /\ VerifyTransition(b.ballots[i], After(b, i - 1))
         /\ b.ids[i].fnc = "insert" /\ b.ids[i].key = w[i].id /\ b.ids[i].newLeaf = VoteIDLeaf
         /\ VerifyTransition(b.ids[i], b.ballots[i].new)
  BY <1>2, HonestSlot
<1>4. \A i \in 1..V : ~(i <= n) =>
         /\ b.ballots[i].fnc = "noop" /\ b.ids[i].fnc = "noop"
         /\ VerifyTransition(b.ballots[i], After(b, i - 1)) /\ VerifyTransition(b.ids[i], b.ballots[i].new)
  <2> SUFFICES ASSUME NEW i \in 1..V, ~(i <= n)
               PROVE  /\ b.ballots[i].fnc = "noop" /\ b.ids[i].fnc = "noop"
                      /\ VerifyTransition(b.ballots[i], After(b, i - 1))
                      /\ VerifyTransition(b.ids[i], b.ballots[i].new)
    OBVIOUS
  <2> DEFINE s == After(b, i - 1)
  <2>1. b.ballots[i] = Noop(s) /\ b.ids[i] = Noop(s)
    BY PreparedNone
  <2> HIDE DEF s
  <2>2. b.ballots[i].fnc = "noop" /\ b.ballots[i].new = s /\ VerifyTransition(b.ballots[i], s)
    BY <2>1, NoopFields
  <2>3. b.ids[i].fnc = "noop" /\ VerifyTransition(b.ids[i], s)
    BY <2>1, NoopFields
  <2> QED
    BY <2>2, <2>3 DEF s
<1>5. \A i \in 1..V : i <= n => i \in 1..n
  BY <1>1
<1>6. last[ResultsKey] = <<BallotTally(t)>> /\ b.oldResults = BallotTally(t) /\ last[ResultsKey] # NoLeaf
  <2>1. last[ResultsKey] = t[ResultsKey]
    BY <1>2, HonestLast
  <2> QED
    BY <1>2, <2>1, LeavesAreThere DEF Prepared
<1>7. /\ b.results.fnc = "update" /\ b.results.key = ResultsKey /\ b.results.newLeaf = <<b.newResults>>
      /\ b.results.oldLeaf = <<b.oldResults>> /\ VerifyTransition(b.results, last)
      /\ b.results.new = b.after
  <2>1. b.results = Transition(last, ResultsKey, <<b.newResults>>) /\ b.results.new = b.after
    BY DEF Prepared
  <2> HIDE DEF last
  <2>2. FieldsOf(b.results, last, ResultsKey, <<b.newResults>>)
    BY <2>1, TransitionFields
  <2> QED
    BY <1>6, <2>1, <2>2 DEF FieldsOf
<1>8. VerifyMerkleTransitionKeys(b)
  BY <1>1, <1>3, <1>5, <1>7 DEF VerifyMerkleTransitionKeys, VerifyNewKey, IsReal
<1>9. VerifyMerkleTransitions(b)
  BY <1>1, <1>3, <1>4, <1>5, <1>7 DEF VerifyMerkleTransitions, IsReal
<1>10. VerifyRootTransition(b)
  <2>1. \A i \in 1..V : VerifyTransition(b.ballots[i], After(b, i - 1)) /\ VerifyTransition(b.ids[i], b.ballots[i].new)
    BY <1>3, <1>4, <1>5
  <2>2. \A i \in 1..V : After(b, i - 1) = IF i = 1 THEN b.before ELSE b.ids[i - 1].new
    BY <1>1 DEF After
  <2>3. last = b.ids[V].new
    BY <1>1 DEF After
  <2> QED
    BY <1>7, <2>1, <2>2, <2>3 DEF VerifyRootTransition
<1>11. VerifyLeafHashes(b)
  <2>1. \A i \in 1..n : b.ballots[i].fnc = "update" => b.ballots[i].oldLeaf = TreeLeafValues(w[i], b.over[i])
    <3> SUFFICES ASSUME NEW i \in 1..n, b.ballots[i].fnc = "update"
                 PROVE  b.ballots[i].oldLeaf = TreeLeafValues(w[i], b.over[i])
      OBVIOUS
    <3>1. t[w[i].index] # NoLeaf => t[w[i].index] = TreeLeafValues(w[i], b.over[i])
      BY <1>2, HonestOver
    <3> QED
      BY <1>3, <3>1
  <2> QED
    BY <1>1, <1>3, <1>5, <1>7, <2>1
       DEF VerifyLeafHashes, IsReal, VerifyNewLeafHash, VerifyOldLeafHash, VerifyOverwrittenBallot
<1>12. VerifyCensusProofs(b)
  BY <1>1 DEF VerifyCensusProofs, Honest
<1>13. VerifyReencryptedVotes(b)
  BY <1>1 DEF VerifyReencryptedVotes, Honest
<1>14. VerifyBallots(b)
  <2>1. b.newResults = BallotAdd(b.oldResults,
            BallotAdd(SumOf(Added(b), b.votersCount), BallotNeg(SumOf(Replaced(b), b.votersCount))))
    BY <1>1, HonestResults
  <2>2. {i \in 1..V : b.ballots[i].fnc # "noop"} = 1..n
    BY <1>1, <1>3, <1>4, <1>5
  <2>3. Cardinality(1..n) = n
    BY <1>1, FS_Interval
  <2>4. {i \in 1..V : b.ballots[i].fnc = "update"} = {i \in 1..n : t[w[i].index] # NoLeaf}
    BY <1>1, <1>3, <1>4, <1>5
  <2>5. b.overwrittenCount = Cardinality({i \in 1..n : t[w[i].index] # NoLeaf})
    BY DEF Prepared
  <2>6. /\ b.votersCount = Cardinality({i \in 1..V : b.ballots[i].fnc # "noop"})
        /\ b.overwrittenCount = Cardinality({i \in 1..V : b.ballots[i].fnc = "update"})
    BY <1>1, <2>2, <2>3, <2>4, <2>5
  <2> QED
    BY <2>1, <2>6, Zenon DEF VerifyBallots, Added, Replaced
<1>15. VerifyBlobs(b)
  <2>1. BlobOf(b) = [j \in 1..BlobCells |-> CellOf(b, j)]
    <3>1. b.newResults \in Ballots
      BY HonestResults
    <3>2. \A i \in 1..b.votersCount : b.votes[i].reencrypted \in Ballots
      BY <1>1 DEF Honest
    <3>3. 3 + b.votersCount * CellsPerVote <= BlobCells
      BY <1>1
    <3> QED
      BY <1>1, <3>1, <3>2, <3>3, BlobLaidOut
  <2>2. \A i \in 1..b.votersCount : b.votes[i].id \in VoteIDs
    BY <1>1 DEF Honest
  <2> QED
    BY <2>1, <2>2, Zenon DEF VerifyBlobs, CellOf
<1> QED
  BY <1>8, <1>9, <1>10, <1>11, <1>12, <1>13, <1>14, <1>15 DEF CircuitAccepts

\* The staged batch is what PrepareVotesBatch made of votes that were cast, whose
\* leaves belong to their voters.
StagedPrepared ==
    staged.there =>
        \E n \in 1..VotesPerBatch : \E votes \in [1..n -> CastVotes] :
            LET w == ReencryptVotes(votes)
            IN  /\ staged = PrepareVotesBatch(staged.before, w)
                /\ \A i \in 1..n : MetadataMatches(staged.before, w[i])

\* It always is.
LEMMA StagedIsPrepared == StSpec => []StagedPrepared
<1>1. StInit => StagedPrepared
  BY DEF StInit, StagedPrepared, NoBatch
<1>2. StagedPrepared /\ [StNext]_stVars => StagedPrepared'
  <2> SUFFICES ASSUME StagedPrepared, [StNext]_stVars PROVE StagedPrepared'
    OBVIOUS
  <2>1. ASSUME NEW n \in 1..VotesPerBatch, NEW votes \in [1..n -> CastVotes],
               StageBatch(ReencryptVotes(votes))
        PROVE  StagedPrepared'
    <3> DEFINE w == ReencryptVotes(votes)
    <3>1. DOMAIN w = 1..n
      BY DEF ReencryptVotes
    <3> HIDE DEF w
    <3>2. staged' = PrepareVotesBatch(current, w) /\ \A i \in 1..n : MetadataMatches(current, w[i])
      BY <2>1, <3>1 DEF StageBatch, w
    <3>3. staged'.before = current
      BY <3>2, PreparedFields
    <3>4. staged' = PrepareVotesBatch(staged'.before, w) /\ \A i \in 1..n : MetadataMatches(staged'.before, w[i])
      BY <3>2, <3>3
    <3> QED
      BY <3>4, Zenon DEF StagedPrepared, w
  <2>2. CASE CommitBatch \/ DiscardBatch
    BY <2>2 DEF CommitBatch, DiscardBatch, StagedPrepared, NoBatch
  <2>3. CASE UNCHANGED staged
    BY <2>3 DEF StagedPrepared
  <2> QED
    BY <2>1, <2>2, <2>3 DEF StNext, stVars, ApplyBlobSidecarFromRoot, PromoteConfirmedStateRoot
<1> QED
  BY <1>1, <1>2, PTL DEF StSpec

\* The votes that were cast come from the census, and keep what they say.
LEMMA VotesFromCensus ==
    ASSUME NEW n \in Nat, NEW votes \in [1..n -> CastVotes], NEW i \in 1..n
    PROVE  LET v == ReencryptVotes(votes)[i]
           IN  /\ v.index \in BallotIndices /\ v.id \in VoteIDs
               /\ <<v.address, v.index, v.weight>> \in CensusEntries
               /\ v.reencrypted = ReencryptBallot(v.ballot, i)
<1> DEFINE v == ReencryptVotes(votes)[i]
           c == votes[i]
<1>1. /\ v.id = c.id /\ v.address = c.address /\ v.index = c.index /\ v.weight = c.weight
      /\ v.ballot = c.ballot /\ v.reencrypted = ReencryptBallot(c.ballot, i)
  BY DEF ReencryptVotes
<1>2. c \in CastVotes
  OBVIOUS
<1>3. PICK id \in VoteIDs, e \in CensusEntries, m \in Messages :
        c = [id |-> id, address |-> e[1], index |-> e[2], weight |-> e[3], ballot |-> <<m, 0>>]
  BY <1>2 DEF CastVotes
<1> HIDE DEF v, c
<1>4. c.id = id /\ c.address = e[1] /\ c.index = e[2] /\ c.weight = e[3]
  BY <1>3
<1>5. e = <<e[1], e[2], e[3]>> /\ e[2] \in BallotIndices
  BY StateTreeAssumption
<1> QED
  BY <1>1, <1>4, <1>5 DEF v

\* Whatever batches came before, the circuit accepts a batch of different voters
\* with fresh vote IDs: overwrites, padding and any number of votes up to the
\* slots, so that what the aggregator makes never gets stuck at the prover.
THEOREM HonestBatchesAreProvable == StSpec => []HonestBatchIsProvable
<1>1. StInv /\ StagedPrepared => HonestBatchIsProvable
  <2> SUFFICES ASSUME StInv, StagedPrepared, staged.there,
                      IsInjective([i \in DOMAIN staged.votes |-> staged.votes[i].index]),
                      IsInjective([i \in DOMAIN staged.votes |-> staged.votes[i].id]),
                      \A i \in DOMAIN staged.votes : staged.before[staged.votes[i].id] = NoLeaf
               PROVE  CircuitAccepts(staged)
    BY DEF HonestBatchIsProvable
  <2> DEFINE t == staged.before
  <2>0. PICK n \in 1..VotesPerBatch : \E votes \in [1..n -> CastVotes] :
            /\ staged = PrepareVotesBatch(t, ReencryptVotes(votes))
            /\ \A i \in 1..n : MetadataMatches(t, ReencryptVotes(votes)[i])
    BY Zenon DEF StagedPrepared
  <2>1. PICK votes \in [1..n -> CastVotes] :
            /\ staged = PrepareVotesBatch(t, ReencryptVotes(votes))
            /\ \A i \in 1..n : MetadataMatches(t, ReencryptVotes(votes)[i])
    BY <2>0
  <2> DEFINE w == ReencryptVotes(votes)
  <2>2. n \in Nat
    OBVIOUS
  <2>3. DOMAIN w = 1..n /\ Len(w) = n /\ \A i \in 1..n : w[i].reencrypted \in Ballots
    BY <2>2, VotesReencrypt
  <2>4. \A i \in 1..n : /\ w[i].index \in BallotIndices /\ w[i].id \in VoteIDs
                        /\ <<w[i].address, w[i].index, w[i].weight>> \in CensusEntries
                        /\ w[i].reencrypted = ReencryptBallot(w[i].ballot, i)
    BY <2>2, VotesFromCensus
  <2> HIDE DEF w, t
  <2>5. staged.votes = w /\ staged.votersCount = n
    BY <2>1, <2>3, PreparedFields DEF w
  <2>6. Prepared(staged, t, w)
    BY <2>1, PrepareMakes DEF w
  <2>7. \A i, j \in 1..n : i # j => w[i].index # w[j].index /\ w[i].id # w[j].id
    <3>1. IsInjective([i \in 1..n |-> w[i].index]) /\ IsInjective([i \in 1..n |-> w[i].id])
      BY <2>3, <2>5
    <3> QED
      BY <3>1 DEF IsInjective
  <2>8. Honest(t, w)
    BY <2>1, <2>3, <2>4, <2>5, <2>7 DEF Honest, w, t
  <2>9. TreeRight(t) /\ 3 + Len(w) * CellsPerVote <= BlobCells
    BY <2>3, <2>5 DEF StInv, StagedRight, t
  <2> QED
    BY <2>6, <2>8, <2>9, HonestAccepted
<1> QED
  BY <1>1, StInvHolds, StagedIsPrepared, PTL
=============================================================================
