-------------------------- MODULE FoundationsProofs --------------------------
(***************************************************************************)
(* The database layer and the encrypted tally, for every instance:         *)
(*   - KVStore implements AtomicStore, for any number of keys, any set of  *)
(*     transactions and any programs that suit the database;               *)
(*   - ElGamal: decrypting the sum of the ballots gives the sum of the     *)
(*     votes, in a group of any prime order.                               *)
(*                                                                         *)
(* What a recursive function computes is proved by taking the least number *)
(* at which it would go wrong.                                             *)
(***************************************************************************)
EXTENDS KVStore, ElGamal, FiniteSetTheorems, WellFoundedInduction, TLAPS

----------------------------------------------------------------------------
(* Induction                                                               *)

\* Every non-empty set of natural numbers has a least element.
LEMMA LeastNat ==
    ASSUME NEW S \in SUBSET Nat, S # {}
    PROVE  \E n \in S : \A m \in S : n <= m
<1>1. PICK n \in S : \A m \in S : ~(<<m, n>> \in OpToRel(<, Nat))
  BY NatLessThanWellFounded, WFMin
<1>2. \A m \in S : n <= m
  <2> SUFFICES ASSUME NEW m \in S, m < n PROVE FALSE
    OBVIOUS
  <2>1. <<m, n>> \in Nat \X Nat /\ <<m, n>>[1] < <<m, n>>[2]
    OBVIOUS
  <2>2. <<m, n>> \in OpToRel(<, Nat)
    BY <2>1, Zenon DEF OpToRel
  <2> QED
    BY <1>1, <2>2
<1> QED
  BY <1>2

\* A set of natural numbers that holds 0 and the successor of each of its members
\* is all of them.
LEMMA AllNat ==
    ASSUME NEW S \in SUBSET Nat, 0 \in S, \A n \in S : n + 1 \in S
    PROVE  S = Nat
<1> SUFFICES ASSUME Nat \ S # {} PROVE FALSE
  OBVIOUS
<1>1. Nat \ S \in SUBSET Nat
  OBVIOUS
<1>2. PICK n \in Nat \ S : \A m \in Nat \ S : n <= m
  BY <1>1, LeastNat
<1>3. n # 0 /\ n \in Nat
  OBVIOUS
<1>4. n - 1 \in Nat /\ n - 1 < n /\ (n - 1) + 1 = n
  BY <1>3
<1>5. n - 1 \in S
  BY <1>2, <1>4
<1> QED
  BY <1>4, <1>5

----------------------------------------------------------------------------
(* The programs                                                            *)

\* The types that the assumptions give.
LEMMA ProgramTypes ==
    ASSUME NEW t \in Txs
    PROVE  /\ Len(Ops(t)) \in Nat /\ DOMAIN Ops(t) = 1 .. Len(Ops(t))
           /\ \A i \in DOMAIN Ops(t) : /\ Ops(t)[i].op \in {"get", "iterate", "set", "delete"}
                                       /\ PrefixSlice(t, Ops(t)[i].key) \in StoreKeys
<1> DEFINE O == [op : {"get", "iterate", "set", "delete"}, key : {k[2] : k \in StoreKeys}]
<1>1. Ops(t) \in Seq(O)
  BY KVAssumption DEF Ops
<1>2. Len(Ops(t)) \in Nat /\ DOMAIN Ops(t) = 1 .. Len(Ops(t))
  BY <1>1
<1>3. \A i \in DOMAIN Ops(t) : Ops(t)[i] \in O
  <2> HIDE DEF O
  <2> QED
    BY <1>1, <1>2
<1>4. \A i \in DOMAIN Ops(t) : PrefixSlice(t, Ops(t)[i].key) \in StoreKeys
  BY KVAssumption DEF Ops, PrefixSlice
<1> QED
  BY <1>2, <1>3, <1>4

\* AtomicStore's recursive function exists: it can be built up one operation
\* after the other.
LEMMA AfterExists ==
    ASSUME NEW t \in Txs, NEW C
    PROVE  /\ Abstract!After(t, C)[0] = [view |-> C, acc |-> 0]
           /\ \A n \in 1 .. Len(Ops(t)) :
                Abstract!After(t, C)[n] = Abstract!Effect(t, n, Abstract!After(t, C)[n - 1])
<1> DEFINE first == [view |-> C, acc |-> 0]
           Eff(n, b) == Abstract!Effect(t, n, b)
           Good(m, g) == g = [n \in 0 .. m |-> IF n = 0 THEN first ELSE Eff(n, g[n - 1])]
           S == {m \in Nat : \E g : Good(m, g)}
           len == Len(Program[t].ops)
<1>1. len \in Nat /\ Len(Ops(t)) = len
  BY ProgramTypes DEF Ops
<1> HIDE DEF first, Eff
<1>2. 0 \in S
  <2>1. Good(0, [n \in 0 .. 0 |-> first])
    OBVIOUS
  <2> QED
    BY <2>1
<1>3. \A m \in S : m + 1 \in S
  <2> SUFFICES ASSUME NEW m \in S PROVE m + 1 \in S
    OBVIOUS
  <2>1. PICK g : Good(m, g)
    OBVIOUS
  <2> DEFINE h == [n \in 0 .. m + 1 |-> IF n <= m THEN g[n] ELSE Eff(m + 1, g[m])]
  <2>2. Good(m + 1, h)
    BY <2>1
  <2> HIDE DEF Good
  <2>3. \E x : Good(m + 1, x)
    BY <2>2
  <2> QED
    BY <2>3
<1>4. len \in S
  <2>1. S \in SUBSET Nat
    OBVIOUS
  <2> HIDE DEF S
  <2> QED
    BY <1>1, <1>2, <1>3, <2>1, AllNat
<1>5. \E g : Good(len, g)
  BY <1>4
<1>6. Good(len, CHOOSE g : Good(len, g))
  BY <1>5
<1>7. Abstract!After(t, C) = CHOOSE g : Good(len, g)
  BY DEF Abstract!After, Eff, first
<1> DEFINE f == Abstract!After(t, C)
<1>8. f = [n \in 0 .. len |-> IF n = 0 THEN first ELSE Eff(n, f[n - 1])]
  BY <1>6, <1>7
<1> HIDE DEF f
<1>9. f[0] = first /\ \A n \in 1 .. len : f[n] = Eff(n, f[n - 1])
  BY <1>1, <1>8
<1> QED
  BY <1>1, <1>9 DEF f, first, Eff

\* The element of a set that the folds of the library take first.
Pick(s) == CHOOSE x \in s : TRUE

\* Function it gives the sum of f over each subset of S.
Adds(it, f, S) ==
    /\ it[{}] = 0
    /\ \A s \in SUBSET S : s # {} => it[s] = f[Pick(s)] + it[s \ {Pick(s)}]

\* The iteration's sum of natural numbers is what it should be: the fold of the
\* library exists on every subset, by induction on its size.
LEMMA SumUnfolds ==
    ASSUME NEW S, IsFiniteSet(S), NEW f, \A k \in S : f[k] \in Nat
    PROVE  \E it : SumFunctionOnSet(f, S) = it[S] /\ Adds(it, f, S)
<1> DEFINE Up(g, s) == IF s = {} THEN 0 ELSE f[Pick(s)] + g[s \ {Pick(s)}]
           Small(n) == {s \in SUBSET S : Cardinality(s) <= n}
           Good(n, g) == /\ g \in [Small(n) -> Nat]
                         /\ \A s \in Small(n) : g[s] = Up(g, s)
           N == {n \in Nat : \E g : Good(n, g)}
<1>1. \A s \in SUBSET S : IsFiniteSet(s) /\ Cardinality(s) \in Nat
  BY FS_Subset, FS_CardinalityType
<1>2. \A s \in SUBSET S : s # {} =>
        /\ Pick(s) \in s /\ s \ {Pick(s)} \in SUBSET S
        /\ Cardinality(s \ {Pick(s)}) = Cardinality(s) - 1
  BY <1>1, FS_RemoveElement DEF Pick
<1>3. \A s \in SUBSET S : Cardinality(s) <= 0 => s = {}
  BY <1>1, FS_EmptySet
<1>4. 0 \in N
  <2>1. Good(0, [s \in Small(0) |-> 0])
    BY <1>3
  <2> QED
    BY <2>1
<1>5. \A n \in N : n + 1 \in N
  <2> SUFFICES ASSUME NEW n \in N PROVE n + 1 \in N
    OBVIOUS
  <2>1. PICK g : Good(n, g)
    OBVIOUS
  <2> DEFINE h == [s \in Small(n + 1) |-> Up(g, s)]
  <2>2. \A s \in Small(n + 1) : s # {} => s \ {Pick(s)} \in Small(n)
    BY <1>1, <1>2
  <2>3. \A s \in Small(n) : s \in Small(n + 1)
    BY <1>1
  <2>4. h \in [Small(n + 1) -> Nat]
    BY <1>2, <2>1, <2>2
  <2>5. \A s \in Small(n) : h[s] = g[s]
    BY <2>1, <2>3
  <2>6. \A s \in Small(n + 1) : h[s] = Up(h, s)
    BY <2>2, <2>5
  <2>7. Good(n + 1, h)
    BY <2>4, <2>6
  <2> HIDE DEF Good
  <2>8. \E x : Good(n + 1, x)
    BY <2>7
  <2> QED
    BY <2>8
<1>6. Cardinality(S) \in N
  <2>1. N \in SUBSET Nat /\ Cardinality(S) \in Nat
    BY FS_CardinalityType
  <2> HIDE DEF N
  <2> QED
    BY <1>4, <1>5, <2>1, AllNat
<1>7. Small(Cardinality(S)) = SUBSET S
  BY FS_Subset
<1>8. PICK g : g \in [SUBSET S -> Nat] /\ \A s \in SUBSET S : g[s] = Up(g, s)
  BY <1>6, <1>7
<1> DEFINE Iter(x) == x = [s \in SUBSET S |-> Up(x, s)]
<1>9. Iter(g)
  BY <1>8
<1>10. Iter(CHOOSE x : Iter(x))
  BY <1>9
<1> DEFINE it == CHOOSE x : Iter(x)
<1>11. SumFunctionOnSet(f, S) = it[S]
  BY DEF SumFunctionOnSet, FoldFunctionOnSet, MapThenFoldSet, Pick
<1>12. it = [s \in SUBSET S |-> Up(it, s)]
  BY <1>10
<1> HIDE DEF it
<1>13. Adds(it, f, S)
  BY <1>12 DEF Adds
<1> QED
  BY <1>11, <1>13

\* The subsets by size, for inductions on it.
LEMMA SubsetsBySize ==
    ASSUME NEW S, IsFiniteSet(S), NEW Q \in SUBSET SUBSET S,
           {} \in Q,
           \A s \in SUBSET S : s # {} /\ s \ {Pick(s)} \in Q => s \in Q
    PROVE  S \in Q
<1> DEFINE M == {n \in Nat : \A s \in SUBSET S : Cardinality(s) <= n => s \in Q}
<1>1. \A s \in SUBSET S : IsFiniteSet(s) /\ Cardinality(s) \in Nat
  BY FS_Subset, FS_CardinalityType
<1>2. 0 \in M
  <2>1. \A s \in SUBSET S : Cardinality(s) <= 0 => s = {}
    BY <1>1, FS_EmptySet
  <2> QED
    BY <2>1
<1>3. \A n \in M : n + 1 \in M
  <2> SUFFICES ASSUME NEW n \in M, NEW s \in SUBSET S, Cardinality(s) <= n + 1, s # {}
               PROVE  s \in Q
    OBVIOUS
  <2>1. Pick(s) \in s
    BY DEF Pick
  <2>2. Cardinality(s \ {Pick(s)}) = Cardinality(s) - 1 /\ s \ {Pick(s)} \in SUBSET S
    BY <1>1, <2>1, FS_RemoveElement
  <2>3. s \ {Pick(s)} \in Q
    BY <1>1, <2>2
  <2> QED
    BY <2>3
<1>4. Cardinality(S) \in M
  <2>1. M \in SUBSET Nat /\ Cardinality(S) \in Nat
    BY <1>1
  <2> HIDE DEF M
  <2> QED
    BY <1>2, <1>3, <2>1, AllNat
<1> QED
  BY <1>1, <1>4

\* A sum of natural numbers is one, and depends on nothing but the values there.
LEMMA SumIsNat ==
    ASSUME NEW S, IsFiniteSet(S), NEW f, \A k \in S : f[k] \in Nat
    PROVE  SumFunctionOnSet(f, S) \in Nat
<1>1. PICK it : SumFunctionOnSet(f, S) = it[S] /\ Adds(it, f, S)
  BY SumUnfolds
<1> DEFINE Q == {s \in SUBSET S : it[s] \in Nat}
<1>2. {} \in Q
  BY <1>1 DEF Adds
<1>3. \A s \in SUBSET S : s # {} /\ s \ {Pick(s)} \in Q => s \in Q
  <2> SUFFICES ASSUME NEW s \in SUBSET S, s # {}, it[s \ {Pick(s)}] \in Nat PROVE it[s] \in Nat
    OBVIOUS
  <2>1. Pick(s) \in S /\ it[s] = f[Pick(s)] + it[s \ {Pick(s)}]
    BY <1>1 DEF Pick, Adds
  <2> QED
    BY <2>1
<1>4. S \in Q
  <2> Q \in SUBSET SUBSET S
    OBVIOUS
  <2> HIDE DEF Q
  <2> QED
    BY <1>2, <1>3, SubsetsBySize
<1> QED
  BY <1>1, <1>4

\* See SumIsNat.
LEMMA SumsAgree ==
    ASSUME NEW S, IsFiniteSet(S), NEW f, NEW g, \A k \in S : f[k] \in Nat /\ g[k] = f[k]
    PROVE  SumFunctionOnSet(f, S) = SumFunctionOnSet(g, S)
<1>1. PICK it : SumFunctionOnSet(f, S) = it[S] /\ Adds(it, f, S)
  BY SumUnfolds
<1>2. PICK jt : SumFunctionOnSet(g, S) = jt[S] /\ Adds(jt, g, S)
  BY SumUnfolds
<1> DEFINE Q == {s \in SUBSET S : it[s] = jt[s]}
<1>3. {} \in Q
  BY <1>1, <1>2 DEF Adds
<1>4. \A s \in SUBSET S : s # {} /\ s \ {Pick(s)} \in Q => s \in Q
  <2> SUFFICES ASSUME NEW s \in SUBSET S, s # {}, it[s \ {Pick(s)}] = jt[s \ {Pick(s)}]
               PROVE  it[s] = jt[s]
    OBVIOUS
  <2>1. Pick(s) \in S
    BY DEF Pick
  <2>2. it[s] = f[Pick(s)] + it[s \ {Pick(s)}] /\ jt[s] = g[Pick(s)] + jt[s \ {Pick(s)}]
    BY <1>1, <1>2 DEF Adds
  <2> QED
    BY <2>1, <2>2
<1>5. S \in Q
  <2> Q \in SUBSET SUBSET S
    OBVIOUS
  <2> HIDE DEF Q
  <2> QED
    BY <1>3, <1>4, SubsetsBySize
<1> QED
  BY <1>1, <1>2, <1>5

\* The order in which a commit applies its writes has each of them once.
LEMMA OrderOfWrites ==
    ASSUME NEW S, IsFiniteSet(S)
    PROVE  /\ Len(SetToSeq(S)) \in Nat
           /\ Range(SetToSeq(S)) = S
           /\ \A k \in S : (CHOOSE i \in DOMAIN SetToSeq(S) : SetToSeq(S)[i] = k)
                             \in 1 .. Len(SetToSeq(S))
<1> DEFINE n == Cardinality(S)
           P(f) == f \in [1 .. n -> S] /\ IsInjective(f)
           q == SetToSeq(S)
<1>1. n \in Nat /\ ExistsBijection(1 .. n, S)
  BY FS_CardinalityType
<1>2. PICK f : f \in Bijection(1 .. n, S)
  BY <1>1 DEF ExistsBijection
<1>3. f \in [1 .. n -> S] /\ IsInjective(f)
  BY <1>2 DEF Bijection, Injection
<1>4. q \in [1 .. n -> S] /\ IsInjective(q)
  BY <1>3 DEF SetToSeq
<1>5. q \in Injection(1 .. n, S)
  BY <1>4 DEF Injection
<1>6. IsFiniteSet(1 .. n) /\ Cardinality(1 .. n) = n
  BY <1>1, FS_Interval
<1>7. q \in Surjection(1 .. n, S)
  BY <1>5, <1>6, FS_Injection
<1>8. \A k \in S : \E i \in 1 .. n : q[i] = k
  BY <1>7 DEF Surjection
<1>9. DOMAIN q = 1 .. n /\ Len(q) = n
  BY <1>1, <1>4
<1> HIDE DEF q, n
<1>10. Range(q) = S
  BY <1>4, <1>8, <1>9 DEF Range
<1>11. \A k \in S : (CHOOSE i \in DOMAIN q : q[i] = k) \in 1 .. n
  BY <1>8, <1>9
<1> QED
  BY <1>1, <1>9, <1>10, <1>11 DEF q

----------------------------------------------------------------------------
(* The inductive invariant                                                 *)

TxStates == [pc : Nat, acc : Nat, base : Nat, outcome : {"open", "committed", "failed"},
             reads : [StoreKeys -> Nat \cup {Unread}],
             writes : [StoreKeys -> Nat \cup {Unwritten}]]

KVTypeOK ==
    /\ backend \in {"inmemory", "pebble", "leveldb"} /\ Suits(backend)
    /\ data \in [StoreKeys -> [val : Nat, version : Nat]]
    /\ nextVersion \in Nat
    /\ wtx \in [Txs -> TxStates]

Running(t) == wtx[t].pc > 0

\* A transaction that does not run is new or has its outcome; a running one has
\* none, and holds the lock if the database needs it.
PhaseOK(t) ==
    /\ wtx[t].pc <= Len(Ops(t)) + 1
    /\ Running(t) => wtx[t].outcome = "open"
    /\ ~Running(t) /\ wtx[t].outcome = "open" => wtx[t] = NewTx
    /\ Running(t) /\ backend # "inmemory" => globalLock = t

\* Versions only grow, and a permanent key has a value.
KeyOK(k) ==
    /\ data[k].version <= nextVersion
    /\ \A t \in Txs : wtx[t].reads[k] <= data[k].version
    /\ Permanent(k) => data[k].val # Deleted

\* A deletion among the writes of a transaction is one of its program's, not set
\* again since; the in-memory database records every key that is touched.
WritesOK(t) ==
    \A k \in StoreKeys :
        /\ wtx[t].writes[k] = Deleted =>
               \E i \in 1 .. wtx[t].pc - 1 :
                   Deletes(t, i, k) /\ \A m \in i + 1 .. wtx[t].pc - 1 : ~Sets(t, m, k)
        /\ backend = "inmemory" =>
               /\ wtx[t].writes[k] # Unwritten => wtx[t].reads[k] # Unread
               /\ \A i \in 1 .. wtx[t].pc - 1 : Touches(t, i, k) => wtx[t].reads[k] # Unread

\* The contents C look to t like the database: in what it has recorded, or all of
\* it when it holds the lock.
Agrees(t, C) ==
    \A k \in StoreKeys : (backend # "inmemory" \/ wtx[t].reads[k] # Unread) => C[k] = data[k].val

Overlay(t, C) == [k \in StoreKeys |-> IF wtx[t].writes[k] = Unwritten THEN C[k] ELSE wtx[t].writes[k]]

Contents == [StoreKeys -> Nat]

\* A running transaction that would not be refused has done what its program
\* does to all contents that look the same to it, one operation after the other.
Simulates(t) ==
    Running(t) /\ ~Conflict(t) =>
        \A C \in Contents : Agrees(t, C) =>
            Abstract!After(t, C)[wtx[t].pc - 1] = [view |-> Overlay(t, C), acc |-> wtx[t].acc]

KVInv ==
    /\ KVTypeOK
    /\ \A t \in Txs : PhaseOK(t) /\ WritesOK(t) /\ Simulates(t)
    /\ \A k \in StoreKeys : KeyOK(k)

\* The state of a transaction.
LEMMA TxTypes ==
    ASSUME KVTypeOK, NEW t \in Txs
    PROVE  /\ wtx[t] \in TxStates
           /\ wtx[t].pc \in Nat /\ wtx[t].acc \in Nat /\ wtx[t].base \in Nat
           /\ wtx[t].reads \in [StoreKeys -> Nat \cup {Unread}]
           /\ wtx[t].writes \in [StoreKeys -> Nat \cup {Unwritten}]
           /\ \A k \in StoreKeys : /\ data[k].val \in Nat /\ data[k].version \in Nat
                                   /\ wtx[t].reads[k] \in Nat \cup {Unread}
                                   /\ wtx[t].writes[k] \in Nat \cup {Unwritten}
<1>1. wtx[t] \in TxStates
  BY DEF KVTypeOK
<1>2. /\ wtx[t].pc \in Nat /\ wtx[t].acc \in Nat /\ wtx[t].base \in Nat
      /\ wtx[t].reads \in [StoreKeys -> Nat \cup {Unread}]
      /\ wtx[t].writes \in [StoreKeys -> Nat \cup {Unwritten}]
  BY <1>1 DEF TxStates
<1>3. \A k \in StoreKeys : data[k].val \in Nat /\ data[k].version \in Nat
  BY DEF KVTypeOK
<1> QED
  BY <1>1, <1>2, <1>3

\* The values a new transaction has.
LEMMA NewTxTypes == NewTx \in TxStates /\ NewTx.pc = 0 /\ NewTx.acc = 0
BY DEF NewTx, TxStates, Unread, Unwritten

\* The invariant holds at first.
LEMMA KVInitially == KVInit /\ Suits(backend) => KVInv
<1> SUFFICES ASSUME KVInit, Suits(backend) PROVE KVInv
  OBVIOUS
<1>1. KVTypeOK
  BY NewTxTypes, KVAssumption DEF KVInit, KVTypeOK
<1>2. \A t \in Txs : wtx[t] = NewTx /\ wtx[t].pc = 0
  BY NewTxTypes DEF KVInit
<1>3. \A t \in Txs : PhaseOK(t) /\ Simulates(t)
  BY <1>2, ProgramTypes DEF PhaseOK, Simulates, Running
<1>4. \A t \in Txs : WritesOK(t)
  BY <1>2 DEF WritesOK, NewTx, Unwritten, Deleted
<1>5. \A k \in StoreKeys : KeyOK(k)
  <2> SUFFICES ASSUME NEW k \in StoreKeys PROVE KeyOK(k)
    OBVIOUS
  <2>1. data[k].version = 0 /\ data[k].val = Initially[k] /\ nextVersion = 0
    BY DEF KVInit
  <2>2. \A t \in Txs : wtx[t].reads[k] = Unread
    BY <1>2 DEF NewTx
  <2> QED
    BY <2>1, <2>2 DEF KeyOK, Unread, Permanent
<1> QED
  BY <1>1, <1>3, <1>4, <1>5 DEF KVInv

----------------------------------------------------------------------------
(* A step of one transaction on its own                                    *)

\* Transaction t takes a step that leaves the database alone: it goes from x to
\* new, and the others stay as they are.
Alone(t, new) ==
    /\ wtx' = [wtx EXCEPT ![t] = new]
    /\ UNCHANGED <<backend, data, nextVersion>>

\* What such a step must provide for its own transaction keeps the invariant.
LEMMA OwnStep ==
    ASSUME KVInv, NEW t \in Txs, NEW new \in TxStates, Alone(t, new),
           PhaseOK(t)', WritesOK(t)', Simulates(t)',
           \A u \in Txs \ {t} : Running(u) /\ backend # "inmemory" => globalLock' = u,
           \A k \in StoreKeys : new.reads[k] <= data[k].version
    PROVE  KVInv'
<1>1. KVTypeOK'
  BY DEF KVInv, KVTypeOK, Alone
<1>2. \A u \in Txs \ {t} : wtx'[u] = wtx[u]
  BY DEF KVInv, KVTypeOK, Alone
<1>3. wtx'[t] = new
  BY DEF KVInv, KVTypeOK, Alone
<1>4. \A u \in Txs \ {t} : PhaseOK(u)'
  BY <1>2 DEF KVInv, PhaseOK, Running, Alone
<1>5. \A u \in Txs \ {t} : WritesOK(u)'
  BY <1>2 DEF KVInv, WritesOK, Alone
<1>6. \A u \in Txs \ {t} : Simulates(u)'
  <2> SUFFICES ASSUME NEW u \in Txs \ {t} PROVE Simulates(u)'
    OBVIOUS
  <2>1. wtx'[u] = wtx[u] /\ data' = data /\ backend' = backend
    BY <1>2 DEF Alone
  <2>2. Simulates(u)
    BY DEF KVInv
  <2>3. (Conflict(u)' <=> Conflict(u)) /\ (Running(u)' <=> Running(u))
    BY <2>1 DEF Conflict, Running
  <2>4. \A C \in Contents : (Agrees(u, C)' <=> Agrees(u, C)) /\ Overlay(u, C)' = Overlay(u, C)
    BY <2>1 DEF Agrees, Overlay
  <2> QED
    BY <2>1, <2>2, <2>3, <2>4 DEF Simulates
<1>7. \A k \in StoreKeys : KeyOK(k)'
  BY <1>2, <1>3 DEF KVInv, KeyOK, Alone
<1> QED
  BY <1>1, <1>4, <1>5, <1>6, <1>7 DEF KVInv

\* What recordRead does to the state of a transaction.
LEMMA RecordReadOK ==
    ASSUME KVTypeOK, NEW t \in Txs, NEW keys
    PROVE  LET x == wtx[t]
               y == RecordRead(x, keys)
           IN  /\ y \in TxStates
               /\ y.pc = x.pc /\ y.acc = x.acc /\ y.base = x.base /\ y.outcome = x.outcome
               /\ y.writes = x.writes
               /\ \A k \in StoreKeys : y.reads[k] =
                    IF backend = "inmemory" /\ k \in keys /\ x.reads[k] = Unread
                    THEN data[k].version ELSE x.reads[k]
<1> DEFINE x == wtx[t]
           r == [k \in StoreKeys |->
                    IF k \in keys /\ x.reads[k] = Unread THEN data[k].version ELSE x.reads[k]]
<1>1. x \in TxStates
  BY TxTypes
<1>2. r \in [StoreKeys -> Nat \cup {Unread}]
  BY TxTypes
<1>3. CASE backend # "inmemory"
  BY <1>1, <1>3 DEF RecordRead
<1>4. CASE backend = "inmemory"
  <2>1. RecordRead(x, keys) = [x EXCEPT !.reads = r]
    BY <1>4 DEF RecordRead
  <2> HIDE DEF r
  <2>2. [x EXCEPT !.reads = r] \in TxStates
    BY <1>1, <1>2 DEF TxStates
  <2>3. LET y == [x EXCEPT !.reads = r]
        IN  /\ y.pc = x.pc /\ y.acc = x.acc /\ y.base = x.base /\ y.outcome = x.outcome
            /\ y.writes = x.writes /\ y.reads = r
    BY <1>1 DEF TxStates
  <2> QED
    BY <1>4, <2>1, <2>2, <2>3 DEF r
<1> QED
  BY <1>3, <1>4

\* Transaction t performs an operation: it records the reads of some keys, its
\* writes become w and its last reading a.
Operates(t, keys, w, a) ==
    /\ wtx[t].pc \in DOMAIN Ops(t) /\ wtx[t].outcome = "open"
    /\ UNCHANGED <<backend, data, nextVersion, globalLock>>
    /\ wtx' = [wtx EXCEPT ![t] =
                [pc |-> wtx[t].pc + 1, acc |-> a, base |-> wtx[t].base, outcome |-> "open",
                 reads |-> RecordRead(wtx[t], keys).reads, writes |-> w]]

\* What is the same for all operations.
LEMMA OperatesOK ==
    ASSUME KVInv, NEW t \in Txs, NEW keys, NEW a \in Nat,
           NEW w \in [StoreKeys -> Nat \cup {Unwritten}], Operates(t, keys, w, a)
    PROVE  /\ wtx[t].pc \in 1 .. Len(Ops(t)) /\ Running(t)
           /\ wtx'[t].pc = wtx[t].pc + 1 /\ wtx'[t].writes = w /\ wtx'[t].acc = a
           /\ \A k \in StoreKeys : wtx'[t].reads[k] =
                    IF backend = "inmemory" /\ k \in keys /\ wtx[t].reads[k] = Unread
                    THEN data[k].version ELSE wtx[t].reads[k]
           /\ wtx'[t] \in TxStates
           /\ Alone(t, wtx'[t])
           /\ ~Conflict(t)' => ~Conflict(t)
           /\ \A C : Agrees(t, C)' => Agrees(t, C)
<1> DEFINE x == wtx[t]
           new == [pc |-> x.pc + 1, acc |-> a, base |-> x.base, outcome |-> "open",
                   reads |-> RecordRead(x, keys).reads, writes |-> w]
<1>1. KVTypeOK
  BY DEF KVInv
<1>2. wtx'[t] = new
  BY <1>1 DEF Operates, KVTypeOK
<1>3. x.pc \in 1 .. Len(Ops(t)) /\ Running(t)
  BY ProgramTypes DEF Operates, Running
<1>4. /\ x.base \in Nat /\ RecordRead(x, keys).reads \in [StoreKeys -> Nat \cup {Unread}]
      /\ \A k \in StoreKeys : RecordRead(x, keys).reads[k] =
                    IF backend = "inmemory" /\ k \in keys /\ x.reads[k] = Unread
                    THEN data[k].version ELSE x.reads[k]
  <2>1. x.base \in Nat
    BY <1>1, TxTypes
  <2>2. RecordRead(x, keys) \in TxStates
    BY <1>1, RecordReadOK
  <2>3. RecordRead(x, keys).reads \in [StoreKeys -> Nat \cup {Unread}]
    BY <2>2 DEF TxStates
  <2>4. \A k \in StoreKeys : RecordRead(x, keys).reads[k] =
                    IF backend = "inmemory" /\ k \in keys /\ x.reads[k] = Unread
                    THEN data[k].version ELSE x.reads[k]
    BY <1>1, RecordReadOK
  <2> QED
    BY <2>1, <2>3, <2>4
<1>5. new \in TxStates
  BY <1>3, <1>4, ProgramTypes DEF TxStates
<1>6. Alone(t, wtx'[t])
  BY <1>2 DEF Operates, Alone
<1>7. /\ wtx'[t].base = x.base /\ data' = data /\ backend' = backend
      /\ \A k \in StoreKeys : wtx'[t].reads[k] =
                    IF backend = "inmemory" /\ k \in keys /\ x.reads[k] = Unread
                    THEN data[k].version ELSE x.reads[k]
  BY <1>2, <1>4 DEF Operates
<1>8. ~Conflict(t)' => ~Conflict(t)
  BY <1>7 DEF Conflict
<1>9. \A C : Agrees(t, C)' => Agrees(t, C)
  BY <1>7 DEF Agrees
<1> QED
  BY <1>2, <1>3, <1>5, <1>6, <1>7, <1>8, <1>9

\* An operation that does what its effect on the contents is keeps the invariant.
LEMMA OperationKeeps ==
    ASSUME KVInv, NEW t \in Txs, NEW keys, NEW a \in Nat,
           NEW w \in [StoreKeys -> Nat \cup {Unwritten}], Operates(t, keys, w, a),
           WritesOK(t)',
           \A C \in Contents : Agrees(t, C)' =>
               Abstract!Effect(t, wtx[t].pc, [view |-> Overlay(t, C), acc |-> wtx[t].acc])
                   = [view |-> Overlay(t, C)', acc |-> a]
    PROVE  KVInv'
<1>1. KVTypeOK /\ PhaseOK(t) /\ Simulates(t)
  BY DEF KVInv
<1>a. wtx[t].pc \in 1 .. Len(Ops(t)) /\ wtx'[t].pc = wtx[t].pc + 1 /\ wtx'[t].acc = a
  BY OperatesOK
<1>b. \A k \in StoreKeys : wtx'[t].reads[k] =
                    IF backend = "inmemory" /\ k \in keys /\ wtx[t].reads[k] = Unread
                    THEN data[k].version ELSE wtx[t].reads[k]
  BY OperatesOK
<1>2. PhaseOK(t)'
  <2>1. wtx'[t].pc \in 1 .. Len(Ops(t)) + 1 /\ wtx'[t].outcome = "open"
    BY <1>1, OperatesOK, ProgramTypes DEF Operates, KVTypeOK
  <2>2. backend # "inmemory" => globalLock' = t
    BY <1>1, OperatesOK DEF PhaseOK, Operates
  <2> QED
    BY <2>1, <2>2, ProgramTypes DEF PhaseOK, Running, Operates
<1>3. Simulates(t)'
  <2> SUFFICES ASSUME ~Conflict(t)', NEW C \in Contents, Agrees(t, C)'
               PROVE  Abstract!After(t, C)[wtx'[t].pc - 1] = [view |-> Overlay(t, C)', acc |-> wtx'[t].acc]
    BY DEF Simulates
  <2>1. Abstract!After(t, C)[wtx[t].pc - 1] = [view |-> Overlay(t, C), acc |-> wtx[t].acc]
    BY <1>1, OperatesOK DEF Simulates
  <2>2. Abstract!After(t, C)[wtx[t].pc]
            = Abstract!Effect(t, wtx[t].pc, Abstract!After(t, C)[wtx[t].pc - 1])
    BY <1>a, AfterExists
  <2>3. wtx'[t].pc - 1 = wtx[t].pc /\ wtx'[t].acc = a
    BY <1>a, ProgramTypes
  <2> QED
    BY <2>1, <2>2, <2>3
<1>4. \A k \in StoreKeys : wtx'[t].reads[k] <= data[k].version
  BY <1>1, <1>b, TxTypes DEF KVInv, KeyOK
<1>5. \A u \in Txs \ {t} : Running(u) /\ backend # "inmemory" => globalLock' = u
  BY DEF KVInv, PhaseOK, Operates
<1> QED
  BY <1>2, <1>3, <1>4, <1>5, OperatesOK, OwnStep

\* The writes of a transaction after an operation.
LEMMA OperationWrites ==
    ASSUME KVInv, NEW t \in Txs, NEW keys, NEW a \in Nat,
           NEW w \in [StoreKeys -> Nat \cup {Unwritten}], Operates(t, keys, w, a),
           \A k \in StoreKeys :
               /\ w[k] = Deleted => \/ Deletes(t, wtx[t].pc, k)
                                    \/ wtx[t].writes[k] = Deleted /\ ~Sets(t, wtx[t].pc, k)
               /\ w[k] # Unwritten => k \in keys \/ wtx[t].writes[k] # Unwritten
               /\ Touches(t, wtx[t].pc, k) => k \in keys \/ wtx[t].writes[k] # Unwritten
    PROVE  WritesOK(t)'
<1> DEFINE n == wtx[t].pc
<1>1. KVTypeOK /\ WritesOK(t)
  BY DEF KVInv
<1>2. n \in 1 .. Len(Ops(t)) /\ wtx'[t].pc = n + 1 /\ wtx'[t].writes = w
  BY OperatesOK
<1>3. \A k \in StoreKeys : wtx'[t].reads[k] =
                    IF backend = "inmemory" /\ k \in keys /\ wtx[t].reads[k] = Unread
                    THEN data[k].version ELSE wtx[t].reads[k]
  BY OperatesOK
<1>4. n \in Nat /\ backend' = backend
  BY <1>1, TxTypes DEF Operates
<1> SUFFICES ASSUME NEW k \in StoreKeys
             PROVE  /\ w[k] = Deleted => \E i \in 1 .. n :
                                Deletes(t, i, k) /\ \A m \in i + 1 .. n : ~Sets(t, m, k)
                    /\ backend = "inmemory" =>
                         /\ w[k] # Unwritten => wtx'[t].reads[k] # Unread
                         /\ \A i \in 1 .. n : Touches(t, i, k) => wtx'[t].reads[k] # Unread
  BY <1>2, <1>4 DEF WritesOK
<1>5. ASSUME w[k] = Deleted
      PROVE  \E i \in 1 .. n : Deletes(t, i, k) /\ \A m \in i + 1 .. n : ~Sets(t, m, k)
  <2>1. CASE Deletes(t, n, k)
    BY <1>2, <1>4, <2>1
  <2>2. CASE wtx[t].writes[k] = Deleted /\ ~Sets(t, n, k)
    <3>1. PICK i \in 1 .. n - 1 : Deletes(t, i, k) /\ \A m \in i + 1 .. n - 1 : ~Sets(t, m, k)
      BY <1>1, <2>2 DEF WritesOK
    <3>2. i \in 1 .. n /\ \A m \in i + 1 .. n : m \in i + 1 .. n - 1 \/ m = n
      BY <1>4
    <3> QED
      BY <2>2, <3>1, <3>2
  <2> QED
    BY <1>5, <2>1, <2>2
<1>6. ASSUME backend = "inmemory"
      PROVE  /\ w[k] # Unwritten => wtx'[t].reads[k] # Unread
             /\ \A i \in 1 .. n : Touches(t, i, k) => wtx'[t].reads[k] # Unread
  <2>1. data[k].version # Unread
    BY <1>1, TxTypes DEF Unread
  <2>2. k \in keys \/ wtx[t].reads[k] # Unread => wtx'[t].reads[k] # Unread
    BY <1>3, <1>6, <2>1
  <2>3. wtx[t].writes[k] # Unwritten => wtx[t].reads[k] # Unread
    BY <1>1, <1>6 DEF WritesOK
  <2>4. \A i \in 1 .. n - 1 : Touches(t, i, k) => wtx[t].reads[k] # Unread
    BY <1>1, <1>6 DEF WritesOK
  <2>5. \A i \in 1 .. n : i \in 1 .. n - 1 \/ i = n
    BY <1>4
  <2> QED
    BY <2>2, <2>3, <2>4, <2>5
<1> QED
  BY <1>5, <1>6

\* On LevelDB a transaction does not read what it has deleted.
LEMMA NothingDeletedRead ==
    ASSUME KVInv, NEW t \in Txs, wtx[t].pc \in DOMAIN Ops(t), NEW k \in StoreKeys,
           Reads(t, wtx[t].pc, k), backend = "leveldb"
    PROVE  wtx[t].writes[k] # Deleted
<1> SUFFICES ASSUME wtx[t].writes[k] = Deleted PROVE FALSE
  OBVIOUS
<1>1. NoReadAfterDelete
  BY DEF KVInv, KVTypeOK, Suits
<1>2. PICK i \in 1 .. wtx[t].pc - 1 :
        Deletes(t, i, k) /\ \A m \in i + 1 .. wtx[t].pc - 1 : ~Sets(t, m, k)
  BY DEF KVInv, WritesOK
<1> QED
  BY <1>1, <1>2 DEF NoReadAfterDelete

\* What a transaction sees of a key, if it would be recorded, is what it would
\* see in contents that agree.
LEMMA SeesTheSame ==
    ASSUME KVInv, NEW t \in Txs, wtx[t].pc \in DOMAIN Ops(t), NEW k \in StoreKeys,
           Reads(t, wtx[t].pc, k), NEW C,
           wtx[t].writes[k] = Unwritten => C[k] = data[k].val
    PROVE  Overlay(t, C)[k] = View(wtx[t], k)
BY NothingDeletedRead DEF Overlay, View

\* The new state of a transaction, as an operation writes it.
LEMMA AdvanceOperates ==
    ASSUME KVTypeOK, NEW t \in Txs, NEW keys, NEW y \in TxStates,
           wtx[t].pc \in DOMAIN Ops(t), wtx[t].outcome = "open",
           UNCHANGED <<backend, data, nextVersion, globalLock>>,
           Advance(t, y),
           y.pc = wtx[t].pc, y.base = wtx[t].base, y.outcome = "open",
           y.reads = RecordRead(wtx[t], keys).reads
    PROVE  Operates(t, keys, y.writes, y.acc)
<1>1. [y EXCEPT !.pc = @ + 1] =
        [pc |-> wtx[t].pc + 1, acc |-> y.acc, base |-> wtx[t].base, outcome |-> "open",
         reads |-> RecordRead(wtx[t], keys).reads, writes |-> y.writes]
  BY DEF TxStates
<1> QED
  BY <1>1 DEF Operates, Advance

----------------------------------------------------------------------------
(* The steps keep the invariant                                            *)

\* What an operation does to the state of its transaction, besides recording.
LEMMA NewStates ==
    ASSUME NEW x \in TxStates, NEW a \in Nat, NEW k \in StoreKeys
    PROVE  /\ [x EXCEPT !.acc = a] \in TxStates
           /\ [x EXCEPT !.acc = a].pc = x.pc /\ [x EXCEPT !.acc = a].acc = a
           /\ [x EXCEPT !.acc = a].base = x.base /\ [x EXCEPT !.acc = a].outcome = x.outcome
           /\ [x EXCEPT !.acc = a].reads = x.reads /\ [x EXCEPT !.acc = a].writes = x.writes
           /\ [x EXCEPT !.writes[k] = a] \in TxStates
           /\ [x EXCEPT !.writes[k] = a].pc = x.pc /\ [x EXCEPT !.writes[k] = a].acc = x.acc
           /\ [x EXCEPT !.writes[k] = a].base = x.base
           /\ [x EXCEPT !.writes[k] = a].outcome = x.outcome
           /\ [x EXCEPT !.writes[k] = a].reads = x.reads
           /\ [x EXCEPT !.writes[k] = a].writes = [x.writes EXCEPT ![k] = a]
<1> DEFINE w == [x.writes EXCEPT ![k] = a]
<1>1. /\ [x EXCEPT !.acc = a] \in TxStates
      /\ [x EXCEPT !.acc = a].pc = x.pc /\ [x EXCEPT !.acc = a].acc = a
      /\ [x EXCEPT !.acc = a].base = x.base /\ [x EXCEPT !.acc = a].outcome = x.outcome
      /\ [x EXCEPT !.acc = a].reads = x.reads /\ [x EXCEPT !.acc = a].writes = x.writes
  BY DEF TxStates
<1>2. [x EXCEPT !.writes[k] = a] = [x EXCEPT !.writes = w]
  BY DEF TxStates
<1>3. w \in [StoreKeys -> Nat \cup {Unwritten}]
  BY DEF TxStates
<1> HIDE DEF w
<1>4. /\ [x EXCEPT !.writes = w] \in TxStates
      /\ [x EXCEPT !.writes = w].pc = x.pc /\ [x EXCEPT !.writes = w].acc = x.acc
      /\ [x EXCEPT !.writes = w].base = x.base
      /\ [x EXCEPT !.writes = w].outcome = x.outcome
      /\ [x EXCEPT !.writes = w].reads = x.reads
      /\ [x EXCEPT !.writes = w].writes = w
  BY <1>3 DEF TxStates
<1> QED
  BY <1>1, <1>2, <1>4 DEF w

\* The step of an operation that reads keys and has a as its last reading.
LEMMA ReadingOperates ==
    ASSUME KVInv, NEW t \in Txs, NEW keys, NEW a \in Nat,
           wtx[t].pc \in DOMAIN Ops(t), wtx[t].outcome = "open",
           UNCHANGED <<backend, data, nextVersion, globalLock>>,
           Advance(t, [RecordRead(wtx[t], keys) EXCEPT !.acc = a])
    PROVE  Operates(t, keys, wtx[t].writes, a)
<1> DEFINE x == RecordRead(wtx[t], keys)
           y == [x EXCEPT !.acc = a]
<1>1. KVTypeOK
  BY DEF KVInv
<1>2. x \in TxStates /\ x.pc = wtx[t].pc /\ x.base = wtx[t].base /\ x.outcome = "open"
        /\ x.writes = wtx[t].writes
  BY <1>1, RecordReadOK
<1> HIDE DEF x
<1>3. y \in TxStates /\ y.pc = x.pc /\ y.acc = a /\ y.base = x.base /\ y.outcome = x.outcome
        /\ y.reads = x.reads /\ y.writes = x.writes
  BY <1>2, NewStates DEF TxStates
<1> HIDE DEF y
<1>4. Advance(t, y)
  BY DEF x, y
<1>5. Operates(t, keys, y.writes, y.acc)
  BY <1>1, <1>2, <1>3, <1>4, AdvanceOperates DEF x
<1> QED
  BY <1>2, <1>3, <1>5

\* An operation that reads, with the key it gets or the keys it iterates over
\* recorded, keeps the invariant if its reading is the effect's.
LEMMA ReadingKeeps ==
    ASSUME KVInv, NEW t \in Txs, NEW keys, NEW a \in Nat,
           Operates(t, keys, wtx[t].writes, a),
           Op(t).op \in {"get", "iterate"},
           Op(t).op = "get" => Key(t) \in keys \/ wtx[t].writes[Key(t)] # Unwritten,
           \A C \in Contents : Agrees(t, C)' =>
               Abstract!Effect(t, wtx[t].pc, [view |-> Overlay(t, C), acc |-> wtx[t].acc])
                   = [view |-> Overlay(t, C), acc |-> a]
    PROVE  KVInv'
<1>1. wtx[t].writes \in [StoreKeys -> Nat \cup {Unwritten}]
  BY TxTypes DEF KVInv
<1>2. \A k \in StoreKeys :
        /\ ~Sets(t, wtx[t].pc, k)
        /\ Touches(t, wtx[t].pc, k) => k \in keys \/ wtx[t].writes[k] # Unwritten
  BY DEF Sets, Touches, Op, Key
<1>3. WritesOK(t)'
  BY <1>1, <1>2, OperationWrites
<1>4. wtx'[t].writes = wtx[t].writes
  BY <1>1, OperatesOK
<1>5. \A C \in Contents : Overlay(t, C)' = Overlay(t, C)
  BY <1>4 DEF Overlay
<1> QED
  BY <1>1, <1>3, <1>5, OperationKeeps

\* The effects of the operations.
LEMMA Effects ==
    ASSUME NEW t \in Txs, wtx[t].pc \in DOMAIN Ops(t), NEW v \in [StoreKeys -> Nat], NEW a
    PROVE  LET E == Abstract!Effect(t, wtx[t].pc, [view |-> v, acc |-> a])
           IN  /\ Op(t).op = "get" => E = [view |-> v, acc |-> v[Key(t)]]
               /\ Op(t).op = "iterate" => E = [view |-> v,
                    acc |-> SumFunctionOnSet(v, {k \in StoreKeys : k[1] = Program[t].prefix})]
               /\ Op(t).op = "set" => E = [view |-> [v EXCEPT ![Key(t)] = a + 1], acc |-> a]
               /\ Op(t).op = "delete" => E = [view |-> [v EXCEPT ![Key(t)] = Deleted], acc |-> a]
<1> DEFINE o == Program[t].ops[wtx[t].pc]
           key == <<Program[t].prefix, o.key>>
           b == [view |-> v, acc |-> a]
           E == Abstract!Effect(t, wtx[t].pc, b)
<1>1. Op(t) = o /\ Key(t) = key
  BY DEF Op, Ops, Key, PrefixSlice
<1>2. /\ o.op = "get" => E = [b EXCEPT !.acc = b.view[key]]
      /\ o.op = "iterate" => E = [b EXCEPT !.acc = Abstract!Total(b.view, key[1])]
      /\ o.op = "set" => E = [b EXCEPT !.view[key] = b.acc + 1]
      /\ o.op = "delete" => E = [b EXCEPT !.view[key] = Abstract!NoValue]
  BY DEF Abstract!Effect
<1> HIDE DEF E, o
<1>3. Abstract!NoValue = Deleted
  BY DEF Abstract!NoValue, Deleted
<1>4. Abstract!Total(v, key[1]) = SumFunctionOnSet(v, {k \in StoreKeys : k[1] = Program[t].prefix})
  <2> DEFINE mine == {k \in StoreKeys : k[1] = Program[t].prefix}
  <2>1. {k \in DOMAIN v : k[1] = key[1]} = mine
    OBVIOUS
  <2>2. Abstract!Total(v, key[1]) = Abstract!SumFunctionOnSet(v, mine)
    BY <2>1 DEF Abstract!Total
  <2> HIDE DEF mine
  <2>3. Abstract!SumFunctionOnSet(v, mine) = SumFunctionOnSet(v, mine)
    BY DEF SumFunctionOnSet, FoldFunctionOnSet, MapThenFoldSet,
           Abstract!SumFunctionOnSet, Abstract!FoldFunctionOnSet, Abstract!MapThenFoldSet
  <2> QED
    BY <2>2, <2>3 DEF mine
<1>5. CASE o.op = "get"
  BY <1>1, <1>2, <1>5 DEF E
<1>6. CASE o.op = "iterate"
  <2>1. E = [b EXCEPT !.acc = Abstract!Total(v, key[1])]
    BY <1>2, <1>6
  <2> DEFINE T == Abstract!Total(v, key[1])
  <2> HIDE DEF T
  <2>2. [b EXCEPT !.acc = T] = [view |-> v, acc |-> T]
    OBVIOUS
  <2> QED
    BY <1>1, <1>4, <1>6, <2>1, <2>2 DEF E, T
<1>7. CASE o.op = "set"
  BY <1>1, <1>2, <1>7 DEF E
<1>8. CASE o.op = "delete"
  BY <1>1, <1>2, <1>3, <1>8 DEF E
<1>9. Op(t).op \in {"get", "iterate", "set", "delete"}
  BY ProgramTypes DEF Op
<1> QED
  BY <1>1, <1>5, <1>6, <1>7, <1>8, <1>9

\* The contents that an overlay makes.
LEMMA OverlayType ==
    ASSUME KVTypeOK, NEW t \in Txs, NEW C \in Contents
    PROVE  Overlay(t, C) \in [StoreKeys -> Nat]
BY TxTypes DEF Overlay, Contents

\* Get keeps the invariant.
LEMMA GetKeeps == ASSUME KVInv, NEW t \in Txs, GetKey(t) PROVE KVInv'
<1> DEFINE keys == IF wtx[t].writes[Key(t)] = Unwritten THEN {Key(t)} ELSE {}
           a == View(wtx[t], Key(t))
<1>1. KVTypeOK
  BY DEF KVInv
<1>2. wtx[t].pc \in DOMAIN Ops(t) /\ wtx[t].outcome = "open" /\ Op(t).op = "get"
  BY DEF GetKey, AtOp
<1>3. Key(t) \in StoreKeys
  BY <1>2, ProgramTypes DEF Key, Op
<1>4. a \in Nat
  BY <1>1, <1>3, TxTypes DEF View
<1>5. RecordRead(wtx[t], {}) = wtx[t]
  <2>1. wtx[t] \in TxStates
    BY <1>1, TxTypes
  <2> QED
    BY <2>1 DEF RecordRead, TxStates
<1>6. Advance(t, [RecordRead(wtx[t], keys) EXCEPT !.acc = a])
  BY <1>5 DEF GetKey
<1>7. UNCHANGED <<backend, data, nextVersion, globalLock>>
  BY DEF GetKey
<1>8. Op(t).op = "get" => Key(t) \in keys \/ wtx[t].writes[Key(t)] # Unwritten
  OBVIOUS
<1> HIDE DEF a
<1>9. Operates(t, keys, wtx[t].writes, a)
  <2> HIDE DEF keys
  <2> QED
    BY <1>2, <1>4, <1>6, <1>7, ReadingOperates
<1>10. ASSUME NEW C \in Contents, Agrees(t, C)'
       PROVE  Abstract!Effect(t, wtx[t].pc, [view |-> Overlay(t, C), acc |-> wtx[t].acc])
                = [view |-> Overlay(t, C), acc |-> a]
  <2>1. wtx[t].writes \in [StoreKeys -> Nat \cup {Unwritten}]
    BY <1>1, TxTypes
  <2>2. wtx'[t].reads[Key(t)] =
                    IF backend = "inmemory" /\ Key(t) \in keys /\ wtx[t].reads[Key(t)] = Unread
                    THEN data[Key(t)].version ELSE wtx[t].reads[Key(t)]
    <3> HIDE DEF keys
    <3> QED
      BY <1>3, <1>4, <1>9, <2>1, OperatesOK
  <2>3. data[Key(t)].version # Unread
    BY <1>1, <1>3, TxTypes DEF Unread
  <2>4. wtx[t].writes[Key(t)] = Unwritten => C[Key(t)] = data[Key(t)].val
    BY <1>3, <1>7, <1>10, <2>2, <2>3 DEF Agrees
  <2>5. Reads(t, wtx[t].pc, Key(t))
    BY <1>2 DEF Reads, Touches, Op, Key
  <2>6. Overlay(t, C)[Key(t)] = a
    BY <1>2, <1>3, <2>4, <2>5, SeesTheSame DEF a
  <2> QED
    BY <1>1, <1>2, <1>10, <2>6, OverlayType, Effects
<1> QED
  <2> HIDE DEF keys
  <2> QED
    BY <1>2, <1>4, <1>8, <1>9, <1>10, ReadingKeeps

\* Iterate keeps the invariant: what it reads is recorded, because it is there or
\* because the transaction has touched it before.
LEMMA IterateKeeps == ASSUME KVInv, NEW t \in Txs, Iterate(t) PROVE KVInv'
<1> DEFINE mine == {k \in StoreKeys : k[1] = Program[t].prefix}
           there == {k \in mine : data[k].val # Deleted}
           f == [k \in StoreKeys |-> View(wtx[t], k)]
           a == SumFunctionOnSet(f, mine)
<1>1. KVTypeOK
  BY DEF KVInv
<1>2. wtx[t].pc \in DOMAIN Ops(t) /\ wtx[t].outcome = "open" /\ Op(t).op = "iterate"
  BY DEF Iterate, AtOp
<1>3. \A k \in mine : f[k] \in Nat
  BY <1>1, TxTypes DEF View
<1>4. IsFiniteSet(mine)
  BY KVAssumption, FS_Subset
<1>5. Advance(t, [RecordRead(wtx[t], there) EXCEPT !.acc = a])
        /\ UNCHANGED <<backend, data, nextVersion, globalLock>>
  BY DEF Iterate
<1>6. a \in Nat
  <2> HIDE DEF f, mine
  <2> QED
    BY <1>3, <1>4, SumIsNat
<1> HIDE DEF a
<1>7. Operates(t, there, wtx[t].writes, a)
  <2> HIDE DEF there
  <2> QED
    BY <1>2, <1>5, <1>6, ReadingOperates
<1>8. ASSUME NEW C \in Contents, Agrees(t, C)'
      PROVE  Abstract!Effect(t, wtx[t].pc, [view |-> Overlay(t, C), acc |-> wtx[t].acc])
               = [view |-> Overlay(t, C), acc |-> a]
  <2>1. wtx[t].writes \in [StoreKeys -> Nat \cup {Unwritten}]
    BY <1>1, TxTypes
  <2>2. \A k \in StoreKeys : wtx'[t].reads[k] =
                    IF backend = "inmemory" /\ k \in there /\ wtx[t].reads[k] = Unread
                    THEN data[k].version ELSE wtx[t].reads[k]
    <3> HIDE DEF there
    <3> QED
      BY <1>6, <1>7, <2>1, OperatesOK
  <2>3. ASSUME NEW k \in mine PROVE Overlay(t, C)[k] = f[k]
    <3>1. Covers(t, wtx[t].pc, k) /\ Reads(t, wtx[t].pc, k)
      BY <1>2 DEF Covers, Reads, Op
    <3>2. data[k].version # Unread
      BY <1>1, TxTypes DEF Unread
    <3>3. backend = "inmemory" => wtx'[t].reads[k] # Unread
      <4> SUFFICES ASSUME backend = "inmemory" PROVE wtx'[t].reads[k] # Unread
        OBVIOUS
      <4>1. CASE k \in there
        BY <2>2, <3>2, <4>1
      <4>2. CASE k \notin there
        <5>1. ~Permanent(k)
          BY <4>2 DEF KVInv, KeyOK
        <5>2. NoPhantom
          BY <1>1 DEF KVTypeOK, Suits
        <5>3. \E i \in 1 .. wtx[t].pc - 1 : Touches(t, i, k)
          BY <1>2, <3>1, <5>1, <5>2 DEF NoPhantom
        <5>4. wtx[t].reads[k] # Unread
          BY <5>3 DEF KVInv, WritesOK
        <5> QED
          BY <2>2, <4>2, <5>4
      <4> QED
        BY <4>1, <4>2
    <3>4. C[k] = data[k].val
      BY <1>5, <1>8, <3>3 DEF Agrees
    <3> QED
      BY <1>2, <3>1, <3>4, SeesTheSame
  <2>4. SumFunctionOnSet(f, mine) = SumFunctionOnSet(Overlay(t, C), mine)
    <3> HIDE DEF f, mine
    <3> QED
      BY <1>3, <1>4, <2>3, SumsAgree
  <2>5. Overlay(t, C) \in [StoreKeys -> Nat]
    BY <1>1, <1>8, OverlayType
  <2>6. Abstract!Effect(t, wtx[t].pc, [view |-> Overlay(t, C), acc |-> wtx[t].acc])
          = [view |-> Overlay(t, C), acc |-> SumFunctionOnSet(Overlay(t, C), mine)]
    BY <1>2, <2>5, Effects
  <2> QED
    BY <2>4, <2>6 DEF a
<1> QED
  <2> HIDE DEF there
  <2> QED
    BY <1>2, <1>6, <1>7, <1>8, ReadingKeeps

\* Set and Delete keep the invariant.
LEMMA WriteKeeps ==
    ASSUME KVInv, NEW t \in Txs, SetKey(t) \/ DeleteKey(t)
    PROVE  KVInv'
<1> DEFINE x == RecordRead(wtx[t], {Key(t)})
           val == IF Op(t).op = "set" THEN wtx[t].acc + 1 ELSE Deleted
           y == [x EXCEPT !.writes[Key(t)] = val]
           w == [wtx[t].writes EXCEPT ![Key(t)] = val]
<1>1. KVTypeOK
  BY DEF KVInv
<1>2. /\ wtx[t].pc \in DOMAIN Ops(t) /\ wtx[t].outcome = "open"
      /\ Op(t).op \in {"set", "delete"}
      /\ UNCHANGED <<backend, data, nextVersion, globalLock>>
  BY DEF SetKey, DeleteKey, Write, AtOp
<1>3. Advance(t, y)
  BY DEF SetKey, DeleteKey, Write, AtOp
<1>4. Key(t) \in StoreKeys
  BY <1>2, ProgramTypes DEF Key, Op
<1>5. val \in Nat /\ wtx[t].acc \in Nat /\ (val = Deleted => Op(t).op = "delete")
  BY <1>1, <1>2, TxTypes DEF Deleted
<1>6. x \in TxStates /\ x.pc = wtx[t].pc /\ x.base = wtx[t].base /\ x.outcome = wtx[t].outcome
        /\ x.acc = wtx[t].acc /\ x.writes = wtx[t].writes
  BY <1>1, RecordReadOK
<1> HIDE DEF val, x
<1>7. y \in TxStates /\ y.pc = x.pc /\ y.acc = x.acc /\ y.base = x.base /\ y.outcome = x.outcome
        /\ y.reads = x.reads /\ y.writes = [x.writes EXCEPT ![Key(t)] = val]
  <2> DEFINE k == Key(t)
             new == [x EXCEPT !.writes[k] = val]
  <2> HIDE DEF k
  <2>1. k \in StoreKeys
    BY <1>4 DEF k
  <2>2. new \in TxStates /\ new.pc = x.pc /\ new.acc = x.acc /\ new.base = x.base
          /\ new.outcome = x.outcome /\ new.reads = x.reads
          /\ new.writes = [x.writes EXCEPT ![k] = val]
    BY <1>5, <1>6, <2>1, NewStates, ZenonT(30)
  <2> QED
    BY <2>2 DEF k
<1> HIDE DEF y
<1>8. Operates(t, {Key(t)}, y.writes, y.acc)
  BY <1>1, <1>2, <1>3, <1>6, <1>7, AdvanceOperates DEF x
<1>9. Operates(t, {Key(t)}, w, wtx[t].acc)
  BY <1>6, <1>7, <1>8
<1>10. wtx[t].writes \in [StoreKeys -> Nat \cup {Unwritten}]
  BY <1>1, TxTypes
<1>11. w \in [StoreKeys -> Nat \cup {Unwritten}]
  BY <1>4, <1>5, <1>10
<1>12. \A k \in StoreKeys : w[k] = IF k = Key(t) THEN val ELSE wtx[t].writes[k]
  BY <1>10
<1> HIDE DEF w
<1>13. \A k \in StoreKeys :
         /\ w[k] = Deleted => \/ Deletes(t, wtx[t].pc, k)
                              \/ wtx[t].writes[k] = Deleted /\ ~Sets(t, wtx[t].pc, k)
         /\ w[k] # Unwritten => k \in {Key(t)} \/ wtx[t].writes[k] # Unwritten
         /\ Touches(t, wtx[t].pc, k) => k \in {Key(t)} \/ wtx[t].writes[k] # Unwritten
  BY <1>5, <1>12 DEF Deletes, Sets, Touches, Op, Key
<1>14. WritesOK(t)'
  BY <1>5, <1>9, <1>11, <1>13, OperationWrites
<1>15. wtx'[t].writes = w
  <2>1. t \in DOMAIN wtx
    BY <1>1 DEF KVTypeOK
  <2> QED
    BY <1>9, <2>1 DEF Operates
<1>16. ASSUME NEW C \in Contents
       PROVE  Abstract!Effect(t, wtx[t].pc, [view |-> Overlay(t, C), acc |-> wtx[t].acc])
                = [view |-> Overlay(t, C)', acc |-> wtx[t].acc]
  <2>1. Overlay(t, C) \in [StoreKeys -> Nat]
    BY <1>1, OverlayType
  <2>2. Overlay(t, C)' = [k \in StoreKeys |-> IF w[k] = Unwritten THEN C[k] ELSE w[k]]
    BY <1>15 DEF Overlay
  <2>3. val # Unwritten
    BY <1>5 DEF Unwritten
  <2>4. Overlay(t, C)' = [Overlay(t, C) EXCEPT ![Key(t)] = val]
    BY <1>12, <2>2, <2>3 DEF Overlay
  <2>5. Abstract!Effect(t, wtx[t].pc, [view |-> Overlay(t, C), acc |-> wtx[t].acc])
          = [view |-> [Overlay(t, C) EXCEPT ![Key(t)] = val], acc |-> wtx[t].acc]
    BY <1>2, <2>1, Effects DEF val
  <2> QED
    BY <2>4, <2>5
<1> QED
  BY <1>5, <1>9, <1>11, <1>14, <1>16, OperationKeeps

\* WriteTx keeps the invariant.
LEMMA WriteTxKeeps == ASSUME KVInv, NEW t \in Txs, WriteTx(t) PROVE KVInv'
<1> DEFINE new == [NewTx EXCEPT !.base = nextVersion, !.pc = 1]
<1>1. KVTypeOK
  BY DEF KVInv
<1>2. wtx[t] = NewTx
  BY DEF KVInv, PhaseOK, Running, WriteTx
<1>3. [[NewTx EXCEPT !.base = nextVersion] EXCEPT !.pc = @ + 1] = new
  BY DEF NewTx
<1>4. Alone(t, new)
  BY <1>2, <1>3 DEF WriteTx, Advance, Alone
<1>5. /\ new.pc = 1 /\ new.acc = 0 /\ new.base = nextVersion /\ new.outcome = "open"
      /\ new.reads = [k \in StoreKeys |-> Unread] /\ new.writes = [k \in StoreKeys |-> Unwritten]
  BY DEF NewTx
<1>6. new \in TxStates
  BY <1>1 DEF KVTypeOK, TxStates, NewTx, Unread, Unwritten
<1> HIDE DEF new
<1>7. wtx'[t] = new /\ backend' = backend
  BY <1>1, <1>4 DEF KVTypeOK, Alone
<1>8. PhaseOK(t)'
  BY <1>5, <1>7, ProgramTypes DEF PhaseOK, Running, WriteTx
<1>9. WritesOK(t)'
  BY <1>5, <1>7 DEF WritesOK, Deleted, Unwritten
<1>10. Simulates(t)'
  <2> SUFFICES ASSUME NEW C \in Contents
               PROVE  Abstract!After(t, C)[wtx'[t].pc - 1] = [view |-> Overlay(t, C)', acc |-> wtx'[t].acc]
    BY DEF Simulates
  <2>1. wtx'[t].pc - 1 = 0 /\ wtx'[t].acc = 0
    BY <1>5, <1>7
  <2>2. Overlay(t, C)' = C
    BY <1>5, <1>7 DEF Overlay, Contents
  <2>3. Abstract!After(t, C)[0] = [view |-> C, acc |-> 0]
    BY AfterExists
  <2> QED
    BY <2>1, <2>2, <2>3
<1>11. \A u \in Txs \ {t} : Running(u) /\ backend # "inmemory" => globalLock' = u
  BY KVAssumption DEF KVInv, PhaseOK, WriteTx
<1>12. \A k \in StoreKeys : new.reads[k] <= data[k].version
  BY <1>1, <1>5, TxTypes DEF Unread
<1> QED
  BY <1>4, <1>6, <1>8, <1>9, <1>10, <1>11, <1>12, OwnStep

\* The state of a transaction that is over.
LEMMA FinishedTx ==
    ASSUME KVTypeOK, NEW t \in Txs, NEW o \in {"committed", "failed"}, Finish(t, o)
    PROVE  /\ wtx' = [wtx EXCEPT ![t] = wtx'[t]] /\ wtx'[t] \in TxStates
           /\ wtx'[t].pc = 0 /\ wtx'[t].outcome = o /\ wtx'[t].acc = wtx[t].acc
           /\ \A k \in StoreKeys : wtx'[t].reads[k] = Unread /\ wtx'[t].writes[k] = Unwritten
           /\ \A u \in Txs \ {t} : wtx'[u] = wtx[u]
           /\ globalLock' = Nobody
<1> DEFINE new == [NewTx EXCEPT !.outcome = o, !.acc = wtx[t].acc]
<1>1. wtx' = [wtx EXCEPT ![t] = new] /\ globalLock' = Nobody
  BY DEF Finish
<1>2. wtx[t].acc \in Nat
  BY TxTypes
<1>3. /\ new.pc = 0 /\ new.outcome = o /\ new.acc = wtx[t].acc
      /\ new.reads = [k \in StoreKeys |-> Unread] /\ new.writes = [k \in StoreKeys |-> Unwritten]
  BY DEF NewTx
<1>4. new \in TxStates
  BY <1>2 DEF TxStates, NewTx, Unread, Unwritten
<1> HIDE DEF new
<1>5. wtx'[t] = new /\ \A u \in Txs \ {t} : wtx'[u] = wtx[u]
  BY <1>1 DEF KVTypeOK
<1> QED
  BY <1>1, <1>3, <1>4, <1>5

\* What holds of a transaction that is over.
LEMMA FinishedOK ==
    ASSUME KVTypeOK, NEW t \in Txs, NEW o \in {"committed", "failed"}, Finish(t, o)
    PROVE  PhaseOK(t)' /\ WritesOK(t)' /\ Simulates(t)'
<1>1. /\ wtx'[t].pc = 0 /\ wtx'[t].outcome = o
      /\ \A k \in StoreKeys : wtx'[t].writes[k] = Unwritten
  BY FinishedTx
<1>2. PhaseOK(t)' /\ Simulates(t)'
  BY <1>1, ProgramTypes DEF PhaseOK, Simulates, Running
<1>3. WritesOK(t)'
  BY <1>1 DEF WritesOK, Deleted, Unwritten
<1> QED
  BY <1>2, <1>3

\* With a database that needs the lock, no other transaction runs.
LEMMA OneRuns ==
    ASSUME KVInv, NEW t \in Txs, Running(t), NEW u \in Txs \ {t}, Running(u)
    PROVE  backend = "inmemory"
BY DEF KVInv, PhaseOK

\* Giving up keeps the invariant.
LEMMA DiscardKeeps == ASSUME KVInv, NEW t \in Txs, Discard(t) PROVE KVInv'
<1>1. KVTypeOK /\ Finish(t, "failed") /\ Running(t)
  BY DEF KVInv, Discard, Running
<1>2. wtx' = [wtx EXCEPT ![t] = wtx'[t]] /\ wtx'[t] \in TxStates
  BY <1>1, FinishedTx
<1>3. \A k \in StoreKeys : wtx'[t].reads[k] = Unread
  BY <1>1, FinishedTx
<1>4. Alone(t, wtx'[t])
  BY <1>2 DEF Alone, Discard
<1>5. PhaseOK(t)' /\ WritesOK(t)' /\ Simulates(t)'
  BY <1>1, FinishedOK
<1>6. \A u \in Txs \ {t} : Running(u) /\ backend # "inmemory" => globalLock' = u
  BY <1>1, OneRuns
<1>7. \A k \in StoreKeys : wtx'[t].reads[k] <= data[k].version
  BY <1>1, <1>3, TxTypes DEF Unread
<1> QED
  BY <1>2, <1>4, <1>5, <1>6, <1>7, OwnStep

\* What a commit makes of the database: every key written gets a version that no
\* transaction has read.
LEMMA CommitData ==
    ASSUME KVInv, NEW t \in Txs, CommitTx(t)
    PROVE  /\ nextVersion' \in Nat /\ nextVersion <= nextVersion'
           /\ data' \in [StoreKeys -> [val : Nat, version : Nat]]
           /\ \A k \in StoreKeys :
                /\ wtx[t].writes[k] = Unwritten => data'[k] = data[k]
                /\ wtx[t].writes[k] # Unwritten =>
                     /\ data'[k].val = wtx[t].writes[k]
                     /\ nextVersion < data'[k].version /\ data'[k].version <= nextVersion'
<1> DEFINE W == {k \in StoreKeys : wtx[t].writes[k] # Unwritten}
           q == SetToSeq(W)
           at(k) == CHOOSE i \in DOMAIN q : q[i] = k
<1>1. KVTypeOK
  BY DEF KVInv
<1>2. IsFiniteSet(W)
  BY KVAssumption, FS_Subset
<1>3. /\ data' = [k \in StoreKeys |-> IF k \notin Range(q) THEN data[k]
                        ELSE [val |-> wtx[t].writes[k], version |-> nextVersion + at(k)]]
      /\ nextVersion' = nextVersion + Len(q)
  BY DEF CommitTx, ApplyWrites
<1>4. Len(q) \in Nat /\ Range(q) = W /\ \A k \in W : at(k) \in 1 .. Len(q)
  <2> HIDE DEF W
  <2> QED
    BY <1>2, OrderOfWrites
<1> HIDE DEF q
<1>5. nextVersion \in Nat /\ data \in [StoreKeys -> [val : Nat, version : Nat]]
  BY <1>1 DEF KVTypeOK
<1>6. \A k \in W : wtx[t].writes[k] \in Nat
  BY <1>1, TxTypes
<1> HIDE DEF at
<1>7. data' = [k \in StoreKeys |-> IF k \notin W THEN data[k]
                        ELSE [val |-> wtx[t].writes[k], version |-> nextVersion + at(k)]]
  BY <1>3, <1>4
<1>8. \A k \in StoreKeys : IF k \notin W THEN data'[k] = data[k]
                           ELSE data'[k] = [val |-> wtx[t].writes[k], version |-> nextVersion + at(k)]
  BY <1>7
<1>9. \A k \in W : /\ nextVersion + at(k) \in Nat
                   /\ nextVersion < nextVersion + at(k) /\ nextVersion + at(k) <= nextVersion'
  BY <1>3, <1>4, <1>5
<1>10. ASSUME NEW k \in W
       PROVE  /\ data'[k] \in [val : Nat, version : Nat]
              /\ data'[k].val = wtx[t].writes[k] /\ data'[k].version = nextVersion + at(k)
  <2> DEFINE v == nextVersion + at(k)
             x == wtx[t].writes[k]
  <2>1. v \in Nat /\ x \in Nat
    BY <1>6, <1>9
  <2>2. data'[k] = [val |-> x, version |-> v]
    BY <1>8
  <2> HIDE DEF v, x
  <2>3. data'[k] \in [val : Nat, version : Nat] /\ data'[k].val = x /\ data'[k].version = v
    BY <2>1, <2>2
  <2> QED
    BY <2>3 DEF v, x
<1>11. data' \in [StoreKeys -> [val : Nat, version : Nat]]
  <2>1. \A k \in StoreKeys : k \notin W => data'[k] \in [val : Nat, version : Nat]
    BY <1>5, <1>8
  <2>2. \A k \in StoreKeys : data'[k] \in [val : Nat, version : Nat]
    BY <1>10, <2>1
  <2> QED
    BY <1>7, <2>2
<1> QED
  BY <1>3, <1>4, <1>5, <1>8, <1>9, <1>10, <1>11

\* Commit keeps the invariant.
LEMMA CommitKeeps == ASSUME KVInv, NEW t \in Txs, CommitTx(t) PROVE KVInv'
<1>1. KVTypeOK /\ Finish(t, "committed") /\ backend' = backend
  BY DEF KVInv, CommitTx
<1>2. wtx[t].pc = Len(Ops(t)) + 1 /\ wtx[t].pc \in Nat /\ Running(t)
  BY <1>1, ProgramTypes DEF CommitTx, Running
<1>3. /\ wtx' = [wtx EXCEPT ![t] = wtx'[t]] /\ wtx'[t] \in TxStates
      /\ \A k \in StoreKeys : wtx'[t].reads[k] = Unread
      /\ \A u \in Txs \ {t} : wtx'[u] = wtx[u]
  BY <1>1, FinishedTx
<1>4. /\ nextVersion' \in Nat /\ nextVersion <= nextVersion'
      /\ data' \in [StoreKeys -> [val : Nat, version : Nat]]
  BY CommitData
<1>5. \A k \in StoreKeys :
        /\ wtx[t].writes[k] = Unwritten => data'[k] = data[k]
        /\ wtx[t].writes[k] # Unwritten =>
             /\ data'[k].val = wtx[t].writes[k]
             /\ nextVersion < data'[k].version /\ data'[k].version <= nextVersion'
  BY CommitData
<1>6. KVTypeOK'
  BY <1>1, <1>3, <1>4 DEF KVTypeOK
<1>7. \A k \in StoreKeys : KeyOK(k)'
  <2> SUFFICES ASSUME NEW k \in StoreKeys PROVE KeyOK(k)'
    OBVIOUS
  <2>1. KeyOK(k)
    BY DEF KVInv
  <2>2. /\ data[k].version \in Nat /\ data'[k].version \in Nat
        /\ nextVersion \in Nat /\ nextVersion' \in Nat
    BY <1>1, <1>4 DEF KVTypeOK
  <2>3. data[k].version <= data'[k].version /\ data'[k].version <= nextVersion'
    BY <1>4, <1>5, <2>1, <2>2 DEF KeyOK
  <2>4. \A u \in Txs : wtx'[u].reads[k] <= data'[k].version
    <3> SUFFICES ASSUME NEW u \in Txs PROVE wtx'[u].reads[k] <= data'[k].version
      OBVIOUS
    <3>1. CASE u = t
      BY <1>3, <2>2, <3>1 DEF Unread
    <3>2. CASE u # t
      <4>1. wtx'[u].reads[k] = wtx[u].reads[k] /\ wtx[u].reads[k] <= data[k].version
        BY <1>3, <2>1, <3>2 DEF KeyOK
      <4>2. wtx[u].reads[k] \in Int
        BY <1>1, TxTypes DEF Unread
      <4> QED
        BY <2>2, <2>3, <4>1, <4>2
    <3> QED
      BY <3>1, <3>2
  <2>5. Permanent(k) => data'[k].val # Deleted
    <3> SUFFICES ASSUME Permanent(k), data'[k].val = Deleted PROVE FALSE
      OBVIOUS
    <3>1. data[k].val # Deleted
      BY <2>1 DEF KeyOK
    <3>2. wtx[t].writes[k] = Deleted
      BY <1>5, <3>1
    <3>3. PICK i \in 1 .. wtx[t].pc - 1 : Deletes(t, i, k)
      BY <3>2 DEF KVInv, WritesOK
    <3>4. i \in DOMAIN Ops(t)
      BY <1>2, ProgramTypes
    <3> QED
      BY <3>3, <3>4 DEF Permanent
  <2> QED
    BY <2>3, <2>4, <2>5 DEF KeyOK
<1>8. PhaseOK(t)' /\ WritesOK(t)' /\ Simulates(t)'
  BY <1>1, FinishedOK
<1>9. ASSUME NEW u \in Txs \ {t} PROVE PhaseOK(u)' /\ WritesOK(u)' /\ Simulates(u)'
  <2>1. wtx'[u] = wtx[u] /\ PhaseOK(u) /\ WritesOK(u) /\ Simulates(u)
    BY <1>3 DEF KVInv
  <2>2. Running(u) => backend = "inmemory"
    BY <1>2, OneRuns
  <2>3. PhaseOK(u)'
    BY <1>1, <2>1, <2>2 DEF PhaseOK, Running
  <2>4. WritesOK(u)'
    BY <1>1, <2>1 DEF WritesOK
  <2>5. Simulates(u)'
    <3> SUFFICES ASSUME Running(u)', ~Conflict(u)', NEW C \in Contents, Agrees(u, C)'
                 PROVE  Abstract!After(u, C)[wtx'[u].pc - 1] = [view |-> Overlay(u, C)', acc |-> wtx'[u].acc]
      BY DEF Simulates
    <3>1. Running(u) /\ backend = "inmemory"
      BY <2>1, <2>2 DEF Running
    <3>2. \A k \in StoreKeys : wtx[u].reads[k] # Unread =>
            wtx[u].reads[k] <= wtx[u].base /\ data'[k].version = wtx[u].reads[k]
      BY <1>1, <2>1, <3>1, TxTypes DEF Conflict
    <3>3. \A k \in StoreKeys : wtx[u].reads[k] # Unread => data'[k] = data[k]
      <4> SUFFICES ASSUME NEW k \in StoreKeys, wtx[u].reads[k] # Unread,
                          wtx[t].writes[k] # Unwritten
                   PROVE  FALSE
        BY <1>5
      <4>1. nextVersion < data'[k].version /\ data'[k].version = wtx[u].reads[k]
        BY <1>5, <3>2
      <4>2. wtx[u].reads[k] <= data[k].version /\ data[k].version <= nextVersion
        BY DEF KVInv, KeyOK
      <4>3. nextVersion \in Nat /\ data[k].version \in Nat /\ wtx[u].reads[k] \in Int
        BY <1>1, TxTypes DEF KVTypeOK, Unread
      <4> QED
        BY <4>1, <4>2, <4>3
    <3>4. ~Conflict(u)
      BY <1>1, <2>1, <3>2, <3>3, TxTypes DEF Conflict
    <3>5. Agrees(u, C) /\ Overlay(u, C)' = Overlay(u, C)
      BY <1>1, <2>1, <3>1, <3>3 DEF Agrees, Overlay
    <3> QED
      BY <2>1, <3>1, <3>4, <3>5 DEF Simulates
  <2> QED
    BY <2>3, <2>4, <2>5
<1> QED
  BY <1>6, <1>7, <1>8, <1>9 DEF KVInv

\* Every step keeps the invariant.
LEMMA KVInductive == KVInv /\ [KVNext]_kvVars => KVInv'
<1> SUFFICES ASSUME KVInv, [KVNext]_kvVars PROVE KVInv'
  OBVIOUS
<1>1. CASE UNCHANGED kvVars
  <2>1. backend' = backend /\ data' = data /\ nextVersion' = nextVersion /\ wtx' = wtx
          /\ globalLock' = globalLock
    BY <1>1 DEF kvVars
  <2>2. KVTypeOK'
    BY <2>1 DEF KVInv, KVTypeOK
  <2>3. \A k \in StoreKeys : KeyOK(k)'
    BY <2>1 DEF KVInv, KeyOK
  <2>4. ASSUME NEW t \in Txs PROVE PhaseOK(t)' /\ WritesOK(t)' /\ Simulates(t)'
    <3>1. PhaseOK(t)' /\ WritesOK(t)'
      BY <2>1 DEF KVInv, PhaseOK, WritesOK, Running
    <3>2. /\ Conflict(t)' <=> Conflict(t)
          /\ Running(t)' <=> Running(t)
          /\ \A C \in Contents : (Agrees(t, C)' <=> Agrees(t, C)) /\ Overlay(t, C)' = Overlay(t, C)
      BY <2>1 DEF Conflict, Running, Agrees, Overlay
    <3>3. Simulates(t)'
      BY <2>1, <3>2 DEF KVInv, Simulates
    <3> QED
      BY <3>1, <3>3
  <2> QED
    BY <2>2, <2>3, <2>4 DEF KVInv
<1>2. ASSUME NEW t \in Txs,
             \/ WriteTx(t) \/ GetKey(t) \/ Iterate(t) \/ SetKey(t) \/ DeleteKey(t)
             \/ CommitTx(t) \/ Discard(t)
      PROVE  KVInv'
  BY <1>2, WriteTxKeeps, GetKeeps, IterateKeeps, WriteKeeps, CommitKeeps, DiscardKeeps
<1> QED
  BY <1>1, <1>2 DEF KVNext

----------------------------------------------------------------------------
(* The refinement                                                          *)

contentsBar == [k \in StoreKeys |-> data[k].val]
outcomeBar == [t \in Txs |-> wtx[t].outcome]
answerBar == [t \in Txs |-> IF wtx[t].outcome = "committed" THEN wtx[t].acc ELSE 0]

\* A commit is the execution of the whole program at that moment.
LEMMA CommitExecutes == ASSUME KVInv, NEW t \in Txs, CommitTx(t) PROVE Abstract!Execute(t)
<1>1. KVTypeOK /\ PhaseOK(t) /\ Simulates(t)
  BY DEF KVInv
<1>2. wtx[t].pc - 1 = Len(Ops(t)) /\ Running(t) /\ ~Conflict(t)
  BY ProgramTypes DEF CommitTx, Running
<1>3. contentsBar \in Contents /\ Agrees(t, contentsBar)
  BY <1>1 DEF KVTypeOK, contentsBar, Contents, Agrees
<1>4. Abstract!After(t, contentsBar)[Len(Ops(t))]
        = [view |-> Overlay(t, contentsBar), acc |-> wtx[t].acc]
  BY <1>1, <1>2, <1>3 DEF Simulates
<1>5. Abstract!Run(t, contentsBar) = [view |-> Overlay(t, contentsBar), acc |-> wtx[t].acc]
  BY <1>4 DEF Abstract!Run, Ops
<1>6. \A k \in StoreKeys : data'[k].val =
        IF wtx[t].writes[k] = Unwritten THEN data[k].val ELSE wtx[t].writes[k]
  <2>1. \A k \in StoreKeys :
          /\ wtx[t].writes[k] = Unwritten => data'[k] = data[k]
          /\ wtx[t].writes[k] # Unwritten => data'[k].val = wtx[t].writes[k]
    BY CommitData
  <2> QED
    BY <2>1
<1>7. contentsBar' = Abstract!Run(t, contentsBar).view
  BY <1>5, <1>6 DEF contentsBar, Overlay
<1>8. Finish(t, "committed") /\ wtx[t].outcome = "open"
  BY <1>1, <1>2 DEF CommitTx, PhaseOK
<1>9. /\ wtx'[t].outcome = "committed" /\ wtx'[t].acc = wtx[t].acc
      /\ \A u \in Txs \ {t} : wtx'[u] = wtx[u]
  BY <1>1, <1>8, FinishedTx
<1>10. outcomeBar' = [outcomeBar EXCEPT ![t] = "committed"]
  BY <1>9 DEF outcomeBar
<1>11. answerBar' = [answerBar EXCEPT ![t] = Abstract!Run(t, contentsBar).acc]
  <2>1. Abstract!Run(t, contentsBar).acc = wtx[t].acc
    BY <1>5
  <2>2. answerBar' = [answerBar EXCEPT ![t] = wtx[t].acc]
    BY <1>9 DEF answerBar
  <2> QED
    BY <2>1, <2>2
<1>12. outcomeBar[t] = "open"
  BY <1>8 DEF outcomeBar
<1> QED
  BY <1>7, <1>10, <1>11, <1>12 DEF Abstract!Execute, contentsBar, outcomeBar, answerBar

\* A transaction that is given up fails.
LEMMA DiscardFails == ASSUME KVInv, NEW t \in Txs, Discard(t) PROVE Abstract!Fail(t)
<1>1. KVTypeOK /\ Finish(t, "failed") /\ wtx[t].outcome = "open" /\ data' = data
  BY DEF KVInv, Discard
<1>2. wtx'[t].outcome = "failed" /\ \A u \in Txs \ {t} : wtx'[u] = wtx[u]
  BY <1>1, FinishedTx
<1>3. contentsBar' = contentsBar
  BY <1>1 DEF contentsBar
<1>4. outcomeBar' = [outcomeBar EXCEPT ![t] = "failed"] /\ outcomeBar[t] = "open"
  BY <1>1, <1>2 DEF outcomeBar
<1>5. answerBar' = answerBar
  BY <1>1, <1>2 DEF answerBar
<1> QED
  BY <1>3, <1>4, <1>5 DEF Abstract!Fail, contentsBar, outcomeBar, answerBar

\* The other steps of a transaction are not seen.
LEMMA OthersStutter ==
    ASSUME KVInv, NEW t \in Txs,
           WriteTx(t) \/ GetKey(t) \/ Iterate(t) \/ SetKey(t) \/ DeleteKey(t)
    PROVE  UNCHANGED <<contentsBar, outcomeBar, answerBar>>
<1>1. KVTypeOK /\ wtx[t] \in TxStates
  BY TxTypes DEF KVInv
<1>2. data' = data /\ wtx[t].outcome = "open"
  BY DEF WriteTx, GetKey, Iterate, SetKey, DeleteKey, Write, AtOp
<1>3. \A keys : RecordRead(wtx[t], keys) \in TxStates /\ RecordRead(wtx[t], keys).outcome = "open"
  BY <1>1, <1>2, RecordReadOK
<1>4. \E new \in TxStates : new.outcome = "open" /\ Advance(t, new)
  <2>1. CASE WriteTx(t)
    <3>1. [wtx[t] EXCEPT !.base = nextVersion] \in TxStates
            /\ [wtx[t] EXCEPT !.base = nextVersion].outcome = "open"
      BY <1>1, <1>2 DEF KVTypeOK, TxStates
    <3> QED
      BY <2>1, <3>1 DEF WriteTx
  <2>2. CASE GetKey(t)
    <3> DEFINE x == IF wtx[t].writes[Key(t)] = Unwritten THEN RecordRead(wtx[t], {Key(t)}) ELSE wtx[t]
               a == View(wtx[t], Key(t))
    <3>1. x \in TxStates /\ x.outcome = "open"
      BY <1>1, <1>2, <1>3
    <3>2. Key(t) \in StoreKeys
      BY <2>2, ProgramTypes DEF GetKey, AtOp, Key, Op
    <3>3. a \in Nat
      BY <1>1, <3>2, TxTypes DEF View
    <3>4. Advance(t, [x EXCEPT !.acc = a])
      BY <2>2 DEF GetKey
    <3> HIDE DEF x, a
    <3>5. [x EXCEPT !.acc = a] \in TxStates /\ [x EXCEPT !.acc = a].outcome = "open"
      BY <3>1, <3>3 DEF TxStates
    <3> QED
      BY <3>4, <3>5
  <2>3. CASE Iterate(t)
    <3> DEFINE mine == {k \in StoreKeys : k[1] = Program[t].prefix}
               x == RecordRead(wtx[t], {k \in mine : data[k].val # Deleted})
               f == [k \in StoreKeys |-> View(wtx[t], k)]
               a == SumFunctionOnSet(f, mine)
    <3>1. x \in TxStates /\ x.outcome = "open"
      BY <1>3
    <3>2. Advance(t, [x EXCEPT !.acc = a])
      BY <2>3 DEF Iterate
    <3>3. IsFiniteSet(mine) /\ \A k \in mine : f[k] \in Nat
      BY <1>1, KVAssumption, FS_Subset, TxTypes DEF View
    <3> HIDE DEF x, f, mine
    <3>4. a \in Nat
      BY <3>3, SumIsNat
    <3> HIDE DEF a
    <3>5. [x EXCEPT !.acc = a] \in TxStates /\ [x EXCEPT !.acc = a].outcome = "open"
      BY <3>1, <3>4 DEF TxStates
    <3> QED
      BY <3>2, <3>5
  <2>4. CASE SetKey(t) \/ DeleteKey(t)
    <3> DEFINE x == RecordRead(wtx[t], {Key(t)})
               k == Key(t)
               a == IF SetKey(t) THEN wtx[t].acc + 1 ELSE Deleted
    <3>1. x \in TxStates /\ x.outcome = "open"
      BY <1>3
    <3>2. k \in StoreKeys
      BY <2>4, ProgramTypes DEF SetKey, DeleteKey, Write, AtOp, Key, Op
    <3>3. a \in Nat
      BY <1>1, TxTypes DEF Deleted
    <3>4. Advance(t, [x EXCEPT !.writes[k] = a])
      BY <2>4 DEF SetKey, DeleteKey, Write
    <3> HIDE DEF x, a, k
    <3>5. [x EXCEPT !.writes[k] = a] \in TxStates /\ [x EXCEPT !.writes[k] = a].outcome = x.outcome
      BY <3>1, <3>2, <3>3, NewStates, ZenonT(30)
    <3> QED
      BY <3>1, <3>4, <3>5
  <2> QED
    BY <2>1, <2>2, <2>3, <2>4
<1>5. PICK new \in TxStates : new.outcome = "open" /\ Advance(t, new)
  BY <1>4
<1>6. wtx'[t].outcome = "open" /\ \A u \in Txs \ {t} : wtx'[u] = wtx[u]
  BY <1>1, <1>5 DEF Advance, KVTypeOK, TxStates
<1> QED
  BY <1>2, <1>6 DEF contentsBar, outcomeBar, answerBar

\* For all programs that suit the database (db/inmemory, db/pebbledb, db/goleveldb),
\* any number of interleaved transactions and of keys: a transaction that commits
\* does what it would have done alone at that moment, and one that fails leaves no
\* trace.
THEOREM StoresAreAtomic == KVSpec /\ Suits(backend) => TransactionsAreAtomic
<1>1. KVInit => Abstract!AbsInit
  <2> SUFFICES ASSUME KVInit PROVE Abstract!AbsInit
    OBVIOUS
  <2>1. contentsBar = Initially
    BY KVAssumption DEF KVInit, contentsBar
  <2>2. outcomeBar = [t \in Txs |-> "open"] /\ answerBar = [t \in Txs |-> 0]
    BY DEF KVInit, NewTx, outcomeBar, answerBar
  <2> QED
    BY <2>1, <2>2 DEF Abstract!AbsInit, contentsBar, outcomeBar, answerBar
<1>2. KVInv /\ [KVNext]_kvVars => [Abstract!AbsNext]_<<contentsBar, outcomeBar, answerBar>>
  <2> SUFFICES ASSUME KVInv, [KVNext]_kvVars
               PROVE  Abstract!AbsNext \/ UNCHANGED <<contentsBar, outcomeBar, answerBar>>
    OBVIOUS
  <2>1. CASE UNCHANGED kvVars
    BY <2>1 DEF kvVars, contentsBar, outcomeBar, answerBar
  <2>2. ASSUME NEW t \in Txs,
               \/ WriteTx(t) \/ GetKey(t) \/ Iterate(t) \/ SetKey(t) \/ DeleteKey(t)
               \/ CommitTx(t) \/ Discard(t)
        PROVE  Abstract!Execute(t) \/ Abstract!Fail(t)
                 \/ UNCHANGED <<contentsBar, outcomeBar, answerBar>>
    BY <2>2, CommitExecutes, DiscardFails, OthersStutter
  <2> QED
    BY <2>1, <2>2 DEF KVNext, Abstract!AbsNext
<1> QED
  BY <1>1, <1>2, KVInitially, KVInductive, PTL
    DEF KVSpec, TransactionsAreAtomic, Abstract!AbsSpec, contentsBar, outcomeBar, answerBar

----------------------------------------------------------------------------
(* Arithmetic modulo the order of the group                                *)

\* Numbers that differ by a multiple of Order.
Same(a, b) == \E q \in Int : a - b = q * Order

\* The residue of a number.
LEMMA Residue ==
    ASSUME NEW a \in Int
    PROVE  a % Order \in 0 .. Order - 1 /\ Same(a % Order, a)
<1> DEFINE d == a \div Order
<1>1. a % Order \in 0 .. Order - 1
  BY ElGamalAssumption
<1>2. d \in Int /\ a = d * Order + (a % Order)
  BY ElGamalAssumption
<1> HIDE DEF d
<1>3. (a % Order) - a = (-d) * Order /\ -d \in Int
  BY <1>1, <1>2, ElGamalAssumption
<1> QED
  BY <1>1, <1>3 DEF Same

\* Same is an equivalence,
LEMMA SameSymmetric == ASSUME NEW a \in Int, NEW b \in Int, Same(a, b) PROVE Same(b, a)
<1>1. PICK p \in Int : a - b = p * Order
  BY DEF Same
<1>2. b - a = (-p) * Order /\ -p \in Int
  BY <1>1, ElGamalAssumption
<1> QED
  BY <1>2 DEF Same

\* and transitive,
LEMMA SameTransitive ==
    ASSUME NEW a \in Int, NEW b \in Int, NEW c \in Int, Same(a, b), Same(b, c)
    PROVE  Same(a, c)
<1>1. PICK p \in Int : a - b = p * Order
  BY DEF Same
<1>2. PICK q \in Int : b - c = q * Order
  BY DEF Same
<1>3. a - c = (p + q) * Order /\ p + q \in Int
  BY <1>1, <1>2, ElGamalAssumption
<1> QED
  BY <1>3 DEF Same

\* which sums,
LEMMA SameSum ==
    ASSUME NEW a \in Int, NEW b \in Int, NEW c \in Int, NEW d \in Int, Same(a, b), Same(c, d)
    PROVE  Same(a + c, b + d)
<1>1. PICK p \in Int : a - b = p * Order
  BY DEF Same
<1>2. PICK q \in Int : c - d = q * Order
  BY DEF Same
<1>3. (a + c) - (b + d) = (p + q) * Order /\ p + q \in Int
  BY <1>1, <1>2, ElGamalAssumption
<1> QED
  BY <1>3 DEF Same

\* multiples
LEMMA SameMultiple ==
    ASSUME NEW a \in Int, NEW b \in Int, NEW c \in Int, Same(a, b)
    PROVE  Same(a * c, b * c)
<1>1. PICK p \in Int : a - b = p * Order
  BY DEF Same
<1>2. a * c - b * c = (p * c) * Order /\ p * c \in Int
  <2>1. a * c - b * c = (a - b) * c
    OBVIOUS
  <2>2. (p * Order) * c = (p * c) * Order
    BY ElGamalAssumption
  <2> QED
    BY <1>1, <2>1, <2>2
<1> QED
  BY <1>2 DEF Same

\* and differences keep,
LEMMA SameDifference ==
    ASSUME NEW a \in Int, NEW b \in Int, NEW c \in Int, NEW d \in Int, Same(a, b), Same(c, d)
    PROVE  Same(a - c, b - d)
<1>1. PICK p \in Int : a - b = p * Order
  BY DEF Same
<1>2. PICK q \in Int : c - d = q * Order
  BY DEF Same
<1>3. (a - c) - (b - d) = (p - q) * Order /\ p - q \in Int
  BY <1>1, <1>2, ElGamalAssumption
<1> QED
  BY <1>3 DEF Same

\* and residues are the same only if they are equal.
LEMMA SameUnique ==
    ASSUME NEW a \in 0 .. Order - 1, NEW b \in 0 .. Order - 1, Same(a, b)
    PROVE  a = b
<1>1. PICK p \in Int : a - b = p * Order
  BY DEF Same
<1>2. CASE p >= 1
  <2>1. p * Order >= Order
    BY <1>2, ElGamalAssumption
  <2> QED
    BY <1>1, <2>1, ElGamalAssumption
<1>3. CASE p <= -1
  <2>1. p * Order <= -Order
    BY <1>3, ElGamalAssumption
  <2> QED
    BY <1>1, <2>1, ElGamalAssumption
<1>4. CASE p = 0
  BY <1>1, <1>4, ElGamalAssumption
<1> QED
  BY <1>2, <1>3, <1>4

\* A number is the same as itself.
LEMMA SameReflexive == ASSUME NEW a \in Int PROVE Same(a, a)
<1>1. a - a = 0 * Order /\ 0 \in Int
  BY ElGamalAssumption
<1> QED
  BY <1>1 DEF Same

\* The operations of the group.
LEMMA GroupOperations ==
    ASSUME NEW p \in Int, NEW q \in Int
    PROVE  /\ Add(p, q) \in 0 .. Order - 1 /\ Same(Add(p, q), p + q)
           /\ ScalarMult(p, q) \in 0 .. Order - 1 /\ Same(ScalarMult(p, q), p * q)
           /\ ScalarBaseMult(p) \in 0 .. Order - 1 /\ Same(ScalarBaseMult(p), p)
           /\ Neg(p) \in 0 .. Order - 1 /\ Same(Neg(p), -p)
<1>1. Add(p, q) \in 0 .. Order - 1 /\ Same(Add(p, q), p + q)
  BY Residue DEF Add
<1>2. ScalarMult(p, q) \in 0 .. Order - 1 /\ Same(ScalarMult(p, q), p * q)
  BY Residue DEF ScalarMult
<1>3. ScalarBaseMult(p) \in 0 .. Order - 1 /\ Same(ScalarBaseMult(p), p)
  BY Residue DEF ScalarBaseMult, ScalarMult, Generator
<1>4. Neg(p) \in 0 .. Order - 1 /\ Same(Neg(p), -p)
  <2>1. Order - p \in Int /\ -p \in Int
    BY ElGamalAssumption
  <2>2. Neg(p) \in 0 .. Order - 1 /\ Same(Neg(p), Order - p)
    BY <2>1, Residue DEF Neg
  <2>3. (Order - p) - (-p) = 1 * Order /\ 1 \in Int
    BY ElGamalAssumption
  <2>4. Same(Order - p, -p)
    BY <2>3 DEF Same
  <2>5. Neg(p) \in Int
    BY <2>2
  <2> QED
    BY <2>1, <2>2, <2>4, <2>5, SameTransitive
<1> QED
  BY <1>1, <1>2, <1>3, <1>4

----------------------------------------------------------------------------
(* Nonces                                                                  *)

\* The hash is defined, and is a scalar other than zero.
LEMMA HashRange ==
    ASSUME NEW s \in Seq(Int), s # <<>>
    PROVE  MultiPoseidon(s) \in 1 .. Order - 1
<1> DEFINE len == Len(s)
           Mixed(x, i) == (7 * x + s[i] + 3) % (Order - 1)
           Good(m, g) == g = [i \in 0 .. m |-> IF i = 0 THEN 5 ELSE Mixed(g[i - 1], i)]
           S == {m \in Nat : \E g : Good(m, g)}
<1>1. len \in Nat
  OBVIOUS
<1> HIDE DEF Mixed
<1>2. 0 \in S
  <2>1. Good(0, [i \in 0 .. 0 |-> 5])
    OBVIOUS
  <2> QED
    BY <2>1
<1>3. \A m \in S : m + 1 \in S
  <2> SUFFICES ASSUME NEW m \in S PROVE m + 1 \in S
    OBVIOUS
  <2>1. PICK g : Good(m, g)
    OBVIOUS
  <2> DEFINE h == [i \in 0 .. m + 1 |-> IF i <= m THEN g[i] ELSE Mixed(g[m], m + 1)]
  <2>2. Good(m + 1, h)
    BY <2>1
  <2> HIDE DEF Good
  <2>3. \E x : Good(m + 1, x)
    BY <2>2
  <2> QED
    BY <2>3
<1>4. len \in S
  <2>1. S \in SUBSET Nat
    OBVIOUS
  <2> HIDE DEF S
  <2> QED
    BY <1>1, <1>2, <1>3, <2>1, AllNat
<1> DEFINE mix == CHOOSE g : Good(len, g)
<1>5. Good(len, mix)
  BY <1>4
<1>6. MultiPoseidon(s) = 1 + mix[len]
  BY DEF MultiPoseidon, Mixed
<1>7. mix = [i \in 0 .. len |-> IF i = 0 THEN 5 ELSE Mixed(mix[i - 1], i)]
  BY <1>5
<1> HIDE DEF mix
<1>8. mix[0] = 5 /\ \A i \in 1 .. len : mix[i] = Mixed(mix[i - 1], i)
  <2> HIDE DEF len
  <2>1. \A i \in 0 .. len : mix[i] = IF i = 0 THEN 5 ELSE Mixed(mix[i - 1], i)
    BY <1>7
  <2>2. 0 \in 0 .. len
    BY <1>1
  <2>3. \A i \in 1 .. len : i \in 0 .. len /\ i # 0
    BY <1>1
  <2>4. mix[0] = 5
    BY <2>1, <2>2
  <2>5. ASSUME NEW i \in 1 .. len PROVE mix[i] = Mixed(mix[i - 1], i)
    BY <2>1, <2>3
  <2> QED
    BY <2>4, <2>5
<1> DEFINE R == {m \in Nat : m <= len => mix[m] \in Int}
<1>9. 0 \in R
  BY <1>8
<1>10. \A m \in R : m + 1 \in R
  <2> SUFFICES ASSUME NEW m \in R, m + 1 <= len PROVE mix[m + 1] \in Int
    OBVIOUS
  <2>1. m + 1 \in 1 .. len /\ mix[m] \in Int /\ s[m + 1] \in Int /\ (m + 1) - 1 = m
    BY <1>1
  <2>2. mix[m + 1] = Mixed(mix[m], m + 1)
    BY <1>8, <2>1
  <2> DEFINE a == mix[m]
             b == s[m + 1]
             t == 7 * a + b + 3
  <2>3. Mixed(mix[m], m + 1) \in Int
    <3>1. Mixed(mix[m], m + 1) = t % (Order - 1)
      BY DEF Mixed
    <3> HIDE DEF a, b
    <3>2. t \in Int
      BY <2>1 DEF a, b
    <3> HIDE DEF t
    <3>3. t % (Order - 1) \in Int
      BY <3>2, ElGamalAssumption
    <3> QED
      BY <3>1, <3>3
  <2> QED
    BY <2>2, <2>3
<1>11. R = Nat
  <2>1. R \in SUBSET Nat
    OBVIOUS
  <2> HIDE DEF R
  <2> QED
    BY <1>9, <1>10, <2>1, AllNat
<1>12. len \in 1 .. len /\ len - 1 \in Nat /\ len - 1 <= len /\ s[len] \in Int
  BY <1>1
<1>13. mix[len - 1] \in Int
  BY <1>11, <1>12
<1>14. mix[len] = Mixed(mix[len - 1], len)
  BY <1>8, <1>12
<1>15. Mixed(mix[len - 1], len) \in 0 .. Order - 2
  <2>1. mix[len - 1] \in Int /\ s[len] \in Int
    BY <1>12, <1>13
  <2>2. Mixed(mix[len - 1], len) = (7 * mix[len - 1] + s[len] + 3) % (Order - 1)
    BY DEF Mixed
  <2> DEFINE a == mix[len - 1]
             b == s[len]
             t == 7 * a + b + 3
  <2> HIDE DEF len, a, b
  <2>3. t \in Int
    BY <2>1 DEF a, b
  <2> HIDE DEF t
  <2>4. t % (Order - 1) \in 0 .. Order - 2
    BY <2>3, ElGamalAssumption
  <2> QED
    BY <2>2, <2>4 DEF t, a, b
<1> QED
  BY <1>6, <1>14, <1>15, ElGamalAssumption

\* The nonces of the fields are defined, and are scalars.
LEMMA NoncesAreScalars ==
    ASSUME NEW first \in 1 .. Order - 1
    PROVE  \A i \in 1 .. Fields : FieldNonces(first)[i] \in 1 .. Order - 1
<1> DEFINE Next(x) == MultiPoseidon(<<x>>)
           Good(m, g) == g = [i \in 1 .. m |-> IF i = 1 THEN first ELSE Next(g[i - 1])]
           S == {m \in Nat : \E g : Good(m, g)}
<1>1. Fields \in Nat /\ \A x \in 1 .. Order - 1 : Next(x) \in 1 .. Order - 1
  <2>1. Fields \in Nat
    BY ElGamalAssumption
  <2>2. ASSUME NEW x \in 1 .. Order - 1 PROVE Next(x) \in 1 .. Order - 1
    <3>1. <<x>> \in Seq(Int) /\ <<x>> # <<>>
      BY ElGamalAssumption
    <3> QED
      BY <3>1, HashRange
  <2> QED
    BY <2>1, <2>2
<1> HIDE DEF Next
<1>2. 0 \in S
  <2>1. Good(0, [i \in 1 .. 0 |-> first])
    OBVIOUS
  <2> QED
    BY <2>1
<1>3. \A m \in S : m + 1 \in S
  <2> SUFFICES ASSUME NEW m \in S PROVE m + 1 \in S
    OBVIOUS
  <2>1. PICK g : Good(m, g)
    OBVIOUS
  <2> DEFINE h == [i \in 1 .. m + 1 |-> IF i <= m THEN g[i] ELSE IF i = 1 THEN first ELSE Next(g[m])]
  <2>2. Good(m + 1, h)
    BY <2>1
  <2> HIDE DEF Good
  <2>3. \E x : Good(m + 1, x)
    BY <2>2
  <2> QED
    BY <2>3
<1>4. Fields \in S
  <2>1. S \in SUBSET Nat
    OBVIOUS
  <2> HIDE DEF S
  <2> QED
    BY <1>1, <1>2, <1>3, <2>1, AllNat
<1> DEFINE k == CHOOSE g : Good(Fields, g)
<1>5. Good(Fields, k)
  BY <1>4
<1>6. FieldNonces(first) = k
  BY DEF FieldNonces, Next
<1>7. k = [i \in 1 .. Fields |-> IF i = 1 THEN first ELSE Next(k[i - 1])]
  BY <1>5
<1> HIDE DEF k
<1>8. \A i \in 1 .. Fields : k[i] = IF i = 1 THEN first ELSE Next(k[i - 1])
  BY <1>7
<1> DEFINE R == {m \in Nat : m + 1 <= Fields => k[m + 1] \in 1 .. Order - 1}
<1>9. 0 \in R
  BY <1>8
<1>10. \A m \in R : m + 1 \in R
  <2> SUFFICES ASSUME NEW m \in R, (m + 1) + 1 <= Fields PROVE k[(m + 1) + 1] \in 1 .. Order - 1
    OBVIOUS
  <2>1. (m + 1) + 1 \in 1 .. Fields /\ k[m + 1] \in 1 .. Order - 1 /\ ((m + 1) + 1) - 1 = m + 1
          /\ (m + 1) + 1 # 1
    BY <1>1
  <2>2. k[(m + 1) + 1] = Next(k[m + 1])
    BY <1>8, <2>1
  <2> QED
    BY <1>1, <2>1, <2>2
<1>11. R = Nat
  <2>1. R \in SUBSET Nat
    OBVIOUS
  <2> HIDE DEF R
  <2> QED
    BY <1>9, <1>10, <2>1, AllNat
<1>12. \A i \in 1 .. Fields : i - 1 \in R /\ (i - 1) + 1 = i
  <2> HIDE DEF R
  <2> QED
    BY <1>1, <1>11
<1>13. \A i \in 1 .. Fields : k[i] \in 1 .. Order - 1
  BY <1>12
<1> QED
  BY <1>6, <1>13

----------------------------------------------------------------------------
(* Ciphertexts                                                             *)

\* c is a ciphertext of m (modulo Order) for the private key x.
Encrypts(x, c, m) ==
    /\ c \in [C1 : 0 .. Order - 1, C2 : 0 .. Order - 1]
    /\ Same(c.C2, m + x * c.C1)

\* Encryption gives one,
LEMMA EncryptionEncrypts ==
    ASSUME NEW x \in 1 .. Order - 1, NEW m \in Nat, NEW k \in 1 .. Order - 1
    PROVE  Encrypts(x, EncryptWithK(ScalarBaseMult(x), m, k), m)
<1> DEFINE pk == ScalarBaseMult(x)
           c1 == ScalarBaseMult(k)
           mG == ScalarBaseMult(m % Order)
           s == ScalarMult(pk, k)
           c2 == Add(mG, s)
<1>0. x \in Int /\ m \in Int /\ k \in Int /\ m % Order \in Int /\ Same(m % Order, m)
  BY Residue, ElGamalAssumption
<1>1. pk \in Int /\ Same(pk, x)
  BY <1>0, GroupOperations
<1>2. c1 \in 0 .. Order - 1 /\ Same(c1, k)
  BY <1>0, GroupOperations
<1>3. mG \in Int /\ Same(mG, m % Order)
  <2> DEFINE r == m % Order
  <2>1. r \in Int
    BY <1>0
  <2> HIDE DEF r
  <2>2. ScalarBaseMult(r) \in 0 .. Order - 1 /\ Same(ScalarBaseMult(r), r)
    BY <2>1, GroupOperations
  <2>3. ScalarBaseMult(r) \in Int
    BY <2>2
  <2> QED
    BY <2>2, <2>3 DEF r
<1>4. s \in Int /\ Same(s, pk * k)
  <2> HIDE DEF pk
  <2> QED
    BY <1>0, <1>1, GroupOperations
<1>5. c2 \in 0 .. Order - 1 /\ Same(c2, mG + s)
  <2> HIDE DEF mG, s
  <2> QED
    BY <1>3, <1>4, GroupOperations
<1>6. EncryptWithK(pk, m, k) = [C1 |-> c1, C2 |-> c2]
  BY DEF EncryptWithK
<1> HIDE DEF pk, c1, mG, s, c2
<1>7. c1 \in Int /\ c2 \in Int
  BY <1>2, <1>5
<1>8. Same(mG, m)
  BY <1>0, <1>3, SameTransitive
<1>9. Same(s, x * c1)
  <2>0. pk * k \in Int /\ x * k \in Int /\ k * x \in Int /\ c1 * x \in Int
    BY <1>0, <1>1, <1>7
  <2>1. Same(pk * k, x * k)
    BY <1>0, <1>1, SameMultiple
  <2>2. Same(k, c1)
    BY <1>0, <1>2, <1>7, SameSymmetric
  <2>3. Same(k * x, c1 * x)
    BY <1>0, <1>7, <2>2, SameMultiple
  <2>4. k * x = x * k /\ c1 * x = x * c1
    BY <1>0, <1>7
  <2>5. Same(s, x * k)
    BY <1>4, <2>0, <2>1, SameTransitive
  <2>6. Same(x * k, x * c1) /\ x * c1 \in Int
    BY <2>0, <2>3, <2>4
  <2> QED
    BY <1>4, <2>0, <2>5, <2>6, SameTransitive
<1>10. Same(mG + s, m + x * c1) /\ mG + s \in Int /\ m + x * c1 \in Int
  <2>1. x * c1 \in Int
    BY <1>0, <1>7
  <2> DEFINE t == x * c1
  <2> HIDE DEF t
  <2>2. t \in Int /\ Same(s, t)
    BY <1>9, <2>1 DEF t
  <2>3. Same(mG + s, m + t)
    BY <1>0, <1>3, <1>4, <1>8, <2>2, SameSum
  <2>4. mG + s \in Int /\ m + t \in Int
    BY <1>0, <1>3, <1>4, <2>2
  <2> QED
    BY <2>3, <2>4 DEF t
<1>11. Same(c2, m + x * c1)
  BY <1>5, <1>7, <1>10, SameTransitive
<1> QED
  BY <1>2, <1>5, <1>6, <1>11 DEF Encrypts, pk

\* and adding two of them one of the sum.
LEMMA SumEncrypts ==
    ASSUME NEW x \in 1 .. Order - 1, NEW m \in Nat, NEW n \in Nat, NEW c, NEW d,
           Encrypts(x, c, m), Encrypts(x, d, n)
    PROVE  Encrypts(x, [C1 |-> Add(c.C1, d.C1), C2 |-> Add(c.C2, d.C2)], m + n)
<1> DEFINE e1 == Add(c.C1, d.C1)
           e2 == Add(c.C2, d.C2)
<1>1. /\ c.C1 \in Int /\ c.C2 \in Int /\ d.C1 \in Int /\ d.C2 \in Int /\ x \in Int
      /\ Same(c.C2, m + x * c.C1) /\ Same(d.C2, n + x * d.C1)
  BY DEF Encrypts
<1>2. e1 \in 0 .. Order - 1 /\ Same(e1, c.C1 + d.C1) /\ e2 \in 0 .. Order - 1 /\ Same(e2, c.C2 + d.C2)
  BY <1>1, GroupOperations
<1> DEFINE a == c.C1
           b == d.C1
           p == c.C2
           q == d.C2
<1> HIDE DEF e1, e2, a, b, p, q
<1>3. /\ a \in Int /\ b \in Int /\ p \in Int /\ q \in Int /\ e1 \in Int /\ e2 \in Int
      /\ x * a \in Int /\ x * b \in Int /\ x * e1 \in Int
      /\ Same(p, m + x * a) /\ Same(q, n + x * b) /\ Same(e1, a + b) /\ Same(e2, p + q)
  BY <1>1, <1>2 DEF a, b, p, q
<1>4. Same(p + q, (m + x * a) + (n + x * b))
  BY <1>3, SameSum
<1>5. Same(x * (a + b), x * e1)
  <2>1. Same(a + b, e1) /\ a + b \in Int
    BY <1>3, SameSymmetric
  <2>2. Same((a + b) * x, e1 * x)
    BY <1>1, <1>3, <2>1, SameMultiple
  <2>3. (a + b) * x = x * (a + b) /\ e1 * x = x * e1
    BY <1>1, <1>3
  <2> QED
    BY <2>2, <2>3
<1>6. (m + x * a) + (n + x * b) = (m + n) + x * (a + b)
  <2>1. x * (a + b) = x * a + x * b
    BY <1>1, <1>3
  <2> QED
    BY <1>3, <2>1
<1>7. x * (a + b) \in Int /\ m + n \in Int
  BY <1>1, <1>3
<1>8. Same((m + n) + x * (a + b), (m + n) + x * e1)
  BY <1>3, <1>5, <1>7, SameSum, SameReflexive
<1>9. Same(e2, (m + n) + x * (a + b))
  BY <1>3, <1>4, <1>6, <1>7, SameTransitive
<1>10. Same(e2, (m + n) + x * e1)
  BY <1>3, <1>7, <1>8, <1>9, SameTransitive
<1> QED
  BY <1>2, <1>10 DEF Encrypts, e1, e2

----------------------------------------------------------------------------
(* The search for the logarithm                                            *)

\* The number of baby steps is a square root, rounded up.
LEMMA SqrtCovers ==
    ASSUME NEW n \in Nat, n # 0
    PROVE  SqrtCeil(n) \in Nat /\ SqrtCeil(n) # 0 /\ SqrtCeil(n) * SqrtCeil(n) >= n
<1> DEFINE S == {m \in Nat : m * m >= n}
           Root(m) == m * m >= n /\ (m = 0 \/ (m - 1) * (m - 1) < n)
<1>1. n \in S /\ S \in SUBSET Nat
  OBVIOUS
<1>2. PICK m \in S : \A k \in S : m <= k
  BY <1>1, LeastNat
<1>3. m \in Nat /\ m * m >= n /\ m <= n
  BY <1>1, <1>2
<1>4. m # 0
  BY <1>3
<1>5. (m - 1) * (m - 1) < n
  <2>1. m - 1 \in Nat /\ ~(m <= m - 1)
    BY <1>3, <1>4
  <2>2. m - 1 \notin S
    BY <1>2, <2>1
  <2> DEFINE p == m - 1
  <2>3. p \in Nat /\ ~(p * p >= n)
    BY <2>1, <2>2
  <2> HIDE DEF p
  <2>4. p * p < n
    BY <2>3
  <2> QED
    BY <2>4 DEF p
<1>6. \E r \in 0 .. n : Root(r)
  <2>1. m \in 0 .. n /\ Root(m)
    BY <1>3, <1>5
  <2> QED
    BY <2>1
<1>7. SqrtCeil(n) = CHOOSE r \in 0 .. n : Root(r)
  BY DEF SqrtCeil
<1>8. SqrtCeil(n) \in 0 .. n /\ Root(SqrtCeil(n))
  <2> HIDE DEF Root
  <2> QED
    BY <1>6, <1>7
<1>9. SqrtCeil(n) \in Nat /\ SqrtCeil(n) * SqrtCeil(n) >= n
  BY <1>8
<1>10. SqrtCeil(n) # 0
  <2> SUFFICES ASSUME SqrtCeil(n) = 0 PROVE FALSE
    OBVIOUS
  <2>1. 0 * 0 >= n
    BY <1>9
  <2> QED
    BY <2>1
<1> QED
  BY <1>9, <1>10

\* Quotient and remainder of a number put together from them.
LEMMA DivMod ==
    ASSUME NEW m \in Nat, m # 0, NEW i \in Nat, NEW j \in 0 .. m - 1
    PROVE  (i * m + j) % m = j /\ (i * m + j) \div m = i
<1> DEFINE x == i * m + j
           q == x \div m
           r == x % m
<1>1. x \in Int
  OBVIOUS
<1>2. q \in Int /\ r \in 0 .. m - 1 /\ x = q * m + r
  <2> HIDE DEF x
  <2> QED
    BY <1>1
<1> HIDE DEF q, r
<1>3. i * m + j = q * m + r
  BY <1>2
<1>4. (q - i) * m = j - r
  <2>1. (q - i) * m = q * m - i * m
    BY <1>2
  <2> QED
    BY <1>2, <1>3, <2>1
<1> DEFINE d == q - i
<1>5. d \in Int /\ d * m = j - r
  BY <1>2, <1>4
<1> HIDE DEF d
<1>6. ~(d >= 1)
  <2> SUFFICES ASSUME d >= 1 PROVE FALSE
    OBVIOUS
  <2>1. d * m >= m
    BY <1>5
  <2> QED
    BY <1>2, <1>5, <2>1
<1>7. ~(d <= -1)
  <2> SUFFICES ASSUME d <= -1 PROVE FALSE
    OBVIOUS
  <2>1. d * m <= -m
    BY <1>5
  <2> QED
    BY <1>2, <1>5, <2>1
<1>8. d = 0
  BY <1>5, <1>6, <1>7
<1>9. q = i /\ j = r
  BY <1>2, <1>5, <1>8 DEF d
<1> QED
  BY <1>9 DEF q, r

\* A giant step meets a baby step exactly at a logarithm of the point.
LEMMA StepsMeet ==
    ASSUME NEW beta \in 0 .. Order - 1, NEW m \in Nat, NEW i \in Nat, NEW j \in Nat
    PROVE  ScalarMult(Generator, j) = Add(beta, Neg(ScalarMult(Generator, i * m)))
               <=> Same(i * m + j, beta)
<1> DEFINE t == i * m
           a == ScalarMult(Generator, j)
           b == ScalarMult(Generator, t)
           n == Neg(b)
           g == Add(beta, n)
<1>1. t \in Int /\ j \in Int /\ beta \in Int /\ 1 \in Int /\ Generator = 1
  BY ElGamalAssumption DEF Generator
<1> HIDE DEF t
<1>2. a \in 0 .. Order - 1 /\ Same(a, j)
  <2>1. a \in 0 .. Order - 1 /\ Same(a, 1 * j)
    BY <1>1, GroupOperations
  <2>2. 1 * j = j
    BY <1>1
  <2> QED
    BY <2>1, <2>2
<1>3. b \in 0 .. Order - 1 /\ Same(b, t)
  <2>1. b \in 0 .. Order - 1 /\ Same(b, 1 * t)
    BY <1>1, GroupOperations
  <2>2. 1 * t = t
    BY <1>1
  <2> QED
    BY <2>1, <2>2
<1> HIDE DEF a, b
<1>4. b \in Int /\ a \in Int /\ 0 \in Int
  BY <1>2, <1>3
<1>5. n \in 0 .. Order - 1 /\ Same(n, -b)
  BY <1>4, GroupOperations
<1> HIDE DEF n
<1>6. n \in Int /\ -b \in Int /\ -t \in Int
  BY <1>1, <1>4, <1>5
<1>7. g \in 0 .. Order - 1 /\ Same(g, beta + n)
  BY <1>1, <1>6, GroupOperations
<1> HIDE DEF g
<1>8. g \in Int /\ beta + n \in Int /\ beta - t \in Int
  BY <1>1, <1>6, <1>7
<1>9. Same(n, -t)
  <2>1. Same(0 - b, 0 - t)
    BY <1>1, <1>3, <1>4, SameReflexive, SameDifference
  <2>2. 0 - b = -b /\ 0 - t = -t
    BY <1>1, <1>4
  <2> QED
    BY <1>5, <1>6, <2>1, <2>2, SameTransitive
<1>10. Same(g, beta - t)
  <2>1. Same(beta + n, beta + (-t))
    BY <1>1, <1>6, <1>9, SameReflexive, SameSum
  <2>2. beta + (-t) = beta - t
    BY <1>1
  <2> QED
    BY <1>7, <1>8, <2>1, <2>2, SameTransitive
<1>11. ASSUME a = g PROVE Same(t + j, beta)
  <2>1. Same(j, a)
    BY <1>1, <1>2, <1>4, SameSymmetric
  <2>2. Same(j, beta - t)
    BY <1>1, <1>4, <1>8, <1>10, <1>11, <2>1, SameTransitive
  <2>3. Same(t + j, t + (beta - t))
    BY <1>1, <1>8, <2>2, SameReflexive, SameSum
  <2>4. t + (beta - t) = beta
    BY <1>1
  <2> QED
    BY <2>3, <2>4
<1>12. ASSUME Same(t + j, beta) PROVE a = g
  <2>0. t + j \in Int /\ (t + j) - t = j
    BY <1>1
  <2>1. Same((t + j) - t, beta - t)
    BY <1>1, <1>12, <2>0, SameReflexive, SameDifference
  <2>2. Same(a, beta - t)
    BY <1>1, <1>2, <1>4, <1>8, <2>0, <2>1, SameTransitive
  <2>3. Same(beta - t, g)
    BY <1>8, <1>10, SameSymmetric
  <2>4. Same(a, g)
    BY <1>4, <1>8, <2>2, <2>3, SameTransitive
  <2> QED
    BY <1>2, <1>7, <2>4, SameUnique
<1> QED
  BY <1>11, <1>12 DEF g, n, b, a, t

\* The search finds the logarithm of a point when it is within the bound, and
\* nothing otherwise.
LEMMA SearchFinds ==
    ASSUME NEW beta \in 0 .. Order - 1, NEW max \in 0 .. Order - 1
    PROVE  BabyStepGiantStepECC(beta, Generator, max) = IF beta <= max THEN beta ELSE NotFound
<1>0. beta \in Nat /\ max \in Nat /\ Order \in Nat
  BY ElGamalAssumption
<1>1. CASE max = 0
  <2>1. beta = Identity <=> beta <= max
    BY <1>0, <1>1 DEF Identity
  <2>2. CASE beta = Identity
    BY <1>1, <2>1, <2>2 DEF BabyStepGiantStepECC, Identity
  <2>3. CASE beta # Identity
    BY <1>1, <2>1, <2>3 DEF BabyStepGiantStepECC, Identity
  <2> QED
    BY <2>2, <2>3
<1>2. CASE max # 0
  <2> DEFINE m == SqrtCeil(max)
             table == [j \in 0 .. m - 1 |-> ScalarMult(Generator, j)]
             giant(i) == Add(beta, Neg(ScalarMult(Generator, i * m)))
             Reached == {i * m + j : i \in GiantSteps(m), j \in 0 .. m - 1}
             Hits == {x \in Reached : x <= max /\ table[x % m] = giant(x \div m)}
  <2>1. m \in Nat /\ m # 0 /\ m * m >= max
    BY <1>0, <1>2, SqrtCovers
  <2>2. BabyStepGiantStepECC(beta, Generator, max) =
          IF Hits = {} THEN NotFound ELSE CHOOSE x \in Hits : \A y \in Hits : x <= y
    <3>1. max > 0
      BY <1>0, <1>2
    <3>2. CASE Hits = {}
      BY <1>2, <3>1, <3>2 DEF BabyStepGiantStepECC
    <3>3. CASE Hits # {}
      BY <1>2, <3>1, <3>3 DEF BabyStepGiantStepECC
    <3> HIDE DEF Hits
    <3> QED
      BY <3>2, <3>3
  <2> HIDE DEF m
  <2>3. ASSUME NEW i \in Nat, NEW j \in 0 .. m - 1
        PROVE  /\ (i * m + j) % m = j /\ (i * m + j) \div m = i
               /\ table[j] = giant(i) <=> Same(i * m + j, beta)
    <3>1. (i * m + j) % m = j /\ (i * m + j) \div m = i
      BY <2>1, DivMod
    <3>2. j \in Nat
      BY <2>1
    <3>3. ScalarMult(Generator, j) = giant(i) <=> Same(i * m + j, beta)
      BY <2>1, <3>2, StepsMeet
    <3>4. table[j] = ScalarMult(Generator, j)
      OBVIOUS
    <3> QED
      BY <3>1, <3>3, <3>4
  <2> HIDE DEF table, giant
  <2>4. \A x \in Hits : x = beta
    <3> SUFFICES ASSUME NEW x \in Hits PROVE x = beta
      OBVIOUS
    <3>1. PICK i \in GiantSteps(m), j \in 0 .. m - 1 : x = i * m + j
      OBVIOUS
    <3>2. i \in Nat
      BY <2>1 DEF GiantSteps
    <3>3. Same(x, beta)
      BY <2>3, <3>1, <3>2
    <3>4. x <= max /\ x \in Nat
      BY <2>1, <3>1, <3>2
    <3>5. x \in 0 .. Order - 1
      BY <1>0, <3>4
    <3> QED
      BY <3>3, <3>5, SameUnique
  <2>5. beta <= max => beta \in Hits
    <3> SUFFICES ASSUME beta <= max PROVE beta \in Hits
      OBVIOUS
    <3> DEFINE i == beta \div m
               j == beta % m
    <3>1. i \in Nat /\ j \in 0 .. m - 1 /\ beta = i * m + j
      BY <1>0, <2>1
    <3> HIDE DEF i, j
    <3>2. i <= m
      <4> SUFFICES ASSUME i >= m + 1 PROVE FALSE
        BY <2>1, <3>1
      <4>1. i * m >= (m + 1) * m
        BY <2>1, <3>1
      <4>2. (m + 1) * m = m * m + m
        BY <2>1
      <4> QED
        BY <1>0, <2>1, <3>1, <4>1, <4>2
    <3>3. i \in GiantSteps(m)
      BY <2>1, <3>1, <3>2 DEF GiantSteps
    <3>4. Same(i * m + j, beta)
      BY <1>0, <3>1, SameReflexive
    <3>5. table[beta % m] = giant(beta \div m)
      BY <2>3, <3>1, <3>4
    <3>6. beta \in Reached
      BY <3>1, <3>3
    <3> QED
      BY <3>5, <3>6
  <2>6. Hits \subseteq {x \in Nat : x <= max}
    BY <1>0, <2>4
  <2> HIDE DEF Hits
  <2>7. CASE beta <= max
    <3>1. Hits = {beta}
      BY <2>4, <2>5, <2>7
    <3>2. \A y \in Hits : beta <= y
      BY <1>0, <3>1
    <3>3. (CHOOSE x \in Hits : \A y \in Hits : x <= y) = beta
      BY <3>1, <3>2
    <3> QED
      BY <2>2, <2>7, <3>1, <3>3
  <2>8. CASE ~(beta <= max)
    <3>1. Hits = {}
      BY <2>4, <2>6, <2>8
    <3> QED
      BY <2>2, <2>8, <3>1
  <2> QED
    BY <2>7, <2>8
<1> QED
  BY <1>1, <1>2

----------------------------------------------------------------------------
(* The proof of a decryption                                               *)

\* Products keep residues.
LEMMA SameProduct ==
    ASSUME NEW a \in Int, NEW b \in Int, NEW c \in Int, NEW d \in Int, Same(a, b), Same(c, d)
    PROVE  Same(a * c, b * d)
<1>1. a * c \in Int /\ b * c \in Int /\ b * d \in Int
  OBVIOUS
<1>2. Same(a * c, b * c)
  BY SameMultiple
<1>3. Same(c * b, d * b)
  BY SameMultiple
<1>4. c * b = b * c /\ d * b = b * d
  OBVIOUS
<1> QED
  BY <1>1, <1>2, <1>3, <1>4, SameTransitive

\* The order is prime: a product is zero only if a factor is.
LEMMA PrimeOrder ==
    ASSUME NEW d \in Int, NEW e \in 1 .. Order - 1, Same(d * e, 0)
    PROVE  Same(d, 0)
<1> DEFINE r == d % Order
<1>1. r \in 0 .. Order - 1 /\ Same(r, d)
  BY Residue
<1> HIDE DEF r
<1>2. r \in Int /\ e \in Int /\ r * e \in Int /\ d * e \in Int /\ 0 \in 0 .. Order - 1
  BY <1>1, ElGamalAssumption
<1>3. Same(r * e, 0)
  <2>1. Same(r * e, d * e)
    BY <1>1, <1>2, SameMultiple
  <2> QED
    BY <1>2, <2>1, SameTransitive
<1>4. (r * e) % Order = 0
  <2> DEFINE t == r * e
  <2>1. t \in Int /\ Same(t, 0)
    BY <1>2, <1>3
  <2> HIDE DEF t
  <2>2. t % Order \in 0 .. Order - 1 /\ Same(t % Order, t)
    BY <2>1, Residue
  <2>3. t % Order \in Int
    BY <2>2
  <2>4. Same(t % Order, 0)
    BY <2>1, <2>2, <2>3, SameTransitive
  <2>5. t % Order = 0
    BY <1>2, <2>2, <2>4, SameUnique
  <2> QED
    BY <2>5 DEF t
<1>5. r = 0
  <2> SUFFICES ASSUME r # 0 PROVE FALSE
    OBVIOUS
  <2>1. r \in 1 .. Order - 1
    BY <1>1, ElGamalAssumption
  <2>2. (r * e) % Order # 0
    BY <2>1, ElGamalAssumption
  <2> QED
    BY <1>4, <2>2
<1> QED
  BY <1>1, <1>2, <1>5, SameSymmetric

\* The parts of a proof that the key holder builds, up to residues.
LEMMA ProofParts ==
    ASSUME NEW x \in 1 .. Order - 1, NEW c, NEW T \in Nat, NEW m \in Nat, NEW r \in 1 .. Order - 1,
           Encrypts(x, c, T)
    PROVE  LET pk == ScalarBaseMult(x)
               p  == BuildDecryptionProof(x, pk, c, m, r)
               e  == Challenge(pk, c, m, p.A1, p.A2)
               S  == SharedSecret(c, m)
           IN  /\ pk \in Int /\ Same(pk, x) /\ S \in Int /\ Same(S, c.C2 - m)
               /\ p.A1 \in Int /\ Same(p.A1, r) /\ p.A2 \in Int /\ Same(p.A2, c.C1 * r)
               /\ e \in 1 .. Order - 1 /\ p.Z \in Int /\ Same(p.Z, r + e * x)
<1> DEFINE pk == ScalarBaseMult(x)
           A1 == ScalarBaseMult(r)
           c1 == c.C1
           c2 == c.C2
           A2 == ScalarMult(c1, r)
           S == SharedSecret(c, m)
           e == Challenge(pk, c, m, A1, A2)
           Z == (r + e * x) % Order
           p == BuildDecryptionProof(x, pk, c, m, r)
<1>0. x \in Int /\ r \in Int /\ m \in Int /\ c1 \in Int /\ c2 \in Int
  BY ElGamalAssumption DEF Encrypts
<1>1. p.A1 = A1 /\ p.A2 = A2 /\ p.Z = Z
  BY DEF BuildDecryptionProof
<1>2. pk \in Int /\ Same(pk, x)
  BY <1>0, GroupOperations
<1>3. A1 \in Int /\ Same(A1, r)
  BY <1>0, GroupOperations
<1>4. A2 \in Int /\ Same(A2, c1 * r)
  <2> HIDE DEF c1
  <2>1. A2 \in 0 .. Order - 1 /\ Same(A2, c1 * r)
    BY <1>0, GroupOperations
  <2>2. A2 \in Int
    BY <2>1, ElGamalAssumption
  <2> QED
    BY <2>1, <2>2
<1>5. S \in Int /\ Same(S, c2 - m)
  <2> DEFINE t == m % Order
             u == ScalarBaseMult(t)
             n == Neg(u)
  <2>1. t \in Int /\ Same(t, m)
    BY <1>0, Residue
  <2>2. S = Add(c2, n)
    BY DEF SharedSecret
  <2> HIDE DEF S, c2
  <2> HIDE DEF t
  <2>3. u \in Int /\ Same(u, t)
    BY <2>1, GroupOperations
  <2> HIDE DEF u
  <2>4. n \in Int /\ Same(n, -u)
    BY <2>3, GroupOperations
  <2> HIDE DEF n
  <2>5. S \in Int /\ Same(S, c2 + n)
    BY <1>0, <2>2, <2>4, GroupOperations
  <2>6. Same(u, m)
    BY <1>0, <2>1, <2>3, SameTransitive
  <2>7. Same(c2 + n, c2 + (-u)) /\ c2 + (-u) = c2 - u
    <3>1. -u \in Int /\ c2 + (-u) = c2 - u
      BY <1>0, <2>3
    <3>2. Same(c2 + n, c2 + (-u))
      BY <1>0, <2>4, <3>1, SameReflexive, SameSum
    <3> QED
      BY <3>1, <3>2
  <2>8. Same(c2 - u, c2 - m)
    BY <1>0, <2>3, <2>6, SameReflexive, SameDifference
  <2>9. c2 + n \in Int /\ c2 - u \in Int /\ c2 - m \in Int
    BY <1>0, <2>3, <2>4
  <2>10. Same(S, c2 - u)
    BY <2>5, <2>7, <2>9, SameTransitive
  <2> QED
    BY <2>5, <2>8, <2>9, <2>10, SameTransitive
<1>6. e \in 1 .. Order - 1
  <2>1. e = MultiPoseidon(<<pk, pk, c1, S, A1, A2>>)
    BY DEF Challenge
  <2> HIDE DEF e, pk, c1, S, A1, A2
  <2>2. <<pk, pk, c1, S, A1, A2>> \in Seq(Int) /\ <<pk, pk, c1, S, A1, A2>> # <<>>
    BY <1>0, <1>2, <1>3, <1>4, <1>5
  <2> QED
    BY <2>1, <2>2, HashRange
<1>7. Z \in Int /\ Same(Z, r + e * x)
  <2> HIDE DEF e
  <2> DEFINE t == r + e * x
  <2>1. t \in Int
    BY <1>0, <1>6
  <2> HIDE DEF t
  <2>2. t % Order \in 0 .. Order - 1 /\ Same(t % Order, t)
    BY <2>1, Residue
  <2>3. t % Order \in Int
    BY <2>2
  <2> QED
    BY <2>2, <2>3 DEF t
<1> HIDE DEF pk, A1, A2, S, e, Z, p
<1>8. /\ pk \in Int /\ Same(pk, x) /\ S \in Int /\ Same(S, c.C2 - m)
      /\ p.A1 \in Int /\ Same(p.A1, r) /\ p.A2 \in Int /\ Same(p.A2, c.C1 * r)
      /\ p.Z \in Int
  BY <1>1, <1>2, <1>3, <1>4, <1>5, <1>7
<1>9. Challenge(pk, c, m, p.A1, p.A2) = e
  BY <1>1 DEF e
<1> QED
  BY <1>1, <1>6, <1>7, <1>8, <1>9 DEF pk, p, S

\* The first equation of the verifier holds whatever the message.
LEMMA FirstEquation ==
    ASSUME NEW x \in Int, NEW pk \in Int, NEW A1 \in Int, NEW r \in Int, NEW e \in Int, NEW Z \in Int,
           Same(pk, x), Same(A1, r), Same(Z, r + e * x)
    PROVE  ScalarBaseMult(Z) = Add(A1, ScalarMult(pk, e))
<1> DEFINE L == ScalarBaseMult(Z)
           s == ScalarMult(pk, e)
           R == Add(A1, s)
<1>1. L \in 0 .. Order - 1 /\ Same(L, Z)
  BY GroupOperations
<1>2. s \in 0 .. Order - 1 /\ Same(s, pk * e)
  BY GroupOperations
<1>3. s \in Int /\ pk * e \in Int /\ x * e \in Int /\ e * x \in Int /\ x * e = e * x
  BY <1>2
<1> HIDE DEF s, L
<1>4. R \in 0 .. Order - 1 /\ Same(R, A1 + s)
  BY <1>3, GroupOperations
<1> HIDE DEF R
<1> DEFINE w == e * x
<1> HIDE DEF w
<1>5. Same(s, w) /\ w \in Int
  <2>1. Same(pk * e, x * e)
    BY SameMultiple
  <2>2. Same(s, x * e)
    BY <1>2, <1>3, <2>1, SameTransitive
  <2> QED
    BY <1>3, <2>2 DEF w
<1>6. Same(A1 + s, r + w)
  BY <1>3, <1>5, SameSum
<1>7. L \in Int /\ R \in Int /\ A1 + s \in Int /\ r + w \in Int
  BY <1>1, <1>3, <1>4, <1>5
<1>8. Same(R, r + w)
  BY <1>4, <1>6, <1>7, SameTransitive
<1>9. Same(L, r + w)
  <2>1. Same(Z, r + w)
    BY DEF w
  <2> QED
    BY <1>1, <1>7, <2>1, SameTransitive
<1>10. Same(r + w, R)
  BY <1>7, <1>8, SameSymmetric
<1>11. Same(L, R)
  BY <1>7, <1>9, <1>10, SameTransitive
<1>12. L = R
  BY <1>1, <1>4, <1>11, SameUnique
<1> QED
  BY <1>12 DEF L, R, s

\* The second holds for the message of the ciphertext alone.
LEMMA SecondEquation ==
    ASSUME NEW x \in Int, NEW c1 \in Int, NEW c2 \in Int, NEW T \in 0 .. Order - 1,
           NEW m \in 0 .. Order - 1, NEW A2 \in Int, NEW S \in Int, NEW r \in Int,
           NEW e \in 1 .. Order - 1, NEW Z \in Int,
           Same(c2, T + x * c1), Same(S, c2 - m), Same(A2, c1 * r), Same(Z, r + e * x)
    PROVE  ScalarMult(c1, Z) = Add(A2, ScalarMult(S, e)) <=> m = T
<1> DEFINE w == x * c1
           L == ScalarMult(c1, Z)
           s == ScalarMult(S, e)
           R == Add(A2, s)
           k == c1 * r + w * e
           f == (T - m) * e
<1>0. e \in Int /\ T \in Int /\ m \in Int /\ w \in Int
  BY ElGamalAssumption
<1>1. L \in 0 .. Order - 1 /\ Same(L, c1 * Z)
  BY GroupOperations
<1>2. s \in 0 .. Order - 1 /\ Same(s, S * e)
  BY <1>0, GroupOperations
<1>3. s \in Int /\ L \in Int
  BY <1>1, <1>2
<1> HIDE DEF s, L
<1>4. R \in 0 .. Order - 1 /\ Same(R, A2 + s)
  BY <1>3, GroupOperations
<1> HIDE DEF R
<1>5. Same(L, k)
  <2> DEFINE t == r + e * x
  <2>1. t \in Int /\ Same(Z, t)
    BY <1>0
  <2>2. c1 * t = k
    <3>1. c1 * (r + e * x) = c1 * r + c1 * (e * x)
      BY <1>0
    <3>2. c1 * (e * x) = (x * c1) * e
      BY <1>0
    <3> QED
      BY <3>1, <3>2
  <2> HIDE DEF t, k
  <2>3. Same(c1 * Z, c1 * t)
    BY <2>1, SameReflexive, SameProduct
  <2>4. c1 * Z \in Int /\ c1 * t \in Int
    BY <2>1
  <2> QED
    BY <1>1, <1>3, <2>2, <2>3, <2>4, SameTransitive
<1>6. Same(R, k + f)
  <2> DEFINE g == T + w
             h == g - m
             z == c1 * r
  <2>1. g \in Int /\ h \in Int /\ z \in Int /\ Same(c2, g) /\ c2 - m \in Int
    BY <1>0
  <2>2. z + h * e = k + f
    <3>1. h * e = (T - m) * e + w * e
      BY <1>0
    <3>2. z \in Int /\ w * e \in Int /\ (T - m) * e \in Int
      BY <1>0
    <3> QED
      BY <3>1, <3>2
  <2>3. Same(c2 - m, h)
    <3> HIDE DEF g
    <3> QED
      BY <1>0, <2>1, SameReflexive, SameDifference
  <2> HIDE DEF g, h, z
  <2>4. Same(S, h)
    BY <2>1, <2>3, SameTransitive
  <2>5. Same(S * e, h * e)
    BY <1>0, <2>1, <2>4, SameMultiple
  <2>6. S * e \in Int /\ h * e \in Int
    BY <1>0, <2>1
  <2>7. Same(s, h * e)
    BY <1>2, <1>3, <2>5, <2>6, SameTransitive
  <2>8. Same(A2, z)
    BY DEF z
  <2>9. Same(A2 + s, z + h * e)
    BY <1>3, <2>1, <2>6, <2>7, <2>8, SameSum
  <2>10. A2 + s \in Int /\ z + h * e \in Int /\ R \in Int
    BY <1>3, <1>4, <2>1, <2>6
  <2>11. Same(R, z + h * e)
    BY <1>4, <2>9, <2>10, SameTransitive
  <2> QED
    BY <2>2, <2>11
<1>7. k \in Int /\ f \in Int /\ k + f \in Int /\ R \in Int
  <2>1. c1 * r \in Int /\ w * e \in Int /\ (T - m) * e \in Int
    BY <1>0
  <2> QED
    BY <1>4, <2>1
<1>8. ASSUME m = T PROVE L = R
  <2>1. f = 0
    <3>1. T - m = 0
      BY <1>0, <1>8
    <3> QED
      BY <1>0, <3>1
  <2> HIDE DEF k, f
  <2>2. k + f = k
    BY <1>7, <2>1
  <2>3. Same(k, R)
    BY <1>6, <1>7, <2>2, SameSymmetric
  <2>4. Same(L, R)
    BY <1>3, <1>5, <1>7, <2>3, SameTransitive
  <2> QED
    BY <1>1, <1>4, <2>4, SameUnique
<1>9. ASSUME L = R PROVE m = T
  <2> HIDE DEF k
  <2>1. Same(k + f, k)
    <3> HIDE DEF f
    <3>1. Same(k + f, R)
      BY <1>6, <1>7, SameSymmetric
    <3>2. Same(R, k)
      BY <1>5, <1>9
    <3> QED
      BY <1>7, <3>1, <3>2, SameTransitive
  <2>2. Same(f, 0)
    <3> HIDE DEF f
    <3>1. Same((k + f) - k, k - k)
      BY <1>7, <2>1, SameReflexive, SameDifference
    <3>2. (k + f) - k = f /\ k - k = 0
      BY <1>7
    <3> QED
      BY <3>1, <3>2
  <2>3. T - m \in Int
    BY <1>0
  <2>4. Same(T - m, 0)
    BY <2>2, <2>3, PrimeOrder
  <2>5. Same((T - m) + m, 0 + m)
    BY <1>0, <2>3, <2>4, SameReflexive, SameSum
  <2>6. (T - m) + m = T /\ 0 + m = m
    BY <1>0
  <2>7. Same(T, m)
    BY <2>5, <2>6
  <2> QED
    BY <2>7, SameUnique
<1> QED
  BY <1>8, <1>9 DEF L, R, s

\* A proof is accepted exactly for the message of the ciphertext.
LEMMA ProofShowsMessage ==
    ASSUME NEW x \in 1 .. Order - 1, NEW c, NEW T \in 0 .. Order - 1, NEW m \in 0 .. Order - 1,
           NEW r \in 1 .. Order - 1, Encrypts(x, c, T)
    PROVE  VerifyDecryptionProof(ScalarBaseMult(x), c, m,
                   BuildDecryptionProof(x, ScalarBaseMult(x), c, m, r)) <=> m = T
<1> DEFINE pk == ScalarBaseMult(x)
           p  == BuildDecryptionProof(x, pk, c, m, r)
           e  == Challenge(pk, c, m, p.A1, p.A2)
           S  == SharedSecret(c, m)
<1>1. T \in Nat /\ m \in Nat /\ x \in Int /\ r \in Int
  BY ElGamalAssumption
<1>2. /\ pk \in Int /\ Same(pk, x) /\ S \in Int /\ Same(S, c.C2 - m)
      /\ p.A1 \in Int /\ Same(p.A1, r) /\ p.A2 \in Int /\ Same(p.A2, c.C1 * r)
      /\ e \in 1 .. Order - 1 /\ p.Z \in Int /\ Same(p.Z, r + e * x)
  BY <1>1, ProofParts
<1>3. c.C1 \in Int /\ c.C2 \in Int /\ Same(c.C2, T + x * c.C1)
  BY ElGamalAssumption DEF Encrypts
<1>4. VerifyDecryptionProof(pk, c, m, p)
          <=> /\ ScalarBaseMult(p.Z) = Add(p.A1, ScalarMult(pk, e))
              /\ ScalarMult(c.C1, p.Z) = Add(p.A2, ScalarMult(S, e))
  BY DEF VerifyDecryptionProof
<1> HIDE DEF pk, p, e, S
<1>5. e \in Int
  BY <1>2
<1>6. ScalarBaseMult(p.Z) = Add(p.A1, ScalarMult(pk, e))
  BY <1>1, <1>2, <1>5, FirstEquation
<1>7. ScalarMult(c.C1, p.Z) = Add(p.A2, ScalarMult(S, e)) <=> m = T
  BY <1>1, <1>2, <1>3, SecondEquation
<1> QED
  BY <1>4, <1>6, <1>7 DEF pk, p

\* Decryption finds the message of the ciphertext when it is within the bound.
LEMMA DecryptFinds ==
    ASSUME NEW x \in 1 .. Order - 1, NEW c, NEW T \in 0 .. Order - 1, NEW max \in 0 .. Order - 1,
           Encrypts(x, c, T)
    PROVE  Decrypt(x, c, max) = IF T <= max THEN T ELSE NotFound
<1> DEFINE a == c.C1
           b == c.C2
           s == ScalarMult(a, x)
           n == Neg(s)
           beta == Add(b, n)
           w == x * a
<1>1. a \in Int /\ b \in Int /\ x \in Int /\ T \in Int /\ Same(b, T + w)
  BY ElGamalAssumption DEF Encrypts
<1>2. Decrypt(x, c, max) = BabyStepGiantStepECC(beta, Generator, max)
  BY DEF Decrypt
<1> HIDE DEF a, b
<1>3. w \in Int /\ a * x = w
  BY <1>1
<1>4. s \in 0 .. Order - 1 /\ Same(s, w)
  BY <1>1, <1>3, GroupOperations
<1> HIDE DEF w, s
<1>5. s \in Int
  BY <1>4
<1>6. n \in 0 .. Order - 1 /\ Same(n, -s)
  BY <1>5, GroupOperations
<1> HIDE DEF n
<1>7. n \in Int /\ -s \in Int
  BY <1>5, <1>6
<1>8. beta \in 0 .. Order - 1 /\ Same(beta, b + n)
  BY <1>1, <1>7, GroupOperations
<1> HIDE DEF beta
<1>9. Same(b + n, b + (-s))
  BY <1>1, <1>6, <1>7, SameReflexive, SameSum
<1>10. b + (-s) = b - s /\ (T + w) - w = T
  BY <1>1, <1>3, <1>5
<1>11. Same(b - s, (T + w) - w)
  <2>1. T + w \in Int
    BY <1>1, <1>3
  <2> QED
    BY <1>1, <1>3, <1>4, <1>5, <2>1, SameDifference
<1>12. beta \in Int /\ b + n \in Int /\ b - s \in Int
  BY <1>1, <1>5, <1>7, <1>8
<1>13. Same(beta, b - s)
  BY <1>8, <1>9, <1>10, <1>12, SameTransitive
<1>14. Same(beta, T)
  BY <1>1, <1>10, <1>11, <1>12, <1>13, SameTransitive
<1>15. beta = T
  BY <1>8, <1>14, SameUnique
<1> QED
  BY <1>2, <1>15, SearchFinds

----------------------------------------------------------------------------
(* The votes of a field                                                    *)

Messages == [1 .. Fields -> VoteValues]

\* The sum is defined, and adds the messages one by one.
LEMMA TotalUnfolds ==
    ASSUME NEW c \in Seq(Messages), NEW i \in 1 .. Fields
    PROVE  \E g : /\ g[0] = 0 /\ TotalOf(c, i) = g[Len(c)]
                  /\ \A n \in 1 .. Len(c) : g[n] = g[n - 1] + c[n][i]
<1> DEFINE len == Len(c)
           Value(n) == c[n][i]
           Good(m, g) == g = [n \in 0 .. m |-> IF n = 0 THEN 0 ELSE g[n - 1] + Value(n)]
           S == {m \in Nat : \E g : Good(m, g)}
<1>1. len \in Nat
  OBVIOUS
<1> HIDE DEF Value
<1>2. 0 \in S
  <2>1. Good(0, [n \in 0 .. 0 |-> 0])
    OBVIOUS
  <2> QED
    BY <2>1
<1>3. \A m \in S : m + 1 \in S
  <2> SUFFICES ASSUME NEW m \in S PROVE m + 1 \in S
    OBVIOUS
  <2>1. PICK g : Good(m, g)
    OBVIOUS
  <2> DEFINE h == [n \in 0 .. m + 1 |-> IF n <= m THEN g[n] ELSE g[m] + Value(m + 1)]
  <2>2. Good(m + 1, h)
    BY <2>1
  <2> HIDE DEF Good
  <2>3. \E y : Good(m + 1, y)
    BY <2>2
  <2> QED
    BY <2>3
<1>4. len \in S
  <2>1. S \in SUBSET Nat
    OBVIOUS
  <2> HIDE DEF S
  <2> QED
    BY <1>1, <1>2, <1>3, <2>1, AllNat
<1> DEFINE upTo == CHOOSE g : Good(len, g)
<1>5. Good(len, upTo)
  BY <1>4
<1>6. TotalOf(c, i) = upTo[len]
  BY DEF TotalOf, Value
<1>7. upTo = [n \in 0 .. len |-> IF n = 0 THEN 0 ELSE upTo[n - 1] + Value(n)]
  BY <1>5
<1> HIDE DEF upTo
<1>8. upTo[0] = 0 /\ \A n \in 1 .. len : upTo[n] = upTo[n - 1] + Value(n)
  <2> HIDE DEF len
  <2>1. \A n \in 0 .. len : upTo[n] = IF n = 0 THEN 0 ELSE upTo[n - 1] + Value(n)
    BY <1>7
  <2>2. 0 \in 0 .. len
    BY <1>1
  <2>3. \A n \in 1 .. len : n \in 0 .. len /\ n # 0
    BY <1>1
  <2>4. upTo[0] = 0
    BY <2>1, <2>2
  <2>5. ASSUME NEW n \in 1 .. len PROVE upTo[n] = upTo[n - 1] + Value(n)
    BY <2>1, <2>3
  <2> QED
    BY <2>4, <2>5
<1> QED
  BY <1>6, <1>8 DEF Value

\* No message, no votes.
LEMMA TotalOfNone == ASSUME NEW i \in 1 .. Fields PROVE TotalOf(<<>>, i) = 0
<1>1. <<>> \in Seq(Messages) /\ Len(<<>>) = 0
  OBVIOUS
<1>2. PICK g : g[0] = 0 /\ TotalOf(<<>>, i) = g[Len(<<>>)]
  BY <1>1, TotalUnfolds
<1> QED
  BY <1>1, <1>2

\* One more message adds its votes.
LEMMA TotalOfAppend ==
    ASSUME NEW c \in Seq(Messages), NEW msg \in Messages, NEW i \in 1 .. Fields
    PROVE  TotalOf(Append(c, msg), i) = TotalOf(c, i) + msg[i]
<1> DEFINE d == Append(c, msg)
           len == Len(c)
<1>1. d \in Seq(Messages) /\ Len(d) = len + 1 /\ len \in Nat /\ d[len + 1] = msg
  OBVIOUS
<1>2. \A n \in 1 .. len : d[n] = c[n]
  OBVIOUS
<1>3. PICK g : /\ g[0] = 0 /\ TotalOf(c, i) = g[len]
               /\ \A n \in 1 .. len : g[n] = g[n - 1] + c[n][i]
  BY TotalUnfolds
<1>4. PICK h : /\ h[0] = 0 /\ TotalOf(d, i) = h[Len(d)]
               /\ \A n \in 1 .. Len(d) : h[n] = h[n - 1] + d[n][i]
  <2> HIDE DEF d
  <2> QED
    BY <1>1, TotalUnfolds
<1> HIDE DEF d, len
<1> DEFINE S == {m \in Nat : m <= len => h[m] = g[m]}
<1>5. 0 \in S
  BY <1>3, <1>4
<1>6. \A m \in S : m + 1 \in S
  <2> SUFFICES ASSUME NEW m \in S, m + 1 <= len PROVE h[m + 1] = g[m + 1]
    OBVIOUS
  <2>1. m + 1 \in 1 .. len /\ m + 1 \in 1 .. Len(d) /\ (m + 1) - 1 = m /\ h[m] = g[m]
    BY <1>1
  <2>2. h[m + 1] = h[m] + d[m + 1][i]
    BY <1>4, <2>1
  <2>3. g[m + 1] = g[m] + c[m + 1][i]
    BY <1>3, <2>1
  <2>4. d[m + 1] = c[m + 1]
    BY <1>2, <2>1
  <2> QED
    BY <2>1, <2>2, <2>3, <2>4
<1>7. S = Nat
  <2>1. S \in SUBSET Nat
    OBVIOUS
  <2> HIDE DEF S
  <2> QED
    BY <1>5, <1>6, <2>1, AllNat
<1>8. h[len] = g[len]
  BY <1>1, <1>7
<1>9. len + 1 \in 1 .. Len(d) /\ (len + 1) - 1 = len
  BY <1>1
<1>10. h[len + 1] = h[len] + d[len + 1][i]
  BY <1>4, <1>9
<1> QED
  BY <1>1, <1>3, <1>4, <1>8, <1>10 DEF d

----------------------------------------------------------------------------
(* The tally                                                               *)

\* Adding ballots adds the messages of each field,
LEMMA BallotsAdd ==
    ASSUME NEW x \in 1 .. Order - 1, NEW u, NEW v, NEW i \in 1 .. Fields, NEW m \in Nat, NEW n \in Nat,
           Encrypts(x, u[i], m), Encrypts(x, v[i], n)
    PROVE  Encrypts(x, AddBallots(u, v)[i], m + n)
<1>1. AddBallots(u, v)[i] = [C1 |-> Add(u[i].C1, v[i].C1), C2 |-> Add(u[i].C2, v[i].C2)]
  BY DEF AddBallots
<1>2. Encrypts(x, [C1 |-> Add(u[i].C1, v[i].C1), C2 |-> Add(u[i].C2, v[i].C2)], m + n)
  BY SumEncrypts
<1> QED
  BY <1>1, <1>2

\* and re-encrypting a ballot leaves its message.
LEMMA ReencryptionKeeps ==
    ASSUME NEW x \in 1 .. Order - 1, NEW message \in Messages, NEW k \in 1 .. Order - 1,
           NEW l \in 1 .. Order - 1
    PROVE  LET pk == ScalarBaseMult(x)
               re == Reencrypt(EncryptBallot(message, pk, k), pk, l)
           IN  re.k \in 1 .. Order - 1 /\ \A i \in 1 .. Fields : Encrypts(x, re.ballot[i], message[i])
<1> DEFINE pk == ScalarBaseMult(x)
           b == EncryptBallot(message, pk, k)
           first == MultiPoseidon(<<k>>)
           again == MultiPoseidon(<<l>>)
           zero == [i \in 1 .. Fields |-> EncryptedZero(pk, FieldNonces(again)[i])]
           re == Reencrypt(b, pk, l)
<1>1. first \in 1 .. Order - 1 /\ again \in 1 .. Order - 1
  <2>1. <<k>> \in Seq(Int) /\ <<k>> # <<>> /\ <<l>> \in Seq(Int) /\ <<l>> # <<>>
    BY ElGamalAssumption
  <2> QED
    BY <2>1, HashRange
<1>2. re.k = again /\ re.ballot = AddBallots(b, zero)
  BY DEF Reencrypt
<1>3. ASSUME NEW i \in 1 .. Fields PROVE Encrypts(x, re.ballot[i], message[i])
  <2>1. message[i] \in Nat /\ 0 \in Nat
    BY ElGamalAssumption DEF Messages
  <2>2. Encrypts(x, b[i], message[i])
    <3>1. b[i] = EncryptWithK(pk, message[i], FieldNonces(first)[i])
      BY DEF EncryptBallot
    <3> HIDE DEF first
    <3>2. FieldNonces(first)[i] \in 1 .. Order - 1
      BY <1>1, NoncesAreScalars
    <3> QED
      BY <2>1, <3>1, <3>2, EncryptionEncrypts
  <2>3. Encrypts(x, zero[i], 0)
    <3>1. zero[i] = EncryptWithK(pk, 0, FieldNonces(again)[i])
      BY DEF EncryptedZero
    <3> HIDE DEF again, zero
    <3>2. FieldNonces(again)[i] \in 1 .. Order - 1
      BY <1>1, NoncesAreScalars
    <3> QED
      BY <2>1, <3>1, <3>2, EncryptionEncrypts
  <2> HIDE DEF b, zero
  <2>4. Encrypts(x, AddBallots(b, zero)[i], message[i] + 0)
    BY <2>1, <2>2, <2>3, BallotsAdd
  <2>5. message[i] + 0 = message[i]
    BY <2>1
  <2> QED
    BY <1>2, <2>4, <2>5
<1> HIDE DEF re
<1>4. re.k \in 1 .. Order - 1
  BY <1>1, <1>2
<1> QED
  BY <1>3, <1>4 DEF re, b, pk

\* The votes of field i are those of the ballots cast, and too few to reach the
\* order of the group.
Bounded(i) ==
    /\ TotalOf(cast, i) \in Nat
    /\ TotalOf(cast, i) * MaxTally <= Len(cast) * (Order - 1)
    /\ cast = <<>> => TotalOf(cast, i) = 0

\* The inductive invariant: each sum is a ciphertext of the votes of its field.
TallyInv ==
    /\ privateKey \in PrivateKeys /\ lastK \in 1 .. Order - 1
    /\ cast \in Seq(Messages) /\ Len(cast) <= MaxTally
    /\ \A i \in 1 .. Fields : Bounded(i) /\ Encrypts(privateKey, sum[i], TotalOf(cast, i))

\* Initially the sums are ciphertexts of zero.
LEMMA TallyInitially == ElGamalInit => TallyInv
<1> SUFFICES ASSUME ElGamalInit PROVE TallyInv
  OBVIOUS
<1>1. privateKey \in PrivateKeys /\ lastK \in 1 .. Order - 1 /\ cast = <<>>
  BY ElGamalAssumption DEF ElGamalInit
<1>2. cast \in Seq(Messages) /\ Len(cast) = 0 /\ Len(cast) <= MaxTally
  BY <1>1, ElGamalAssumption
<1>3. ASSUME NEW i \in 1 .. Fields PROVE Bounded(i) /\ Encrypts(privateKey, sum[i], TotalOf(cast, i))
  <2>1. TotalOf(cast, i) = 0
    BY <1>1, TotalOfNone
  <2>2. Bounded(i)
    <3>1. 0 * MaxTally <= 0 * (Order - 1)
      BY ElGamalAssumption
    <3> QED
      BY <1>2, <2>1, <3>1 DEF Bounded
  <2>3. sum[i] = [C1 |-> 0, C2 |-> 0] /\ 0 \in 0 .. Order - 1
    BY ElGamalAssumption DEF ElGamalInit, Identity
  <2>4. Same(0, 0 + privateKey * 0)
    <3>1. privateKey \in Int
      BY <1>1, ElGamalAssumption
    <3>2. 0 + privateKey * 0 = 0
      BY <3>1
    <3> QED
      BY <3>2, SameReflexive
  <2>5. Encrypts(privateKey, sum[i], 0)
    BY <2>3, <2>4 DEF Encrypts
  <2> QED
    BY <2>1, <2>2, <2>5
<1> QED
  BY <1>1, <1>2, <1>3 DEF TallyInv

\* A ballot added keeps them ciphertexts of the votes.
LEMMA TallyKept ==
    ASSUME TallyInv, NEW message \in Messages, NEW k \in Nonces, Tally(message, k)
    PROVE  TallyInv'
<1> DEFINE pk == ScalarBaseMult(privateKey)
           re == Reencrypt(EncryptBallot(message, pk, k), pk, lastK)
<1>1. /\ privateKey \in PrivateKeys /\ privateKey \in 1 .. Order - 1 /\ lastK \in 1 .. Order - 1
      /\ k \in 1 .. Order - 1 /\ cast \in Seq(Messages)
  BY ElGamalAssumption DEF TallyInv
<1>2. /\ Len(cast) < MaxTally /\ sum' = AddBallots(sum, re.ballot) /\ lastK' = re.k
      /\ cast' = Append(cast, message) /\ privateKey' = privateKey
  BY DEF Tally, publicKey
<1>3. re.k \in 1 .. Order - 1 /\ \A i \in 1 .. Fields : Encrypts(privateKey, re.ballot[i], message[i])
  BY <1>1, ReencryptionKeeps
<1> HIDE DEF re
<1>4. cast' \in Seq(Messages) /\ Len(cast') = Len(cast) + 1 /\ Len(cast) \in Nat /\ cast' # <<>>
  BY <1>1, <1>2
<1>5. Len(cast') <= MaxTally
  BY <1>2, <1>4, ElGamalAssumption
<1>6. ASSUME NEW i \in 1 .. Fields
      PROVE  Bounded(i)' /\ Encrypts(privateKey', sum'[i], TotalOf(cast', i))
  <2>1. Bounded(i) /\ Encrypts(privateKey, sum[i], TotalOf(cast, i))
    BY DEF TallyInv
  <2>2. TotalOf(cast', i) = TotalOf(cast, i) + message[i]
    BY <1>1, <1>2, TotalOfAppend
  <2>3. message[i] \in Nat /\ message[i] * MaxTally < Order /\ message[i] * MaxTally \in Nat
    BY ElGamalAssumption DEF Messages
  <2>4. TotalOf(cast, i) \in Nat
    BY <2>1 DEF Bounded
  <2> DEFINE t == TotalOf(cast, i)
             v == message[i]
             l == Len(cast)
             o == Order - 1
  <2>5. t \in Nat /\ v \in Nat /\ l \in Nat /\ o \in Nat /\ MaxTally \in Nat /\ v * MaxTally <= o
        /\ t * MaxTally <= l * o
    BY <1>4, <2>1, <2>3, <2>4, ElGamalAssumption DEF Bounded
  <2> HIDE DEF t, v, l, o
  <2>6. (t + v) * MaxTally <= (l + 1) * o
    <3>1. (t + v) * MaxTally = t * MaxTally + v * MaxTally
      BY <2>5
    <3>2. (l + 1) * o = l * o + o
      BY <2>5
    <3>3. t * MaxTally \in Nat /\ v * MaxTally \in Nat /\ l * o \in Nat
      BY <2>5
    <3> QED
      BY <2>5, <3>1, <3>2, <3>3
  <2>7. Bounded(i)'
    <3>1. TotalOf(cast', i) = t + v /\ Len(cast') = l + 1 /\ t + v \in Nat
      BY <1>4, <2>2, <2>5 DEF t, v, l
    <3>2. TotalOf(cast', i) * MaxTally <= Len(cast') * (Order - 1)
      BY <2>6, <3>1 DEF o
    <3> QED
      BY <1>4, <3>1, <3>2 DEF Bounded
  <2>8. Encrypts(privateKey, re.ballot[i], message[i])
    BY <1>3
  <2>9. Encrypts(privateKey, AddBallots(sum, re.ballot)[i], TotalOf(cast, i) + message[i])
    BY <1>1, <2>1, <2>3, <2>4, <2>8, BallotsAdd
  <2> QED
    BY <1>2, <2>2, <2>7, <2>9
<1> QED
  BY <1>1, <1>2, <1>3, <1>4, <1>5, <1>6 DEF TallyInv

\* The sums are always ciphertexts of the votes.
LEMMA TallyInvariant == ElGamalSpec => []TallyInv
<1>1. ASSUME TallyInv, [ElGamalNext]_elGamalVars PROVE TallyInv'
  <2>1. CASE ElGamalNext
    <3>1. PICK message \in Messages, k \in Nonces : Tally(message, k)
      BY <2>1 DEF ElGamalNext, Messages
    <3> QED
      BY <1>1, <3>1, TallyKept
  <2>2. CASE UNCHANGED elGamalVars
    <3>1. privateKey' = privateKey /\ sum' = sum /\ lastK' = lastK /\ cast' = cast
      BY <2>2 DEF elGamalVars
    <3> QED
      BY <1>1, <3>1 DEF TallyInv, Bounded
  <2> QED
    BY <1>1, <2>1, <2>2
<1> QED
  BY <1>1, TallyInitially, PTL DEF ElGamalSpec

\* Then the votes of a field are a residue,
LEMMA TotalsFit == ASSUME TallyInv, NEW i \in 1 .. Fields PROVE TotalOf(cast, i) \in 0 .. Order - 1
<1> DEFINE t == TotalOf(cast, i)
           l == Len(cast)
           o == Order - 1
<1>1. Bounded(i) /\ cast \in Seq(Messages) /\ l <= MaxTally
  BY DEF TallyInv
<1>2. t \in Nat /\ l \in Nat /\ o \in Nat /\ MaxTally \in Nat /\ t * MaxTally <= l * o
  BY <1>1, ElGamalAssumption DEF Bounded
<1>3. CASE MaxTally = 0
  <2>1. cast = <<>>
    BY <1>1, <1>2, <1>3
  <2> QED
    BY <1>1, <1>2, <2>1, ElGamalAssumption DEF Bounded
<1>4. CASE MaxTally # 0
  <2> HIDE DEF t, l, o
  <2>1. t <= o
    <3> SUFFICES ASSUME t >= o + 1 PROVE FALSE
      BY <1>2
    <3>1. t * MaxTally >= (o + 1) * MaxTally
      BY <1>2
    <3>2. (o + 1) * MaxTally = o * MaxTally + MaxTally
      BY <1>2
    <3>3. l * o <= MaxTally * o /\ MaxTally * o = o * MaxTally
      BY <1>1, <1>2
    <3>4. t * MaxTally \in Nat /\ o * MaxTally \in Nat /\ l * o \in Nat
      BY <1>2
    <3> QED
      BY <1>2, <1>4, <3>1, <3>2, <3>3, <3>4
  <2> QED
    BY <1>2, <2>1, ElGamalAssumption DEF t, o
<1> QED
  BY <1>3, <1>4

\* and decryption and its proof are right about it.
LEMMA DecryptionIsRight == TallyInv => TallyDecrypts
<1> SUFFICES ASSUME TallyInv, NEW i \in 1 .. Fields
             PROVE  /\ \A max \in 0 .. Order - 1 :
                           Decrypt(privateKey, sum[i], max) =
                               IF Total(i) <= max THEN Total(i) ELSE NotFound
                    /\ \A msg \in 0 .. Order - 1, r \in Nonces :
                           VerifyDecryptionProof(publicKey, sum[i], msg,
                                   BuildDecryptionProof(privateKey, publicKey, sum[i], msg, r))
                               <=> msg = Total(i)
  BY DEF TallyDecrypts
<1> DEFINE T == TotalOf(cast, i)
<1>1. T \in 0 .. Order - 1
  BY TotalsFit
<1>2. privateKey \in 1 .. Order - 1 /\ Encrypts(privateKey, sum[i], T)
  BY ElGamalAssumption DEF TallyInv
<1> HIDE DEF T
<1>3. ASSUME NEW max \in 0 .. Order - 1
      PROVE  Decrypt(privateKey, sum[i], max) = IF T <= max THEN T ELSE NotFound
  BY <1>1, <1>2, DecryptFinds
<1>4. ASSUME NEW msg \in 0 .. Order - 1, NEW r \in Nonces
      PROVE  VerifyDecryptionProof(publicKey, sum[i], msg,
                     BuildDecryptionProof(privateKey, publicKey, sum[i], msg, r)) <=> msg = T
  <2>1. r \in 1 .. Order - 1
    BY ElGamalAssumption
  <2> QED
    BY <1>1, <1>2, <2>1, ProofShowsMessage DEF publicKey
<1> QED
  BY <1>3, <1>4 DEF Total, T

\* Whatever the prime order, the keys, the votes and the nonces, and however many
\* ballots are added: decrypting the encrypted sum of a field gives the votes of
\* that field exactly when they are within the bound searched, and a decryption
\* proof is accepted exactly for them (elgamal.go, dlog.go, proof.go).
THEOREM EncryptedTalliesDecrypt == ElGamalSpec => []TallyDecrypts
  BY TallyInvariant, DecryptionIsRight, PTL
=============================================================================
