--------------------------- MODULE Web3PoolProofs ---------------------------
(* Proofs about Web3Pool, for any number of endpoints and concurrent calls. *)
EXTENDS Web3Pool, TLAPS

\* The lists hold endpoints, and no more of the disabled ones have cooled down
\* than there are.
ListsOK ==
    /\ available \in Seq(Endpoints) /\ disabled \in Seq(Endpoints)
    /\ cooled \in 0 .. Len(disabled)

\* The index is valid only together with the shape of the lists, from which
\* Next and Disable compute the new index.
PoolInv == ListsOK /\ IndexValid

\* A pool with its first endpoint satisfies PoolInv: index 0 is valid.
LEMMA PoolInitially == PoolInit => PoolInv
BY DEF PoolInit, PoolInv, ListsOK, IndexValid

\* Disable leaves a valid index, whichever endpoint it takes out.
LEMMA DisableKeepsInv ==
  ASSUME PoolInv, NEW e, Disable(e)
  PROVE  PoolInv'
<1> DEFINE i == CHOOSE k \in DOMAIN available : available[k] = e
           rest == RemoveAt(available, i)
           gone == Append(disabled, e)
           next == IF nextIndex = i - 1 THEN nextIndex + 1
                   ELSE IF nextIndex > i - 1 THEN nextIndex - 1 ELSE nextIndex
<1>1. CASE e \notin ToSet(available)
  BY <1>1 DEF Disable, poolVars, PoolInv, ListsOK, IndexValid
<1>2. CASE e \in ToSet(available)
  <2>1. /\ Len(available) \in Nat \ {0} /\ Len(disabled) \in Nat
        /\ DOMAIN available = 1 .. Len(available) /\ nextIndex \in 0 .. Len(available) - 1
    BY DEF PoolInv, ListsOK, IndexValid
  <2>2. \E k \in DOMAIN available : available[k] = e
    BY <1>2 DEF ToSet
  <2>3. i \in 1 .. Len(available) /\ available[i] = e
    BY <2>1, <2>2
  <2>4. e \in Endpoints
    BY <2>1, <2>3 DEF PoolInv, ListsOK
  <2>5. rest \in Seq(Endpoints) /\ Len(rest) = Len(available) - 1
    BY <2>1, <2>3 DEF RemoveAt, PoolInv, ListsOK
  <2>6. gone \in Seq(Endpoints) /\ Len(gone) = Len(disabled) + 1
    BY <2>4 DEF PoolInv, ListsOK
  <2> HIDE DEF i, rest, gone
  <2>7. CASE rest = <<>>
    <3>1. available' = gone /\ disabled' = <<>> /\ cooled' = 0 /\ nextIndex' = 0
      BY <1>2, <2>7 DEF Disable, i, rest, gone
    <3> QED
      BY <2>1, <2>6, <3>1 DEF PoolInv, ListsOK, IndexValid
  <2>8. CASE rest # <<>>
    <3>1. /\ available' = rest /\ disabled' = gone /\ cooled' = cooled
          /\ nextIndex' = IF next >= Len(rest) THEN 0 ELSE next
      BY <1>2, <2>8 DEF Disable, i, rest, gone
    <3>2. Len(rest) > 0
      BY <2>5, <2>8, <2>1
    <3>3. nextIndex' \in 0 .. Len(rest) - 1
      BY <2>1, <2>3, <2>5, <3>1, <3>2
    <3> QED
      BY <2>1, <2>5, <2>6, <2>8, <3>1, <3>3 DEF PoolInv, ListsOK, IndexValid
  <2> QED
    BY <2>7, <2>8
<1> QED
  BY <1>1, <1>2

\* Next hands out an endpoint that is in the list and leaves a valid index.
LEMMA NextKeepsInv ==
  ASSUME PoolInv, NEW avail, avail = available \o SubSeq(disabled, 1, cooled),
         available' = avail, cooled' = 0, nextIndex' = (nextIndex + 1) % Len(avail),
         disabled' = SubSeq(disabled, cooled + 1, Len(disabled))
  PROVE  PoolInv' /\ nextIndex + 1 \in DOMAIN avail
<1>1. /\ Len(available) \in Nat \ {0} /\ Len(disabled) \in Nat /\ cooled \in 0 .. Len(disabled)
      /\ nextIndex \in 0 .. Len(available) - 1
  BY DEF PoolInv, ListsOK, IndexValid
<1>2. SubSeq(disabled, 1, cooled) \in Seq(Endpoints) /\ Len(SubSeq(disabled, 1, cooled)) = cooled
  BY <1>1 DEF PoolInv, ListsOK
<1>3. SubSeq(disabled, cooled + 1, Len(disabled)) \in Seq(Endpoints)
  BY <1>1 DEF PoolInv, ListsOK
<1>4. avail \in Seq(Endpoints) /\ Len(avail) = Len(available) + cooled
  BY <1>1, <1>2 DEF PoolInv, ListsOK
<1>5. nextIndex' \in 0 .. Len(avail) - 1
  <2>1. Len(avail) \in Nat \ {0} /\ nextIndex + 1 \in Nat
    BY <1>1, <1>4
  <2>2. \A n \in Nat, m \in Nat \ {0} : n % m \in 0 .. m - 1
    OBVIOUS
  <2> QED
    BY <2>1, <2>2
<1>6. nextIndex + 1 \in DOMAIN avail
  BY <1>1, <1>4
<1>7. 0 \in 0 .. Len(disabled')
  BY <1>3
<1>8. avail # <<>>
  BY <1>1, <1>4
<1> QED
  BY <1>3, <1>4, <1>5, <1>6, <1>7, <1>8 DEF PoolInv, ListsOK, IndexValid

\* Every method of Web3Iterator, and every step of a call, preserves PoolInv.
LEMMA PoolStep ==
  ASSUME PoolInv, [PoolNext]_web3Vars
  PROVE  PoolInv'
<1>1. ASSUME NEW e \in Endpoints, AddEndpoint(e) PROVE PoolInv'
  <2>1. available' \in Seq(Endpoints) /\ Len(available') = Len(available) + 1
    BY <1>1 DEF AddEndpoint, PoolInv, ListsOK
  <2>2. Len(available) \in Nat
    BY DEF PoolInv, ListsOK
  <2> QED
    BY <1>1, <2>1, <2>2 DEF AddEndpoint, PoolInv, ListsOK, IndexValid
<1>2. CASE CooldownPasses
  <2>1. Len(disabled) \in Nat
    BY DEF PoolInv, ListsOK
  <2> QED
    BY <1>2, <2>1 DEF CooldownPasses, PoolInv, ListsOK, IndexValid
<1>3. CASE UNCHANGED poolVars
  BY <1>3 DEF poolVars, PoolInv, ListsOK, IndexValid
<1>4. ASSUME NEW c \in Callers, StartCall(c) \/ CountDisabled(c) \/ Answer(c) PROVE PoolInv'
  BY <1>3, <1>4 DEF StartCall, CountDisabled, Answer
<1>5. ASSUME NEW c \in Callers, Rotate(c) PROVE PoolInv'
  <2> DEFINE avail == available \o SubSeq(disabled, 1, cooled)
  <2>1. \/ UNCHANGED poolVars
        \/ /\ available' = avail /\ cooled' = 0 /\ nextIndex' = (nextIndex + 1) % Len(avail)
           /\ disabled' = SubSeq(disabled, cooled + 1, Len(disabled))
    BY <1>5 DEF Rotate, NextEndpoint
  <2> HIDE DEF avail
  <2>2. avail = available \o SubSeq(disabled, 1, cooled)
    BY DEF avail
  <2> QED
    BY <1>3, <2>1, <2>2, NextKeepsInv
<1>6. ASSUME NEW c \in Callers, EndpointFails(c) PROVE PoolInv'
  BY <1>6, DisableKeepsInv DEF EndpointFails
<1> QED
  BY <1>1, <1>2, <1>3, <1>4, <1>5, <1>6 DEF PoolNext, CallNext, web3Vars

\* The comment of Web3Iterator.Next, "the next index can not be invalid at this
\* point", is right for any number of endpoints and of concurrent calls that
\* add, rotate and disable them: the index is inside a list that is not empty.
THEOREM NextIndexIsValid == PoolSpec => []IndexValid
<1>1. PoolInv => IndexValid
  BY DEF PoolInv
<1> QED
  BY <1>1, PoolInitially, PoolStep, PTL DEF PoolSpec

----------------------------------------------------------------------------
(* GivesUpAfterAll.  A call that runs alone goes through the pool in two    *)
(* rounds.  In the first it uses up the available endpoints, none of which  *)
(* it has tried, and what it disables queues up behind the endpoints that   *)
(* were disabled before.  When the last one is disabled everything becomes  *)
(* available, and in the second round the endpoints that the call has not   *)
(* tried come first.  Its count of attempts says how many those are.        *)

\* No endpoint is twice in the pool.
NoneTwice(av, dis) ==
    /\ \A j, k \in DOMAIN av : av[j] = av[k] => j = k
    /\ \A j, k \in DOMAIN dis : dis[j] = dis[k] => j = k
    /\ \A j \in DOMAIN av, k \in DOMAIN dis : av[j] # dis[k]

FirstRound(r, av, dis, cool) ==
    /\ r.attempts <= Len(dis) - cool
    /\ \A k \in 1 .. Len(dis) : dis[k] \in r.tried <=> k > Len(dis) - r.attempts
    /\ r.pc = "rotate" => \A k \in 1 .. Len(av) : av[k] \notin r.tried
    /\ r.pc = "call" => /\ \E k \in 1 .. Len(av) : av[k] = r.at
                        /\ \A k \in 1 .. Len(av) : av[k] \in r.tried <=> av[k] = r.at

SecondRound(r, av, dis, index, cool) ==
    LET left == r.total - r.attempts
    IN  /\ cool = 0
        /\ \A k \in 1 .. Len(dis) : dis[k] \in r.tried
        /\ left \in 0 .. Len(av) - 1
        /\ r.pc = "rotate" => /\ index = 0
                              /\ \A k \in 1 .. Len(av) : av[k] \in r.tried <=> k > left
        /\ r.pc = "call" => /\ index = 1 /\ left >= 1 /\ r.at = av[1]
                            /\ \A k \in 1 .. Len(av) : av[k] \in r.tried <=> k = 1 \/ k > left

\* What a call knows of the pool if nothing else has moved the rotation.
Rounds(r, av, dis, index, cool) ==
    /\ r.pc = "count" => r.total = Len(av) /\ r.attempts = 0 /\ r.tried = {}
    /\ r.pc \in {"rotate", "call"} =>
          /\ r.total = Len(av) + Len(dis)
          /\ FirstRound(r, av, dis, cool) \/ SecondRound(r, av, dis, index, cool)
    /\ r.pc = "failed" => ToSet(av) \cup ToSet(dis) \subseteq r.tried

Pcs == {"idle", "count", "rotate", "call", "done", "refused", "failed"}
CallType == [pc : Pcs, total : Nat, attempts : Nat, tried : SUBSET Endpoints,
             at : Endpoints \cup {NoEndpoint}, alone : BOOLEAN, calls : Nat]

CallsOK == rpc \in [Callers -> CallType]

RoundsOK ==
    \A c \in Callers : rpc[c].alone => Rounds(rpc[c], available, disabled, nextIndex, cooled)

RoundInv == PoolInv /\ CallsOK /\ NoneTwice(available, disabled) /\ RoundsOK

\* The lists that checkCooldowns leaves, element by element.
CooledLists(av, dis, cool, av2, dis2) ==
    /\ av2 \in Seq(Endpoints) /\ dis2 \in Seq(Endpoints)
    /\ Len(av2) = Len(av) + cool /\ Len(dis2) = Len(dis) - cool
    /\ \A k \in 1 .. Len(av) : av2[k] = av[k]
    /\ \A k \in 1 .. cool : av2[Len(av) + k] = dis[k]
    /\ \A k \in 1 .. Len(dis2) : dis2[k] = dis[cool + k]

LEMMA CooledListsAre ==
  ASSUME NEW av \in Seq(Endpoints), NEW dis \in Seq(Endpoints), NEW cool \in 0 .. Len(dis)
  PROVE  CooledLists(av, dis, cool, av \o SubSeq(dis, 1, cool), SubSeq(dis, cool + 1, Len(dis)))
<1> DEFINE head == SubSeq(dis, 1, cool)
           dis2 == SubSeq(dis, cool + 1, Len(dis))
           av2 == av \o head
<1>1. Len(av) \in Nat /\ Len(dis) \in Nat
  OBVIOUS
<1>2. head \in Seq(Endpoints) /\ Len(head) = cool /\ \A k \in 1 .. cool : head[k] = dis[k]
  BY <1>1
<1>3. /\ dis2 \in Seq(Endpoints) /\ Len(dis2) = Len(dis) - cool
      /\ \A k \in 1 .. Len(dis) - cool : dis2[k] = dis[cool + k]
  BY <1>1
<1> HIDE DEF head, dis2
<1>4. /\ av2 \in Seq(Endpoints) /\ Len(av2) = Len(av) + cool
      /\ \A k \in 1 .. Len(av) : av2[k] = av[k]
      /\ \A k \in 1 .. cool : av2[Len(av) + k] = head[k]
  BY <1>1, <1>2
<1> HIDE DEF av2
<1>5. CooledLists(av, dis, cool, av2, dis2)
  BY <1>1, <1>2, <1>3, <1>4 DEF CooledLists
<1> QED
  BY <1>5 DEF av2, dis2, head

\* The list without its element i, element by element.
Without(av, i, rest) ==
    /\ rest \in Seq(Endpoints) /\ Len(rest) = Len(av) - 1
    /\ \A k \in 1 .. i - 1 : rest[k] = av[k]
    /\ \A k \in i .. Len(rest) : rest[k] = av[k + 1]

LEMMA WithoutIs ==
  ASSUME NEW av \in Seq(Endpoints), NEW i \in 1 .. Len(av)
  PROVE  Without(av, i, RemoveAt(av, i))
<1> DEFINE front == SubSeq(av, 1, i - 1)
           back == SubSeq(av, i + 1, Len(av))
           rest == front \o back
<1>1. Len(av) \in Nat /\ i \in Nat
  OBVIOUS
<1>2. front \in Seq(Endpoints) /\ Len(front) = i - 1 /\ \A k \in 1 .. i - 1 : front[k] = av[k]
  BY <1>1
<1>3. /\ back \in Seq(Endpoints) /\ Len(back) = Len(av) - i
      /\ \A k \in 1 .. Len(av) - i : back[k] = av[i + k]
  BY <1>1
<1> HIDE DEF front, back
<1>4. /\ rest \in Seq(Endpoints) /\ Len(rest) = Len(av) - 1
      /\ \A k \in 1 .. i - 1 : rest[k] = front[k]
      /\ \A k \in i .. Len(av) - 1 : rest[k] = back[k - i + 1]
  <2>0. front \in Seq(Endpoints) /\ back \in Seq(Endpoints)
    BY <1>2, <1>3
  <2>1. rest \in Seq(Endpoints) /\ Len(rest) = Len(front) + Len(back)
    BY <2>0
  <2>2. Len(rest) = Len(av) - 1
    BY <1>1, <1>2, <1>3, <2>1
  <2>3. \A k \in 1 .. Len(front) + Len(back) :
            rest[k] = IF k <= Len(front) THEN front[k] ELSE back[k - Len(front)]
    BY <1>2, <1>3
  <2> HIDE DEF rest
  <2>4. ASSUME NEW k \in i .. Len(av) - 1 PROVE rest[k] = back[k - i + 1]
    <3>1. k \in 1 .. Len(front) + Len(back) /\ ~(k <= Len(front)) /\ k - Len(front) = k - i + 1
      BY <1>1, <1>2, <1>3, <2>4
    <3> QED
      BY <2>3, <3>1
  <2>5. ASSUME NEW k \in 1 .. i - 1 PROVE rest[k] = front[k]
    <3>1. k \in 1 .. Len(front) + Len(back) /\ k <= Len(front)
      BY <1>1, <1>2, <1>3, <2>5
    <3> QED
      BY <2>3, <3>1
  <2> QED
    BY <2>1, <2>2, <2>4, <2>5
<1> HIDE DEF rest
<1>5. ASSUME NEW k \in i .. Len(av) - 1 PROVE rest[k] = av[k + 1]
  <2>1. k - i + 1 \in 1 .. Len(av) - i /\ i + (k - i + 1) = k + 1
    BY <1>1, <1>5
  <2> QED
    BY <1>3, <1>4, <1>5, <2>1
<1>6. Without(av, i, rest)
  BY <1>1, <1>2, <1>4, <1>5 DEF Without
<1> QED
  BY <1>6 DEF rest, front, back, RemoveAt

\* NoneTwice for the lists after checkCooldowns, and after Disable.
LEMMA CooledNoneTwice ==
  ASSUME NEW av \in Seq(Endpoints), NEW dis \in Seq(Endpoints), NEW cool \in 0 .. Len(dis),
         NoneTwice(av, dis), NEW av2, NEW dis2, CooledLists(av, dis, cool, av2, dis2)
  PROVE  NoneTwice(av2, dis2)
<1> DEFINE n == Len(av)
           m == Len(dis)
<1>1. n \in Nat /\ m \in Nat /\ cool \in 0 .. m
  OBVIOUS
<1>2. /\ \A j, k \in 1 .. n : av[j] = av[k] => j = k
      /\ \A j, k \in 1 .. m : dis[j] = dis[k] => j = k
      /\ \A j \in 1 .. n, k \in 1 .. m : av[j] # dis[k]
  BY DEF NoneTwice
<1>3. /\ DOMAIN av2 = 1 .. n + cool /\ DOMAIN dis2 = 1 .. m - cool
      /\ \A k \in 1 .. n : av2[k] = av[k]
      /\ \A k \in 1 .. cool : av2[n + k] = dis[k]
      /\ \A k \in 1 .. m - cool : dis2[k] = dis[cool + k]
  BY DEF CooledLists
<1> HIDE DEF n, m
<1>4. \A k \in 1 .. n + cool : k \in 1 .. n \/ (k - n \in 1 .. cool /\ n + (k - n) = k)
  BY <1>1
<1>5. \A k \in 1 .. n + cool : \/ k \in 1 .. n /\ av2[k] = av[k]
                               \/ k - n \in 1 .. m /\ k - n <= cool /\ av2[k] = dis[k - n]
  BY <1>1, <1>3, <1>4
<1>6. \A k \in 1 .. m - cool : cool + k \in 1 .. m /\ cool + k > cool /\ dis2[k] = dis[cool + k]
  BY <1>1, <1>3
<1>7. \A j, k \in DOMAIN av2 : av2[j] = av2[k] => j = k
  <2> SUFFICES ASSUME NEW j \in 1 .. n + cool, NEW k \in 1 .. n + cool, av2[j] = av2[k]
               PROVE  j = k
    BY <1>3
  <2>1. CASE j \in 1 .. n /\ av2[j] = av[j]
    BY <1>2, <1>5, <2>1
  <2>2. CASE j - n \in 1 .. m /\ av2[j] = dis[j - n]
    <3>1. k - n \in 1 .. m /\ av2[k] = dis[k - n]
      BY <1>2, <1>5, <2>2
    <3>2. j - n = k - n
      BY <1>2, <2>2, <3>1
    <3> QED
      BY <1>1, <3>2
  <2> QED
    BY <1>5, <2>1, <2>2
<1>8. \A j, k \in DOMAIN dis2 : dis2[j] = dis2[k] => j = k
  <2> SUFFICES ASSUME NEW j \in 1 .. m - cool, NEW k \in 1 .. m - cool, dis2[j] = dis2[k]
               PROVE  j = k
    BY <1>3
  <2>1. cool + j = cool + k
    BY <1>2, <1>6
  <2> QED
    BY <1>1, <2>1
<1>9. \A j \in DOMAIN av2, k \in DOMAIN dis2 : av2[j] # dis2[k]
  <2> SUFFICES ASSUME NEW j \in 1 .. n + cool, NEW k \in 1 .. m - cool
               PROVE  av2[j] # dis2[k]
    BY <1>3
  <2>1. cool + k \in 1 .. m /\ cool + k > cool /\ dis2[k] = dis[cool + k]
    BY <1>6
  <2>2. CASE j \in 1 .. n /\ av2[j] = av[j]
    BY <1>2, <2>1, <2>2
  <2>3. CASE j - n \in 1 .. m /\ j - n <= cool /\ av2[j] = dis[j - n]
    <3>1. j - n # cool + k
      BY <1>1, <2>1, <2>3
    <3> QED
      BY <1>2, <2>1, <2>3, <3>1
  <2> QED
    BY <1>5, <2>2, <2>3
<1> QED
  BY <1>7, <1>8, <1>9 DEF NoneTwice

LEMMA DisabledNoneTwice ==
  ASSUME NEW av \in Seq(Endpoints), NEW dis \in Seq(Endpoints), NEW i \in 1 .. Len(av),
         NoneTwice(av, dis), NEW rest, Without(av, i, rest)
  PROVE  /\ NoneTwice(rest, Append(dis, av[i]))
         /\ \A k \in 1 .. Len(rest) : rest[k] # av[i]
         /\ rest = <<>> => NoneTwice(Append(dis, av[i]), <<>>)
<1> DEFINE n == Len(av)
           m == Len(dis)
           gone == Append(dis, av[i])
<1>1. n \in Nat /\ m \in Nat /\ i \in 1 .. n
  OBVIOUS
<1>2. /\ \A j, k \in 1 .. n : av[j] = av[k] => j = k
      /\ \A j, k \in 1 .. m : dis[j] = dis[k] => j = k
      /\ \A j \in 1 .. n, k \in 1 .. m : av[j] # dis[k]
  BY DEF NoneTwice
<1>3. /\ DOMAIN rest = 1 .. n - 1 /\ Len(rest) = n - 1
      /\ \A k \in 1 .. i - 1 : rest[k] = av[k]
      /\ \A k \in i .. n - 1 : rest[k] = av[k + 1]
  BY DEF Without
<1>4. /\ DOMAIN gone = 1 .. m + 1 /\ gone[m + 1] = av[i]
      /\ \A k \in 1 .. m : gone[k] = dis[k]
  BY <1>1
<1> HIDE DEF n, m, gone
<1>5. \A k \in 1 .. n - 1 : \/ k < i /\ k \in 1 .. n /\ rest[k] = av[k]
                            \/ k >= i /\ k + 1 \in 1 .. n /\ rest[k] = av[k + 1]
  BY <1>1, <1>3
<1>6. \A k \in 1 .. m + 1 : \/ k \in 1 .. m /\ gone[k] = dis[k]
                            \/ k = m + 1 /\ gone[k] = av[i]
  BY <1>1, <1>4
<1>7. \A j, k \in DOMAIN rest : rest[j] = rest[k] => j = k
  <2> SUFFICES ASSUME NEW j \in 1 .. n - 1, NEW k \in 1 .. n - 1, rest[j] = rest[k]
               PROVE  j = k
    BY <1>3
  <2> DEFINE At(l) == IF l < i THEN l ELSE l + 1
  <2>1. \A l \in 1 .. n - 1 : At(l) \in 1 .. n /\ rest[l] = av[At(l)]
    BY <1>1, <1>5
  <2>2. At(j) = At(k)
    BY <1>2, <2>1
  <2> QED
    BY <1>1, <2>2
<1>8. \A j, k \in DOMAIN gone : gone[j] = gone[k] => j = k
  BY <1>1, <1>2, <1>4, <1>6
<1>9. \A k \in 1 .. Len(rest) : rest[k] # av[i]
  BY <1>1, <1>2, <1>3, <1>5
<1>10. \A j \in DOMAIN rest, k \in DOMAIN gone : rest[j] # gone[k]
  BY <1>1, <1>2, <1>3, <1>4, <1>5, <1>6, <1>9
<1>11. NoneTwice(rest, gone) /\ NoneTwice(gone, <<>>)
  BY <1>7, <1>8, <1>10 DEF NoneTwice
<1> QED
  BY <1>9, <1>11 DEF gone

\* In the first round, Next returns an endpoint that the call has not tried.
LEMMA FirstRotates ==
  ASSUME NEW av \in Seq(Endpoints), NEW dis \in Seq(Endpoints), NEW cool \in 0 .. Len(dis),
         NoneTwice(av, dis), NEW index \in 0 .. Len(av) - 1, NEW r \in CallType,
         r.pc = "rotate", FirstRound(r, av, dis, cool),
         NEW av2, NEW dis2, CooledLists(av, dis, cool, av2, dis2),
         NEW r2, r2.pc = "call", r2.at = av2[index + 1], r2.attempts = r.attempts,
         r2.tried = r.tried \cup {av2[index + 1]}
  PROVE  av2[index + 1] \notin r.tried /\ FirstRound(r2, av2, dis2, 0)
<1> DEFINE n == Len(av)
           m == Len(dis)
           e == av2[index + 1]
<1>1. n \in Nat /\ m \in Nat /\ cool \in 0 .. m /\ index + 1 \in 1 .. n /\ r.attempts \in Nat
  BY DEF CallType
<1>2. /\ Len(av2) = n + cool /\ Len(dis2) = m - cool
      /\ \A k \in 1 .. n : av2[k] = av[k]
      /\ \A k \in 1 .. cool : av2[n + k] = dis[k]
      /\ \A k \in 1 .. m - cool : dis2[k] = dis[cool + k]
  BY DEF CooledLists
<1>3. /\ r.attempts <= m - cool
      /\ \A k \in 1 .. m : dis[k] \in r.tried <=> k > m - r.attempts
      /\ \A k \in 1 .. n : av[k] \notin r.tried
  BY DEF FirstRound
<1>4. \A j \in 1 .. n, k \in 1 .. m : av[j] # dis[k]
  BY DEF NoneTwice
<1> HIDE DEF n, m
<1>5. e = av[index + 1] /\ index + 1 \in 1 .. n + cool
  BY <1>1, <1>2
<1>6. \A k \in 1 .. n + cool : av2[k] \notin r.tried
  <2> TAKE k \in 1 .. n + cool
  <2>1. CASE k <= n
    BY <1>1, <1>2, <1>3, <2>1
  <2>2. CASE k > n
    <3>1. k - n \in 1 .. cool /\ k - n \in 1 .. m /\ n + (k - n) = k /\ ~(k - n > m - r.attempts)
      BY <1>1, <1>3, <2>2
    <3> QED
      BY <1>2, <1>3, <3>1
  <2> QED
    BY <1>1, <2>1, <2>2
<1>7. ASSUME NEW k \in 1 .. m - cool
      PROVE  dis2[k] \in r2.tried <=> k > (m - cool) - r2.attempts
  <2>1. cool + k \in 1 .. m
    BY <1>1
  <2>2. dis2[k] # e /\ dis2[k] = dis[cool + k]
    BY <1>1, <1>2, <1>4, <1>5, <2>1
  <2>3. dis2[k] \in r2.tried <=> cool + k > m - r.attempts
    BY <1>3, <2>1, <2>2
  <2> QED
    BY <1>1, <2>3
<1>8. \A k \in 1 .. n + cool : av2[k] \in r2.tried <=> av2[k] = r2.at
  BY <1>6
<1>9. r2.attempts <= (m - cool) - 0
  BY <1>1, <1>3
<1> QED
  BY <1>2, <1>3, <1>5, <1>6, <1>7, <1>8, <1>9 DEF FirstRound

\* The endpoint fails in the first round; disabling the last one that is
\* available begins the second.
LEMMA FirstFails ==
  ASSUME NEW av \in Seq(Endpoints), NEW dis \in Seq(Endpoints), NEW cool \in 0 .. Len(dis),
         NoneTwice(av, dis), NEW r \in CallType, r.pc = "call", FirstRound(r, av, dis, cool),
         r.total = Len(av) + Len(dis),
         NEW i \in 1 .. Len(av), av[i] = r.at, NEW rest, Without(av, i, rest),
         NEW r2, r2.pc = "rotate", r2.attempts = r.attempts + 1, r2.tried = r.tried,
         r2.total = r.total
  PROVE  /\ FirstRound(r2, rest, Append(dis, av[i]), cool)
         /\ rest = <<>> => SecondRound(r2, Append(dis, av[i]), <<>>, 0, 0)
<1> DEFINE n == Len(av)
           m == Len(dis)
           gone == Append(dis, av[i])
<1>1. n \in Nat \ {0} /\ m \in Nat /\ cool \in 0 .. m /\ i \in 1 .. n /\ r.attempts \in Nat
  BY DEF CallType
<1>2. /\ Len(rest) = n - 1
      /\ \A k \in 1 .. i - 1 : rest[k] = av[k]
      /\ \A k \in i .. n - 1 : rest[k] = av[k + 1]
      /\ \A k \in 1 .. n - 1 : rest[k] # av[i]
  <2>1. /\ Len(rest) = n - 1
        /\ \A k \in 1 .. i - 1 : rest[k] = av[k]
        /\ \A k \in i .. n - 1 : rest[k] = av[k + 1]
    BY DEF Without
  <2>2. \A k \in 1 .. Len(rest) : rest[k] # av[i]
    BY DisabledNoneTwice
  <2> QED
    BY <2>1, <2>2
<1>3. /\ Len(gone) = m + 1 /\ gone[m + 1] = av[i]
      /\ \A k \in 1 .. m : gone[k] = dis[k]
  BY <1>1
<1>4. /\ r.attempts <= m - cool
      /\ \A k \in 1 .. m : dis[k] \in r.tried <=> k > m - r.attempts
      /\ \A k \in 1 .. n : av[k] \in r.tried <=> av[k] = r.at
  BY DEF FirstRound
<1> HIDE DEF n, m, gone
<1>5. \A k \in 1 .. m + 1 : gone[k] \in r2.tried <=> k > m - r.attempts
  <2> TAKE k \in 1 .. m + 1
  <2>1. CASE k \in 1 .. m
    BY <1>3, <1>4, <2>1
  <2>2. CASE k = m + 1
    BY <1>1, <1>3, <1>4, <2>2
  <2> QED
    BY <1>1, <2>1, <2>2
<1>6. \A k \in 1 .. n - 1 : rest[k] \notin r2.tried
  <2> TAKE k \in 1 .. n - 1
  <2>1. CASE k < i
    BY <1>1, <1>2, <1>4, <2>1
  <2>2. CASE k >= i
    <3>1. k \in i .. n - 1 /\ k + 1 \in 1 .. n
      BY <1>1, <2>2
    <3> QED
      BY <1>2, <1>4, <3>1
  <2> QED
    BY <1>1, <2>1, <2>2
<1>7. /\ r2.attempts <= (m + 1) - cool
      /\ \A k \in 1 .. m + 1 : gone[k] \in r2.tried <=> k > (m + 1) - r2.attempts
  BY <1>1, <1>4, <1>5
<1>8. FirstRound(r2, rest, gone, cool)
  BY <1>2, <1>3, <1>6, <1>7 DEF FirstRound
<1>9. ASSUME rest = <<>> PROVE SecondRound(r2, gone, <<>>, 0, 0)
  <2>1. n = 1
    BY <1>1, <1>2, <1>9
  <2>2. r2.total - r2.attempts = m - r.attempts
    BY <1>1, <2>1 DEF n, m
  <2>3. m - r.attempts \in 0 .. (m + 1) - 1
    BY <1>1, <1>4
  <2> QED
    BY <1>1, <1>3, <1>5, <2>2, <2>3 DEF SecondRound
<1> QED
  BY <1>8, <1>9 DEF gone

\* In the second round Next returns the first endpoint, not tried yet if there
\* are attempts left.
LEMMA SecondRotates ==
  ASSUME NEW av \in Seq(Endpoints), NEW dis \in Seq(Endpoints), NEW cool \in 0 .. Len(dis),
         NoneTwice(av, dis), NEW index, NEW r \in CallType,
         r.pc = "rotate", SecondRound(r, av, dis, index, cool), r.attempts < r.total,
         NEW av2, NEW dis2, CooledLists(av, dis, cool, av2, dis2),
         NEW r2, r2.pc = "call", r2.at = av2[index + 1], r2.attempts = r.attempts,
         r2.total = r.total, r2.tried = r.tried \cup {av2[index + 1]}
  PROVE  /\ av2[index + 1] \notin r.tried
         /\ SecondRound(r2, av2, dis2, (index + 1) % Len(av2), 0)
<1> DEFINE n == Len(av)
           m == Len(dis)
           left == r.total - r.attempts
<1>1. /\ n \in Nat /\ m \in Nat /\ r.attempts \in Nat /\ r.total \in Nat
      /\ left \in Int /\ left >= 1
  BY DEF CallType
<1>2. /\ cool = 0 /\ index = 0 /\ left <= n - 1
      /\ \A k \in 1 .. m : dis[k] \in r.tried
      /\ \A k \in 1 .. n : av[k] \in r.tried <=> k > left
  BY DEF SecondRound
<1>3. \A j, k \in 1 .. n : av[j] = av[k] => j = k
  BY DEF NoneTwice
<1>4. /\ Len(av2) = n /\ Len(dis2) = m
      /\ \A k \in 1 .. n : av2[k] = av[k]
      /\ \A k \in 1 .. m : dis2[k] = dis[k]
  BY <1>1, <1>2 DEF CooledLists
<1>5. r2.total - r2.attempts = left
  OBVIOUS
<1> HIDE DEF n, m, left
<1>6. n >= 2 /\ 1 \in 1 .. n /\ index + 1 = 1
  BY <1>1, <1>2
<1>7. (index + 1) % Len(av2) = 1
  <2>1. \A k \in Nat : k >= 2 => 1 % k = 1
    OBVIOUS
  <2> QED
    BY <1>1, <1>4, <1>6, <2>1
<1>8. av2[index + 1] = av[1] /\ av[1] \notin r.tried
  BY <1>1, <1>2, <1>4, <1>6
<1>9. \A k \in 1 .. n : av2[k] \in r2.tried <=> k = 1 \/ k > left
  BY <1>1, <1>2, <1>3, <1>4, <1>6, <1>8
<1>10. \A k \in 1 .. m : dis2[k] \in r2.tried
  BY <1>2, <1>4
<1>11. left \in 0 .. n - 1 /\ r2.at = av2[1]
  BY <1>1, <1>2, <1>6
<1> QED
  BY <1>1, <1>4, <1>5, <1>7, <1>8, <1>9, <1>10, <1>11 DEF SecondRound

\* The first endpoint fails in the second round and the next one comes first.
LEMMA SecondFails ==
  ASSUME NEW av \in Seq(Endpoints), NEW dis \in Seq(Endpoints), NoneTwice(av, dis),
         NEW index, NEW cool, NEW r \in CallType, r.pc = "call",
         SecondRound(r, av, dis, index, cool),
         NEW i \in 1 .. Len(av), av[i] = r.at, NEW rest, Without(av, i, rest),
         NEW r2, r2.pc = "rotate", r2.attempts = r.attempts + 1, r2.tried = r.tried,
         r2.total = r.total
  PROVE  /\ i = 1 /\ index = 1 /\ cool = 0 /\ Len(rest) >= 1
         /\ SecondRound(r2, rest, Append(dis, av[i]), 0, 0)
<1> DEFINE n == Len(av)
           m == Len(dis)
           left == r.total - r.attempts
           gone == Append(dis, av[i])
<1>1. n \in Nat /\ m \in Nat /\ r.attempts \in Nat /\ r.total \in Nat /\ left \in Int
  BY DEF CallType
<1>2. /\ cool = 0 /\ index = 1 /\ left >= 1 /\ left <= n - 1 /\ r.at = av[1]
      /\ \A k \in 1 .. m : dis[k] \in r.tried
      /\ \A k \in 1 .. n : av[k] \in r.tried <=> k = 1 \/ k > left
  BY DEF SecondRound
<1>3. \A j, k \in 1 .. n : av[j] = av[k] => j = k
  BY DEF NoneTwice
<1>4. i = 1
  BY <1>1, <1>2, <1>3
<1>5. Len(rest) = n - 1 /\ \A k \in 1 .. n - 1 : rest[k] = av[k + 1]
  BY <1>4 DEF Without
<1>6. /\ Len(gone) = m + 1 /\ gone[m + 1] = av[1]
      /\ \A k \in 1 .. m : gone[k] = dis[k]
  BY <1>1, <1>4
<1>7. r2.total - r2.attempts = left - 1
  BY <1>1
<1> HIDE DEF n, m, left, gone
<1>8. \A k \in 1 .. m + 1 : gone[k] \in r2.tried
  <2>1. av[1] \in r.tried
    BY <1>1, <1>2
  <2>2. \A k \in 1 .. m + 1 : k \in 1 .. m \/ k = m + 1
    BY <1>1
  <2> QED
    BY <1>2, <1>6, <2>1, <2>2
<1>9. \A k \in 1 .. n - 1 : rest[k] \in r2.tried <=> k > left - 1
  <2> TAKE k \in 1 .. n - 1
  <2>1. k + 1 \in 1 .. n /\ k + 1 # 1 /\ (k + 1 > left <=> k > left - 1)
    BY <1>1
  <2> QED
    BY <1>2, <1>5, <2>1
<1>10. left - 1 \in 0 .. (n - 1) - 1 /\ n - 1 >= 1
  BY <1>1, <1>2
<1>11. SecondRound(r2, rest, gone, 0, 0)
  BY <1>5, <1>6, <1>7, <1>8, <1>9, <1>10 DEF SecondRound
<1> QED
  BY <1>2, <1>4, <1>5, <1>10, <1>11 DEF gone

\* A call has no attempts left only when the second round is over.
LEMMA OutOfAttempts ==
  ASSUME NEW av \in Seq(Endpoints), NEW dis \in Seq(Endpoints), NEW cool \in 0 .. Len(dis),
         NEW index, av # <<>>, NEW r \in CallType, r.pc = "rotate", r.attempts >= r.total,
         Rounds(r, av, dis, index, cool)
  PROVE  ToSet(av) \cup ToSet(dis) \subseteq r.tried
<1>1. Len(av) \in Nat \ {0} /\ Len(dis) \in Nat /\ r.attempts \in Nat /\ r.total \in Nat
  BY DEF CallType
<1>2. r.total = Len(av) + Len(dis)
  BY DEF Rounds
<1>3. ~FirstRound(r, av, dis, cool)
  BY <1>1, <1>2 DEF FirstRound
<1>4. /\ \A k \in 1 .. Len(dis) : dis[k] \in r.tried
      /\ \A k \in 1 .. Len(av) : av[k] \in r.tried
  BY <1>1, <1>3 DEF Rounds, SecondRound
<1> QED
  BY <1>4 DEF ToSet

\* The calls keep their shape.
LEMMA CallsStep ==
  ASSUME PoolInv, CallsOK, [PoolNext]_web3Vars
  PROVE  CallsOK'
<1> USE DEF CallsOK, CallType, Pcs
<1>0. Len(available) \in Nat /\ Len(disabled) \in Nat
  BY DEF PoolInv, ListsOK
<1>1. \A d \in Callers : Disturbed(d) \in CallType
  BY DEF Disturbed
<1>2. ASSUME NEW c \in Callers, NEW new \in CallType, rpc' = Disturb(c, new) PROVE CallsOK'
  BY <1>1, <1>2 DEF Disturb
<1>3. ASSUME NEW c \in Callers, NEW new \in CallType, rpc' = [rpc EXCEPT ![c] = new]
      PROVE  CallsOK'
  BY <1>3
<1>4. ASSUME NEW e \in Endpoints, AddEndpoint(e) PROVE CallsOK'
  BY <1>1, <1>4 DEF AddEndpoint
<1>5. ASSUME NEW c \in Callers, StartCall(c) PROVE CallsOK'
  <2>1. [NoCall EXCEPT !.pc = "count", !.total = Len(available), !.calls = rpc[c].calls + 1]
          \in CallType
    <3>1. rpc[c].calls + 1 \in Nat
      OBVIOUS
    <3> QED
      BY <1>0, <3>1 DEF NoCall
  <2> QED
    BY <1>3, <1>5, <2>1 DEF StartCall
<1>6. ASSUME NEW c \in Callers, CountDisabled(c) PROVE CallsOK'
  <2>1. rpc[c].total + Len(disabled) \in Nat
    BY <1>0
  <2> QED
    BY <1>6, <2>1 DEF CountDisabled
<1>7. ASSUME NEW c \in Callers, Rotate(c) PROVE CallsOK'
  <2> DEFINE avail == available \o SubSeq(disabled, 1, cooled)
             e == avail[nextIndex + 1]
  <2>1. CASE rpc' = [rpc EXCEPT ![c].pc = "failed"]
    BY <2>1
  <2>2. CASE rpc' = Disturb(c, IF e \in rpc[c].tried THEN [rpc[c] EXCEPT !.pc = "failed"]
                               ELSE [rpc[c] EXCEPT !.pc = "call", !.at = e,
                                                   !.tried = @ \cup {e}])
    <3>1. CooledLists(available, disabled, cooled, avail,
                      SubSeq(disabled, cooled + 1, Len(disabled)))
      BY CooledListsAre DEF PoolInv, ListsOK
    <3>2. avail \in Seq(Endpoints) /\ Len(avail) = Len(available) + cooled
      BY <3>1 DEF CooledLists
    <3>3. nextIndex + 1 \in 1 .. Len(avail)
      BY <1>0, <3>2 DEF PoolInv, IndexValid, ListsOK
    <3> HIDE DEF avail
    <3>4. e \in Endpoints
      BY <3>2, <3>3
    <3> HIDE DEF e
    <3>5. /\ [rpc[c] EXCEPT !.pc = "failed"] \in CallType
          /\ [rpc[c] EXCEPT !.pc = "call", !.at = e, !.tried = @ \cup {e}] \in CallType
      BY <3>4
    <3> QED
      BY <1>2, <2>2, <3>5
  <2> QED
    BY <1>7, <2>1, <2>2 DEF Rotate, NextEndpoint
<1>8. ASSUME NEW c \in Callers, Answer(c) PROVE CallsOK'
  BY <1>8 DEF Answer
<1>9. ASSUME NEW c \in Callers, EndpointFails(c) PROVE CallsOK'
  <2>1. [rpc[c] EXCEPT !.pc = "rotate", !.attempts = @ + 1] \in CallType
    <3>1. rpc[c].attempts + 1 \in Nat
      OBVIOUS
    <3> QED
      BY <3>1
  <2> QED
    BY <1>2, <1>9, <2>1 DEF EndpointFails
<1>10. CASE UNCHANGED rpc
  BY <1>10
<1> QED
  BY <1>4, <1>5, <1>6, <1>7, <1>8, <1>9, <1>10 DEF PoolNext, CallNext, CooldownPasses, web3Vars

\* What Disable(e) does to the lists when e is available.
LEMMA DisableIs ==
  ASSUME PoolInv, NEW e, e \in ToSet(available), Disable(e)
  PROVE  \E i \in 1 .. Len(available), rest \in Seq(Endpoints) :
            /\ available[i] = e /\ Without(available, i, rest)
            /\ IF rest = <<>>
               THEN /\ available' = Append(disabled, e) /\ disabled' = <<>>
                    /\ cooled' = 0 /\ nextIndex' = 0
               ELSE /\ available' = rest /\ disabled' = Append(disabled, e) /\ cooled' = cooled
                    /\ i = 1 /\ nextIndex = 1 => nextIndex' = 0
<1> DEFINE i == CHOOSE k \in DOMAIN available : available[k] = e
           rest == RemoveAt(available, i)
<1>1. available \in Seq(Endpoints) /\ DOMAIN available = 1 .. Len(available)
  BY DEF PoolInv, ListsOK
<1>2. i \in 1 .. Len(available) /\ available[i] = e
  <2>1. \E k \in DOMAIN available : available[k] = e
    BY DEF ToSet
  <2> QED
    BY <1>1, <2>1
<1>3. Without(available, i, rest)
  BY <1>1, <1>2, WithoutIs
<1>4. IF rest = <<>>
      THEN /\ available' = Append(disabled, e) /\ disabled' = <<>> /\ cooled' = 0 /\ nextIndex' = 0
      ELSE /\ available' = rest /\ disabled' = Append(disabled, e) /\ cooled' = cooled
           /\ i = 1 /\ nextIndex = 1 => nextIndex' = 0
  <2>1. CASE rest = <<>>
    BY <2>1 DEF Disable
  <2>2. CASE rest # <<>>
    <3>1. Len(rest) \in Nat \ {0}
      <4>1. rest \in Seq(Endpoints)
        BY <1>3 DEF Without
      <4> HIDE DEF rest
      <4> QED
        BY <2>2, <4>1
    <3> DEFINE next == IF nextIndex = i - 1 THEN nextIndex + 1
                       ELSE IF nextIndex > i - 1 THEN nextIndex - 1 ELSE nextIndex
    <3>2. /\ available' = rest /\ disabled' = Append(disabled, e) /\ cooled' = cooled
          /\ nextIndex' = IF next >= Len(rest) THEN 0 ELSE next
      BY <2>2 DEF Disable
    <3> HIDE DEF i, rest
    <3>3. i = 1 /\ nextIndex = 1 => nextIndex' = 0
      BY <3>1, <3>2
    <3> QED
      BY <2>2, <3>2, <3>3
  <2> QED
    BY <2>1, <2>2
<1>5. rest \in Seq(Endpoints)
  BY <1>3 DEF Without
<1> HIDE DEF i, rest
<1> QED
  BY <1>2, <1>3, <1>4, <1>5

\* No method of Web3Iterator puts an endpoint into the pool twice.
LEMMA NoneTwiceStep ==
  ASSUME PoolInv, NoneTwice(available, disabled), [PoolNext]_web3Vars
  PROVE  NoneTwice(available', disabled')
<1>0. /\ available \in Seq(Endpoints) /\ disabled \in Seq(Endpoints) /\ cooled \in 0 .. Len(disabled)
  BY DEF PoolInv, ListsOK
<1>1. ASSUME NEW e \in Endpoints, AddEndpoint(e) PROVE NoneTwice(available', disabled')
  <2>1. /\ \A k \in DOMAIN available : available[k] # e
        /\ \A k \in DOMAIN disabled : disabled[k] # e
    BY <1>1 DEF AddEndpoint, Known, ToSet
  <2>2. /\ DOMAIN available' = 1 .. Len(available) + 1
        /\ available'[Len(available) + 1] = e
        /\ \A k \in 1 .. Len(available) : available'[k] = available[k]
        /\ disabled' = disabled /\ Len(available) \in Nat
        /\ DOMAIN available = 1 .. Len(available)
    BY <1>0, <1>1 DEF AddEndpoint
  <2>3. \A k \in 1 .. Len(available) + 1 : k \in 1 .. Len(available) \/ k = Len(available) + 1
    BY <2>2
  <2> QED
    BY <2>1, <2>2, <2>3 DEF NoneTwice
<1>2. CASE UNCHANGED <<available, disabled>>
  BY <1>2
<1>3. ASSUME NEW c \in Callers, Rotate(c) PROVE NoneTwice(available', disabled')
  <2> DEFINE avail == available \o SubSeq(disabled, 1, cooled)
             rest == SubSeq(disabled, cooled + 1, Len(disabled))
  <2>1. \/ UNCHANGED <<available, disabled>>
        \/ available' = avail /\ disabled' = rest
    BY <1>3 DEF Rotate, NextEndpoint, poolVars
  <2>2. CooledLists(available, disabled, cooled, avail, rest)
    BY <1>0, CooledListsAre
  <2> HIDE DEF avail, rest
  <2>3. NoneTwice(avail, rest)
    BY <1>0, <2>2, CooledNoneTwice
  <2> QED
    BY <2>1, <2>3
<1>4. ASSUME NEW c \in Callers, EndpointFails(c) PROVE NoneTwice(available', disabled')
  <2>1. CASE rpc[c].at \notin ToSet(available)
    BY <1>2, <1>4, <2>1 DEF EndpointFails, Disable, poolVars
  <2>2. CASE rpc[c].at \in ToSet(available)
    <3> DEFINE e == rpc[c].at
    <3>1. PICK i \in 1 .. Len(available), rest \in Seq(Endpoints) :
            /\ available[i] = e /\ Without(available, i, rest)
            /\ IF rest = <<>>
               THEN available' = Append(disabled, e) /\ disabled' = <<>>
               ELSE available' = rest /\ disabled' = Append(disabled, e)
      BY <1>4, <2>2, DisableIs DEF EndpointFails
    <3>2. /\ NoneTwice(rest, Append(disabled, e))
          /\ rest = <<>> => NoneTwice(Append(disabled, e), <<>>)
      BY <1>0, <3>1, DisabledNoneTwice
    <3> QED
      BY <3>1, <3>2
  <2> QED
    BY <2>1, <2>2
<1> QED
  BY <1>1, <1>2, <1>3, <1>4
  DEF PoolNext, CallNext, CooldownPasses, StartCall, CountDisabled, Answer, web3Vars, poolVars

\* Every step keeps the rounds of the calls that run alone.
LEMMA RoundsStep ==
  ASSUME RoundInv, CallsOK', [PoolNext]_web3Vars
  PROVE  RoundsOK'
<1> DEFINE Good(c) == rpc'[c].alone =>
                        Rounds(rpc'[c], available', disabled', nextIndex', cooled')
<1>0. /\ available \in Seq(Endpoints) /\ disabled \in Seq(Endpoints) /\ cooled \in 0 .. Len(disabled)
      /\ Len(disabled) \in Nat /\ Len(available) \in Nat
      /\ available # <<>> /\ nextIndex \in 0 .. Len(available) - 1
      /\ NoneTwice(available, disabled)
  BY DEF RoundInv, PoolInv, ListsOK, IndexValid
<1>1. \A c \in Callers : rpc[c] \in CallType
  BY DEF RoundInv, CallsOK
<1>2. ASSUME NEW c \in Callers, rpc'[c] = rpc[c], UNCHANGED poolVars PROVE Good(c)
  BY <1>2 DEF RoundInv, RoundsOK, poolVars
<1>3. ASSUME NEW c \in Callers, NEW new, rpc' = Disturb(c, new), Good(c)
      PROVE  \A d \in Callers : Good(d)
  <2> TAKE d \in Callers
  <2>1. CASE d = c
    BY <1>3, <2>1
  <2>2. CASE d # c
    <3>1. rpc'[d] = [rpc[d] EXCEPT !.alone = FALSE]
      BY <1>3, <2>2 DEF Disturb, Disturbed
    <3>2. rpc'[d].alone = FALSE
      BY <1>1, <3>1 DEF CallType
    <3> QED
      BY <3>2
  <2> QED
    BY <2>1, <2>2
<1>4. ASSUME NEW c \in Callers, NEW new, rpc' = [rpc EXCEPT ![c] = new], UNCHANGED poolVars,
             new.alone => Rounds(new, available, disabled, nextIndex, cooled)
      PROVE  \A d \in Callers : Good(d)
  <2> TAKE d \in Callers
  <2>1. CASE d = c
    <3>1. rpc'[d] = new
      BY <1>4, <2>1 DEF RoundInv, CallsOK
    <3> QED
      BY <1>4, <3>1 DEF poolVars
  <2>2. CASE d # c
    <3>1. rpc'[d] = rpc[d]
      BY <1>4, <2>2 DEF RoundInv, CallsOK
    <3> QED
      BY <1>2, <1>4, <3>1
  <2> QED
    BY <2>1, <2>2
<1>5. ASSUME NEW e \in Endpoints, AddEndpoint(e) PROVE \A d \in Callers : Good(d)
  <2> TAKE d \in Callers
  <2>1. rpc'[d] = [rpc[d] EXCEPT !.alone = FALSE]
    BY <1>5 DEF AddEndpoint, Disturbed
  <2>2. rpc'[d].alone = FALSE
    BY <1>1, <2>1 DEF CallType
  <2> QED
    BY <2>2
<1>6. ASSUME CooldownPasses PROVE \A d \in Callers : Good(d)
  <2> SUFFICES ASSUME NEW c \in Callers, rpc[c].alone
               PROVE  Rounds(rpc[c], available, disabled, nextIndex, cooled + 1)
    BY <1>6 DEF CooldownPasses
  <2>1. Rounds(rpc[c], available, disabled, nextIndex, cooled)
    BY DEF RoundInv, RoundsOK
  <2>2. CASE rpc[c].pc \in {"rotate", "call"}
    <3>1. cooled + 1 \in 1 .. Len(disabled) /\ disabled[cooled + 1] \notin rpc[c].tried
      BY <1>0, <1>6, <2>2 DEF CooldownPasses
    <3>2. ~SecondRound(rpc[c], available, disabled, nextIndex, cooled)
      BY <3>1 DEF SecondRound
    <3>3. FirstRound(rpc[c], available, disabled, cooled)
      BY <2>1, <2>2, <3>2 DEF Rounds
    <3>4. ~(cooled + 1 > Len(disabled) - rpc[c].attempts)
      BY <3>1, <3>3 DEF FirstRound
    <3>5. rpc[c].attempts \in Nat
      BY <1>1 DEF CallType
    <3>6. rpc[c].attempts <= Len(disabled) - (cooled + 1)
      BY <1>0, <3>4, <3>5
    <3>7. FirstRound(rpc[c], available, disabled, cooled + 1)
      BY <3>3, <3>6 DEF FirstRound
    <3> QED
      BY <2>1, <2>2, <3>7 DEF Rounds
  <2>3. CASE rpc[c].pc \notin {"rotate", "call"}
    BY <2>1, <2>3 DEF Rounds
  <2> QED
    BY <2>2, <2>3
<1>7. ASSUME NEW c \in Callers, StartCall(c) PROVE \A d \in Callers : Good(d)
  <2> DEFINE new == [NoCall EXCEPT !.pc = "count", !.total = Len(available),
                                   !.calls = rpc[c].calls + 1]
  <2>1. Rounds(new, available, disabled, nextIndex, cooled)
    BY DEF Rounds, NoCall
  <2>2. rpc' = [rpc EXCEPT ![c] = new] /\ UNCHANGED poolVars
    BY <1>7 DEF StartCall
  <2> HIDE DEF new
  <2> QED
    BY <1>4, <2>1, <2>2
<1>8. ASSUME NEW c \in Callers, CountDisabled(c) PROVE \A d \in Callers : Good(d)
  <2>1. UNCHANGED poolVars /\ rpc[c].pc = "count"
    BY <1>8 DEF CountDisabled
  <2>2. \A d \in Callers \ {c} : rpc'[d] = rpc[d]
    BY <1>8 DEF CountDisabled, RoundInv, CallsOK
  <2>3. /\ rpc'[c].pc = "rotate" /\ rpc'[c].total = rpc[c].total + Len(disabled)
        /\ rpc'[c].attempts = rpc[c].attempts /\ rpc'[c].tried = rpc[c].tried
        /\ rpc'[c].alone = rpc[c].alone
    BY <1>1, <1>8 DEF CountDisabled, RoundInv, CallsOK, CallType
  <2>4. ASSUME rpc[c].alone PROVE Rounds(rpc'[c], available, disabled, nextIndex, cooled)
    <3>1. rpc[c].total = Len(available) /\ rpc[c].attempts = 0 /\ rpc[c].tried = {}
      BY <2>1, <2>4 DEF RoundInv, RoundsOK, Rounds
    <3>2. /\ \A k \in 1 .. Len(disabled) : ~(k > Len(disabled) - 0)
          /\ 0 <= Len(disabled) - cooled
      BY <1>0
    <3>3. FirstRound(rpc'[c], available, disabled, cooled)
      BY <2>3, <3>1, <3>2 DEF FirstRound
    <3> QED
      BY <2>3, <3>1, <3>3 DEF Rounds
  <2> QED
    BY <1>2, <2>1, <2>2, <2>3, <2>4 DEF poolVars
<1>9. ASSUME NEW c \in Callers, Answer(c) PROVE \A d \in Callers : Good(d)
  <2>1. PICK out \in {"done", "refused"} : rpc' = [rpc EXCEPT ![c].pc = out]
    BY <1>9 DEF Answer
  <2>2. \A d \in Callers \ {c} : rpc'[d] = rpc[d]
    BY <2>1 DEF RoundInv, CallsOK
  <2>3. rpc'[c].pc \in {"done", "refused"}
    BY <1>1, <2>1 DEF RoundInv, CallsOK, CallType
  <2>4. UNCHANGED poolVars
    BY <1>9 DEF Answer
  <2> QED
    BY <1>2, <2>2, <2>3, <2>4 DEF Rounds
<1>10. ASSUME NEW c \in Callers, Rotate(c) PROVE \A d \in Callers : Good(d)
  <2> DEFINE avail == available \o SubSeq(disabled, 1, cooled)
             rest == SubSeq(disabled, cooled + 1, Len(disabled))
             e == avail[nextIndex + 1]
             r == rpc[c]
             used == [r EXCEPT !.pc = "call", !.at = e, !.tried = @ \cup {e}]
  <2>0. r.pc = "rotate"
    BY <1>10 DEF Rotate
  <2>1. CASE /\ r.attempts >= r.total /\ rpc' = [rpc EXCEPT ![c].pc = "failed"]
             /\ UNCHANGED poolVars
    <3> DEFINE new == [r EXCEPT !.pc = "failed"]
    <3>1. rpc' = [rpc EXCEPT ![c] = new]
      BY <2>1
    <3>2. new.pc = "failed" /\ new.tried = r.tried /\ new.alone = r.alone
      BY <1>1 DEF CallType
    <3>3. r.alone => ToSet(available) \cup ToSet(disabled) \subseteq r.tried
      BY <1>0, <1>1, <2>0, <2>1, OutOfAttempts DEF RoundInv, RoundsOK
    <3> HIDE DEF new
    <3>4. new.alone => Rounds(new, available, disabled, nextIndex, cooled)
      BY <3>2, <3>3 DEF Rounds
    <3> QED
      BY <1>4, <2>1, <3>1, <3>4
  <2>2. CASE /\ r.attempts < r.total
             /\ available' = avail /\ disabled' = rest /\ cooled' = 0
             /\ nextIndex' = (nextIndex + 1) % Len(avail)
             /\ rpc' = Disturb(c, IF e \in r.tried THEN [r EXCEPT !.pc = "failed"] ELSE used)
    <3>1. CooledLists(available, disabled, cooled, avail, rest)
      BY <1>0, CooledListsAre
    <3>2. /\ Len(avail) = Len(available) + cooled /\ Len(rest) = Len(disabled) - cooled
      BY <3>1 DEF CooledLists
    <3>3. r \in CallType
      BY <1>1
    <3> HIDE DEF avail, rest
    <3>4. /\ used.pc = "call" /\ used.at = e /\ used.attempts = r.attempts
          /\ used.total = r.total /\ used.tried = r.tried \cup {e} /\ used.alone = r.alone
      BY <3>3 DEF CallType
    <3>5. rpc'[c] = IF e \in r.tried THEN [r EXCEPT !.pc = "failed"] ELSE used
      BY <2>2 DEF Disturb
    <3>6. rpc'[c].alone = r.alone
      BY <3>3, <3>4, <3>5 DEF CallType
    <3> HIDE DEF used
    <3>7. ASSUME r.alone PROVE e \notin r.tried /\ Rounds(used, avail, rest, nextIndex', 0)
      <4>1. /\ r.total = Len(available) + Len(disabled)
            /\ \/ FirstRound(r, available, disabled, cooled)
               \/ SecondRound(r, available, disabled, nextIndex, cooled)
        BY <2>0, <3>7 DEF RoundInv, RoundsOK, Rounds
      <4>2. used.total = Len(avail) + Len(rest)
        BY <1>0, <3>2, <3>4, <4>1
      <4>3. CASE FirstRound(r, available, disabled, cooled)
        <5>1. e \notin r.tried /\ FirstRound(used, avail, rest, 0)
          BY <1>0, <2>0, <3>1, <3>3, <3>4, <4>3, FirstRotates
        <5> QED
          BY <3>4, <4>2, <5>1 DEF Rounds
      <4>4. CASE SecondRound(r, available, disabled, nextIndex, cooled)
        <5>1. /\ e \notin r.tried
              /\ SecondRound(used, avail, rest, (nextIndex + 1) % Len(avail), 0)
          BY <1>0, <2>0, <2>2, <3>1, <3>3, <3>4, <4>4, SecondRotates
        <5> QED
          BY <2>2, <3>4, <4>2, <5>1 DEF Rounds
      <4> QED
        BY <4>1, <4>3, <4>4
    <3>8. Good(c)
      BY <2>2, <3>5, <3>6, <3>7
    <3> QED
      BY <1>3, <2>2, <3>8
  <2> QED
    BY <1>10, <2>1, <2>2 DEF Rotate, NextEndpoint
<1>11. ASSUME NEW c \in Callers, EndpointFails(c) PROVE \A d \in Callers : Good(d)
  <2> DEFINE r == rpc[c]
             new == [r EXCEPT !.pc = "rotate", !.attempts = @ + 1]
  <2>1. r.pc = "call" /\ Disable(r.at) /\ rpc' = Disturb(c, new)
    BY <1>11 DEF EndpointFails
  <2>2. r \in CallType
    BY <1>1
  <2>3. /\ new.pc = "rotate" /\ new.attempts = r.attempts + 1 /\ new.tried = r.tried
        /\ new.total = r.total /\ new.alone = r.alone
    BY <2>2 DEF CallType
  <2>4. rpc'[c] = new
    BY <2>1 DEF Disturb
  <2> HIDE DEF new
  <2>5. ASSUME r.alone PROVE Rounds(new, available', disabled', nextIndex', cooled')
    <3>1. /\ r.total = Len(available) + Len(disabled)
          /\ \/ FirstRound(r, available, disabled, cooled)
             \/ SecondRound(r, available, disabled, nextIndex, cooled)
      BY <2>1, <2>5 DEF RoundInv, RoundsOK, Rounds
    <3>2. r.at \in ToSet(available)
      <4>1. \E k \in 1 .. Len(available) : available[k] = r.at
        <5>1. CASE FirstRound(r, available, disabled, cooled)
          BY <2>1, <5>1 DEF FirstRound
        <5>2. CASE SecondRound(r, available, disabled, nextIndex, cooled)
          <6>1. r.at = available[1]
            BY <2>1, <5>2 DEF SecondRound
          <6>2. 1 \in 1 .. Len(available)
            BY <1>0
          <6> QED
            BY <6>1, <6>2
        <5> QED
          BY <3>1, <5>1, <5>2
      <4> QED
        BY <1>0, <4>1 DEF ToSet
    <3>3. PICK i \in 1 .. Len(available), rest \in Seq(Endpoints) :
            /\ available[i] = r.at /\ Without(available, i, rest)
            /\ IF rest = <<>>
               THEN /\ available' = Append(disabled, r.at) /\ disabled' = <<>>
                    /\ cooled' = 0 /\ nextIndex' = 0
               ELSE /\ available' = rest /\ disabled' = Append(disabled, r.at)
                    /\ cooled' = cooled
                    /\ i = 1 /\ nextIndex = 1 => nextIndex' = 0
      BY <2>1, <3>2, DisableIs DEF RoundInv
    <3>4. new.total = Len(available') + Len(disabled')
      <4>1. Len(rest) = Len(available) - 1 /\ rest \in Seq(Endpoints)
        BY <3>3 DEF Without
      <4>2. Len(Append(disabled, r.at)) = Len(disabled) + 1
        BY <1>0
      <4>0. new.total = Len(available) + Len(disabled)
        BY <2>3, <3>1
      <4>3. CASE rest = <<>>
        <5>1. Len(available') = Len(disabled) + 1 /\ Len(disabled') = 0 /\ Len(rest) = 0
          BY <3>3, <4>2, <4>3
        <5>2. Len(available) = 1
          BY <1>0, <4>1, <5>1
        <5>3. Len(available) + Len(disabled) = (Len(disabled) + 1) + 0
          BY <1>0, <5>2
        <5> QED
          BY <4>0, <5>1, <5>3
      <4>4. CASE rest # <<>>
        <5>1. Len(available') = Len(rest) /\ Len(disabled') = Len(disabled) + 1
          BY <3>3, <4>2, <4>4
        <5> QED
          BY <1>0, <4>0, <4>1, <5>1
      <4> QED
        BY <4>3, <4>4
    <3>5. CASE FirstRound(r, available, disabled, cooled)
      <4>1. /\ FirstRound(new, rest, Append(disabled, r.at), cooled)
            /\ rest = <<>> => SecondRound(new, Append(disabled, r.at), <<>>, 0, 0)
        BY <1>0, <2>1, <2>2, <2>3, <3>1, <3>3, <3>5, FirstFails
      <4> QED
        BY <2>3, <3>3, <3>4, <4>1 DEF Rounds
    <3>6. CASE SecondRound(r, available, disabled, nextIndex, cooled)
      <4>1. /\ i = 1 /\ nextIndex = 1 /\ cooled = 0 /\ Len(rest) >= 1
            /\ SecondRound(new, rest, Append(disabled, r.at), 0, 0)
        <5>1. available[i] = r.at /\ Without(available, i, rest)
          BY <3>3
        <5> HIDE DEF r
        <5>2. /\ i = 1 /\ nextIndex = 1 /\ cooled = 0 /\ Len(rest) >= 1
              /\ SecondRound(new, rest, Append(disabled, available[i]), 0, 0)
          BY <1>0, <2>1, <2>2, <2>3, <3>6, <5>1, SecondFails
        <5> QED
          BY <5>1, <5>2
      <4>2. rest # <<>>
        BY <4>1
      <4> QED
        BY <2>3, <3>3, <3>4, <4>1, <4>2 DEF Rounds
    <3> QED
      BY <3>1, <3>5, <3>6
  <2>6. Good(c)
    BY <2>3, <2>4, <2>5
  <2> QED
    BY <1>3, <2>1, <2>6
<1>12. ASSUME UNCHANGED web3Vars PROVE \A d \in Callers : Good(d)
  BY <1>2, <1>12 DEF web3Vars
<1>13. (\A d \in Callers : Good(d)) => RoundsOK'
  BY DEF RoundsOK
<1> HIDE DEF Good
<1> QED
  BY <1>5, <1>6, <1>7, <1>8, <1>9, <1>10, <1>11, <1>12, <1>13 DEF PoolNext, CallNext

\* A call that no other call and no new endpoint disturbed gives up only after
\* every endpoint of the pool has failed it, for any number of endpoints, in
\* any state of their cooldowns (retrySwitchingEndpoints).
THEOREM CallsTryEveryEndpoint == PoolSpec => []GivesUpAfterAll
<1>1. PoolInit => RoundInv
  <2> SUFFICES ASSUME PoolInit PROVE RoundInv
    OBVIOUS
  <2>1. NoneTwice(available, disabled)
    BY DEF PoolInit, NoneTwice
  <2>2. CallsOK
    BY DEF PoolInit, CallsOK, CallType, NoCall, Pcs
  <2>3. \A c \in Callers : rpc[c].pc = "idle"
    BY DEF PoolInit, NoCall
  <2> QED
    BY <2>1, <2>2, <2>3, PoolInitially DEF RoundInv, RoundsOK, Rounds
<1>2. RoundInv /\ [PoolNext]_web3Vars => RoundInv'
  <2> SUFFICES ASSUME RoundInv, [PoolNext]_web3Vars PROVE RoundInv'
    OBVIOUS
  <2>1. PoolInv' /\ CallsOK' /\ NoneTwice(available', disabled')
    BY PoolStep, CallsStep, NoneTwiceStep DEF RoundInv
  <2>2. RoundsOK'
    BY <2>1, RoundsStep
  <2> QED
    BY <2>1, <2>2 DEF RoundInv
<1>3. RoundInv => GivesUpAfterAll
  BY DEF RoundInv, RoundsOK, Rounds, GivesUpAfterAll, Known
<1> QED
  BY <1>1, <1>2, <1>3, PTL DEF PoolSpec
=============================================================================
