-------------------------- MODULE TxManagerProofs ---------------------------
(***************************************************************************)
(* Proofs about TxManager, for any number of transactions, nonces, lost    *)
(* answers, evictions and restarts, and about GasEstimate, for any number  *)
(* of concurrent estimates, any limits and any calls lost.                 *)
(***************************************************************************)
EXTENDS TxManager, GasEstimate, FiniteSetTheorems, WellFoundedInduction, TLAPS

----------------------------------------------------------------------------
(* Types                                                                   *)

AnyId == Ids \cup {"none"}
Txs == [id : AnyId, kind : {"call", "cancel", "none"}, gen : Nat]
Ptxs == [id : AnyId, tx : Txs, retries : Nat, sidecar : BOOLEAN, sent : Nat]
Sending == {"stuck", "send", "recover", "speedup"}
Sent == {"sidecar", "wait", "ok", "failed"}
CallStates == [pc : {"idle"} \cup Sending \cup Sent, nonce : Nonces, until : Nat]

TxTypeOK ==
    /\ mined \in Seq([tx : Txs, ok : BOOLEAN])
    /\ mempool \in [Nonces -> Txs] /\ lostAnswers \in Nat
    /\ pendingTxs \in [Nonces -> Ptxs]
    /\ sweep \subseteq Nonces
    /\ call \in [Ids -> CallStates]
    /\ period \in Nat

\* Facts about the constants, in the form that the proofs use.
LEMMA TxConstants ==
    /\ MaxNonce \in Nat /\ MaxRetries \in Nat /\ WaitPeriods \in Nat
    /\ "none" \notin Ids /\ "free" \notin Ids /\ "monitor" \notin Ids
    /\ BlobIds \subseteq Ids /\ 0 \in Nonces /\ Nonces \subseteq Nat
BY TxIdAssumption, TxBoundAssumption DEF Nonces

\* The empty transaction and the empty tracking entry.
LEMMA EmptyTypes ==
    /\ NoTx \in Txs /\ NoTx.id = "none"
    /\ NoPtx \in Ptxs /\ NoPtx.id = "none"
<1>1. NoTx \in Txs /\ NoTx.id = "none"
  BY DEF NoTx, Txs, AnyId
<1>2. NoPtx \in Ptxs /\ NoPtx.id = "none"
  BY <1>1 DEF NoPtx, Ptxs, AnyId
<1> QED
  BY <1>1, <1>2

----------------------------------------------------------------------------
(* What the manager's helpers do to one tracked transaction                *)

\* The entry p of a nonce after speedUpTx or handleStuckTxs: gone, the same,
\* replaced, or cancelled, which happens to a transaction without blobs that
\* was replaced MaxRetries times.
Outcome(p, q) ==
    \/ q = NoPtx \/ q = p
    \/ /\ q.id = p.id /\ q.tx.id = p.id /\ q.sent = period
       /\ \/ q.tx.kind = "call" /\ q.retries = p.retries + 1
          \/ /\ q.tx.kind = "cancel" /\ q.retries = p.retries
             /\ p.retries >= MaxRetries /\ p.id \notin BlobIds

\* ... and of the mempool: a delivered transaction has the nonce and the ID of
\* the one that it replaces.
Settled(n) ==
    /\ \E q \in Ptxs : Outcome(pendingTxs[n], q) /\ pendingTxs' = [pendingTxs EXCEPT ![n] = q]
    /\ \/ mempool' = mempool
       \/ \E tx \in Txs : tx.id = pendingTxs[n].id /\ mempool' = [mempool EXCEPT ![n] = tx]
    /\ lostAnswers' \in Nat /\ lostAnswers' >= lostAnswers

\* A delivery changes at most the nonce's transaction.
LEMMA DeliverIs ==
    ASSUME TxTypeOK, NEW n \in Nonces, NEW tx \in Txs, NEW outcome, Deliver(n, tx, outcome)
    PROVE  /\ mempool' = mempool \/ mempool' = [mempool EXCEPT ![n] = tx]
           /\ lostAnswers' \in Nat /\ lostAnswers' >= lostAnswers
           /\ lostAnswers' = lostAnswers => ~IsLost(outcome)
           /\ ~Delivered(outcome) => mempool' = mempool
BY DEF Deliver, TxTypeOK, Delivered, IsLost

\* A tracking that does not change.
LEMMA AssignManager ==
    ASSUME Assign(Manager)
    PROVE  pendingTxs' = pendingTxs
BY DEF Assign, Manager

\* updateNonceTracking drops the entry of the nonce.
LEMMA AssignUpdated ==
    ASSUME NEW n, Assign(UpdateNonceTracking(Manager, n))
    PROVE  pendingTxs' = [pendingTxs EXCEPT ![n] = NoPtx]
BY DEF Assign, Manager, UpdateNonceTracking

\* Nothing changes, or the entry is dropped.
LEMMA SettledQuietly ==
    ASSUME TxTypeOK, NEW n \in Nonces, UNCHANGED poolTxVars,
           pendingTxs' = pendingTxs \/ pendingTxs' = [pendingTxs EXCEPT ![n] = NoPtx]
    PROVE  Settled(n)
<1>1. pendingTxs[n] \in Ptxs /\ pendingTxs = [pendingTxs EXCEPT ![n] = pendingTxs[n]]
  BY DEF TxTypeOK
<1>2. \E q \in Ptxs : Outcome(pendingTxs[n], q) /\ pendingTxs' = [pendingTxs EXCEPT ![n] = q]
  BY <1>1, EmptyTypes DEF Outcome
<1>3. mempool' = mempool /\ lostAnswers' \in Nat /\ lostAnswers' >= lostAnswers
  BY DEF TxTypeOK, poolTxVars
<1> QED
  BY <1>2, <1>3 DEF Settled

\* cancelTx.
LEMMA CancelIs ==
    ASSUME TxTypeOK, NEW n \in Nonces, pendingTxs[n].retries >= MaxRetries, CancelTx(n)
    PROVE  Settled(n)
<1> DEFINE p == pendingTxs[n]
           cancel == [id |-> p.id, kind |-> "cancel", gen |-> 0]
           q == [p EXCEPT !.tx = cancel, !.sent = period]
<1>1. p \in Ptxs /\ p.id \in AnyId /\ period \in Nat /\ lostAnswers \in Nat
  BY DEF TxTypeOK, Ptxs
<1>2. cancel \in Txs /\ cancel.id = p.id /\ cancel.kind = "cancel"
  BY <1>1 DEF Txs
<1>3. CASE p.id \in BlobIds /\ UNCHANGED poolTxVars /\ Assign(Manager)
  BY <1>3, AssignManager, SettledQuietly
<1>4. ASSUME p.id \notin BlobIds, NEW outcome, Deliver(n, cancel, outcome),
             Assign(IF IsNonceError(outcome) THEN UpdateNonceTracking(Manager, n)
                    ELSE IF outcome = "sent"
                    THEN [Manager EXCEPT !.ptx[n].tx = cancel, !.ptx[n].sent = period]
                    ELSE Manager)
      PROVE  Settled(n)
  <2>1. /\ mempool' = mempool \/ mempool' = [mempool EXCEPT ![n] = cancel]
        /\ lostAnswers' \in Nat /\ lostAnswers' >= lostAnswers
    BY <1>2, <1>4, DeliverIs
  <2>2. pendingTxs' = [pendingTxs EXCEPT ![n] = NoPtx] \/ pendingTxs' = pendingTxs
        \/ pendingTxs' = [pendingTxs EXCEPT ![n] = q]
    <3>1. CASE IsNonceError(outcome)
      BY <1>4, <3>1, AssignUpdated
    <3>2. CASE ~IsNonceError(outcome) /\ outcome = "sent"
      BY <1>4, <3>2 DEF Assign, Manager, TxTypeOK
    <3>3. CASE ~IsNonceError(outcome) /\ outcome # "sent"
      BY <1>4, <3>3, AssignManager
    <3> QED
      BY <3>1, <3>2, <3>3
  <2>3. q \in Ptxs /\ q.id = p.id /\ q.tx = cancel /\ q.sent = period /\ q.retries = p.retries
    BY <1>1, <1>2 DEF Ptxs
  <2>4. pendingTxs = [pendingTxs EXCEPT ![n] = p]
    BY DEF TxTypeOK
  <2> HIDE DEF p, q, cancel
  <2>5. \E r \in Ptxs : Outcome(p, r) /\ pendingTxs' = [pendingTxs EXCEPT ![n] = r]
    BY <1>1, <1>2, <1>4, <2>2, <2>3, <2>4, EmptyTypes DEF Outcome, p
  <2> QED
    BY <1>2, <2>1, <2>5 DEF Settled, p
<1> QED
  BY <1>3, <1>4 DEF CancelTx

\* The replacement with higher fees.
LEMMA ReplacementIs ==
    ASSUME TxTypeOK, NEW n \in Nonces, SendReplacement(n)
    PROVE  Settled(n)
<1> DEFINE p == pendingTxs[n]
           tx == [id |-> p.id, kind |-> "call", gen |-> p.retries + 1]
           q == [p EXCEPT !.tx = tx, !.retries = p.retries + 1, !.sent = period]
<1>1. p \in Ptxs /\ p.id \in AnyId /\ p.retries \in Nat /\ period \in Nat
  BY DEF TxTypeOK, Ptxs
<1>2. tx \in Txs /\ tx.id = p.id /\ tx.kind = "call"
  BY <1>1 DEF Txs
<1>3. PICK outcome \in SendOutcomes(n, tx) :
            /\ Deliver(n, tx, outcome)
            /\ Assign(IF IsNonceError(outcome) THEN UpdateNonceTracking(Manager, n)
                      ELSE IF outcome = "sent"
                      THEN [Manager EXCEPT !.ptx[n].tx = tx, !.ptx[n].retries = @ + 1,
                                           !.ptx[n].sent = period]
                      ELSE Manager)
  BY DEF SendReplacement
<1>4. /\ mempool' = mempool \/ mempool' = [mempool EXCEPT ![n] = tx]
      /\ lostAnswers' \in Nat /\ lostAnswers' >= lostAnswers
  BY <1>2, <1>3, DeliverIs
<1>5. pendingTxs' = [pendingTxs EXCEPT ![n] = NoPtx] \/ pendingTxs' = pendingTxs
      \/ pendingTxs' = [pendingTxs EXCEPT ![n] = q]
  <2>1. CASE IsNonceError(outcome)
    BY <1>3, <2>1, AssignUpdated
  <2>2. CASE ~IsNonceError(outcome) /\ outcome = "sent"
    BY <1>3, <2>2 DEF Assign, Manager, TxTypeOK
  <2>3. CASE ~IsNonceError(outcome) /\ outcome # "sent"
    BY <1>3, <2>3, AssignManager
  <2> QED
    BY <2>1, <2>2, <2>3
<1>6. q \in Ptxs /\ q.id = p.id /\ q.tx = tx /\ q.sent = period /\ q.retries = p.retries + 1
  <2>1. p.retries + 1 \in Nat
    BY <1>1
  <2> HIDE DEF p, tx
  <2> QED
    BY <1>1, <1>2, <2>1 DEF Ptxs
<1>7. pendingTxs = [pendingTxs EXCEPT ![n] = p]
  BY DEF TxTypeOK
<1> HIDE DEF p, q, tx
<1>8. \E r \in Ptxs : Outcome(p, r) /\ pendingTxs' = [pendingTxs EXCEPT ![n] = r]
  BY <1>1, <1>2, <1>5, <1>6, <1>7, EmptyTypes DEF Outcome, p
<1> QED
  BY <1>2, <1>4, <1>8 DEF Settled, p

\* speedUpTx.
LEMMA SpeedUpIs ==
    ASSUME TxTypeOK, NEW n \in Nonces, SpeedUpTx(n)
    PROVE  Settled(n)
BY CancelIs, ReplacementIs, AssignUpdated, AssignManager, SettledQuietly DEF SpeedUpTx

\* One iteration of handleStuckTxs touches only a transaction that was last
\* sent before this period.
LEMMA StuckTxIs ==
    ASSUME TxTypeOK, NEW n \in Nonces, StuckTx(n)
    PROVE  /\ Settled(n)
           /\ \/ pendingTxs' = pendingTxs \/ pendingTxs' = [pendingTxs EXCEPT ![n] = NoPtx]
              \/ pendingTxs[n].sent < period
<1>1. CASE pendingTxs[n].sent = period /\ UNCHANGED poolTxVars /\ Assign(Manager)
  BY <1>1, AssignManager, SettledQuietly
<1>2. CASE /\ pendingTxs[n].sent < period
           /\ UNCHANGED poolTxVars
           /\ Assign(UpdateNonceTracking(Manager, n))
  BY <1>2, AssignUpdated, SettledQuietly
<1>3. CASE pendingTxs[n].sent < period /\ SpeedUpTx(n)
  BY <1>3, SpeedUpIs
<1> QED
  BY <1>1, <1>2, <1>3 DEF StuckTx

----------------------------------------------------------------------------
(* The inductive invariant of the nonces                                   *)

\* SendTx of i is over and used nonce n last.
SentAt(i, n) == call[i].pc \in Sent /\ call[i].nonce = n
SentAfter(i, n) == call'[i].pc \in Sent /\ call'[i].nonce = n

\* SendTx runs with mu held.
MuOK == \A i \in Ids : call[i].pc \in Sending => mu = i

\* A tracked transaction belongs to a SendTx that is over, has the nonce of
\* that SendTx, and was not cancelled if it carries blobs.
TrackedOK ==
    \A n \in Nonces : pendingTxs[n].id \in Ids =>
        /\ SentAt(pendingTxs[n].id, n)
        /\ pendingTxs[n].tx.id = pendingTxs[n].id
        /\ pendingTxs[n].id \in BlobIds => pendingTxs[n].tx.kind = "call"

\* Until an answer is lost, a transaction is known to the chain under the one
\* nonce of its SendTx: with a lost answer recoverTxFromNonceGap sends it again
\* under another one.
OneNonce ==
    lostAnswers = 0 =>
        /\ \A n \in Nonces : mempool[n].id \in Ids => SentAt(mempool[n].id, n)
        /\ \A k \in DOMAIN mined : mined[k].tx.id \in Ids => SentAt(mined[k].tx.id, k - 1)

NonceInv == TxTypeOK /\ MuOK /\ TrackedOK /\ OneNonce

\* A SendTx that is over keeps its nonce.
CallsKept ==
    \A i \in Ids : call[i].pc \in Sent => call'[i].pc \in Sent /\ call'[i].nonce = call[i].nonce

\* A transaction that is tracked after a step was tracked before it, under the
\* same ID, or is the one of a SendTx that ends with this nonce.
TrackingKept ==
    \A n \in Nonces : pendingTxs'[n].id \in Ids =>
        /\ pendingTxs'[n].tx.id = pendingTxs'[n].id
        /\ pendingTxs'[n].id \in BlobIds => pendingTxs'[n].tx.kind = "call"
        /\ pendingTxs'[n].id = pendingTxs[n].id \/ SentAfter(pendingTxs'[n].id, n)

\* The same for the mempool, where a replacement may enter.
PoolKept ==
    /\ lostAnswers' \in Nat /\ lostAnswers' >= lostAnswers
    /\ lostAnswers' = 0 => \A n \in Nonces : mempool'[n].id \in Ids =>
            mempool'[n].id \in {mempool[n].id, pendingTxs[n].id} \/ SentAfter(mempool'[n].id, n)

\* TrackedOK and OneNonce over a step that mines nothing.
LEMMA NoncesKept ==
    ASSUME NonceInv, CallsKept, TrackingKept, PoolKept, mined' = mined
    PROVE  TrackedOK' /\ OneNonce'
<1>1. ASSUME NEW i \in Ids, NEW n, SentAt(i, n)
      PROVE  SentAfter(i, n)
  BY <1>1 DEF CallsKept, SentAt, SentAfter
<1>2. ASSUME NEW n \in Nonces, pendingTxs'[n].id \in Ids
      PROVE  /\ SentAfter(pendingTxs'[n].id, n)
             /\ pendingTxs'[n].tx.id = pendingTxs'[n].id
             /\ pendingTxs'[n].id \in BlobIds => pendingTxs'[n].tx.kind = "call"
  <2> DEFINE i == pendingTxs'[n].id
  <2>1. /\ i \in Ids /\ pendingTxs'[n].tx.id = i
        /\ i \in BlobIds => pendingTxs'[n].tx.kind = "call"
        /\ i = pendingTxs[n].id \/ SentAfter(i, n)
    BY <1>2 DEF TrackingKept
  <2>2. i = pendingTxs[n].id => SentAt(i, n)
    BY <2>1 DEF NonceInv, TrackedOK
  <2> HIDE DEF i
  <2>3. SentAfter(i, n)
    BY <1>1, <2>1, <2>2
  <2> QED
    BY <2>1, <2>3 DEF i
<1>3. TrackedOK'
  BY <1>2 DEF TrackedOK, SentAt, SentAfter
<1>4. ASSUME lostAnswers' = 0 PROVE lostAnswers = 0
  BY <1>4 DEF PoolKept, NonceInv, TxTypeOK
<1>5. ASSUME lostAnswers' = 0, NEW n \in Nonces, mempool'[n].id \in Ids
      PROVE  SentAfter(mempool'[n].id, n)
  <2> DEFINE i == mempool'[n].id
  <2>1. /\ i \in Ids
        /\ i \in {mempool[n].id, pendingTxs[n].id} \/ SentAfter(i, n)
    BY <1>5 DEF PoolKept
  <2>2. i \in {mempool[n].id, pendingTxs[n].id} => SentAt(i, n)
    BY <1>4, <1>5, <2>1 DEF NonceInv, TrackedOK, OneNonce
  <2> HIDE DEF i
  <2>3. SentAfter(i, n)
    BY <1>1, <2>1, <2>2
  <2> QED
    BY <2>3 DEF i
<1>6. ASSUME lostAnswers' = 0, NEW k \in DOMAIN mined, mined[k].tx.id \in Ids
      PROVE  SentAfter(mined[k].tx.id, k - 1)
  BY <1>1, <1>4, <1>6 DEF NonceInv, OneNonce
<1>7. OneNonce'
  BY <1>5, <1>6 DEF OneNonce, SentAt, SentAfter
<1> QED
  BY <1>3, <1>7

\* Nothing is tracked or sent yet.
LEMMA NonceInitially == TxInit => NonceInv
<1> SUFFICES ASSUME TxInit PROVE NonceInv
  OBVIOUS
<1>1. [pc |-> "idle", nonce |-> 0, until |-> 0] \in CallStates
  BY TxConstants DEF CallStates
<1>2. TxTypeOK
  BY <1>1, EmptyTypes DEF TxInit, TxTypeOK
<1>3. MuOK
  BY DEF TxInit, MuOK, Sending
<1>4. TrackedOK
  BY EmptyTypes, TxConstants DEF TxInit, TrackedOK
<1>5. OneNonce
  BY EmptyTypes, TxConstants DEF TxInit, OneNonce
<1> QED
  BY <1>2, <1>3, <1>4, <1>5 DEF NonceInv

----------------------------------------------------------------------------
(* Steps                                                                   *)

\* A step of one caller, which keeps its nonce and deadline or gets new ones.
PcSet == {"idle"} \cup Sending \cup Sent

LEMMA CallGoes ==
    ASSUME TxTypeOK, NEW i \in Ids, NEW pc \in PcSet,
           call' = [call EXCEPT ![i].pc = pc]
    PROVE  /\ call' \in [Ids -> CallStates]
           /\ call'[i].pc = pc /\ call'[i].nonce = call[i].nonce
           /\ call'[i].until = call[i].until
           /\ \A j \in Ids : j # i => call'[j] = call[j]
BY DEF TxTypeOK, CallStates, PcSet

LEMMA CallGetsNonce ==
    ASSUME TxTypeOK, NEW i \in Ids, NEW pc \in PcSet, NEW n \in Nonces,
           call' = [call EXCEPT ![i].pc = pc, ![i].nonce = n]
    PROVE  /\ call' \in [Ids -> CallStates]
           /\ call'[i].pc = pc /\ call'[i].nonce = n /\ call'[i].until = call[i].until
           /\ \A j \in Ids : j # i => call'[j] = call[j]
BY DEF TxTypeOK, CallStates, PcSet

LEMMA CallGetsDeadline ==
    ASSUME TxTypeOK, NEW i \in Ids, NEW pc \in PcSet, NEW u \in Nat,
           call' = [call EXCEPT ![i].pc = pc, ![i].until = u]
    PROVE  /\ call' \in [Ids -> CallStates]
           /\ call'[i].pc = pc /\ call'[i].nonce = call[i].nonce /\ call'[i].until = u
           /\ \A j \in Ids : j # i => call'[j] = call[j]
BY DEF TxTypeOK, CallStates, PcSet

\* A step that mines nothing keeps the invariant if it keeps its parts.
LEMMA StepKeeps ==
    ASSUME NonceInv, CallsKept, TrackingKept, PoolKept, mined' = mined, MuOK',
           mempool' \in [Nonces -> Txs], pendingTxs' \in [Nonces -> Ptxs],
           sweep' \subseteq Nonces, call' \in [Ids -> CallStates], period' \in Nat
    PROVE  NonceInv'
<1>1. TrackedOK' /\ OneNonce'
  BY NoncesKept
<1>2. TxTypeOK'
  BY DEF TxTypeOK, NonceInv, PoolKept
<1> QED
  BY <1>1, <1>2 DEF NonceInv

\* An unchanged mempool, unchanged entries and dropped ones keep it.
LEMMA QuietPool ==
    ASSUME NonceInv, UNCHANGED poolTxVars
    PROVE  PoolKept /\ mempool' \in [Nonces -> Txs]
BY DEF NonceInv, TxTypeOK, PoolKept, poolTxVars

LEMMA QuietTracking ==
    ASSUME NonceInv, pendingTxs' \in [Nonces -> Ptxs],
           \A n \in Nonces : pendingTxs'[n] = pendingTxs[n] \/ pendingTxs'[n] = NoPtx
    PROVE  TrackingKept
BY EmptyTypes, TxConstants DEF NonceInv, TrackedOK, TrackingKept

\* So do speedUpTx and handleStuckTxs.
LEMMA SettledKeeps ==
    ASSUME NonceInv, NEW n \in Nonces, Settled(n)
    PROVE  /\ TrackingKept /\ PoolKept
           /\ mempool' \in [Nonces -> Txs] /\ pendingTxs' \in [Nonces -> Ptxs]
<1>1. PICK q \in Ptxs : /\ Outcome(pendingTxs[n], q)
                        /\ pendingTxs' = [pendingTxs EXCEPT ![n] = q]
  BY DEF Settled
<1>2. /\ pendingTxs' \in [Nonces -> Ptxs] /\ pendingTxs'[n] = q
      /\ \A m \in Nonces : m # n => pendingTxs'[m] = pendingTxs[m]
  BY <1>1 DEF NonceInv, TxTypeOK
<1>3. q.id \in Ids => /\ q.id = pendingTxs[n].id /\ q.tx.id = q.id
                      /\ q.id \in BlobIds => q.tx.kind = "call"
  BY <1>1, EmptyTypes, TxConstants DEF Outcome, NonceInv, TrackedOK
<1>4. TrackingKept
  BY <1>2, <1>3 DEF TrackingKept, NonceInv, TrackedOK
<1>5. /\ mempool' \in [Nonces -> Txs]
      /\ \A m \in Nonces : mempool'[m].id \in {mempool[m].id, pendingTxs[m].id}
  <2>1. CASE mempool' = mempool
    BY <2>1 DEF NonceInv, TxTypeOK
  <2>2. ASSUME NEW tx \in Txs, tx.id = pendingTxs[n].id, mempool' = [mempool EXCEPT ![n] = tx]
        PROVE  <1>5!1 /\ <1>5!2
    BY <2>2 DEF NonceInv, TxTypeOK
  <2> QED
    BY <2>1, <2>2 DEF Settled
<1>6. PoolKept
  BY <1>5 DEF PoolKept, Settled
<1> QED
  BY <1>2, <1>4, <1>5, <1>6

\* A set of nonces has a least element, the one that the recovery speeds up.
LEMMA LeastNonce ==
    ASSUME NEW S, S \subseteq Nat, S # {}
    PROVE  (CHOOSE n \in S : \A m \in S : n <= m) \in S
<1>1. PICK n \in S : \A m \in S : ~(<<m, n>> \in OpToRel(<, Nat))
  BY NatLessThanWellFounded, WFMin
<1>2. \A m \in S : n <= m
  <2> SUFFICES ASSUME NEW m \in S, m < n PROVE FALSE
    OBVIOUS
  <2>1. <<m, n>> \in Nat \X Nat /\ <<m, n>>[1] < <<m, n>>[2]
    OBVIOUS
  <2>2. <<m, n>> \in OpToRel(<, Nat)
    BY <2>1, Zenon DEF OpToRel
  <2> QED
    BY <1>1, <2>2
<1> QED
  BY <1>2

\* SendTx takes mu, which nobody held.
LEMMA SendTxKeeps ==
    ASSUME NonceInv, NEW i \in Ids, SendTx(i)
    PROVE  NonceInv'
<1>1. /\ call' \in [Ids -> CallStates] /\ call'[i].pc = "stuck"
      /\ \A j \in Ids : j # i => call'[j] = call[j]
  BY CallGoes DEF SendTx, Set, PcSet, Sending, NonceInv
<1>2. MuOK'
  BY <1>1, TxConstants DEF NonceInv, MuOK, SendTx
<1>3. CallsKept
  BY <1>1 DEF CallsKept, SendTx, PcIs, Sent
<1>4. PoolKept /\ mempool' \in [Nonces -> Txs]
  BY QuietPool DEF SendTx, chainTxVars
<1>5. pendingTxs' \in [Nonces -> Ptxs] /\ TrackingKept
  BY QuietTracking DEF SendTx, NonceInv, TxTypeOK
<1>6. mined' = mined /\ sweep' \subseteq Nonces /\ period' \in Nat
  BY DEF SendTx, chainTxVars, Tracked, NonceInv, TxTypeOK
<1> QED
  BY <1>1, <1>2, <1>3, <1>4, <1>5, <1>6, StepKeeps

\* The caller that holds mu chooses a nonce.
LEMMA PickNonceKeeps ==
    ASSUME NonceInv, NEW i \in Ids, PickNonce(i)
    PROVE  NonceInv'
<1>1. PICK n \in Nonces : call' = [call EXCEPT ![i].pc = "send", ![i].nonce = n]
  BY DEF PickNonce
<1>2. /\ call' \in [Ids -> CallStates] /\ call'[i].pc = "send"
      /\ \A j \in Ids : j # i => call'[j] = call[j]
  BY <1>1, CallGetsNonce DEF PcSet, Sending, NonceInv
<1>3. MuOK'
  BY <1>2 DEF NonceInv, MuOK, PickNonce, managerVars
<1>4. CallsKept
  BY <1>2 DEF CallsKept, PickNonce, PcIs, Sent
<1>5. PoolKept /\ mempool' \in [Nonces -> Txs]
  BY QuietPool DEF PickNonce, chainTxVars
<1>6. pendingTxs' \in [Nonces -> Ptxs] /\ TrackingKept
  BY QuietTracking DEF PickNonce, NonceInv, TxTypeOK, managerVars
<1>7. mined' = mined /\ sweep' \subseteq Nonces /\ period' \in Nat
  BY DEF PickNonce, chainTxVars, managerVars, NonceInv, TxTypeOK
<1> QED
  BY <1>2, <1>3, <1>4, <1>5, <1>6, <1>7, StepKeeps

\* trackTx: a new entry for the caller that sent its transaction.
Fresh(i) == [NoPtx EXCEPT !.id = i, !.sent = period,
                          !.tx = [id |-> i, kind |-> "call", gen |-> 0]]

LEMMA FreshIs ==
    ASSUME TxTypeOK, NEW i \in Ids
    PROVE  /\ [id |-> i, kind |-> "call", gen |-> 0] \in Txs
           /\ Fresh(i) \in Ptxs /\ Fresh(i).id = i /\ Fresh(i).sent = period
           /\ Fresh(i).retries = 0
           /\ Fresh(i).tx.id = i /\ Fresh(i).tx.kind = "call"
<1>1. [id |-> i, kind |-> "call", gen |-> 0] \in Txs /\ period \in Nat
  BY DEF Txs, AnyId, TxTypeOK
<1>2. NoPtx \in Ptxs /\ NoPtx.retries = 0
  BY EmptyTypes DEF NoPtx
<1> QED
  BY <1>1, <1>2 DEF Ptxs, AnyId, Fresh

LEMMA TrackTxIs ==
    ASSUME TxTypeOK, NEW i \in Ids, NEW n \in Nonces, NEW ptx \in [Nonces -> Ptxs],
           NEW next, NEW last,
           Assign(TrackTx([ptx |-> ptx, next |-> next, last |-> last], i, n))
    PROVE  pendingTxs' = [ptx EXCEPT ![n] = Fresh(i)]
BY DEF Assign, TrackTx, Fresh

\* A transaction that was sent is tracked under the nonce that its call keeps;
\* entries of ptx are those of before or dropped ones.
LEMMA SentKeeps ==
    ASSUME NonceInv, NEW i \in Ids, NEW n \in Nonces, NEW ptx \in [Nonces -> Ptxs],
           \A m \in Nonces : ptx[m] = pendingTxs[m] \/ ptx[m] = NoPtx,
           pendingTxs' = [ptx EXCEPT ![n] = Fresh(i)], SentAfter(i, n)
    PROVE  TrackingKept /\ pendingTxs' \in [Nonces -> Ptxs]
<1>1. /\ Fresh(i) \in Ptxs /\ Fresh(i).id = i /\ Fresh(i).tx.id = i
      /\ Fresh(i).tx.kind = "call"
  BY FreshIs DEF NonceInv
<1>2. /\ pendingTxs' \in [Nonces -> Ptxs] /\ pendingTxs'[n] = Fresh(i)
      /\ \A m \in Nonces : m # n => pendingTxs'[m] = ptx[m]
  BY <1>1
<1>3. \A m \in Nonces : m # n => pendingTxs'[m] = pendingTxs[m] \/ pendingTxs'[m] = NoPtx
  BY <1>2
<1>4. TrackingKept
  BY <1>1, <1>2, <1>3, EmptyTypes, TxConstants DEF NonceInv, TrackedOK, TrackingKept
<1> QED
  BY <1>2, <1>4

\* A delivery of i's transaction: its SendTx ends with that nonce, or the
\* answer is lost.
LEMMA DeliveryKeeps ==
    ASSUME NonceInv, NEW i \in Ids, NEW n \in Nonces, NEW outcome,
           Deliver(n, [id |-> i, kind |-> "call", gen |-> 0], outcome),
           outcome = "sent" => SentAfter(i, n)
    PROVE  PoolKept /\ mempool' \in [Nonces -> Txs]
<1> DEFINE tx == [id |-> i, kind |-> "call", gen |-> 0]
<1>1. tx \in Txs /\ tx.id = i
  BY FreshIs DEF NonceInv
<1>2. /\ lostAnswers' \in Nat /\ lostAnswers' >= lostAnswers
      /\ mempool' = mempool \/ mempool' = [mempool EXCEPT ![n] = tx]
      /\ mempool' # mempool => outcome = "sent" \/ lostAnswers' = lostAnswers + 1
  BY DEF Deliver, Delivered, NonceInv, TxTypeOK
<1> HIDE DEF tx
<1>3. mempool' \in [Nonces -> Txs]
  BY <1>1, <1>2 DEF NonceInv, TxTypeOK
<1>4. lostAnswers' = 0 => mempool' = mempool \/ SentAfter(i, n)
  BY <1>2 DEF NonceInv, TxTypeOK
<1>5. PoolKept
  BY <1>1, <1>2, <1>4 DEF PoolKept, NonceInv, TxTypeOK
<1> QED
  BY <1>3, <1>5

\* Only the holder of mu is in SendTx: it may go on or release mu.
LEMMA HolderKeepsMu ==
    ASSUME NonceInv, NEW i \in Ids, call[i].pc \in Sending,
           \A j \in Ids : j # i => call'[j] = call[j],
           mu' = mu \/ call'[i].pc \notin Sending
    PROVE  /\ mu = i /\ MuOK'
           /\ CallsKept
<1>1. mu = i
  BY DEF NonceInv, MuOK
<1>2. MuOK'
  BY <1>1 DEF NonceInv, MuOK
<1>3. CallsKept
  BY DEF CallsKept, Sending, Sent
<1> QED
  BY <1>1, <1>2, <1>3

\* The transaction is sent, or a nonce error starts the recovery.
LEMMA SendKeeps ==
    ASSUME NonceInv, NEW i \in Ids, Send(i)
    PROVE  NonceInv'
<1> DEFINE n == call[i].nonce
           tx == [id |-> i, kind |-> "call", gen |-> 0]
<1>1. /\ n \in Nonces /\ call[i].pc \in Sending /\ period \in Nat
      /\ period + WaitPeriods \in Nat
  BY TxConstants DEF NonceInv, TxTypeOK, CallStates, Send, PcIs, Sending
<1>2. PICK outcome :
        /\ Deliver(n, tx, outcome)
        /\ \/ /\ IsNonceError(outcome)
              /\ Set(i, "recover") /\ UNCHANGED mu /\ Assign(Manager)
           \/ /\ outcome = "sent"
              /\ Return(i, AfterSend(i)) /\ Assign(TrackTx(Manager, i, n))
           \/ /\ outcome \in {"failed", "failed+"}
              /\ Return(i, "failed") /\ Assign(Manager)
  BY DEF Send
<1>3. mined' = mined /\ sweep' \subseteq Nonces /\ period' \in Nat
  BY DEF Send, NonceInv, TxTypeOK
<1>4. CASE IsNonceError(outcome) /\ Set(i, "recover") /\ UNCHANGED mu /\ Assign(Manager)
  <2>1. /\ call' \in [Ids -> CallStates] /\ \A j \in Ids : j # i => call'[j] = call[j]
    BY <1>4, CallGoes DEF Set, PcSet, Sending, NonceInv
  <2>2. MuOK' /\ CallsKept
    BY <1>1, <1>4, <2>1, HolderKeepsMu
  <2>3. PoolKept /\ mempool' \in [Nonces -> Txs]
    BY <1>1, <1>2, <1>4, DeliveryKeeps DEF IsNonceError
  <2>4. TrackingKept /\ pendingTxs' \in [Nonces -> Ptxs]
    BY <1>4, AssignManager, QuietTracking DEF NonceInv, TxTypeOK
  <2> QED
    BY <1>3, <2>1, <2>2, <2>3, <2>4, StepKeeps
<1>5. CASE outcome = "sent" /\ Return(i, AfterSend(i)) /\ Assign(TrackTx(Manager, i, n))
  <2>1. AfterSend(i) \in PcSet /\ AfterSend(i) \in Sent /\ AfterSend(i) \notin Sending
    BY DEF AfterSend, PcSet, Sent, Sending
  <2>2. /\ call' \in [Ids -> CallStates] /\ \A j \in Ids : j # i => call'[j] = call[j]
        /\ call'[i].pc = AfterSend(i) /\ call'[i].nonce = n
    BY <1>1, <1>5, <2>1, CallGetsDeadline DEF Return, NonceInv
  <2>3. MuOK' /\ CallsKept
    BY <1>1, <2>1, <2>2, HolderKeepsMu
  <2>4. SentAfter(i, n)
    BY <2>1, <2>2 DEF SentAfter
  <2>5. PoolKept /\ mempool' \in [Nonces -> Txs]
    BY <1>1, <1>2, <2>4, DeliveryKeeps
  <2>6. pendingTxs' = [pendingTxs EXCEPT ![n] = Fresh(i)] /\ pendingTxs \in [Nonces -> Ptxs]
    BY <1>1, <1>5, TrackTxIs DEF Manager, NonceInv, TxTypeOK
  <2>7. TrackingKept /\ pendingTxs' \in [Nonces -> Ptxs]
    BY <1>1, <2>4, <2>6, SentKeeps
  <2> QED
    BY <1>3, <2>2, <2>3, <2>5, <2>7, StepKeeps
<1>6. CASE outcome \in {"failed", "failed+"} /\ Return(i, "failed") /\ Assign(Manager)
  <2>1. /\ call' \in [Ids -> CallStates] /\ \A j \in Ids : j # i => call'[j] = call[j]
        /\ call'[i].pc = "failed"
    BY <1>1, <1>6, CallGetsDeadline DEF Return, NonceInv, PcSet, Sent
  <2>2. MuOK' /\ CallsKept
    BY <1>1, <2>1, HolderKeepsMu DEF Sending
  <2>3. PoolKept /\ mempool' \in [Nonces -> Txs]
    BY <1>1, <1>2, <1>6, DeliveryKeeps
  <2>4. TrackingKept /\ pendingTxs' \in [Nonces -> Ptxs]
    BY <1>6, AssignManager, QuietTracking DEF NonceInv, TxTypeOK
  <2> QED
    BY <1>3, <2>1, <2>2, <2>3, <2>4, StepKeeps
<1> QED
  BY <1>2, <1>4, <1>5, <1>6

\* recoverTxFromNonceGap: entries are dropped; then the caller goes on to the
\* speed-up, or sends its transaction again under the on-chain nonce.
LEMMA RecoverKeeps ==
    ASSUME NonceInv, NEW i \in Ids, RecoverTxFromNonceGap(i)
    PROVE  NonceInv'
<1> DEFINE kept(c) == [n \in Nonces |-> IF n < c THEN NoPtx ELSE pendingTxs[n]]
           stuck(c) == {n \in Nonces : /\ kept(c)[n] # NoPtx
                                       /\ n = c \/ n \in c .. (nextNonce - 1)}
           reset(c) == [ptx |-> kept(c), next |-> c, last |-> c]
           tx == [id |-> i, kind |-> "call", gen |-> 0]
<1>1. PICK c \in Nonces :
        \/ /\ stuck(c) # {}
           /\ pendingTxs' = kept(c)
           /\ sweep' = {CHOOSE n \in stuck(c) : \A m \in stuck(c) : n <= m}
           /\ call' = [call EXCEPT ![i].pc = "speedup"]
           /\ UNCHANGED <<poolTxVars, nextNonce, lastConfirmedNonce, mu>>
        \/ /\ \E outcome \in SendOutcomes(c, tx) :
                /\ Deliver(c, tx, outcome)
                /\ IF outcome = "sent"
                   THEN /\ Assign(TrackTx(reset(c), i, c))
                        /\ call' = [call EXCEPT ![i].pc = AfterSend(i), ![i].nonce = c,
                                                ![i].until = period + WaitPeriods]
                   ELSE Assign(reset(c)) /\ Set(i, "failed")
           /\ mu' = "free"
           /\ UNCHANGED sweep
  BY DEF RecoverTxFromNonceGap
<1>2. /\ call[i].pc \in Sending /\ period \in Nat /\ period + WaitPeriods \in Nat
      /\ mined' = mined /\ period' \in Nat
  BY TxConstants DEF RecoverTxFromNonceGap, PcIs, Sending, NonceInv, TxTypeOK
<1>3. /\ kept(c) \in [Nonces -> Ptxs]
      /\ \A n \in Nonces : kept(c)[n] = pendingTxs[n] \/ kept(c)[n] = NoPtx
  BY EmptyTypes DEF NonceInv, TxTypeOK
<1>4. CASE /\ stuck(c) # {}
           /\ pendingTxs' = kept(c)
           /\ sweep' = {CHOOSE n \in stuck(c) : \A m \in stuck(c) : n <= m}
           /\ call' = [call EXCEPT ![i].pc = "speedup"]
           /\ UNCHANGED <<poolTxVars, nextNonce, lastConfirmedNonce, mu>>
  <2>1. stuck(c) \subseteq Nonces /\ stuck(c) \subseteq Nat
    BY TxConstants
  <2>2. sweep' \subseteq Nonces
    <3> HIDE DEF stuck
    <3> QED
      BY <1>4, <2>1, LeastNonce
  <2>3. /\ call' \in [Ids -> CallStates] /\ \A j \in Ids : j # i => call'[j] = call[j]
    BY <1>4, CallGoes DEF PcSet, Sending, NonceInv
  <2>4. MuOK' /\ CallsKept
    BY <1>2, <1>4, <2>3, HolderKeepsMu
  <2>5. PoolKept /\ mempool' \in [Nonces -> Txs]
    BY <1>4, QuietPool
  <2>6. TrackingKept /\ pendingTxs' \in [Nonces -> Ptxs]
    <3> HIDE DEF kept
    <3> QED
      BY <1>3, <1>4, QuietTracking
  <2> QED
    BY <1>2, <2>2, <2>3, <2>4, <2>5, <2>6, StepKeeps
<1>5. ASSUME NEW outcome, Deliver(c, tx, outcome), mu' = "free", UNCHANGED sweep,
             outcome = "sent", Assign(TrackTx(reset(c), i, c)),
             call' = [call EXCEPT ![i].pc = AfterSend(i), ![i].nonce = c,
                                  ![i].until = period + WaitPeriods]
      PROVE  NonceInv'
  <2>1. AfterSend(i) \in PcSet /\ AfterSend(i) \in Sent /\ AfterSend(i) \notin Sending
    BY DEF AfterSend, PcSet, Sent, Sending
  <2>2. /\ call' \in [Ids -> CallStates] /\ \A j \in Ids : j # i => call'[j] = call[j]
        /\ call'[i].pc = AfterSend(i) /\ call'[i].nonce = c
    <3> DEFINE u == period + WaitPeriods
    <3>1. u \in Nat /\ call' = [call EXCEPT ![i].pc = AfterSend(i), ![i].nonce = c, ![i].until = u]
      BY <1>2, <1>5
    <3> HIDE DEF u
    <3> QED
      BY <2>1, <3>1 DEF NonceInv, TxTypeOK, CallStates, PcSet
  <2>3. MuOK' /\ CallsKept
    BY <1>2, <2>1, <2>2, HolderKeepsMu
  <2>4. SentAfter(i, c)
    BY <2>1, <2>2 DEF SentAfter
  <2>5. PoolKept /\ mempool' \in [Nonces -> Txs]
    BY <1>5, <2>4, DeliveryKeeps
  <2> HIDE DEF kept
  <2>6. pendingTxs' = [kept(c) EXCEPT ![c] = Fresh(i)]
    BY <1>3, <1>5, TrackTxIs DEF NonceInv
  <2>7. TrackingKept /\ pendingTxs' \in [Nonces -> Ptxs]
    BY <1>3, <2>4, <2>6, SentKeeps
  <2>8. sweep' \subseteq Nonces
    BY <1>5 DEF NonceInv, TxTypeOK
  <2> QED
    BY <1>2, <2>2, <2>3, <2>5, <2>7, <2>8, StepKeeps
<1>6. ASSUME NEW outcome, Deliver(c, tx, outcome), mu' = "free", UNCHANGED sweep,
             outcome # "sent", Assign(reset(c)), Set(i, "failed")
      PROVE  NonceInv'
  <2>1. /\ call' \in [Ids -> CallStates] /\ \A j \in Ids : j # i => call'[j] = call[j]
        /\ call'[i].pc = "failed"
    BY <1>6, CallGoes DEF Set, NonceInv, PcSet, Sent
  <2>2. MuOK' /\ CallsKept
    BY <1>2, <2>1, HolderKeepsMu DEF Sending
  <2>3. PoolKept /\ mempool' \in [Nonces -> Txs]
    BY <1>6, DeliveryKeeps
  <2> HIDE DEF kept
  <2>4. pendingTxs' = kept(c)
    BY <1>6 DEF Assign
  <2>5. TrackingKept /\ pendingTxs' \in [Nonces -> Ptxs]
    BY <1>3, <2>4, QuietTracking
  <2>6. sweep' \subseteq Nonces
    BY <1>6 DEF NonceInv, TxTypeOK
  <2> QED
    BY <1>2, <2>1, <2>2, <2>3, <2>5, <2>6, StepKeeps
<1> QED
  BY <1>1, <1>4, <1>5, <1>6

\* The speed-up that ends the recovery.
LEMMA RecoverySpeedUpKeeps ==
    ASSUME NonceInv, NEW i \in Ids, RecoverySpeedUp(i)
    PROVE  NonceInv'
<1>1. PICK n \in Nonces : SpeedUpTx(n)
  BY DEF RecoverySpeedUp, NonceInv, TxTypeOK
<1>2. Settled(n)
  BY <1>1, SpeedUpIs DEF NonceInv
<1>3. /\ TrackingKept /\ PoolKept
      /\ mempool' \in [Nonces -> Txs] /\ pendingTxs' \in [Nonces -> Ptxs]
  BY <1>2, SettledKeeps
<1>4. /\ call[i].pc \in Sending /\ period \in Nat /\ period + WaitPeriods \in Nat
      /\ mined' = mined /\ period' \in Nat /\ sweep' \subseteq Nonces
  BY TxConstants DEF RecoverySpeedUp, PcIs, Sending, NonceInv, TxTypeOK
<1>5. AfterSend(i) \in PcSet /\ AfterSend(i) \in Sent /\ AfterSend(i) \notin Sending
  BY DEF AfterSend, PcSet, Sent, Sending
<1>6. /\ call' \in [Ids -> CallStates] /\ \A j \in Ids : j # i => call'[j] = call[j]
      /\ call'[i].pc = AfterSend(i)
  BY <1>4, <1>5, CallGetsDeadline DEF RecoverySpeedUp, Return, NonceInv
<1>7. MuOK' /\ CallsKept
  BY <1>4, <1>5, <1>6, HolderKeepsMu
<1> QED
  BY <1>3, <1>4, <1>6, <1>7, StepKeeps

\* A step of a caller whose SendTx is over.
LEMMA OverKeeps ==
    ASSUME NonceInv, NEW i \in Ids, call[i].pc \in Sent, NEW pc \in Sent, Set(i, pc), mu' = mu
    PROVE  MuOK' /\ CallsKept /\ call' \in [Ids -> CallStates]
<1>1. /\ call' \in [Ids -> CallStates] /\ call'[i].pc = pc /\ call'[i].nonce = call[i].nonce
      /\ \A j \in Ids : j # i => call'[j] = call[j]
  BY CallGoes DEF Set, PcSet, NonceInv
<1>2. pc \notin Sending
  BY DEF Sent, Sending
<1>3. MuOK'
  BY <1>1, <1>2 DEF NonceInv, MuOK
<1>4. CallsKept
  BY <1>1 DEF CallsKept
<1> QED
  BY <1>1, <1>3, <1>4

\* TrackBlobTxWithSidecar keeps the transaction of the entry that it marks.
LEMMA SidecarKeeps ==
    ASSUME NonceInv, NEW i \in Ids, TrackBlobTxWithSidecar(i)
    PROVE  NonceInv'
<1>1. call[i].pc \in Sent /\ Set(i, "wait") /\ "wait" \in Sent /\ mu' = mu
  BY DEF TrackBlobTxWithSidecar, PcIs, Sent
<1>2. MuOK' /\ CallsKept /\ call' \in [Ids -> CallStates]
  BY <1>1, OverKeeps
<1>3. /\ pendingTxs' \in [Nonces -> Ptxs]
      /\ \A n \in Nonces : pendingTxs'[n].id = pendingTxs[n].id
                           /\ pendingTxs'[n].tx = pendingTxs[n].tx
  BY DEF TrackBlobTxWithSidecar, NonceInv, TxTypeOK, Ptxs
<1>4. TrackingKept
  BY <1>3 DEF TrackingKept, NonceInv, TrackedOK
<1>5. PoolKept /\ mempool' \in [Nonces -> Txs]
  BY QuietPool DEF TrackBlobTxWithSidecar, chainTxVars
<1>6. mined' = mined /\ sweep' \subseteq Nonces /\ period' \in Nat
  BY DEF TrackBlobTxWithSidecar, chainTxVars, NonceInv, TxTypeOK
<1> QED
  BY <1>2, <1>3, <1>4, <1>5, <1>6, StepKeeps

\* Nothing but the calls changes.
LEMMA WaitKeeps ==
    ASSUME NonceInv, UNCHANGED <<chainTxVars, pendingTxs, sweep>>, period' \in Nat,
           MuOK', CallsKept, call' \in [Ids -> CallStates]
    PROVE  NonceInv'
<1>1. PoolKept /\ mempool' \in [Nonces -> Txs]
  BY QuietPool DEF chainTxVars
<1>2. pendingTxs' \in [Nonces -> Ptxs] /\ TrackingKept
  BY QuietTracking DEF NonceInv, TxTypeOK
<1>3. mined' = mined /\ sweep' \subseteq Nonces
  BY DEF chainTxVars, NonceInv, TxTypeOK
<1> QED
  BY <1>1, <1>2, <1>3, StepKeeps

\* WaitTxByID and its timeout.
LEMMA WaitTxKeeps ==
    ASSUME NonceInv, NEW i \in Ids, WaitTxByID(i) \/ WaitTimeout(i)
    PROVE  NonceInv'
<1>1. PICK pc \in Sent : Set(i, pc)
  BY DEF WaitTxByID, WaitTimeout, Sent
<1>2. call[i].pc \in Sent /\ mu' = mu
  BY DEF WaitTxByID, WaitTimeout, PcIs, Sent, managerVars
<1>3. MuOK' /\ CallsKept /\ call' \in [Ids -> CallStates]
  BY <1>1, <1>2, OverKeeps
<1>4. UNCHANGED <<chainTxVars, pendingTxs, sweep>> /\ period' \in Nat
  BY DEF WaitTxByID, WaitTimeout, managerVars, NonceInv, TxTypeOK
<1> QED
  BY <1>3, <1>4, WaitKeeps

\* handleStuckTxs, with mu held, and the monitor around it.
LEMMA HandleStuckKeeps ==
    ASSUME NonceInv, NEW n \in Nonces, HandleStuckTxs(n)
    PROVE  NonceInv'
<1>1. Settled(n)
  BY StuckTxIs, SettledQuietly, AssignManager DEF HandleStuckTxs, NonceInv
<1>2. /\ TrackingKept /\ PoolKept
      /\ mempool' \in [Nonces -> Txs] /\ pendingTxs' \in [Nonces -> Ptxs]
  BY <1>1, SettledKeeps
<1>3. /\ call' \in [Ids -> CallStates] /\ MuOK' /\ CallsKept
      /\ mined' = mined /\ sweep' \subseteq Nonces /\ period' \in Nat
  BY DEF HandleStuckTxs, NonceInv, TxTypeOK, MuOK, CallsKept
<1> QED
  BY <1>2, <1>3, StepKeeps

LEMMA MonitorKeeps ==
    ASSUME NonceInv, MonitorTick \/ MonitorDone
    PROVE  NonceInv'
<1>1. /\ mu \in {"free", "monitor"} /\ call' = call /\ mined' = mined /\ period' = period
      /\ pendingTxs' = pendingTxs /\ UNCHANGED poolTxVars /\ sweep' \subseteq Nonces
  BY DEF MonitorTick, MonitorDone, chainTxVars, Tracked, NonceInv, TxTypeOK
<1>2. MuOK'
  BY <1>1, TxConstants DEF NonceInv, MuOK
<1>3. CallsKept /\ call' \in [Ids -> CallStates] /\ period' \in Nat
  BY <1>1 DEF CallsKept, NonceInv, TxTypeOK
<1>4. PoolKept /\ mempool' \in [Nonces -> Txs]
  BY <1>1, QuietPool
<1>5. pendingTxs' \in [Nonces -> Ptxs] /\ TrackingKept
  BY <1>1, QuietTracking DEF NonceInv, TxTypeOK
<1> QED
  BY <1>1, <1>2, <1>3, <1>4, <1>5, StepKeeps

\* A block: the transaction leaves the mempool and keeps its nonce.
LEMMA MineKeeps ==
    ASSUME NonceInv, Mine
    PROVE  NonceInv'
<1> DEFINE tx == mempool[Len(mined)]
<1>1. Len(mined) \in Nonces /\ tx \in Txs
  BY DEF Mine, NonceAt, NonceInv, TxTypeOK
<1>2. PICK ok \in BOOLEAN : mined' = Append(mined, [tx |-> tx, ok |-> ok])
  BY DEF Mine, NonceAt
<1>3. /\ mempool' = [mempool EXCEPT ![Len(mined)] = NoTx]
      /\ UNCHANGED <<lostAnswers, pendingTxs, sweep, call, mu, period>>
  BY DEF Mine, NonceAt, managerVars
<1> DEFINE block == [tx |-> tx, ok |-> ok]
           Blocks == [tx : Txs, ok : BOOLEAN]
<1>4. block \in Blocks /\ block.tx = tx
  BY <1>1
<1>5. mined \in Seq(Blocks)
  BY DEF NonceInv, TxTypeOK
<1> HIDE DEF block, Blocks
<1>6. /\ mined' \in Seq(Blocks) /\ DOMAIN mined' = 1 .. Len(mined) + 1
      /\ mined'[Len(mined) + 1] = block
      /\ DOMAIN mined = 1 .. Len(mined) /\ Len(mined) \in Nat
      /\ \A k \in DOMAIN mined : mined'[k] = mined[k]
  BY <1>2, <1>4, <1>5 DEF block
<1>7. TxTypeOK'
  BY <1>1, <1>3, <1>6, EmptyTypes DEF NonceInv, TxTypeOK, Blocks
<1>8. MuOK' /\ TrackedOK'
  BY <1>3 DEF NonceInv, MuOK, TrackedOK, SentAt
<1>9. OneNonce'
  <2> SUFFICES ASSUME lostAnswers = 0
               PROVE  /\ \A n \in Nonces : mempool'[n].id \in Ids => SentAt(mempool'[n].id, n)
                      /\ \A k \in DOMAIN mined' : mined'[k].tx.id \in Ids =>
                            SentAt(mined'[k].tx.id, k - 1)
    BY <1>3 DEF OneNonce, SentAt
  <2>1. ASSUME NEW n \in Nonces, mempool'[n].id \in Ids PROVE SentAt(mempool'[n].id, n)
    <3>1. mempool'[n] = mempool[n]
      BY <1>1, <1>3, <2>1, EmptyTypes, TxConstants DEF NonceInv, TxTypeOK
    <3> QED
      BY <2>1, <3>1 DEF NonceInv, OneNonce
  <2>2. ASSUME NEW k \in DOMAIN mined', mined'[k].tx.id \in Ids
        PROVE  SentAt(mined'[k].tx.id, k - 1)
    <3>1. CASE k \in DOMAIN mined
      BY <1>6, <2>2, <3>1 DEF NonceInv, OneNonce
    <3>2. CASE k = Len(mined) + 1
      <4>1. mined'[k].tx = tx /\ k - 1 = Len(mined)
        BY <1>4, <1>6, <3>2
      <4> QED
        BY <1>1, <2>2, <4>1 DEF NonceInv, OneNonce
    <3> QED
      BY <1>6, <3>1, <3>2
  <2> QED
    BY <2>1, <2>2
<1> QED
  BY <1>7, <1>8, <1>9 DEF NonceInv

\* The mempool drops a transaction, and a period passes.
LEMMA EvictKeeps ==
    ASSUME NonceInv, NEW n \in Nonces, Evict(n)
    PROVE  NonceInv'
<1>1. mempool' = [mempool EXCEPT ![n] = NoTx] /\ UNCHANGED lostAnswers
  BY DEF Evict
<1>2. PoolKept /\ mempool' \in [Nonces -> Txs]
  BY <1>1, EmptyTypes, TxConstants DEF PoolKept, NonceInv, TxTypeOK
<1>3. pendingTxs' \in [Nonces -> Ptxs] /\ TrackingKept
  BY QuietTracking DEF Evict, managerVars, NonceInv, TxTypeOK
<1>4. /\ call' \in [Ids -> CallStates] /\ MuOK' /\ CallsKept
      /\ mined' = mined /\ sweep' \subseteq Nonces /\ period' \in Nat
  BY DEF Evict, managerVars, NonceInv, TxTypeOK, MuOK, CallsKept
<1> QED
  BY <1>2, <1>3, <1>4, StepKeeps

LEMMA TickKeeps ==
    ASSUME NonceInv, Tick \/ UNCHANGED txVars
    PROVE  NonceInv'
<1>1. UNCHANGED <<chainTxVars, pendingTxs, sweep, mu, call>> /\ period' \in Nat
  BY DEF Tick, txVars, managerVars, NonceInv, TxTypeOK
<1>2. MuOK' /\ CallsKept /\ call' \in [Ids -> CallStates]
  BY <1>1 DEF NonceInv, MuOK, CallsKept, TxTypeOK
<1> QED
  BY <1>1, <1>2, WaitKeeps

\* A restart forgets the tracking and ends every call.
LEMMA RestartManagerKeeps ==
    ASSUME NonceInv, RestartManager
    PROVE  NonceInv'
<1>1. ASSUME NEW i \in Ids
      PROVE  /\ call'[i] \in CallStates /\ call'[i].nonce = call[i].nonce
             /\ call'[i].pc \in {"idle"} \cup Sent
             /\ call[i].pc \in Sent => call'[i].pc \in Sent
  <2>1. call[i] \in CallStates
    BY DEF NonceInv, TxTypeOK
  <2>2. call'[i] = IF PcIs(i, "idle") \/ PcIs(i, "ok") THEN call[i]
                   ELSE [call[i] EXCEPT !.pc = "failed"]
    BY DEF RestartManager
  <2> QED
    BY <2>1, <2>2 DEF PcIs, CallStates, Sent
<1>2. call' \in [Ids -> CallStates]
  BY <1>1 DEF RestartManager
<1>3. MuOK'
  BY <1>1 DEF MuOK, Sending, Sent
<1>4. CallsKept
  BY <1>1 DEF CallsKept
<1>5. PoolKept /\ mempool' \in [Nonces -> Txs]
  BY QuietPool DEF RestartManager, chainTxVars
<1>6. pendingTxs' \in [Nonces -> Ptxs] /\ TrackingKept
  BY EmptyTypes, QuietTracking DEF RestartManager
<1>7. mined' = mined /\ sweep' \subseteq Nonces /\ period' \in Nat
  BY DEF RestartManager, chainTxVars, NonceInv, TxTypeOK
<1> QED
  BY <1>2, <1>3, <1>4, <1>5, <1>6, <1>7, StepKeeps

\* Every step.
LEMMA NonceStep == NonceInv /\ [TxNext]_txVars => NonceInv'
<1> SUFFICES ASSUME NonceInv, [TxNext]_txVars PROVE NonceInv'
  OBVIOUS
<1>1. ASSUME NEW i \in Ids, CallerNext(i) PROVE NonceInv'
  BY <1>1, SendTxKeeps, PickNonceKeeps, SendKeeps, RecoverKeeps, RecoverySpeedUpKeeps,
     SidecarKeeps, WaitTxKeeps DEF CallerNext
<1>2. ASSUME NEW n \in Nonces, HandleStuckTxs(n) \/ Evict(n) PROVE NonceInv'
  BY <1>2, HandleStuckKeeps, EvictKeeps
<1> QED
  BY <1>1, <1>2, MonitorKeeps, MineKeeps, TickKeeps, RestartManagerKeeps DEF TxNext

\* While no answer is lost the chain runs a transaction at most once, however
\* often the manager replaces it, recovers from a nonce gap or restarts: every
\* copy has the nonce of the SendTx that made it.
THEOREM TransactionsMinedOnce == TxSpec => []CallMinedOnce
<1>1. NonceInv => CallMinedOnce
  <2> SUFFICES ASSUME NonceInv, lostAnswers = 0, NEW i \in Ids
               PROVE  Cardinality(Calls(i)) <= 1
    BY DEF CallMinedOnce
  <2> DEFINE k == call[i].nonce + 1
  <2>1. Calls(i) \subseteq {k}
    <3> SUFFICES ASSUME NEW j \in Calls(i) PROVE j = k
      OBVIOUS
    <3>1. j \in DOMAIN mined /\ mined[j].tx.id = i /\ j \in Int
      BY DEF Calls, NonceInv, TxTypeOK
    <3>2. call[i].nonce = j - 1
      BY <3>1 DEF NonceInv, OneNonce, SentAt
    <3> QED
      BY <3>1, <3>2
  <2> HIDE DEF k
  <2>2. IsFiniteSet({k}) /\ Cardinality({k}) = 1
    BY FS_Singleton
  <2>3. Cardinality(Calls(i)) <= Cardinality({k})
    BY <2>1, <2>2, FS_Subset
  <2> QED
    BY <2>2, <2>3
<1> QED
  BY <1>1, NonceInitially, NonceStep, PTL DEF TxSpec

----------------------------------------------------------------------------
(* Success of a wait                                                       *)

\* What a step does to one caller.
CallMoves(i) ==
    \/ call'[i] = call[i]
    \/ call'[i].pc = "failed"
    \/ call[i].pc \notin Sent /\ call'[i].pc \in Sending
    \/ /\ call[i].pc \in Sending /\ call'[i].pc \in {"sidecar", "wait"}
       /\ call'[i].until = period + WaitPeriods
    \/ call[i].pc = "sidecar" /\ call'[i].pc = "wait" /\ call'[i].until = call[i].until
    \/ WaitTxByID(i) /\ call'[i].pc = "ok"

\* A SendTx that is over hands on to the wait.
LEMMA ReturnMoves ==
    ASSUME NonceInv, NEW i \in Ids, call[i].pc \in Sending, Return(i, AfterSend(i))
    PROVE  \A j \in Ids : CallMoves(j)
<1> DEFINE u == period + WaitPeriods
           pc == AfterSend(i)
<1>1. u \in Nat /\ pc \in {"sidecar", "wait"} /\ pc \in PcSet
  BY TxConstants DEF NonceInv, TxTypeOK, AfterSend, PcSet, Sent
<1>2. call' = [call EXCEPT ![i].pc = pc, ![i].until = u]
  BY DEF Return
<1> HIDE DEF pc, u
<1>3. /\ call'[i].pc = pc /\ call'[i].until = u
      /\ \A j \in Ids : j # i => call'[j] = call[j]
  BY <1>2 DEF NonceInv, TxTypeOK, CallStates
<1> QED
  BY <1>1, <1>3 DEF CallMoves, u

\* Callers of a step of SendTx, of a wait and of the environment.
LEMMA SendingMoves ==
    ASSUME NonceInv, NEW i \in Ids,
           SendTx(i) \/ PickNonce(i) \/ Send(i) \/ RecoverTxFromNonceGap(i) \/ RecoverySpeedUp(i)
    PROVE  \A j \in Ids : CallMoves(j)
<1>1. TxTypeOK /\ period + WaitPeriods \in Nat
  BY TxConstants DEF NonceInv, TxTypeOK
<1>2. CASE SendTx(i)
  BY <1>1, <1>2, CallGoes DEF SendTx, Set, PcIs, PcSet, Sending, Sent, CallMoves
<1>3. CASE PickNonce(i)
  <2>1. PICK n \in Nonces : call' = [call EXCEPT ![i].pc = "send", ![i].nonce = n]
    BY <1>3 DEF PickNonce
  <2> QED
    BY <1>1, <1>3, <2>1, CallGetsNonce DEF PickNonce, PcIs, PcSet, Sending, Sent, CallMoves
<1>4. CASE Send(i)
  <2>1. call[i].pc = "send"
    BY <1>4 DEF Send, PcIs
  <2>2. CASE Set(i, "recover")
    BY <1>1, <2>1, <2>2, CallGoes DEF Set, PcSet, Sending, Sent, CallMoves
  <2>3. CASE Return(i, AfterSend(i))
    BY <2>1, <2>3, ReturnMoves DEF Sending
  <2>4. CASE Return(i, "failed")
    BY <1>1, <2>1, <2>4, CallGetsDeadline DEF Return, PcSet, Sending, Sent, CallMoves
  <2> QED
    BY <1>4, <2>2, <2>3, <2>4 DEF Send
<1>5. CASE RecoverTxFromNonceGap(i)
  <2>1. call[i].pc = "recover"
    BY <1>5 DEF RecoverTxFromNonceGap, PcIs
  <2>2. CASE call' = [call EXCEPT ![i].pc = "speedup"]
    BY <1>1, <2>1, <2>2, CallGoes DEF PcSet, Sending, Sent, CallMoves
  <2>3. CASE Set(i, "failed")
    BY <1>1, <2>1, <2>3, CallGoes DEF Set, PcSet, Sending, Sent, CallMoves
  <2>4. ASSUME NEW c \in Nonces,
               call' = [call EXCEPT ![i].pc = AfterSend(i), ![i].nonce = c,
                                    ![i].until = period + WaitPeriods]
        PROVE  \A j \in Ids : CallMoves(j)
    BY <1>1, <2>1, <2>4 DEF TxTypeOK, CallStates, AfterSend, Sending, Sent, CallMoves
  <2> QED
    BY <1>5, <2>2, <2>3, <2>4 DEF RecoverTxFromNonceGap
<1>6. CASE RecoverySpeedUp(i)
  BY <1>6, ReturnMoves DEF RecoverySpeedUp, PcIs, Sending
<1> QED
  BY <1>2, <1>3, <1>4, <1>5, <1>6

LEMMA WaitingMoves ==
    ASSUME NonceInv, NEW i \in Ids,
           TrackBlobTxWithSidecar(i) \/ WaitTxByID(i) \/ WaitTimeout(i)
    PROVE  \A j \in Ids : CallMoves(j)
<1>1. TxTypeOK
  BY DEF NonceInv
<1>2. CASE TrackBlobTxWithSidecar(i)
  BY <1>1, <1>2, CallGoes DEF TrackBlobTxWithSidecar, Set, PcIs, PcSet, Sent, CallMoves
<1>3. CASE WaitTxByID(i)
  <2>1. Set(i, "failed") \/ Set(i, "ok")
    BY <1>3 DEF WaitTxByID
  <2> QED
    BY <1>1, <1>3, <2>1, CallGoes DEF Set, PcSet, Sent, CallMoves
<1>4. CASE WaitTimeout(i)
  BY <1>1, <1>4, CallGoes DEF WaitTimeout, Set, PcSet, Sent, CallMoves
<1> QED
  BY <1>2, <1>3, <1>4

LEMMA CallersMove ==
    ASSUME NonceInv, [TxNext]_txVars
    PROVE  \A i \in Ids : CallMoves(i)
<1>1. CASE call' = call
  BY <1>1 DEF CallMoves
<1>2. CASE RestartManager
  BY <1>2 DEF RestartManager, CallMoves, NonceInv, TxTypeOK, CallStates
<1>3. ASSUME NEW i \in Ids, CallerNext(i) PROVE \A j \in Ids : CallMoves(j)
  BY <1>3, SendingMoves, WaitingMoves DEF CallerNext
<1> QED
  BY <1>1, <1>2, <1>3
     DEF TxNext, HandleStuckTxs, MonitorTick, MonitorDone, Mine, Evict, Tick, txVars

\* Who waits for a transaction of these callers is told of success only when
\* it was executed.
Executed(i) == \E k \in Calls(i) : mined[k].ok
TruthfulTo(S) == \A i \in S : PcIs(i, "ok") => Executed(i)

\* The chain only grows.
LEMMA ExecutedStays ==
    ASSUME NonceInv, [TxNext]_txVars, NEW i \in Ids, Executed(i)
    PROVE  Executed(i)'
<1>1. CASE mined' = mined
  BY <1>1 DEF Executed, Calls
<1>2. CASE Mine
  <2> DEFINE tx == mempool[Len(mined)]
             Blocks == [tx : Txs, ok : BOOLEAN]
  <2>1. PICK ok \in BOOLEAN : mined' = Append(mined, [tx |-> tx, ok |-> ok])
    BY <1>2 DEF Mine, NonceAt
  <2>2. mined \in Seq(Blocks) /\ [tx |-> tx, ok |-> ok] \in Blocks
    BY <1>2 DEF NonceInv, TxTypeOK, Mine, NonceAt
  <2> DEFINE block == [tx |-> tx, ok |-> ok]
  <2> HIDE DEF block, Blocks
  <2>3. \A k \in DOMAIN mined : k \in DOMAIN mined' /\ mined'[k] = mined[k]
    BY <2>1, <2>2 DEF block
  <2> QED
    BY <2>3 DEF Executed, Calls
<1> QED
  BY <1>1, <1>2 DEF TxNext, CallerNext, SendTx, PickNonce, Send, RecoverTxFromNonceGap,
     RecoverySpeedUp, TrackBlobTxWithSidecar, WaitTxByID, WaitTimeout, HandleStuckTxs,
     MonitorTick, MonitorDone, Evict, Tick, RestartManager, txVars, chainTxVars

\* A wait that succeeds found the receipt of what is tracked for it.
LEMMA TruthKept ==
    ASSUME NonceInv, [TxNext]_txVars, NEW S, S \subseteq Ids, TruthfulTo(S),
           \A i \in S, n \in Nonces : PcIs(i, "wait") /\ pendingTxs[n].id = i =>
                pendingTxs[n].tx.kind = "call"
    PROVE  TruthfulTo(S)'
<1> SUFFICES ASSUME NEW i \in S, call'[i].pc = "ok" PROVE Executed(i)'
  BY DEF TruthfulTo, PcIs
<1>1. i \in Ids /\ CallMoves(i)
  BY CallersMove
<1>2. CASE call[i].pc = "ok"
  BY <1>1, <1>2, ExecutedStays DEF TruthfulTo, PcIs
<1>3. CASE call[i].pc # "ok" /\ WaitTxByID(i)
  <2> DEFINE mine == {n \in Tracked : pendingTxs[n].id = i}
  <2>1. "ok" \in {Receipt(n, pendingTxs[n].tx) : n \in mine}
    <3>1. ~Set(i, "failed")
      BY <1>1 DEF Set, NonceInv, TxTypeOK, CallStates
    <3> QED
      BY <1>3, <3>1 DEF WaitTxByID
  <2>2. PICK n \in Nonces : pendingTxs[n].id = i /\ Receipt(n, pendingTxs[n].tx) = "ok"
    BY <2>1 DEF Tracked
  <2>3. /\ n < Len(mined) /\ mined[n + 1].tx = pendingTxs[n].tx /\ mined[n + 1].ok
    BY <2>2 DEF Receipt
  <2>4. n + 1 \in DOMAIN mined
    BY <2>3, TxConstants DEF NonceInv, TxTypeOK
  <2>5. pendingTxs[n].tx.id = i /\ pendingTxs[n].tx.kind = "call"
    BY <1>1, <1>3, <2>2 DEF NonceInv, TrackedOK, WaitTxByID
  <2>6. Executed(i)
    BY <2>3, <2>4, <2>5 DEF Executed, Calls
  <2> QED
    BY <1>1, <2>6, ExecutedStays
<1> QED
  BY <1>1, <1>2, <1>3 DEF CallMoves, Sending

\* The success of a blob transaction, a state transition, is always its own:
\* it cannot be cancelled, and nothing else is tracked under its ID.
THEOREM BlobSuccessIsExecuted == TxSpec => []TruthfulTo(BlobIds)
<1> DEFINE Inv == NonceInv /\ TruthfulTo(BlobIds)
<1>1. TxInit => Inv
  BY NonceInitially, TxConstants DEF TxInit, TruthfulTo, PcIs
<1>2. Inv /\ [TxNext]_txVars => Inv'
  <2> SUFFICES ASSUME Inv, [TxNext]_txVars PROVE Inv'
    OBVIOUS
  <2>1. \A i \in BlobIds, n \in Nonces : pendingTxs[n].id = i => pendingTxs[n].tx.kind = "call"
    BY TxConstants DEF NonceInv, TrackedOK
  <2>2. TruthfulTo(BlobIds)'
    BY <2>1, TxConstants, TruthKept
  <2> QED
    BY <2>2, NonceStep
<1> QED
  BY <1>1, <1>2, PTL DEF TxSpec

----------------------------------------------------------------------------
(* Success of a wait for a transaction that can be cancelled               *)

\* The retries outlast a wait, even if every other SendTx ends in a recovery
\* that replaces the waiting transaction ahead of time.
Budget == IsFiniteSet(Ids) /\ MaxRetries >= WaitPeriods + Cardinality(Ids) - 1

Unfinished == {i \in Ids : call[i].pc \notin Sent}
Waiting(i) == call[i].pc \in {"sidecar", "wait"}

\* While i waits its transaction is not cancelled: each replacement uses up a
\* period of the wait or a SendTx that was not over.
WaitInv ==
    \A i \in Ids : Waiting(i) =>
        /\ period <= call[i].until
        /\ \A n \in Nonces : pendingTxs[n].id = i =>
            /\ pendingTxs[n].tx.kind = "call" /\ pendingTxs[n].sent <= period
            /\ pendingTxs[n].retries + call[i].until + Cardinality(Unfinished)
                 <= pendingTxs[n].sent + MaxRetries

\* What a step does to one entry of the tracking.
SameEntry(p, q) == q.id = p.id /\ q.tx = p.tx /\ q.retries = p.retries /\ q.sent = p.sent
SendTxEnds == \E j \in Ids : call[j].pc \notin Sent /\ call'[j].pc \in Sent
PtxMoves(n) ==
    \/ pendingTxs'[n].id \notin Ids
    \/ SameEntry(pendingTxs[n], pendingTxs'[n])
    \/ \E i \in Ids : call[i].pc \notin Sent /\ pendingTxs'[n] = Fresh(i)
    \/ /\ Outcome(pendingTxs[n], pendingTxs'[n])
       /\ pendingTxs[n].sent < period \/ SendTxEnds

LEMMA QuietMoves ==
    ASSUME NonceInv, \A n \in Nonces : pendingTxs'[n] = pendingTxs[n] \/ pendingTxs'[n] = NoPtx
    PROVE  \A n \in Nonces : PtxMoves(n)
BY EmptyTypes, TxConstants DEF PtxMoves, SameEntry

LEMMA SettledMoves ==
    ASSUME NonceInv, NEW n \in Nonces, Settled(n), pendingTxs[n].sent < period \/ SendTxEnds
    PROVE  \A m \in Nonces : PtxMoves(m)
<1>1. PICK q \in Ptxs : /\ Outcome(pendingTxs[n], q)
                        /\ pendingTxs' = [pendingTxs EXCEPT ![n] = q]
  BY DEF Settled
<1>2. pendingTxs'[n] = q /\ \A m \in Nonces : m # n => pendingTxs'[m] = pendingTxs[m]
  BY <1>1 DEF NonceInv, TxTypeOK
<1> QED
  BY <1>1, <1>2 DEF PtxMoves, SameEntry

LEMMA SentMoves ==
    ASSUME NonceInv, NEW i \in Ids, NEW n \in Nonces, NEW ptx \in [Nonces -> Ptxs],
           call[i].pc \notin Sent,
           \A m \in Nonces : ptx[m] = pendingTxs[m] \/ ptx[m] = NoPtx,
           pendingTxs' = [ptx EXCEPT ![n] = Fresh(i)]
    PROVE  \A m \in Nonces : PtxMoves(m)
<1>1. pendingTxs'[n] = Fresh(i) /\ \A m \in Nonces : m # n => pendingTxs'[m] = ptx[m]
  OBVIOUS
<1> QED
  BY <1>1, EmptyTypes, TxConstants DEF PtxMoves, SameEntry

LEMMA SendPtxMoves ==
    ASSUME NonceInv, NEW i \in Ids, Send(i)
    PROVE  \A n \in Nonces : PtxMoves(n)
<1> DEFINE n == call[i].nonce
<1>1. n \in Nonces /\ call[i].pc \notin Sent /\ TxTypeOK /\ pendingTxs \in [Nonces -> Ptxs]
  BY DEF Send, PcIs, Sent, NonceInv, TxTypeOK, CallStates
<1>2. CASE Assign(Manager)
  BY <1>2, AssignManager, QuietMoves
<1>3. CASE Assign(TrackTx(Manager, i, n))
  <2>1. pendingTxs' = [pendingTxs EXCEPT ![n] = Fresh(i)]
    BY <1>1, <1>3, TrackTxIs DEF Manager
  <2> QED
    BY <1>1, <2>1, SentMoves
<1> QED
  BY <1>2, <1>3 DEF Send

LEMMA RecoverPtxMoves ==
    ASSUME NonceInv, NEW i \in Ids, RecoverTxFromNonceGap(i)
    PROVE  \A n \in Nonces : PtxMoves(n)
<1> DEFINE kept(c) == [n \in Nonces |-> IF n < c THEN NoPtx ELSE pendingTxs[n]]
           reset(c) == [ptx |-> kept(c), next |-> c, last |-> c]
<1>1. call[i].pc \notin Sent /\ TxTypeOK
  BY DEF RecoverTxFromNonceGap, PcIs, Sent, NonceInv
<1>2. PICK c \in Nonces : \/ pendingTxs' = kept(c) \/ Assign(reset(c))
                          \/ Assign(TrackTx(reset(c), i, c))
  BY DEF RecoverTxFromNonceGap
<1>3. /\ kept(c) \in [Nonces -> Ptxs]
      /\ \A n \in Nonces : kept(c)[n] = pendingTxs[n] \/ kept(c)[n] = NoPtx
  BY EmptyTypes DEF NonceInv, TxTypeOK
<1> HIDE DEF kept
<1>4. CASE pendingTxs' = kept(c) \/ Assign(reset(c))
  <2>1. pendingTxs' = kept(c)
    BY <1>4 DEF Assign
  <2> QED
    BY <1>3, <2>1, QuietMoves
<1>5. CASE Assign(TrackTx(reset(c), i, c))
  <2>1. pendingTxs' = [kept(c) EXCEPT ![c] = Fresh(i)]
    BY <1>1, <1>3, <1>5, TrackTxIs
  <2> QED
    BY <1>1, <1>3, <2>1, SentMoves
<1> QED
  BY <1>2, <1>4, <1>5

LEMMA RecoverySpeedUpMoves ==
    ASSUME NonceInv, NEW i \in Ids, RecoverySpeedUp(i)
    PROVE  \A n \in Nonces : PtxMoves(n)
<1>1. PICK n \in Nonces : SpeedUpTx(n)
  BY DEF RecoverySpeedUp, NonceInv, TxTypeOK
<1>2. Settled(n)
  BY <1>1, SpeedUpIs DEF NonceInv
<1>3. call[i].pc \notin Sent /\ call[i].pc \in Sending /\ Return(i, AfterSend(i))
  BY DEF RecoverySpeedUp, PcIs, Sent, Sending
<1>4. call'[i].pc \in Sent
  BY <1>3 DEF Return, AfterSend, NonceInv, TxTypeOK, CallStates, Sent
<1> QED
  BY <1>2, <1>3, <1>4, SettledMoves DEF SendTxEnds

LEMMA SidecarMoves ==
    ASSUME NonceInv, NEW i \in Ids, TrackBlobTxWithSidecar(i)
    PROVE  \A n \in Nonces : PtxMoves(n)
BY DEF TrackBlobTxWithSidecar, NonceInv, TxTypeOK, Ptxs, PtxMoves, SameEntry

LEMMA StuckMoves ==
    ASSUME NonceInv, NEW n \in Nonces, HandleStuckTxs(n)
    PROVE  \A m \in Nonces : PtxMoves(m)
<1>1. TxTypeOK /\ pendingTxs \in [Nonces -> Ptxs]
  BY DEF NonceInv, TxTypeOK
<1>2. CASE pendingTxs' = pendingTxs \/ pendingTxs' = [pendingTxs EXCEPT ![n] = NoPtx]
  BY <1>1, <1>2, QuietMoves
<1>3. CASE Settled(n) /\ pendingTxs[n].sent < period
  BY <1>3, SettledMoves
<1> QED
  BY <1>1, <1>2, <1>3, StuckTxIs, AssignManager DEF HandleStuckTxs

LEMMA TrackingMoves ==
    ASSUME NonceInv, [TxNext]_txVars
    PROVE  \A n \in Nonces : PtxMoves(n)
<1>1. CASE pendingTxs' = pendingTxs
  BY <1>1, QuietMoves
<1>2. CASE RestartManager
  BY <1>2, QuietMoves DEF RestartManager
<1>3. ASSUME NEW i \in Ids, CallerNext(i) PROVE \A n \in Nonces : PtxMoves(n)
  BY <1>1, <1>3, SendPtxMoves, RecoverPtxMoves, RecoverySpeedUpMoves, SidecarMoves
     DEF CallerNext, SendTx, PickNonce, WaitTxByID, WaitTimeout, managerVars
<1>4. ASSUME NEW n \in Nonces, HandleStuckTxs(n) PROVE \A m \in Nonces : PtxMoves(m)
  BY <1>4, StuckMoves
<1> QED
  BY <1>1, <1>2, <1>3, <1>4
     DEF TxNext, MonitorTick, MonitorDone, Mine, Evict, Tick, txVars, managerVars

\* A SendTx that is over stays so.
LEMMA UnfinishedShrinks ==
    ASSUME NonceInv, [TxNext]_txVars, IsFiniteSet(Ids)
    PROVE  /\ Unfinished' \subseteq Unfinished
           /\ Cardinality(Unfinished) \in Nat /\ Cardinality(Unfinished') \in Nat
           /\ Cardinality(Unfinished') <= Cardinality(Unfinished)
           /\ SendTxEnds => Cardinality(Unfinished') < Cardinality(Unfinished)
<1>1. \A i \in Ids : call[i].pc \in Sent => call'[i].pc \in Sent
  <2> SUFFICES ASSUME NEW i \in Ids, call[i].pc \in Sent PROVE call'[i].pc \in Sent
    OBVIOUS
  <2>1. CallMoves(i)
    BY CallersMove
  <2> QED
    BY <2>1 DEF CallMoves, Sent, Sending
<1>2. Unfinished' \subseteq Unfinished /\ Unfinished \subseteq Ids
  BY <1>1 DEF Unfinished
<1>3. IsFiniteSet(Unfinished) /\ IsFiniteSet(Unfinished')
  BY <1>2, FS_Subset
<1>4. /\ Cardinality(Unfinished) \in Nat /\ Cardinality(Unfinished') \in Nat
      /\ Cardinality(Unfinished') <= Cardinality(Unfinished)
  BY <1>2, <1>3, FS_Subset, FS_CardinalityType
<1>5. ASSUME SendTxEnds PROVE Cardinality(Unfinished') < Cardinality(Unfinished)
  <2>1. Unfinished' # Unfinished
    BY <1>5 DEF SendTxEnds, Unfinished
  <2> QED
    BY <1>2, <1>3, <1>4, <2>1, FS_Subset
<1> QED
  BY <1>2, <1>4, <1>5

\* A caller that starts to wait is over: at most the others are not.
LEMMA OthersUnfinished ==
    ASSUME Budget, NEW i \in Ids, call'[i].pc \in Sent
    PROVE  Cardinality(Unfinished') + WaitPeriods <= MaxRetries
<1>1. Unfinished' \subseteq Ids \ {i} /\ IsFiniteSet(Ids)
  BY DEF Unfinished, Budget
<1>2. /\ IsFiniteSet(Ids \ {i}) /\ Cardinality(Ids \ {i}) = Cardinality(Ids) - 1
      /\ Cardinality(Ids) \in Nat
  BY <1>1, FS_RemoveElement, FS_CardinalityType
<1>3. Cardinality(Unfinished') <= Cardinality(Ids \ {i}) /\ Cardinality(Unfinished') \in Nat
  BY <1>1, <1>2, FS_Subset, FS_CardinalityType
<1> QED
  BY <1>2, <1>3, TxConstants DEF Budget

\* The period of a wait is not over its deadline.
LEMMA PeriodMoves ==
    ASSUME NonceInv, WaitInv, [TxNext]_txVars
    PROVE  /\ period' \in Nat /\ period <= period'
           /\ period' # period => /\ call' = call /\ pendingTxs' = pendingTxs
                                  /\ \A i \in Ids : Waiting(i) => period' <= call[i].until
<1>1. CASE period' = period
  BY <1>1 DEF NonceInv, TxTypeOK
<1>2. CASE Tick
  <2>1. /\ period' = period + 1 /\ period \in Nat /\ call' = call /\ pendingTxs' = pendingTxs
    BY <1>2 DEF Tick, managerVars, NonceInv, TxTypeOK
  <2>2. ASSUME NEW i \in Ids, Waiting(i) PROVE period' <= call[i].until
    <3>1. call[i].until \in Nat
      BY DEF NonceInv, TxTypeOK, CallStates
    <3>2. period < call[i].until
      BY <1>2, <2>2 DEF Tick, Waiting, PcIs
    <3> QED
      BY <2>1, <3>1, <3>2
  <2> QED
    BY <2>1, <2>2
<1> QED
  BY <1>1, <1>2 DEF TxNext, CallerNext, SendTx, PickNonce, Send, RecoverTxFromNonceGap,
     RecoverySpeedUp, TrackBlobTxWithSidecar, WaitTxByID, WaitTimeout, HandleStuckTxs,
     MonitorTick, MonitorDone, Mine, Evict, RestartManager, txVars

LEMMA WaitStep ==
    ASSUME Budget, NonceInv, WaitInv, [TxNext]_txVars
    PROVE  WaitInv'
<1> DEFINE left == Cardinality(Unfinished)
           left1 == Cardinality(Unfinished')
<1>1. /\ left \in Nat /\ left1 \in Nat /\ left1 <= left
      /\ SendTxEnds => left1 < left
  BY UnfinishedShrinks DEF Budget
<1>2. /\ period' \in Nat /\ period \in Nat /\ period <= period'
      /\ period' # period => /\ call' = call /\ pendingTxs' = pendingTxs
                             /\ \A i \in Ids : Waiting(i) => period' <= call[i].until
  BY PeriodMoves DEF NonceInv, TxTypeOK
<1>3. WaitPeriods \in Nat /\ MaxRetries \in Nat
  BY TxConstants
<1>4. ASSUME NEW i \in Ids, call'[i].pc \in {"sidecar", "wait"}
      PROVE  /\ \/ Waiting(i) /\ call'[i].until = call[i].until
                \/ call[i].pc \notin Sent /\ call'[i].until = period + WaitPeriods
             /\ call[i].until \in Nat
  <2>1. CallMoves(i) /\ call[i] \in CallStates
    BY CallersMove DEF NonceInv, TxTypeOK
  <2> QED
    BY <1>4, <2>1 DEF CallMoves, Waiting, Sending, Sent, CallStates
<1>5. ASSUME NEW i \in Ids, call'[i].pc \in {"sidecar", "wait"}
      PROVE  period' <= call'[i].until
  <2>1. CASE Waiting(i) /\ call'[i].until = call[i].until
    BY <1>2, <1>4, <1>5, <2>1 DEF WaitInv
  <2>2. CASE call[i].pc \notin Sent /\ call'[i].until = period + WaitPeriods
    <3>1. period' = period
      BY <1>2, <1>5, <2>2 DEF Sent
    <3> QED
      BY <1>2, <1>3, <2>2, <3>1
  <2> QED
    BY <1>4, <1>5, <2>1, <2>2
<1>6. ASSUME NEW i \in Ids, call'[i].pc \in {"sidecar", "wait"},
             NEW n \in Nonces, pendingTxs'[n].id = i
      PROVE  /\ pendingTxs'[n].tx.kind = "call" /\ pendingTxs'[n].sent <= period'
             /\ pendingTxs'[n].retries + call'[i].until + left1
                  <= pendingTxs'[n].sent + MaxRetries
  <2> DEFINE p == pendingTxs[n]
             q == pendingTxs'[n]
             u == call[i].until
             Goal == /\ q.tx.kind = "call" /\ q.sent <= period'
                     /\ q.retries + call'[i].until + left1 <= q.sent + MaxRetries
  <2>1. p \in Ptxs /\ p.retries \in Nat /\ p.sent \in Nat /\ u \in Nat
    BY <1>4, <1>6 DEF NonceInv, TxTypeOK, Ptxs
  <2>2. PtxMoves(n)
    BY TrackingMoves
  <2>3. p.id = i => /\ call'[i].until = u /\ period <= u
                    /\ p.tx.kind = "call" /\ p.sent <= period
                    /\ p.retries + u + left <= p.sent + MaxRetries
    <3> SUFFICES ASSUME p.id = i PROVE <2>3!2
      OBVIOUS
    <3>1. call[i].pc \in Sent
      BY DEF NonceInv, TrackedOK, SentAt
    <3>2. Waiting(i) /\ call'[i].until = u
      BY <1>4, <1>6, <3>1
    <3> QED
      BY <3>2 DEF WaitInv
  <2>4. CASE SameEntry(p, q)
    <3>1. p.id = i /\ q.tx = p.tx /\ q.retries = p.retries /\ q.sent = p.sent
      BY <1>6, <2>4 DEF SameEntry
    <3> QED
      BY <1>1, <1>2, <1>3, <2>1, <2>3, <3>1
  <2>5. ASSUME NEW j \in Ids, call[j].pc \notin Sent, q = Fresh(j)
        PROVE  Goal
    <3>1. j = i /\ q.retries = 0 /\ q.sent = period /\ q.tx.kind = "call"
      BY <1>6, <2>5, FreshIs DEF NonceInv
    <3>2. call'[i].until = period + WaitPeriods
      BY <1>4, <1>6, <2>5, <3>1 DEF Waiting, Sent
    <3>3. left1 + WaitPeriods <= MaxRetries
      BY <1>6, OthersUnfinished DEF Sent
    <3> QED
      BY <1>1, <1>2, <1>3, <3>1, <3>2, <3>3
  <2>6. CASE Outcome(p, q) /\ (p.sent < period \/ SendTxEnds)
    <3>1. CASE q = p
      BY <2>4, <3>1 DEF SameEntry
    <3>2. CASE /\ q.id = p.id /\ q.sent = period
               /\ q.tx.kind = "call" /\ q.retries = p.retries + 1
      <4>1. p.id = i
        BY <1>6, <3>2
      <4> QED
        BY <1>1, <1>2, <1>3, <2>1, <2>3, <2>6, <3>2, <4>1
    <3>3. CASE q.id = p.id /\ p.retries >= MaxRetries
      <4>1. p.id = i
        BY <1>6, <3>3
      <4>2. FALSE
        BY <1>1, <1>2, <1>3, <2>1, <2>3, <2>6, <3>3, <4>1
      <4> QED
        BY <4>2
    <3>4. q # NoPtx
      BY <1>6, EmptyTypes, TxConstants
    <3> QED
      BY <2>6, <3>1, <3>2, <3>3, <3>4 DEF Outcome
  <2> QED
    BY <1>6, <2>2, <2>4, <2>5, <2>6 DEF PtxMoves
<1> QED
  BY <1>5, <1>6 DEF WaitInv, Waiting

\* With retries that outlast the wait, every success is the caller's own: no
\* cancellation is reported as the execution of the transaction it replaced.
THEOREM SuccessIsExecuted ==
    ASSUME Budget
    PROVE  TxSpec => []OkMeansExecuted
<1> DEFINE Inv == NonceInv /\ WaitInv /\ TruthfulTo(Ids)
<1>1. TxInit => Inv
  <2> SUFFICES ASSUME TxInit PROVE WaitInv /\ TruthfulTo(Ids)
    BY NonceInitially
  <2>1. \A i \in Ids : call[i].pc = "idle"
    BY DEF TxInit
  <2> QED
    BY <2>1 DEF WaitInv, Waiting, TruthfulTo, PcIs
<1>2. Inv /\ [TxNext]_txVars => Inv'
  <2> SUFFICES ASSUME Inv, [TxNext]_txVars PROVE Inv'
    OBVIOUS
  <2>1. \A i \in Ids, n \in Nonces : PcIs(i, "wait") /\ pendingTxs[n].id = i =>
            pendingTxs[n].tx.kind = "call"
    BY DEF WaitInv, Waiting, PcIs
  <2>2. TruthfulTo(Ids)'
    BY <2>1, TruthKept
  <2>3. WaitInv'
    BY WaitStep
  <2> QED
    BY <2>2, <2>3, NonceStep
<1>3. Inv => OkMeansExecuted
  BY DEF TruthfulTo, Executed, OkMeansExecuted
<1> QED
  BY <1>1, <1>2, <1>3, PTL DEF TxSpec

----------------------------------------------------------------------------
(* Gas estimates                                                           *)

GasPcs == {"idle", "asking", "low", "high", "loop", "node", "first", "search", "fallback"}
Estimates == [pc : GasPcs, need : Nat, floor : Nat, hint : Nat, low : Nat, high : Nat,
              lost : BOOLEAN, gas : Nat]

GasTypeOK == gasCache \in Nat /\ estimate \in [Estimators -> Estimates]

\* What a result promises (EstimateSuffices and SearchIsTight of one estimate).
ResultOK(x) ==
    /\ x.pc \in {"node", "first", "search"} /\ x.need <= MaxGas => x.gas >= x.need
    /\ x.pc = "fallback" => x.lost \/ x.need > MaxGas \/ (x.hint > 0 /\ x.need > 2 * x.hint)
    /\ x.pc = "search" /\ ~x.lost => x.high <= x.need + Precision

\* The upper limit is the one tried first until it is known to suffice, and
\* without a lost call the lower limit is never above the need.
SearchOK(x) ==
    /\ x.pc \in {"low", "high"} => x.high = SearchHigh(x.hint)
    /\ x.pc = "loop" => x.high >= x.need
    /\ x.pc = "loop" /\ ~x.lost => x.low <= x.need
    /\ x.pc = "high" /\ ~x.lost => x.low < x.need

GasInv == GasTypeOK /\ \A e \in Estimators : ResultOK(estimate[e]) /\ SearchOK(estimate[e])

\* The margin never takes away: the result suffices if what was found does and
\* the limit allows it.
LEMMA MarginSuffices ==
    ASSUME NEW gas \in Nat, NEW floor \in Nat
    PROVE  /\ ApplySafetyMargin(gas, floor) \in Nat
           /\ gas <= MaxGas => ApplySafetyMargin(gas, floor) >= gas
           /\ gas > MaxGas => ApplySafetyMargin(gas, floor) = MaxGas
<1>1. gas * SafetyBps \in Nat
  BY GasAssumption
<1>2. (gas * SafetyBps) \div 10000 \in Nat
  <2> DEFINE p == gas * SafetyBps
  <2>1. p \in Nat
    BY <1>1
  <2> HIDE DEF p
  <2>2. p \div 10000 \in Nat
    BY <2>1
  <2> QED
    BY <2>2 DEF p
<1> DEFINE extra == (gas * SafetyBps) \div 10000
<1>3. extra \in Nat
  BY <1>2
<1>4. ApplySafetyMargin(gas, floor) =
        LET more == gas + extra
            least == IF more < MinGas THEN MinGas ELSE more
            floored == IF least < floor THEN floor ELSE least
        IN  IF floored > MaxGas THEN MaxGas ELSE floored
  BY DEF ApplySafetyMargin
<1> HIDE DEF extra
<1> QED
  BY <1>3, <1>4, GasAssumption

\* The limits of a search are natural numbers and the upper one is at least
\* MaxGas or twice the hint.
LEMMA LimitsOK ==
    ASSUME NEW hint \in Nat
    PROVE  /\ SearchLow(hint) \in Nat /\ SearchHigh(hint) \in Nat
           /\ SearchHigh(hint) >= MaxGas \/ (hint > 0 /\ SearchHigh(hint) >= 2 * hint)
BY GasAssumption DEF SearchLow, SearchHigh

\* A step of one estimate that keeps its own promises keeps the invariant.
LEMMA GasFrame ==
    ASSUME GasInv, NEW e \in Estimators, NEW new \in Estimates, Goto(e, new),
           gasCache' \in Nat, ResultOK(new), SearchOK(new)
    PROVE  GasInv'
<1>1. estimate' \in [Estimators -> Estimates]
  BY DEF Goto, GasInv, GasTypeOK
<1>2. \A f \in Estimators : estimate'[f] = IF f = e THEN new ELSE estimate[f]
  BY DEF Goto, GasInv, GasTypeOK
<1>3. \A f \in Estimators : ResultOK(estimate'[f]) /\ SearchOK(estimate'[f])
  BY <1>2 DEF GasInv
<1> QED
  BY <1>1, <1>3 DEF GasInv, GasTypeOK

\* A result that is the margin on something that suffices is a good one.
LEMMA ReturnKeeps ==
    ASSUME GasInv, NEW e \in Estimators, NEW by \in {"node", "first", "search"},
           NEW found \in Nat, ReturnGas(e, by, found), gasCache' \in Nat,
           found >= estimate[e].need,
           by = "search" /\ ~estimate[e].lost => estimate[e].high <= estimate[e].need + Precision
    PROVE  GasInv'
<1> DEFINE x == estimate[e]
           gas == ApplySafetyMargin(found, x.floor)
           new == [x EXCEPT !.pc = by, !.gas = gas]
<1>1. x \in Estimates
  BY DEF GasInv, GasTypeOK
<1>2. gas \in Nat /\ (x.need <= MaxGas => gas >= x.need)
  <2>1. x.need \in Nat /\ x.floor \in Nat
    BY <1>1 DEF Estimates
  <2>2. /\ gas \in Nat /\ (found <= MaxGas => gas >= found)
        /\ (found > MaxGas => gas = MaxGas)
    BY <2>1, MarginSuffices
  <2> HIDE DEF gas
  <2> QED
    BY <2>1, <2>2, GasAssumption
<1> HIDE DEF gas
<1>3. new \in Estimates
  BY <1>1, <1>2 DEF Estimates, GasPcs
<1>4. /\ new.pc = by /\ new.gas = gas /\ new.need = x.need /\ new.high = x.high
      /\ new.lost = x.lost
  BY <1>1 DEF Estimates
<1>5. ResultOK(new) /\ SearchOK(new)
  BY <1>2, <1>4 DEF ResultOK, SearchOK
<1>6. Goto(e, new)
  BY DEF ReturnGas, gas
<1> QED
  BY <1>3, <1>5, <1>6, GasFrame

\* A step of one estimate keeps the invariant.
LEMMA GasStepKeeps ==
    ASSUME GasInv, NEW e \in Estimators,
           \/ \E need \in Needs, floor \in Floors : Begin(e, need, floor)
           \/ EstimateByNode(e) \/ StartSearch(e)
           \/ TryLow(e) \/ TryHigh(e) \/ TryMid(e) \/ FinishSearch(e)
    PROVE  GasInv'
<1> DEFINE x == estimate[e]
<1>1. /\ x \in Estimates /\ gasCache \in Nat
      /\ ResultOK(x) /\ SearchOK(x)
  BY DEF GasInv, GasTypeOK
<1>2. /\ x.need \in Nat /\ x.floor \in Nat /\ x.hint \in Nat /\ x.low \in Nat /\ x.high \in Nat
      /\ x.lost \in BOOLEAN /\ x.gas \in Nat
  BY <1>1 DEF Estimates
<1>3. CASE \E need \in Needs, floor \in Floors : Begin(e, need, floor)
  <2>1. PICK need \in Needs, floor \in Floors : Begin(e, need, floor)
    BY <1>3
  <2> DEFINE new == [NoEstimate EXCEPT !.pc = "asking", !.need = need, !.floor = floor]
  <2>2. need \in Nat /\ floor \in Nat
    BY GasAssumption
  <2>3. new \in Estimates /\ new.pc = "asking"
    BY <2>2 DEF NoEstimate, Estimates, GasPcs
  <2>4. ResultOK(new) /\ SearchOK(new)
    BY <2>3 DEF ResultOK, SearchOK
  <2>5. Goto(e, new) /\ gasCache' \in Nat
    BY <2>1, <1>1 DEF Begin
  <2> QED
    BY <2>3, <2>4, <2>5, GasFrame
<1>4. CASE EstimateByNode(e)
  <2>1. ReturnGas(e, "node", x.need) /\ gasCache' \in Nat
    BY <1>1, <1>4 DEF EstimateByNode
  <2> QED
    BY <1>2, <2>1, ReturnKeeps
<1>5. CASE StartSearch(e)
  <2> DEFINE new == [x EXCEPT !.pc = "low", !.hint = gasCache,
                              !.low = SearchLow(gasCache), !.high = SearchHigh(gasCache)]
             none == [x EXCEPT !.pc = "fallback", !.lost = TRUE, !.gas = Fallback]
  <2>1. Goto(e, new) \/ Goto(e, none)
    BY <1>5 DEF StartSearch
  <2>2. gasCache' \in Nat
    BY <1>1, <1>5 DEF StartSearch
  <2>3. CASE Goto(e, new)
    <3>1. new \in Estimates
      BY <1>1, LimitsOK DEF Estimates, GasPcs
    <3>2. new.pc = "low" /\ new.hint = gasCache /\ new.high = SearchHigh(gasCache)
      BY <1>1 DEF Estimates
    <3>3. ResultOK(new) /\ SearchOK(new)
      BY <3>2 DEF ResultOK, SearchOK
    <3> QED
      BY <2>2, <2>3, <3>1, <3>3, GasFrame
  <2>4. CASE Goto(e, none)
    <3>1. none \in Estimates /\ none.pc = "fallback" /\ none.lost
      BY <1>1, GasAssumption DEF Estimates, GasPcs
    <3>2. ResultOK(none) /\ SearchOK(none)
      BY <3>1 DEF ResultOK, SearchOK
    <3> QED
      BY <2>2, <2>4, <3>1, <3>2, GasFrame
  <2> QED
    BY <2>1, <2>3, <2>4
<1>6. CASE TryLow(e)
  <2> DEFINE next == [x EXCEPT !.pc = "high"]
             new == [next EXCEPT !.lost = x.lost \/ x.low >= x.need]
  <2>1. /\ gasCache' \in Nat /\ x.pc = "low"
        /\ \/ CallSucceeds(x, x.low) /\ ReturnGas(e, "first", x.low)
           \/ Goto(e, new)
    BY <1>1, <1>6 DEF TryLow, Failed
  <2>2. CASE CallSucceeds(x, x.low) /\ ReturnGas(e, "first", x.low)
    BY <1>2, <2>1, <2>2, ReturnKeeps DEF CallSucceeds
  <2>3. CASE Goto(e, new)
    <3>1. new \in Estimates
      BY <1>1 DEF Estimates, GasPcs
    <3>2. /\ new.pc = "high" /\ new.hint = x.hint /\ new.high = x.high /\ new.low = x.low
          /\ new.need = x.need /\ new.lost = (x.lost \/ x.low >= x.need)
      BY <1>1 DEF Estimates
    <3>3. ~new.lost => new.low < new.need
      <4>1. ~new.lost => ~(x.low >= x.need)
        BY <3>2, Zenon
      <4> QED
        BY <1>2, <3>2, <4>1
    <3>4. ResultOK(new) /\ SearchOK(new)
      BY <1>1, <2>1, <3>2, <3>3 DEF ResultOK, SearchOK
    <3> QED
      BY <2>1, <2>3, <3>1, <3>4, GasFrame
  <2> QED
    BY <2>1, <2>2, <2>3
<1>7. CASE TryHigh(e)
  <2> DEFINE new == [x EXCEPT !.pc = "loop"]
             next == [x EXCEPT !.pc = "fallback", !.gas = Fallback]
             none == [next EXCEPT !.lost = x.lost \/ x.high >= x.need]
  <2>1. /\ gasCache' \in Nat /\ x.pc = "high"
        /\ \/ CallSucceeds(x, x.high) /\ Goto(e, new)
           \/ Goto(e, none)
    BY <1>1, <1>7 DEF TryHigh, Failed
  <2>2. CASE CallSucceeds(x, x.high) /\ Goto(e, new)
    <3>1. new \in Estimates
      BY <1>1 DEF Estimates, GasPcs
    <3>2. /\ new.pc = "loop" /\ new.high = x.high /\ new.low = x.low
          /\ new.need = x.need /\ new.lost = x.lost
      BY <1>1 DEF Estimates
    <3>3. new.high >= new.need
      BY <2>2, <3>2 DEF CallSucceeds
    <3>4. ~new.lost => new.low <= new.need
      BY <1>1, <1>2, <2>1, <3>2 DEF SearchOK
    <3>5. ResultOK(new) /\ SearchOK(new)
      BY <3>2, <3>3, <3>4 DEF ResultOK, SearchOK
    <3> QED
      BY <2>1, <2>2, <3>1, <3>5, GasFrame
  <2>3. CASE Goto(e, none)
    <3>1. none \in Estimates
      BY <1>1, GasAssumption DEF Estimates, GasPcs
    <3>2. /\ none.pc = "fallback" /\ none.hint = x.hint
          /\ none.need = x.need /\ none.lost = (x.lost \/ x.high >= x.need)
      BY <1>1 DEF Estimates
    <3>3. x.high = SearchHigh(x.hint)
      BY <1>1, <2>1 DEF SearchOK
    <3>4. x.high < x.need => x.need > MaxGas \/ (x.hint > 0 /\ x.need > 2 * x.hint)
      BY <1>2, <3>3, LimitsOK, GasAssumption
    <3>5. ~none.lost => none.need > MaxGas \/ (none.hint > 0 /\ none.need > 2 * none.hint)
      <4>1. ~none.lost => ~(x.high >= x.need)
        BY <3>2, Zenon
      <4> QED
        BY <1>2, <3>2, <3>4, <4>1
    <3>6. ResultOK(none) /\ SearchOK(none)
      BY <3>2, <3>5 DEF ResultOK, SearchOK
    <3> QED
      BY <2>1, <2>3, <3>1, <3>6, GasFrame
  <2> QED
    BY <2>1, <2>2, <2>3
<1>8. CASE TryMid(e)
  <2> DEFINE mid == (x.low + x.high) \div 2
             new == [x EXCEPT !.high = mid]
             next == [x EXCEPT !.low = mid + 1]
             more == [next EXCEPT !.lost = x.lost \/ mid >= x.need]
  <2>1. /\ gasCache' \in Nat /\ x.pc = "loop"
        /\ \/ CallSucceeds(x, mid) /\ Goto(e, new)
           \/ Goto(e, more)
    BY <1>1, <1>8 DEF TryMid, Failed
  <2>2. mid \in Nat
    BY <1>2
  <2> HIDE DEF mid
  <2>3. CASE CallSucceeds(x, mid) /\ Goto(e, new)
    <3>1. new \in Estimates
      BY <1>1, <2>2 DEF Estimates, GasPcs
    <3>2. /\ new.pc = "loop" /\ new.high = mid /\ new.low = x.low
          /\ new.need = x.need /\ new.lost = x.lost
      BY <1>1, <2>1 DEF Estimates
    <3>3. new.high >= new.need
      BY <2>3, <3>2 DEF CallSucceeds
    <3>4. ResultOK(new) /\ SearchOK(new)
      BY <1>1, <2>1, <3>2, <3>3 DEF ResultOK, SearchOK
    <3> QED
      BY <2>1, <2>3, <3>1, <3>4, GasFrame
  <2>4. CASE Goto(e, more)
    <3>1. more \in Estimates
      <4>1. next \in Estimates
        BY <1>1, <2>2 DEF Estimates, GasPcs
      <4>2. (x.lost \/ mid >= x.need) \in BOOLEAN
        OBVIOUS
      <4> HIDE DEF next
      <4> QED
        BY <4>1, <4>2 DEF Estimates
    <3>2. /\ more.pc = "loop" /\ more.high = x.high /\ more.low = mid + 1
          /\ more.need = x.need /\ more.lost = (x.lost \/ mid >= x.need)
      BY <1>1, <2>1 DEF Estimates
    <3>3. ~more.lost => more.low <= more.need
      <4>1. ~more.lost => ~(mid >= x.need)
        BY <3>2, Zenon
      <4> QED
        BY <1>2, <2>2, <3>2, <4>1
    <3>4. ResultOK(more) /\ SearchOK(more)
      BY <1>1, <2>1, <3>2, <3>3 DEF ResultOK, SearchOK
    <3> QED
      BY <2>1, <2>4, <3>1, <3>4, GasFrame
  <2> QED
    BY <2>1, <2>3, <2>4
<1>9. CASE FinishSearch(e)
  <2>1. /\ x.pc = "loop" /\ ~Apart(x) /\ gasCache' = x.high /\ ReturnGas(e, "search", x.high)
    BY <1>9 DEF FinishSearch
  <2>2. x.high >= x.need
    BY <1>1, <2>1 DEF SearchOK
  <2>3. ~x.lost => x.low <= x.need
    BY <1>1, <2>1 DEF SearchOK
  <2>4. x.high <= x.low + Precision
    BY <1>2, <2>1, GasAssumption DEF Apart
  <2>5. ~x.lost => x.high <= x.need + Precision
    BY <1>2, <2>3, <2>4, GasAssumption
  <2> QED
    BY <1>2, <2>1, <2>2, <2>5, ReturnKeeps
<1> QED
  BY <1>3, <1>4, <1>5, <1>6, <1>7, <1>8, <1>9

\* GasInv is inductive.
LEMMA GasInvariant == GasSpec => []GasInv
<1>1. GasInit => GasInv
  <2> SUFFICES ASSUME GasInit PROVE GasInv
    OBVIOUS
  <2>1. NoEstimate \in Estimates /\ NoEstimate.pc = "idle"
    BY DEF NoEstimate, Estimates, GasPcs
  <2>2. ResultOK(NoEstimate) /\ SearchOK(NoEstimate)
    BY <2>1 DEF ResultOK, SearchOK
  <2> QED
    BY <2>1, <2>2 DEF GasInit, GasInv, GasTypeOK
<1>2. GasInv /\ [GasNext]_gasVars => GasInv'
  <2> SUFFICES ASSUME GasInv, [GasNext]_gasVars PROVE GasInv'
    OBVIOUS
  <2>1. CASE GasNext
    BY <2>1, GasStepKeeps DEF GasNext
  <2>2. CASE UNCHANGED gasVars
    BY <2>2 DEF gasVars, GasInv, GasTypeOK
  <2> QED
    BY <2>1, <2>2
<1> QED
  BY <1>1, <1>2, PTL DEF GasSpec

\* Whatever EstimateGas derives from the node or from its search is enough gas,
\* and it falls back only on a lost call or a need outside the limits: for any
\* options, hints, concurrent searches and lost calls.
THEOREM EstimatesSuffice == GasSpec => []EstimateSuffices
<1>1. GasInv => EstimateSuffices
  BY DEF GasInv, ResultOK, EstimateSuffices
<1> QED
  BY <1>1, GasInvariant, PTL

\* The binary search ends within Precision of what the call needs.
THEOREM SearchesAreTight == GasSpec => []SearchIsTight
<1>1. GasInv => SearchIsTight
  BY DEF GasInv, ResultOK, SearchIsTight
<1> QED
  BY <1>1, GasInvariant, PTL
=============================================================================
