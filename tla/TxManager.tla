----------------------------- MODULE TxManager -----------------------------
(***************************************************************************)
(* The transaction manager of one network (web3/txmanager) and its callers *)
(* in web3/process.go: submitting a state transition or the results means  *)
(* SendTx, TrackBlobTxWithSidecar for a blob transaction, then WaitTxByID. *)
(* TxManager.mu serialises SendTx and the monitor's handleStuckTxs; the    *)
(* waiters only read under it.  The chain and its mempool move on between  *)
(* any two RPC calls.                                                      *)
(*                                                                         *)
(* Time is counted in periods of MaxPendingTime: a transaction is stuck    *)
(* when it was last sent before the current period.                        *)
(***************************************************************************)
EXTENDS Integers, Sequences, FiniteSets

CONSTANTS
    Ids,              \* transaction IDs, one per SendTx
    BlobIds,          \* the IDs of blob transactions (state transitions)
    MaxNonce,         \* bound: nonces used
    MaxRetries,       \* Config.MaxRetries
    WaitPeriods,      \* timeout of WaitTxByID, in periods
    MaxPeriods,       \* bound: periods
    MaxEvictions,     \* bound: transactions the mempool drops
    MaxTxRestarts,    \* bound: restarts of the node
    MaxLostAnswers,   \* bound: RPC answers that get lost after their effect
    LaggingNodes      \* BOOLEAN: an RPC node may not know the latest pending txs

ASSUME TxIdAssumption == BlobIds \subseteq Ids /\ Ids \cap {"none", "free", "monitor"} = {}
ASSUME TxBoundAssumption ==
    {MaxNonce, MaxRetries, WaitPeriods, MaxPeriods, MaxEvictions, MaxLostAnswers, MaxTxRestarts}
        \subseteq Nat
ASSUME TxSwitchAssumption == LaggingNodes \in BOOLEAN
\* 10 retries of 5 minutes each take longer than the 30 minutes of a wait.
ASSUME TxWaitAssumption == MaxRetries > WaitPeriods

VARIABLES
    \* the chain
    mined,          \* the account's transactions, in nonce order: [tx, ok]
    mempool,        \* nonce -> transaction
    evictions,
    lostAnswers,    \* auxiliary: answers lost so far
    \* the manager
    pendingTxs,     \* nonce -> PendingTransaction
    nextNonce,
    lastConfirmedNonce,
    mu,             \* who holds TxManager.mu: "free", "monitor" or an ID
    sweep,          \* nonces that the running handleStuckTxs has not visited
    \* the callers
    call,           \* ID -> [pc, nonce, until]
    period,
    txRestarts

poolTxVars == <<mempool, lostAnswers>>
chainTxVars == <<mined, poolTxVars, evictions>>
managerVars == <<pendingTxs, nextNonce, lastConfirmedNonce, mu, sweep>>
txVars == <<chainTxVars, managerVars, call, period, txRestarts>>

Nonces == 0 .. MaxNonce
NoTx == [id |-> "none", kind |-> "none", gen |-> 0]
NoPtx == [id |-> "none", tx |-> NoTx, retries |-> 0, sidecar |-> FALSE, sent |-> 0]
TxSet == {NoTx} \cup [id : Ids, kind : {"call", "cancel"}, gen : 0 .. MaxRetries]

Tracked == {n \in Nonces : pendingTxs[n] # NoPtx}
PcIs(i, s) == call[i].pc = s

----------------------------------------------------------------------------
(* The chain as the RPC calls see it                                       *)

\* eth_getTransactionCount at the latest block and at the pending one.
NonceAt == Len(mined)
PoolNonce == CHOOSE n \in NonceAt .. (MaxNonce + 1) :
                /\ \A m \in NonceAt .. (n - 1) : mempool[m] # NoTx
                /\ n = MaxNonce + 1 \/ mempool[n] = NoTx

\* PendingNonceAt of some endpoint.
PendingNonceAt == IF LaggingNodes THEN NonceAt .. PoolNonce ELSE {PoolNonce}

\* lastOnChainNonce: the larger of the two.
LastOnChainNonce == PendingNonceAt \cup {NonceAt}

\* The receipt of a transaction: "notfound", "ok" or "reverted".
Receipt(n, tx) ==
    IF n < Len(mined) /\ mined[n + 1].tx = tx
    THEN IF mined[n + 1].ok THEN "ok" ELSE "reverted"
    ELSE "notfound"

\* Outcomes of SendTransaction through the endpoint pool.  "nonce": nonce too
\* low or already known; an answer that got lost after the transaction was
\* taken makes the retry on the next endpoint report "already known".
SendOutcomes(n, tx) ==
    {"failed"}
    \cup (IF n < NonceAt \/ mempool[n] = tx THEN {"nonce"} ELSE {"sent"})
    \cup (IF lostAnswers < MaxLostAnswers /\ n >= NonceAt THEN {"nonce+", "failed+"} ELSE {})

IsLost(outcome) == outcome \in {"nonce+", "failed+"}
Delivered(outcome) == outcome = "sent" \/ IsLost(outcome)
IsNonceError(outcome) == outcome \in {"nonce", "nonce+"}

\* The mempool after a delivery: a transaction of the same nonce is replaced.
Deliver(n, tx, outcome) ==
    /\ mempool' = IF Delivered(outcome) THEN [mempool EXCEPT ![n] = tx] ELSE mempool
    /\ lostAnswers' = IF IsLost(outcome) THEN lostAnswers + 1 ELSE lostAnswers

----------------------------------------------------------------------------
(* Tracking                                                                *)

\* A manager state: the part of TxManager that the helpers below update.
Manager == [ptx |-> pendingTxs, next |-> nextNonce, last |-> lastConfirmedNonce]

Assign(m) ==
    /\ pendingTxs' = m.ptx
    /\ nextNonce' = m.next
    /\ lastConfirmedNonce' = m.last

Max2(a, b) == IF a >= b THEN a ELSE b

\* updateNonceTracking
UpdateNonceTracking(m, n) ==
    LET last == IF n >= m.last THEN n + 1 ELSE m.last
    IN  [ptx |-> [m.ptx EXCEPT ![n] = NoPtx], next |-> Max2(m.next, last), last |-> last]

\* trackTx, and nextNonce++ that follows it.
TrackTx(m, i, n) ==
    [m EXCEPT !.ptx[n] = [NoPtx EXCEPT !.id = i, !.sent = period,
                                       !.tx = [id |-> i, kind |-> "call", gen |-> 0]],
              !.next = @ + 1]

----------------------------------------------------------------------------
(* Stuck transactions                                                      *)

\* cancelTx: blob transactions cannot be cancelled; the 0-value transaction
\* takes the place of the original one.
CancelTx(n) ==
    LET p == pendingTxs[n]
        cancel == [id |-> p.id, kind |-> "cancel", gen |-> 0]
    IN  \/ p.id \in BlobIds /\ UNCHANGED poolTxVars /\ Assign(Manager)
        \/ /\ p.id \notin BlobIds
           /\ \E outcome \in SendOutcomes(n, cancel) :
                /\ Deliver(n, cancel, outcome)
                /\ Assign(IF IsNonceError(outcome) THEN UpdateNonceTracking(Manager, n)
                          ELSE IF outcome = "sent"
                          THEN [Manager EXCEPT !.ptx[n].tx = cancel, !.ptx[n].sent = period]
                          ELSE Manager)

\* Sending the replacement of nonce n with higher fees.
SendReplacement(n) ==
    LET p == pendingTxs[n]
        tx == [id |-> p.id, kind |-> "call", gen |-> p.retries + 1]
    IN  \E outcome \in SendOutcomes(n, tx) :
            /\ Deliver(n, tx, outcome)
            /\ Assign(IF IsNonceError(outcome) THEN UpdateNonceTracking(Manager, n)
                      ELSE IF outcome = "sent"
                      THEN [Manager EXCEPT !.ptx[n].tx = tx, !.ptx[n].retries = @ + 1,
                                           !.ptx[n].sent = period]
                      ELSE Manager)

\* Mutant of SpeedUpTx: a stuck transaction is cancelled at once.
SpeedUpTxCancels(n) == CancelTx(n)

\* Mutant of SpeedUpTx: the replacement takes a fresh nonce.
SpeedUpTxFreshNonce(n) ==
    LET p == pendingTxs[n]
        tx == [id |-> p.id, kind |-> "call", gen |-> (p.retries + 1) % (MaxRetries + 1)]
    IN  /\ PoolNonce \in Nonces
        /\ mempool' = [mempool EXCEPT ![PoolNonce] = tx] /\ UNCHANGED lostAnswers
        /\ Assign(Manager)

\* speedUpTx: cancel after MaxRetries; give up the tracking once the nonce is
\* used; replace otherwise.  A blob transaction needs its sidecar for that.
SpeedUpTx(n) ==
    LET p == pendingTxs[n]
    IN  \/ p.retries >= MaxRetries /\ CancelTx(n)
        \/ /\ p.retries < MaxRetries
           /\ \E onChain \in LastOnChainNonce :
                \/ /\ onChain > n
                   /\ UNCHANGED poolTxVars
                   /\ Assign(UpdateNonceTracking(Manager, n))
                \/ /\ onChain <= n
                   /\ p.id \in BlobIds /\ ~p.sidecar
                   /\ UNCHANGED poolTxVars /\ Assign(Manager)
                \/ /\ onChain <= n
                   /\ p.id \in BlobIds => p.sidecar
                   /\ SendReplacement(n)

\* One iteration of the loop of handleStuckTxs.  A reverted transaction is an
\* error of the receipt query, which is not a permanent one ("reverted with
\* status" does not match "execution reverted").
StuckTx(n) ==
    LET p == pendingTxs[n]
        receipt == Receipt(n, p.tx)
    IN  \/ p.sent = period /\ UNCHANGED poolTxVars /\ Assign(Manager)
        \/ /\ p.sent < period /\ receipt = "ok"
           /\ UNCHANGED poolTxVars
           /\ Assign(UpdateNonceTracking(Manager, n))
        \/ p.sent < period /\ receipt # "ok" /\ SpeedUpTx(n)

\* handleStuckTxs, run by the monitor or by SendTx with mu held.
HandleStuckTxs(n) ==
    /\ mu = "monitor" \/ (mu \in Ids /\ PcIs(mu, "stuck"))
    /\ n \in sweep
    /\ sweep' = sweep \ {n}
    /\ IF n \in Tracked THEN StuckTx(n) ELSE UNCHANGED poolTxVars /\ Assign(Manager)
    /\ UNCHANGED <<mined, evictions, mu, call, period, txRestarts>>

\* The monitor's ticker fires and it takes mu ...
MonitorTick ==
    /\ mu = "free"
    /\ Tracked # {}
    /\ mu' = "monitor"
    /\ sweep' = Tracked
    /\ UNCHANGED <<chainTxVars, pendingTxs, nextNonce, lastConfirmedNonce, call, period,
                   txRestarts>>

\* ... and releases it.
MonitorDone ==
    /\ mu = "monitor"
    /\ sweep = {}
    /\ mu' = "free"
    /\ UNCHANGED <<chainTxVars, pendingTxs, nextNonce, lastConfirmedNonce, sweep, call,
                   period, txRestarts>>

----------------------------------------------------------------------------
(* SendTx and its callers                                                  *)

Set(i, pc) == call' = [call EXCEPT ![i].pc = pc]

\* SetProcessTransition or SetProcessResults calls SendTx, which takes mu and
\* looks at the stuck transactions first.
SendTx(i) ==
    /\ PcIs(i, "idle") /\ mu = "free"
    /\ mu' = i
    /\ sweep' = Tracked
    /\ Set(i, "stuck")
    /\ UNCHANGED <<chainTxVars, pendingTxs, nextNonce, lastConfirmedNonce, period, txRestarts>>

\* The nonce: PendingNonceAt, or nextNonce when that call fails.
PickNonce(i) ==
    /\ PcIs(i, "stuck") /\ mu = i /\ sweep = {}
    /\ \E n \in (PendingNonceAt \cup {nextNonce}) \cap Nonces :
        call' = [call EXCEPT ![i].pc = "send", ![i].nonce = n]
    /\ UNCHANGED <<chainTxVars, managerVars, period, txRestarts>>

\* mu is released and the caller goes on: to the sidecar, to the wait or out.
Return(i, pc) ==
    /\ mu' = "free"
    /\ call' = [call EXCEPT ![i].pc = pc, ![i].until = period + WaitPeriods]

\* Where a caller goes after a successful SendTx.
AfterSend(i) == IF i \in BlobIds THEN "sidecar" ELSE "wait"

\* The transaction is sent, or it cannot be built or sent; a nonce error goes
\* on to recoverTxFromNonceGap with mu held.
Send(i) ==
    LET n == call[i].nonce
        tx == [id |-> i, kind |-> "call", gen |-> 0]
    IN  /\ PcIs(i, "send")
        /\ \E outcome \in SendOutcomes(n, tx) :
            /\ Deliver(n, tx, outcome)
            /\ \/ /\ IsNonceError(outcome)
                  /\ Set(i, "recover") /\ UNCHANGED mu /\ Assign(Manager)
               \/ /\ outcome = "sent"
                  /\ Return(i, AfterSend(i)) /\ Assign(TrackTx(Manager, i, n))
               \/ /\ outcome \in {"failed", "failed+"}
                  /\ Return(i, "failed") /\ Assign(Manager)
        /\ UNCHANGED <<mined, evictions, sweep, period, txRestarts>>

\* recoverTxFromNonceGap: transactions below the on-chain nonce are dropped
\* from the tracking.  The lowest tracked one left is sped up, and the caller
\* gets its hash under an ID that nothing tracks; if there is none the nonce
\* counters are reset and the transaction is sent again.
RecoverTxFromNonceGap(i) ==
    /\ PcIs(i, "recover")
    /\ \E onChain \in LastOnChainNonce :
        LET kept == [n \in Nonces |-> IF n < onChain THEN NoPtx ELSE pendingTxs[n]]
            stuck == {n \in Nonces : /\ kept[n] # NoPtx
                                     /\ n = onChain \/ n \in onChain .. (nextNonce - 1)}
            reset == [ptx |-> kept, next |-> onChain, last |-> onChain]
            tx == [id |-> i, kind |-> "call", gen |-> 0]
        IN  /\ onChain \in Nonces
            /\ \/ /\ stuck # {}
                  /\ pendingTxs' = kept
                  /\ sweep' = {CHOOSE n \in stuck : \A m \in stuck : n <= m}
                  /\ call' = [call EXCEPT ![i].pc = "speedup"]
                  /\ UNCHANGED <<poolTxVars, nextNonce, lastConfirmedNonce, mu>>
               \/ /\ stuck = {}
                  /\ \E outcome \in SendOutcomes(onChain, tx) :
                      /\ Deliver(onChain, tx, outcome)
                      /\ IF outcome = "sent"
                         THEN /\ Assign(TrackTx(reset, i, onChain))
                              /\ call' = [call EXCEPT ![i].pc = AfterSend(i),
                                                      ![i].nonce = onChain,
                                                      ![i].until = period + WaitPeriods]
                         ELSE Assign(reset) /\ Set(i, "failed")
                  /\ mu' = "free"
                  /\ UNCHANGED sweep
    /\ UNCHANGED <<mined, evictions, period, txRestarts>>

\* The speed-up of the lowest stuck transaction ends the recovery, whatever
\* its outcome.
RecoverySpeedUp(i) ==
    /\ PcIs(i, "speedup")
    /\ \E n \in sweep : SpeedUpTx(n)
    /\ sweep' = {}
    /\ Return(i, AfterSend(i))
    /\ UNCHANGED <<mined, evictions, period, txRestarts>>

\* TrackBlobTxWithSidecar: by the nonce of the transaction built last; an
\* untracked nonce is only logged.
TrackBlobTxWithSidecar(i) ==
    /\ PcIs(i, "sidecar") /\ mu = "free"
    /\ pendingTxs' = IF pendingTxs[call[i].nonce].id \in BlobIds
                     THEN [pendingTxs EXCEPT ![call[i].nonce].sidecar = TRUE]
                     ELSE pendingTxs
    /\ Set(i, "wait")
    /\ UNCHANGED <<chainTxVars, nextNonce, lastConfirmedNonce, mu, sweep, period, txRestarts>>

\* One poll of WaitTxByID: an ID that is not tracked any more is an error, and
\* so is a reverted transaction.
WaitTxByID(i) ==
    LET mine == {n \in Tracked : pendingTxs[n].id = i}
        seen == {Receipt(n, pendingTxs[n].tx) : n \in mine}
    IN  /\ PcIs(i, "wait") /\ mu = "free"
        /\ \/ mine = {} /\ Set(i, "failed")
           \/ "ok" \in seen /\ Set(i, "ok")
           \/ "reverted" \in seen /\ Set(i, "failed")
        /\ UNCHANGED <<chainTxVars, managerVars, period, txRestarts>>

\* The timeout of the wait.
WaitTimeout(i) ==
    /\ PcIs(i, "wait")
    /\ period >= call[i].until
    /\ Set(i, "failed")
    /\ UNCHANGED <<chainTxVars, managerVars, period, txRestarts>>

----------------------------------------------------------------------------
(* The environment                                                         *)

\* A block takes the next transaction of the account.  The contract accepts a
\* call at most once: its root has moved on.
Mine ==
    /\ NonceAt \in Nonces
    /\ LET tx == mempool[NonceAt]
           executed == \E k \in DOMAIN mined : mined[k].ok /\ mined[k].tx.id = tx.id
                                                /\ mined[k].tx.kind = "call"
       IN  /\ tx # NoTx
           /\ \E ok \in BOOLEAN :
                /\ tx.kind = "cancel" => ok
                /\ tx.kind = "call" /\ executed => ~ok
                /\ mined' = Append(mined, [tx |-> tx, ok |-> ok])
           /\ mempool' = [mempool EXCEPT ![NonceAt] = NoTx]
    /\ UNCHANGED <<evictions, lostAnswers, managerVars, call, period, txRestarts>>

\* The mempool drops a transaction.
Evict(n) ==
    /\ evictions < MaxEvictions
    /\ mempool[n] # NoTx
    /\ evictions' = evictions + 1
    /\ mempool' = [mempool EXCEPT ![n] = NoTx]
    /\ UNCHANGED <<mined, lostAnswers, managerVars, call, period, txRestarts>>

\* MaxPendingTime passes.  Waits that are over have been given up by then.
Tick ==
    /\ period < MaxPeriods
    /\ \A i \in Ids : PcIs(i, "wait") => period < call[i].until
    /\ mu = "free" /\ \A i \in Ids : ~PcIs(i, "sidecar")
    /\ period' = period + 1
    /\ UNCHANGED <<chainTxVars, managerVars, call, txRestarts>>

\* The node restarts: New reads the confirmed nonce, nothing is tracked and
\* whoever waited is gone.
RestartManager ==
    /\ txRestarts < MaxTxRestarts
    /\ txRestarts' = txRestarts + 1
    /\ pendingTxs' = [n \in Nonces |-> NoPtx]
    /\ nextNonce' = NonceAt /\ lastConfirmedNonce' = NonceAt
    /\ mu' = "free" /\ sweep' = {}
    /\ call' = [i \in Ids |-> IF PcIs(i, "idle") \/ PcIs(i, "ok") THEN call[i]
                              ELSE [call[i] EXCEPT !.pc = "failed"]]
    /\ UNCHANGED <<chainTxVars, period>>

----------------------------------------------------------------------------
TxInit ==
    /\ mined = <<>> /\ mempool = [n \in Nonces |-> NoTx] /\ evictions = 0 /\ lostAnswers = 0
    /\ pendingTxs = [n \in Nonces |-> NoPtx]
    /\ nextNonce = 0 /\ lastConfirmedNonce = 0
    /\ mu = "free" /\ sweep = {}
    /\ call = [i \in Ids |-> [pc |-> "idle", nonce |-> 0, until |-> 0]]
    /\ period = 0 /\ txRestarts = 0

CallerNext(i) ==
    \/ SendTx(i) \/ PickNonce(i) \/ Send(i) \/ RecoverTxFromNonceGap(i)
    \/ RecoverySpeedUp(i) \/ TrackBlobTxWithSidecar(i) \/ WaitTxByID(i) \/ WaitTimeout(i)

TxNext ==
    \/ \E i \in Ids : CallerNext(i)
    \/ (\E n \in Nonces : HandleStuckTxs(n)) \/ MonitorTick \/ MonitorDone
    \/ Mine \/ (\E n \in Nonces : Evict(n)) \/ Tick \/ RestartManager

TxSpec == TxInit /\ [][TxNext]_txVars

----------------------------------------------------------------------------
(* Properties                                                              *)

Calls(i) == {k \in DOMAIN mined : mined[k].tx.id = i /\ mined[k].tx.kind = "call"}

\* A wait that reports success means that the caller's own transaction was
\* executed: never a cancellation, never another transaction that took over
\* its nonce (WaitTxByID, cancelTx, recoverTxFromNonceGap).
OkMeansExecuted ==
    \A i \in Ids : PcIs(i, "ok") => \E k \in Calls(i) : mined[k].ok

\* Replacements, evictions, lagging nodes and nonce recovery never make the
\* chain run one transaction twice, as long as no answer is lost.
CallMinedOnce == lostAnswers = 0 => \A i \in Ids : Cardinality(Calls(i)) <= 1
=============================================================================
