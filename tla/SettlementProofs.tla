------------------------- MODULE SettlementProofs -------------------------
(***************************************************************************)
(* Proofs about Settlement, for any number of votes, roots, transactions,  *)
(* restarts and repeated events, and whatever the switches allow to fail.  *)
(***************************************************************************)
EXTENDS Settlement, TLAPS

\* The empty values are values of their types.
LEMMA EmptyTypes == NoBatch \in Batch /\ NoTransition \in Transition /\ 0 \in Roots
BY BoundAssumption DEF NoBatch, Batch, NoTransition, Transition, Roots

Status == {"verified", "aggregated", "processed", "done", "error", "timeout"}

\* WithStatus yields a status for every vote (setVoteIDStatus).
LEMMA WithStatusType ==
  ASSUME NEW old \in [Votes -> Status], NEW S, NEW new \in Status
  PROVE  WithStatus(old, S, new) \in [Votes -> Status]
BY DEF WithStatus, Status

\* The storage calls keep the queues and the statuses in their domains.
QueueTypes ==
    /\ ag \subseteq Batch /\ agRes \subseteq Batch /\ pag \in Batch
    /\ st \subseteq Transition /\ stRes \subseteq Transition /\ ptx \in BOOLEAN
    /\ status \in [Votes -> Status]

\* What MarkStateTransitionBatchFailed leaves of queues and statuses is typed.
LEMMA FailedTypes ==
  ASSUME QueueTypes, NEW s \in Transition, MarkStateTransitionBatchFailed(s)
  PROVE  QueueTypes'
<1> DEFINE votes == s.batch.votes
           inState == votes \cap content[storedRoot]
           again == [votes |-> votes \ inState, attempts |-> pag.attempts + 1]
<1>1. CASE s \notin st
  BY <1>1 DEF MarkStateTransitionBatchFailed, QueueTypes, queueVars
<1>2. CASE s \in st
  <2>1. /\ st' = st \ {s} /\ stRes' = stRes \ {s} /\ agRes' = agRes
        /\ ptx' = FALSE /\ pag' = NoBatch
    BY <1>2 DEF MarkStateTransitionBatchFailed
  <2>2. \/ status' = WithStatus(status, votes, "error") /\ ag' = ag
        \/ /\ again.attempts < MaxAttempts
           /\ ag' = IF again.votes = {} THEN ag ELSE ag \cup {again}
           /\ status' = WithStatus(WithStatus(status, inState, "error"), again.votes, "aggregated")
        \/ ag' = ag /\ status' = status
    BY <1>2 DEF MarkStateTransitionBatchFailed
  <2>3. status' \in [Votes -> Status]
    BY <2>2, WithStatusType DEF QueueTypes, Status
  <2>4. again.attempts < MaxAttempts => again \in Batch
    BY BoundAssumption DEF QueueTypes, Batch, Transition
  <2>5. ag' \subseteq Batch
    BY <2>2, <2>4 DEF QueueTypes
  <2> QED
    BY <2>1, <2>3, <2>5, EmptyTypes DEF QueueTypes
<1> QED
  BY <1>1, <1>2

\* What MarkStateTransitionBatchOutdated leaves is typed.
LEMMA OutdatedTypes ==
  ASSUME QueueTypes, NEW s \in Transition, MarkStateTransitionBatchOutdated(s)
  PROVE  QueueTypes'
<1>1. status' \in [Votes -> Status]
  BY WithStatusType DEF MarkStateTransitionBatchOutdated, QueueTypes, Status
<1>2. ag' \subseteq Batch /\ pag' \in Batch
  BY EmptyTypes DEF MarkStateTransitionBatchOutdated, QueueTypes
<1>3. st' \subseteq st /\ stRes' \subseteq stRes /\ agRes' \subseteq agRes /\ ptx' \in BOOLEAN
  BY DEF MarkStateTransitionBatchOutdated, QueueTypes
<1> QED
  BY <1>1, <1>2, <1>3 DEF QueueTypes

\* What MarkStateTransitionBatchDone leaves is typed.
LEMMA DoneTypes ==
  ASSUME QueueTypes, NEW s \in Transition, MarkStateTransitionBatchDone(s)
  PROVE  QueueTypes'
BY EmptyTypes DEF MarkStateTransitionBatchDone, QueueTypes, Status

\* The other variables.
Tx == [trans : Transition, state : {"pool", "mined", "reverted"},
       waiter : {"waiting", "promoted", "prune", "gone"}]
TxTypes == txs \in Seq(Tx)
StpTypes == stp \in [pc : {"idle", "taken", "proving", "failed", "committed", "marked", "pending",
                           "pushed"}, batch : Batch, before : Roots, after : Roots]
OcpTypes == ocp \in [pc : {"idle", "taken", "send", "outdated", "failed"}, trans : Transition]
ChainTypes ==
    /\ lastRoot \in Roots /\ localRoot \in Roots /\ storedRoot \in Roots
    /\ content \in [Roots -> SUBSET Votes]
    /\ chain \in Seq(Roots) /\ Len(chain) >= 1
SyncTypes ==
    /\ cursor \in 1 .. Len(chain)
    /\ syncQueue \in Seq(Nat)
    /\ \A k \in 1 .. Len(syncQueue) : syncQueue[k] \in 2 .. Len(chain)

TypeInv == QueueTypes /\ TxTypes /\ StpTypes /\ OcpTypes /\ ChainTypes /\ SyncTypes

\* The fields of a recorded transaction.
LEMMA TxFields ==
  ASSUME TxTypes, NEW i \in DOMAIN txs
  PROVE  /\ txs[i] \in Tx /\ txs[i].trans \in Transition
         /\ txs[i].trans.before \in Roots /\ txs[i].trans.after \in Roots
<1>1. txs[i] \in Tx
  BY DEF TxTypes
<1>2. txs[i].trans \in Transition
  BY <1>1 DEF Tx
<1> QED
  BY <1>1, <1>2 DEF Transition

\* What an update of one transaction changes.
LEMMA TxStateUpdate ==
  ASSUME TxTypes, NEW i \in DOMAIN txs, NEW x \in {"pool", "mined", "reverted"},
         txs' = [txs EXCEPT ![i].state = x]
  PROVE  /\ TxTypes' /\ DOMAIN txs' = DOMAIN txs
         /\ txs'[i] = [txs[i] EXCEPT !.state = x]
         /\ \A j \in DOMAIN txs \ {i} : txs'[j] = txs[j]
<1>1. txs[i] \in Tx
  BY DEF TxTypes
<1>2. [txs[i] EXCEPT !.state = x] \in Tx
  BY <1>1 DEF Tx
<1> QED
  BY <1>2 DEF TxTypes

\* A callback that moves on keeps the transactions typed.
LEMMA TxWaiterUpdate ==
  ASSUME TxTypes, NEW i \in DOMAIN txs, NEW x \in {"waiting", "promoted", "prune", "gone"},
         txs' = [txs EXCEPT ![i].waiter = x]
  PROVE  /\ TxTypes' /\ DOMAIN txs' = DOMAIN txs
         /\ txs'[i] = [txs[i] EXCEPT !.waiter = x]
         /\ \A j \in DOMAIN txs \ {i} : txs'[j] = txs[j]
<1>1. txs[i] \in Tx
  BY DEF TxTypes
<1>2. [txs[i] EXCEPT !.waiter = x] \in Tx
  BY <1>1 DEF Tx
<1> QED
  BY <1>2 DEF TxTypes

\* What a new root of the contract changes.
LEMMA ChainGrows ==
  ASSUME chain \in Seq(Roots), Len(chain) >= 1, SyncTypes, NEW r \in Roots,
         chain' = Append(chain, r), cursor' = cursor, syncQueue' = syncQueue
  PROVE  /\ chain' \in Seq(Roots) /\ Len(chain') = Len(chain) + 1
         /\ chain'[Len(chain')] = r /\ \A k \in 1 .. Len(chain) : chain'[k] = chain[k]
         /\ SyncTypes'
<1>1. /\ chain' \in Seq(Roots) /\ Len(chain') = Len(chain) + 1
      /\ chain'[Len(chain')] = r /\ \A k \in 1 .. Len(chain) : chain'[k] = chain[k]
  OBVIOUS
<1>2. Len(chain) \in Nat
  OBVIOUS
<1>3. SyncTypes'
  BY <1>1, <1>2 DEF SyncTypes
<1> QED
  BY <1>1, <1>3

\* A registered process starts with typed, empty queues.
LEMMA TypeInit == Init => TypeInv
<1> SUFFICES ASSUME Init PROVE TypeInv
  OBVIOUS
<1>1. QueueTypes
  BY EmptyTypes DEF Init, QueueTypes, Status
<1>2. TxTypes
  BY DEF Init, TxTypes
<1>5. StpTypes /\ OcpTypes
  BY EmptyTypes DEF Init, StpTypes, OcpTypes, StpIdle, OcpIdle
<1>3. ChainTypes
  BY BoundAssumption, EmptyTypes DEF Init, ChainTypes, Roots
<1>4. SyncTypes
  BY DEF Init, SyncTypes
<1> QED
  BY <1>1, <1>2, <1>3, <1>4, <1>5 DEF TypeInv

\* Every action keeps the types.
LEMMA TypeStep ==
  ASSUME TypeInv, [Next]_vars
  PROVE  TypeInv'
<1> USE DEF TypeInv
<1>1. ASSUME NEW S \in SUBSET Votes, Aggregate(S) PROVE TypeInv'
  <2>1. status' \in [Votes -> Status]
    BY <1>1, WithStatusType DEF Aggregate, QueueTypes, Status
  <2>2. QueueTypes'
    <3>1. [votes |-> S, attempts |-> 0] \in Batch
      BY BoundAssumption DEF Batch
    <3> QED
      BY <1>1, <2>1, <3>1 DEF Aggregate, QueueTypes
  <2> QED
    BY <1>1, <2>2 DEF Aggregate, TxTypes, StpTypes, OcpTypes, ChainTypes, SyncTypes, treeVars,
                      chainVars, syncVars
<1>2. ASSUME NEW S \in SUBSET Votes, ForeignTransition(S) PROVE TypeInv'
  <2>1. ChainTypes'
    <3>1. lastRoot + 1 \in Roots /\ ChainRoot \in Roots
      BY <1>2, BoundAssumption DEF ForeignTransition, ChainTypes, ChainRoot, Roots
    <3>2. content' \in [Roots -> SUBSET Votes]
      BY <1>2, <3>1 DEF ForeignTransition, ChainTypes
    <3>3. chain' \in Seq(Roots) /\ Len(chain') >= 1
      BY <1>2, <3>1 DEF ForeignTransition, ChainTypes
    <3> QED
      BY <1>2, <3>1, <3>2, <3>3 DEF ForeignTransition, ChainTypes, syncVars
  <2>2. SyncTypes'
    <3>1. lastRoot + 1 \in Roots
      BY <1>2, BoundAssumption DEF ForeignTransition, ChainTypes, Roots
    <3> QED
      BY <1>2, <3>1, ChainGrows DEF ForeignTransition, ChainTypes, syncVars
  <2> QED
    BY <1>2, <2>1, <2>2 DEF ForeignTransition, QueueTypes, TxTypes, StpTypes, OcpTypes, queueVars,
                            syncVars
<1>3. ASSUME NEW b \in ag, StpTake(b) PROVE TypeInv'
  BY <1>3, EmptyTypes
  DEF StpTake, StpIdle, QueueTypes, TxTypes, StpTypes, OcpTypes, ChainTypes, SyncTypes, treeVars,
              chainVars, syncVars
<1>4. CASE StpLoad
  <2>2. StpTypes'
    BY <1>4 DEF StpLoad, StpTypes, ChainTypes
  <2> QED
    BY <1>4, <2>2 DEF StpLoad, QueueTypes, TxTypes, OcpTypes, ChainTypes, SyncTypes, treeVars,
                      chainVars, syncVars, queueVars
<1>5. CASE StpCommit
  <2>1. ChainTypes'
    <3>1. content' \in [Roots -> SUBSET Votes]
      <4>1. stp.before \in Roots /\ stp.batch.votes \subseteq Votes
        BY DEF StpTypes, Batch
      <4> QED
        BY <1>5, <4>1 DEF StpCommit, ChainTypes
    <3>2. lastRoot + 1 \in Roots
      BY <1>5, BoundAssumption DEF StpCommit, ChainTypes, Roots
    <3> QED
      BY <1>5, <3>1, <3>2 DEF StpCommit, ChainTypes, chainVars, syncVars
  <2>2. StpTypes'
    <3>1. lastRoot + 1 \in Roots
      BY <1>5, BoundAssumption DEF StpCommit, ChainTypes, Roots
    <3> QED
      BY <1>5, <3>1 DEF StpCommit, StpTypes
  <2> QED
    BY <1>5, <2>1, <2>2 DEF StpCommit, QueueTypes, TxTypes, OcpTypes, SyncTypes, chainVars,
                            syncVars, queueVars
<1>6. CASE StpProofFails
  BY <1>6 DEF StpProofFails, QueueTypes, TxTypes, StpTypes, OcpTypes, ChainTypes, SyncTypes,
              treeVars, chainVars, syncVars, queueVars
<1>7. CASE StpMarkFailed
  <2>1. status' \in [Votes -> Status]
    BY <1>7, WithStatusType DEF StpMarkFailed, MarkAggregatorBatchFailed, QueueTypes, Status
  <2> QED
    BY <1>7, <2>1, EmptyTypes
    DEF StpMarkFailed, StpIdle, MarkAggregatorBatchFailed, QueueTypes, TxTypes, StpTypes,
                      OcpTypes, ChainTypes, SyncTypes, treeVars, chainVars, syncVars
<1>8. CASE StpSetPendingTx
  BY <1>8 DEF StpSetPendingTx, QueueTypes, TxTypes, StpTypes, OcpTypes, ChainTypes, SyncTypes,
              treeVars, chainVars, syncVars
<1>9. CASE StpMarkPending
  <2>1. CASE pag = NoBatch
    BY <1>9, <2>1 DEF StpMarkPending, QueueTypes, TxTypes, StpTypes, OcpTypes, ChainTypes,
                      SyncTypes, treeVars, chainVars, syncVars
  <2>2. CASE pag # NoBatch
    BY <1>9, <2>2, EmptyTypes
    DEF StpMarkPending, StpIdle, QueueTypes, TxTypes, StpTypes, OcpTypes, ChainTypes,
                      SyncTypes, treeVars, chainVars, syncVars
  <2> QED
    BY <2>1, <2>2
<1>10. CASE StpPush
  <2>1. status' \in [Votes -> Status]
    BY <1>10, WithStatusType DEF StpPush, QueueTypes, Status
  <2>2. QueueTypes'
    BY <1>10, <2>1 DEF StpPush, QueueTypes, StpTypes, Transition
  <2> QED
    BY <1>10, <2>2 DEF StpPush, TxTypes, StpTypes, OcpTypes, ChainTypes, SyncTypes, treeVars,
                       chainVars, syncVars
<1>11. CASE StpDone
  BY <1>11, EmptyTypes
  DEF StpDone, StpIdle, QueueTypes, TxTypes, StpTypes, OcpTypes, ChainTypes, SyncTypes, treeVars,
               chainVars, syncVars
<1>12. ASSUME NEW s \in st, OcpTake(s) PROVE TypeInv'
  BY <1>12 DEF OcpTake, QueueTypes, TxTypes, StpTypes, OcpTypes, ChainTypes, SyncTypes, treeVars,
               chainVars, syncVars
<1>13. CASE OcpCheckRoot
  <2>1. OcpTypes'
    <3>1. \/ ocp' = [ocp EXCEPT !.pc = "send"]
          \/ ocp' = [ocp EXCEPT !.pc = "outdated"]
          \/ ocp' = OcpIdle
      BY <1>13 DEF OcpCheckRoot
    <3>2. ocp' = [ocp EXCEPT !.pc = "send"] => OcpTypes'
      BY DEF OcpTypes
    <3>3. ocp' = [ocp EXCEPT !.pc = "outdated"] => OcpTypes'
      BY DEF OcpTypes
    <3>4. ocp' = OcpIdle => OcpTypes'
      BY EmptyTypes DEF OcpTypes, OcpIdle
    <3> QED
      BY <3>1, <3>2, <3>3, <3>4
  <2> QED
    BY <1>13, <2>1 DEF OcpCheckRoot, QueueTypes, TxTypes, StpTypes, ChainTypes, SyncTypes,
                       treeVars, chainVars, syncVars, queueVars
<1>14. CASE OcpOutdated
  <2>1. QueueTypes'
    BY <1>14, OutdatedTypes DEF OcpOutdated, OcpTypes
  <2> QED
    BY <1>14, <2>1, EmptyTypes
    DEF OcpOutdated, OcpIdle, TxTypes, StpTypes, OcpTypes, ChainTypes, SyncTypes, treeVars,
                       chainVars, syncVars
<1>15. CASE OcpSend
  <2>1. txs' = Append(txs, [trans |-> ocp.trans, state |-> "pool", waiter |-> "waiting"])
          => TxTypes'
    <3>1. [trans |-> ocp.trans, state |-> "pool", waiter |-> "waiting"] \in Tx
      BY DEF OcpTypes, Tx
    <3> QED
      BY <3>1 DEF TxTypes
  <2>2. TxTypes'
    BY <1>15, <2>1 DEF OcpSend, TxTypes
  <2>3. OcpTypes'
    <3>1. ocp' = OcpIdle \/ ocp' = [ocp EXCEPT !.pc = "failed"]
      BY <1>15 DEF OcpSend
    <3>2. ocp' = OcpIdle => OcpTypes'
      BY EmptyTypes DEF OcpTypes, OcpIdle
    <3>3. ocp' = [ocp EXCEPT !.pc = "failed"] => OcpTypes'
      BY DEF OcpTypes
    <3> QED
      BY <3>1, <3>2, <3>3
  <2> QED
    BY <1>15, <2>2, <2>3
    DEF OcpSend, QueueTypes, StpTypes, ChainTypes, SyncTypes, treeVars, syncVars,
                       queueVars
<1>16. CASE OcpMarkFailed
  <2>1. QueueTypes'
    BY <1>16, FailedTypes DEF OcpMarkFailed, OcpTypes
  <2> QED
    BY <1>16, <2>1, EmptyTypes
    DEF OcpMarkFailed, OcpIdle, TxTypes, StpTypes, OcpTypes, ChainTypes, SyncTypes, treeVars,
                       chainVars, syncVars
<1>17. ASSUME NEW i \in DOMAIN txs, ExecuteTx(i) PROVE TypeInv'
  <2>1. TxTypes'
    BY <1>17, TxStateUpdate DEF ExecuteTx
  <2>2. txs[i].trans.after \in Roots
    BY TxFields
  <2>3. chain' = Append(chain, txs[i].trans.after) => ChainTypes' /\ SyncTypes'
    BY <1>17, <2>2, ChainGrows DEF ExecuteTx, ChainTypes, treeVars, syncVars
  <2>4. chain' = chain => ChainTypes' /\ SyncTypes'
    BY <1>17 DEF ExecuteTx, ChainTypes, SyncTypes, treeVars, syncVars
  <2> QED
    BY <1>17, <2>1, <2>3, <2>4 DEF ExecuteTx, QueueTypes, StpTypes, OcpTypes, queueVars
<1>18. ASSUME NEW i \in DOMAIN txs, CallbackError(i) PROVE TypeInv'
  <2>1. txs[i].trans \in Transition
    BY TxFields
  <2>2. QueueTypes'
    BY <1>18, <2>1, FailedTypes DEF CallbackError
  <2>3. TxTypes'
    BY <1>18, TxWaiterUpdate DEF CallbackError
  <2> QED
    BY <1>18, <2>2, <2>3 DEF CallbackError, StpTypes, OcpTypes, ChainTypes, SyncTypes, treeVars,
                             syncVars
<1>19. ASSUME NEW i \in DOMAIN txs, CallbackPromote(i) PROVE TypeInv'
  <2>1. txs[i].trans.after \in Roots
    BY TxFields
  <2>2. TxTypes'
    BY <1>19, TxWaiterUpdate DEF CallbackPromote
  <2> QED
    BY <1>19, <2>1, <2>2
    DEF CallbackPromote, QueueTypes, StpTypes, OcpTypes, ChainTypes, SyncTypes,
                             syncVars, queueVars
<1>20. ASSUME NEW i \in DOMAIN txs, CallbackDone(i) PROVE TypeInv'
  <2>1. txs[i].trans \in Transition
    BY TxFields
  <2>2. QueueTypes'
    BY <1>20, <2>1, DoneTypes DEF CallbackDone
  <2>3. TxTypes'
    BY <1>20, TxWaiterUpdate DEF CallbackDone
  <2> QED
    BY <1>20, <2>2, <2>3 DEF CallbackDone, StpTypes, OcpTypes, ChainTypes, SyncTypes, treeVars,
                             syncVars
<1>21. ASSUME NEW i \in DOMAIN txs, CallbackPrune(i) PROVE TypeInv'
  <2>1. TxTypes'
    BY <1>21, TxWaiterUpdate DEF CallbackPrune
  <2> QED
    BY <1>21, <2>1 DEF CallbackPrune, QueueTypes, StpTypes, OcpTypes, ChainTypes, SyncTypes,
                       treeVars, syncVars
<1>22. CASE RootEvent
  <2>1. cursor + 1 \in 2 .. Len(chain) /\ Len(chain) \in Nat
    BY <1>22 DEF RootEvent, SyncTypes, ChainTypes
  <2>2. ChainTypes'
    BY <1>22, <2>1 DEF RootEvent, ChainTypes, chainVars, treeVars
  <2>3. /\ syncQueue' \in Seq(Nat) /\ Len(syncQueue') = Len(syncQueue) + 1
        /\ \A k \in 1 .. Len(syncQueue) : syncQueue'[k] = syncQueue[k]
        /\ syncQueue'[Len(syncQueue) + 1] = cursor + 1
    BY <1>22, <2>1 DEF RootEvent, SyncTypes
  <2>4. Len(syncQueue) \in Nat
    BY DEF SyncTypes
  <2>5. SyncTypes'
    BY <1>22, <2>1, <2>3, <2>4 DEF RootEvent, SyncTypes, chainVars
  <2> QED
    BY <1>22, <2>2, <2>5
    DEF RootEvent, QueueTypes, TxTypes, StpTypes, OcpTypes, chainVars, queueVars
<1>23. CASE RepeatEvents
  <2>1. SyncTypes'
    BY <1>23 DEF RepeatEvents, SyncTypes, ChainTypes, chainVars
  <2> QED
    BY <1>23, <2>1
    DEF RepeatEvents, QueueTypes, TxTypes, StpTypes, OcpTypes, ChainTypes, treeVars, chainVars,
                       queueVars
<1>24. CASE SyncApply
  <2>1. Head(syncQueue) \in 2 .. Len(chain)
    BY <1>24 DEF SyncApply, SyncTypes
  <2>2. chain[Head(syncQueue)] \in Roots
    BY <2>1 DEF ChainTypes
  <2>3. ChainTypes'
    BY <1>24, <2>2 DEF SyncApply, ChainTypes, chainVars
  <2>4. SyncTypes'
    BY <1>24 DEF SyncApply, SyncTypes, chainVars
  <2> QED
    BY <1>24, <2>3, <2>4
    DEF SyncApply, QueueTypes, TxTypes, StpTypes, OcpTypes, chainVars, queueVars
<1>25. CASE PhaseChange \/ CheckAndRegister
  BY <1>25 DEF PhaseChange, CheckAndRegister, QueueTypes, TxTypes, StpTypes, OcpTypes, ChainTypes,
               SyncTypes, treeVars, chainVars, syncVars, queueVars
<1>26. CASE CleanupEndedProcess
  <2>1. status' \in [Votes -> Status]
    BY <1>26, WithStatusType DEF CleanupEndedProcess, QueueTypes, Status
  <2> QED
    BY <1>26, <2>1 DEF CleanupEndedProcess, QueueTypes, TxTypes, StpTypes, OcpTypes, ChainTypes,
                       SyncTypes, treeVars, chainVars, syncVars
<1>27. CASE ReleaseStaleReservations
  BY <1>27 DEF ReleaseStaleReservations, QueueTypes, TxTypes, StpTypes, OcpTypes, ChainTypes,
               SyncTypes, treeVars, chainVars, syncVars
<1>28. CASE Restart
  <2>1. \A i \in DOMAIN txs : [txs[i] EXCEPT !.waiter = "gone"] \in Tx
    <3> TAKE i \in DOMAIN txs
    <3>1. txs[i] \in Tx
      BY TxFields
    <3> QED
      BY <3>1 DEF Tx
  <2>2. TxTypes'
    BY <1>28, <2>1 DEF Restart, TxTypes
  <2>3. StpTypes' /\ OcpTypes'
    BY <1>28, EmptyTypes DEF Restart, StpTypes, OcpTypes, StpIdle, OcpIdle
  <2>4. ChainTypes' /\ SyncTypes'
    BY <1>28 DEF Restart, ChainTypes, SyncTypes, ChainRoot, treeVars
  <2> QED
    BY <1>28, <2>2, <2>3, <2>4 DEF Restart, QueueTypes
<1>29. CASE UNCHANGED vars
  BY <1>29 DEF vars, QueueTypes, TxTypes, StpTypes, OcpTypes, ChainTypes, SyncTypes, treeVars,
               chainVars, syncVars, queueVars
<1> QED
  BY <1>1, <1>2, <1>3, <1>4, <1>5, <1>6, <1>7, <1>8, <1>9, <1>10, <1>11, <1>12, <1>13, <1>14,
     <1>15, <1>16, <1>17, <1>18, <1>19, <1>20, <1>21, <1>22, <1>23, <1>24, <1>25, <1>26, <1>27,
     <1>28, <1>29 DEF Next, StpNext, OcpNext, CallbackNext

----------------------------------------------------------------------------
(* The inductive invariant                                                 *)

\* The transition t, proved when the roots up to last had been created, inserts
\* its votes into the tree that it starts from and none of them was there.
Inserts(t, tree, last) ==
    /\ t.before \in 0 .. last /\ t.after \in 0 .. last
    /\ t.batch.votes \cap tree[t.before] = {}
    /\ tree[t.after] = tree[t.before] \cup t.batch.votes

StpProved == stp.pc \in {"committed", "marked", "pending", "pushed"}

\* Whoever names a root names one that was created.
RootsCreated ==
    /\ localRoot \in 0 .. lastRoot
    /\ \A k \in 1 .. Len(chain) : chain[k] \in 0 .. lastRoot
    /\ stp.before \in 0 .. lastRoot

\* Every transition that a queue, an actor or a transaction holds was proved.
TransitionsInsert ==
    /\ \A s \in st : Inserts(s, content, lastRoot)
    /\ Inserts(ocp.trans, content, lastRoot)
    /\ \A i \in DOMAIN txs : Inserts(txs[i].trans, content, lastRoot)
    /\ StpProved => Inserts(stp, content, lastRoot)

\* A callback promotes mined transactions only, and the tree that a mined
\* transaction led to is part of the contract's current one.
MinedIsOnChain ==
    \A i \in DOMAIN txs :
        /\ txs[i].waiter = "promoted" => txs[i].state = "mined"
        /\ txs[i].state = "mined" => content[txs[i].trans.after] \subseteq content[ChainRoot]

IInv ==
    /\ TypeInv /\ RootsCreated /\ TransitionsInsert
    /\ MinedIsOnChain /\ DoneIsOnChain /\ CountedOnce

\* The initial state, with the genesis root alone on chain, satisfies IInv.
LEMMA InvInit == Init => IInv
<1> SUFFICES ASSUME Init PROVE IInv
  OBVIOUS
<1>1. RootsCreated
  BY DEF Init, RootsCreated, StpIdle
<1>2. TransitionsInsert
  BY EmptyTypes
  DEF Init, TransitionsInsert, Inserts, StpProved, StpIdle, OcpIdle, NoTransition, NoBatch
<1>3. MinedIsOnChain /\ DoneIsOnChain /\ CountedOnce
  BY DEF Init, MinedIsOnChain, DoneIsOnChain, CountedOnce
<1> QED
  BY <1>1, <1>2, <1>3, TypeInit DEF IInv

\* A step that creates no root, leaves the contract and its transactions alone
\* and settles no vote.
LEMMA QuietStep ==
  ASSUME IInv, TypeInv', UNCHANGED <<content, lastRoot, chain, txs>>,
         \A v \in Votes : status'[v] = "done" => status[v] = "done",
         localRoot' \in 0 .. lastRoot, stp'.before \in 0 .. lastRoot,
         \A s \in st' : Inserts(s, content, lastRoot),
         Inserts(ocp'.trans, content, lastRoot),
         StpProved' => Inserts(stp', content, lastRoot)
  PROVE  IInv'
<1>1. RootsCreated'
  BY DEF IInv, RootsCreated
<1>2. TransitionsInsert'
  BY DEF IInv, TransitionsInsert
<1>3. MinedIsOnChain'
  BY DEF IInv, MinedIsOnChain, ChainRoot
<1>4. DoneIsOnChain' /\ CountedOnce'
  BY DEF IInv, DoneIsOnChain, CountedOnce, ChainRoot
<1> QED
  BY <1>1, <1>2, <1>3, <1>4 DEF IInv

\* setVoteIDStatus settles nothing unless it is told to.
LEMMA WithStatusDone ==
  ASSUME NEW old, NEW S, NEW new, new # "done", NEW v \in Votes, WithStatus(old, S, new)[v] = "done"
  PROVE  old[v] = "done"
BY DEF WithStatus

\* MarkStateTransitionBatchFailed sets no status to done.
LEMMA FailedSettlesNothing ==
  ASSUME NEW s, MarkStateTransitionBatchFailed(s)
  PROVE  st' \subseteq st /\ \A v \in Votes : status'[v] = "done" => status[v] = "done"
<1>1. st' \subseteq st
  BY DEF MarkStateTransitionBatchFailed, queueVars
<1>2. \/ status' = status
      \/ \E A : status' = WithStatus(status, A, "error")
      \/ \E A, B : status' = WithStatus(WithStatus(status, A, "error"), B, "aggregated")
  BY DEF MarkStateTransitionBatchFailed
<1> QED
  BY <1>1, <1>2, WithStatusDone

\* MarkStateTransitionBatchOutdated sets no status to done.
LEMMA OutdatedSettlesNothing ==
  ASSUME NEW s, MarkStateTransitionBatchOutdated(s)
  PROVE  st' \subseteq st /\ \A v \in Votes : status'[v] = "done" => status[v] = "done"
<1>1. st' \subseteq st
  BY DEF MarkStateTransitionBatchOutdated
<1>2. status' = status \/ \E A : status' = WithStatus(status, A, "aggregated")
  BY DEF MarkStateTransitionBatchOutdated
<1> QED
  BY <1>1, <1>2, WithStatusDone

\* A root that is new to everybody leaves the proved transitions as they are.
LEMMA InsertsKept ==
  ASSUME NEW t, NEW tree, NEW last \in Nat, NEW new, tree \in [Roots -> SUBSET Votes],
         last + 1 \in Roots, Inserts(t, tree, last)
  PROVE  Inserts(t, [tree EXCEPT ![last + 1] = new], last + 1)
<1>1. \A r \in 0 .. last : r # last + 1 /\ r \in 0 .. last + 1 /\ r \in Roots
  BY BoundAssumption DEF Roots
<1>2. \A r \in 0 .. last : [tree EXCEPT ![last + 1] = new][r] = tree[r]
  BY <1>1
<1> QED
  BY <1>1, <1>2 DEF Inserts

\* The same for all the transitions and roots that the state names.
LEMMA RootCreated ==
  ASSUME IInv, NEW new, lastRoot + 1 \in Roots,
         lastRoot' = lastRoot + 1, content' = [content EXCEPT ![lastRoot + 1] = new]
  PROVE  /\ \A r \in 0 .. lastRoot : content'[r] = content[r] /\ r \in 0 .. lastRoot'
         /\ content'[lastRoot + 1] = new /\ lastRoot + 1 \in 0 .. lastRoot'
         /\ \A s \in st : Inserts(s, content', lastRoot')
         /\ Inserts(ocp.trans, content', lastRoot')
         /\ \A i \in DOMAIN txs : Inserts(txs[i].trans, content', lastRoot')
         /\ StpProved => Inserts(stp, content', lastRoot')
<1>1. lastRoot \in Nat /\ content \in [Roots -> SUBSET Votes]
  BY BoundAssumption DEF IInv, TypeInv, ChainTypes, Roots
<1>2. \A r \in 0 .. lastRoot : r \in Roots /\ r # lastRoot + 1
  BY <1>1, BoundAssumption DEF Roots
<1>3. /\ \A r \in 0 .. lastRoot : content'[r] = content[r] /\ r \in 0 .. lastRoot'
      /\ content'[lastRoot + 1] = new /\ lastRoot + 1 \in 0 .. lastRoot'
  BY <1>1, <1>2
<1>4. \A t : Inserts(t, content, lastRoot) => Inserts(t, content', lastRoot')
  BY <1>1, InsertsKept
<1> QED
  BY <1>3, <1>4 DEF IInv, TransitionsInsert

\* A step of a callback.
LEMMA WaiterStep ==
  ASSUME IInv, TypeInv', NEW i \in DOMAIN txs,
         NEW x \in {"waiting", "promoted", "prune", "gone"}, txs' = [txs EXCEPT ![i].waiter = x],
         x = "promoted" => txs[i].state = "mined",
         UNCHANGED <<content, lastRoot, chain, ocp, stp>>,
         localRoot' \in 0 .. lastRoot, st' \subseteq st,
         \A v \in Votes : status'[v] = "done" => v \in content[ChainRoot]
  PROVE  IInv'
<1>1. /\ DOMAIN txs' = DOMAIN txs /\ txs'[i] = [txs[i] EXCEPT !.waiter = x]
      /\ \A j \in DOMAIN txs \ {i} : txs'[j] = txs[j]
  BY TxWaiterUpdate DEF IInv, TypeInv
<1>2. txs'[i].trans = txs[i].trans /\ txs'[i].state = txs[i].state /\ txs'[i].waiter = x
  BY <1>1, TxFields DEF IInv, TypeInv, Tx
<1>3. \A j \in DOMAIN txs : txs'[j].trans = txs[j].trans /\ txs'[j].state = txs[j].state
  BY <1>1, <1>2
<1>4. RootsCreated'
  BY DEF IInv, RootsCreated
<1>5. TransitionsInsert'
  BY <1>1, <1>3 DEF IInv, TransitionsInsert, StpProved
<1>6. MinedIsOnChain'
  BY <1>1, <1>2, <1>3 DEF IInv, MinedIsOnChain, ChainRoot
<1>7. DoneIsOnChain' /\ CountedOnce'
  BY <1>1, <1>3 DEF IInv, DoneIsOnChain, CountedOnce, ChainRoot
<1> QED
  BY <1>4, <1>5, <1>6, <1>7 DEF IInv

\* Every step of the processors, of a callback, of the chain, of state sync and
\* of a crash preserves IInv.
LEMMA InvStep ==
  ASSUME IInv, [Next]_vars
  PROVE  IInv'
<1>0. TypeInv'
  BY TypeStep DEF IInv
<1>a. /\ localRoot \in 0 .. lastRoot /\ stp.before \in 0 .. lastRoot /\ 0 \in 0 .. lastRoot
      /\ \A s \in st : Inserts(s, content, lastRoot)
      /\ Inserts(ocp.trans, content, lastRoot)
      /\ StpProved => Inserts(stp, content, lastRoot)
      /\ Inserts(NoTransition, content, lastRoot)
  <2>1. lastRoot \in Nat
    BY BoundAssumption DEF IInv, TypeInv, ChainTypes, Roots
  <2> QED
    BY <2>1 DEF IInv, RootsCreated, TransitionsInsert, Inserts, NoTransition, NoBatch
<1>b. /\ lastRoot \in Nat /\ content \in [Roots -> SUBSET Votes] /\ ChainRoot \in 0 .. lastRoot
      /\ \A k \in 1 .. Len(chain) : chain[k] \in 0 .. lastRoot
      /\ chain \in Seq(Roots) /\ Len(chain) \in Nat \ {0} /\ TxTypes
  BY BoundAssumption DEF IInv, TypeInv, ChainTypes, RootsCreated, ChainRoot, Roots
<1>1. ASSUME NEW S \in SUBSET Votes, Aggregate(S) PROVE IInv'
  BY <1>0, <1>a, <1>1, QuietStep, WithStatusDone DEF Aggregate, treeVars, chainVars, StpProved
<1>3. ASSUME NEW b \in ag, StpTake(b) PROVE IInv'
  BY <1>0, <1>a, <1>3, QuietStep DEF StpTake, treeVars, chainVars, StpProved, StpIdle
<1>4. CASE StpLoad
  <2>1. stp'.before \in 0 .. lastRoot /\ ~StpProved'
    BY <1>a, <1>4 DEF StpLoad, StpProved, IInv, TypeInv, StpTypes
  <2> QED
    BY <1>0, <1>a, <1>4, <2>1, QuietStep DEF StpLoad, treeVars, chainVars, queueVars
<1>6. CASE StpProofFails
  BY <1>0, <1>a, <1>6, QuietStep DEF StpProofFails, treeVars, chainVars, queueVars, StpProved,
                                     IInv, TypeInv, StpTypes
<1>7. CASE StpMarkFailed
  <2>1. \A v \in Votes : status'[v] = "done" => status[v] = "done"
    BY <1>7, WithStatusDone DEF StpMarkFailed, MarkAggregatorBatchFailed
  <2>2. stp'.before \in 0 .. lastRoot /\ ~StpProved'
    BY <1>a, <1>7 DEF StpMarkFailed, StpProved, StpIdle
  <2> QED
    BY <1>0, <1>a, <1>7, <2>1, <2>2, QuietStep
    DEF StpMarkFailed, MarkAggregatorBatchFailed, treeVars, chainVars
<1>8. CASE StpSetPendingTx
  BY <1>0, <1>a, <1>8, QuietStep DEF StpSetPendingTx, treeVars, chainVars, StpProved, Inserts,
                                     IInv, TypeInv, StpTypes
<1>9. CASE StpMarkPending
  <2>1. CASE pag = NoBatch
    BY <1>0, <1>a, <1>9, <2>1, QuietStep DEF StpMarkPending, treeVars, chainVars, StpProved,
                                             Inserts, IInv, TypeInv, StpTypes
  <2>2. CASE pag # NoBatch
    BY <1>0, <1>a, <1>9, <2>2, QuietStep
    DEF StpMarkPending, treeVars, chainVars, StpProved, StpIdle
  <2> QED
    BY <2>1, <2>2
<1>10. CASE StpPush
  BY <1>0, <1>a, <1>10, QuietStep, WithStatusDone
  DEF StpPush, treeVars, chainVars, StpProved, Inserts, IInv, TypeInv, StpTypes
<1>11. CASE StpDone
  BY <1>0, <1>a, <1>11, QuietStep DEF StpDone, treeVars, chainVars, StpProved, StpIdle
<1>12. ASSUME NEW s \in st, OcpTake(s) PROVE IInv'
  BY <1>0, <1>a, <1>12, QuietStep DEF OcpTake, treeVars, chainVars, StpProved
<1>13. CASE OcpCheckRoot
  BY <1>0, <1>a, <1>13, QuietStep DEF OcpCheckRoot, treeVars, chainVars, queueVars, StpProved,
                                      OcpIdle, IInv, TypeInv, OcpTypes
<1>14. CASE OcpOutdated
  BY <1>0, <1>a, <1>14, QuietStep, OutdatedSettlesNothing
  DEF OcpOutdated, treeVars, chainVars, StpProved, OcpIdle
<1>16. CASE OcpMarkFailed
  BY <1>0, <1>a, <1>16, QuietStep, FailedSettlesNothing
  DEF OcpMarkFailed, treeVars, chainVars, StpProved, OcpIdle
<1>22. CASE RootEvent
  BY <1>0, <1>a, <1>22, QuietStep DEF RootEvent, treeVars, chainVars, queueVars, StpProved
<1>23. CASE RepeatEvents
  BY <1>0, <1>a, <1>23, QuietStep DEF RepeatEvents, treeVars, chainVars, queueVars, StpProved
<1>24. CASE SyncApply
  <2>1. Head(syncQueue) \in 2 .. Len(chain)
    BY <1>24 DEF SyncApply, IInv, TypeInv, SyncTypes
  <2>2. chain[Head(syncQueue)] \in 0 .. lastRoot
    BY <2>1 DEF IInv, RootsCreated
  <2> QED
    BY <1>0, <1>a, <1>24, <2>2, QuietStep DEF SyncApply, chainVars, queueVars, StpProved
<1>25. CASE PhaseChange \/ CheckAndRegister
  BY <1>0, <1>a, <1>25, QuietStep
  DEF PhaseChange, CheckAndRegister, treeVars, chainVars, queueVars,
                                      StpProved
<1>26. CASE CleanupEndedProcess
  BY <1>0, <1>a, <1>26, QuietStep, WithStatusDone DEF CleanupEndedProcess, treeVars, chainVars,
                                                      StpProved
<1>27. CASE ReleaseStaleReservations
  BY <1>0, <1>a, <1>27, QuietStep DEF ReleaseStaleReservations, treeVars, chainVars, StpProved
<1>29. CASE UNCHANGED vars
  BY <1>0, <1>a, <1>29, QuietStep DEF vars, treeVars, chainVars, queueVars, StpProved
<1>2. ASSUME NEW S \in SUBSET Votes, ForeignTransition(S) PROVE IInv'
  <2> DEFINE new == content[ChainRoot] \cup S
  <2>1. lastRoot + 1 \in Roots
    BY <1>2, <1>b, BoundAssumption DEF ForeignTransition, Roots
  <2>2. /\ \A r \in 0 .. lastRoot : content'[r] = content[r] /\ r \in 0 .. lastRoot'
        /\ content'[lastRoot + 1] = new /\ lastRoot + 1 \in 0 .. lastRoot'
        /\ \A s \in st : Inserts(s, content', lastRoot')
        /\ Inserts(ocp.trans, content', lastRoot')
        /\ \A i \in DOMAIN txs : Inserts(txs[i].trans, content', lastRoot')
        /\ StpProved => Inserts(stp, content', lastRoot')
    BY <1>2, <2>1, RootCreated DEF ForeignTransition
  <2>3. /\ Len(chain') = Len(chain) + 1 /\ chain'[Len(chain')] = lastRoot + 1
        /\ \A k \in 1 .. Len(chain) : chain'[k] = chain[k]
    BY <1>2, <2>1, <1>b DEF ForeignTransition
  <2>4. RootsCreated'
    BY <1>2, <1>a, <1>b, <2>2, <2>3 DEF ForeignTransition, RootsCreated
  <2>5. TransitionsInsert'
    BY <1>2, <2>2 DEF ForeignTransition, TransitionsInsert, queueVars, StpProved
  <2>6. \A r \in 0 .. lastRoot : content[r] \subseteq content[ChainRoot]
                                   => content'[r] \subseteq content'[ChainRoot']
    BY <2>2, <2>3 DEF ChainRoot
  <2>7. \A i \in DOMAIN txs : txs[i].trans.after \in 0 .. lastRoot
    BY DEF IInv, TransitionsInsert, Inserts
  <2>8. MinedIsOnChain'
    BY <1>2, <2>6, <2>7 DEF ForeignTransition, IInv, MinedIsOnChain
  <2>9. DoneIsOnChain' /\ CountedOnce'
    BY <1>2, <2>2, <2>3 DEF ForeignTransition, IInv, DoneIsOnChain, CountedOnce, ChainRoot
  <2> QED
    BY <1>0, <2>4, <2>5, <2>8, <2>9 DEF IInv
<1>5. CASE StpCommit
  <2>1. lastRoot + 1 \in Roots
    BY <1>5, <1>b, BoundAssumption DEF StpCommit, Roots
  <2>2. /\ \A r \in 0 .. lastRoot : content'[r] = content[r] /\ r \in 0 .. lastRoot'
        /\ content'[lastRoot + 1] = content[stp.before] \cup stp.batch.votes
        /\ lastRoot + 1 \in 0 .. lastRoot'
        /\ \A s \in st : Inserts(s, content', lastRoot')
        /\ Inserts(ocp.trans, content', lastRoot')
        /\ \A i \in DOMAIN txs : Inserts(txs[i].trans, content', lastRoot')
    BY <1>5, <2>1, RootCreated DEF StpCommit
  <2>3. /\ stp'.batch = stp.batch /\ stp'.before = stp.before /\ stp'.after = lastRoot + 1
    BY <1>5 DEF StpCommit, IInv, TypeInv, StpTypes
  <2>4. Inserts(stp', content', lastRoot')
    BY <1>5, <1>a, <2>2, <2>3 DEF StpCommit, Inserts, Provable
  <2>5. RootsCreated'
    BY <1>5, <1>a, <1>b, <2>2, <2>3 DEF StpCommit, RootsCreated, chainVars
  <2>6. TransitionsInsert'
    BY <1>5, <2>2, <2>4 DEF StpCommit, TransitionsInsert, queueVars, chainVars
  <2>7. \A i \in DOMAIN txs : txs[i].trans.after \in 0 .. lastRoot
    BY DEF IInv, TransitionsInsert, Inserts
  <2>8. ChainRoot' = ChainRoot /\ content'[ChainRoot] = content[ChainRoot]
    BY <1>5, <1>b, <2>2 DEF StpCommit, chainVars, ChainRoot
  <2>9. MinedIsOnChain'
    BY <1>5, <2>2, <2>7, <2>8 DEF StpCommit, IInv, MinedIsOnChain, chainVars
  <2>10. DoneIsOnChain' /\ CountedOnce'
    BY <1>5, <2>8 DEF StpCommit, IInv, DoneIsOnChain, CountedOnce, chainVars
  <2> QED
    BY <1>0, <2>5, <2>6, <2>9, <2>10 DEF IInv
<1>15. CASE OcpSend
  <2>1. CASE txs' = txs
    <3>1. ocp'.trans = ocp.trans \/ ocp'.trans = NoTransition
      BY <1>15 DEF OcpSend, OcpIdle, IInv, TypeInv, OcpTypes
    <3> QED
      BY <1>0, <1>a, <1>15, <2>1, <3>1, QuietStep DEF OcpSend, treeVars, queueVars, StpProved
  <2>2. CASE txs' # txs
    <3> DEFINE tx == [trans |-> ocp.trans, state |-> "pool", waiter |-> "waiting"]
    <3>1. txs' = Append(txs, tx) /\ ocp' = OcpIdle
      BY <1>15, <2>2 DEF OcpSend
    <3>2. tx \in Tx
      BY DEF IInv, TypeInv, OcpTypes, Tx
    <3>3. /\ DOMAIN txs' = DOMAIN txs \cup {Len(txs) + 1} /\ txs'[Len(txs) + 1] = tx
          /\ \A i \in DOMAIN txs : txs'[i] = txs[i]
      BY <1>b, <3>1, <3>2 DEF TxTypes
    <3>4. \A i \in DOMAIN txs' : txs'[i] = tx \/ (i \in DOMAIN txs /\ txs'[i] = txs[i])
      BY <3>3
    <3>5. RootsCreated'
      BY <1>15, <1>a, <1>b DEF OcpSend, RootsCreated, treeVars
    <3>6. TransitionsInsert'
      <4>1. \A i \in DOMAIN txs' : Inserts(txs'[i].trans, content, lastRoot)
        BY <1>a, <3>4 DEF IInv, TransitionsInsert
      <4> QED
        BY <1>15, <1>a, <3>1, <4>1 DEF OcpSend, TransitionsInsert, treeVars, queueVars, StpProved,
                                       OcpIdle
    <3>7. MinedIsOnChain'
      BY <1>15, <3>4 DEF OcpSend, IInv, MinedIsOnChain, treeVars, ChainRoot
    <3>8. DoneIsOnChain'
      BY <1>15 DEF OcpSend, IInv, DoneIsOnChain, treeVars, ChainRoot
    <3>9. CountedOnce'
      <4>1. \A i \in DOMAIN txs' : txs'[i].state = "mined" => i \in DOMAIN txs /\ txs'[i] = txs[i]
        BY <3>4
      <4> QED
        BY <4>1 DEF IInv, CountedOnce
    <3> QED
      BY <1>0, <3>5, <3>6, <3>7, <3>8, <3>9 DEF IInv
  <2> QED
    BY <2>1, <2>2
<1>17. ASSUME NEW i \in DOMAIN txs, ExecuteTx(i) PROVE IInv'
  <2>1. \E x \in {"mined", "reverted"} : txs' = [txs EXCEPT ![i].state = x]
    BY <1>17 DEF ExecuteTx
  <2>2. PICK x \in {"mined", "reverted"} : txs' = [txs EXCEPT ![i].state = x]
    BY <2>1
  <2>3. /\ DOMAIN txs' = DOMAIN txs /\ txs'[i] = [txs[i] EXCEPT !.state = x]
        /\ \A j \in DOMAIN txs \ {i} : txs'[j] = txs[j]
    BY <1>b, <2>2, TxStateUpdate
  <2>4. txs'[i].trans = txs[i].trans /\ txs'[i].waiter = txs[i].waiter /\ txs'[i].state = x
    BY <1>b, <2>3, TxFields DEF Tx
  <2>5. \A j \in DOMAIN txs : txs'[j].trans = txs[j].trans /\ txs'[j].waiter = txs[j].waiter
    BY <2>3, <2>4
  <2>6. Inserts(txs[i].trans, content, lastRoot)
    BY DEF IInv, TransitionsInsert
  <2>7. /\ UNCHANGED <<content, lastRoot, localRoot, st, ocp, stp, status>>
    BY <1>17 DEF ExecuteTx, treeVars, queueVars
  <2>8. TransitionsInsert'
    BY <2>3, <2>5, <2>7 DEF IInv, TransitionsInsert, StpProved
  <2>9. CASE txs[i].trans.before = ChainRoot
    <3>1. chain' = Append(chain, txs[i].trans.after) /\ txs' = [txs EXCEPT ![i].state = "mined"]
      BY <1>17, <2>9 DEF ExecuteTx
    <3>2. txs[i].trans.after \in Roots /\ txs[i].trans.after \in 0 .. lastRoot
      BY <1>b, <2>6, TxFields DEF Inserts
    <3>3. /\ Len(chain') = Len(chain) + 1 /\ chain'[Len(chain')] = txs[i].trans.after
          /\ \A k \in 1 .. Len(chain) : chain'[k] = chain[k]
      BY <1>b, <3>1, <3>2
    <3>4. RootsCreated'
      BY <1>a, <1>b, <2>7, <3>2, <3>3 DEF RootsCreated
    <3>5. /\ content'[ChainRoot'] = content[ChainRoot] \cup txs[i].trans.batch.votes
          /\ content[ChainRoot] \cap txs[i].trans.batch.votes = {}
      BY <2>6, <2>7, <2>9, <3>3 DEF ChainRoot, Inserts
    <3>6. DoneIsOnChain'
      BY <2>7, <3>5 DEF IInv, DoneIsOnChain
    <3>7. ASSUME NEW j \in DOMAIN txs
          PROVE  /\ txs'[j].waiter = "promoted" => txs'[j].state = "mined"
                 /\ txs'[j].state = "mined"
                      => content'[txs'[j].trans.after] \subseteq content'[ChainRoot']
      <4>1. CASE j = i
        <5>1. content'[txs[i].trans.after] = content'[ChainRoot']
          BY <3>3 DEF ChainRoot
        <5>2. txs[i].waiter # "promoted"
          BY <1>17 DEF ExecuteTx, IInv, MinedIsOnChain
        <5> QED
          BY <2>4, <4>1, <5>1, <5>2
      <4>2. CASE j # i
        BY <2>3, <2>7, <3>5, <4>2 DEF IInv, MinedIsOnChain
      <4> QED
        BY <4>1, <4>2
    <3>8. MinedIsOnChain'
      BY <2>3, <3>7 DEF MinedIsOnChain
    <3>9. CountedOnce'
      <4>1. \A j \in DOMAIN txs \ {i} :
              txs[j].state = "mined" => txs[j].trans.batch.votes \subseteq content[ChainRoot]
        BY DEF IInv, MinedIsOnChain, TransitionsInsert, Inserts
      <4>2. \A j \in DOMAIN txs \ {i} : txs[j].state = "mined" =>
              txs[j].trans.batch.votes \cap txs[i].trans.batch.votes = {}
        BY <3>5, <4>1
      <4> QED
        BY <2>3, <2>4, <4>2 DEF IInv, CountedOnce
    <3> QED
      BY <1>0, <2>8, <3>4, <3>6, <3>8, <3>9 DEF IInv
  <2>10. CASE txs[i].trans.before # ChainRoot
    <3>1. chain' = chain /\ txs' = [txs EXCEPT ![i].state = "reverted"]
      BY <1>17, <2>10 DEF ExecuteTx
    <3>2. txs'[i].state = "reverted" /\ txs[i].waiter # "promoted"
      <4>1. [txs[i] EXCEPT !.state = "reverted"].state = "reverted"
        BY <1>b, TxFields DEF Tx
      <4>2. txs'[i] = [txs[i] EXCEPT !.state = "reverted"]
        BY <1>b, <3>1, TxStateUpdate
      <4> QED
        BY <1>17, <4>1, <4>2 DEF ExecuteTx, IInv, MinedIsOnChain
    <3>3. RootsCreated' /\ DoneIsOnChain'
      BY <1>b, <1>a, <2>7, <3>1 DEF RootsCreated, IInv, DoneIsOnChain, ChainRoot
    <3>4. MinedIsOnChain' /\ CountedOnce'
      BY <2>3, <2>5, <2>7, <3>1, <3>2 DEF IInv, MinedIsOnChain, CountedOnce, ChainRoot
    <3> QED
      BY <1>0, <2>8, <3>3, <3>4 DEF IInv
  <2> QED
    BY <2>9, <2>10
<1>18. ASSUME NEW i \in DOMAIN txs, CallbackError(i) PROVE IInv'
  <2>1. st' \subseteq st /\ \A v \in Votes : status'[v] = "done" => v \in content[ChainRoot]
    BY <1>18, FailedSettlesNothing DEF CallbackError, IInv, DoneIsOnChain
  <2> QED
    BY <1>0, <1>a, <1>18, <2>1, WaiterStep DEF CallbackError, treeVars
<1>19. ASSUME NEW i \in DOMAIN txs, CallbackPromote(i) PROVE IInv'
  <2>1. txs[i].trans.after \in 0 .. lastRoot
    BY DEF IInv, TransitionsInsert, Inserts
  <2>2. \A v \in Votes : status'[v] = "done" => v \in content[ChainRoot]
    BY <1>19 DEF CallbackPromote, IInv, DoneIsOnChain
  <2> QED
    BY <1>0, <1>19, <2>1, <2>2, WaiterStep DEF CallbackPromote, queueVars
<1>20. ASSUME NEW i \in DOMAIN txs, CallbackDone(i) PROVE IInv'
  <2>1. txs[i].trans.batch.votes \subseteq content[ChainRoot]
    BY <1>20 DEF CallbackDone, IInv, MinedIsOnChain, TransitionsInsert, Inserts
  <2>2. \A v \in Votes : status'[v] = "done" => v \in content[ChainRoot]
    BY <1>20, <2>1 DEF CallbackDone, MarkStateTransitionBatchDone, IInv, DoneIsOnChain
  <2>3. st' \subseteq st
    BY <1>20 DEF CallbackDone, MarkStateTransitionBatchDone
  <2> QED
    BY <1>0, <1>a, <1>20, <2>2, <2>3, WaiterStep DEF CallbackDone, treeVars
<1>21. ASSUME NEW i \in DOMAIN txs, CallbackPrune(i) PROVE IInv'
  <2>1. \A v \in Votes : status'[v] = "done" => v \in content[ChainRoot]
    BY <1>21 DEF CallbackPrune, IInv, DoneIsOnChain
  <2> QED
    BY <1>0, <1>a, <1>21, <2>1, WaiterStep DEF CallbackPrune, treeVars
<1>28. CASE Restart
  <2>1. DOMAIN txs' = DOMAIN txs
    BY <1>28, <1>b DEF Restart, TxTypes
  <2>2. \A i \in DOMAIN txs : /\ txs'[i].trans = txs[i].trans /\ txs'[i].state = txs[i].state
                              /\ txs'[i].waiter = "gone"
    <3> TAKE i \in DOMAIN txs
    <3>1. txs'[i] = [txs[i] EXCEPT !.waiter = "gone"] /\ txs[i] \in Tx
      BY <1>28, <1>b, TxFields DEF Restart
    <3> QED
      BY <3>1 DEF Tx
  <2>3. /\ UNCHANGED <<content, lastRoot, localRoot, st, status, chain>>
        /\ stp' = StpIdle /\ ocp' = OcpIdle
    BY <1>28 DEF Restart, treeVars
  <2>4. RootsCreated'
    BY <1>a, <1>b, <2>3 DEF RootsCreated, StpIdle
  <2>5. TransitionsInsert'
    BY <1>a, <2>1, <2>2, <2>3 DEF IInv, TransitionsInsert, StpProved, StpIdle, OcpIdle
  <2>6. MinedIsOnChain'
    BY <2>1, <2>2, <2>3 DEF IInv, MinedIsOnChain, ChainRoot
  <2>7. DoneIsOnChain' /\ CountedOnce'
    BY <2>1, <2>2, <2>3 DEF IInv, DoneIsOnChain, CountedOnce, ChainRoot
  <2> QED
    BY <1>0, <2>4, <2>5, <2>6, <2>7 DEF IInv
<1> QED
  BY <1>1, <1>2, <1>3, <1>4, <1>5, <1>6, <1>7, <1>8, <1>9, <1>10, <1>11, <1>12, <1>13, <1>14,
     <1>15, <1>16, <1>17, <1>18, <1>19, <1>20, <1>21, <1>22, <1>23, <1>24, <1>25, <1>26, <1>27,
     <1>28, <1>29 DEF Next, StpNext, OcpNext, CallbackNext

\* IInv holds in every reachable state of Settlement.
LEMMA Invariance == Spec => []IInv
BY InvInit, InvStep, PTL DEF Spec

----------------------------------------------------------------------------

\* MarkStateTransitionBatchDone is called for votes that the contract counts and
\* goes on counting, whatever fails, crashes, is repeated or is settled by other
\* sequencers in between: a vote reported as done is on chain.
THEOREM DoneVotesAreOnChain == Spec => []DoneIsOnChain
BY Invariance, PTL DEF IInv

\* However often a batch is retried, and whatever becomes of the transactions of
\* earlier attempts, the transitions of this node that are mined never insert a
\* vote ID twice.
THEOREM VotesAreCountedOnce == Spec => []CountedOnce
BY Invariance, PTL DEF IInv

----------------------------------------------------------------------------
(* The pipeline implements the ledger                                      *)

Done == {v \in Votes : status[v] = "done"}

\* setVoteIDStatus never takes done back.
LEMMA WithStatusKeeps ==
  ASSUME NEW old, NEW S, NEW new, NEW v \in Votes, old[v] = "done"
  PROVE  WithStatus(old, S, new)[v] = "done"
BY DEF WithStatus

\* Nor does any step of the node.
LEMMA DoneKept ==
  ASSUME [Next]_vars
  PROVE  Done \subseteq Done'
<1> SUFFICES ASSUME NEW v \in Votes, status[v] = "done" PROVE status'[v] = "done"
  BY DEF Done
<1>1. CASE status' = status
  BY <1>1
<1>2. CASE \E S, new : status' = WithStatus(status, S, new)
  BY <1>2, WithStatusKeeps
<1>3. CASE \E S, T, new, newer : status' = WithStatus(WithStatus(status, S, new), T, newer)
  BY <1>3, WithStatusKeeps
<1>4. ASSUME NEW s, MarkStateTransitionBatchFailed(s) PROVE status'[v] = "done"
  BY <1>1, <1>2, <1>3, <1>4 DEF MarkStateTransitionBatchFailed
<1>5. ASSUME NEW s, MarkStateTransitionBatchOutdated(s) PROVE status'[v] = "done"
  BY <1>1, <1>2, <1>5 DEF MarkStateTransitionBatchOutdated
<1>6. ASSUME NEW s, MarkStateTransitionBatchDone(s) PROVE status'[v] = "done"
  BY <1>1, <1>2, <1>6 DEF MarkStateTransitionBatchDone
<1>7. CASE StpNext
  <2>1. CASE StpMarkFailed
    BY <1>1, <1>2, <2>1 DEF StpMarkFailed, MarkAggregatorBatchFailed
  <2>2. CASE StpPush \/ StpDone
    BY <1>1, <1>2, <2>2 DEF StpPush, StpDone
  <2> QED
    BY <1>1, <1>7, <2>1, <2>2
    DEF StpNext, StpTake, StpLoad, StpCommit, StpProofFails, StpSetPendingTx, StpMarkPending
<1>8. CASE OcpNext
  BY <1>1, <1>4, <1>5, <1>8 DEF OcpNext, OcpTake, OcpCheckRoot, OcpOutdated, OcpSend, OcpMarkFailed
<1>9. ASSUME NEW i \in DOMAIN txs, ExecuteTx(i) \/ CallbackNext(i) PROVE status'[v] = "done"
  BY <1>1, <1>4, <1>6, <1>9
  DEF ExecuteTx, CallbackNext, CallbackError, CallbackPromote, CallbackDone, CallbackPrune
<1>10. ASSUME NEW S \in SUBSET Votes, Aggregate(S) \/ ForeignTransition(S) PROVE status'[v] = "done"
  BY <1>1, <1>2, <1>10 DEF Aggregate, ForeignTransition
<1>11. CASE PhaseChange \/ CheckAndRegister \/ CleanupEndedProcess \/ ReleaseStaleReservations \/ Restart
  BY <1>1, <1>2, <1>11
  DEF PhaseChange, CheckAndRegister, CleanupEndedProcess, ReleaseStaleReservations, Restart
<1>12. CASE RootEvent \/ RepeatEvents \/ SyncApply \/ UNCHANGED vars
  BY <1>1, <1>12 DEF RootEvent, RepeatEvents, SyncApply, vars
<1> QED
  BY <1>7, <1>8, <1>9, <1>10, <1>11, <1>12 DEF Next

\* The steps that leave the roots and the contract as they are.
LEMMA LedgerQuiet ==
  ASSUME [Next]_vars, ~StpCommit,
         \A i \in DOMAIN txs : ~ExecuteTx(i),
         \A S \in SUBSET Votes : ~ForeignTransition(S)
  PROVE  UNCHANGED <<content, chain>>
<1>1. CASE StpNext
  BY <1>1
  DEF StpNext, StpTake, StpLoad, StpProofFails, StpMarkFailed, StpSetPendingTx, StpMarkPending,
      StpPush, StpDone, StpSkipPendingTx, treeVars, chainVars
<1>2. CASE OcpNext
  BY <1>2 DEF OcpNext, OcpTake, OcpCheckRoot, OcpOutdated, OcpSend, OcpMarkFailed, treeVars, chainVars
<1>3. ASSUME NEW i \in DOMAIN txs, CallbackNext(i) PROVE UNCHANGED <<content, chain>>
  BY <1>3 DEF CallbackNext, CallbackError, CallbackPromote, CallbackDone, CallbackPrune, treeVars
<1>4. ASSUME NEW S \in SUBSET Votes, Aggregate(S) PROVE UNCHANGED <<content, chain>>
  BY <1>4 DEF Aggregate, treeVars, chainVars
<1>5. CASE PhaseChange \/ CheckAndRegister \/ CleanupEndedProcess \/ ReleaseStaleReservations \/ Restart
  BY <1>5
  DEF PhaseChange, CheckAndRegister, CleanupEndedProcess, ReleaseStaleReservations, Restart,
      treeVars, chainVars
<1>6. CASE RootEvent \/ RepeatEvents \/ SyncApply \/ UNCHANGED vars
  BY <1>6 DEF RootEvent, RepeatEvents, SyncApply, vars, treeVars, chainVars
<1> QED
  BY <1>1, <1>2, <1>3, <1>4, <1>5, <1>6 DEF Next

\* Every step of the pipeline is one of the ledger, or is not seen in it.
LEMMA LedgerStep ==
  ASSUME IInv, [Next]_vars
  PROVE  [Ledger!LedgerNext]_<<content[ChainRoot], Done>>
<1> DEFINE counted == content[ChainRoot]
<1>1. IInv' /\ Done \subseteq Done' /\ Done \in SUBSET Votes /\ Done' \in SUBSET Votes
  BY InvStep, DoneKept DEF Done
<1>2. /\ lastRoot \in Nat /\ content \in [Roots -> SUBSET Votes] /\ ChainRoot \in 0 .. lastRoot
      /\ chain \in Seq(Roots) /\ Len(chain) \in Nat \ {0}
  BY BoundAssumption DEF IInv, TypeInv, ChainTypes, RootsCreated, ChainRoot, Roots
<1>3. ASSUME counted' = counted
      PROVE  Ledger!LedgerNext
  <2>1. Done' \subseteq counted
    BY <1>1, <1>3 DEF IInv, DoneIsOnChain, Done
  <2>2. PICK S \in SUBSET Votes : S = Done'
    BY <1>1
  <2>3. S \subseteq counted /\ Done' = Done \cup S
    BY <1>1, <2>1, <2>2
  <2>4. Ledger!Settle(S)
    BY <1>3, <2>3 DEF Ledger!Settle, Done
  <2> QED
    BY <2>4 DEF Ledger!LedgerNext
<1>4. ASSUME NEW S \in SUBSET Votes, S \cap counted = {}, counted' = counted \cup S, status' = status
      PROVE  Ledger!LedgerNext
  BY <1>4 DEF Ledger!LedgerNext, Ledger!Count, Done
<1>5. CASE StpCommit
  <2>1. chain' = chain /\ (content' = content \/ content' =
            [content EXCEPT ![lastRoot + 1] = content[stp.before] \cup stp.batch.votes])
    BY <1>5 DEF StpCommit, chainVars
  <2>2. ChainRoot # lastRoot + 1 /\ ChainRoot' = ChainRoot /\ ChainRoot \in Roots
    BY <1>2, <2>1 DEF ChainRoot
  <2>3. content'[ChainRoot] = content[ChainRoot]
    BY <1>2, <2>1, <2>2
  <2>4. counted' = counted
    BY <2>2, <2>3
  <2> QED
    BY <1>3, <2>4
<1>6. ASSUME NEW i \in DOMAIN txs, ExecuteTx(i) PROVE Ledger!LedgerNext
  <2> DEFINE t == txs[i].trans
  <2>1. content' = content /\ status' = status
    BY <1>6 DEF ExecuteTx, treeVars
  <2>2. Inserts(t, content, lastRoot)
    BY DEF IInv, TransitionsInsert
  <2>3. CASE t.before = ChainRoot
    <3>1. chain' = Append(chain, t.after)
      BY <1>6, <2>3 DEF ExecuteTx
    <3>2. t.after \in Roots /\ t.batch.votes \in SUBSET Votes
      BY TxFields DEF IInv, TypeInv, TxTypes, Tx, Transition, Batch
    <3>3. ChainRoot' = t.after
      BY <1>2, <3>1, <3>2 DEF ChainRoot
    <3>4. counted' = counted \cup t.batch.votes /\ t.batch.votes \cap counted = {}
      BY <2>1, <2>2, <2>3, <3>3 DEF Inserts
    <3> QED
      BY <1>4, <2>1, <3>2, <3>4
  <2>4. CASE t.before # ChainRoot
    <3>1. counted' = counted
      BY <1>6, <2>1, <2>4 DEF ExecuteTx, ChainRoot
    <3> QED
      BY <1>3, <3>1
  <2> QED
    BY <2>3, <2>4
<1>7. ASSUME NEW S \in SUBSET Votes, ForeignTransition(S) PROVE Ledger!LedgerNext
  <2>1. /\ lastRoot + 1 \in Roots /\ S \cap counted = {} /\ status' = status
        /\ content' = [content EXCEPT ![lastRoot + 1] = counted \cup S]
        /\ chain' = Append(chain, lastRoot + 1)
    BY <1>2, <1>7, BoundAssumption DEF ForeignTransition, Provable, Roots
  <2>2. ChainRoot' = lastRoot + 1
    BY <1>2, <2>1 DEF ChainRoot
  <2>3. counted' = counted \cup S
    BY <1>2, <2>1, <2>2
  <2> QED
    BY <1>4, <2>1, <2>3
<1>8. CASE UNCHANGED <<content, chain>>
  BY <1>3, <1>8 DEF ChainRoot
<1> QED
  BY <1>5, <1>6, <1>7, <1>8, LedgerQuiet

\* The transitions of this node and of others build one ledger on chain, in which
\* every vote is counted once and for good, and what the node settles is on it and
\* stays settled; for any number of votes, roots, transactions, crashes and
\* repeated events.
THEOREM PipelineIsALedger == Spec => VotesAreOnTheLedger
<1>1. Init => Ledger!LedgerInit
  <2> SUFFICES ASSUME Init PROVE Ledger!LedgerInit
    OBVIOUS
  <2>1. content[ChainRoot] = {}
    BY BoundAssumption DEF Init, ChainRoot, Roots
  <2>2. Done = {}
    BY DEF Init, Done
  <2> QED
    BY <2>1, <2>2 DEF Ledger!LedgerInit, Done
<1> QED
  BY <1>1, Invariance, LedgerStep, PTL DEF Spec, VotesAreOnTheLedger, Ledger!LedgerSpec, Done
=============================================================================
